---------------------------- MODULE PartsProofs ----------------------------
(***************************************************************************)
(* What holds of a component by itself holds of it in Parts: a behaviour   *)
(* of Parts, restricted to the variables of one component, is a behaviour  *)
(* of that component or one in which it never moves.  The component's own  *)
(* proofs are here too, but for the ring's, which are in RingProofs.       *)
(***************************************************************************)
EXTENDS RingProofs

-----------------------------------------------------------------------------
(* The lock manager, for every number of transactions and keys.            *)

LEMMA GrantStep ==
  ASSUME Locks!LockInv, NEW t \in Txs, NEW k \in Keys, NEW m \in {"READ", "WRITE"},
         Locks!Grant(t, k, m),
         \/ mode[k] = "NONE"
         \/ mode[k] = "READ" /\ (m = "READ" \/ holders[k] = {t})
  PROVE  Locks!LockInv'
<1>1. Locks!TypeOK'
  BY DEF Locks!LockInv, Locks!TypeOK, Locks!Grant, Locks!Modes
<1>2. \A k2 \in Keys : holders'[k2] = IF k2 = k THEN holders[k] \cup {t}
                                              ELSE holders[k2]
  BY DEF Locks!LockInv, Locks!TypeOK, Locks!Grant
<1>3. \A k2 \in Keys : mode'[k2] = IF k2 = k THEN m ELSE mode[k2]
  BY DEF Locks!LockInv, Locks!TypeOK, Locks!Grant
<1>4. \A t2 \in Txs, k2 \in Keys :
        txLocks'[t2][k2] = IF t2 = t /\ k2 = k THEN m ELSE txLocks[t2][k2]
  BY DEF Locks!LockInv, Locks!TypeOK, Locks!Grant
<1>5. Locks!TablesAgree'
  BY <1>2, <1>3, <1>4 DEF Locks!LockInv, Locks!TablesAgree
<1>6. Locks!Exclusive'
  BY <1>2, <1>3 DEF Locks!LockInv, Locks!Exclusive, Locks!TablesAgree
<1>7. Locks!DeniedByOther'
  BY DEF Locks!Grant, Locks!DeniedByOther
<1> QED
  BY <1>1, <1>5, <1>6, <1>7 DEF Locks!LockInv

LEMMA KeepStep ==
  ASSUME Locks!LockInv, Locks!Keep
  PROVE  Locks!LockInv'
BY DEF Locks!Keep, Locks!LockInv, Locks!TypeOK, Locks!TablesAgree,
       Locks!Exclusive, Locks!DeniedByOther

LEMMA DenyStep ==
  ASSUME Locks!LockInv, NEW t \in Txs, NEW k \in Keys, Locks!Deny(t, k),
         \E u \in Txs \ {t} : u \in holders[k]
  PROVE  Locks!LockInv'
<1>1. Locks!TypeOK' /\ Locks!TablesAgree' /\ Locks!Exclusive'
  BY DEF Locks!Deny, Locks!LockInv, Locks!TypeOK, Locks!TablesAgree, Locks!Exclusive
<1>2. Locks!DeniedByOther'
  BY DEF Locks!Deny, Locks!DeniedByOther
<1> QED
  BY <1>1, <1>2 DEF Locks!LockInv

LEMMA LeaveStep ==
  ASSUME Locks!LockInv, NEW t \in Txs, NEW ks \in SUBSET Keys, Locks!Leave(t, ks),
         txLocks' \in [Txs -> [Keys -> Locks!Modes]],
         \A t2 \in Txs, k \in Keys :
           txLocks'[t2][k] = IF t2 = t /\ k \in ks THEN "NONE" ELSE txLocks[t2][k]
  PROVE  Locks!LockInv'
<1>1. Locks!TypeOK'
  BY DEF Locks!LockInv, Locks!TypeOK, Locks!Leave, Locks!Modes
<1>2. \A k \in Keys : holders'[k] = IF k \in ks THEN holders[k] \ {t}
                                            ELSE holders[k]
  BY DEF Locks!Leave
<1>3. \A k \in Keys : mode'[k] = IF k \in ks /\ holders[k] \subseteq {t}
                                 THEN "NONE" ELSE mode[k]
  BY DEF Locks!Leave
<1>4. Locks!TablesAgree'
  <2>1. SUFFICES ASSUME NEW k \in Keys
                 PROVE  /\ holders'[k] = {} <=> mode'[k] = "NONE"
                        /\ \A t2 \in Txs :
                             /\ t2 \in holders'[k] => txLocks'[t2][k] = mode'[k]
                             /\ t2 \notin holders'[k] => txLocks'[t2][k] = "NONE"
    BY DEF Locks!TablesAgree
  <2>2. holders'[k] = {} <=> mode'[k] = "NONE"
    BY <1>2, <1>3 DEF Locks!LockInv, Locks!TablesAgree
  <2>3. ASSUME NEW t2 \in Txs
        PROVE  /\ t2 \in holders'[k] => txLocks'[t2][k] = mode'[k]
               /\ t2 \notin holders'[k] => txLocks'[t2][k] = "NONE"
    <3>1. /\ t2 \in holders[k] => txLocks[t2][k] = mode[k]
          /\ t2 \notin holders[k] => txLocks[t2][k] = "NONE"
      BY <2>3 DEF Locks!LockInv, Locks!TablesAgree
    <3>2. CASE k \in ks /\ t2 = t
      <4>1. t2 \notin holders'[k]
        BY <1>2, <3>2
      <4>2. txLocks'[t2][k] = "NONE"
        BY <3>2
      <4> QED
        BY <4>1, <4>2
    <3>3. CASE ~(k \in ks /\ t2 = t)
      <4>1. txLocks'[t2][k] = txLocks[t2][k]
        BY <2>3, <3>3
      <4>2. t2 \in holders'[k] <=> t2 \in holders[k]
        BY <1>2, <3>3
      <4>3. t2 \in holders[k] => mode'[k] = mode[k]
        BY <1>3, <3>3
      <4> QED
        BY <3>1, <4>1, <4>2, <4>3
    <3> QED
      BY <3>2, <3>3
  <2> QED
    BY <2>2, <2>3
<1>5. Locks!Exclusive'
  <2>1. SUFFICES ASSUME NEW k \in Keys, mode'[k] = "WRITE"
                 PROVE  \E u \in Txs : holders'[k] = {u}
    BY DEF Locks!Exclusive
  <2>2. mode[k] = "WRITE" /\ ~(k \in ks /\ holders[k] \subseteq {t})
    BY <1>3, <2>1
  <2>3. PICK u \in Txs : holders[k] = {u}
    BY <2>2 DEF Locks!LockInv, Locks!Exclusive
  <2>4. holders'[k] = {u}
    <3>1. CASE k \in ks
      <4>1. u # t
        BY <2>2, <2>3, <3>1
      <4> QED
        BY <1>2, <2>3, <3>1, <4>1
    <3>2. CASE k \notin ks
      BY <1>2, <2>3, <3>2
    <3> QED
      BY <3>1, <3>2
  <2> QED
    BY <2>4
<1>6. Locks!DeniedByOther'
  BY DEF Locks!Leave, Locks!DeniedByOther
<1> QED
  BY <1>1, <1>4, <1>5, <1>6 DEF Locks!LockInv

LEMMA LockCallStep ==
  ASSUME Locks!LockInv, NEW t \in Txs,
         \/ Locks!Release(t)
         \/ \E k \in Keys : \/ Locks!AcquireRead(t, k)
                            \/ Locks!AcquireWrite(t, k)
                            \/ Locks!ReleaseKey(t, k)
  PROVE  Locks!LockInv'
<1>1. ASSUME NEW k \in Keys, Locks!AcquireRead(t, k)
      PROVE  Locks!LockInv'
  <2>1. mode[k] = "WRITE" /\ t \notin holders[k]
          => \E u \in Txs \ {t} : u \in holders[k]
    BY DEF Locks!LockInv, Locks!Exclusive
  <2> QED
    BY <1>1, <2>1, GrantStep, KeepStep, DenyStep DEF Locks!AcquireRead
<1>2. ASSUME NEW k \in Keys, Locks!AcquireWrite(t, k)
      PROVE  Locks!LockInv'
  <2>1. CASE Locks!Keep
    BY <2>1, KeepStep
  <2>2. CASE (mode[k] = "NONE" \/ Locks!CanUpgrade(t, k)) /\ Locks!Grant(t, k, "WRITE")
    BY <2>2, GrantStep DEF Locks!CanUpgrade
  <2>3. CASE mode[k] = "READ" /\ ~Locks!CanUpgrade(t, k) /\ Locks!Deny(t, k)
    <3>1. holders[k] # {} /\ holders[k] # {t} /\ holders[k] \subseteq Txs
      BY <2>3 DEF Locks!LockInv, Locks!TypeOK, Locks!TablesAgree, Locks!CanUpgrade
    <3>2. \E u \in Txs \ {t} : u \in holders[k]
      BY <3>1
    <3> QED
      BY <2>3, <3>2, DenyStep
  <2>4. CASE mode[k] = "WRITE" /\ t \notin holders[k] /\ Locks!Deny(t, k)
    <3>1. \E u \in Txs \ {t} : u \in holders[k]
      BY <2>4 DEF Locks!LockInv, Locks!Exclusive
    <3> QED
      BY <2>4, <3>1, DenyStep
  <2> QED
    BY <1>2, <2>1, <2>2, <2>3, <2>4 DEF Locks!AcquireWrite
<1>3. ASSUME NEW k \in Keys, Locks!ReleaseKey(t, k)
      PROVE  Locks!LockInv'
  <2>1. txLocks' \in [Txs -> [Keys -> Locks!Modes]]
    BY <1>3 DEF Locks!ReleaseKey, Locks!LockInv, Locks!TypeOK, Locks!Modes
  <2>2. \A t2 \in Txs, k2 \in Keys :
          txLocks'[t2][k2] = IF t2 = t /\ k2 \in {k} THEN "NONE"
                                                     ELSE txLocks[t2][k2]
    BY <1>3 DEF Locks!ReleaseKey, Locks!LockInv, Locks!TypeOK
  <2> QED
    BY <1>3, <2>1, <2>2, LeaveStep DEF Locks!ReleaseKey
<1>4. ASSUME Locks!Release(t)
      PROVE  Locks!LockInv'
  <2> DEFINE held == {k \in Keys : txLocks[t][k] # "NONE"}
  <2>1. txLocks' \in [Txs -> [Keys -> Locks!Modes]]
    BY <1>4 DEF Locks!Release, Locks!LockInv, Locks!TypeOK, Locks!Modes
  <2>2. \A t2 \in Txs, k \in Keys :
          txLocks'[t2][k] = IF t2 = t /\ k \in held THEN "NONE"
                                                    ELSE txLocks[t2][k]
    BY <1>4 DEF Locks!Release, Locks!LockInv, Locks!TypeOK
  <2>3. Locks!Leave(t, held) /\ held \in SUBSET Keys
    BY <1>4 DEF Locks!Release
  <2> QED
    BY <2>1, <2>2, <2>3, LeaveStep
<1> QED
  BY <1>1, <1>2, <1>3, <1>4

(* lock.go: the tables agree, write locks are exclusive, and only another  *)
(* transaction's lock can refuse one, after any sequence of calls.         *)
THEOREM LockManagerCorrect == Locks!Spec => []Locks!LockInv
<1>1. Locks!Init => Locks!LockInv
  BY DEF Locks!Init, Locks!LockInv, Locks!TypeOK, Locks!Modes,
         Locks!TablesAgree, Locks!Exclusive, Locks!DeniedByOther
<1>2. Locks!LockInv /\ [Locks!Next]_(Locks!vars) => Locks!LockInv'
  <2>1. ASSUME Locks!LockInv, UNCHANGED Locks!vars
        PROVE  Locks!LockInv'
    BY <2>1 DEF Locks!vars, Locks!LockInv, Locks!TypeOK,
                Locks!TablesAgree, Locks!Exclusive, Locks!DeniedByOther
  <2> QED
    BY <2>1, LockCallStep DEF Locks!Next
<1> QED
  BY <1>1, <1>2, PTL DEF Locks!Spec

LEMMA LocksRun == PartsSpec => Locks!Spec
<1>1. PartsInit => Locks!Init
  BY DEF PartsInit
<1>2. [PartsNext]_partsVars => [Locks!Next]_(Locks!vars)
  BY DEF PartsNext, partsVars, lockVars, Locks!vars
<1> QED
  BY <1>1, <1>2, PTL DEF PartsSpec, Locks!Spec

(* lock.go LockWrite, "Exclusive lock": a write lock has one holder.       *)
THEOREM LocksExclusive == PartsSpec => []Exclusive
<1>1. Locks!LockInv => Exclusive
  BY DEF Exclusive, Locks!LockInv, Locks!Exclusive
<1> QED
  BY <1>1, LocksRun, LockManagerCorrect, PTL

(* lock.go: what a transaction is recorded to hold is what the keys record *)
(* as held.                                                                *)
THEOREM LocksAgree == PartsSpec => []TablesAgree
<1>1. Locks!LockInv => TablesAgree
  BY DEF TablesAgree, Locks!LockInv, Locks!TablesAgree
<1> QED
  BY <1>1, LocksRun, LockManagerCorrect, PTL

(* lock.go: a lock is refused only on account of another transaction.      *)
THEOREM LocksDenied == PartsSpec => []DeniedByOther
<1>1. Locks!LockInv => DeniedByOther
  BY DEF DeniedByOther, Locks!LockInv, Locks!DeniedByOther
<1> QED
  BY <1>1, LocksRun, LockManagerCorrect, PTL

-----------------------------------------------------------------------------
(* The router's connection pool, for every number of goroutines, addresses *)
(* and connections.  What a goroutine does under the read lock does not    *)
(* depend on what it does under the write lock, so the proofs rest on one  *)
(* invariant: the pool's two tables say the same, only of connections that *)
(* have been made, and a call that is about to take a connection finds it  *)
(* unless one was removed meanwhile.                                       *)

Numbered ==
  /\ open \subseteq 1..made
  /\ \A a \in Addresses : connections[a] # None => connections[a] \in 1..made

(* A call past its lookup has an address, and in the end a connection.     *)
CallsHaveAddress ==
  \A w \in Workers : at[w] # "idle" => address[w] \in Addresses

CallsFindConnection ==
  \A w \in Workers :
    at[w] = "last" => removed[w] \/ connections[address[w]] # None

PoolInv ==
  /\ Pool!TypeOK
  /\ Numbered
  /\ Pool!PoolOwnsConnections
  /\ CallsHaveAddress
  /\ CallsFindConnection

LEMMA InitPoolInv == Pool!Init => PoolInv
BY PartsAssumption DEF Pool!Init, PoolInv, Pool!TypeOK, Numbered,
                       Pool!PoolOwnsConnections,
       CallsHaveAddress, CallsFindConnection, Pool!Conns

(* A step of a worker that leaves the pool and its history alone keeps the *)
(* invariant if the worker's own entry stays right.                        *)
LEMMA CallKeeps ==
  ASSUME PoolInv, NEW w \in Workers, NEW a \in Addresses,
         NEW found, NEW step \in {"stub", "lookUp"},
         found \in Pool!Conns \cup {None}, Pool!Call(w, a, found, step)
  PROVE  PoolInv'
<1>1. Pool!TypeOK'
  BY DEF PoolInv, Pool!TypeOK, Pool!Call, Pool!Goto, Pool!pool
<1>2. Numbered' /\ Pool!PoolOwnsConnections'
  BY DEF PoolInv, Pool!Call, Pool!pool, Numbered, Pool!PoolOwnsConnections
<1>3. CallsHaveAddress'
  BY DEF PoolInv, Pool!TypeOK, CallsHaveAddress, Pool!Call, Pool!Goto
<1>4. CallsFindConnection'
  BY DEF PoolInv, Pool!TypeOK, CallsFindConnection, Pool!Call, Pool!Goto, Pool!pool
<1> QED
  BY <1>1, <1>2, <1>3, <1>4 DEF PoolInv

LEMMA LookUpStubKeeps ==
  ASSUME PoolInv, NEW w \in Workers, Pool!LookUpStub(w)
  PROVE  PoolInv'
<1>1. Pool!TypeOK' /\ Numbered' /\ Pool!PoolOwnsConnections' /\ CallsHaveAddress'
  BY DEF PoolInv, Pool!TypeOK, Numbered, Pool!PoolOwnsConnections,
         CallsHaveAddress, Pool!LookUpStub, Pool!Goto, Pool!pool
<1>2. address[w] \in Addresses
  BY DEF PoolInv, CallsHaveAddress, Pool!LookUpStub
<1>3. CallsFindConnection'
  BY <1>2 DEF PoolInv, Pool!TypeOK, Pool!PoolOwnsConnections, CallsFindConnection,
              Pool!LookUpStub, Pool!Goto, Pool!pool
<1> QED
  BY <1>1, <1>3 DEF PoolInv

(* Under the write lock: the worker is served from the pool, or with the   *)
(* connection that it has just put there.                                  *)
LEMMA ConnectKeeps ==
  ASSUME PoolInv, NEW w \in Workers, Pool!Connect(w)
  PROVE  PoolInv'
<1>1. address[w] \in Addresses
  BY DEF PoolInv, CallsHaveAddress, Pool!Connect
<1>2. CASE stubs[address[w]] # None /\ Pool!Served(w, stubs[address[w]]) /\ UNCHANGED Pool!pool
  <2>1. Pool!TypeOK' /\ Numbered' /\ Pool!PoolOwnsConnections' /\ CallsHaveAddress'
    BY <1>1, <1>2 DEF PoolInv, Pool!TypeOK, Numbered, Pool!PoolOwnsConnections,
                      CallsHaveAddress,
                      Pool!Served, Pool!Return, Pool!Goto, Pool!pool
  <2>2. CallsFindConnection'
    BY <1>1, <1>2 DEF PoolInv, Pool!TypeOK, Pool!PoolOwnsConnections,
                      CallsFindConnection,
                      Pool!Served, Pool!Return, Pool!Goto, Pool!pool
  <2> QED
    BY <2>1, <2>2 DEF PoolInv
<1>3. CASE stubs[address[w]] = None /\ Pool!MakeConnection(w)
  <2>1. made + 1 \in Pool!Conns /\ made + 1 \notin 1..made /\ made + 1 # None
    BY <1>3, PartsAssumption DEF PoolInv, Pool!TypeOK, Pool!MakeConnection, Pool!Conns
  <2>2. Pool!TypeOK'
    <3>1. /\ connections' \in [Addresses -> Pool!Conns \cup {None}]
          /\ stubs' \in [Addresses -> Pool!Conns \cup {None}]
          /\ open' \subseteq Pool!Conns
      BY <1>1, <1>3, <2>1 DEF PoolInv, Pool!TypeOK, Pool!MakeConnection
    <3>2. made' \in 0..MaxConns
      BY <1>3, PartsAssumption DEF PoolInv, Pool!TypeOK, Pool!MakeConnection
    <3>3. /\ at' \in [Workers -> {"idle", "stub", "lookUp", "connect", "last"}]
          /\ address' \in [Workers -> Addresses \cup {None}]
          /\ got' \in [Workers -> Pool!Conns \cup {None}]
          /\ removed' \in [Workers -> BOOLEAN]
      BY <1>3, <2>1
      DEF PoolInv, Pool!TypeOK, Pool!MakeConnection, Pool!Served, Pool!Return,
          Pool!Goto
    <3> QED
      BY <3>1, <3>2, <3>3 DEF Pool!TypeOK, Pool!Conns
  <2>3. connections[address[w]] = None
    BY <1>1, <1>3 DEF PoolInv, Pool!PoolOwnsConnections
  <2>4. Numbered'
    BY <1>1, <1>3, <2>1 DEF PoolInv, Pool!TypeOK, Numbered, Pool!MakeConnection
  <2>5. Pool!PoolOwnsConnections'
    <3>1. \A a \in Addresses : connections'[a] = IF a = address[w] THEN made + 1 ELSE connections[a]
      BY <1>3 DEF PoolInv, Pool!TypeOK, Pool!MakeConnection
    <3>2. \A a \in Addresses : stubs'[a] = connections'[a]
      BY <1>3, <3>1 DEF PoolInv, Pool!TypeOK, Pool!PoolOwnsConnections,
                        Pool!MakeConnection
    <3>3. open' = {connections'[a] : a \in Addresses} \ {None}
      BY <1>1, <1>3, <2>1, <2>3, <3>1 DEF PoolInv, Pool!PoolOwnsConnections,
                                          Pool!MakeConnection
    <3>4. \A a, b \in Addresses :
            connections'[a] = connections'[b] /\ a # b => connections'[a] = None
      BY <2>1, <3>1 DEF PoolInv, Numbered, Pool!PoolOwnsConnections
    <3> QED
      BY <3>2, <3>3, <3>4 DEF Pool!PoolOwnsConnections
  <2>6. CallsHaveAddress' /\ CallsFindConnection'
    BY <1>1, <1>3, <2>1 DEF PoolInv, Pool!TypeOK, CallsHaveAddress,
                            CallsFindConnection,
                            Pool!MakeConnection, Pool!Served, Pool!Return, Pool!Goto
  <2> QED
    BY <2>2, <2>4, <2>5, <2>6 DEF PoolInv
<1> QED
  BY <1>2, <1>3 DEF Pool!Connect

LEMMA ConnectFailsKeeps ==
  ASSUME PoolInv, NEW w \in Workers, Pool!ConnectFails(w)
  PROVE  PoolInv'
BY DEF PoolInv, Pool!TypeOK, Numbered, Pool!PoolOwnsConnections, CallsHaveAddress,
       CallsFindConnection, Pool!ConnectFails, Pool!Goto, Pool!pool

LEMMA TakeConnectionKeeps ==
  ASSUME PoolInv, NEW w \in Workers, Pool!TakeConnection(w)
  PROVE  PoolInv'
<1>1. address[w] \in Addresses
  BY DEF PoolInv, CallsHaveAddress, Pool!TakeConnection
<1> QED
  BY <1>1 DEF PoolInv, Pool!TypeOK, Numbered, Pool!PoolOwnsConnections,
              CallsHaveAddress,
              CallsFindConnection, Pool!TakeConnection, Pool!Return, Pool!Goto, Pool!pool

(* Closing: what leaves the tables is what is closed, since no connection  *)
(* stands under two addresses.                                             *)
LEMMA CloseKeeps ==
  ASSUME PoolInv, NEW gone \in SUBSET Addresses,
         \A a \in gone : connections[a] # None, Pool!Close(gone)
  PROVE  PoolInv'
<1>1. Pool!TypeOK'
  BY DEF PoolInv, Pool!TypeOK, Pool!Close
<1>2. \A a \in Addresses : connections'[a] = IF a \in gone THEN None ELSE connections[a]
  BY DEF Pool!Close
<1>3. Numbered'
  BY <1>2 DEF PoolInv, Numbered, Pool!Close
<1>4. Pool!PoolOwnsConnections'
  <2>1. \A a \in Addresses : stubs'[a] = connections'[a]
    BY DEF PoolInv, Pool!PoolOwnsConnections, Pool!Close
  <2>2. open' = {connections'[a] : a \in Addresses} \ {None}
    BY <1>2 DEF PoolInv, Pool!PoolOwnsConnections, Pool!Close
  <2>3. \A a, b \in Addresses :
          connections'[a] = connections'[b] /\ a # b => connections'[a] = None
    BY <1>2 DEF PoolInv, Pool!PoolOwnsConnections
  <2> QED
    BY <2>1, <2>2, <2>3 DEF Pool!PoolOwnsConnections
<1>5. CallsHaveAddress' /\ CallsFindConnection'
  BY <1>2 DEF PoolInv, Pool!TypeOK, CallsHaveAddress, CallsFindConnection, Pool!Close
<1> QED
  BY <1>1, <1>3, <1>4, <1>5 DEF PoolInv

LEMMA StepPoolInv ==
  ASSUME PoolInv, [Pool!Next]_(Pool!vars)
  PROVE  PoolInv'
<1>1. ASSUME NEW w \in Workers, NEW a \in Addresses, Pool!GetStub(w, a)
      PROVE  PoolInv'
  <2>1. stubs[a] \in Pool!Conns \cup {None}
    BY DEF PoolInv, Pool!TypeOK
  <2> QED
    BY <1>1, <2>1, CallKeeps DEF Pool!GetStub
<1>2. ASSUME NEW w \in Workers, NEW a \in Addresses, Pool!GetConnection(w, a)
      PROVE  PoolInv'
  <2>1. connections[a] \in Pool!Conns \cup {None}
    BY DEF PoolInv, Pool!TypeOK
  <2> QED
    BY <1>2, <2>1, CallKeeps DEF Pool!GetConnection
<1>3. ASSUME NEW a \in Addresses, Pool!RemoveConnection(a)
      PROVE  PoolInv'
  BY <1>3, CloseKeeps DEF Pool!RemoveConnection
<1>4. CASE Pool!Shutdown
  BY <1>4, CloseKeeps DEF Pool!Shutdown
<1>5. CASE UNCHANGED Pool!vars
  BY <1>5 DEF Pool!vars, Pool!pool, Pool!workers, PoolInv, Pool!TypeOK, Numbered,
              Pool!PoolOwnsConnections,
              CallsHaveAddress, CallsFindConnection
<1> QED
  BY <1>1, <1>2, <1>3, <1>4, <1>5, LookUpStubKeeps, ConnectKeeps, ConnectFailsKeeps,
     TakeConnectionKeeps DEF Pool!Next

LEMMA PoolHolds == Pool!Spec => []PoolInv
<1>1. Pool!Init => PoolInv
  BY InitPoolInv
<1>2. PoolInv /\ [Pool!Next]_(Pool!vars) => PoolInv'
  BY StepPoolInv
<1> QED
  BY <1>1, <1>2, PTL DEF Pool!Spec

(* connection_manager.go: however many goroutines ask for however many     *)
(* addresses, every open connection is in the pool once, and behind the    *)
(* stub of its address.                                                    *)
THEOREM PoolIsOwned == Pool!Spec => []Pool!PoolOwnsConnections
<1>1. PoolInv => Pool!PoolOwnsConnections
  BY DEF PoolInv
<1> QED
  BY <1>1, PoolHolds, PTL

(* Only the last section of GetConnection goes from "last" to "idle".      *)
LEMMA LastTakes ==
  ASSUME PoolInv, [Pool!Next]_(Pool!vars),
         NEW w \in Workers, at[w] = "last", at'[w] = "idle"
  PROVE  Pool!TakeConnection(w)
<1>1. ASSUME NEW v \in Workers, NEW a \in Addresses, Pool!GetStub(v, a) \/ Pool!GetConnection(v, a)
      PROVE  FALSE
  BY <1>1 DEF PoolInv, Pool!TypeOK, Pool!GetStub, Pool!GetConnection, Pool!Call,
              Pool!Goto
<1>2. ASSUME NEW v \in Workers, Pool!LookUpStub(v) \/ Pool!ConnectFails(v)
      PROVE  FALSE
  BY <1>2 DEF PoolInv, Pool!TypeOK, Pool!LookUpStub, Pool!ConnectFails, Pool!Goto
<1>3. ASSUME NEW v \in Workers, Pool!Connect(v)
      PROVE  FALSE
  <2>1. PICK conn : Pool!Served(v, conn)
    BY <1>3 DEF Pool!Connect, Pool!MakeConnection
  <2> QED
    BY <1>3, <2>1 DEF PoolInv, Pool!TypeOK, Pool!Connect, Pool!Served, Pool!Return,
                      Pool!Goto
<1>4. ASSUME NEW v \in Workers, Pool!TakeConnection(v)
      PROVE  v = w
  BY <1>4 DEF PoolInv, Pool!TypeOK, Pool!TakeConnection, Pool!Return, Pool!Goto
<1>5. ~Pool!Shutdown /\ ~UNCHANGED Pool!vars /\ \A a \in Addresses : ~Pool!RemoveConnection(a)
  BY DEF Pool!Shutdown, Pool!RemoveConnection, Pool!Close, Pool!vars, Pool!workers
<1> QED
  BY <1>1, <1>2, <1>3, <1>4, <1>5 DEF Pool!Next

(* connection_manager.go: GetConnection comes back with nothing only if a  *)
(* connection was removed during the call, and with an open one otherwise. *)
THEOREM NothingOnlyAfterRemoval == Pool!Spec => Pool!NothingOnlyIfRemoved
<1>1. Pool!Init => PoolInv
  BY InitPoolInv
<1>2. PoolInv /\ [Pool!Next]_(Pool!vars) => PoolInv'
  BY StepPoolInv
<1>3. ASSUME PoolInv, [Pool!Next]_(Pool!vars), NEW w \in Workers, at[w] = "last" /\ at'[w] = "idle"
      PROVE  \/ removed[w]
             \/ got'[w] = connections[address[w]] /\ got'[w] \in open
  <2>1. Pool!TakeConnection(w)
    BY <1>3, LastTakes
  <2>2. got'[w] = connections[address[w]] /\ address[w] \in Addresses
    BY <1>3, <2>1 DEF PoolInv, Pool!TypeOK, CallsHaveAddress, Pool!TakeConnection,
                      Pool!Return
  <2> QED
    BY <1>3, <2>2 DEF PoolInv, CallsFindConnection, Pool!PoolOwnsConnections
<1>4. PoolInv /\ [Pool!Next]_(Pool!vars) =>
        [\A w \in Workers :
           at[w] = "last" /\ at'[w] = "idle" =>
             \/ removed[w]
             \/ got'[w] = connections[address[w]] /\ got'[w] \in open]_(Pool!vars)
  BY <1>3
<1> QED
  BY <1>1, <1>2, <1>4, PTL DEF Pool!Spec, Pool!NothingOnlyIfRemoved

LEMMA PoolRuns == PartsSpec => Pool!Spec
<1>1. PartsInit => Pool!Init
  BY DEF PartsInit
<1>2. [PartsNext]_partsVars => [Pool!Next]_(Pool!vars)
  BY DEF PartsNext, partsVars, poolVars, Pool!vars, Pool!pool, Pool!workers
<1> QED
  BY <1>1, <1>2, PTL DEF PartsSpec, Pool!Spec

(* connection_manager.go: however many goroutines ask for however many     *)
(* addresses, every open connection is in the pool once, and behind the    *)
(* stub of its address.                                                    *)
THEOREM PoolOwned == PartsSpec => []PoolOwnsConnections
BY PoolIsOwned, PoolRuns, PTL DEF PoolOwnsConnections

(* connection_manager.go: GetConnection comes back with nothing only if a  *)
(* connection was removed during the call.                                 *)
THEOREM PoolAnswers == PartsSpec => NothingOnlyIfRemoved
BY NothingOnlyAfterRemoval, PoolRuns, PTL DEF NothingOnlyIfRemoved

-----------------------------------------------------------------------------

(* The versions of a store are numbers.                                    *)
LEMMA VersionsAreNumbers ==
  /\ \A v \in Store!VersionedValue : v.version \in Nat
  /\ \A vs \in Seq(Store!VersionedValue) : \A i \in 1..Len(vs) :
       vs[i] \in Store!VersionedValue /\ vs[i].version \in Nat
<1>1. VersionSpace - 1 \in Nat
  BY PartsAssumption
<1>2. \A v \in Store!VersionedValue : v.version \in Nat
  BY <1>1 DEF Store!VersionedValue, Store!VersionNumbers
<1>3. \A vs \in Seq(Store!VersionedValue) : \A i \in 1..Len(vs) :
        vs[i] \in Store!VersionedValue
  OBVIOUS
<1> QED
  BY <1>2, <1>3

Ascending(vs) ==
  \A i, j \in 1..Len(vs) : i < j => vs[i].version < vs[j].version

(* The place of version in an ascending list: how many versions precede it. *)
LEMMA Place ==
  ASSUME NEW vs \in Seq(Store!VersionedValue), Ascending(vs), NEW version \in Nat
  PROVE  \E n \in 0..Len(vs) : \A i \in 1..Len(vs) :
            vs[i].version < version <=> i <= n
<1>1. \A i \in 1..Len(vs) : vs[i].version \in Nat
  BY VersionsAreNumbers
<1> DEFINE late == {i \in 1..Len(vs) : version <= vs[i].version}
<1>2. CASE late = {}
  <2>1. \A i \in 1..Len(vs) : vs[i].version < version <=> i <= Len(vs)
    BY <1>1, <1>2
  <2> QED
    BY <2>1
<1>3. CASE late # {}
  <2>1. PICK n \in late : \A m \in late : n <= m
    <3>1. late \in SUBSET Nat
      OBVIOUS
    <3> HIDE DEF late
    <3> QED
      BY <1>3, <3>1, Least
  <2>2. ASSUME NEW i \in 1..Len(vs)
        PROVE  vs[i].version < version <=> i <= n - 1
    BY <1>1, <2>1 DEF Ascending
  <2> QED
    BY <2>2
<1> QED
  BY <1>2, <1>3

(* One step of the bisection, as a function of what the rest returns.      *)
Bisect(vs, version, search, left, right) ==
  LET mid == (left + right) \div 2
  IN IF left >= right THEN left
     ELSE IF vs[mid + 1].version < version
     THEN search[<<mid + 1, right>>]
     ELSE search[<<left, mid>>]

LEMMA BisectStep ==
  ASSUME NEW vs, NEW version, NEW search, NEW left \in Int, NEW right \in Int,
         left < right
  PROVE  Bisect(vs, version, search, left, right) =
           IF vs[((left + right) \div 2) + 1].version < version
           THEN search[<<((left + right) \div 2) + 1, right>>]
           ELSE search[<<left, (left + right) \div 2>>]
BY DEF Bisect

Within(n, left, right) ==
  IF left >= right \/ n <= left THEN left ELSE IF n >= right THEN right ELSE n

Places(vs) == (0..Len(vs)) \X (0..Len(vs))

(* The function that the recursion of findVersionIndex describes, written  *)
(* out: the place n, cut to the part of the list that is still searched.   *)
LEMMA SearchExists ==
  ASSUME NEW vs \in Seq(Store!VersionedValue), NEW version \in Nat,
         NEW n \in 0..Len(vs),
         \A i \in 1..Len(vs) : vs[i].version < version <=> i <= n,
         NEW left \in 0..Len(vs), NEW right \in 0..Len(vs)
  PROVE  Within(n, left, right) =
           Bisect(vs, version, [x \in Places(vs) |-> Within(n, x[1], x[2])], left, right)
<1> DEFINE mid == (left + right) \div 2
           g == [x \in Places(vs) |-> Within(n, x[1], x[2])]
<1>1. CASE left >= right
  BY <1>1 DEF Within, Bisect
<1>2. CASE left < right
  <2>1. mid \in 0..Len(vs) /\ left <= mid /\ mid < right /\ mid + 1 \in 1..Len(vs)
    BY <1>2
  <2> HIDE DEF mid
  <2>2. /\ g[<<mid + 1, right>>] = Within(n, mid + 1, right)
        /\ g[<<left, mid>>] = Within(n, left, mid)
    BY <2>1 DEF Places
  <2>3. CASE vs[mid + 1].version < version
    <3>1. mid + 1 <= n
      BY <2>1, <2>3
    <3>2. Within(n, left, right) = Within(n, mid + 1, right)
      BY <1>2, <2>1, <3>1 DEF Within
    <3> QED
      BY <1>2, <2>2, <2>3, <3>2 DEF Bisect, mid
  <2>4. CASE ~(vs[mid + 1].version < version)
    <3>1. n <= mid
      BY <2>1, <2>4
    <3>2. Within(n, left, right) = Within(n, left, mid)
      BY <1>2, <2>1, <3>1 DEF Within
    <3> QED
      BY <1>2, <2>2, <2>4, <3>2 DEF Bisect, mid
  <2> QED
    BY <2>3, <2>4
<1> QED
  BY <1>1, <1>2

LEMMA SearchIs ==
  ASSUME NEW vs, NEW version, NEW g,
         g = [x \in Places(vs) |-> Bisect(vs, version, g, x[1], x[2])]
  PROVE  \E search :
           /\ Store!FindVersionIndex(vs, version) = search[<<0, Len(vs)>>]
           /\ search = [x \in Places(vs) |-> Bisect(vs, version, search, x[1], x[2])]
BY DEF Store!FindVersionIndex, Places, Bisect

LEMMA SearchFound ==
  ASSUME NEW vs \in Seq(Store!VersionedValue), NEW version \in Nat,
         NEW n \in 0..Len(vs),
         \A i \in 1..Len(vs) : vs[i].version < version <=> i <= n
  PROVE  \E search :
           /\ Store!FindVersionIndex(vs, version) = search[<<0, Len(vs)>>]
           /\ search = [x \in Places(vs) |-> Bisect(vs, version, search, x[1], x[2])]
<1> DEFINE g == [x \in Places(vs) |-> Within(n, x[1], x[2])]
<1>1. \A x \in Places(vs) : Within(n, x[1], x[2]) = Bisect(vs, version, g, x[1], x[2])
  <2> TAKE x \in Places(vs)
  <2>1. x[1] \in 0..Len(vs) /\ x[2] \in 0..Len(vs)
    BY DEF Places
  <2> QED
    BY <2>1, SearchExists
<1>2. g = [x \in Places(vs) |-> Bisect(vs, version, g, x[1], x[2])]
  BY <1>1
<1> HIDE DEF g
<1> QED
  BY <1>2, SearchIs

(* Nothing else satisfies the recursion: where it differed from that       *)
(* function there would be a narrowest part on which it differs.           *)
LEMMA SearchUnique ==
  ASSUME NEW vs \in Seq(Store!VersionedValue), NEW version \in Nat,
         NEW n \in 0..Len(vs),
         \A i \in 1..Len(vs) : vs[i].version < version <=> i <= n,
         NEW search,
         search = [x \in Places(vs) |-> Bisect(vs, version, search, x[1], x[2])]
  PROVE  search[<<0, Len(vs)>>] = n
<1> DEFINE wrong == {width \in Nat : \E left, r \in 0..Len(vs) :
                       /\ r = left + width
                       /\ search[<<left, r>>] # Within(n, left, r)}
<1>0. ASSUME NEW left \in 0..Len(vs), NEW r \in 0..Len(vs), left <= r,
             r - left \notin wrong
      PROVE  search[<<left, r>>] = Within(n, left, r)
  <2>1. r - left \in Nat /\ r = left + (r - left)
    BY <1>0
  <2> QED
    BY <1>0, <2>1
<1>1. ASSUME wrong # {}
      PROVE  FALSE
  <2>1. PICK width \in wrong : \A w \in wrong : width <= w
    <3>1. wrong \in SUBSET Nat
      OBVIOUS
    <3> HIDE DEF wrong
    <3> QED
      BY <1>1, <3>1, Least
  <2>2. PICK left \in 0..Len(vs), r \in 0..Len(vs) :
          r = left + width /\ search[<<left, r>>] # Within(n, left, r)
    BY <2>1
  <2>3. width \in Nat /\ left <= r /\ width = r - left
    BY <2>1, <2>2
  <2> HIDE DEF wrong
  <2> DEFINE mid == (left + r) \div 2
  <2>4. search[<<left, r>>] = Bisect(vs, version, search, left, r)
    BY <2>3 DEF Places
  <2>5. left < r
    <3> SUFFICES ASSUME left >= r
                 PROVE  FALSE
      BY <2>3
    <3> QED
      BY <2>2, <2>3, <2>4 DEF Bisect, Within
  <2>6. mid \in 0..Len(vs) /\ left <= mid /\ mid < r /\ mid + 1 \in 1..Len(vs)
    BY <2>3, <2>5
  <2> HIDE DEF mid
  <2>7. search[<<mid + 1, r>>] = Within(n, mid + 1, r)
    <3>1. r - (mid + 1) \in Nat /\ r - (mid + 1) < width /\ mid + 1 \in 0..Len(vs)
      BY <2>1, <2>3, <2>6
    <3>2. r - (mid + 1) \notin wrong
      BY <2>1, <2>3, <3>1
    <3>3. mid + 1 <= r
      BY <2>6
    <3> QED
      BY <1>0, <3>1, <3>2, <3>3
  <2>8. search[<<left, mid>>] = Within(n, left, mid)
    <3>1. mid - left \in Nat /\ mid - left < width
      BY <2>1, <2>3, <2>6
    <3>2. mid - left \notin wrong
      BY <2>1, <2>3, <3>1
    <3> QED
      BY <1>0, <2>6, <3>1, <3>2
  <2>9. Within(n, left, r) =
          IF vs[mid + 1].version < version THEN Within(n, mid + 1, r)
                                           ELSE Within(n, left, mid)
    <3>1. vs[mid + 1].version < version <=> mid + 1 <= n
      BY <2>6
    <3> QED
      BY <2>5, <2>6, <3>1 DEF Within
  <2>10. search[<<left, r>>] = IF vs[mid + 1].version < version
                               THEN search[<<mid + 1, r>>] ELSE search[<<left, mid>>]
    BY <2>4, <2>5, BisectStep DEF mid
  <2> QED
    BY <2>2, <2>7, <2>8, <2>9, <2>10
<1>2. Len(vs) \in Nat /\ 0 \in 0..Len(vs) /\ Len(vs) \in 0..Len(vs) /\ 0 <= Len(vs)
  OBVIOUS
<1>3. search[<<0, Len(vs)>>] = Within(n, 0, Len(vs))
  BY <1>0, <1>1, <1>2
<1> QED
  BY <1>3 DEF Within

(* store.go findVersionIndex: the bisection finds the number of versions   *)
(* that precede the one asked for.                                         *)
LEMMA BisectionFinds ==
  ASSUME NEW vs \in Seq(Store!VersionedValue), NEW version \in Nat,
         NEW n \in 0..Len(vs),
         \A i \in 1..Len(vs) : vs[i].version < version <=> i <= n
  PROVE  Store!FindVersionIndex(vs, version) = n
<1>1. PICK search :
        /\ Store!FindVersionIndex(vs, version) = search[<<0, Len(vs)>>]
        /\ search = [x \in Places(vs) |-> Bisect(vs, version, search, x[1], x[2])]
  BY SearchFound
<1>2. search[<<0, Len(vs)>>] = n
  BY <1>1, SearchUnique
<1> QED
  BY <1>1, <1>2

LEMMA BisectionSplits ==
  ASSUME NEW vs \in Seq(Store!VersionedValue), Ascending(vs), NEW version \in Nat
  PROVE  /\ Store!FindVersionIndex(vs, version) \in 0..Len(vs)
         /\ \A i \in 1..Len(vs) :
              vs[i].version < version <=> i <= Store!FindVersionIndex(vs, version)
<1>1. PICK n \in 0..Len(vs) : \A i \in 1..Len(vs) : vs[i].version < version <=> i <= n
  BY Place
<1>2. Store!FindVersionIndex(vs, version) = n
  BY <1>1, BisectionFinds
<1> QED
  BY <1>1, <1>2

-----------------------------------------------------------------------------
(* What Put and Delete make of a list.                                     *)
LEMMA Inserted ==
  ASSUME NEW R, NEW s \in Seq(R), NEW n \in 0..Len(s), NEW e \in R
  PROVE  /\ Store!InsertAt(s, n + 1, e) \in Seq(R)
         /\ Len(Store!InsertAt(s, n + 1, e)) = Len(s) + 1
         /\ \A i \in 1..(Len(s) + 1) :
              Store!InsertAt(s, n + 1, e)[i] = IF i <= n THEN s[i]
                                         ELSE IF i = n + 1 THEN e ELSE s[i - 1]
<1> DEFINE front == SubSeq(s, 1, n)
           back == SubSeq(s, n + 1, Len(s))
<1>1. /\ front \in Seq(R) /\ Len(front) = n
      /\ \A i \in 1..n : front[i] = s[i]
  BY SubSeqProperties
<1>2. /\ back \in Seq(R) /\ Len(back) = Len(s) - n
      /\ \A i \in 1..(Len(s) - n) : back[i] = s[n + i]
  BY SubSeqProperties
<1>3. PICK t : t = front \o <<e>> \o back /\ t = Store!InsertAt(s, n + 1, e)
  <2>1. (n + 1) - 1 = n
    OBVIOUS
  <2>2. Store!InsertAt(s, n + 1, e) = SubSeq(s, 1, (n + 1) - 1) \o <<e>> \o SubSeq(s, n + 1, Len(s))
    BY DEF Store!InsertAt
  <2> QED
    BY <2>1, <2>2, Zenon
<1> HIDE DEF front, back
<1>4. /\ front \o <<e>> \in Seq(R) /\ Len(front \o <<e>>) = n + 1
      /\ \A i \in 1..(n + 1) : (front \o <<e>>)[i] = IF i <= n THEN s[i] ELSE e
  BY <1>1
<1>5. t \in Seq(R) /\ Len(t) = Len(s) + 1
  <2>1. t \in Seq(R) /\ Len(t) = Len(front \o <<e>>) + Len(back)
    BY <1>2, <1>3, <1>4, ConcatProperties
  <2> QED
    BY <1>2, <1>4, <2>1
<1>6. ASSUME NEW i \in 1..(Len(s) + 1)
      PROVE  t[i] = IF i <= n THEN s[i] ELSE IF i = n + 1 THEN e ELSE s[i - 1]
  <2>1. CASE i <= n + 1
    <3>1. t[i] = (front \o <<e>>)[i]
      BY <1>2, <1>3, <1>4, <2>1
    <3> QED
      BY <1>4, <2>1, <3>1
  <2>2. CASE i > n + 1
    <3>1. t[i] = back[i - (n + 1)]
      BY <1>2, <1>3, <1>4, <2>2
    <3>2. i - (n + 1) \in 1..(Len(s) - n) /\ n + (i - (n + 1)) = i - 1
      BY <2>2
    <3>3. back[i - (n + 1)] = s[i - 1]
      BY <1>2, <3>2
    <3> QED
      BY <2>2, <3>1, <3>3
  <2> QED
    BY <2>1, <2>2
<1>7. /\ t \in Seq(R) /\ Len(t) = Len(s) + 1
      /\ \A i \in 1..(Len(s) + 1) :
           t[i] = IF i <= n THEN s[i] ELSE IF i = n + 1 THEN e ELSE s[i - 1]
  BY <1>5, <1>6
<1>8. t = Store!InsertAt(s, n + 1, e)
  BY <1>3
<1> QED
  BY <1>7, <1>8

-----------------------------------------------------------------------------
(* What holds of the lists in every reachable state: they ascend.          *)
StoreInv ==
  /\ data \in [Keys -> Seq(Store!VersionedValue)]
  /\ \A k \in Keys : Ascending(data[k])

LEMMA InsertKeepsOrder ==
  ASSUME StoreInv, NEW k \in Keys, NEW vv \in Store!VersionedValue, Store!Insert(k, vv)
  PROVE  StoreInv'
<1> DEFINE vs == data[k]
           n == Store!FindVersionIndex(vs, vv.version)
<1>1. vs \in Seq(Store!VersionedValue) /\ Ascending(vs) /\ vv.version \in Nat
  BY VersionsAreNumbers DEF StoreInv
<1>2. n \in 0..Len(vs) /\ \A i \in 1..Len(vs) : vs[i].version < vv.version <=> i <= n
  BY <1>1, BisectionSplits
<1>3. PICK new : /\ data' = [data EXCEPT ![k] = new]
                 /\ new = IF n < Len(vs) /\ vs[n + 1].version = vv.version
                          THEN vs ELSE Store!InsertAt(vs, n + 1, vv)
  BY DEF Store!Insert
<1> HIDE DEF n, vs
<1>4. new \in Seq(Store!VersionedValue) /\ Ascending(new)
  <2>1. CASE n < Len(vs) /\ vs[n + 1].version = vv.version
    BY <1>1, <1>3, <2>1
  <2>2. CASE ~(n < Len(vs) /\ vs[n + 1].version = vv.version)
    <3>1. new = Store!InsertAt(vs, n + 1, vv)
      BY <1>3, <2>2
    <3>2. /\ new \in Seq(Store!VersionedValue)
          /\ Len(new) = Len(vs) + 1
          /\ \A i \in 1..(Len(vs) + 1) :
               new[i] = IF i <= n THEN vs[i] ELSE IF i = n + 1 THEN vv ELSE vs[i - 1]
      <4>1. /\ Store!InsertAt(vs, n + 1, vv) \in Seq(Store!VersionedValue)
            /\ Len(Store!InsertAt(vs, n + 1, vv)) = Len(vs) + 1
            /\ \A i \in 1..(Len(vs) + 1) :
                 Store!InsertAt(vs, n + 1, vv)[i] =
                   IF i <= n THEN vs[i] ELSE IF i = n + 1 THEN vv ELSE vs[i - 1]
        BY <1>1, <1>2, Inserted
      <4> QED
        BY <3>1, <4>1
    <3>3. ASSUME NEW i \in 1..Len(vs), n < i
          PROVE  vv.version < vs[i].version
      <4>1. n + 1 \in 1..Len(vs) /\ n < Len(vs)
        BY <1>2, <3>3
      <4>2. ~(vs[n + 1].version < vv.version) /\ vs[n + 1].version # vv.version
        BY <1>2, <2>2, <4>1
      <4>3. vs[n + 1].version \in Nat /\ vs[i].version \in Nat
        BY <1>1, <4>1, VersionsAreNumbers
      <4>4. n + 1 = i \/ vs[n + 1].version < vs[i].version
        BY <1>1, <1>2, <3>3, <4>1 DEF Ascending
      <4> QED
        BY <1>1, <4>2, <4>3, <4>4
    <3>4. ASSUME NEW i \in 1..Len(new), NEW j \in 1..Len(new), i < j
          PROVE  new[i].version < new[j].version
      <4>1. CASE j <= n
        BY <1>1, <1>2, <3>2, <3>4, <4>1 DEF Ascending
      <4>2. CASE j = n + 1
        BY <1>2, <3>2, <3>4, <4>2
      <4>3. CASE j > n + 1 /\ i = n + 1
        <5>1. j - 1 \in 1..Len(vs) /\ n < j - 1
          BY <1>2, <3>2, <4>3
        <5>2. new[i] = vv /\ new[j] = vs[j - 1]
          BY <1>2, <3>2, <4>3, <5>1
        <5> QED
          BY <3>3, <5>1, <5>2
      <4>4. CASE j > n + 1 /\ i <= n
        <5>1. j - 1 \in 1..Len(vs) /\ i \in 1..Len(vs) /\ i < j - 1
          BY <1>2, <3>2, <3>4, <4>4
        <5>2. new[i] = vs[i] /\ new[j] = vs[j - 1]
          BY <1>2, <3>2, <4>4, <5>1
        <5> QED
          BY <1>1, <5>1, <5>2 DEF Ascending
      <4>5. CASE i > n + 1
        <5>1. j - 1 \in 1..Len(vs) /\ i - 1 \in 1..Len(vs) /\ i - 1 < j - 1
          BY <1>2, <3>2, <3>4, <4>5
        <5>2. new[i] = vs[i - 1] /\ new[j] = vs[j - 1]
          BY <1>2, <3>2, <3>4, <4>5, <5>1
        <5> QED
          BY <1>1, <5>1, <5>2 DEF Ascending
      <4>6. i \in Nat /\ j \in Nat /\ n \in Nat
        BY <1>2
      <4> QED
        BY <3>4, <4>1, <4>2, <4>3, <4>4, <4>5, <4>6
    <3> QED
      BY <3>2, <3>4 DEF Ascending
  <2> QED
    BY <2>1, <2>2
<1> QED
  BY <1>3, <1>4 DEF StoreInv

(* store.go GC: a list is cut at its last version before minVersion.       *)
LEMMA CollectionCuts ==
  ASSUME StoreInv, NEW minVersion \in Nat, Store!GC(minVersion), NEW k \in Keys
  PROVE  \E n \in 0..Len(data[k]) :
           /\ n > 0 => n < Len(data[k]) /\ data[k][n + 1].version < minVersion
           /\ data'[k] \in Seq(Store!VersionedValue)
           /\ Len(data'[k]) = Len(data[k]) - n
           /\ \A i \in 1..(Len(data[k]) - n) : data'[k][i] = data[k][i + n]
<1> DEFINE vs == data[k]
           idx == Store!FindVersionIndex(vs, minVersion)
<1>1. vs \in Seq(Store!VersionedValue) /\ Ascending(vs)
  BY DEF StoreInv
<1>2. idx \in 0..Len(vs) /\ \A i \in 1..Len(vs) : vs[i].version < minVersion <=> i <= idx
  BY <1>1, BisectionSplits
<1>3. data'[k] = IF idx > 1 THEN SubSeq(vs, idx, Len(vs)) ELSE vs
  BY DEF Store!GC
<1> HIDE DEF vs, idx
<1>4. CASE idx > 1
  <2>1. idx - 1 \in 0..Len(vs) /\ idx - 1 < Len(vs) /\ vs[(idx - 1) + 1].version < minVersion
    BY <1>2, <1>4
  <2>2. data'[k] = SubSeq(vs, idx, Len(vs))
    BY <1>3, <1>4
  <2>3. /\ data'[k] \in Seq(Store!VersionedValue)
        /\ Len(data'[k]) = Len(vs) - (idx - 1)
        /\ \A i \in 1..(Len(vs) - (idx - 1)) : data'[k][i] = vs[i + (idx - 1)]
    <3>1. idx \in 1..(Len(vs) + 1) /\ Len(vs) \in idx - 1 .. Len(vs)
      BY <1>2, <1>4
    <3>2. /\ SubSeq(vs, idx, Len(vs)) \in Seq(Store!VersionedValue)
          /\ Len(SubSeq(vs, idx, Len(vs))) = (Len(vs) - idx) + 1
          /\ \A i \in 1..((Len(vs) - idx) + 1) :
               SubSeq(vs, idx, Len(vs))[i] = vs[(idx + i) - 1]
      BY <1>1, <1>2, <1>4
    <3> QED
      BY <1>2, <2>2, <3>2
  <2> QED
    BY <2>1, <2>3 DEF vs
<1>5. CASE ~(idx > 1)
  <2>1. data'[k] = vs
    BY <1>3, <1>5
  <2>2. /\ Len(vs) \in Nat /\ 0 \in 0..Len(vs) /\ ~(0 > 0) /\ Len(vs) = Len(vs) - 0
        /\ \A i \in 1..(Len(vs) - 0) : vs[i] = vs[i + 0]
    BY <1>1
  <2> QED
    BY <1>1, <2>1, <2>2 DEF vs
<1> QED
  BY <1>4, <1>5

LEMMA StoreStep == StoreInv /\ [Store!Next]_data => StoreInv'
<1> SUFFICES ASSUME StoreInv, [Store!Next]_data
             PROVE  StoreInv'
  OBVIOUS
<1>1. ASSUME NEW k \in Keys, NEW t \in Writers, NEW version \in Store!VersionNumbers,
             Store!Put(k, t, version) \/ Store!Delete(k, t, version)
      PROVE  StoreInv'
  <2>1. PICK deleted \in BOOLEAN :
          Store!Insert(k, [version |-> version, tx |-> t, deleted |-> deleted])
    BY <1>1 DEF Store!Put, Store!Delete
  <2>2. [version |-> version, tx |-> t, deleted |-> deleted] \in Store!VersionedValue
    BY DEF Store!VersionedValue
  <2> QED
    BY <2>1, <2>2, InsertKeepsOrder
<1>2. ASSUME NEW minVersion \in Store!VersionNumbers, Store!GC(minVersion)
      PROVE  StoreInv'
  <2>1. minVersion \in Nat
    BY PartsAssumption DEF Store!VersionNumbers
  <2>2. ASSUME NEW k \in Keys
        PROVE  data'[k] \in Seq(Store!VersionedValue) /\ Ascending(data'[k])
    <3>1. PICK n \in 0..Len(data[k]) :
            /\ data'[k] \in Seq(Store!VersionedValue)
            /\ Len(data'[k]) = Len(data[k]) - n
            /\ \A i \in 1..(Len(data[k]) - n) : data'[k][i] = data[k][i + n]
      BY <1>2, <2>1, CollectionCuts
    <3>2. data[k] \in Seq(Store!VersionedValue) /\ Ascending(data[k])
      BY DEF StoreInv
    <3>3. ASSUME NEW i \in 1..Len(data'[k]), NEW j \in 1..Len(data'[k]), i < j
          PROVE  data'[k][i].version < data'[k][j].version
      <4>1. /\ i + n \in 1..Len(data[k]) /\ j + n \in 1..Len(data[k]) /\ i + n < j + n
            /\ data'[k][i] = data[k][i + n] /\ data'[k][j] = data[k][j + n]
        BY <3>1, <3>2, <3>3
      <4> QED
        BY <3>2, <4>1 DEF Ascending
    <3> QED
      BY <3>1, <3>3 DEF Ascending
  <2>3. data' = [k \in Keys |-> data'[k]]
    BY <1>2 DEF Store!GC
  <2> QED
    BY <2>2, <2>3 DEF StoreInv
<1>3. ASSUME UNCHANGED data
      PROVE  StoreInv'
  BY <1>3 DEF StoreInv
<1> QED
  BY <1>1, <1>2, <1>3 DEF Store!Next

-----------------------------------------------------------------------------
(* What Versions finds in a set with a latest version, and in an empty one. *)
LEMMA FoundInSet ==
  ASSUME NEW A, NEW v \in A, v.deleted \in BOOLEAN,
         \A w \in A : /\ w.version \in Nat /\ w.version <= v.version
                      /\ w.version = v.version => w = v
  PROVE  Store!FindLatest(A) = Store!Found(v)
<1>1. Store!Latest(A) = {v}
  BY DEF Store!Latest
<1>2. CASE v.deleted
  <2>1. {w \in Store!Latest(A) : ~w.deleted} = {}
    BY <1>1, <1>2
  <2> QED
    BY <1>2, <2>1 DEF Store!FindLatest, Store!Found
<1>3. CASE ~v.deleted
  <2>1. {w \in Store!Latest(A) : ~w.deleted} = {v}
    BY <1>1, <1>3
  <2>2. (CHOOSE w \in {v} : TRUE) = v
    OBVIOUS
  <2> QED
    BY <1>3, <2>1, <2>2 DEF Store!FindLatest, Store!Found
<1> QED
  BY <1>2, <1>3

LEMMA NothingInEmpty ==
  ASSUME NEW A, A = {}
  PROVE  Store!FindLatest(A) = Store!NotFound
<1>1. {w \in Store!Latest(A) : ~w.deleted} = {}
  BY DEF Store!Latest
<1> QED
  BY <1>1 DEF Store!FindLatest

(* The set of an ascending list, and its part up to the place n.           *)
LEMMA FoundInList ==
  ASSUME NEW vs \in Seq(Store!VersionedValue), Ascending(vs), NEW n \in 0..Len(vs)
  PROVE  Store!FindLatest({vs[i] : i \in 1..n}) =
           IF n = 0 THEN Store!NotFound ELSE Store!Found(vs[n])
<1>1. CASE n = 0
  <2>1. {vs[i] : i \in 1..n} = {}
    BY <1>1
  <2> QED
    BY <1>1, <2>1, NothingInEmpty
<1>2. CASE n # 0
  <2> DEFINE A == {vs[i] : i \in 1..n}
  <2>1. n \in 1..n /\ n \in 1..Len(vs) /\ vs[n] \in Store!VersionedValue
    BY <1>2
  <2>2. ASSUME NEW w \in A
        PROVE  /\ w.version \in Nat /\ w.version <= vs[n].version
               /\ w.version = vs[n].version => w = vs[n]
    <3>1. PICK i \in 1..n : w = vs[i]
      OBVIOUS
    <3>2. i \in 1..Len(vs) /\ vs[i].version \in Nat /\ vs[n].version \in Nat
      BY <2>1, VersionsAreNumbers
    <3>3. i = n \/ vs[i].version < vs[n].version
      BY <2>1, <3>2 DEF Ascending
    <3> QED
      BY <3>1, <3>2, <3>3
  <2>3. vs[n] \in A /\ vs[n].deleted \in BOOLEAN
    BY <2>1 DEF Store!VersionedValue
  <2> HIDE DEF A
  <2>4. Store!FindLatest(A) = Store!Found(vs[n])
    BY <2>2, <2>3, FoundInSet
  <2> QED
    BY <1>2, <2>4 DEF A
<1> QED
  BY <1>1, <1>2

(* store.go Get: version + 1 is computed in uint64, and past the last      *)
(* version of all nothing is found.                                        *)
LEMMA GetsByPlace ==
  ASSUME NEW vs \in Seq(Store!VersionedValue), Ascending(vs), NEW k, vs = data[k],
         NEW version \in Store!VersionNumbers
  PROVE  /\ version + 1 < VersionSpace =>
              LET n == Store!FindVersionIndex(vs, version + 1)
              IN Store!Get(k, version) = IF n = 0 THEN Store!NotFound ELSE Store!Found(vs[n])
         /\ ~(version + 1 < VersionSpace) => Store!Get(k, version) = Store!NotFound
<1>1. version \in Nat /\ version <= VersionSpace - 1 /\ VersionSpace \in Nat
  BY PartsAssumption DEF Store!VersionNumbers
<1>2. CASE version + 1 < VersionSpace
  <2>1. (version + 1) % VersionSpace = version + 1
    BY <1>1, <1>2
  <2> QED
    BY <1>2, <2>1 DEF Store!Get
<1>3. CASE ~(version + 1 < VersionSpace)
  <2>1. version + 1 = VersionSpace
    BY <1>1, <1>3
  <2>2. (version + 1) % VersionSpace = 0
    BY <1>1, <2>1
  <2>3. \A i \in 1..Len(vs) : vs[i].version < 0 <=> i <= 0
    BY VersionsAreNumbers
  <2>4. Store!FindVersionIndex(vs, 0) = 0
    BY <2>3, BisectionFinds
  <2> QED
    BY <1>3, <2>2, <2>4 DEF Store!Get
<1> QED
  BY <1>2, <1>3

LEMMA StoreReads == StoreInv => ReadsAgree
<1> SUFFICES ASSUME StoreInv, NEW k \in Keys
             PROVE  /\ Store!GetLatest(k) = Store!FindLatest(Store!AsSet(k))
                    /\ \A version \in Store!VersionNumbers :
                         /\ Store!Get(k, version) =
                              IF version + 1 < VersionSpace
                              THEN Store!FindAt(Store!AsSet(k), version)
                              ELSE Store!NotFound
                         /\ Store!GetExact(k, version) = Store!FindLatest(
                              {v \in Store!AsSet(k) : v.version = version})
  BY DEF ReadsAgree, Store!ReadsAgree
<1>1. PICK vs \in Seq(Store!VersionedValue) : vs = data[k] /\ Ascending(vs)
  BY DEF StoreInv
<1>2. Store!AsSet(k) = {vs[i] : i \in 1..Len(vs)}
  BY <1>1 DEF Store!AsSet, Store!ToSet
<1>3. Store!GetLatest(k) = Store!FindLatest(Store!AsSet(k))
  <2>1. Store!GetLatest(k) = IF Len(vs) = 0 THEN Store!NotFound
                             ELSE Store!Found(vs[Len(vs)])
    BY <1>1 DEF Store!GetLatest, Store!Last
  <2>2. Len(vs) \in 0..Len(vs)
    OBVIOUS
  <2> QED
    BY <1>1, <1>2, <2>1, <2>2, FoundInList
<1>4. ASSUME NEW version \in Store!VersionNumbers
      PROVE  Store!Get(k, version) = IF version + 1 < VersionSpace
                                     THEN Store!FindAt(Store!AsSet(k), version)
                                     ELSE Store!NotFound
  <2>1. version \in Nat /\ version + 1 \in Nat
    BY PartsAssumption DEF Store!VersionNumbers
  <2>2. CASE ~(version + 1 < VersionSpace)
    BY <1>1, <2>2, GetsByPlace
  <2>3. CASE version + 1 < VersionSpace
    <3>1. PICK n \in 0..Len(vs) :
            /\ n = Store!FindVersionIndex(vs, version + 1)
            /\ \A i \in 1..Len(vs) : vs[i].version < version + 1 <=> i <= n
      BY <1>1, <2>1, BisectionSplits
    <3>2. Store!Get(k, version) = IF n = 0 THEN Store!NotFound ELSE Store!Found(vs[n])
      BY <1>1, <2>3, <3>1, GetsByPlace
    <3>3. {v \in Store!AsSet(k) : v.version <= version} = {vs[i] : i \in 1..n}
      <4>1. \A i \in 1..Len(vs) : vs[i].version <= version <=> i <= n
        BY <2>1, <3>1, VersionsAreNumbers
      <4> QED
        BY <1>2, <4>1
    <3>4. Store!FindLatest({vs[i] : i \in 1..n}) =
            IF n = 0 THEN Store!NotFound ELSE Store!Found(vs[n])
      BY <1>1, FoundInList
    <3> QED
      BY <2>3, <3>2, <3>3, <3>4 DEF Store!FindAt
  <2> QED
    BY <2>2, <2>3
<1>5. ASSUME NEW version \in Store!VersionNumbers
      PROVE  Store!GetExact(k, version) =
               Store!FindLatest({v \in Store!AsSet(k) : v.version = version})
  <2>1. version \in Nat
    BY PartsAssumption DEF Store!VersionNumbers
  <2>2. PICK n \in 0..Len(vs) :
          /\ n = Store!FindVersionIndex(vs, version)
          /\ \A i \in 1..Len(vs) : vs[i].version < version <=> i <= n
    BY <1>1, <2>1, BisectionSplits
  <2>3. Store!GetExact(k, version) =
          IF n >= Len(vs) \/ vs[n + 1].version # version
          THEN Store!NotFound ELSE Store!Found(vs[n + 1])
    BY <1>1, <2>2 DEF Store!GetExact
  <2> DEFINE A == {v \in Store!AsSet(k) : v.version = version}
  <2>4. CASE n < Len(vs) /\ vs[n + 1].version = version
    <3>1. n + 1 \in 1..Len(vs) /\ vs[n + 1] \in Store!VersionedValue
      BY <2>4
    <3>2. \A w \in A : w = vs[n + 1]
      <4> SUFFICES ASSUME NEW i \in 1..Len(vs), vs[i].version = version
                   PROVE  i = n + 1
        BY <1>2
      <4> QED
        BY <1>1, <2>1, <2>4, <3>1 DEF Ascending
    <3>3. /\ vs[n + 1] \in A /\ vs[n + 1].deleted \in BOOLEAN
          /\ vs[n + 1].version \in Nat
      BY <1>2, <2>1, <2>4, <3>1 DEF Store!VersionedValue
    <3> HIDE DEF A
    <3>4. Store!FindLatest(A) = Store!Found(vs[n + 1])
      BY <3>2, <3>3, FoundInSet
    <3>5. Store!GetExact(k, version) = Store!Found(vs[n + 1])
      BY <2>3, <2>4
    <3> QED
      BY <3>4, <3>5 DEF A
  <2>5. CASE ~(n < Len(vs) /\ vs[n + 1].version = version)
    <3>1. ASSUME NEW i \in 1..Len(vs), vs[i].version = version
          PROVE  FALSE
      <4>1. n < i /\ n + 1 \in 1..Len(vs)
        BY <2>1, <2>2, <3>1
      <4>2. vs[n + 1].version \in Nat /\ ~(vs[n + 1].version < version)
        BY <2>2, <4>1, VersionsAreNumbers
      <4>3. n + 1 = i \/ vs[n + 1].version < vs[i].version
        BY <1>1, <4>1 DEF Ascending
      <4> QED
        BY <2>1, <2>5, <3>1, <4>1, <4>2, <4>3
    <3>2. A = {}
      BY <1>2, <3>1
    <3>3. Store!FindLatest(A) = Store!NotFound
      BY <3>2, NothingInEmpty
    <3>4. Store!GetExact(k, version) = Store!NotFound
      BY <2>3, <2>5
    <3> QED
      BY <3>3, <3>4
  <2> QED
    BY <2>4, <2>5
<1> QED
  BY <1>3, <1>4, <1>5

LEMMA CollectionKeepsReads ==
  ASSUME StoreInv, NEW minVersion \in Store!VersionNumbers, Store!GC(minVersion),
         NEW k \in Keys
  PROVE  /\ Store!GetLatest(k)' = Store!GetLatest(k)
         /\ \A version \in minVersion..(VersionSpace - 2) :
              Store!Get(k, version)' = Store!Get(k, version)
<1>1. PICK vs \in Seq(Store!VersionedValue) : vs = data[k] /\ Ascending(vs)
  BY DEF StoreInv
<1>2. minVersion \in Nat /\ VersionSpace \in Nat
  BY PartsAssumption DEF Store!VersionNumbers
<1>3. PICK new \in Seq(Store!VersionedValue), n \in 0..Len(vs) :
        /\ new = data'[k]
        /\ n > 0 => n < Len(vs) /\ vs[n + 1].version < minVersion
        /\ Len(new) = Len(vs) - n
        /\ \A i \in 1..(Len(vs) - n) : new[i] = vs[i + n]
  BY <1>1, <1>2, CollectionCuts
<1>4. Ascending(new)
  BY <1>2, <1>3, StoreStep DEF StoreInv, Store!Next
<1>5. Store!GetLatest(k)' = Store!GetLatest(k)
  <2>1. /\ Store!GetLatest(k) = IF Len(vs) = 0 THEN Store!NotFound
                                ELSE Store!Found(vs[Len(vs)])
        /\ Store!GetLatest(k)' = IF Len(new) = 0 THEN Store!NotFound
                                 ELSE Store!Found(new[Len(new)])
    BY <1>1, <1>3 DEF Store!GetLatest, Store!Last
  <2>2. Len(new) = 0 <=> Len(vs) = 0
    BY <1>3
  <2>3. Len(new) # 0 => new[Len(new)] = vs[Len(vs)]
    BY <1>3
  <2> QED
    BY <2>1, <2>2, <2>3
<1>6. ASSUME NEW version \in minVersion..(VersionSpace - 2)
      PROVE  Store!Get(k, version)' = Store!Get(k, version)
  <2>1. /\ version \in Store!VersionNumbers /\ version \in Nat /\ version + 1 \in Nat
        /\ version + 1 < VersionSpace /\ minVersion < version + 1
        /\ (version + 1) % VersionSpace = version + 1
    BY <1>2 DEF Store!VersionNumbers
  <2>2. PICK m \in 0..Len(vs) :
          /\ m = Store!FindVersionIndex(vs, version + 1)
          /\ \A i \in 1..Len(vs) : vs[i].version < version + 1 <=> i <= m
    BY <1>1, <2>1, BisectionSplits
  <2>3. n > 0 => n + 1 <= m
    <3> SUFFICES ASSUME n > 0
                 PROVE  n + 1 <= m
      OBVIOUS
    <3>1. n + 1 \in 1..Len(vs) /\ vs[n + 1].version < minVersion
      BY <1>3
    <3>2. vs[n + 1].version \in Nat
      BY <3>1, VersionsAreNumbers
    <3>3. vs[n + 1].version < version + 1
      BY <1>2, <2>1, <3>1, <3>2
    <3> QED
      BY <2>2, <3>1, <3>3
  <2>4. m - n \in 0..Len(new) /\ n \in Nat
    BY <1>3, <2>2, <2>3
  <2>5. ASSUME NEW i \in 1..Len(new)
        PROVE  new[i].version < version + 1 <=> i <= m - n
    <3>1. i \in 1..(Len(vs) - n) /\ i + n \in 1..Len(vs)
      BY <1>3
    <3>2. new[i] = vs[i + n]
      BY <1>3, <3>1
    <3>3. new[i].version < version + 1 <=> i + n <= m
      BY <2>2, <3>1, <3>2
    <3> QED
      BY <2>4, <3>3
  <2>6. Store!FindVersionIndex(new, version + 1) = m - n
    BY <2>1, <2>4, <2>5, BisectionFinds
  <2>7. /\ Store!Get(k, version) =
             IF m = 0 THEN Store!NotFound ELSE Store!Found(vs[m])
        /\ Store!Get(k, version)' =
             IF m - n = 0 THEN Store!NotFound ELSE Store!Found(new[m - n])
    BY <1>1, <1>3, <2>1, <2>2, <2>6 DEF Store!Get
  <2>8. m - n = 0 <=> m = 0
    BY <2>3, <2>4
  <2>9. m # 0 => new[m - n] = vs[m]
    <3> SUFFICES ASSUME m # 0
                 PROVE  new[m - n] = vs[m]
      OBVIOUS
    <3>1. m - n \in 1..(Len(vs) - n) /\ (m - n) + n = m
      BY <1>3, <2>4, <2>8
    <3> QED
      BY <1>3, <3>1
  <2> QED
    BY <2>7, <2>8, <2>9
<1> QED
  BY <1>5, <1>6

LEMMA StoreRuns == PartsSpec => []StoreInv
<1>1. PartsInit => StoreInv
  <2> SUFFICES ASSUME PartsInit
               PROVE  StoreInv
    OBVIOUS
  <2>1. data = [k \in Keys |-> <<>>]
    BY DEF PartsInit, Store!Init
  <2>2. <<>> \in Seq(Store!VersionedValue) /\ Ascending(<<>>)
    BY DEF Ascending
  <2> QED
    BY <2>1, <2>2 DEF StoreInv
<1>2. [PartsNext]_partsVars => [Store!Next]_data
  BY DEF PartsNext, partsVars
<1> QED
  BY <1>1, <1>2, StoreStep, PTL DEF PartsSpec

(* store.go: in whatever order versions are written, deleted and           *)
(* collected, bisection answers what the set of versions says.             *)
THEOREM StoreReadsAgree == PartsSpec => []ReadsAgree
BY StoreRuns, StoreReads, PTL

(* store.go:182: collection changes no read of a snapshot that is kept,    *)
(* and no read of the latest version.                                      *)
THEOREM StoreCollects == PartsSpec => GCKeepsSnapshots
<1>1. StoreInv => (\A minVersion \in Store!VersionNumbers :
                     Store!GC(minVersion) =>
                       \A k \in Keys :
                         /\ Store!GetLatest(k)' = Store!GetLatest(k)
                         /\ \A version \in minVersion..(VersionSpace - 2) :
                              Store!Get(k, version)' = Store!Get(k, version))
  BY CollectionKeepsReads
<1> QED
  BY <1>1, StoreRuns, PTL DEF GCKeepsSnapshots, Store!GCKeepsSnapshots

-----------------------------------------------------------------------------
(* The hybrid logical clock, for every size of the logical half and every  *)
(* behaviour of the wall clocks.                                           *)

USE HLCAssumption

(* Timestamps are ordered by their physical halves, then by the logical.   *)
LEMMA Gap ==
  ASSUME NEW a \in Nat, NEW b \in Nat, a < b
  PROVE  /\ a * LogicalSize \in Nat
         /\ b * LogicalSize \in Nat
         /\ a * LogicalSize + LogicalSize <= b * LogicalSize
<1>1. PICK d \in Nat : b = a + 1 + d
  <2>1. b - a - 1 \in Nat /\ b = a + 1 + (b - a - 1)
    OBVIOUS
  <2> QED
    BY <2>1
<1>2. d * LogicalSize \in Nat /\ a * LogicalSize \in Nat
  OBVIOUS
<1>3. (a + 1 + d) * LogicalSize = a * LogicalSize + LogicalSize + d * LogicalSize
  OBVIOUS
<1> QED
  BY <1>1, <1>2, <1>3

LEMMA ValueOrder ==
  ASSUME NEW t \in Timestamp, NEW u \in Timestamp
  PROVE  /\ Value(t) \in Nat
         /\ Value(t) > Value(u)
              <=> \/ t.physical > u.physical
                  \/ t.physical = u.physical /\ t.logical > u.logical
<1>1. /\ t.physical \in Nat /\ t.logical \in Nat /\ t.logical < LogicalSize
      /\ u.physical \in Nat /\ u.logical \in Nat /\ u.logical < LogicalSize
  BY DEF Timestamp, MaxLogical
<1> DEFINE tl == t.physical * LogicalSize
           ul == u.physical * LogicalSize
<1>2. tl \in Nat /\ ul \in Nat
  BY <1>1
<1>3. Value(t) = tl + t.logical /\ Value(u) = ul + u.logical
  BY DEF Value
<1>4. CASE t.physical > u.physical
  <2>1. ul + LogicalSize <= tl
    BY <1>1, <1>4, Gap
  <2> HIDE DEF tl, ul
  <2> QED
    BY <1>1, <1>2, <1>3, <1>4, <2>1
<1>5. CASE u.physical > t.physical
  <2>1. tl + LogicalSize <= ul
    BY <1>1, <1>5, Gap
  <2> HIDE DEF tl, ul
  <2> QED
    BY <1>1, <1>2, <1>3, <1>5, <2>1
<1>6. CASE t.physical = u.physical
  <2>1. tl = ul
    BY <1>6
  <2> HIDE DEF tl, ul
  <2> QED
    BY <1>1, <1>2, <1>3, <1>6, <2>1
<1> QED
  BY <1>1, <1>4, <1>5, <1>6

(* hlc.go Tick, the carry included, is Clock's Tick on the whole timestamp. *)
THEOREM TickIsClockTick ==
  ASSUME NEW t \in Timestamp, NEW now \in Nat
  PROVE  /\ Tick(t, now) \in Timestamp
         /\ Value(Tick(t, now)) = C!Tick(Value(t), Value(Compose(now, 0)))
<1> DEFINE wall == Compose(now, 0)
<1>1. /\ t.physical \in Nat /\ t.logical \in Nat /\ t.logical < LogicalSize
      /\ wall \in Timestamp /\ wall.physical = now /\ wall.logical = 0
  BY DEF Timestamp, MaxLogical, Compose
<1>2. Value(wall) > Value(t) <=> now > t.physical
  BY <1>1, ValueOrder
<1>3. Value(t) \in Nat /\ Value(wall) \in Nat
  BY <1>1, ValueOrder
<1>4. CASE now > t.physical
  BY <1>1, <1>2, <1>4 DEF Tick, C!Tick
<1>5. CASE ~(now > t.physical) /\ t.logical < MaxLogical
  <2>1. Tick(t, now) = Compose(t.physical, t.logical + 1)
    BY <1>5 DEF Tick
  <2>2. Value(Tick(t, now)) = Value(t) + 1
    <3>1. t.physical * LogicalSize \in Nat
      BY <1>1
    <3> QED
      BY <1>1, <2>1, <3>1 DEF Value, Compose
  <2> QED
    BY <1>1, <1>2, <1>5, <2>1, <2>2 DEF C!Tick, Timestamp, Compose, MaxLogical
<1>6. CASE ~(now > t.physical) /\ ~(t.logical < MaxLogical)
  <2>1. Tick(t, now) = Compose(t.physical + 1, 0)
    BY <1>6 DEF Tick
  <2>2. t.logical + 1 = LogicalSize
    BY <1>1, <1>6 DEF MaxLogical
  <2>3. /\ (t.physical + 1) * LogicalSize = t.physical * LogicalSize + LogicalSize
        /\ t.physical * LogicalSize \in Nat
    BY <1>1
  <2>4. Value(Tick(t, now)) = Value(t) + 1
    BY <1>1, <2>1, <2>2, <2>3 DEF Value, Compose
  <2> QED
    BY <1>1, <1>2, <1>6, <2>1, <2>4 DEF C!Tick, Timestamp, Compose, MaxLogical
<1> QED
  BY <1>4, <1>5, <1>6

(* The one place where Update differs from Tick of the later timestamp is  *)
(* the missing carry.                                                      *)
Later(t, u) == IF Value(u) > Value(t) THEN u ELSE t

LEMMA UpdateIsTick ==
  ASSUME NEW t \in Timestamp, NEW u \in Timestamp, NEW now \in Nat
  PROVE  Update(t, u, now) =
           IF Wraps(t, u, now)
           THEN Compose(MaxOf(u.physical, t.physical), 0)
           ELSE Tick(Later(t, u), now)
<1> DEFINE maxPhys == MaxOf(now, MaxOf(t.physical, u.physical))
           later == Later(t, u)
<1>1. /\ t.physical \in Nat /\ t.logical \in Nat /\ t.logical < LogicalSize
      /\ u.physical \in Nat /\ u.logical \in Nat /\ u.logical < LogicalSize
  BY DEF Timestamp, MaxLogical
<1>2. Value(u) > Value(t)
        <=> \/ u.physical > t.physical
            \/ u.physical = t.physical /\ u.logical > t.logical
  BY ValueOrder
<1>3. /\ later \in Timestamp
      /\ later.physical = MaxOf(t.physical, u.physical)
      /\ maxPhys = MaxOf(now, later.physical)
  BY <1>1, <1>2 DEF Later, MaxOf
<1>4. NextLogical(t, u, maxPhys) =
        IF now > later.physical THEN 0 ELSE (later.logical + 1) % LogicalSize
  BY <1>1, <1>2 DEF NextLogical, MaxOf, Later
<1>5. /\ later.logical \in Nat /\ later.logical <= MaxLogical
      /\ later.physical \in Nat
  BY <1>3 DEF Timestamp, MaxLogical
<1>6. Wraps(t, u, now) <=> now <= later.physical /\ later.logical = MaxLogical
  BY DEF Wraps, Later
<1>7. MaxLogical \in Nat /\ MaxLogical + 1 = LogicalSize
  BY DEF MaxLogical
<1>8. MaxOf(u.physical, t.physical) = later.physical
  BY <1>1, <1>3 DEF MaxOf
<1>9. CASE now > later.physical
  BY <1>3, <1>4, <1>5, <1>6, <1>7, <1>9 DEF Update, Tick, MaxOf
<1>10. CASE now <= later.physical
  <2>1. maxPhys = later.physical
    BY <1>3, <1>5, <1>10 DEF MaxOf
  <2>2. (later.logical + 1) % LogicalSize =
          IF later.logical = MaxLogical THEN 0 ELSE later.logical + 1
    BY <1>5, <1>7
  <2> HIDE DEF maxPhys, later
  <2>3. Update(t, u, now) = Compose(later.physical, (later.logical + 1) % LogicalSize)
    BY <1>4, <1>5, <1>7, <1>10, <2>1, <2>2 DEF Update, maxPhys
  <2> QED
    BY <1>5, <1>6, <1>7, <1>8, <1>10, <2>2, <2>3 DEF Tick, later
<1> QED
  BY <1>5, <1>9, <1>10

(* hlc.go Update, where it does not wrap, is Clock's Update.               *)
THEOREM UpdateIsClockUpdate ==
  ASSUME NEW t \in Timestamp, NEW u \in Timestamp, NEW now \in Nat,
         ~Wraps(t, u, now)
  PROVE  Value(Update(t, u, now)) =
           C!Update(Value(t), Value(u), Value(Compose(now, 0)))
<1>1. Later(t, u) \in Timestamp
  BY DEF Later
<1>2. Update(t, u, now) = Tick(Later(t, u), now)
  BY UpdateIsTick
<1>3. Value(Later(t, u)) = IF Value(u) > Value(t) THEN Value(u) ELSE Value(t)
  BY DEF Later
<1> QED
  BY <1>1, <1>2, <1>3, TickIsClockTick DEF C!Update

(* What Update returns where it does wrap is a timestamp too.              *)
LEMMA UpdateType ==
  ASSUME NEW t \in Timestamp, NEW u \in Timestamp, NEW now \in Nat
  PROVE  /\ Update(t, u, now) \in Timestamp
         /\ Update(t, u, now).physical >= t.physical
<1>1. Later(t, u) \in Timestamp /\ Later(t, u).physical >= t.physical
  BY ValueOrder DEF Later, Timestamp, MaxLogical
<1>2. /\ Tick(Later(t, u), now) \in Timestamp
      /\ Tick(Later(t, u), now).physical >= Later(t, u).physical
  BY <1>1, TickIsClockTick DEF Tick, Compose, Timestamp, MaxLogical
<1>3. /\ Compose(MaxOf(u.physical, t.physical), 0) \in Timestamp
      /\ MaxOf(u.physical, t.physical) >= t.physical
  BY DEF Compose, MaxOf, Timestamp, MaxLogical
<1>4. CASE Wraps(t, u, now)
  BY <1>3, <1>4, UpdateIsTick DEF Compose
<1>5. CASE ~Wraps(t, u, now)
  <2>1. Update(t, u, now) = Tick(Later(t, u), now)
    BY <1>5, UpdateIsTick
  <2>2. /\ t.physical \in Nat
        /\ Later(t, u).physical \in Nat
        /\ Tick(Later(t, u), now).physical \in Nat
    BY <1>1, <1>2 DEF Timestamp
  <2> QED
    BY <1>1, <1>2, <2>1, <2>2
<1> QED
  BY <1>4, <1>5

-----------------------------------------------------------------------------
(* The clocks of a system. *)

LEMMA SetStep ==
  ASSUME TypeOK, NEW n \in Nodes, NEW t \in Timestamp, Set(n, t)
  PROVE  TypeOK'
BY DEF TypeOK, Set

LEMMA NextType == TypeOK /\ [Next]_vars => TypeOK'
<1> SUFFICES ASSUME TypeOK, [Next]_vars
             PROVE  TypeOK'
  OBVIOUS
<1>1. ASSUME NEW n \in Nodes, TickStep(n)
      PROVE  TypeOK'
  <2>1. PICK now \in 0..MaxPhysical : Set(n, Tick(ts[n], now))
    BY <1>1 DEF TickStep
  <2>2. Tick(ts[n], now) \in Timestamp
    BY TickIsClockTick DEF TypeOK
  <2> QED
    BY <2>1, <2>2, SetStep
<1>2. ASSUME NEW n \in Nodes, UpdateStep(n)
      PROVE  TypeOK'
  <2>1. PICK now \in 0..MaxPhysical, t \in sent : Set(n, Update(ts[n], t, now))
    BY <1>2 DEF UpdateStep
  <2>2. Update(ts[n], t, now) \in Timestamp
    BY UpdateType DEF TypeOK
  <2> QED
    BY <2>1, <2>2, SetStep
<1>3. ASSUME UNCHANGED vars
      PROVE  TypeOK'
  BY <1>3 DEF TypeOK, vars
<1> QED
  BY <1>1, <1>2, <1>3 DEF Next

(* Every timestamp handed out has its halves in their ranges: the logical  *)
(* counter never grows into the physical bits.                             *)
THEOREM HalvesInRange == Spec => []TypeOK
<1>1. Init => TypeOK
  BY DEF Init, TypeOK, Timestamp, Compose, MaxLogical
<1> QED
  BY <1>1, NextType, PTL DEF Spec

(* The physical half of a clock never goes back.                           *)
THEOREM PhysicalNeverBack == Spec => PhysicalForward
<1>1. ASSUME TypeOK, [Next]_vars, NEW n \in Nodes
      PROVE  ts'[n].physical >= ts[n].physical
  <2>1. ts[n] \in Timestamp /\ ts[n].physical \in Nat
    BY <1>1 DEF TypeOK, Timestamp
  <2>2. ASSUME NEW m \in Nodes, NEW t \in Timestamp, Set(m, t),
               t.physical >= ts[m].physical
        PROVE  ts'[n].physical >= ts[n].physical
    BY <1>1, <2>1, <2>2 DEF Set, TypeOK
  <2>3. ASSUME NEW m \in Nodes, TickStep(m)
        PROVE  ts'[n].physical >= ts[n].physical
    <3>1. PICK now \in 0..MaxPhysical : Set(m, Tick(ts[m], now))
      BY <2>3 DEF TickStep
    <3>2. ts[m] \in Timestamp
      BY <1>1 DEF TypeOK
    <3>3. Tick(ts[m], now) \in Timestamp
      BY <3>2, TickIsClockTick
    <3>4. ts[m].physical \in Nat /\ now \in Nat
      BY <3>2 DEF Timestamp
    <3>5. Tick(ts[m], now).physical >= ts[m].physical
      BY <3>4 DEF Tick, Compose
    <3> QED
      BY <2>2, <3>1, <3>3, <3>5
  <2>4. ASSUME NEW m \in Nodes, UpdateStep(m)
        PROVE  ts'[n].physical >= ts[n].physical
    <3>1. PICK now \in 0..MaxPhysical, t \in sent : Set(m, Update(ts[m], t, now))
      BY <2>4 DEF UpdateStep
    <3>2. ts[m] \in Timestamp /\ t \in Timestamp
      BY <1>1 DEF TypeOK
    <3>3. now \in Nat
      OBVIOUS
    <3>4. /\ Update(ts[m], t, now) \in Timestamp
          /\ Update(ts[m], t, now).physical >= ts[m].physical
      BY <3>2, <3>3, UpdateType
    <3> QED
      BY <2>2, <3>1, <3>4
  <2>5. CASE UNCHANGED vars
    BY <2>1, <2>5 DEF vars
  <2> QED
    BY <1>1, <2>3, <2>4, <2>5 DEF Next
<1>2. TypeOK /\ [Next]_vars
        => [\A n \in Nodes : ts'[n].physical >= ts[n].physical]_vars
  BY <1>1
<1> QED
  BY <1>2, HalvesInRange, PTL DEF Spec, PhysicalForward

(* Whatever the clocks of a system have come to, their next timestamps are *)
(* those of module Clock, but for the missing carry of Update.             *)
THEOREM ClocksComputeClock == Spec => []ComputesClock
<1>1. TypeOK => ComputesClock
  <2> SUFFICES ASSUME TypeOK, NEW n \in Nodes, NEW now \in 0..MaxPhysical
               PROVE  LET wall == Value(Compose(now, 0))
                      IN /\ Value(Tick(ts[n], now)) = C!Tick(Value(ts[n]), wall)
                         /\ \A t \in sent :
                              Value(Update(ts[n], t, now)) =
                                IF Wraps(ts[n], t, now)
                                THEN Value(Compose(MaxOf(t.physical, ts[n].physical), 0))
                                ELSE C!Update(Value(ts[n]), Value(t), wall)
    BY DEF ComputesClock
  <2>1. ts[n] \in Timestamp /\ sent \subseteq Timestamp /\ now \in Nat
    BY DEF TypeOK
  <2>2. Value(Tick(ts[n], now)) = C!Tick(Value(ts[n]), Value(Compose(now, 0)))
    BY <2>1, TickIsClockTick
  <2>3. ASSUME NEW t \in sent
        PROVE  Value(Update(ts[n], t, now)) =
                 IF Wraps(ts[n], t, now)
                 THEN Value(Compose(MaxOf(t.physical, ts[n].physical), 0))
                 ELSE C!Update(Value(ts[n]), Value(t), Value(Compose(now, 0)))
    BY <2>1, UpdateIsTick, UpdateIsClockUpdate
  <2> QED
    BY <2>2, <2>3
<1> QED
  BY <1>1, HalvesInRange, PTL

HIDE HLCAssumption

(* In Parts the clocks run as in HLC, or not at all.                       *)
LEMMA ClocksRun == PartsSpec => Spec
<1>1. PartsInit => Init
  BY DEF PartsInit
<1>2. [PartsNext]_partsVars => [Next]_vars
  BY DEF PartsNext, partsVars
<1> QED
  BY <1>1, <1>2, PTL DEF PartsSpec, Spec

(* hlc.go Tick and Update: whatever the clocks have come to, they compute  *)
(* what module Clock says, but for the missing carry of Update.            *)
THEOREM ClocksAgree == PartsSpec => []ComputesClock
BY ClocksRun, ClocksComputeClock, PTL

(* hlc.go: the physical half of a clock never goes back.                   *)
THEOREM ClocksForward == PartsSpec => PhysicalForward
BY ClocksRun, PhysicalNeverBack, PTL

-----------------------------------------------------------------------------
(* Every component's state has the type its module gives it, whichever     *)
(* component runs and for how long.                                        *)
THEOREM PartsTyped == PartsSpec => []PartsTypeOK
<1>1. PoolInv => Pool!TypeOK
  BY DEF PoolInv
<1>2. Locks!LockInv => Locks!TypeOK
  BY DEF Locks!LockInv
<1>3. StoreInv => Store!TypeOK
  BY DEF StoreInv, Store!TypeOK
<1>4. RingInv => Ring!TypeOK
  BY DEF RingInv
<1>5. PartsSpec => []PoolInv /\ []Locks!LockInv /\ []TypeOK
  BY PoolRuns, PoolHolds, LocksRun, LockManagerCorrect, ClocksRun, HalvesInRange, PTL
<1> QED
  BY <1>1, <1>2, <1>3, <1>4, <1>5, StoreRuns, RingRuns, PTL DEF PartsTypeOK
=============================================================================
