--------------------------- MODULE SessionsProofs ---------------------------
(***************************************************************************)
(* What a successful Commit promises, for every number of clients,         *)
(* routers, shards and requests.  The invariant follows a write from the   *)
(* shard's answer to the commit: while nobody ends the transaction it is   *)
(* in the shard's buffer, as the only TxStart that could replace that      *)
(* buffer holds the mutex of a router that has not started the shard; and  *)
(* the commit, which goes through that router, visits the shard in both    *)
(* of its phases.                                                          *)
(***************************************************************************)
EXTENDS Sessions, TLAPS

(* A request that has not arrived has no trace; the others are those of a  *)
(* transaction that has begun.                                             *)
Fresh(q) ==
  IF q[2] > sent[q[1]]
  THEN /\ pc[q] = "new" /\ op[q] = None /\ call[q] = "none"
       /\ result[q] = "none" /\ ~dead[q]
  ELSE /\ pc[q] # "new" /\ op[q] # None /\ via[q] \in Routers
       /\ op[q] = "write" => to[q] \in Shards
       /\ id[q[1]] # None

(* Where a handler stands says what it was asked and what was answered.    *)
Stands(q) ==
  /\ pc[q] \in {"ensure", "start", "write"} => op[q] = "write"
  /\ pc[q] \in {"prepare", "commit"} => op[q] = "commit"
  /\ pc[q] = "abort" => op[q] \in {"commit", "abort"}
  /\ pc[q] = "ensure" => call[q] = "none"
  /\ call[q] \in {"check", "create"} => pc[q] = "start" \/ dead[q]
  /\ call[q] # "none" => op[q] = "write"
  /\ result[q] = "ok" => /\ pc[q] = "done" /\ ~dead[q]
                         /\ op[q] = "write" => call[q] = "done"

(* A TxStart holds the mutex of a router that has not started the shard, a *)
(* TxWrite comes from one that has.                                        *)
Starting(q) ==
  /\ pc[q] = "start" =>
       mutex[via[q]] = q /\ <<IdOf(q), to[q]>> \notin involved[via[q]]
  /\ call[q] = "write" => <<IdOf(q), to[q]>> \in involved[via[q]]

(* Writes acknowledged when q arrived.                                     *)
Acknowledges(q) ==
  \A w \in acked[q] : w[1] = q[1] /\ op[w] = "write" /\ result[w] = "ok"

Handlers ==
  \A q \in Requests : Fresh(q) /\ Stands(q) /\ Starting(q) /\ Acknowledges(q)

(* The routers know only ids they gave out.                                *)
Known ==
  \A r \in Routers :
    /\ \A i \in active[r] : \E c \in Clients : id[c] = i
    /\ \A x \in involved[r] : \E c \in Clients : id[c] = x[1]

(* An id of one client is that of one router.                              *)
At(c, r) ==
  \/ id[c] \in active[r]
  \/ \E s \in Shards : <<id[c], s>> \in involved[r]
  \/ \E q \in Requests : q[1] = c /\ Ongoing(q) /\ via[q] = r

Home ==
  \A c \in Clients : id[c] # None /\ UniqueId(c) =>
    \A r1, r2 \in Routers : At(c, r1) /\ At(c, r2) => r1 = r2

(* The promise is about these writes.                                      *)
Loyal(w) == UniqueId(w[1]) /\ Patient(w) /\ w \notin lost

Buffered(w) == <<IdOf(w), w>> \in writes[to[w]]

Ending(c) == \E q \in Requests : q[1] = c /\ op[q] \in {"commit", "abort"}

(* A write that the shard has taken stays in the buffer until somebody     *)
(* ends the transaction, and its router knows that the shard is involved.  *)
Kept ==
  \A w \in Requests :
    /\ op[w] = "write" /\ Loyal(w)
    /\ call[w] = "done" /\ pc[w] \in {"write", "done"}
    => /\ <<IdOf(w), to[w]>> \in involved[via[w]]
       /\ Buffered(w) \/ Ending(w[1])

(* Of the writes acknowledged before a commit that goes through.           *)
Keeping(q, w) ==
  /\ pc[q] \in {"prepare", "commit"} => <<IdOf(q), to[w]>> \in involved[via[q]]
  /\ pc[q] = "prepare" => Buffered(w)
  /\ pc[q] = "commit" => w \in store[to[w]] \/ (to[w] \in due[q] /\ Buffered(w))
  /\ pc[q] = "done" /\ result[q] = "ok" => w \in store[to[w]]

Promised ==
  \A q \in Requests :
    op[q] = "commit" /\ OnlyEnd(q) /\ ~dead[q] =>
      \A w \in acked[q] : Loyal(w) => Keeping(q, w)

SessionInv == TypeOK /\ Handlers /\ Known /\ Home /\ Kept /\ Promised

-----------------------------------------------------------------------------
LEMMA RequestShape ==
  ASSUME NEW q \in Requests
  PROVE  q[1] \in Clients /\ q[2] \in Nat /\ q = <<q[1], q[2]>>
BY SessionsAssumption DEF Requests

LEMMA InitSessions == Init => SessionInv
<1> SUFFICES ASSUME Init
             PROVE  SessionInv
  OBVIOUS
<1>1. TypeOK
  <2>1. clock \in [Routers -> Nat]
    BY SessionsAssumption DEF Init
  <2> QED
    BY <2>1 DEF Init, TypeOK, Positions
<1>2. Handlers
  <2> SUFFICES ASSUME NEW q \in Requests
               PROVE  Fresh(q) /\ Stands(q) /\ Starting(q) /\ Acknowledges(q)
    BY DEF Handlers
  <2>1. sent[q[1]] = 0 /\ q[2] \in Nat /\ q[2] > 0
    BY SessionsAssumption DEF Requests, Init
  <2> QED
    BY <2>1, SessionsAssumption DEF Init, Fresh, Stands, Starting, Acknowledges
<1>3. Known /\ Home
  BY DEF Init, Known, Home
<1>4. Kept /\ Promised
  BY SessionsAssumption DEF Init, Kept, Promised
<1> QED
  BY <1>1, <1>2, <1>3, <1>4 DEF SessionInv

-----------------------------------------------------------------------------
LEMMA Arrived ==
  ASSUME TypeOK, Handlers, NEW q \in Requests, pc[q] # "new"
  PROVE  /\ IdOf(q) \in Nat /\ via[q] \in Routers /\ op[q] \in Operations
         /\ op[q] = "write" => to[q] \in Shards
         /\ ~(q[2] > sent[q[1]])
BY RequestShape DEF TypeOK, Handlers, Fresh, IdOf, Ids

LEMMA Called ==
  ASSUME TypeOK, Handlers, NEW q \in Requests, call[q] # "none"
  PROVE  pc[q] # "new" /\ op[q] = "write"
BY DEF Handlers, Fresh, Stands

(* A step types the state, action by action.                               *)
LEMMA TypeStep == TypeOK /\ Handlers /\ Next => TypeOK'
<1> SUFFICES ASSUME TypeOK, Handlers, Next
             PROVE  TypeOK'
  OBVIOUS
<1>1. ASSUME NEW c \in Clients, NEW r \in Routers, Begin(c, r)
      PROVE  TypeOK'
  <2>1. Tick(clock[r], 0) \in Nat /\ Tick(Tick(clock[r], 0), 0) \in Nat
    BY DEF TypeOK, Tick
  <2> QED
    BY <1>1, <2>1 DEF Begin, TypeOK, Ids, shard
<1>2. ASSUME NEW c \in Clients, NEW r \in Routers, NEW o \in Operations,
             NEW s \in Shards \cup {None}, Arrive(c, o, s, r)
      PROVE  TypeOK'
  <2> DEFINE q == <<c, sent[c] + 1>>
  <2>1. q \in Requests /\ sent' \in [Clients -> Nat]
    BY <1>2 DEF Arrive, TypeOK
  <2>2. /\ op' \in [Requests -> Operations \cup {None}]
        /\ to' \in [Requests -> Shards \cup {None}]
        /\ via' \in [Requests -> Routers \cup {None}]
        /\ acked' \in [Requests -> SUBSET Requests]
    BY <1>2, <2>1 DEF Arrive, TypeOK, Acknowledged
  <2>3. /\ pc' \in [Requests -> Positions]
        /\ due' \in [Requests -> SUBSET Shards]
        /\ result' \in [Requests -> {"none", "ok", "error"}]
    <3>1. CASE Return(q, "error") /\ UNCHANGED due
      BY <3>1, <2>1 DEF TypeOK, Return, Goto, Positions
    <3>2. CASE /\ Goto(q, FirstStep[o])
               /\ due' = [due EXCEPT ![q] = IF o = "write" THEN {} ELSE Involved(c, r)]
               /\ UNCHANGED result
      <4>1. FirstStep[o] \in Positions
        BY DEF FirstStep, Operations, Positions
      <4>2. Involved(c, r) \in SUBSET Shards
        BY DEF Involved
      <4> QED
        BY <3>2, <2>1, <4>1, <4>2 DEF TypeOK, Goto
    <3> QED
      BY <1>2, <3>1, <3>2 DEF Arrive
  <2> QED
    BY <1>2, <2>1, <2>2, <2>3 DEF Arrive, TypeOK, router, shard
<1>3. ASSUME NEW q \in Requests, Deadline(q)
      PROVE  TypeOK'
  BY <1>3 DEF Deadline, TypeOK, router, shard, client
<1>4. ASSUME NEW q \in Requests, Ensure(q) 
      PROVE  TypeOK'
  <2>1. mutex' \in [Routers -> Requests \cup {None}]
    BY <1>4 DEF Ensure, TypeOK
  <2>2. pc' \in [Requests -> Positions]
    BY <1>4 DEF Ensure, TypeOK, Call, Goto, Positions
  <2>3. call' \in [Requests -> {"none", "check", "exists", "create", "write", "missing", "done"}]
    BY <1>4 DEF Ensure, TypeOK, Call
  <2> QED
    BY <1>4, <2>1, <2>2, <2>3 DEF Ensure, TypeOK, client
<1>5. ASSUME NEW q \in Requests, ShardCheck(q)
      PROVE  TypeOK'
  BY <1>5 DEF ShardCheck, TypeOK, router, client
<1>6. ASSUME NEW q \in Requests, ShardCreate(q)
      PROVE  TypeOK'
  <2>1. IdOf(q) \in Nat
    BY <1>6, Called, Arrived DEF ShardCreate
  <2> QED
    BY <1>6, <2>1 DEF ShardCreate, TypeOK, router, client, Ids
<1>7. ASSUME NEW q \in Requests, StartFails(q) \/ Written(q)
      PROVE  TypeOK'
  <2>1. mutex' \in [Routers -> Requests \cup {None}]
    BY <1>7 DEF StartFails, Written, TypeOK, Unlock, router
  <2>2. pc' \in [Requests -> Positions]
    BY <1>7 DEF StartFails, Written, TypeOK, Return, Goto, Positions
  <2>3. result' \in [Requests -> {"none", "ok", "error"}]
    BY <1>7 DEF StartFails, Written, TypeOK, Return
  <2> QED
    BY <1>7, <2>1, <2>2, <2>3 DEF StartFails, Written, TypeOK, router, shard, client
<1>8. ASSUME NEW q \in Requests, Started(q)
      PROVE  TypeOK'
  <2>1. IdOf(q) \in Nat /\ to[q] \in Shards /\ via[q] \in Routers
    BY <1>8, Arrived DEF Started, Handlers, Stands
  <2>2. mutex' \in [Routers -> Requests \cup {None}]
    BY <1>8 DEF Started, Unlock, TypeOK
  <2>3. CASE call[q] = "exists" /\ Return(q, "error") /\ UNCHANGED <<involved, due, call>>
    BY <1>8, <2>2, <2>3 DEF Started, TypeOK, Return, Goto, Positions, client
  <2>4. CASE /\ call[q] = "done"
             /\ involved' = [involved EXCEPT ![via[q]] = @ \cup {<<IdOf(q), to[q]>>}]
             /\ \E meet \in SUBSET Looping(q) :
                  due' = [p \in Requests |-> IF p \in meet THEN due[p] \cup {to[q]} ELSE due[p]]
             /\ Call(q, "write", "write")
             /\ UNCHANGED result
    <3>1. involved' \in [Routers -> SUBSET (Ids \X Shards)]
      BY <2>1, <2>4 DEF TypeOK, Ids
    <3>2. due' \in [Requests -> SUBSET Shards]
      BY <2>1, <2>4 DEF TypeOK
    <3>3. pc' \in [Requests -> Positions]
      BY <2>4 DEF TypeOK, Call, Goto, Positions
    <3>4. call' \in [Requests -> {"none", "check", "exists", "create", "write", "missing", "done"}]
      BY <2>4 DEF TypeOK, Call
    <3> QED
      BY <1>8, <2>2, <2>4, <3>1, <3>2, <3>3, <3>4 DEF Started, TypeOK, client
  <2> QED
    BY <1>8, <2>3, <2>4 DEF Started
<1>9. ASSUME NEW q \in Requests, ShardWrite(q)
      PROVE  TypeOK'
  <2>1. IdOf(q) \in Nat /\ to[q] \in Shards
    BY <1>9, Called, Arrived DEF ShardWrite
  <2>2. call' \in [Requests -> {"none", "check", "exists", "create", "write", "missing", "done"}]
    BY <1>9 DEF ShardWrite, TypeOK
  <2>3. writes' \in [Shards -> SUBSET (Ids \X Requests)]
    BY <1>9, <2>1 DEF ShardWrite, TypeOK, Ids
  <2> QED
    BY <1>9, <2>2, <2>3 DEF ShardWrite, TypeOK, router, client
<1>10. ASSUME NEW q \in Requests, NEW s \in Shards,
              Prepare(q, s) \/ CommitAt(q, s) \/ AbortAt(q, s)
       PROVE  TypeOK'
  <2>1. buffers' \in [Shards -> SUBSET Ids] /\ writes' \in [Shards -> SUBSET (Ids \X Requests)]
    BY <1>10 DEF Prepare, CommitAt, AbortAt, DropBuffer, TypeOK
  <2>2. due' \in [Requests -> SUBSET Shards]
    <3>1. CASE Visited(q, s)
      BY <3>1 DEF Visited, TypeOK
    <3>2. CASE AbortAll(q)
      BY <3>2 DEF AbortAll, Involved, TypeOK
    <3> QED
      BY <1>10, <3>1, <3>2 DEF Prepare, CommitAt, AbortAt
  <2>3. pc' \in [Requests -> Positions]
    <3>1. CASE UNCHANGED pc
      BY <3>1 DEF TypeOK
    <3>2. CASE Goto(q, "abort")
      BY <3>2 DEF Goto, Positions, TypeOK
    <3> QED
      BY <1>10, <3>1, <3>2 DEF Prepare, CommitAt, AbortAt, AbortAll
  <2>4. store' \in [Shards -> SUBSET Requests]
    <3>1. {w[2] : w \in BufferOf(q, s)} \subseteq Requests
      <4>1. writes[s] \subseteq Ids \X Requests
        BY DEF TypeOK
      <4> QED
        BY <4>1 DEF BufferOf
    <3> QED
      BY <1>10, <3>1 DEF Prepare, CommitAt, AbortAt, TypeOK
  <2> QED
    BY <1>10, <2>1, <2>2, <2>3, <2>4 DEF Prepare, CommitAt, AbortAt, TypeOK, router, client
<1>11. ASSUME NEW q \in Requests, Decide(q)
       PROVE  TypeOK'
  <2>1. due' \in [Requests -> SUBSET Shards] /\ pc' \in [Requests -> Positions]
    BY <1>11 DEF Decide, Goto, Positions, Involved, TypeOK
  <2> QED
    BY <1>11, <2>1 DEF Decide, TypeOK, router, shard, client
<1>12. ASSUME NEW q \in Requests, End(q)
       PROVE  TypeOK'
  <2>1. active' \in [Routers -> SUBSET Ids]
    <3>1. \A r \in Routers : active'[r] \subseteq active[r]
      BY <1>12 DEF End, TypeOK
    <3> QED
      BY <1>12, <3>1 DEF End, TypeOK
  <2>2. pc' \in [Requests -> Positions] /\ result' \in [Requests -> {"none", "ok", "error"}]
    BY <1>12 DEF End, Return, Goto, Positions, TypeOK
  <2> QED
    BY <1>12, <2>1, <2>2 DEF End, TypeOK, shard, client
<1>13. CASE MapRace
  BY <1>13 DEF MapRace, TypeOK, router, shard, client
<1> QED
  BY <1>1, <1>2, <1>3, <1>4, <1>5, <1>6, <1>7, <1>8, <1>9, <1>10, <1>11, <1>12, <1>13
     DEF Next, RouterStep, ShardStep, Operations

-----------------------------------------------------------------------------
(* What the steps of a handler, or of a shard for it, have in common.      *)
LEMMA RoutersKept ==
  ASSUME Known, Home, UNCHANGED <<id, via, involved>>,
         \A r \in Routers : active'[r] \subseteq active[r],
         \A q \in Requests : Ongoing(q)' => Ongoing(q)
  PROVE  Known' /\ Home'
<1>1. Known'
  BY DEF Known
<1>2. \A c \in Clients, r \in Routers : At(c, r)' => At(c, r)
  BY DEF At
<1>3. Home'
  BY <1>2 DEF Home, UniqueId
<1> QED
  BY <1>1, <1>3

LEMMA HandlersKept ==
  ASSUME TypeOK, Handlers, UNCHANGED client, NEW q \in Requests,
         pc[q] # "new", pc'[q] # "new",
         result'[q] = result[q] \/ pc[q] # "done",
         \A p \in Requests \ {q} :
           pc'[p] = pc[p] /\ call'[p] = call[p] /\ result'[p] = result[p] /\ dead'[p] = dead[p],
         Stands(q)',
         \A p \in Requests : Starting(p)'
  PROVE  Handlers'
<1> SUFFICES ASSUME NEW p \in Requests
             PROVE  (Fresh(p) /\ Stands(p) /\ Starting(p) /\ Acknowledges(p))'
  BY DEF Handlers
<1>1. Fresh(p) /\ Stands(p) /\ Acknowledges(p) /\ Fresh(q) /\ Stands(q)
  BY DEF Handlers
<1>2. Fresh(p)'
  BY <1>1 DEF client, Fresh
<1>3. Stands(p)'
  BY <1>1 DEF client, Stands
<1>4. Acknowledges(p)'
  <2> SUFFICES ASSUME NEW w \in acked[p]
               PROVE  result'[w] = "ok"
    BY <1>1 DEF client, Acknowledges
  <2>1. w \in Requests /\ result[w] = "ok" /\ Stands(w)
    BY <1>1 DEF TypeOK, Handlers, Acknowledges
  <2> QED
    BY <2>1 DEF Stands
<1> QED
  BY <1>2, <1>3, <1>4

(* A shard does nothing to the buffers, but for ShardCreate, that a write  *)
(* still needs, and a write has to have been done to be called so.         *)
LEMMA WritesKept ==
  ASSUME TypeOK, Handlers, Home, Kept, Promised, UNCHANGED client,
         \A r \in Routers : involved[r] \subseteq involved'[r],
         \A s \in Shards : store[s] \subseteq store'[s],
         lost \subseteq lost',
         \A q \in Requests : dead[q] => dead'[q],
         \A q \in Requests : op[q] # "write" =>
           pc'[q] = pc[q] /\ result'[q] = result[q] /\ due[q] \subseteq due'[q],
         \A w \in Requests :
           Loyal(w) /\ op[w] = "write" /\ call'[w] = "done" /\ pc'[w] \in {"write", "done"} =>
             \/ call[w] = "done" /\ pc[w] \in {"write", "done"}
             \/ Loyal(w)' => Buffered(w)' /\ <<IdOf(w), to[w]>> \in involved'[via[w]],
         \A w \in Requests, r \in Routers :
           Loyal(w) /\ op[w] = "write" /\ <<IdOf(w), to[w]>> \in involved[r] /\ Buffered(w)
             => Buffered(w)'
  PROVE  Kept' /\ Promised'
<1>1. ASSUME NEW w \in Requests, Loyal(w)'
      PROVE  Loyal(w)
  BY <1>1 DEF Loyal, UniqueId, Patient, client
<1>2. \A q \in Requests : op[q] = "write" =>
        op'[q] = "write" /\ to[q] \in Shards /\ via[q] \in Routers /\ q[1] \in Clients
  BY RequestShape, SessionsAssumption DEF Handlers, Fresh, client
<1>3. Kept'
  <2> SUFFICES ASSUME NEW w \in Requests, op[w] = "write", Loyal(w)',
                      call'[w] = "done", pc'[w] \in {"write", "done"}
               PROVE  /\ <<IdOf(w), to[w]>> \in involved'[via[w]]
                      /\ Buffered(w)' \/ Ending(w[1])
    BY DEF Kept, client, IdOf, Ending
  <2>1. CASE call[w] = "done" /\ pc[w] \in {"write", "done"}
    BY <1>1, <1>2, <2>1 DEF Kept
  <2>2. CASE Buffered(w)' /\ <<IdOf(w), to[w]>> \in involved'[via[w]]
    BY <2>2
  <2> QED
    BY <1>1, <2>1, <2>2
<1>4. Promised'
  <2> SUFFICES ASSUME NEW q \in Requests, op[q] = "commit", OnlyEnd(q), ~dead'[q],
                      NEW w \in acked[q], Loyal(w)'
               PROVE  Keeping(q, w)'
    BY DEF Promised, client, OnlyEnd
  <2>1. w \in Requests /\ op[w] = "write" /\ Loyal(w) /\ Keeping(q, w)
    BY <1>1 DEF TypeOK, Handlers, Acknowledges, Promised
  <2>2. via[q] \in Routers /\ to[w] \in Shards /\ q[1] = w[1]
    BY <1>2, <2>1, SessionsAssumption DEF Handlers, Fresh, Acknowledges
  <2>3. /\ pc'[q] = pc[q] /\ result'[q] = result[q] /\ due[q] \subseteq due'[q]
        /\ store[to[w]] \subseteq store'[to[w]] /\ involved[via[q]] \subseteq involved'[via[q]]
        /\ UNCHANGED <<id, to, via>>
    BY <2>2 DEF client
  <2>4. pc[q] \in {"prepare", "commit"} /\ Buffered(w) => Buffered(w)'
    BY <2>1, <2>2 DEF Keeping, IdOf
  <2> QED
    BY <2>1, <2>3, <2>4 DEF Keeping, IdOf
<1> QED
  BY <1>3, <1>4

-----------------------------------------------------------------------------
(* Nobody else runs a TxStart through the same router.                     *)
LEMMA OneStarting ==
  ASSUME Handlers, NEW p \in Requests, NEW q \in Requests,
         pc[p] = "start", pc[q] = "start", via[p] = via[q]
  PROVE  p = q
BY DEF Handlers, Starting

LEMMA EnsureKeeps ==
  ASSUME SessionInv, NEW q \in Requests, Ensure(q), TypeOK'
  PROVE  SessionInv'
<1>1. /\ pc[q] = "ensure" /\ op[q] = "write" /\ call[q] = "none" /\ result[q] # "ok" 
      /\ via[q] \in Routers /\ to[q] \in Shards /\ Stands(q)
  BY Arrived DEF Ensure, SessionInv, Handlers, Stands
<1>2. UNCHANGED client
  BY DEF Ensure
<1>3. /\ \A p \in Requests \ {q} : pc'[p] = pc[p] /\ call'[p] = call[p]
      /\ \/ /\ pc'[q] = "write" /\ call'[q] = "write" /\ mutex' = mutex
            /\ <<IdOf(q), to[q]>> \in involved[via[q]]
         \/ /\ pc'[q] = "start" /\ call'[q] = "check"
            /\ <<IdOf(q), to[q]>> \notin involved[via[q]]
            /\ mutex'[via[q]] = q
            /\ \A r \in Routers \ {via[q]} : mutex'[r] = mutex[r]
  BY <1>1 DEF Ensure, Call, Goto, SessionInv, TypeOK, Involved, IdOf
<1>4. UNCHANGED <<active, involved, buffers, writes, store, lost, due, dead, result>>
  BY DEF Ensure
<1>5. Stands(q)'
  BY <1>1, <1>2, <1>3, <1>4 DEF Stands, client
<1>6. ASSUME NEW p \in Requests
      PROVE  Starting(p)'
  <2>1. Starting(p) /\ (pc[p] = "start" => via[p] \in Routers) /\ p # None
    BY Arrived, SessionsAssumption DEF SessionInv, Handlers
  <2> QED
    BY <1>1, <1>2, <1>3, <1>4, <2>1 DEF Ensure, Starting, client, IdOf
<1>7. Handlers'
  BY <1>1, <1>2, <1>3, <1>4, <1>5, <1>6, HandlersKept DEF SessionInv
<1>8. Known' /\ Home'
  <2>1. \A p \in Requests : Ongoing(p)' => Ongoing(p)
    BY <1>1, <1>3 DEF Ongoing
  <2> QED
    BY <1>2, <1>4, <2>1, RoutersKept DEF SessionInv, client
<1>9. Kept' /\ Promised'
  BY <1>1, <1>2, <1>3, <1>4, WritesKept DEF SessionInv, Buffered, IdOf, client
<1> QED
  BY <1>7, <1>8, <1>9 DEF SessionInv

LEMMA ShardCheckKeeps ==
  ASSUME SessionInv, NEW q \in Requests, ShardCheck(q), TypeOK'
  PROVE  SessionInv'
<1>1. /\ call[q] = "check" /\ pc[q] # "new" /\ op[q] = "write"
      /\ pc[q] = "start" \/ dead[q]
      /\ pc[q] # "ensure" /\ result[q] # "ok" /\ Stands(q)
  BY Called DEF ShardCheck, SessionInv, Handlers, Stands
<1>2. UNCHANGED <<client, active, involved, mutex, buffers, writes, store, lost, pc, due, dead, result>>
  BY DEF ShardCheck, router
<1>3. /\ \A p \in Requests \ {q} : call'[p] = call[p]
      /\ call'[q] \in {"exists", "create"}
  BY DEF ShardCheck, SessionInv, TypeOK
<1>4. Stands(q)'
  BY <1>1, <1>2, <1>3 DEF Stands, client
<1>5. \A p \in Requests : Starting(p)'
  BY <1>2, <1>3 DEF SessionInv, Handlers, Starting, client, IdOf
<1>6. Handlers'
  BY <1>1, <1>2, <1>3, <1>4, <1>5, HandlersKept DEF SessionInv
<1>7. Known' /\ Home'
  BY <1>2, RoutersKept DEF SessionInv, client, Ongoing
<1>8. Kept' /\ Promised'
  BY <1>1, <1>2, <1>3, WritesKept DEF SessionInv, Buffered, IdOf, client
<1> QED
  BY <1>6, <1>7, <1>8 DEF SessionInv

(* The buffer that ShardCreate replaces holds no write that is waited for: *)
(* its TxStart holds the mutex of a router for which the shard is new.     *)
LEMMA ShardCreateKeeps ==
  ASSUME SessionInv, NEW q \in Requests, ShardCreate(q), TypeOK'
  PROVE  SessionInv'
<1>1. /\ call[q] = "create" /\ pc[q] # "new" /\ op[q] = "write"
      /\ pc[q] = "start" \/ dead[q]
      /\ pc[q] # "ensure" /\ result[q] # "ok" /\ Stands(q)
      /\ via[q] \in Routers /\ to[q] \in Shards
  BY Called, Arrived DEF ShardCreate, SessionInv, Handlers, Stands
<1>2. UNCHANGED <<client, active, involved, mutex, store, lost, pc, due, dead, result>>
  BY DEF ShardCreate, router
<1>3. /\ \A p \in Requests \ {q} : call'[p] = call[p]
      /\ call'[q] = "done"
  BY DEF ShardCreate, SessionInv, TypeOK
<1>4. Stands(q)'
  BY <1>1, <1>2, <1>3 DEF Stands, client
<1>5. \A p \in Requests : Starting(p)'
  BY <1>2, <1>3 DEF SessionInv, Handlers, Starting, client, IdOf
<1>6. Handlers'
  BY <1>1, <1>2, <1>3, <1>4, <1>5, HandlersKept DEF SessionInv
<1>7. Known' /\ Home'
  BY <1>2, RoutersKept DEF SessionInv, client, Ongoing
<1>8. ASSUME NEW w \in Requests, NEW r \in Routers,
             Loyal(w), op[w] = "write", <<IdOf(w), to[w]>> \in involved[r], Buffered(w)
      PROVE  Buffered(w)'
  <2>1. CASE to[q] = to[w] /\ IdOf(q) = IdOf(w)
    <3>1. q[1] = w[1] /\ q[1] \in Clients /\ id[q[1]] # None
      <4>1. q[1] \in Clients /\ w[1] \in Clients
        BY RequestShape
      <4> QED
        BY <1>1, <1>8, <2>1, <4>1 DEF Loyal, UniqueId, IdOf, SessionInv, Handlers, Fresh
    <3>2. ~dead[q] /\ pc[q] = "start"
      BY <1>1, <1>8, <2>1, <3>1 DEF Loyal, Patient
    <3>3. <<IdOf(q), to[q]>> \notin involved[via[q]]
      BY <3>2 DEF SessionInv, Handlers, Starting
    <3>4. At(q[1], via[q]) /\ At(q[1], r)
      BY <1>1, <1>8, <2>1, <3>1, <3>2 DEF At, Ongoing, IdOf
    <3>5. via[q] = r
      BY <1>1, <1>8, <3>1, <3>4 DEF SessionInv, Home, Loyal
    <3> QED
      BY <1>8, <2>1, <3>3, <3>5
  <2>2. CASE ~(to[q] = to[w] /\ IdOf(q) = IdOf(w))
    <3>1. to[w] \in Shards
      BY <1>8, SessionsAssumption DEF SessionInv, Handlers, Fresh
    <3>2. \A s \in Shards : writes'[s] = IF s = to[q] THEN {x \in writes[s] : x[1] # IdOf(q)}
                                                    ELSE writes[s]
      BY DEF ShardCreate, SessionInv, TypeOK
    <3> QED
      BY <1>2, <1>8, <2>2, <3>1, <3>2 DEF Buffered, IdOf, client
  <2> QED
    BY <2>1, <2>2
<1>9. Kept' /\ Promised'
  <2>1. \A w \in Requests : Loyal(w) /\ w = q => pc[w] = "start"
    BY <1>1 DEF Loyal, Patient
  <2> QED
    BY <1>1, <1>2, <1>3, <1>8, <2>1, WritesKept DEF SessionInv
<1> QED
  BY <1>6, <1>7, <1>9 DEF SessionInv

LEMMA StartFailsKeeps ==
  ASSUME SessionInv, NEW q \in Requests, StartFails(q), TypeOK'
  PROVE  SessionInv'
<1>1. /\ pc[q] = "start" /\ dead[q] /\ op[q] = "write" /\ result[q] # "ok" /\ Stands(q)
      /\ via[q] \in Routers
  BY Arrived DEF StartFails, SessionInv, Handlers, Stands
<1>2. UNCHANGED <<client, active, involved, buffers, writes, store, call, lost, due, dead>>
  BY DEF StartFails, shard
<1>3. /\ \A p \in Requests \ {q} : pc'[p] = pc[p] /\ result'[p] = result[p]
      /\ pc'[q] = "done" /\ result'[q] = "error"
      /\ \A r \in Routers : mutex[r] # q => mutex'[r] = mutex[r]
  BY <1>1 DEF StartFails, Return, Goto, Unlock, SessionInv, TypeOK
<1>4. Stands(q)'
  BY <1>1, <1>2, <1>3 DEF Stands, client
<1>5. ASSUME NEW p \in Requests
      PROVE  Starting(p)'
  <2>1. Starting(p) /\ (pc[p] = "start" => via[p] \in Routers)
    BY Arrived DEF SessionInv, Handlers
  <2> QED
    BY <1>2, <1>3, <2>1 DEF Starting, client, IdOf
<1>6. Handlers'
  BY <1>1, <1>2, <1>3, <1>4, <1>5, HandlersKept DEF SessionInv
<1>7. Known' /\ Home'
  <2>1. \A p \in Requests : Ongoing(p)' => Ongoing(p)
    BY <1>1, <1>3 DEF Ongoing
  <2> QED
    BY <1>2, <2>1, RoutersKept DEF SessionInv, client
<1>8. Kept' /\ Promised'
  <2>1. ~Loyal(q)
    BY <1>1 DEF Loyal, Patient
  <2> QED
    BY <1>1, <1>2, <1>3, <2>1, WritesKept DEF SessionInv, Buffered, IdOf, client
<1> QED
  BY <1>6, <1>7, <1>8 DEF SessionInv

LEMMA ShardWriteKeeps ==
  ASSUME SessionInv, NEW q \in Requests, ShardWrite(q), TypeOK'
  PROVE  SessionInv'
<1>1. /\ call[q] = "write" /\ pc[q] # "new" /\ op[q] = "write"
      /\ pc[q] # "ensure" /\ Stands(q) /\ result[q] # "ok"
      /\ to[q] \in Shards /\ <<IdOf(q), to[q]>> \in involved[via[q]]
  BY Called, Arrived DEF ShardWrite, SessionInv, Handlers, Stands, Starting
<1>2. UNCHANGED <<client, active, involved, mutex, store, pc, due, dead, result>>
  BY DEF ShardWrite, router
<1>3. /\ \A p \in Requests \ {q} : call'[p] = call[p]
      /\ call'[q] \in {"done", "missing"}
      /\ call'[q] = "done" => \/ <<IdOf(q), q>> \in writes'[to[q]]
                             \/ q \in lost'
      /\ lost \subseteq lost' /\ \A s \in Shards : writes[s] \subseteq writes'[s]
  <2>1. /\ call \in [Requests -> {"none", "check", "exists", "create", "write", "missing", "done"}]
        /\ writes \in [Shards -> SUBSET (Ids \X Requests)]
    BY DEF SessionInv, TypeOK
  <2>2. CASE writes' = [writes EXCEPT ![to[q]] = @ \cup {<<IdOf(q), q>>}] /\ UNCHANGED lost
    <3>1. <<IdOf(q), q>> \in writes'[to[q]] /\ \A s \in Shards : writes[s] \subseteq writes'[s]
      BY <1>1, <2>1, <2>2
    <3>2. (\A p \in Requests \ {q} : call'[p] = call[p]) /\ call'[q] \in {"done", "missing"}
      BY <2>1 DEF ShardWrite
    <3> QED
      BY <2>2, <3>1, <3>2
  <2>3. CASE /\ UNCHANGED writes
             /\ \/ lost' = lost \cup {q}
                \/ call' = [call EXCEPT ![q] = "missing"] /\ UNCHANGED lost
    <3>1. (\A p \in Requests \ {q} : call'[p] = call[p]) /\ call'[q] \in {"done", "missing"}
      BY <2>1 DEF ShardWrite
    <3>2. call'[q] = "done" => q \in lost'
      BY <2>1, <2>3
    <3> QED
      BY <2>3, <3>1, <3>2
  <2> QED
    BY <2>2, <2>3 DEF ShardWrite
<1>4. Stands(q)'
  BY <1>1, <1>2, <1>3 DEF Stands, client
<1>5. \A p \in Requests : Starting(p)'
  BY <1>2, <1>3 DEF SessionInv, Handlers, Starting, client, IdOf
<1>6. Handlers'
  BY <1>1, <1>2, <1>3, <1>4, <1>5, HandlersKept DEF SessionInv
<1>7. Known' /\ Home'
  BY <1>2, RoutersKept DEF SessionInv, client, Ongoing
<1>8. \A w \in Requests : op[w] = "write" /\ Buffered(w) => Buffered(w)'
  BY <1>2, <1>3, SessionsAssumption DEF SessionInv, Handlers, Fresh, Buffered, IdOf, client
<1>9. call'[q] = "done" /\ Loyal(q)' => Buffered(q)'
  BY <1>2, <1>3 DEF Loyal, Buffered, IdOf, client
<1>10. Kept' /\ Promised'
  BY <1>1, <1>2, <1>3, <1>8, <1>9, WritesKept DEF SessionInv
<1> QED
  BY <1>6, <1>7, <1>10 DEF SessionInv

LEMMA WrittenKeeps ==
  ASSUME SessionInv, NEW q \in Requests, Written(q), TypeOK'
  PROVE  SessionInv'
<1>1. /\ pc[q] = "write" /\ op[q] = "write" /\ result[q] # "ok" /\ Stands(q)
  BY DEF Written, SessionInv, Handlers, Stands
<1>2. UNCHANGED <<client, active, involved, mutex, buffers, writes, store, call, lost, due, dead>>
  BY DEF Written, router, shard
<1>3. /\ \A p \in Requests \ {q} : pc'[p] = pc[p] /\ result'[p] = result[p]
      /\ pc'[q] = "done"
      /\ result'[q] = "ok" => call[q] = "done" /\ ~dead[q]
  BY <1>1 DEF Written, Return, Goto, SessionInv, TypeOK
<1>4. Stands(q)'
  BY <1>1, <1>2, <1>3 DEF Stands, client
<1>5. \A p \in Requests : Starting(p)'
  BY <1>2, <1>3 DEF SessionInv, Handlers, Starting, client, IdOf
<1>6. Handlers'
  BY <1>1, <1>2, <1>3, <1>4, <1>5, HandlersKept DEF SessionInv
<1>7. Known' /\ Home'
  <2>1. \A p \in Requests : Ongoing(p)' => Ongoing(p)
    BY <1>1, <1>3 DEF Ongoing
  <2> QED
    BY <1>2, <2>1, RoutersKept DEF SessionInv, client
<1>8. Kept' /\ Promised'
  BY <1>1, <1>2, <1>3, WritesKept DEF SessionInv, Buffered, IdOf, client
<1> QED
  BY <1>6, <1>7, <1>8 DEF SessionInv

LEMMA DeadlineKeeps ==
  ASSUME SessionInv, NEW q \in Requests, Deadline(q), TypeOK'
  PROVE  SessionInv'
<1>1. /\ pc[q] # "new" /\ pc[q] # "done" /\ result[q] # "ok" /\ Stands(q)
  BY DEF Deadline, Ongoing, SessionInv, Handlers, Stands
<1>2. UNCHANGED <<client, active, involved, mutex, buffers, writes, store, call, lost, pc, due, result>>
  BY DEF Deadline, router, shard
<1>3. \A p \in Requests \ {q} : dead'[p] = dead[p]
  BY DEF Deadline, SessionInv, TypeOK
<1>4. \A p \in Requests : dead[p] => dead'[p]
  BY <1>3 DEF Deadline
<1>5. Stands(q)'
  BY <1>1, <1>2, <1>4 DEF Stands, client
<1>6. \A p \in Requests : Starting(p)'
  BY <1>2 DEF SessionInv, Handlers, Starting, client, IdOf
<1>7. Handlers'
  BY <1>1, <1>2, <1>3, <1>5, <1>6, HandlersKept DEF SessionInv
<1>8. Known' /\ Home'
  BY <1>2, RoutersKept DEF SessionInv, client, Ongoing
<1>9. Kept' /\ Promised'
  BY <1>2, <1>4, WritesKept DEF SessionInv, Buffered, IdOf, client
<1> QED
  BY <1>7, <1>8, <1>9 DEF SessionInv

LEMMA StartedKeeps ==
  ASSUME SessionInv, NEW q \in Requests, Started(q), TypeOK'
  PROVE  SessionInv'
<1>1. /\ pc[q] = "start" /\ ~dead[q] /\ op[q] = "write" /\ result[q] # "ok" /\ Stands(q)
      /\ via[q] \in Routers /\ to[q] \in Shards /\ q[1] \in Clients
  BY Arrived, RequestShape DEF Started, SessionInv, Handlers, Stands
<1>2. UNCHANGED <<client, active, buffers, writes, store, lost, dead>>
  BY DEF Started
<1>3. \A p \in Requests \ {q} : pc'[p] = pc[p] /\ call'[p] = call[p] /\ result'[p] = result[p]
  BY DEF Started, Call, Return, Goto, SessionInv, TypeOK
<1>4. \A r \in Routers : mutex[r] # q => mutex'[r] = mutex[r]
  BY DEF Started, Unlock
<1>5. \/ /\ pc'[q] = "write" /\ call'[q] = "write" /\ result'[q] = result[q]
         /\ involved'[via[q]] = involved[via[q]] \cup {<<IdOf(q), to[q]>>}
         /\ \A r \in Routers \ {via[q]} : involved'[r] = involved[r]
      \/ /\ pc'[q] = "done" /\ call'[q] = "exists" /\ result'[q] = "error"
         /\ involved' = involved
  <2>1. CASE call[q] = "done"
    BY <1>1, <2>1 DEF Started, Call, Goto, SessionInv, TypeOK
  <2>2. CASE call[q] = "exists"
    BY <1>1, <2>2 DEF Started, Return, Goto, SessionInv, TypeOK
  <2> QED
    BY <2>1, <2>2 DEF Started
<1>6. Stands(q)'
  BY <1>1, <1>2, <1>5 DEF Stands, client
<1>7. ASSUME NEW p \in Requests
      PROVE  Starting(p)'
  <2>1. Starting(p) /\ (pc[p] = "start" => via[p] \in Routers)
    BY Arrived DEF SessionInv, Handlers
  <2>2. pc[p] = "start" /\ p # q => via[p] # via[q]
    BY <1>1, OneStarting DEF SessionInv
  <2>3. call[p] = "write" => via[p] \in Routers
    BY Called, Arrived DEF SessionInv
  <2>4. CASE p = q
    BY <1>2, <1>5, <2>4 DEF Starting, client, IdOf
  <2>5. CASE p # q
    BY <1>2, <1>3, <1>4, <1>5, <2>1, <2>2, <2>3, <2>5 DEF Starting, client, IdOf
  <2> QED
    BY <2>4, <2>5
<1>8. Handlers'
  BY <1>1, <1>2, <1>3, <1>5, <1>6, <1>7, HandlersKept DEF SessionInv
<1>9. \A p \in Requests : Ongoing(p)' => Ongoing(p)
  BY <1>1, <1>3 DEF Ongoing
<1>10. Known'
  BY <1>1, <1>2, <1>5 DEF SessionInv, Known, client, IdOf
<1>11. Home'
  <2>1. ASSUME NEW c \in Clients, NEW r \in Routers, id[c] # None, UniqueId(c), At(c, r)'
        PROVE  At(c, r)
    <3>1. CASE c = q[1] /\ r = via[q]
      BY <1>1, <3>1 DEF At, Ongoing
    <3>2. CASE ~(c = q[1] /\ r = via[q])
      <4>1. \A s \in Shards : <<id[c], s>> \in involved'[r] => <<id[c], s>> \in involved[r]
        BY <1>1, <1>5, <2>1, <3>2 DEF UniqueId, IdOf
      <4> QED
        BY <1>2, <1>9, <2>1, <4>1 DEF At, client
    <3> QED
      BY <3>1, <3>2
  <2> QED
    BY <1>2, <2>1 DEF SessionInv, Home, UniqueId, client
<1>12. Kept' /\ Promised'
  <2>1. \A r \in Routers : involved[r] \subseteq involved'[r]
    BY <1>5
  <2>2. \A p \in Requests : due[p] \subseteq due'[p]
    <3>1. CASE UNCHANGED due
      BY <3>1
    <3>2. ASSUME NEW meet,
                 due' = [p \in Requests |-> IF p \in meet THEN due[p] \cup {to[q]} ELSE due[p]]
          PROVE  \A p \in Requests : due[p] \subseteq due'[p]
      BY <3>2
    <3> QED
      BY <3>1, <3>2 DEF Started
  <2> QED
    BY <1>1, <1>2, <1>3, <1>5, <2>1, <2>2, WritesKept DEF SessionInv, Buffered, IdOf, client
<1> QED
  BY <1>8, <1>10, <1>11, <1>12 DEF SessionInv

-----------------------------------------------------------------------------
(* A handler that ends a transaction drops the buffers of that one only.   *)
LEMMA EndsKept ==
  ASSUME TypeOK, Handlers, Kept, Promised, UNCHANGED <<client, involved, call, lost, dead>>,
         NEW q \in Requests, op[q] \in {"commit", "abort"},
         \A p \in Requests \ {q} :
           pc'[p] = pc[p] /\ result'[p] = result[p] /\ due'[p] = due[p],
         \A s \in Shards : store[s] \subseteq store'[s],
         \A s \in Shards : \A x \in writes[s] : x[1] # IdOf(q) => x \in writes'[s],
         ASSUME op[q] = "commit", ~dead[q], NEW w \in acked[q], w \in Requests,
                to[w] \in Shards, IdOf(w) = IdOf(q), Keeping(q, w)
         PROVE  Keeping(q, w)'
  PROVE  Kept' /\ Promised'
<1>1. ASSUME NEW w \in Requests, op[w] = "write", Loyal(w), Buffered(w), w[1] # q[1]
      PROVE  Buffered(w)'
  <2>1. to[w] \in Shards /\ w[1] \in Clients /\ q[1] \in Clients
    BY <1>1, RequestShape, SessionsAssumption DEF Handlers, Fresh
  <2>2. IdOf(w) # IdOf(q)
    BY <1>1, <2>1 DEF Loyal, UniqueId, IdOf
  <2> QED
    BY <1>1, <2>1, <2>2 DEF Buffered, IdOf, client
<1>2. Kept'
  <2> SUFFICES ASSUME NEW w \in Requests, op[w] = "write", Loyal(w),
                      call[w] = "done", pc'[w] \in {"write", "done"}
               PROVE  /\ <<IdOf(w), to[w]>> \in involved[via[w]]
                      /\ Buffered(w)' \/ Ending(w[1])
    BY DEF Kept, client, IdOf, Ending, Loyal, UniqueId, Patient
  <2>1. w # q
    OBVIOUS
  <2>2. <<IdOf(w), to[w]>> \in involved[via[w]] /\ (Buffered(w) \/ Ending(w[1]))
    BY <2>1 DEF Kept
  <2> QED
    BY <1>1, <2>2 DEF Ending
<1>3. Promised'
  <2> SUFFICES ASSUME NEW p \in Requests, op[p] = "commit", OnlyEnd(p), ~dead[p],
                      NEW w \in acked[p], Loyal(w)
               PROVE  Keeping(p, w)'
    BY DEF Promised, client, OnlyEnd, Loyal, UniqueId, Patient
  <2>1. /\ w \in Requests /\ op[w] = "write" /\ to[w] \in Shards
        /\ w[1] = p[1] /\ Keeping(p, w)
    BY SessionsAssumption DEF TypeOK, Handlers, Fresh, Acknowledges, Promised
  <2>2. CASE p = q
    BY <2>1, <2>2 DEF IdOf
  <2>3. CASE p # q
    <3>1. w[1] # q[1]
      BY <2>1, <2>3 DEF OnlyEnd
    <3>2. Buffered(w) => Buffered(w)'
      BY <1>1, <2>1, <3>1
    <3> QED
      BY <2>1, <2>3, <3>2 DEF Keeping, client, IdOf
  <2> QED
    BY <2>2, <2>3
<1> QED
  BY <1>2, <1>3

LEMMA DropSpares ==
  ASSUME TypeOK, NEW q \in Requests, NEW s \in Shards,
         DropBuffer(q, s) \/ UNCHANGED writes
  PROVE  \A z \in Shards : \A x \in writes[z] : x[1] # IdOf(q) \/ z # s => x \in writes'[z]
BY DEF DropBuffer, BufferOf, TypeOK

LEMMA PrepareKeeps ==
  ASSUME SessionInv, NEW q \in Requests, NEW s \in Shards, Prepare(q, s), TypeOK'
  PROVE  SessionInv'
<1>1. /\ pc[q] = "prepare" /\ op[q] = "commit" /\ result[q] # "ok" /\ Stands(q)
  BY DEF Prepare, SessionInv, Handlers, Stands
<1>2. UNCHANGED <<client, active, involved, mutex, store, call, lost, dead, result>>
  BY DEF Prepare, router
<1>3. \/ Visited(q, s) /\ UNCHANGED <<writes, pc>>
      \/ AbortAll(q)
  BY DEF Prepare
<1>4. /\ \A p \in Requests \ {q} : pc'[p] = pc[p] /\ due'[p] = due[p]
      /\ \/ pc'[q] = "prepare" /\ UNCHANGED writes
         \/ pc'[q] = "abort"
  <2>1. CASE Visited(q, s) /\ UNCHANGED <<writes, pc>>
    BY <1>1, <2>1 DEF Visited, SessionInv, TypeOK
  <2>2. CASE AbortAll(q)
    BY <2>2 DEF AbortAll, Goto, SessionInv, TypeOK
  <2> QED
    BY <1>3, <2>1, <2>2
<1>5. Stands(q)'
  BY <1>1, <1>2, <1>4 DEF Stands, client
<1>6. \A p \in Requests : Starting(p)'
  BY <1>1, <1>2, <1>4 DEF SessionInv, Handlers, Starting, client, IdOf
<1>7. Handlers'
  BY <1>1, <1>2, <1>4, <1>5, <1>6, HandlersKept DEF SessionInv
<1>8. Known' /\ Home'
  <2>1. \A p \in Requests : Ongoing(p)' => Ongoing(p)
    BY <1>1, <1>4 DEF Ongoing
  <2> QED
    BY <1>2, <2>1, RoutersKept DEF SessionInv, client
<1>9. Kept' /\ Promised'
  <2>1. \A z \in Shards : \A x \in writes[z] : x[1] # IdOf(q) => x \in writes'[z]
    BY DropSpares DEF Prepare, SessionInv
  <2>2. ASSUME NEW w \in acked[q], Keeping(q, w)
        PROVE  Keeping(q, w)'
    BY <1>1, <1>2, <1>4, <2>2 DEF Keeping, Buffered, IdOf, client
  <2> QED
    BY <1>1, <1>2, <1>4, <2>1, <2>2, EndsKept DEF SessionInv
<1> QED
  BY <1>7, <1>8, <1>9 DEF SessionInv

LEMMA DecideKeeps ==
  ASSUME SessionInv, NEW q \in Requests, Decide(q), TypeOK'
  PROVE  SessionInv'
<1>1. /\ pc[q] = "prepare" /\ op[q] = "commit" /\ result[q] # "ok" /\ Stands(q)
  BY DEF Decide, SessionInv, Handlers, Stands
<1>2. UNCHANGED <<client, active, involved, mutex, writes, store, call, lost, dead, result>>
  BY DEF Decide, router, shard
<1>3. /\ \A p \in Requests \ {q} : pc'[p] = pc[p] /\ due'[p] = due[p]
      /\ pc'[q] = "commit" /\ due'[q] = Involved(q[1], via[q])
  BY DEF Decide, Goto, SessionInv, TypeOK
<1>4. Stands(q)'
  BY <1>1, <1>2, <1>3 DEF Stands, client
<1>5. \A p \in Requests : Starting(p)'
  BY <1>1, <1>2, <1>3 DEF SessionInv, Handlers, Starting, client, IdOf
<1>6. Handlers'
  BY <1>1, <1>2, <1>3, <1>4, <1>5, HandlersKept DEF SessionInv
<1>7. Known' /\ Home'
  <2>1. \A p \in Requests : Ongoing(p)' => Ongoing(p)
    BY <1>1, <1>3 DEF Ongoing
  <2> QED
    BY <1>2, <2>1, RoutersKept DEF SessionInv, client
<1>8. Kept' /\ Promised'
  <2>1. ASSUME NEW w \in acked[q], to[w] \in Shards, Keeping(q, w)
        PROVE  Keeping(q, w)'
    BY <1>1, <1>2, <1>3, <2>1 DEF Keeping, Buffered, Involved, IdOf, client
  <2> QED
    BY <1>1, <1>2, <1>3, <2>1, EndsKept DEF SessionInv
<1> QED
  BY <1>6, <1>7, <1>8 DEF SessionInv

LEMMA CommitAtKeeps ==
  ASSUME SessionInv, NEW q \in Requests, NEW s \in Shards, CommitAt(q, s), TypeOK'
  PROVE  SessionInv'
<1>1. /\ pc[q] = "commit" /\ op[q] = "commit" /\ result[q] # "ok" /\ Stands(q)
  BY DEF CommitAt, SessionInv, Handlers, Stands
<1>2. UNCHANGED <<client, active, involved, mutex, pc, call, lost, dead, result>>
  BY DEF CommitAt, router
<1>3. /\ \A p \in Requests \ {q} : due'[p] = due[p]
      /\ due'[q] = due[q] \ {s}
  BY DEF CommitAt, Visited, SessionInv, TypeOK
<1>4. Stands(q)'
  BY <1>1, <1>2 DEF Stands, client
<1>5. \A p \in Requests : Starting(p)'
  BY <1>2 DEF SessionInv, Handlers, Starting, client, IdOf
<1>6. Handlers'
  BY <1>1, <1>2, <1>4, <1>5, HandlersKept DEF SessionInv
<1>7. Known' /\ Home'
  BY <1>2, RoutersKept DEF SessionInv, client, Ongoing
<1>8. \A z \in Shards : store[z] \subseteq store'[z]
  <2>1. CASE store' = [store EXCEPT ![s] = @ \cup {x[2] : x \in BufferOf(q, s)}]
    BY <2>1 DEF SessionInv, TypeOK
  <2>2. CASE UNCHANGED store
    BY <2>2
  <2> QED
    BY <2>1, <2>2 DEF CommitAt
<1>9. \A z \in Shards : \A x \in writes[z] : x[1] # IdOf(q) \/ z # s => x \in writes'[z]
  BY DropSpares DEF CommitAt, SessionInv
<1>10. ASSUME ~dead[q], NEW w \in Requests, to[w] \in Shards, IdOf(w) = IdOf(q), Keeping(q, w)
       PROVE  Keeping(q, w)'
  <2>1. CASE w \in store[to[w]]
    BY <1>1, <1>2, <1>8, <1>10, <2>1 DEF Keeping, IdOf, client
  <2>2. CASE to[w] \in due[q] /\ Buffered(w) /\ to[w] # s
    BY <1>1, <1>2, <1>3, <1>9, <1>10, <2>2 DEF Keeping, Buffered, IdOf, client
  <2>3. CASE Buffered(w) /\ to[w] = s
    <3>1. <<IdOf(w), w>> \in BufferOf(q, s)
      BY <1>10, <2>3 DEF Buffered, BufferOf
    <3>2. store'[s] = store[s] \cup {x[2] : x \in BufferOf(q, s)}
      BY <1>10 DEF CommitAt, SessionInv, TypeOK
    <3> QED
      BY <1>1, <1>2, <1>10, <2>3, <3>1, <3>2 DEF Keeping, IdOf, client
  <2> QED
    BY <1>1, <1>10, <2>1, <2>2, <2>3 DEF Keeping
<1>11. Kept' /\ Promised'
  <2>1. acked[q] \subseteq Requests
    BY DEF SessionInv, TypeOK
  <2> QED
    BY <1>1, <1>2, <1>3, <1>8, <1>9, <1>10, <2>1, EndsKept DEF SessionInv
<1> QED
  BY <1>6, <1>7, <1>11 DEF SessionInv

LEMMA AbortAtKeeps ==
  ASSUME SessionInv, NEW q \in Requests, NEW s \in Shards, AbortAt(q, s), TypeOK'
  PROVE  SessionInv'
<1>1. /\ pc[q] = "abort" /\ op[q] \in {"commit", "abort"} /\ result[q] # "ok" /\ Stands(q)
  BY DEF AbortAt, SessionInv, Handlers, Stands
<1>2. UNCHANGED <<client, active, involved, mutex, store, pc, call, lost, dead, result>>
  BY DEF AbortAt, router
<1>3. \A p \in Requests \ {q} : due'[p] = due[p]
  BY DEF AbortAt, Visited, SessionInv, TypeOK
<1>4. Stands(q)'
  BY <1>1, <1>2 DEF Stands, client
<1>5. \A p \in Requests : Starting(p)'
  BY <1>2 DEF SessionInv, Handlers, Starting, client, IdOf
<1>6. Handlers'
  BY <1>1, <1>2, <1>4, <1>5, HandlersKept DEF SessionInv
<1>7. Known' /\ Home'
  BY <1>2, RoutersKept DEF SessionInv, client, Ongoing
<1>8. Kept' /\ Promised'
  <2>1. \A z \in Shards : \A x \in writes[z] : x[1] # IdOf(q) => x \in writes'[z]
    BY DropSpares DEF AbortAt, SessionInv
  <2>2. \A w \in acked[q] : Keeping(q, w)'
    BY <1>1, <1>2 DEF Keeping
  <2> QED
    BY <1>1, <1>2, <1>3, <2>1, <2>2, EndsKept DEF SessionInv
<1> QED
  BY <1>6, <1>7, <1>8 DEF SessionInv

LEMMA EndKeeps ==
  ASSUME SessionInv, NEW q \in Requests, End(q), TypeOK'
  PROVE  SessionInv'
<1>1. /\ pc[q] \in {"commit", "abort"} /\ op[q] \in {"commit", "abort"} /\ due[q] = {}
      /\ pc[q] = "commit" => op[q] = "commit"
      /\ result[q] # "ok" /\ Stands(q)
  BY DEF End, SessionInv, Handlers, Stands
<1>2. UNCHANGED <<client, involved, mutex, buffers, writes, store, call, lost, due, dead>>
  BY DEF End, shard
<1>3. /\ \A p \in Requests \ {q} : pc'[p] = pc[p] /\ result'[p] = result[p]
      /\ pc'[q] = "done"
      /\ result'[q] = "ok" => pc[q] = op[q] /\ ~dead[q]
  BY DEF End, Return, Goto, SessionInv, TypeOK
<1>4. Stands(q)'
  BY <1>1, <1>2, <1>3 DEF Stands, client
<1>5. \A p \in Requests : Starting(p)'
  BY <1>1, <1>2, <1>3 DEF SessionInv, Handlers, Starting, client, IdOf
<1>6. Handlers'
  BY <1>1, <1>2, <1>3, <1>4, <1>5, HandlersKept DEF SessionInv
<1>7. Known' /\ Home'
  <2>1. \A p \in Requests : Ongoing(p)' => Ongoing(p)
    BY <1>1, <1>3 DEF Ongoing
  <2>2. \A r \in Routers : active'[r] \subseteq active[r]
    BY DEF End, SessionInv, TypeOK
  <2> QED
    BY <1>2, <2>1, <2>2, RoutersKept DEF SessionInv, client
<1>8. Kept' /\ Promised'
  <2>1. ASSUME NEW w \in acked[q], op[q] = "commit", Keeping(q, w)
        PROVE  Keeping(q, w)'
    BY <1>1, <1>2, <1>3, <2>1 DEF Keeping, client
  <2> QED
    BY <1>1, <1>2, <1>3, <2>1, EndsKept DEF SessionInv
<1> QED
  BY <1>6, <1>7, <1>8 DEF SessionInv

-----------------------------------------------------------------------------
(* A client begins: under an id that another may have already, and then    *)
(* the promise is about neither.                                           *)
LEMMA BeginKeeps ==
  ASSUME SessionInv, NEW c \in Clients, NEW r \in Routers, Begin(c, r), TypeOK'
  PROVE  SessionInv'
<1> DEFINE tick == Tick(clock[r], 0)
<1>1. id[c] = None /\ tick \in Nat /\ None \notin Nat
  BY SessionsAssumption DEF Begin, SessionInv, TypeOK, Tick
<1>2. /\ UNCHANGED <<mutex, involved, shard, sent, op, to, via, acked, pc, due, dead, result>>
      /\ id'[c] = tick /\ \A d \in Clients \ {c} : id'[d] = id[d]
      /\ active'[r] = active[r] \cup {tick}
      /\ \A z \in Routers \ {r} : active'[z] = active[z]
  BY DEF Begin, SessionInv, TypeOK
<1>3. ASSUME NEW q \in Requests, q[1] = c
      PROVE  /\ q[2] > sent[q[1]] /\ pc[q] = "new" /\ op[q] = None /\ call[q] = "none"
             /\ op[q] \notin Operations
  BY <1>1, <1>3, SessionsAssumption DEF SessionInv, Handlers, Fresh, Operations
<1>4. \A q \in Requests : q[1] # c => q[1] \in Clients /\ IdOf(q)' = IdOf(q)
  BY <1>2, RequestShape DEF IdOf
<1>5. Handlers'
  <2> SUFFICES ASSUME NEW q \in Requests
               PROVE  (Fresh(q) /\ Stands(q) /\ Starting(q) /\ Acknowledges(q))'
    BY DEF Handlers
  <2>1. Fresh(q) /\ Stands(q) /\ Starting(q) /\ Acknowledges(q)
    BY DEF SessionInv, Handlers
  <2>2. Stands(q)' /\ Acknowledges(q)'
    BY <1>2, <2>1 DEF Stands, Acknowledges, shard
  <2>3. CASE q[1] = c
    BY <1>2, <1>3, <2>1, <2>2, <2>3 DEF Fresh, Starting, shard
  <2>4. CASE q[1] # c
    BY <1>2, <1>4, <2>1, <2>2, <2>4 DEF Fresh, Starting, shard, IdOf
  <2> QED
    BY <2>3, <2>4
<1>6. Known'
  <2> SUFFICES ASSUME NEW z \in Routers
               PROVE  /\ \A i \in active'[z] : \E d \in Clients : id'[d] = i
                      /\ \A x \in involved[z] : \E d \in Clients : id'[d] = x[1]
    BY <1>2 DEF Known
  <2>1. ASSUME NEW i \in Nat, \E d \in Clients : id[d] = i
        PROVE  \E d \in Clients : id'[d] = i
    BY <1>1, <1>2, <2>1
  <2>2. active[z] \subseteq Nat /\ \A x \in involved[z] : x[1] \in Nat
    <3>1. involved[z] \subseteq Nat \X Shards
      BY DEF SessionInv, TypeOK, Ids
    <3> QED
      BY <3>1 DEF SessionInv, TypeOK, Ids
  <2> QED
    BY <1>2, <2>1, <2>2 DEF SessionInv, Known
<1>7. Home'
  <2> SUFFICES ASSUME NEW d \in Clients, id'[d] # None, UniqueId(d)',
                      NEW r1 \in Routers, NEW r2 \in Routers, At(d, r1)', At(d, r2)'
               PROVE  r1 = r2
    BY DEF Home
  <2>1. CASE d = c
    <3>1. \A e \in Clients : id[e] # tick
      BY <1>1, <1>2, <2>1 DEF UniqueId
    <3>2. \A z \in Routers : tick \notin active[z] /\ \A s \in Shards : <<tick, s>> \notin involved[z]
      BY <3>1 DEF SessionInv, Known
    <3>3. \A z \in Routers : At(c, z)' => z = r
      BY <1>2, <1>3, <3>2 DEF At, Ongoing
    <3> QED
      BY <2>1, <3>3
  <2>2. CASE d # c
    <3>1. id[d] = id'[d] /\ id[d] # tick /\ id[d] # None
      BY <1>2, <2>2 DEF UniqueId
    <3>2. UniqueId(d)
      BY <1>1, <1>2, <2>2, <3>1 DEF UniqueId
    <3>3. \A z \in Routers : At(d, z)' => At(d, z)
      BY <1>2, <3>1 DEF At, Ongoing
    <3> QED
      BY <3>1, <3>2, <3>3 DEF SessionInv, Home
  <2> QED
    BY <2>1, <2>2
<1>8. ASSUME NEW w \in Requests, op[w] = "write", Loyal(w)'
      PROVE  w[1] # c /\ Loyal(w)
  <2>1. w[1] # c /\ id[w[1]] # None
    BY <1>3, <1>8, SessionsAssumption DEF Operations, SessionInv, Handlers, Fresh
  <2> QED
    BY <1>1, <1>2, <1>4, <1>8, <2>1 DEF Loyal, UniqueId, Patient, shard
<1>9. Kept'
  <2> SUFFICES ASSUME NEW w \in Requests, op[w] = "write", Loyal(w)',
                      call[w] = "done", pc[w] \in {"write", "done"}
               PROVE  (/\ <<IdOf(w), to[w]>> \in involved[via[w]]
                       /\ Buffered(w) \/ Ending(w[1]))'
    BY <1>2 DEF Kept, shard
  <2>1. Loyal(w) /\ IdOf(w)' = IdOf(w)
    BY <1>4, <1>8
  <2> QED
    BY <1>2, <2>1 DEF SessionInv, Kept, Buffered, Ending, shard
<1>10. Promised'
  <2> SUFFICES ASSUME NEW q \in Requests, op[q] = "commit", OnlyEnd(q), ~dead[q],
                      NEW w \in acked[q], Loyal(w)'
               PROVE  Keeping(q, w)'
    BY <1>2 DEF Promised, OnlyEnd
  <2>1. w \in Requests /\ op[w] = "write" /\ w[1] = q[1]
    BY DEF SessionInv, TypeOK, Handlers, Acknowledges
  <2>2. Loyal(w) /\ IdOf(w)' = IdOf(w) /\ IdOf(q)' = IdOf(q)
    BY <1>4, <1>8, <2>1
  <2>3. Keeping(q, w)
    BY <2>2 DEF SessionInv, Promised
  <2> QED
    BY <1>2, <2>2, <2>3 DEF Keeping, Buffered, shard
<1> QED
  BY <1>5, <1>6, <1>7, <1>9, <1>10 DEF SessionInv

(* A commit that finds its transaction has come to the router of the       *)
(* writes that were acknowledged.                                          *)
LEMMA ArriveKeeps ==
  ASSUME SessionInv, NEW c \in Clients, NEW r \in Routers, NEW o \in Operations,
         NEW s \in Shards \cup {None}, o = "write" => s \in Shards,
         Arrive(c, o, s, r), TypeOK'
  PROVE  SessionInv'
<1>0. PICK q \in Requests : q = <<c, sent[c] + 1>>
  BY DEF Arrive
<1>1. /\ q \in Requests /\ q[1] = c /\ q[2] = sent[c] + 1 /\ sent[c] \in Nat
      /\ id[c] # None /\ o # None
  BY <1>0, SessionsAssumption DEF Arrive, SessionInv, TypeOK, Operations
<1>2. pc[q] = "new" /\ op[q] = None /\ call[q] = "none" /\ result[q] = "none" /\ ~dead[q]
  <2>1. q[2] > sent[q[1]]
    BY <1>1
  <2> QED
    BY <1>1, <2>1 DEF SessionInv, Handlers, Fresh
<1>3. /\ UNCHANGED <<active, involved, mutex, buffers, writes, store, call, lost, id, dead>>
      /\ sent'[c] = sent[c] + 1 /\ \A d \in Clients \ {c} : sent'[d] = sent[d]
  BY DEF Arrive, router, shard, SessionInv, TypeOK
<1>4. /\ op'[q] = o /\ to'[q] = s /\ via'[q] = r /\ acked'[q] = Acknowledged(c)
      /\ \A p \in Requests \ {q} :
           op'[p] = op[p] /\ to'[p] = to[p] /\ via'[p] = via[p] /\ acked'[p] = acked[p]
  BY <1>0, <1>1 DEF Arrive, SessionInv, TypeOK
<1>5. /\ \A p \in Requests \ {q} :
           pc'[p] = pc[p] /\ due'[p] = due[p] /\ result'[p] = result[p]
      /\ \/ pc'[q] = "done" /\ result'[q] = "error"
         \/ pc'[q] = FirstStep[o] /\ result'[q] = "none" /\ id[c] \in active[r]
  <2>1. CASE Return(q, "error") /\ UNCHANGED due
    BY <1>1, <1>2, <2>1 DEF Return, Goto, SessionInv, TypeOK
  <2>2. CASE /\ id[c] \in active[r]
             /\ Goto(q, FirstStep[o])
             /\ due' = [due EXCEPT ![q] = IF o = "write" THEN {} ELSE Involved(c, r)]
             /\ UNCHANGED result
    BY <1>1, <1>2, <2>2 DEF Goto, SessionInv, TypeOK
  <2> QED
    BY <1>0, <2>1, <2>2 DEF Arrive
<1>6. \/ FirstStep[o] = "ensure" /\ o = "write"
      \/ FirstStep[o] = "prepare" /\ o = "commit"
      \/ FirstStep[o] = "abort" /\ o = "abort"
  BY DEF FirstStep, Operations
<1>7. ASSUME NEW w \in Requests, result[w] = "ok"
      PROVE  w # q /\ result'[w] = "ok"
  BY <1>2, <1>5, <1>7
<1>8. Acknowledged(c) \subseteq Requests
      /\ \A w \in Acknowledged(c) : w[1] = c /\ op[w] = "write" /\ result[w] = "ok"
  BY DEF Acknowledged
<1>9. Handlers'
  <2>1. ASSUME NEW p \in Requests, p # q
        PROVE  Fresh(p)' /\ Stands(p)' /\ Starting(p)'
    <3>1. Fresh(p) /\ Stands(p) /\ Starting(p)
      BY DEF SessionInv, Handlers
    <3>2. p[2] > sent'[p[1]] <=> p[2] > sent[p[1]]
      <4>1. p[1] \in Clients /\ p[2] \in Nat /\ (p[1] = c => p[2] # sent[c] + 1)
        BY <1>0, <2>1, RequestShape
      <4> QED
        BY <1>1, <1>3, <4>1
    <3> QED
      BY <1>3, <1>4, <1>5, <2>1, <3>1, <3>2 DEF Fresh, Stands, Starting, IdOf
  <2>2. Fresh(q)' /\ Stands(q)' /\ Starting(q)'
    BY <1>1, <1>2, <1>3, <1>4, <1>5, <1>6 DEF Fresh, Stands, Starting
  <2>3. ASSUME NEW p \in Requests
        PROVE  Acknowledges(p)'
    <3>1. CASE p = q
      BY <1>1, <1>4, <1>7, <1>8, <3>1 DEF Acknowledges
    <3>2. CASE p # q
      <4>1. Acknowledges(p) /\ acked[p] \subseteq Requests
        BY DEF SessionInv, TypeOK, Handlers
      <4> QED
        BY <1>4, <1>7, <3>2, <4>1 DEF Acknowledges
    <3> QED
      BY <3>1, <3>2
  <2>4. ASSUME NEW p \in Requests
        PROVE  Fresh(p)' /\ Stands(p)' /\ Starting(p)'
    <3>1. CASE p = q
      BY <2>2, <3>1
    <3>2. CASE p # q
      BY <2>1, <3>2
    <3> QED
      BY <3>1, <3>2
  <2> QED
    BY <2>3, <2>4 DEF Handlers
<1>10. Known'
  BY <1>3 DEF SessionInv, Known
<1>11. Home'
  <2>1. ASSUME NEW d \in Clients, NEW z \in Routers, At(d, z)'
        PROVE  At(d, z)
    <3>1. ASSUME NEW p \in Requests, p[1] = d, Ongoing(p)', via'[p] = z
          PROVE  At(d, z)
      BY <1>1, <1>4, <1>5, <3>1 DEF At, Ongoing
    <3> QED
      BY <1>3, <2>1, <3>1 DEF At
  <2> QED
    BY <1>3, <2>1 DEF SessionInv, Home, UniqueId
<1>12. ASSUME NEW w \in Requests, w # q, Loyal(w)'
       PROVE  Loyal(w)
  BY <1>2, <1>3, <1>4, <1>12 DEF Loyal, UniqueId, Patient
<1>13. ASSUME NEW w \in Requests, w # q, op[w] = "write", Loyal(w),
              call[w] = "done", pc[w] \in {"write", "done"}
       PROVE  /\ <<IdOf(w), to[w]>> \in involved[via[w]]
              /\ Buffered(w) \/ Ending(w[1])
  BY <1>13 DEF SessionInv, Kept
<1>14. Kept'
  <2> SUFFICES ASSUME NEW w \in Requests, op'[w] = "write", Loyal(w)',
                      call'[w] = "done", pc'[w] \in {"write", "done"}
               PROVE  (/\ <<IdOf(w), to[w]>> \in involved[via[w]]
                       /\ Buffered(w) \/ Ending(w[1]))'
    BY DEF Kept
  <2>1. w # q
    BY <1>2, <1>3
  <2>2. Ending(w[1]) => Ending(w[1])'
    BY <1>2, <1>4, SessionsAssumption DEF Ending
  <2> QED
    BY <1>3, <1>4, <1>5, <1>12, <1>13, <2>1, <2>2 DEF Buffered, IdOf
<1>15. Promised'
  <2> SUFFICES ASSUME NEW p \in Requests, op'[p] = "commit", OnlyEnd(p)', ~dead'[p],
                      NEW w \in acked'[p], Loyal(w)'
               PROVE  Keeping(p, w)'
    BY DEF Promised
  <2>1. CASE p = q
    <3>1. w \in Requests /\ w[1] = c /\ op[w] = "write" /\ result[w] = "ok" /\ w # q
      BY <1>4, <1>7, <1>8, <2>1
    <3>2. pc[w] = "done" /\ call[w] = "done" /\ via[w] \in Routers
      BY <3>1, Arrived DEF SessionInv, Handlers, Stands
    <3>3. ~Ending(c)
      BY <1>1, <1>2, <1>4, <2>1, SessionsAssumption DEF Ending, OnlyEnd
    <3>4. <<IdOf(w), to[w]>> \in involved[via[w]] /\ Buffered(w) /\ Loyal(w)
      BY <1>12, <1>13, <3>1, <3>2, <3>3
    <3>5. CASE pc'[q] = "done" /\ result'[q] = "error"
      BY <2>1, <3>5 DEF Keeping
    <3>6. CASE pc'[q] = FirstStep[o] /\ id[c] \in active[r]
      <4>1. pc'[q] = "prepare"
        BY <1>4, <1>6, <2>1, <3>6
      <4>2. At(c, r) /\ At(c, via[w])
        <5>1. to[w] \in Shards
          BY <3>1, <3>2, Arrived DEF SessionInv
        <5> QED
          BY <3>1, <3>4, <3>6, <5>1 DEF At, IdOf
      <4>3. via[w] = r
        BY <1>1, <3>1, <3>2, <3>4, <4>2 DEF SessionInv, Home, Loyal
      <4> QED
        BY <1>1, <1>3, <1>4, <2>1, <3>1, <3>4, <4>1, <4>3 DEF Keeping, Buffered, IdOf
    <3> QED
      BY <1>5, <3>5, <3>6
  <2>2. CASE p # q
    <3>1. op[p] = "commit" /\ ~dead[p] /\ w \in acked[p]
      BY <1>3, <1>4, <2>2
    <3>2. OnlyEnd(p)
      BY <1>2, <1>4, SessionsAssumption DEF OnlyEnd
    <3>3. w \in Requests /\ w # q
      BY <1>7, <3>1 DEF SessionInv, TypeOK, Handlers, Acknowledges
    <3>4. Keeping(p, w)
      BY <1>12, <3>1, <3>2, <3>3 DEF SessionInv, Promised
    <3> QED
      BY <1>3, <1>4, <1>5, <2>2, <3>3, <3>4 DEF Keeping, Buffered, IdOf
  <2> QED
    BY <2>1, <2>2
<1> QED
  BY <1>9, <1>10, <1>11, <1>14, <1>15 DEF SessionInv

-----------------------------------------------------------------------------
LEMMA StepSessions == SessionInv /\ [Next]_vars => SessionInv'
<1> SUFFICES ASSUME SessionInv, [Next]_vars
             PROVE  SessionInv'
  OBVIOUS
<1>1. CASE UNCHANGED vars \/ MapRace
  <2>1. UNCHANGED <<clock, active, mutex, involved, buffers, writes, store, id, sent, op, to, via,
                    pc, call, due, dead, result, acked, lost>>
    BY <1>1 DEF vars, MapRace, router, shard, client
  <2>2. TypeOK'
    BY <2>1 DEF SessionInv, TypeOK
  <2>3. Handlers'
    BY <2>1 DEF SessionInv, Handlers, Fresh, Stands, Starting, Acknowledges, IdOf
  <2>4. Known' /\ Home'
    BY <2>1, RoutersKept DEF SessionInv, Ongoing
  <2>5. Kept' /\ Promised'
    BY <2>1, WritesKept DEF SessionInv, Buffered, IdOf, client
  <2> QED
    BY <2>2, <2>3, <2>4, <2>5 DEF SessionInv
<1>2. Next => TypeOK'
  BY TypeStep DEF SessionInv
<1>3. ASSUME Next, NEW c \in Clients, NEW r \in Routers,
             \/ Begin(c, r)
             \/ \E s \in Shards : Arrive(c, "write", s, r)
             \/ Arrive(c, "commit", None, r)
             \/ Arrive(c, "abort", None, r)
      PROVE  SessionInv'
  BY <1>2, <1>3, BeginKeeps, ArriveKeeps DEF Operations
<1>4. ASSUME Next, NEW q \in Requests, Deadline(q) \/ RouterStep(q) \/ ShardStep(q)
      PROVE  SessionInv'
  BY <1>2, <1>4, DeadlineKeeps, EnsureKeeps, StartedKeeps, StartFailsKeeps, WrittenKeeps,
     PrepareKeeps, CommitAtKeeps, AbortAtKeeps, DecideKeeps, EndKeeps,
     ShardCheckKeeps, ShardCreateKeeps, ShardWriteKeeps
     DEF RouterStep, ShardStep
<1> QED
  BY <1>1, <1>3, <1>4 DEF Next

(* The invariant, whatever the clients send, wherever, and whenever they   *)
(* give up.                                                                *)
THEOREM SessionInvariant == Spec => []SessionInv
BY InitSessions, StepSessions, PTL DEF Spec

(* mulberry.go, shard.go: a successful Commit has committed every write    *)
(* that was acknowledged before it arrived, but for the exceptions that    *)
(* AckedWritesCommit names.                                                *)
THEOREM AcknowledgedIsCommitted == Spec => []AckedWritesCommit
<1>1. SessionInv => AckedWritesCommit
  <2> SUFFICES ASSUME SessionInv, NEW q \in Requests,
                      op[q] = "commit", result[q] = "ok", OnlyEnd(q), UniqueId(q[1]),
                      NEW w \in acked[q] \ lost, Patient(w)
               PROVE  w \in store[to[w]]
    BY DEF AckedWritesCommit
  <2>1. pc[q] = "done" /\ ~dead[q] /\ w[1] = q[1]
    BY DEF SessionInv, Handlers, Stands, Acknowledges
  <2>2. Keeping(q, w)
    BY <2>1 DEF SessionInv, Promised, Loyal
  <2> QED
    BY <2>1, <2>2 DEF Keeping
<1> QED
  BY <1>1, SessionInvariant, PTL
=============================================================================
