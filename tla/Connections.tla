---------------------------- MODULE Connections ----------------------------
(***************************************************************************)
(* The router's pool of connections to the shards                          *)
(* (internal/mulberry/connection_manager.go), used by the goroutines that  *)
(* serve requests, and by the one that shuts the router down.  An action   *)
(* is a critical section of the pool's mutex; a goroutine that finds no    *)
(* connection leaves the read lock before it takes the write lock.         *)
(***************************************************************************)
EXTENDS Naturals

CONSTANTS
  Workers,     \* goroutines
  Addresses,
  None,
  MaxConns     \* bound: connections ever made

VARIABLES
  connections,   \* connections[a]: the connection in the pool, if any
  stubs,         \* stubs[a]: the connection behind the stub of a
  open,          \* the connections made and not closed
  made,          \* how many were made: connections are numbered
  at,            \* at[w]: what worker w does next
  address,       \* address[w]: for which address
  got,           \* got[w]: the connection that the last call returned
  removed        \* removed[w]: history: one was removed during w's call

pool == <<connections, stubs, open, made>>
workers == <<at, address, got, removed>>
vars == <<pool, workers>>

Conns == 1..MaxConns

TypeOK ==
  /\ connections \in [Addresses -> Conns \cup {None}]
  /\ stubs \in [Addresses -> Conns \cup {None}]
  /\ open \subseteq Conns
  /\ made \in 0..MaxConns
  /\ at \in [Workers -> {"idle", "stub", "lookUp", "connect", "last"}]
  /\ address \in [Workers -> Addresses \cup {None}]
  /\ got \in [Workers -> Conns \cup {None}]
  /\ removed \in [Workers -> BOOLEAN]

Init ==
  /\ connections = [a \in Addresses |-> None]
  /\ stubs = [a \in Addresses |-> None]
  /\ open = {}
  /\ made = 0
  /\ at = [w \in Workers |-> "idle"]
  /\ address = [w \in Workers |-> None]
  /\ got = [w \in Workers |-> None]
  /\ removed = [w \in Workers |-> FALSE]

Goto(w, step) == at' = [at EXCEPT ![w] = step]

Return(w, conn) ==
  /\ Goto(w, "idle")
  /\ address' = [address EXCEPT ![w] = None]
  /\ got' = [got EXCEPT ![w] = conn]
  /\ UNCHANGED removed

-----------------------------------------------------------------------------
(* GetStub, called for itself ("stub") or by GetConnection ("connect").    *)

Call(w, a, found, step) ==
  /\ at[w] = "idle"
  /\ removed' = [removed EXCEPT ![w] = FALSE]
  /\ \/ /\ found # None
        /\ got' = [got EXCEPT ![w] = found]
        /\ UNCHANGED <<at, address>>
     \/ /\ found = None
        /\ Goto(w, step)
        /\ address' = [address EXCEPT ![w] = a]
        /\ UNCHANGED got
  /\ UNCHANGED pool

(* The lookup under the read lock.                                         *)
GetStub(w, a) == Call(w, a, stubs[a], "stub")

GetConnection(w, a) == Call(w, a, connections[a], "lookUp")

LookUpStub(w) ==
  /\ at[w] = "lookUp"
  /\ Goto(w, IF stubs[address[w]] = None THEN "connect" ELSE "last")
  /\ UNCHANGED <<pool, address, got, removed>>

Served(w, conn) ==
  \/ at[w] = "stub" /\ Return(w, conn)
  \/ at[w] = "connect" /\ Goto(w, "last") /\ UNCHANGED <<address, got, removed>>

(* Mutant: only the stub is put into the pool.                             *)
MakeStub(w) ==
  /\ made < MaxConns
  /\ made' = made + 1
  /\ open' = open \cup {made + 1}
  /\ stubs' = [stubs EXCEPT ![address[w]] = made + 1]
  /\ UNCHANGED connections
  /\ Served(w, made + 1)

MakeConnection(w) ==
  /\ made < MaxConns
  /\ made' = made + 1
  /\ open' = open \cup {made + 1}
  /\ connections' = [connections EXCEPT ![address[w]] = made + 1]
  /\ stubs' = [stubs EXCEPT ![address[w]] = made + 1]
  /\ Served(w, made + 1)

(* Mutant: nobody looks again under the write lock.                        *)
ConnectAnyway(w) ==
  /\ at[w] \in {"stub", "connect"}
  /\ MakeConnection(w)

(* Under the write lock, after the double check; NewClient may fail.       *)
Connect(w) ==
  /\ at[w] \in {"stub", "connect"}
  /\ \/ /\ stubs[address[w]] # None
        /\ Served(w, stubs[address[w]])
        /\ UNCHANGED pool
     \/ /\ stubs[address[w]] = None
        /\ MakeConnection(w)

ConnectFails(w) ==
  /\ at[w] \in {"stub", "connect"}
  /\ stubs[address[w]] = None
  /\ Goto(w, "idle")
  /\ address' = [address EXCEPT ![w] = None]
  /\ UNCHANGED <<pool, got, removed>>

(* The last section of GetConnection: what is in the pool now, with no     *)
(* error if that is nothing.                                               *)
TakeConnection(w) ==
  /\ at[w] = "last"
  /\ Return(w, connections[address[w]])
  /\ UNCHANGED pool

-----------------------------------------------------------------------------
Close(gone) ==
  /\ open' = open \ {connections[a] : a \in gone}
  /\ connections' = [a \in Addresses |-> IF a \in gone THEN None ELSE connections[a]]
  /\ stubs' = [a \in Addresses |-> IF a \in gone THEN None ELSE stubs[a]]
  /\ removed' = [w \in Workers |-> removed[w] \/ address[w] \in gone]
  /\ UNCHANGED <<made, at, address, got>>

RemoveConnection(a) == connections[a] # None /\ Close({a})

Shutdown == Close({a \in Addresses : connections[a] # None})

Next ==
  \/ \E w \in Workers :
       \/ \E a \in Addresses : GetStub(w, a) \/ GetConnection(w, a)
       \/ LookUpStub(w) \/ Connect(w) \/ ConnectFails(w) \/ TakeConnection(w)
  \/ \E a \in Addresses : RemoveConnection(a)
  \/ Shutdown

Spec == Init /\ [][Next]_vars

-----------------------------------------------------------------------------
(* Properties. *)

(* "It maintains a pool of persistent connections, reusing them": whatever *)
(* calls overlap, an open connection is in the pool, under one address and *)
(* behind its stub; none is opened twice or left behind by Shutdown.       *)
PoolOwnsConnections ==
  /\ open = {connections[a] : a \in Addresses} \ {None}
  /\ \A a \in Addresses : stubs[a] = connections[a]
  /\ \A a, b \in Addresses : connections[a] = connections[b] /\ a # b => connections[a] = None

(* GetConnection returns nothing without an error, and it does only when   *)
(* the connection was removed while the call was running.                  *)
NothingOnlyIfRemoved ==
  [][\A w \in Workers :
       at[w] = "last" /\ at'[w] = "idle" =>
         \/ removed[w]
         \/ got'[w] = connections[address[w]] /\ got'[w] \in open]_vars
=============================================================================
