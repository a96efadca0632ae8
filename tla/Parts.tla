------------------------------- MODULE Parts -------------------------------
(***************************************************************************)
(* The components that the processes are built from and that know nothing  *)
(* of each other: a shard's lock manager and version store, the clock of   *)
(* every process, the ring and the connection pool of a router.  Each has  *)
(* a mutex of its own, and what another component does between two of its  *)
(* critical sections cannot touch it; so each is run by itself, one in     *)
(* each behaviour, against every sequence of calls.                        *)
(***************************************************************************)
EXTENDS HLC, FiniteSets

CONSTANTS
  Txs, Keys,                                              \* lock manager
  Writers, VersionSpace,                                  \* store, of Keys
  Shards, VirtualNodes, HashSpace, HashFunctions, Nobody, MaxRing,  \* ring
  Workers, Addresses, None, MaxConns                      \* connections

ASSUME PartsAssumption ==
  /\ VersionSpace \in Nat \ {0}
  /\ MaxConns \in Nat
  /\ None \notin 1..MaxConns
  /\ None \notin Addresses
  /\ IsFiniteSet(Shards)
  /\ VirtualNodes \in Nat \ {0}
  /\ HashSpace \in Nat \ {0}
  /\ HashFunctions \subseteq [Shards \X (1..VirtualNodes) -> 0..(HashSpace - 1)]
  /\ Nobody \notin Shards

VARIABLES
  part,                                    \* the component that runs
  mode, holders, txLocks, denied,
  data,
  hashOf, ring, nodeMap, shardSet,
  connections, stubs, open, made, at, address, got, removed

Locks == INSTANCE LockManager
Store == INSTANCE MVCCStore WITH Txs <- Writers
Ring == INSTANCE HashRing
Pool == INSTANCE Connections

lockVars == <<mode, holders, txLocks, denied>>
ringVars == <<hashOf, ring, nodeMap, shardSet>>
poolVars == <<connections, stubs, open, made, at, address, got, removed>>
partsVars == <<part, vars, lockVars, data, ringVars, poolVars>>

(* What the ring hashes with while it does not run.                        *)
OneFunction == CHOOSE f \in HashFunctions : TRUE

PartsInit ==
  /\ part \in {"clock", "locks", "store", "ring", "pool"}
  /\ Init
  /\ Locks!Init
  /\ Store!Init
  /\ Ring!Init
  /\ part # "ring" => hashOf = OneFunction
  /\ Pool!Init

PartsNext ==
  /\ UNCHANGED part
  /\ \/ /\ part = "clock" /\ Next
        /\ UNCHANGED <<lockVars, data, ringVars, poolVars>>
     \/ /\ part = "locks" /\ Locks!Next
        /\ UNCHANGED <<vars, data, ringVars, poolVars>>
     \/ /\ part = "store" /\ Store!Next
        /\ UNCHANGED <<vars, lockVars, ringVars, poolVars>>
     \/ /\ part = "ring" /\ Ring!Next
        /\ UNCHANGED <<vars, lockVars, data, poolVars>>
     \/ /\ part = "pool" /\ Pool!Next
        /\ UNCHANGED <<vars, lockVars, data, ringVars>>

PartsSpec == PartsInit /\ [][PartsNext]_partsVars

-----------------------------------------------------------------------------
(* The properties, each stated by the component's module. *)

(* Every component's state has the type its module gives it.               *)
PartsTypeOK ==
  TypeOK /\ Locks!TypeOK /\ Store!TypeOK /\ Ring!TypeOK /\ Pool!TypeOK

(* lock.go: nobody shares a write lock.                                    *)
Exclusive == Locks!Exclusive

(* lock.go: the table of keys and the table of transactions agree.         *)
TablesAgree == Locks!TablesAgree

(* lock.go: a lock is refused only on account of another transaction.      *)
DeniedByOther == Locks!DeniedByOther

(* store.go: bisection answers what the set of versions says.              *)
ReadsAgree == Store!ReadsAgree

(* store.go: collection changes no read of a snapshot that is kept.        *)
GCKeepsSnapshots == Store!GCKeepsSnapshots

(* hash_ring.go: routing depends on the members alone.                     *)
RoutesByMembership == Ring!RoutesByMembership

(* hash_ring.go: GetNShards returns the shards that follow.                *)
ReplicasInOrder == Ring!ReplicasInOrder

(* hash_ring.go: a change of members moves only the keys it must.          *)
MovesOnlyItsKeys == Ring!MovesOnlyItsKeys

(* connection_manager.go: an open connection is in the pool, once.         *)
PoolOwnsConnections == Pool!PoolOwnsConnections

(* connection_manager.go: GetConnection comes back empty only after a      *)
(* removal.                                                                *)
NothingOnlyIfRemoved == Pool!NothingOnlyIfRemoved
=============================================================================
