------------------------------ MODULE Topology ------------------------------
(***************************************************************************)
(* The config server (CSRS: internal/csrs, cmd/csrs), the shards that      *)
(* register with it (cmd/shard), and one router's copy of the topology,    *)
(* kept by the goroutine syncTopology (cmd/mulberry).                      *)
(*                                                                         *)
(* The hash ring is left out: its members are those of the registry, and   *)
(* HashRing shows that routing depends on nothing else, so one key is      *)
(* enough, with the order in which the shards follow it around the ring.   *)
(* A shard's status changes only the version and the calls nobody makes    *)
(* (GetActiveShards), so it is left out too.                               *)
(***************************************************************************)
EXTENDS Clock, FiniteSets, Sequences

CONSTANTS
  Shards,
  AddressesOf,  \* AddressesOf[s]: where shard s may run
  Static,       \* the shards given to the config server by its -shards flag
  Order,        \* the shards as they follow the key around the ring
  Wall,         \* readings of the config server's clock, as timestamps
  None,
  MaxChanges,   \* bound: calls that change the topology
  MaxFailures,  \* bound: syncs that fail
  MaxRestarts   \* bound: restarts of the config server

(* A registry: the address of each registered shard.                       *)
Registries == [Shards -> (UNION {AddressesOf[s] : s \in Shards}) \cup {None}]

ASSUME TopologyAssumption ==
  /\ IsFiniteSet(Shards)
  /\ None \notin Shards
  /\ Static \in Registries
  /\ \A s \in Shards : None \notin AddressesOf[s] /\ Static[s] \in AddressesOf[s] \cup {None}
  /\ Order \in [1..Cardinality(Shards) -> Shards]
  /\ \A s \in Shards : \E i \in DOMAIN Order : Order[i] = s
  /\ Wall \subseteq Nat

Members(r) == {s \in Shards : r[s] # None}

(* HashRing.GetShardForKey, for the key, in a registry with members.       *)
Home(r) ==
  LET first == CHOOSE i \in DOMAIN Order :
                 Order[i] \in Members(r) /\ \A j \in 1..(i - 1) : Order[j] \notin Members(r)
  IN Order[first]

VARIABLES
  registry,   \* the config server's ShardRegistry
  version,    \* its topologyVersion, which is also its clock
  router,     \* the registry in the router
  phase,      \* where doSync stands
  fetched,    \* the address map the config server has answered with
  stamp,      \* the version it put in the same answer
  torn,       \* history: the topology changed between the two
  before,     \* currentShards: the router's registry when the answer came
  toAdd, toRemove,    \* what its two loops have not visited
  place,      \* the process that is asked for the shard of the key
  chosen,     \* the shard that its first critical section has found
  changes, failures, restarts

csrs == <<registry, version>>
sync == <<router, phase, fetched, stamp, torn, before, toAdd, toRemove>>
request == <<place, chosen>>
counters == <<changes, failures, restarts>>
vars == <<csrs, sync, request, counters>>

Phases == {"idle", "mapRead", "apply"}

TypeOK ==
  /\ registry \in Registries /\ router \in Registries
  /\ fetched \in Registries /\ before \in Registries
  /\ version \in Nat /\ stamp \in Nat
  /\ phase \in Phases
  /\ torn \in BOOLEAN
  /\ toAdd \subseteq Shards /\ toRemove \subseteq Shards
  /\ place \in {"none", "router", "csrs"}
  /\ chosen \in Shards \cup {None}

Empty == [s \in Shards |-> None]

(* Where n ticks can take a clock that has just started: c[i] is where it  *)
(* stands after i of them, some reading and the increments since.          *)
AfterTicks(n) ==
  LET runs == [0..n -> {now + i : now \in Wall \cup {0}, i \in 0..n}]
  IN {c[n] : c \in {c \in runs :
                      /\ c[0] = 0
                      /\ \A i \in 1..n : \E now \in Wall : c[i] = Tick(c[i - 1], now)}}

(* The -shards flag adds its shards one by one before the server listens.  *)
Boots(r, v) == r = Static /\ v \in AfterTicks(Cardinality(Members(Static)))

Init ==
  /\ Boots(registry, version)
  /\ router = Empty
  /\ phase = "idle"
  /\ fetched = Empty
  /\ stamp = 0
  /\ torn = FALSE
  /\ before = Empty
  /\ toAdd = {}
  /\ toRemove = {}
  /\ place = "none"
  /\ chosen = None
  /\ changes = 0
  /\ failures = 0
  /\ restarts = 0

Forget == place' = "none" /\ chosen' = None

-----------------------------------------------------------------------------
(* The config server. *)

(* Mutant: without a later reading the version counts down.                *)
IncrementVersionBack ==
  \E now \in Wall : version' = IF now > version THEN now ELSE version - 1

IncrementVersion == \E now \in Wall : version' = Tick(version, now)

Change ==
  /\ changes < MaxChanges
  /\ changes' = changes + 1
  /\ UNCHANGED <<sync, request, failures, restarts>>

(* RegisterShard, from a shard that has started, maybe elsewhere than last *)
(* time.                                                                   *)
AddShard(s, a) ==
  /\ Change
  /\ registry' = [registry EXCEPT ![s] = a]
  /\ IF s \in Members(registry) THEN UNCHANGED version ELSE IncrementVersion

(* Mutant: a shard leaves under the same version.                          *)
RemoveShardQuietly(s) ==
  /\ Change
  /\ s \in Members(registry)
  /\ registry' = [registry EXCEPT ![s] = None]
  /\ UNCHANGED version

RemoveShard(s) ==
  /\ Change
  /\ s \in Members(registry)
  /\ registry' = [registry EXCEPT ![s] = None]
  /\ IncrementVersion

(* UpdateShardStatus and BumpTopologyVersion.                              *)
Bump ==
  /\ Change
  /\ IncrementVersion
  /\ UNCHANGED registry

(* The process dies and starts again, and the calls it was serving fail.   *)
(* It persists nothing, and no shard registers a second time unless it     *)
(* restarts too.                                                           *)
Restart ==
  /\ restarts < MaxRestarts
  /\ restarts' = restarts + 1
  /\ Boots(registry', version')
  /\ phase' = IF phase = "mapRead" THEN "idle" ELSE phase
  /\ IF place = "csrs" THEN Forget ELSE UNCHANGED request
  /\ UNCHANGED <<router, fetched, stamp, torn, before, toAdd, toRemove,
                 changes, failures>>

-----------------------------------------------------------------------------
(* doSync: one GetShardAddressMap call, then the changes one by one.       *)

(* The handler of the call at the config server reads the map and then,    *)
(* under the lock again, the version.                                      *)
ReadMap ==
  /\ phase = "idle"
  /\ phase' = "mapRead"
  /\ fetched' = registry
  /\ UNCHANGED <<csrs, router, stamp, torn, before, toAdd, toRemove, request, counters>>

(* Mutant: the address of a known shard is not updated.                    *)
ReadVersionNewOnly ==
  /\ phase = "mapRead"
  /\ phase' = "apply"
  /\ stamp' = version
  /\ torn' = (fetched # registry)
  /\ before' = router
  /\ toAdd' = Members(fetched) \ Members(router)
  /\ toRemove' = Members(router) \ Members(fetched)
  /\ UNCHANGED <<csrs, router, fetched, request, counters>>

(* Mutant: a shard that is gone is never removed.                          *)
ReadVersionAddsOnly ==
  /\ phase = "mapRead"
  /\ phase' = "apply"
  /\ stamp' = version
  /\ torn' = (fetched # registry)
  /\ before' = router
  /\ toAdd' = {s \in Members(fetched) : router[s] # fetched[s]}
  /\ toRemove' = {}
  /\ UNCHANGED <<csrs, router, fetched, request, counters>>

ReadVersion ==
  /\ phase = "mapRead"
  /\ phase' = "apply"
  /\ stamp' = version
  /\ torn' = (fetched # registry)
  /\ before' = router
  /\ toAdd' = {s \in Members(fetched) : router[s] # fetched[s]}
  /\ toRemove' = Members(router) \ Members(fetched)
  /\ UNCHANGED <<csrs, router, fetched, request, counters>>

SyncAdd(s) ==
  /\ phase = "apply"
  /\ s \in toAdd
  /\ toAdd' = toAdd \ {s}
  /\ router' = [router EXCEPT ![s] = fetched[s]]
  /\ UNCHANGED <<csrs, phase, fetched, stamp, torn, before, toRemove,
                 request, counters>>

(* Mutant: shards are removed before the new ones are there.               *)
SyncRemoveFirst(s) ==
  /\ phase = "apply"
  /\ s \in toRemove
  /\ toRemove' = toRemove \ {s}
  /\ router' = [router EXCEPT ![s] = None]
  /\ UNCHANGED <<csrs, phase, fetched, stamp, torn, before, toAdd,
                 request, counters>>

SyncRemove(s) ==
  /\ phase = "apply"
  /\ toAdd = {}
  /\ s \in toRemove
  /\ toRemove' = toRemove \ {s}
  /\ router' = [router EXCEPT ![s] = None]
  /\ UNCHANGED <<csrs, phase, fetched, stamp, torn, before, toAdd,
                 request, counters>>

SyncEnd ==
  /\ phase = "apply"
  /\ toAdd = {}
  /\ toRemove = {}
  /\ phase' = "idle"
  /\ UNCHANGED <<csrs, router, fetched, stamp, torn, before, toAdd, toRemove, request, counters>>

(* The call fails; the next tick of the sync interval tries again.         *)
SyncFails ==
  /\ failures < MaxFailures
  /\ failures' = failures + 1
  /\ phase = "mapRead"
  /\ phase' = "idle"
  /\ UNCHANGED <<csrs, router, fetched, stamp, torn, before, toAdd, toRemove,
                 request, changes, restarts>>

SyncStep ==
  \/ ReadMap \/ ReadVersion \/ SyncEnd
  \/ \E s \in Shards : SyncAdd(s) \/ SyncRemove(s)

(* A lookup of the key, in two critical sections: GetShardForKey, then the *)
(* address.                                                                *)
LookUp(p) ==
  LET map == IF p = "router" THEN router ELSE registry
  IN /\ place = "none"
     /\ Members(map) # {}
     /\ place' = p
     /\ chosen' = Home(map)
     /\ UNCHANGED <<csrs, sync, counters>>

(* Mutant: the router too finds the shard of the address by the key.       *)
AddressByKey(p, s) ==
  LET map == IF p = "router" THEN router ELSE registry
  IN IF Members(map) = {} THEN None ELSE map[Home(map)]

(* The address found now, if any: the router asks by the shard, the config *)
(* server by the key again.                                                *)
Address(p, s) ==
  CASE p = "router" -> router[s]
    [] p = "csrs" -> IF Members(registry) = {} THEN None ELSE registry[Home(registry)]

(* The lookup returns its shard and Address(place, chosen), or an error.   *)
Answer ==
  /\ place # "none"
  /\ Forget
  /\ UNCHANGED <<csrs, sync, counters>>

Next ==
  \/ \E s \in Shards : \E a \in AddressesOf[s] : AddShard(s, a)
  \/ \E s \in Shards : RemoveShard(s)
  \/ Bump
  \/ Restart
  \/ SyncStep
  \/ SyncFails
  \/ LookUp("router")
  \/ LookUp("csrs")
  \/ Answer

Spec == Init /\ [][Next]_vars

(* The ticker of syncTopology goes on firing, whatever fails.              *)
FairSpec == Spec /\ WF_vars(SyncStep)

-----------------------------------------------------------------------------
(* Properties. *)

(* During a sync every shard is as it was or as it was fetched, and at its *)
(* end the router has what was fetched, however the config server has      *)
(* changed meanwhile.                                                      *)
SyncInstalls ==
  phase = "apply" =>
    /\ \A s \in Shards : router[s] \in {before[s], fetched[s]}
    /\ toAdd = {} /\ toRemove = {} => router = fetched

(* A router that has shards, and is told of some, has one at every moment  *)
(* of the sync, so a request that routes a key meanwhile finds one.        *)
NeverWithoutShards ==
  phase = "apply" /\ Members(before) # {} /\ Members(fetched) # {}
    => Members(router) # {}

(* A lookup never pairs a shard with the address of another, although it   *)
(* is not atomic and the router's registry changes shard by shard: an      *)
(* answer may be late, not mixed.  It is mixed at the config server if the *)
(* key has moved to another shard in between.                              *)
AddressIsOwn ==
  place # "none" =>
    \/ Address(place, chosen) \in AddressesOf[chosen] \cup {None}
    \/ place = "csrs" /\ Home(registry) # chosen

(* Every router catches up with the config server once that is left alone. *)
Converges == <>[](router = registry)

(* topology_manager.go "Routers can use this to detect if their cached     *)
(* view is stale": the version of an answer is older than the config       *)
(* server's as soon as the set of shards has changed since.  Not so for a  *)
(* new address of a known shard, for an answer whose map and version were  *)
(* read on two sides of a change, and after a restart.                     *)
MembershipChangeShows ==
  /\ phase = "apply"
  /\ ~torn
  /\ restarts = 0
  /\ Members(fetched) # Members(registry)
  => stamp < version
=============================================================================
