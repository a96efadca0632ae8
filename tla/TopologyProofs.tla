--------------------------- MODULE TopologyProofs ---------------------------
(***************************************************************************)
(* The registry, the router's copy and the sync between them, for every    *)
(* set of shards, addresses and readings of the clock.  The invariant      *)
(* says, of a running sync, which shards it has visited, and of the        *)
(* version it was answered with, what may have happened since.             *)
(***************************************************************************)
EXTENDS Topology, WellFoundedInduction, FiniteSetTheorems, TLAPS

(* A shard is only ever listed at one of its own addresses.                *)
Own(r) == \A s \in Shards : r[s] \in AddressesOf[s] \cup {None}

RegistriesOwn ==
  /\ {registry, router, fetched, before} \subseteq Registries
  /\ Own(registry) /\ Own(router) /\ Own(fetched) /\ Own(before)

(* What a running sync has visited is as fetched, what it has not is as    *)
(* before; it has additions left only of shards that were fetched, and     *)
(* removals only of shards that were not; nothing is removed before the    *)
(* last addition.                                                          *)
Applying ==
  phase = "apply" =>
    /\ toAdd \subseteq Members(fetched)
    /\ toRemove \subseteq Members(before) \ Members(fetched)
    /\ \A s \in Shards :
         router[s] = IF s \in toAdd \cup toRemove THEN before[s] ELSE fetched[s]
    /\ toAdd # {} => Members(before) \ Members(fetched) \subseteq toRemove

(* A lookup under way has chosen a shard, and the config server or the     *)
(* router is where it asks.                                                *)
Chosen ==
  place # "none" => place \in {"router", "csrs"} /\ chosen \in Shards

TopologyInv == RegistriesOwn /\ Applying /\ Chosen

-----------------------------------------------------------------------------
(* The key has a home in every registry with members: the first of them    *)
(* around the ring.                                                        *)
LEMMA HomeIsMember ==
  ASSUME NEW r, Members(r) # {}
  PROVE  Home(r) \in Members(r)
<1> DEFINE at == {i \in DOMAIN Order : Order[i] \in Members(r)}
           First(i) == Order[i] \in Members(r) /\ \A j \in 1..(i - 1) : Order[j] \notin Members(r)
<1>1. Cardinality(Shards) \in Nat /\ DOMAIN Order = 1..Cardinality(Shards)
  BY TopologyAssumption, FS_CardinalityType
<1>2. PICK s \in Members(r) : TRUE
  OBVIOUS
<1>3. at # {} /\ at \subseteq Nat
  <2>1. s \in Shards
    BY DEF Members
  <2>2. PICK i \in DOMAIN Order : Order[i] = s
    BY <2>1, TopologyAssumption
  <2> QED
    BY <1>1, <2>2
<1>4. PICK i \in at : \A j \in at : ~(<<j, i>> \in OpToRel(<, Nat))
  BY <1>3, NatLessThanWellFounded, WFMin
<1>5. First(i)
  <2>1. ASSUME NEW j \in 1..(i - 1), Order[j] \in Members(r)
        PROVE  FALSE
    <3>1. j \in at /\ j \in Nat /\ i \in Nat /\ j < i
      BY <1>1, <2>1
    <3> QED
      BY <1>4, <3>1 DEF OpToRel
  <2> QED
    BY <2>1
<1>6. \E k \in DOMAIN Order : First(k)
  BY <1>5
<1>7. Home(r) = Order[CHOOSE k \in DOMAIN Order : First(k)]
  BY DEF Home
<1> HIDE DEF First
<1>8. First(CHOOSE k \in DOMAIN Order : First(k))
  BY <1>6
<1> QED
  BY <1>7, <1>8 DEF First

-----------------------------------------------------------------------------
LEMMA InitTopology == Init => TopologyInv
BY TopologyAssumption DEF Init, Boots, Empty, Registries, TopologyInv, RegistriesOwn, Own,
                          Applying, Chosen

(* The config server's calls leave the sync and the lookup alone.          *)
LEMMA ChangeKeeps ==
  ASSUME TopologyInv, Change, registry' \in Registries, Own(registry)'
  PROVE  TopologyInv'
BY DEF TopologyInv, RegistriesOwn, Own, Applying, Chosen, Change, sync, request, Members

LEMMA RestartKeeps ==
  ASSUME TopologyInv, Restart
  PROVE  TopologyInv'
<1>1. registry' = Static
  BY DEF Restart, Boots
<1>2. RegistriesOwn'
  BY <1>1, TopologyAssumption DEF TopologyInv, RegistriesOwn, Own, Restart
<1>3. Applying'
  BY DEF TopologyInv, Applying, Restart, Members
<1>4. Chosen'
  BY DEF TopologyInv, Chosen, Restart, Forget, request
<1> QED
  BY <1>2, <1>3, <1>4 DEF TopologyInv

LEMMA SyncKeeps ==
  ASSUME TopologyInv, SyncStep \/ SyncFails
  PROVE  TopologyInv'
<1>1. Chosen'
  BY DEF TopologyInv, Chosen, SyncStep, SyncFails, ReadMap, ReadVersion, SyncEnd, SyncAdd,
         SyncRemove, request
<1>2. CASE ReadMap \/ SyncFails \/ SyncEnd
  BY <1>1, <1>2 DEF TopologyInv, RegistriesOwn, Own, Applying, ReadMap, SyncFails, SyncEnd, csrs
<1>3. CASE ReadVersion
  <2>1. RegistriesOwn'
    BY <1>3 DEF TopologyInv, RegistriesOwn, Own, ReadVersion, csrs
  <2>2. Applying'
    BY <1>3 DEF Applying, ReadVersion, Members
  <2> QED
    BY <1>1, <2>1, <2>2 DEF TopologyInv
<1>4. ASSUME NEW s \in Shards, SyncAdd(s)
      PROVE  TopologyInv'
  <2>1. \A u \in Shards : router'[u] = IF u = s THEN fetched[s] ELSE router[u]
    BY <1>4 DEF TopologyInv, RegistriesOwn, Registries, SyncAdd
  <2>2. RegistriesOwn'
    BY <1>4, <2>1 DEF TopologyInv, RegistriesOwn, Own, Registries, SyncAdd, csrs
  <2>3. Applying'
    BY <1>4, <2>1 DEF TopologyInv, Applying, SyncAdd, Members
  <2> QED
    BY <1>1, <2>2, <2>3 DEF TopologyInv
<1>5. ASSUME NEW s \in Shards, SyncRemove(s)
      PROVE  TopologyInv'
  <2>1. \A u \in Shards : router'[u] = IF u = s THEN None ELSE router[u]
    BY <1>5 DEF TopologyInv, RegistriesOwn, Registries, SyncRemove
  <2>2. RegistriesOwn'
    BY <1>5, <2>1 DEF TopologyInv, RegistriesOwn, Own, Registries, SyncRemove, csrs
  <2>3. Applying'
    BY <1>5, <2>1 DEF TopologyInv, Applying, SyncRemove, Members
  <2> QED
    BY <1>1, <2>2, <2>3 DEF TopologyInv
<1> QED
  BY <1>2, <1>3, <1>4, <1>5 DEF SyncStep

LEMMA LookUpKeeps ==
  ASSUME TopologyInv, LookUp("router") \/ LookUp("csrs") \/ Answer
  PROVE  TopologyInv'
<1>1. UNCHANGED <<csrs, sync>>
  BY DEF LookUp, Answer
<1>2. RegistriesOwn' /\ Applying'
  BY <1>1 DEF TopologyInv, RegistriesOwn, Own, Applying, csrs, sync, Members
<1>3. Chosen'
  <2>1. CASE Answer
    BY <2>1 DEF Answer, Forget, Chosen
  <2>2. ASSUME NEW p \in {"router", "csrs"}, LookUp(p)
        PROVE  Chosen'
    BY <2>2, HomeIsMember DEF LookUp, Chosen, Members
  <2> QED
    BY <2>1, <2>2
<1> QED
  BY <1>2, <1>3 DEF TopologyInv

LEMMA StepTopology == TopologyInv /\ [Next]_vars => TopologyInv'
<1> SUFFICES ASSUME TopologyInv, [Next]_vars
             PROVE  TopologyInv'
  OBVIOUS
<1>1. ASSUME NEW s \in Shards, NEW a \in AddressesOf[s], AddShard(s, a)
      PROVE  TopologyInv'
  <2>1. registry' \in Registries /\ Own(registry)'
    BY <1>1 DEF TopologyInv, RegistriesOwn, Own, Registries, AddShard
  <2> QED
    BY <1>1, <2>1, ChangeKeeps DEF AddShard
<1>2. ASSUME NEW s \in Shards, RemoveShard(s)
      PROVE  TopologyInv'
  <2>1. registry' \in Registries /\ Own(registry)'
    BY <1>2 DEF TopologyInv, RegistriesOwn, Own, Registries, RemoveShard
  <2> QED
    BY <1>2, <2>1, ChangeKeeps DEF RemoveShard
<1>3. CASE Bump
  BY <1>3, ChangeKeeps DEF Bump, TopologyInv, RegistriesOwn, Own
<1>4. CASE UNCHANGED vars
  BY <1>4 DEF vars, csrs, sync, request, TopologyInv, RegistriesOwn, Own, Applying, Chosen,
              Members
<1> QED
  BY <1>1, <1>2, <1>3, <1>4, RestartKeeps, SyncKeeps, LookUpKeeps DEF Next

LEMMA TopologyInvariant == Spec => []TopologyInv
BY InitTopology, StepTopology, PTL DEF Spec

-----------------------------------------------------------------------------
(* cmd/mulberry syncTopology: whatever the config server does meanwhile, a *)
(* shard is as before the sync or as fetched, and as fetched at its end.   *)
THEOREM SyncInstallsFetched == Spec => []SyncInstalls
<1>1. TopologyInv => SyncInstalls
  <2> SUFFICES ASSUME TopologyInv, phase = "apply"
               PROVE  /\ \A s \in Shards : router[s] \in {before[s], fetched[s]}
                      /\ toAdd = {} /\ toRemove = {} => router = fetched
    BY DEF SyncInstalls
  <2>1. \A s \in Shards : router[s] \in {before[s], fetched[s]}
    BY DEF TopologyInv, Applying
  <2>2. ASSUME toAdd = {}, toRemove = {}
        PROVE  router = fetched
    <3>1. \A s \in Shards : router[s] = fetched[s]
      BY <2>2 DEF TopologyInv, Applying
    <3> QED
      BY <3>1 DEF TopologyInv, RegistriesOwn, Registries
  <2> QED
    BY <2>1, <2>2
<1> QED
  BY <1>1, TopologyInvariant, PTL

(* cmd/mulberry syncTopology adds before it removes: a router with shards  *)
(* that is told of some always has one.                                    *)
THEOREM AlwaysSomeShard == Spec => []NeverWithoutShards
<1>1. TopologyInv => NeverWithoutShards
  <2> SUFFICES ASSUME TopologyInv, phase = "apply", Members(before) # {}, Members(fetched) # {}
               PROVE  Members(router) # {}
    BY DEF NeverWithoutShards
  <2>1. CASE toAdd = {}
    <3>1. PICK s \in Members(fetched) : TRUE
      OBVIOUS
    <3>2. s \notin toAdd \cup toRemove /\ router[s] = fetched[s]
      BY <2>1 DEF TopologyInv, Applying, Members
    <3> QED
      BY <3>2 DEF Members
  <2>2. CASE toAdd # {}
    <3>1. PICK s \in Members(before) : TRUE
      OBVIOUS
    <3>2. router[s] # None
      <4>1. CASE s \in Members(fetched)
        BY <4>1 DEF TopologyInv, Applying, Members
      <4>2. CASE s \notin Members(fetched)
        BY <2>2, <4>2 DEF TopologyInv, Applying, Members
      <4> QED
        BY <4>1, <4>2
    <3> QED
      BY <3>2 DEF Members
  <2> QED
    BY <2>1, <2>2
<1> QED
  BY <1>1, TopologyInvariant, PTL

(* A lookup never pairs a shard with the address of another, but for a key *)
(* that moves while the config server is asked.                            *)
THEOREM LookupAddressIsOwn == Spec => []AddressIsOwn
<1>1. TopologyInv => AddressIsOwn
  BY DEF TopologyInv, RegistriesOwn, Own, Chosen, AddressIsOwn, Address
<1> QED
  BY <1>1, TopologyInvariant, PTL

-----------------------------------------------------------------------------
(* The version that came with the answer is not ahead of the config        *)
(* server's, and behind it when the members have changed since; a restart  *)
(* starts the clock again.                                                 *)
Stamped ==
  phase = "apply" /\ ~torn /\ restarts = 0 =>
    /\ stamp <= version
    /\ Members(fetched) # Members(registry) => stamp < version

VersionInv == TopologyInv /\ TypeOK /\ restarts \in Nat /\ Stamped

LEMMA BootsType ==
  ASSUME NEW r, NEW v, Boots(r, v)
  PROVE  r \in Registries /\ v \in Nat
<1> DEFINE n == Cardinality(Members(Static))
<1>1. n \in Nat
  <2>1. IsFiniteSet(Members(Static))
    BY TopologyAssumption, FS_Subset DEF Members
  <2> QED
    BY <2>1, FS_CardinalityType
<1> HIDE DEF n
<1>2. v \in AfterTicks(n)
  BY DEF Boots, n
<1>3. PICK c \in [0..n -> {now + i : now \in Wall \cup {0}, i \in 0..n}] : v = c[n]
  BY <1>2 DEF AfterTicks
<1>4. v \in {now + i : now \in Wall \cup {0}, i \in 0..n}
  BY <1>1, <1>3
<1> QED
  BY <1>1, <1>4, TopologyAssumption DEF Boots

LEMMA IncrementGrows ==
  ASSUME version \in Nat, IncrementVersion
  PROVE  version' \in Nat /\ version' > version
BY TopologyAssumption DEF IncrementVersion, Tick

LEMMA VersionInit == Init => VersionInv
<1> SUFFICES ASSUME Init
             PROVE  VersionInv
  OBVIOUS
<1>1. registry \in Registries /\ version \in Nat
  BY BootsType DEF Init
<1> QED
  BY <1>1, InitTopology DEF Init, VersionInv, TypeOK, Stamped, Empty, Registries, Phases

(* A call that changes the members takes a tick.                           *)
LEMMA ChangeVersion ==
  ASSUME VersionInv, Change, TopologyInv',
         \/ IncrementVersion
         \/ UNCHANGED version /\ Members(registry)' = Members(registry)
  PROVE  VersionInv'
<1>1. version \in Nat /\ version' \in Nat /\ version' >= version
  BY IncrementGrows DEF VersionInv, TypeOK
<1>2. TypeOK' /\ restarts' \in Nat
  BY <1>1 DEF VersionInv, TypeOK, TopologyInv, RegistriesOwn, Change, sync, request
<1>3. /\ UNCHANGED <<phase, torn, stamp, fetched, restarts>>
      /\ Members(fetched)' = Members(fetched)
  BY DEF Change, sync, Members
<1>4. Stamped'
  <2>1. CASE IncrementVersion
    <3>1. version' > version /\ stamp \in Nat
      BY <2>1, IncrementGrows DEF VersionInv, TypeOK
    <3> QED
      BY <1>1, <1>3, <3>1 DEF VersionInv, Stamped
  <2>2. CASE UNCHANGED version /\ Members(registry)' = Members(registry)
    BY <1>3, <2>2 DEF VersionInv, Stamped
  <2> QED
    BY <2>1, <2>2
<1> QED
  BY <1>2, <1>4 DEF VersionInv

LEMMA SyncVersion ==
  ASSUME VersionInv, TopologyInv', SyncStep \/ SyncFails
  PROVE  VersionInv'
<1>1. UNCHANGED <<registry, version, request, restarts>>
  BY DEF SyncStep, SyncFails, ReadMap, ReadVersion, SyncEnd, SyncAdd, SyncRemove, csrs, counters
<1>2. /\ phase' \in Phases /\ stamp' \in Nat /\ torn' \in BOOLEAN
      /\ toAdd' \subseteq Shards /\ toRemove' \subseteq Shards
  BY DEF SyncStep, SyncFails, ReadMap, ReadVersion, SyncEnd, SyncAdd, SyncRemove, csrs, counters,
         VersionInv, TypeOK, Phases, Members
<1>3. TypeOK' /\ restarts' \in Nat
  BY <1>1, <1>2 DEF VersionInv, TypeOK, TopologyInv, RegistriesOwn, request
<1>4. Stamped'
  <2>1. CASE phase' # "apply"
    BY <2>1 DEF Stamped
  <2>2. CASE ReadVersion
    <3>1. stamp' = version /\ version \in Nat /\ torn' = (fetched # registry) /\ fetched' = fetched
      BY <2>2 DEF ReadVersion, VersionInv, TypeOK
    <3>2. ~torn' => Members(fetched)' = Members(registry)'
      BY <1>1, <3>1 DEF Members
    <3>3. stamp' <= version'
      BY <1>1, <3>1
    <3> QED
      BY <3>2, <3>3 DEF Stamped
  <2>3. CASE \E s \in Shards : SyncAdd(s) \/ SyncRemove(s)
    BY <1>1, <2>3 DEF SyncAdd, SyncRemove, VersionInv, Stamped, Members
  <2> QED
    BY <2>1, <2>2, <2>3 DEF SyncStep, SyncFails, ReadMap, SyncEnd
<1> QED
  BY <1>3, <1>4 DEF VersionInv

LEMMA VersionStep == VersionInv /\ [Next]_vars => VersionInv'
<1> SUFFICES ASSUME VersionInv, [Next]_vars
             PROVE  VersionInv'
  OBVIOUS
<1>1. TopologyInv'
  BY StepTopology DEF VersionInv
<1>2. ASSUME NEW s \in Shards, NEW a \in AddressesOf[s], AddShard(s, a)
      PROVE  VersionInv'
  <2>1. CASE s \in Members(registry)
    <3>1. a # None
      BY TopologyAssumption
    <3>2. Members(registry)' = Members(registry)
      BY <1>2, <2>1, <3>1 DEF AddShard, Members, VersionInv, TypeOK, Registries
    <3> QED
      BY <1>1, <1>2, <2>1, <3>2, ChangeVersion DEF AddShard
  <2>2. CASE s \notin Members(registry)
    BY <1>1, <1>2, <2>2, ChangeVersion DEF AddShard
  <2> QED
    BY <2>1, <2>2
<1>3. CASE Bump \/ \E s \in Shards : RemoveShard(s)
  BY <1>1, <1>3, ChangeVersion DEF Bump, RemoveShard
<1>4. CASE Restart
  <2>1. restarts' \in Nat /\ restarts' # 0
    BY <1>4 DEF Restart, VersionInv
  <2>2. TypeOK'
    BY <1>1, <1>4, BootsType
       DEF Restart, Forget, VersionInv, TypeOK, TopologyInv, RegistriesOwn, Phases, request
  <2> QED
    BY <1>1, <2>1, <2>2 DEF VersionInv, Stamped
<1>5. CASE LookUp("router") \/ LookUp("csrs") \/ Answer
  <2>1. UNCHANGED <<csrs, sync, counters>>
    BY <1>5 DEF LookUp, Answer
  <2>2. place' \in {"none", "router", "csrs"} /\ chosen' \in Shards \cup {None}
    BY <1>1, <1>5 DEF TopologyInv, Chosen, Answer, Forget, LookUp
  <2>3. TypeOK'
    BY <1>1, <2>1, <2>2 DEF VersionInv, TypeOK, TopologyInv, RegistriesOwn, csrs, sync
  <2> QED
    BY <1>1, <2>1, <2>3 DEF VersionInv, Stamped, Members, csrs, sync, counters
<1>6. CASE UNCHANGED vars
  BY <1>1, <1>6 DEF VersionInv, TypeOK, Stamped, Members, vars, csrs, sync, request, counters
<1> QED
  BY <1>1, <1>2, <1>3, <1>4, <1>5, <1>6, SyncVersion DEF Next

(* What holds of the versions, and the types.                              *)
THEOREM VersionInvariant == Spec => []VersionInv
BY VersionInit, VersionStep, PTL DEF Spec

(* The types of the config server's, the router's and the sync's state.    *)
THEOREM TopologyTypes == Spec => []TypeOK
<1>1. VersionInv => TypeOK
  BY DEF VersionInv
<1> QED
  BY <1>1, VersionInvariant, PTL

(* topology_manager.go: an answer whose map and version belong together is *)
(* older than the config server's version once the set of shards has       *)
(* changed, as long as the config server has not restarted.                *)
THEOREM StaleMembersShow == Spec => []MembershipChangeShows
<1>1. VersionInv => MembershipChangeShows
  BY DEF VersionInv, Stamped, MembershipChangeShows
<1> QED
  BY <1>1, VersionInvariant, PTL
=============================================================================
