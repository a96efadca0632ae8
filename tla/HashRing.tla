------------------------------ MODULE HashRing ------------------------------
(***************************************************************************)
(* The consistent-hash ring that routes keys to shards                     *)
(* (internal/csrs/hash_ring.go).  The hash of a virtual node is part of    *)
(* the initial state and never changes: SHA-256 is any function of         *)
(* HashFunctions, so what holds here holds for every hash in that set.     *)
(***************************************************************************)
EXTENDS Naturals, Sequences, SequencesExt, FiniteSets

CONSTANTS
  Shards,
  VirtualNodes,    \* virtual nodes per shard: 150 in the code
  HashSpace,       \* 2^32 in the code
  HashFunctions,   \* the hash functions considered
  Nobody,          \* the empty string of the code
  MaxRing          \* bound: entries of the ring

Hashes == 0..(HashSpace - 1)

AnyHash == [Shards \X (1..VirtualNodes) -> Hashes]

Colliding(f) == {h \in Hashes : \E x, y \in DOMAIN f : x # y /\ f[x] = h /\ f[y] = h}

VARIABLES
  hashOf,     \* the hash of each virtual node
  ring,       \* the sorted list of hashes
  nodeMap,    \* nodeMap[h]: the shard at h, Nobody if there is no entry
  shardSet    \* the shards in the ring

vars == <<hashOf, ring, nodeMap, shardSet>>

TypeOK ==
  /\ hashOf \in AnyHash
  /\ ring \in Seq(Hashes)
  /\ nodeMap \in [Hashes -> Shards \cup {Nobody}]
  /\ shardSet \subseteq Shards

Init ==
  /\ hashOf \in HashFunctions
  /\ ring = <<>>
  /\ nodeMap = [h \in Hashes |-> Nobody]
  /\ shardSet = {}

VirtualHashes(s) == [i \in 1..VirtualNodes |-> hashOf[<<s, i>>]]

(* sort.Slice: an element comes in the place that is the number of those   *)
(* that do not follow it.                                                  *)
Sorted(s) ==
  LET rank(i) == Cardinality({j \in DOMAIN s :
                                s[j] < s[i] \/ (s[j] = s[i] /\ j <= i)})
  IN [n \in DOMAIN s |-> s[CHOOSE i \in DOMAIN s : rank(i) = n]]

(* What is left of s when a loop keeps the elements at these positions.    *)
Keep(s, kept) ==
  LET rank(i) == Cardinality({j \in kept : j <= i})
  IN [n \in 1..Cardinality(kept) |-> s[CHOOSE i \in kept : rank(i) = n]]

AddShard(s) ==
  /\ s \notin shardSet
  /\ Len(ring) + VirtualNodes <= MaxRing
  /\ ring' = Sorted(ring \o VirtualHashes(s))
  /\ nodeMap' = [h \in Hashes |->
                   IF h \in ToSet(VirtualHashes(s)) THEN s ELSE nodeMap[h]]
  /\ shardSet' = shardSet \cup {s}
  /\ UNCHANGED hashOf

(* Mutant: the entry after a dropped one goes with it.                     *)
RemoveShardAndNext(s) ==
  LET kept == {i \in DOMAIN ring :
                 nodeMap[ring[i]] # s /\ (i = 1 \/ nodeMap[ring[i - 1]] # s)}
  IN /\ s \in shardSet
     /\ ring' = Keep(ring, kept)
     /\ nodeMap' = [h \in Hashes |-> IF nodeMap[h] = s THEN Nobody ELSE nodeMap[h]]
     /\ shardSet' = shardSet \ {s}
     /\ UNCHANGED hashOf

(* The loop drops an entry of the ring whose hash maps to s and deletes    *)
(* the mapping at once, so a second entry with the same hash is kept.      *)
RemoveShard(s) ==
  LET first(i) == \A j \in 1..(i - 1) : ring[j] # ring[i]
      kept == {i \in DOMAIN ring : ~(nodeMap[ring[i]] = s /\ first(i))}
  IN /\ s \in shardSet
     /\ ring' = Keep(ring, kept)
     /\ nodeMap' = [h \in Hashes |-> IF nodeMap[h] = s THEN Nobody ELSE nodeMap[h]]
     /\ shardSet' = shardSet \ {s}
     /\ UNCHANGED hashOf

Next == \E s \in Shards : AddShard(s) \/ RemoveShard(s)

Spec == Init /\ [][Next]_vars

(* Mutant: the first position after hash.                                  *)
SearchAfter(hash) ==
  LET at == {i \in 1..Len(ring) : ring[i] > hash}
  IN IF at = {} THEN 1 ELSE CHOOSE i \in at : \A j \in at : i <= j

(* The first position whose hash is at least hash, else the first of all.  *)
Search(hash) ==
  LET at == {i \in 1..Len(ring) : ring[i] >= hash}
  IN IF at = {} THEN 1 ELSE CHOOSE i \in at : \A j \in at : i <= j

(* The shard for a key whose hash is hash.                                 *)
GetShardForKey(hash) ==
  IF ring = <<>> THEN Nobody ELSE nodeMap[ring[Search(hash)]]

(* Mutant: a shard is met once for each of its virtual nodes.              *)
MetRepeatedly(hash) ==
  LET start == Search(hash)
  IN [i \in DOMAIN ring |-> nodeMap[ring[((start + i - 2) % Len(ring)) + 1]]]

(* The shards met going round the ring from the key: each in the place it  *)
(* is first met.  GetNShards goes on until it has met n of them.           *)
Met(hash) ==
  LET start == Search(hash)
      round == [i \in DOMAIN ring |-> nodeMap[ring[((start + i - 2) % Len(ring)) + 1]]]
  IN Keep(round, {i \in DOMAIN ring : \A j \in 1..(i - 1) : round[j] # round[i]})

GetNShards(hash, n) ==
  IF shardSet = {} THEN <<>>
  ELSE SubSeq(Met(hash), 1, IF n > Cardinality(shardSet)
                            THEN Cardinality(shardSet) ELSE n)

-----------------------------------------------------------------------------
(* Properties. *)

(* How far h is from hash, going up and round.                             *)
Distance(hash, h) == IF h >= hash THEN h - hash ELSE (h + HashSpace) - hash

(* The shard of members with the virtual node next to hash, going up and   *)
(* round: what routing means, with no history and no ring.                 *)
Successor(members, hash) ==
  LET nodes == members \X (1..VirtualNodes)
  IN IF members = {} THEN Nobody
     ELSE (CHOOSE x \in nodes :
             \A y \in nodes : Distance(hash, hashOf[x]) <= Distance(hash, hashOf[y]))[1]

(* No hash of shared lies between hash and the next virtual node.          *)
Untouched(hash, shared) ==
  \/ shared = {}
  \/ \E x \in shardSet \X (1..VirtualNodes) :
       \A h \in shared : Distance(hash, hashOf[x]) < Distance(hash, h)

(* Routing depends on the members alone: two routers that learned of the   *)
(* same shards in different orders, removals included, agree on every key, *)
(* but for the keys next to a hash that two virtual nodes share: there one *)
(* shadows the other, and the entry that stays behind when the shard in    *)
(* front is removed answers with no shard at all.                          *)
RoutesByMembership ==
  LET shared == Colliding(hashOf)
  IN \A hash \in Hashes :
       Untouched(hash, shared) => GetShardForKey(hash) = Successor(shardSet, hash)

(* hash_ring.go "GetNShards returns N unique shards": without a collision   *)
(* the loop ends, the first shard is the one that GetShardForKey names, and *)
(* the others are those that would take over if it, then the next, were    *)
(* removed.                                                                *)
ReplicasInOrder ==
  Colliding(hashOf) = {} => \A hash \in Hashes, n \in 0..Cardinality(Shards) :
    LET found == GetNShards(hash, n)
    IN /\ Len(found) = (IF n > Cardinality(shardSet) THEN Cardinality(shardSet) ELSE n)
       /\ \A i \in 1..Len(found) :
            found[i] = Successor(shardSet \ {found[j] : j \in 1..(i - 1)}, hash)

(* Consistent hashing, collisions or not: adding a shard moves keys only   *)
(* to it, removing one moves only the keys it had.                         *)
MovesOnlyItsKeys ==
  [][\A hash \in Hashes :
       GetShardForKey(hash)' # GetShardForKey(hash) =>
         \/ GetShardForKey(hash)' \in shardSet' \ shardSet
         \/ GetShardForKey(hash) \in shardSet \ shardSet']_vars
=============================================================================
