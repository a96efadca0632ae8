----------------------------- MODULE MVCCStore -----------------------------
(***************************************************************************)
(* The multi-version store of a shard (internal/shard/component/store.go): *)
(* per key a list of versions in ascending order, searched by bisection.   *)
(* Every operation holds the store's mutex and is one step.  Module Shard  *)
(* keeps a set of versions per key and reads it with module Versions.      *)
(***************************************************************************)
EXTENDS Sequences, SequencesExt, Naturals, Versions

CONSTANTS
  Keys,
  Txs,            \* writers
  VersionSpace    \* number of versions: 2^64 in the code

VARIABLE data     \* data[k]: the list of k

VersionNumbers == 0..(VersionSpace - 1)

VersionedValue == [version : VersionNumbers, tx : Txs, deleted : BOOLEAN]

(* Mutant: the search passes the versions equal to version.                *)
FindVersionAfter(versions, version) ==
  LET places == 0..Len(versions)
      search[range \in places \X places] ==
        LET left == range[1]
            right == range[2]
            mid == (left + right) \div 2
        IN IF left >= right THEN left
           ELSE IF versions[mid + 1].version <= version
           THEN search[<<mid + 1, right>>]
           ELSE search[<<left, mid>>]
  IN search[<<0, Len(versions)>>]

(* Indices count from 0, as in the code.                                   *)
FindVersionIndex(versions, version) ==
  LET places == 0..Len(versions)
      search[range \in places \X places] ==
        LET left == range[1]
            right == range[2]
            mid == (left + right) \div 2
        IN IF left >= right THEN left
           ELSE IF versions[mid + 1].version < version
           THEN search[<<mid + 1, right>>]
           ELSE search[<<left, mid>>]
  IN search[<<0, Len(versions)>>]

Found(vv) ==
  IF vv.deleted THEN NotFound ELSE [version |-> vv.version, found |-> TRUE]

(* version + 1 is computed in uint64.                                      *)
Get(k, version) ==
  LET idx == FindVersionIndex(data[k], (version + 1) % VersionSpace)
  IN IF idx = 0 THEN NotFound ELSE Found(data[k][idx])

GetExact(k, version) ==
  LET idx == FindVersionIndex(data[k], version)
  IN IF idx >= Len(data[k]) \/ data[k][idx + 1].version # version
     THEN NotFound ELSE Found(data[k][idx + 1])

GetLatest(k) == IF data[k] = <<>> THEN NotFound ELSE Found(Last(data[k]))

-----------------------------------------------------------------------------
Init == data = [k \in Keys |-> <<>>]

(* Put and Delete; a version that exists is refused.                       *)
Insert(k, vv) ==
  LET idx == FindVersionIndex(data[k], vv.version)
      conflict == idx < Len(data[k]) /\ data[k][idx + 1].version = vv.version
  IN data' = [data EXCEPT ![k] = IF conflict THEN @ ELSE InsertAt(@, idx + 1, vv)]

Put(k, t, version) ==
  Insert(k, [version |-> version, tx |-> t, deleted |-> FALSE])

Delete(k, t, version) ==
  Insert(k, [version |-> version, tx |-> t, deleted |-> TRUE])

(* Mutant: no version before minVersion is kept.                           *)
GCEverything(minVersion) ==
  data' = [k \in Keys |->
             LET idx == FindVersionIndex(data[k], minVersion)
             IN SubSeq(data[k], idx + 1, Len(data[k]))]

GC(minVersion) ==
  data' = [k \in Keys |->
             LET idx == FindVersionIndex(data[k], minVersion)
             IN IF idx > 1 THEN SubSeq(data[k], idx, Len(data[k])) ELSE data[k]]

Next ==
  \/ \E k \in Keys, t \in Txs, version \in VersionNumbers :
       Put(k, t, version) \/ Delete(k, t, version)
  \/ \E minVersion \in VersionNumbers : GC(minVersion)

Spec == Init /\ [][Next]_data

-----------------------------------------------------------------------------
(* Properties. *)

TypeOK == data \in [Keys -> Seq(VersionedValue)]

AsSet(k) == ToSet(data[k])

(* In whatever order versions arrive and are collected, bisection on the   *)
(* lists answers what Versions says of the sets.                           *)
(* The one exception is Get at the last version of all: version + 1 is 0,  *)
(* and whatever the key has, it finds nothing.                             *)
ReadsAgree ==
  \A k \in Keys :
    /\ GetLatest(k) = FindLatest(AsSet(k))
    /\ \A version \in VersionNumbers :
         /\ Get(k, version) = IF version + 1 < VersionSpace
                              THEN FindAt(AsSet(k), version) ELSE NotFound
         /\ GetExact(k, version)
              = FindLatest({v \in AsSet(k) : v.version = version})

(* store.go:182 "Keep at least one version before minVersion for snapshot  *)
(* reads": collecting up to a version changes no read at or above it, and  *)
(* never the latest version.                                               *)
GCKeepsSnapshots ==
  [][\A minVersion \in VersionNumbers :
       GC(minVersion) =>
         \A k \in Keys :
           /\ GetLatest(k)' = GetLatest(k)
           /\ \A version \in minVersion..(VersionSpace - 2) :
                Get(k, version)' = Get(k, version)]_data
=============================================================================
