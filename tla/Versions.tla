------------------------------ MODULE Versions ------------------------------
(***************************************************************************)
(* What a reader finds among the versions of a key, given as a set: the    *)
(* read side of MVCCStore (internal/shard/component/store.go).  Module     *)
(* MVCCStore has the sorted lists and the binary search, and is shown to   *)
(* answer the same.                                                        *)
(***************************************************************************)
EXTENDS Naturals

NotFound == [version |-> 0, found |-> FALSE]

(* MVCCStore.GetLatest of a key whose versions are vs: the end of the      *)
(* list, unless it is a tombstone.                                         *)
Latest(vs) == {v \in vs : \A w \in vs : w.version <= v.version}

FindLatest(vs) ==
  LET live == {v \in Latest(vs) : ~v.deleted}
  IN IF live = {} THEN NotFound
     ELSE [version |-> (CHOOSE v \in live : TRUE).version, found |-> TRUE]

(* MVCCStore.Get: the latest version no later than time.  TxRead answers   *)
(* "not found" for a missing key and for a missing version alike.          *)
FindAt(vs, time) == FindLatest({v \in vs : v.version <= time})
=============================================================================
