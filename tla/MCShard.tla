------------------------------ MODULE MCShard ------------------------------
(* One shard with two transactions: a reader at SER that overwrites what it *)
(* read, and a writer of the same key and of another one.  The clock has   *)
(* room for the writer to commit between the reader's read and its write,  *)
(* and for the reader to begin after the writer has committed.             *)
EXTENDS Shard

CONSTANTS s1, t1, t2, k1, k2

OneShard == {s1}
TwoTxs == {t1, t2}
TwoKeys == {k1, k2}
HomeTwo == [k \in TwoKeys |-> s1]
SerAndRA == [t \in TwoTxs |-> IF t = t1 THEN "SER" ELSE "RA"]
ReaderAndWriter ==
  [t \in TwoTxs |-> IF t = t1 THEN {<<"read", k1>>, <<"write", k1>>}
                              ELSE {<<"write", k1>>, <<"delete", k2>>}]
NoWall == {0}
UpTo6 == 0..6
=============================================================================
