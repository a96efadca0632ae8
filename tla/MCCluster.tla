----------------------------- MODULE MCCluster -----------------------------
(* Small clusters: which keys live where, what each client may ask for,    *)
(* and at which level.                                                     *)
EXTENDS Cluster

CONSTANTS r1, r2, s1, s2, t1, t2, k1, k2

TwoTxs == {t1, t2}

TwoKeys == {k1, k2}

OneKeyEach == [k \in TwoKeys |-> IF k = k1 THEN s1 ELSE s2]

AllOnS1 == [k \in TwoKeys |-> s1]

RouterEach == [t \in TwoTxs |-> IF t = t1 THEN r1 ELSE r2]

OneRouter == [t \in TwoTxs |-> r1]

AllRA == [t \in TwoTxs |-> "RA"]

AllSI == [t \in TwoTxs |-> "SI"]

AllSER == [t \in TwoTxs |-> "SER"]

AnyAccess == [t \in TwoTxs |-> Operations \X TwoKeys]

OneChangesOneLooks ==
  [t \in TwoTxs |-> IF t = t1 THEN <<<<"write", k1>>, <<"delete", k1>>, <<"write", k2>>>>
                              ELSE <<<<"read", k1>>, <<"write", k1>>>>]

BothSkewed ==
  [t \in TwoTxs |-> IF t = t1 THEN <<<<"read", k1>>, <<"write", k2>>>>
                              ELSE <<<<"read", k2>>, <<"write", k1>>>>]

BothWriteOneKey ==
  [t \in TwoTxs |-> IF t = t1 THEN <<<<"write", k1>>, <<"write", k2>>>>
                              ELSE <<<<"write", k1>>>>]

NoWall == {0}

UpTo12 == 0..12
=============================================================================
