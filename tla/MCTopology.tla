----------------------------- MODULE MCTopology -----------------------------
(* A config server, three shards, and one router.                          *)
EXTENDS Topology

CONSTANTS s1, s2, s3, a1, a2, b1, b2, c1

Hosts == [s \in Shards |-> CASE s = s1 -> {a1, a2} [] s = s2 -> {b1, b2} [] s = s3 -> {c1}]

StaticS1 == [s \in Shards |-> IF s = s1 THEN a1 ELSE None]

InOrder == <<s2, s1, s3>>

FewReadings == {0, 3}
=============================================================================
