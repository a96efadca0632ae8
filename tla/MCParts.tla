------------------------------ MODULE MCParts ------------------------------
(* Every component on a small instance of its own.                         *)
EXTENDS Parts, FiniteSets, TLC

CONSTANTS s1, s2, s3

Symmetric == Permutations({s1, s2, s3})

(* The hash functions under which at most two virtual nodes collide.       *)
FewCollisions ==
  {f \in [Shards \X (1..VirtualNodes) -> 0..(HashSpace - 1)] :
     Cardinality({f[x] : x \in DOMAIN f}) >= Cardinality(DOMAIN f) - 1}
=============================================================================
