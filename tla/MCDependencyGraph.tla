------------------------- MODULE MCDependencyGraph -------------------------
(* Three templates and two keys; the names are interchangeable.            *)
EXTENDS DependencyGraph, TLC

CONSTANTS a, b, c, k1, k2

Symmetric == Permutations({a, b, c}) \cup Permutations({k1, k2})
=============================================================================
