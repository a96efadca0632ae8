----------------------------- MODULE MCSessions -----------------------------
(* One client, three requests, two at a time, to two routers in any order. *)
EXTENDS Sessions

CONSTANTS c1, r1, r2, s1, s2

Three == [c \in Clients |-> 3]
=============================================================================
