------------------------------- MODULE Clock -------------------------------
(***************************************************************************)
(* What every process of the database relies on its hybrid logical clock   *)
(* for (internal/hlc/hlc.go).  A timestamp is a natural number, the uint64 *)
(* the clock hands out; now is the wall-clock reading already shifted into *)
(* timestamp position, Compose(nowFn(), 0), so the branches of the code on *)
(* the physical and the logical half collapse into one comparison.         *)
(*                                                                         *)
(* These are whole numbers without a bound.  The code has 16 bits for the  *)
(* logical half, and its Update loses the carry out of them, so that its   *)
(* result may be below its arguments.  Module HLC has the two halves and   *)
(* is shown to compute these operators everywhere but there; what is       *)
(* proved with these operators holds away from that wrap.                  *)
(***************************************************************************)
EXTENDS Naturals

(* Clock.Tick: a wall clock that has moved past c wins and resets the      *)
(* logical half; otherwise c is incremented, the carry included.           *)
Tick(c, now) == IF now > c THEN now ELSE c + 1

(* Clock.Update: the same step, taken from the later of c and incoming.    *)
Update(c, incoming, now) == Tick(IF incoming > c THEN incoming ELSE c, now)
=============================================================================
