-------------------------------- MODULE HLC --------------------------------
(***************************************************************************)
(* The hybrid logical clock of a process (internal/hlc/hlc.go), with the   *)
(* two halves of a timestamp kept apart: 48 bits of wall-clock time and a  *)
(* logical counter of 16 bits, here of LogicalSize values.  The other      *)
(* modules use the operators of Clock on whole timestamps; this one is     *)
(* where they come from, and where they are not what the code computes.    *)
(***************************************************************************)
EXTENDS Naturals

CONSTANTS
  Nodes,         \* processes: shards and routers
  LogicalSize,   \* 2^16 in the code
  MaxPhysical    \* bound: the latest wall-clock reading, and the latest
                 \* physical half with which a node takes a step

ASSUME HLCAssumption == LogicalSize \in Nat \ {0} /\ MaxPhysical \in Nat

VARIABLES
  ts,     \* ts[n]: the clock of node n
  sent    \* the timestamps handed out, any of which may be under way

vars == <<ts, sent>>

MaxLogical == LogicalSize - 1

Timestamp == [physical : Nat, logical : 0..MaxLogical]

Compose(physical, logical) == [physical |-> physical, logical |-> logical]

(* The uint64 that the halves make.                                        *)
Value(t) == t.physical * LogicalSize + t.logical

MaxOf(a, b) == IF a >= b THEN a ELSE b

(* Mutant: the clock follows the wall clock back.                          *)
TickBack(t, physNow) ==
  IF physNow # t.physical THEN Compose(physNow, 0)
  ELSE IF t.logical < MaxLogical THEN Compose(t.physical, t.logical + 1)
  ELSE Compose(t.physical + 1, 0)

Tick(t, physNow) ==
  IF physNow > t.physical THEN Compose(physNow, 0)
  ELSE IF t.logical < MaxLogical THEN Compose(t.physical, t.logical + 1)
  ELSE Compose(t.physical + 1, 0)

(* Mutant: a tie goes to the local timestamp.                              *)
NextLogicalLocal(t, incoming, maxPhys) ==
  IF t.physical = maxPhys THEN (t.logical + 1) % LogicalSize
  ELSE IF incoming.physical = maxPhys THEN (incoming.logical + 1) % LogicalSize
  ELSE 0

(* The logical half after those of the timestamps that have the largest    *)
(* physical half, in uint16 arithmetic.                                    *)
NextLogical(t, incoming, maxPhys) ==
  IF t.physical = maxPhys /\ incoming.physical = maxPhys
  THEN (MaxOf(t.logical, incoming.logical) + 1) % LogicalSize
  ELSE IF t.physical = maxPhys THEN (t.logical + 1) % LogicalSize
  ELSE IF incoming.physical = maxPhys THEN (incoming.logical + 1) % LogicalSize
  ELSE 0

Update(t, incoming, physNow) ==
  LET maxPhys == MaxOf(physNow, MaxOf(t.physical, incoming.physical))
      logical == NextLogical(t, incoming, maxPhys)
  IN IF logical > MaxLogical THEN Compose(maxPhys + 1, 0)
                             ELSE Compose(maxPhys, logical)

-----------------------------------------------------------------------------
Init ==
  /\ ts = [n \in Nodes |-> Compose(0, 0)]
  /\ sent = {}

Set(n, t) ==
  /\ ts[n].physical <= MaxPhysical
  /\ ts' = [ts EXCEPT ![n] = t]
  /\ sent' = sent \cup {t}

(* A wall clock may be set back.                                           *)
TickStep(n) == \E now \in 0..MaxPhysical : Set(n, Tick(ts[n], now))

UpdateStep(n) ==
  \E now \in 0..MaxPhysical, t \in sent : Set(n, Update(ts[n], t, now))

Next == \E n \in Nodes : TickStep(n) \/ UpdateStep(n)

Spec == Init /\ [][Next]_vars

-----------------------------------------------------------------------------
(* Properties. *)

TypeOK == ts \in [Nodes -> Timestamp] /\ sent \subseteq Timestamp

C == INSTANCE Clock

(* Update finds the logical half at its end, with no later wall clock to   *)
(* reset it.                                                               *)
Wraps(t, incoming, now) ==
  LET later == IF Value(incoming) > Value(t) THEN incoming ELSE t
  IN now <= later.physical /\ later.logical = MaxLogical

(* hlc.go computes the clock the other modules assume, on every timestamp  *)
(* a node can have and receive, except when Update would have to carry:    *)
(* then it starts the millisecond again.                                   *)
ComputesClock ==
  \A n \in Nodes, now \in 0..MaxPhysical :
    LET wall == Value(Compose(now, 0))
    IN /\ Value(Tick(ts[n], now)) = C!Tick(Value(ts[n]), wall)
       /\ \A t \in sent :
            Value(Update(ts[n], t, now)) =
              IF Wraps(ts[n], t, now)
              THEN Value(Compose(MaxOf(t.physical, ts[n].physical), 0))
              ELSE C!Update(Value(ts[n]), Value(t), wall)

(* Even when the logical half wraps, the physical half never goes back,    *)
(* whatever the wall clock does.                                           *)
PhysicalForward == [][\A n \in Nodes : ts'[n].physical >= ts[n].physical]_vars

(* hlc.go:62 "Logical overflow: advance physical time by 1ms", which       *)
(* line 103 is there to do for Update: a clock only moves forward.         *)
Monotonic ==
  [][\A n \in Nodes : ts'[n] # ts[n] => Value(ts'[n]) > Value(ts[n])]_vars
=============================================================================
