------------------------------ MODULE Router ------------------------------
(***************************************************************************)
(* The transaction routers (internal/mulberry/mulberry.go): the table of   *)
(* active transactions and, for each of them, where the handler of its     *)
(* client's request stands.  A handler makes its calls to the shards one   *)
(* after the other; wait[t] is the shard whose answer it waits for.  The   *)
(* shards' side of a call is in module Shard, and Cluster joins the two.   *)
(*                                                                         *)
(* A client sends the requests of one transaction one at a time.           *)
(***************************************************************************)
EXTENDS Deployment

CONSTANTS
  Routers,    \* router processes
  RouterOf    \* RouterOf[t]: the router that has the context of t

ASSUME RouterAssumption ==
  /\ RouterOf \in [Txs -> Routers]
  /\ None \notin Shards \cup Keys

VARIABLES
  rclock,     \* rclock[r]: the router's hybrid logical clock
  phase,      \* phase[t]: the stage of t, or of the handler working for it
  snap,       \* snap[t]: TxContext.SnapshotTime
  involved,   \* involved[t]: TxContext.InvolvedShards
  pending,    \* pending[t]: the key of a request between its two calls
  visited,    \* visited[t]: the shards the handler's loop has called
  wait,       \* wait[t]: the shard whose answer the handler waits for
  maxPrepare, \* maxPrepare[t]: the largest of its prepareResults
  commitTime, \* commitTime[t]: the commit time, once decided
  alive,      \* alive[t]: the context of the client's request is not done
  answer      \* answer[t]: what Commit or Abort has told the client

routerVars == <<rclock, phase, snap, involved, pending, visited, wait,
                maxPrepare, commitTime, alive, answer>>

(* "prepare" and "commit" are the two loops of Commit, "abort" the loop of *)
(* abortAll, "gone" a transaction whose router crashed.                    *)
Phases == {"new", "active", "prepare", "commit", "abort", "done", "gone"}

Answers == {"none", "committed", "aborted"}

RouterTypeOK ==
  /\ rclock \in [Routers -> Nat]
  /\ phase \in [Txs -> Phases]
  /\ snap \in [Txs -> Nat]
  /\ involved \in [Txs -> SUBSET Shards]
  /\ pending \in [Txs -> Keys \cup {None}]
  /\ visited \in [Txs -> SUBSET Shards]
  /\ wait \in [Txs -> Shards \cup {None}]
  /\ maxPrepare \in [Txs -> Nat]
  /\ commitTime \in [Txs -> Nat]
  /\ alive \in [Txs -> BOOLEAN]
  /\ answer \in [Txs -> Answers]

RouterInit ==
  /\ rclock = [r \in Routers |-> 0]
  /\ phase = [t \in Txs |-> "new"]
  /\ snap = [t \in Txs |-> 0]
  /\ involved = [t \in Txs |-> {}]
  /\ pending = [t \in Txs |-> None]
  /\ visited = [t \in Txs |-> {}]
  /\ wait = [t \in Txs |-> None]
  /\ maxPrepare = [t \in Txs |-> 0]
  /\ commitTime = [t \in Txs |-> 0]
  /\ alive = [t \in Txs |-> TRUE]
  /\ answer = [t \in Txs |-> "none"]

Goto(t, p) == phase' = [phase EXCEPT ![t] = p]

-----------------------------------------------------------------------------
(* Begin and the operations of an open transaction. *)

(* BeginTransaction takes two ticks of the process's clock: one is the     *)
(* topology version that names the transaction, one its snapshot time.     *)
Begin(t) ==
  LET r == RouterOf[t]
  IN /\ phase[t] = "new"
     /\ \E now1, now2 \in Wall :
          LET time == Tick(Tick(rclock[r], now1), now2)
          IN /\ rclock' = [rclock EXCEPT ![r] = time]
             /\ snap' = [snap EXCEPT ![t] = time]
     /\ Goto(t, "active")
     /\ UNCHANGED <<involved, pending, visited, wait, maxPrepare, commitTime,
                    alive, answer>>

(* Mutant: the key is recorded in the place of its shard.                  *)
InvolveKey(t, k) ==
  /\ phase[t] = "active"
  /\ pending[t] = None
  /\ Home[k] \notin involved[t]
  /\ involved' = [involved EXCEPT ![t] = @ \cup {k}]
  /\ pending' = [pending EXCEPT ![t] = k]
  /\ UNCHANGED <<rclock, phase, snap, visited, wait, maxPrepare, commitTime,
                 alive, answer>>

(* ensureShardStarted, for a request on key k whose TxStart succeeded; the *)
(* handler goes on to the call the request is for.                         *)
Involve(t, k) ==
  /\ phase[t] = "active"
  /\ pending[t] = None
  /\ Home[k] \notin involved[t]
  /\ involved' = [involved EXCEPT ![t] = @ \cup {Home[k]}]
  /\ pending' = [pending EXCEPT ![t] = k]
  /\ UNCHANGED <<rclock, phase, snap, visited, wait, maxPrepare, commitTime,
                 alive, answer>>

(* The second call of Read, Write or Delete, with whatever outcome.        *)
Operate(t, k) ==
  /\ phase[t] = "active"
  /\ Home[k] \in involved[t]
  /\ pending[t] \in {None, k}
  /\ pending' = [pending EXCEPT ![t] = None]
  /\ UNCHANGED <<rclock, phase, snap, involved, visited, wait, maxPrepare,
                 commitTime, alive, answer>>

-----------------------------------------------------------------------------
(* Commit and Abort. *)

Request(t, p) ==
  /\ phase[t] = "active"
  /\ pending[t] = None
  /\ Goto(t, p)
  /\ visited' = [visited EXCEPT ![t] = {}]
  /\ UNCHANGED <<rclock, snap, involved, pending, wait, maxPrepare,
                 commitTime, alive, answer>>

CommitRequest(t) == Request(t, "prepare")

AbortRequest(t) == Request(t, "abort")

(* The loop of phase p reaches shard s.  A call is sent only while the     *)
(* context of the request is alive.                                        *)
Next2PC(t, s, p) ==
  /\ phase[t] = p
  /\ wait[t] = None
  /\ s \in involved[t] \ visited[t]

Call(t, s, p) ==
  /\ Next2PC(t, s, p)
  /\ alive[t]
  /\ wait' = [wait EXCEPT ![t] = s]
  /\ visited' = [visited EXCEPT ![t] = @ \cup {s}]
  /\ UNCHANGED <<rclock, phase, snap, involved, pending, maxPrepare,
                 commitTime, alive, answer>>

(* A vote to commit, with its prepare time.                                *)
VotedCommit(t, time) ==
  /\ phase[t] = "prepare"
  /\ wait' = [wait EXCEPT ![t] = None]
  /\ maxPrepare' = [maxPrepare EXCEPT ![t] = IF time > @ THEN time ELSE @]
  /\ UNCHANGED <<rclock, phase, snap, involved, pending, visited, commitTime,
                 alive, answer>>

(* Any other outcome of a Prepare call: abortAll, over all the involved    *)
(* shards and with the same context.                                       *)
AbortAll(t) ==
  /\ phase[t] = "prepare"
  /\ Goto(t, "abort")
  /\ visited' = [visited EXCEPT ![t] = {}]
  /\ wait' = [wait EXCEPT ![t] = None]
  /\ UNCHANGED <<rclock, snap, involved, pending, maxPrepare, commitTime,
                 alive, answer>>

(* Mutant: the commit is decided before every vote is in.                  *)
DecideEarly(t) ==
  LET r == RouterOf[t]
  IN /\ phase[t] = "prepare"
     /\ wait[t] = None
     /\ \E now \in Wall :
          LET time == Update(rclock[r], maxPrepare[t], now)
          IN /\ rclock' = [rclock EXCEPT ![r] = time]
             /\ commitTime' = [commitTime EXCEPT ![t] = time]
     /\ Goto(t, "commit")
     /\ visited' = [visited EXCEPT ![t] = {}]
     /\ UNCHANGED <<snap, involved, pending, wait, maxPrepare, alive, answer>>

(* Mutant: the commit time ignores the prepare times.                      *)
DecideByOwnClock(t) ==
  LET r == RouterOf[t]
  IN /\ phase[t] = "prepare"
     /\ wait[t] = None
     /\ visited[t] = involved[t]
     /\ \E now \in Wall :
          LET time == Tick(rclock[r], now)
          IN /\ rclock' = [rclock EXCEPT ![r] = time]
             /\ commitTime' = [commitTime EXCEPT ![t] = time]
     /\ Goto(t, "commit")
     /\ visited' = [visited EXCEPT ![t] = {}]
     /\ UNCHANGED <<snap, involved, pending, wait, maxPrepare, alive, answer>>

(* Every involved shard voted to commit: the commit time is fixed and      *)
(* phase 2 starts.                                                         *)
Decide(t) ==
  LET r == RouterOf[t]
  IN /\ phase[t] = "prepare"
     /\ wait[t] = None
     /\ visited[t] = involved[t]
     /\ \E now \in Wall :
          LET time == Update(rclock[r], maxPrepare[t], now)
          IN /\ rclock' = [rclock EXCEPT ![r] = time]
             /\ commitTime' = [commitTime EXCEPT ![t] = time]
     /\ Goto(t, "commit")
     /\ visited' = [visited EXCEPT ![t] = {}]
     /\ UNCHANGED <<snap, involved, pending, wait, maxPrepare, alive, answer>>

(* An answer or an error in phase 2, or of an Abort call: either way the   *)
(* loop goes on.                                                           *)
Returned(t, p) ==
  /\ phase[t] = p
  /\ wait' = [wait EXCEPT ![t] = None]
  /\ UNCHANGED <<rclock, phase, snap, involved, pending, visited, maxPrepare,
                 commitTime, alive, answer>>

(* A call of the loop of phase p that fails before it is sent.             *)
Pass(t, s, p) ==
  /\ Next2PC(t, s, p)
  /\ visited' = [visited EXCEPT ![t] = @ \cup {s}]
  /\ UNCHANGED <<rclock, phase, snap, involved, pending, wait, maxPrepare,
                 commitTime, alive, answer>>

(* Mutant: the reply does not wait for the loop to end.                    *)
FinishEarly(t, p, told) ==
  /\ phase[t] = p
  /\ wait[t] = None
  /\ Goto(t, "done")
  /\ answer' = [answer EXCEPT ![t] = told]
  /\ UNCHANGED <<rclock, snap, involved, pending, visited, wait, maxPrepare,
                 commitTime, alive>>

(* The end of phase 2 or of abortAll: removeTxContext and the reply.       *)
Finish(t, p, told) ==
  /\ phase[t] = p
  /\ wait[t] = None
  /\ visited[t] = involved[t]
  /\ Goto(t, "done")
  /\ answer' = [answer EXCEPT ![t] = told]
  /\ UNCHANGED <<rclock, snap, involved, pending, visited, wait, maxPrepare,
                 commitTime, alive>>

(* The deadline of the client's request passes, or the client goes away.   *)
ContextDone(t) ==
  /\ phase[t] \in {"prepare", "commit", "abort"}
  /\ alive[t]
  /\ alive' = [alive EXCEPT ![t] = FALSE]
  /\ UNCHANGED <<rclock, phase, snap, involved, pending, visited, wait,
                 maxPrepare, commitTime, answer>>

(* The process dies and starts again: its transactions and clock are lost. *)
RouterCrash(r) ==
  LET lost(f, new) ==
        [t \in Txs |-> IF RouterOf[t] = r /\ phase[t] \notin {"new", "done"}
                       THEN new ELSE f[t]]
  IN /\ rclock' = [rclock EXCEPT ![r] = 0]
     /\ phase' = lost(phase, "gone")
     /\ wait' = lost(wait, None)
     /\ pending' = lost(pending, None)
     /\ UNCHANGED <<snap, involved, visited, maxPrepare, commitTime, alive,
                    answer>>
=============================================================================
