------------------------------ MODULE Cluster ------------------------------
(***************************************************************************)
(* Routers and shards together: one transaction is one client that begins, *)
(* reads, writes and deletes keys, and asks for its commit or its abort.   *)
(* An action joins a router's step with the shard's side of the call.      *)
(*                                                                         *)
(* Faults, within a bound: a call fails before or after the shard handled  *)
(* it while the request's context is alive; the context of a request ends, *)
(* so that every later call of its handler fails, although what a shard    *)
(* has started runs on; a process crashes and restarts empty.              *)
(***************************************************************************)
EXTENDS Shard, Router, Sequences

CONSTANTS
  Requests,    \* Requests[t]: what t's client may ask for, in this order
  FaultKinds,  \* what may go wrong
  MaxFaults    \* bound: how often

ASSUME ClusterAssumption ==
  /\ \A t \in Txs : Requests[t] \in Seq(Access[t])
  /\ FaultKinds \subseteq {"call", "context", "crash"}
  /\ MaxFaults \in Nat

VARIABLES
  ops,       \* ops[t]: the last of its requests that t's client has made
  faults,    \* faults so far
  crashed,   \* history: there was a crash
  prior      \* history: the transactions known committed when t began

counters == <<ops, faults, crashed>>

vars == <<shardVars, routerVars, counters, prior>>

Init ==
  /\ ShardInit
  /\ RouterInit
  /\ ops = [t \in Txs |-> 0]
  /\ faults = 0
  /\ crashed = FALSE
  /\ prior = [t \in Txs |-> {}]

Fails(kind) ==
  /\ kind \in FaultKinds
  /\ faults < MaxFaults
  /\ faults' = faults + 1

(* A call made for t fails.  It costs nothing once the context has ended.  *)
CallFails(t) == IF alive[t] THEN Fails("call") ELSE UNCHANGED faults

-----------------------------------------------------------------------------
(* The client's requests before Commit or Abort. *)

TxBegin(t) ==
  /\ Begin(t)
  /\ prior' = [prior EXCEPT ![t] = {u \in Txs : /\ answer[u] = "committed"
                                                /\ RouterOf[u] = RouterOf[t]}]
  /\ UNCHANGED <<shardVars, counters>>

(* Where in the client's list it may go on.  It may leave requests out, and *)
(* end the transaction at any time.                                        *)
Upcoming(t, op, k) ==
  {i \in DOMAIN Requests[t] : i > ops[t] /\ Requests[t][i] = <<op, k>>}

MayAsk(t, k) == \E op \in Operations : Upcoming(t, op, k) # {}

Enlist(t, k) ==
  /\ MayAsk(t, k)
  /\ Involve(t, k)
  /\ TxStart(Home[k], t)
  /\ UNCHANGED <<counters, prior>>

(* TxStart is done, its answer is lost: the router does not know.          *)
EnlistUnknown(t, k) ==
  /\ MayAsk(t, k)
  /\ phase[t] = "active"
  /\ pending[t] = None
  /\ Home[k] \notin involved[t]
  /\ Fails("call")
  /\ TxStart(Home[k], t)
  /\ UNCHANGED <<routerVars, ops, crashed, prior>>

Ask(t, op, k) ==
  /\ Operate(t, k)
  /\ \E i \in Upcoming(t, op, k) : ops' = [ops EXCEPT ![t] = i]
  /\ UNCHANGED <<faults, crashed, prior>>

Read(t, k) == Ask(t, "read", k) /\ TxRead(Home[k], t, k, snap[t])

Write(t, k) == Ask(t, "write", k) /\ TxWrite(Home[k], t, k)

Delete(t, k) == Ask(t, "delete", k) /\ TxDelete(Home[k], t, k)

(* The second call of a request is lost, or finds no buffer.               *)
AskFails(t, k) ==
  /\ pending[t] = k
  /\ Operate(t, k)
  /\ IF t \in buffers[Home[k]] THEN CallFails(t) ELSE UNCHANGED faults
  /\ UNCHANGED <<shardVars, ops, crashed, prior>>

ClientStep(t) ==
  \/ TxBegin(t)
  \/ \E k \in Keys : \/ Enlist(t, k)
                     \/ Read(t, k)
                     \/ Write(t, k)
                     \/ Delete(t, k)
  \/ (CommitRequest(t) \/ AbortRequest(t)) /\ UNCHANGED <<shardVars, counters, prior>>

-----------------------------------------------------------------------------
(* The handler of Commit, or of Abort. *)

SendPrepare(t, s) ==
  Call(t, s, "prepare") /\ PrepareBegin(s, t) /\ UNCHANGED <<counters, prior>>

Answered(t, s) == wait[t] = s /\ pc[s][t] = "idle" /\ reply[s][t] # "none"

ReceiveVote(t, s) ==
  /\ phase[t] = "prepare"
  /\ Answered(t, s)
  /\ IF reply[s][t] = "commit" THEN VotedCommit(t, ptime[s][t]) ELSE AbortAll(t)
  /\ UNCHANGED <<shardVars, counters, prior>>

DecideCommit(t) == Decide(t) /\ UNCHANGED <<shardVars, counters, prior>>

(* Mutant: the answer of the shard is not waited for.                      *)
SendCommitAndGoOn(t, s) ==
  /\ alive[t]
  /\ Pass(t, s, "commit")
  /\ CommitBegin(s, t, commitTime[t])
  /\ UNCHANGED <<counters, prior>>

SendCommit(t, s) ==
  /\ Call(t, s, "commit")
  /\ CommitBegin(s, t, commitTime[t])
  /\ UNCHANGED <<counters, prior>>

(* Mutant: phase 2 goes on only when a shard has committed.                *)
ReceiveOnlySuccess(t, s) ==
  /\ Answered(t, s)
  /\ reply[s][t] = "ok"
  /\ Returned(t, "commit")
  /\ UNCHANGED <<shardVars, counters, prior>>

ReceiveCommitted(t, s) ==
  /\ Answered(t, s)
  /\ Returned(t, "commit")
  /\ UNCHANGED <<shardVars, counters, prior>>

SendAbort(t, s) ==
  Call(t, s, "abort") /\ Abort(s, t) /\ UNCHANGED <<counters, prior>>

ReceiveAborted(t, s) ==
  /\ wait[t] = s
  /\ dropping[s][t] = "idle"
  /\ Returned(t, "abort")
  /\ UNCHANGED <<shardVars, counters, prior>>

Reply(t) ==
  /\ Finish(t, "commit", "committed") \/ Finish(t, "abort", "aborted")
  /\ UNCHANGED <<shardVars, counters, prior>>

(* The calls that fail, before they are sent or while they are waited for. *)
PrepareFails(t) ==
  /\ wait[t] # None \/ \E s \in Shards : Next2PC(t, s, "prepare")
  /\ AbortAll(t)
  /\ CallFails(t)
  /\ UNCHANGED <<shardVars, ops, crashed, prior>>

(* Mutant: an error in phase 2 aborts the transaction.                     *)
CommitFailsAndAborts(t) ==
  /\ phase[t] = "commit"
  /\ wait[t] # None \/ \E s \in Shards : Next2PC(t, s, "commit")
  /\ Goto(t, "abort")
  /\ visited' = [visited EXCEPT ![t] = {}]
  /\ wait' = [wait EXCEPT ![t] = None]
  /\ UNCHANGED <<rclock, snap, involved, pending, maxPrepare, commitTime,
                 alive, answer>>
  /\ CallFails(t)
  /\ UNCHANGED <<shardVars, ops, crashed, prior>>

CommitFails(t) ==
  /\ \/ wait[t] # None /\ Returned(t, "commit")
     \/ \E s \in Shards : Pass(t, s, "commit")
  /\ CallFails(t)
  /\ UNCHANGED <<shardVars, ops, crashed, prior>>

AbortFails(t) ==
  /\ \/ wait[t] # None /\ Returned(t, "abort")
     \/ \E s \in Shards : Pass(t, s, "abort")
  /\ CallFails(t)
  /\ UNCHANGED <<shardVars, ops, crashed, prior>>

RouterStep(t) ==
  \/ \E s \in Shards : \/ SendPrepare(t, s)
                       \/ ReceiveVote(t, s)
                       \/ SendCommit(t, s)
                       \/ ReceiveCommitted(t, s)
                       \/ SendAbort(t, s)
                       \/ ReceiveAborted(t, s)
  \/ DecideCommit(t)
  \/ Reply(t)
  \/ ~alive[t] /\ (PrepareFails(t) \/ CommitFails(t) \/ AbortFails(t))

ShardStep(s, t) == Handler(s, t) /\ UNCHANGED <<routerVars, counters, prior>>

-----------------------------------------------------------------------------
(* Faults. *)

EndContext(t) ==
  /\ Fails("context")
  /\ ContextDone(t)
  /\ UNCHANGED <<shardVars, ops, crashed, prior>>

Fault(t) ==
  \/ EndContext(t)
  \/ \E k \in Keys : EnlistUnknown(t, k) \/ AskFails(t, k)
  \/ alive[t] /\ (PrepareFails(t) \/ CommitFails(t) \/ AbortFails(t))

CrashStep ==
  /\ Fails("crash")
  /\ crashed' = TRUE
  /\ \/ \E s \in Shards : Crash(s) /\ UNCHANGED routerVars
     \/ \E r \in Routers : RouterCrash(r) /\ UNCHANGED shardVars
  /\ UNCHANGED <<ops, prior>>

Next ==
  \/ \E t \in Txs : ClientStep(t) \/ RouterStep(t) \/ Fault(t)
  \/ \E s \in Shards, t \in Txs : ShardStep(s, t)
  \/ CrashStep

Spec == Init /\ [][Next]_vars

(* The Go scheduler runs every goroutine: a handler that can move does.    *)
(* A client need not finish its transaction, and no fault need happen.     *)
FairSpec ==
  /\ Spec
  /\ \A t \in Txs : WF_vars(RouterStep(t))
  /\ \A s \in Shards, t \in Txs : WF_vars(ShardStep(s, t))

-----------------------------------------------------------------------------
(* Properties that hold whatever fails. *)

(* The routers keep the protocol that module Shard assumes of its callers, *)
(* so the theorems about ShardSpec are about the shards of a cluster.      *)
ImplementsShard == ShardSpec

Applied(t) == {k \in Keys : \E v \in store[k] : v.tx = t}

(* The stages of two-phase commit as module AtomicCommit has them.  A      *)
(* router that crashes before it decided will never decide to commit.      *)
Decision(t) ==
  IF commitTime[t] # 0 THEN "commit"
  ELSE IF phase[t] \in {"new", "active", "prepare"} THEN "open" ELSE "abort"

Standing(s, t) ==
  IF status[s][t] = "committed" \/ \E k \in Applied(t) : Home[k] = s THEN "installed"
  ELSE IF status[s][t] = "prepared" THEN "promised"
  ELSE IF status[s][t] = "aborted" THEN "dropped" ELSE "working"

Commitment == INSTANCE AtomicCommit WITH
  decision <- [t \in Txs |-> Decision(t)],
  enlisted <- involved,
  standing <- [s \in Shards |-> [t \in Txs |-> Standing(s, t)]],
  told <- answer

(* Handlers, lost calls, ended contexts and crashes together do nothing    *)
(* that AtomicCommit does not allow.                                       *)
ImplementsAtomicCommit == Commitment!Spec

(* Atomic commitment (mulberry.go Commit): no shard applies a write of a   *)
(* transaction that a shard it involves voted against, has aborted or has  *)
(* not voted on.                                                           *)
AtomicOutcome ==
  ~crashed =>
    \A t \in Txs :
      Applied(t) # {} =>
        \A s \in involved[t] : status[s][t] \in {"prepared", "committed"}

(* What Commit or Abort told the client was aborted was never applied, and *)
(* no handler that is still running will apply it.                         *)
AbortedLeavesNothing ==
  \A t \in Txs :
    answer[t] = "aborted" =>
      Applied(t) = {} /\ \A s \in Shards : ~Committing(s, t)

(* A request that reached a router ends, and its handler is never blocked  *)
(* by another transaction's locks.                                         *)
RequestsEnd ==
  \A t \in Txs :
    phase[t] \in {"prepare", "commit", "abort"} ~> phase[t] \in {"done", "gone"}

(* The versions of a key are created in the order of their times (shard.go *)
(* Commit, under the write lock), although commit times are chosen by the  *)
(* routers and phase 2 reaches each shard when it will: a reader that once *)
(* saw a version never finds that an older one has been added since.       *)
VersionsInOrder ==
  [][\A k \in Keys : \A v \in store'[k] \ store[k] : \A w \in store[k] :
       w.version < v.version]_vars

-----------------------------------------------------------------------------
(* The inductive invariant behind these properties, for module             *)
(* ClusterProofs.                                                          *)

(* The handler of t: what it waits for, and what it has told its client.   *)
HandlerInv(t) ==
  /\ visited[t] \subseteq involved[t]
  /\ wait[t] # None =>
       wait[t] \in visited[t] /\ phase[t] \in {"prepare", "commit", "abort"}
  /\ phase[t] \in {"new", "active"} => visited[t] = {}
  /\ phase[t] \in {"new", "active", "prepare", "abort"} => commitTime[t] = 0
  /\ phase[t] = "commit" => commitTime[t] # 0
  /\ answer[t] = IF phase[t] # "done" THEN "none"
                 ELSE IF commitTime[t] = 0 THEN "aborted" ELSE "committed"

(* s keeps the promise it gave for t, or forgot it in a crash.             *)
KeepsPromise(s, t) ==
  \/ status[s][t] = "prepared"
  \/ crashed /\ status[s][t] = "none" /\ t \notin buffers[s]

(* The handler of t has not called s for the end of t.                     *)
Uncalled(s, t) ==
  \/ s \notin involved[t]
  \/ phase[t] \in {"new", "active"}
  \/ phase[t] = "prepare" /\ s \notin visited[t]

(* Before the decision: every vote but the one that is waited for is in,   *)
(* and its prepare time counted.                                           *)
VotesCounted(s, t) ==
  phase[t] = "prepare" /\ s \in visited[t] =>
    IF s # wait[t]
      THEN /\ pc[s][t] = "idle"
           /\ KeepsPromise(s, t)
           /\ ptime[s][t] <= maxPrepare[t]
      ELSE pc[s][t] = "idle" /\ reply[s][t] = "commit" => status[s][t] = "prepared"

(* After it: s can only commit t, and at the time that was decided.        *)
CommitsAsDecided(s, t) ==
  commitTime[t] # 0 /\ s \in involved[t] =>
    /\ pc[s][t] = "idle" \/ Committing(s, t)
    /\ ptime[s][t] < commitTime[t]
    /\ Committing(s, t) => ctime[s][t] = commitTime[t]
    /\ KeepsPromise(s, t) \/ status[s][t] = "committed"
    /\ phase[t] = "commit" /\ s \notin visited[t] =>
         pc[s][t] = "idle" /\ KeepsPromise(s, t)

(* Without a decision to commit, s does not commit t.                      *)
NothingUndecided(s, t) ==
  commitTime[t] = 0 => ~Committing(s, t) /\ status[s][t] # "committed"

(* s drops t only after the router gave t up.                              *)
GivenUp(s, t) ==
  dropping[s][t] # "idle" =>
    commitTime[t] = 0 /\ phase[t] \in {"abort", "done", "gone"}

(* Nor does an Abort overtake a Prepare before that.                       *)
PrepareAlone(s, t) ==
  pc[s][t] \in {"lock", "checkWrites", "checkReads", "vote"} =>
    \/ status[s][t] = "running"
    \/ status[s][t] = "aborted" /\ phase[t] \in {"abort", "done", "gone"}

CallInv(s, t) ==
  /\ Uncalled(s, t) => Open(s, t)
  /\ VotesCounted(s, t)
  /\ CommitsAsDecided(s, t)
  /\ NothingUndecided(s, t)
  /\ GivenUp(s, t)
  /\ PrepareAlone(s, t)

(* A version was written by a transaction that was decided to commit, at   *)
(* its commit time and at a shard it involves.                             *)
WrittenAsDecided ==
  \A k \in Keys : \A v \in store[k] :
    /\ commitTime[v.tx] # 0
    /\ v.version = commitTime[v.tx]
    /\ Home[k] \in involved[v.tx]

ClusterInv ==
  /\ ShardInv
  /\ RouterTypeOK
  /\ crashed \in BOOLEAN
  /\ \A t \in Txs : HandlerInv(t)
  /\ \A s \in Shards, t \in Txs : CallInv(s, t)
  /\ WrittenAsDecided

-----------------------------------------------------------------------------
(* Properties of a cluster in which no call fails and nothing crashes. *)

(* When Commit has answered, every write is in the store at commitTime.    *)
CommittedEverywhere ==
  \A t \in Txs :
    answer[t] = "committed" =>
      \A k \in Keys :
        writes[t][k] # None /\ Home[k] \in involved[t] =>
          \E v \in store[k] : v.tx = t /\ v.version = commitTime[t]

(* A transaction that is over has left no lock, no buffer, no handler and  *)
(* no open row, although a shard gives these up one after the other.       *)
NothingLeft ==
  \A t \in Txs :
    phase[t] = "done" =>
      /\ \A k \in Keys : locks[k] # t
      /\ \A s \in Shards : /\ t \notin buffers[s]
                          /\ pc[s][t] = "idle" /\ dropping[s][t] = "idle"
                          /\ status[s][t] \in {"none", "committed", "aborted"}

(* A transaction reads the writes of those that had committed through its  *)
(* router before it began, or later ones.                                  *)
ReadsFollowCommits ==
  \A t \in Txs, k \in Keys :
    reads[t][k] # None =>
      \A u \in prior[t] :
        k \in Applied(u) =>
          \E v \in store[k] :
            /\ commitTime[u] <= v.version
            /\ v.version <= snap[t]
            /\ IF reads[t][k].found THEN reads[t][k].version = v.version
                                    ELSE v.deleted

(* The inductive invariant behind these three, for module ClusterProofs:   *)
(* it holds until the first fault.                                         *)

(* Who has a lock has a buffer, and no handler that is about to remove it.  *)
LockersIntact == \A k \in Keys, t \in Txs : locks[k] = t => Intact(Home[k], t)

(* A handler at a shard has its router waiting for it, and t's buffer is   *)
(* there until the Commit or the Abort of t has come to remove it.         *)
Attended(s, t) ==
  /\ pc[s][t] # "idle" => wait[t] = s /\ phase[t] \in {"prepare", "commit"}
  /\ dropping[s][t] # "idle" => wait[t] = s
  /\ \/ pc[s][t] \notin {"idle", "mark", "abortMark", "abortTick"}
     \/ pc[s][t] = "idle" /\ dropping[s][t] = "idle" /\ status[s][t] = "prepared"
     => t \in buffers[s]
  /\ t \in buffers[s] => s \in involved[t]
  /\ /\ phase[t] \in {"commit", "abort", "done"}
     /\ s \in visited[t]
     /\ pc[s][t] = "idle"
     => /\ dropping[s][t] \in {"idle", "abortMark", "abortTick"} =>
             t \notin buffers[s]
        /\ dropping[s][t] \in {"idle", "abortTick"} =>
             status[s][t] \in {"none", "committed", "aborted"}

(* Where t's Commit has been, its writes are in the store, or its loop has *)
(* still to come to them.                                                  *)
Installs(s, t) ==
  commitTime[t] # 0 /\ s \in visited[t] =>
    \A k \in WriteKeys(s, t) :
      \/ pc[s][t] = "put" /\ k \in todo[s][t]
      \/ \E v \in store[k] : v.tx = t /\ v.version = commitTime[t]

(* The router's clock is ahead of what it decided, so that a transaction   *)
(* that begins at it later has a later snapshot.                           *)
InOrder(t) ==
  /\ phase[t] = "new" => \A k \in Keys : reads[t][k] = None
  /\ phase[t] = "done" => visited[t] = involved[t]
  /\ commitTime[t] <= rclock[RouterOf[t]]
  /\ \A u \in prior[t] : answer[u] = "committed" /\ commitTime[u] <= snap[t]

FaultFree ==
  /\ \A t \in Txs : alive[t] /\ InOrder(t)
  /\ \A s \in Shards, t \in Txs : Attended(s, t) /\ Installs(s, t)
  /\ LockersIntact
  /\ ReadsFollowCommits
  /\ ~crashed

CleanInv ==
  /\ ClusterInv
  /\ faults \in Nat
  /\ prior \in [Txs -> SUBSET Txs]
  /\ faults = 0 => FaultFree

(* Every write lock is given back: cleanup in shard.go is always reached   *)
(* by Commit, by Abort and by a vote to abort.                             *)
LocksFreed ==
  \A k \in Keys, t \in Txs : locks[k] = t ~> locks[k] # t

-----------------------------------------------------------------------------
(* A property the interface promises and the code does not keep. *)

Committed(t) == answer[t] = "committed"

(* t read k and did not see the write of k that u committed.               *)
ReadsBefore(t, u, k) ==
  reads[t][k] # None /\ k \in Applied(u) /\ reads[t][k].version < commitTime[u]

(* shard.proto, ISOLATION_SER "Serializable": no two transactions have     *)
(* each read what was there before the other.                              *)
Serializable ==
  \A t, u \in Txs :
    /\ t # u
    /\ Committed(t) /\ Committed(u)
    /\ Level[t] = "SER" /\ Level[u] = "SER"
    => ~(/\ \E k \in Keys : ReadsBefore(t, u, k)
         /\ \E k \in Keys : ReadsBefore(u, t, k))
=============================================================================
