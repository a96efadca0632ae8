--------------------------- MODULE ClusterProofs ---------------------------
(* Theorems about a cluster, for any number of shards, routers and         *)
(* transactions, any routing of keys, and any faults.                      *)
EXTENDS Cluster, ShardProofs, WellFoundedInduction

USE DeploymentAssumption, NoneAssumption, RouterAssumption

-----------------------------------------------------------------------------
(* What a router's step does to its own transaction; it touches no other.  *)

SameTx(t) ==
  /\ phase'[t] = phase[t]
  /\ involved'[t] = involved[t]
  /\ visited'[t] = visited[t]
  /\ wait'[t] = wait[t]
  /\ maxPrepare'[t] = maxPrepare[t]
  /\ commitTime'[t] = commitTime[t]
  /\ answer'[t] = answer[t]

OnlyTx(t) == RouterTypeOK' /\ \A u \in Txs : u # t => SameTx(u)

LEMMA BeginMoves ==
  ASSUME RouterTypeOK, NEW t \in Txs, Begin(t)
  PROVE  /\ OnlyTx(t)
         /\ phase[t] = "new" /\ phase'[t] = "active"
         /\ UNCHANGED <<involved, visited, wait, maxPrepare, commitTime, answer>>
<1>1. RouterOf[t] \in Routers
  OBVIOUS
<1>2. PICK now1 \in Wall, now2 \in Wall :
        LET time == Tick(Tick(rclock[RouterOf[t]], now1), now2)
        IN /\ rclock' = [rclock EXCEPT ![RouterOf[t]] = time]
           /\ snap' = [snap EXCEPT ![t] = time]
  BY DEF Begin
<1>3. Tick(Tick(rclock[RouterOf[t]], now1), now2) \in Nat
  BY <1>1, TickType DEF RouterTypeOK
<1>4. rclock' \in [Routers -> Nat] /\ snap' \in [Txs -> Nat]
  BY <1>2, <1>3 DEF RouterTypeOK
<1>5. phase[t] = "new" /\ phase' = [phase EXCEPT ![t] = "active"]
  BY DEF Begin, Goto
<1> QED
  BY <1>4, <1>5 DEF Begin, RouterTypeOK, OnlyTx, SameTx, Phases

LEMMA InvolveMoves ==
  ASSUME RouterTypeOK, NEW t \in Txs, NEW k \in Keys, Involve(t, k)
  PROVE  /\ OnlyTx(t)
         /\ phase[t] = "active"
         /\ involved'[t] = involved[t] \cup {Home[k]}
         /\ UNCHANGED <<phase, visited, wait, maxPrepare, commitTime, answer>>
BY DEF Involve, RouterTypeOK, OnlyTx, SameTx

LEMMA OperateMoves ==
  ASSUME RouterTypeOK, NEW t \in Txs, NEW k \in Keys, Operate(t, k)
  PROVE  /\ OnlyTx(t)
         /\ SameTx(t)
         /\ phase[t] = "active"
         /\ Home[k] \in involved[t]
BY DEF Operate, RouterTypeOK, OnlyTx, SameTx

LEMMA RequestMoves ==
  ASSUME RouterTypeOK, NEW t \in Txs, NEW p \in {"prepare", "abort"}, Request(t, p)
  PROVE  /\ OnlyTx(t)
         /\ phase[t] = "active" /\ phase'[t] = p
         /\ visited'[t] = {}
         /\ UNCHANGED <<involved, wait, maxPrepare, commitTime, answer>>
BY DEF Request, Goto, RouterTypeOK, OnlyTx, SameTx, Phases

LEMMA CallMoves ==
  ASSUME RouterTypeOK, NEW t \in Txs, NEW s \in Shards, NEW p, Call(t, s, p)
  PROVE  /\ OnlyTx(t)
         /\ phase[t] = p
         /\ wait[t] = None /\ wait'[t] = s
         /\ s \in involved[t] \ visited[t]
         /\ visited'[t] = visited[t] \cup {s}
         /\ UNCHANGED <<phase, involved, maxPrepare, commitTime, answer>>
BY DEF Call, Next2PC, RouterTypeOK, OnlyTx, SameTx

LEMMA VotedCommitMoves ==
  ASSUME RouterTypeOK, NEW t \in Txs, NEW time \in Nat, VotedCommit(t, time)
  PROVE  /\ OnlyTx(t)
         /\ phase[t] = "prepare"
         /\ wait'[t] = None
         /\ maxPrepare'[t] \in Nat
         /\ maxPrepare'[t] >= maxPrepare[t] /\ maxPrepare'[t] >= time
         /\ UNCHANGED <<phase, involved, visited, commitTime, answer>>
BY DEF VotedCommit, RouterTypeOK, OnlyTx, SameTx

LEMMA AbortAllMoves ==
  ASSUME RouterTypeOK, NEW t \in Txs, AbortAll(t)
  PROVE  /\ OnlyTx(t)
         /\ phase[t] = "prepare" /\ phase'[t] = "abort"
         /\ visited'[t] = {}
         /\ wait'[t] = None
         /\ UNCHANGED <<involved, maxPrepare, commitTime, answer>>
BY DEF AbortAll, Goto, RouterTypeOK, OnlyTx, SameTx, Phases

LEMMA DecideMoves ==
  ASSUME RouterTypeOK, NEW t \in Txs, Decide(t)
  PROVE  /\ OnlyTx(t)
         /\ phase[t] = "prepare" /\ phase'[t] = "commit"
         /\ wait[t] = None /\ wait'[t] = None
         /\ visited[t] = involved[t] /\ visited'[t] = {}
         /\ commitTime'[t] \in Nat
         /\ commitTime'[t] > maxPrepare[t] /\ commitTime'[t] > rclock[RouterOf[t]]
         /\ rclock'[RouterOf[t]] = commitTime'[t]
         /\ UNCHANGED <<involved, maxPrepare, answer>>
<1>1. RouterOf[t] \in Routers
  OBVIOUS
<1>2. PICK now \in Wall :
        LET time == Update(rclock[RouterOf[t]], maxPrepare[t], now)
        IN /\ rclock' = [rclock EXCEPT ![RouterOf[t]] = time]
           /\ commitTime' = [commitTime EXCEPT ![t] = time]
  BY DEF Decide
<1>3. /\ Update(rclock[RouterOf[t]], maxPrepare[t], now) \in Nat
      /\ Update(rclock[RouterOf[t]], maxPrepare[t], now) > maxPrepare[t]
      /\ Update(rclock[RouterOf[t]], maxPrepare[t], now) > rclock[RouterOf[t]]
  BY <1>1, UpdateType DEF RouterTypeOK
<1>4. /\ rclock' \in [Routers -> Nat] /\ commitTime' \in [Txs -> Nat]
      /\ rclock'[RouterOf[t]] = commitTime'[t]
      /\ commitTime'[t] > maxPrepare[t] /\ commitTime'[t] > rclock[RouterOf[t]]
      /\ \A u \in Txs : u # t => commitTime'[u] = commitTime[u]
  BY <1>1, <1>2, <1>3 DEF RouterTypeOK
<1>5. /\ phase' = [phase EXCEPT ![t] = "commit"]
      /\ visited' = [visited EXCEPT ![t] = {}]
      /\ UNCHANGED <<snap, involved, pending, wait, maxPrepare, alive, answer>>
      /\ phase[t] = "prepare" /\ wait[t] = None /\ visited[t] = involved[t]
  BY DEF Decide, Goto
<1> QED
  BY <1>4, <1>5 DEF RouterTypeOK, OnlyTx, SameTx, Phases

LEMMA ReturnedMoves ==
  ASSUME RouterTypeOK, NEW t \in Txs, NEW p, Returned(t, p)
  PROVE  /\ OnlyTx(t)
         /\ phase[t] = p
         /\ wait'[t] = None
         /\ UNCHANGED <<phase, involved, visited, maxPrepare, commitTime, answer>>
BY DEF Returned, RouterTypeOK, OnlyTx, SameTx

LEMMA PassMoves ==
  ASSUME RouterTypeOK, NEW t \in Txs, NEW s \in Shards, NEW p, Pass(t, s, p)
  PROVE  /\ OnlyTx(t)
         /\ phase[t] = p
         /\ wait[t] = None
         /\ s \in involved[t] \ visited[t]
         /\ visited'[t] = visited[t] \cup {s}
         /\ UNCHANGED <<phase, involved, wait, maxPrepare, commitTime, answer>>
BY DEF Pass, Next2PC, RouterTypeOK, OnlyTx, SameTx

LEMMA FinishMoves ==
  ASSUME RouterTypeOK, NEW t \in Txs, NEW p, NEW told \in Answers,
         Finish(t, p, told)
  PROVE  /\ OnlyTx(t)
         /\ phase[t] = p /\ phase'[t] = "done"
         /\ wait[t] = None
         /\ visited[t] = involved[t]
         /\ answer'[t] = told
         /\ UNCHANGED <<involved, visited, wait, maxPrepare, commitTime>>
BY DEF Finish, Goto, RouterTypeOK, OnlyTx, SameTx, Phases

LEMMA ContextDoneMoves ==
  ASSUME RouterTypeOK, NEW t \in Txs, ContextDone(t)
  PROVE  OnlyTx(t) /\ SameTx(t)
BY DEF ContextDone, RouterTypeOK, OnlyTx, SameTx

LEMMA RouterCrashMoves ==
  ASSUME RouterTypeOK, NEW r \in Routers, RouterCrash(r)
  PROVE  /\ RouterTypeOK'
         /\ \A t \in Txs :
              \/ SameTx(t)
              \/ /\ phase[t] \notin {"new", "done"} /\ phase'[t] = "gone"
                 /\ wait'[t] = None
         /\ UNCHANGED <<involved, visited, maxPrepare, commitTime, answer>>
<1>1. RouterTypeOK'
  BY DEF RouterCrash, RouterTypeOK, Phases
<1>2. ASSUME NEW t \in Txs
      PROVE  \/ SameTx(t)
             \/ /\ phase[t] \notin {"new", "done"} /\ phase'[t] = "gone"
                /\ wait'[t] = None
  BY DEF RouterCrash, RouterTypeOK, SameTx
<1> QED
  BY <1>1, <1>2 DEF RouterCrash

-----------------------------------------------------------------------------
(* What a shard's step does to the row of its own transaction; StepOthers  *)
(* of module ShardProofs says that it touches no other.                    *)

Preparing(s, t) == pc[s][t] \in {"lock", "checkWrites", "checkReads", "vote"}

LEMMA PrepareBeginMoves ==
  ASSUME TypeOK, NEW s \in Shards, NEW t \in Txs, PrepareCall(s, t)
  PROVE  /\ UNCHANGED store
         /\ \/ /\ pc'[s][t] = "idle"
               /\ status'[s][t] = "none"
               /\ reply'[s][t] = "error"
            \/ /\ pc'[s][t] = "abortRelease"
               /\ status'[s][t] = "none"
               /\ reply'[s][t] = "none"
               /\ t \in buffers[s]
            \/ /\ pc'[s][t] = "lock"
               /\ status'[s][t] = "running"
               /\ reply'[s][t] = "none"
<1>1. PrepareBegin(s, t) /\ status[s][t] = "none" /\ pc[s][t] = "idle"
  BY DEF PrepareCall, Open
<1>2. CASE Answer(s, t, "error") /\ UNCHANGED status
  BY <1>1, <1>2 DEF PrepareBegin, Answer, TypeOK
<1>3. CASE /\ t \in buffers[s]
           /\ VoteAbort(s, t)
           /\ reply' = [reply EXCEPT ![s][t] = "none"]
  BY <1>1, <1>3 DEF VoteAbort, Loop, TypeOK
<1>4. CASE /\ status' = [status EXCEPT ![s][t] = "running"]
           /\ Loop(s, t, "lock", WriteKeys(s, t))
           /\ reply' = [reply EXCEPT ![s][t] = "none"]
  BY <1>1, <1>4 DEF PrepareBegin, Loop, TypeOK
<1> QED
  BY <1>1, <1>2, <1>3, <1>4 DEF PrepareBegin

LEMMA CommitBeginMoves ==
  ASSUME TypeOK, NEW s \in Shards, NEW t \in Txs, NEW ct \in Nat,
         CommitBegin(s, t, ct)
  PROVE  /\ pc[s][t] = "idle"
         /\ UNCHANGED <<store, clock, buffers, writes, reads, locks, status, ptime,
                        dropping>>
         /\ \/ /\ t \notin buffers[s]
               /\ pc'[s][t] = "idle"
            \/ /\ t \in buffers[s]
               /\ pc'[s][t] = "put"
               /\ todo'[s][t] = WriteKeys(s, t)
               /\ ctime'[s][t] = ct
               /\ reply'[s][t] = "none"
<1>1. CASE t \notin buffers[s]
  BY <1>1 DEF CommitBegin, Answer, TypeOK
<1>2. CASE t \in buffers[s]
  <2>1. /\ Loop(s, t, "put", WriteKeys(s, t))
        /\ ctime' = [ctime EXCEPT ![s][t] = ct]
        /\ reply' = [reply EXCEPT ![s][t] = "none"]
    BY <1>2, Zenon DEF CommitBegin
  <2> QED
    BY <1>2, <2>1 DEF CommitBegin, Loop, TypeOK
<1> QED
  BY <1>1, <1>2

LEMMA CleanupMoves ==
  ASSUME TypeOK, NEW s \in Shards, NEW t \in Txs, NEW at \in Cleanups,
         AbortCleanup(s, t, at)
  PROVE  /\ at # "abortRemove" => UNCHANGED buffers
         /\ at = "abortRemove" => t \notin buffers'[s]
         /\ t \in buffers'[s] => t \in buffers[s]
         /\ at # "abortMark" => UNCHANGED status
         /\ at = "abortMark" => status'[s][t] \in {"none", "aborted"}
         /\ \/ status'[s][t] = status[s][t]
            \/ status[s][t] # "none" /\ status'[s][t] = "aborted"
BY DEF AbortCleanup, Remove, Mark, TypeOK

LEMMA AbortAtMoves ==
  ASSUME TypeOK, NEW s \in Shards, NEW t \in Txs, NEW at \in Cleanups,
         AbortAt(s, t, at)
  PROVE  /\ UNCHANGED <<store, writes, reads, ptime, ctime, pc, todo, reply>>
         /\ dropping'[s][t] = After(at)
         /\ AbortCleanup(s, t, at)
BY DEF AbortAt, TypeOK

LEMMA AbortMoves ==
  ASSUME TypeOK, NEW s \in Shards, NEW t \in Txs, Abort(s, t)
  PROVE  /\ UNCHANGED <<store, buffers, writes, reads, status, ptime, ctime, pc,
                        todo, reply>>
         /\ dropping[s][t] = "idle" /\ dropping'[s][t] = "abortRemove"
<1>1. "abortRelease" \in Cleanups /\ After("abortRelease") = "abortRemove"
  BY DEF Cleanups, After
<1> QED
  BY <1>1, AbortAtMoves, CleanupMoves DEF Abort

LEMMA PrepareAbortsMoves ==
  ASSUME TypeOK, NEW s \in Shards, NEW t \in Txs, PrepareAborts(s, t)
  PROVE  /\ UNCHANGED <<store, writes, reads, ptime, ctime, dropping>>
         /\ pc[s][t] \in Cleanups
         /\ AbortCleanup(s, t, pc[s][t])
         /\ pc'[s][t] = After(pc[s][t])
         /\ \/ pc'[s][t] \in Cleanups /\ UNCHANGED reply
            \/ /\ pc'[s][t] = "idle"
               /\ reply'[s][t] \in {"error", "abort"}
               /\ pc[s][t] = "abortTick"
<1>1. pc[s][t] \in Cleanups
  BY DEF PrepareAborts
<1>2. CASE pc[s][t] = "abortTick"
  BY <1>2 DEF PrepareAborts, Answer, After, TypeOK
<1>3. CASE pc[s][t] # "abortTick"
  BY <1>1, <1>3, AfterType DEF PrepareAborts, Loop, TypeOK
<1> QED
  BY <1>2, <1>3

(* A running Prepare goes on, votes against t, or promises to commit it.   *)
LEMMA PreparingMoves ==
  ASSUME TypeOK, NEW s \in Shards, NEW t \in Txs, Handler(s, t),
         ~AbortGoesOn(s, t), Preparing(s, t)
  PROVE  /\ UNCHANGED <<store, buffers, ctime, dropping>>
         /\ \/ /\ Preparing(s, t)' \/ pc'[s][t] = "abortRelease"
               /\ UNCHANGED <<status, reply, ptime>>
            \/ /\ pc[s][t] = "vote"
               /\ pc'[s][t] = "idle"
               /\ status'[s][t] = "prepared"
               /\ reply'[s][t] = "commit"
<1>1. CASE VoteAbort(s, t) /\ UNCHANGED reply
  BY <1>1 DEF VoteAbort, Loop, TypeOK
<1>2. CASE \E k \in KeysOf(s) : \/ PrepareLock(s, t, k)
                                \/ PrepareCheckWrite(s, t, k)
                                \/ PrepareCheckRead(s, t, k)
  BY <1>1, <1>2
     DEF PrepareLock, PrepareCheckWrite, PrepareCheckRead, Preparing
<1>3. CASE PrepareNext(s, t)
  BY <1>3 DEF PrepareNext, Loop, Preparing, TypeOK
<1>4. CASE PrepareVote(s, t)
  BY <1>4 DEF PrepareVote, Answer, TypeOK
<1> QED
  BY <1>2, <1>3, <1>4
     DEF Handler, Preparing, PrepareAborts, CommitPut, CommitClock,
         CommitCleanup, Cleanups

(* A running Commit goes on, adding at most a version of t, or ends.       *)
LEMMA CommittingMoves ==
  ASSUME TypeOK, NEW s \in Shards, NEW t \in Txs, Handler(s, t),
         Committing(s, t), CommitIsVoted(s, t)
  PROVE  /\ UNCHANGED <<ptime, ctime, dropping>>
         /\ \/ \E k \in KeysOf(s) : CommitPut(s, t, k)
            \/ UNCHANGED store
         /\ \/ /\ pc[s][t] # "mark"
               /\ pc'[s][t] \in {"put", "release", "remove"}
               /\ UNCHANGED <<status, buffers, reply>>
            \/ /\ pc'[s][t] = "mark"
               /\ t \notin buffers'[s]
               /\ UNCHANGED <<status, reply>>
            \/ /\ pc'[s][t] = "idle"
               /\ status'[s][t] = "committed"
               /\ t \notin buffers'[s]
<1>0. /\ status[s][t] = "prepared" /\ dropping[s][t] = "idle"
      /\ pc[s][t] = "mark" => t \notin buffers[s]
      /\ ~AbortGoesOn(s, t)
  BY DEF CommitIsVoted, AbortGoesOn, Cleanups
<1>1. CASE \E k \in KeysOf(s) : CommitPut(s, t, k)
  BY <1>1 DEF CommitPut, Committing
<1>2. CASE CommitClock(s, t)
  BY <1>2 DEF CommitClock, Loop, Committing, TypeOK
<1>3. CASE CommitCleanup(s, t)
  <2>1. CASE pc[s][t] = "release"
    BY <1>3, <2>1 DEF CommitCleanup, Loop, Committing, TypeOK
  <2>2. CASE pc[s][t] = "remove"
    BY <1>3, <2>2 DEF CommitCleanup, Loop, Remove, TypeOK
  <2>3. CASE pc[s][t] = "mark"
    BY <1>0, <1>3, <2>3 DEF CommitCleanup, Answer, Mark, TypeOK
  <2> QED
    BY <1>3, <2>1, <2>2, <2>3 DEF CommitCleanup
<1> QED
  BY <1>0, <1>1, <1>2, <1>3
     DEF Handler, Committing, PrepareLock, PrepareCheckWrite,
         PrepareCheckRead, PrepareNext, PrepareVote, PrepareAborts, Cleanups

LEMMA HandlerRuns ==
  ASSUME TypeOK, NEW s \in Shards, NEW t \in Txs, Handler(s, t)
  PROVE  \/ Preparing(s, t) \/ Committing(s, t)
         \/ PrepareAborts(s, t) \/ AbortGoesOn(s, t)
BY DEF Handler, Preparing, Committing, PrepareLock, PrepareCheckWrite,
       PrepareCheckRead, PrepareNext, PrepareVote, CommitPut, CommitClock,
       CommitCleanup

LEMMA CrashMoves ==
  ASSUME TypeOK, NEW s \in Shards, NEW t \in Txs, Crash(s)
  PROVE  /\ pc'[s][t] = "idle"
         /\ status'[s][t] = "none"
         /\ dropping'[s][t] = "idle"
         /\ reply'[s][t] = "error"
         /\ ptime'[s][t] = 0
         /\ t \notin buffers'[s]
BY DEF Crash, TypeOK

-----------------------------------------------------------------------------
(* What a step does not touch keeps the invariant.                         *)

LEMMA CallFrame ==
  ASSUME NEW s \in Shards, NEW t \in Txs, CallInv(s, t), SameRow(s, t),
         SameTx(t), crashed => crashed'
  PROVE  CallInv(s, t)'
BY DEF CallInv, SameRow, SameTx, Uncalled, Open, VotesCounted, KeepsPromise,
       CommitsAsDecided, Committing, NothingUndecided, PrepareAlone, GivenUp

LEMMA HandlerFrame ==
  ASSUME NEW t \in Txs, HandlerInv(t), SameTx(t)
  PROVE  HandlerInv(t)'
BY DEF HandlerInv, SameTx

LEMMA WrittenFrame ==
  ASSUME WrittenAsDecided, UNCHANGED store,
         \A t \in Txs : \/ commitTime'[t] = commitTime[t]
                        \/ commitTime[t] = 0,
         \A t \in Txs : involved[t] \subseteq involved'[t],
         TypeOK
  PROVE  WrittenAsDecided'
<1>1. ASSUME NEW k \in Keys, NEW v \in store[k]
      PROVE  /\ commitTime'[v.tx] # 0
             /\ v.version = commitTime'[v.tx]
             /\ Home[k] \in involved'[v.tx]
  <2>1. v.tx \in Txs
    BY DEF TypeOK, Version
  <2> QED
    BY <2>1 DEF WrittenAsDecided
<1> QED
  BY <1>1 DEF WrittenAsDecided

LEMMA QuietRows ==
  ASSUME UNCHANGED shardVars
  PROVE  \A s \in Shards, t \in Txs : SameRow(s, t)
BY DEF shardVars, SameRow

(* A step of transaction t that calls no shard, or shard s.                *)
LEMMA QuietKeeps ==
  ASSUME ClusterInv, NEW t \in Txs, OnlyTx(t), UNCHANGED <<shardVars, crashed>>,
         commitTime'[t] = commitTime[t] \/ commitTime[t] = 0,
         involved[t] \subseteq involved'[t],
         HandlerInv(t)', \A s \in Shards : CallInv(s, t)'
  PROVE  ClusterInv'
<1>1. ShardInv'
  BY Stutter DEF ClusterInv
<1>2. \A u \in Txs : HandlerInv(u)'
  BY HandlerFrame DEF ClusterInv, OnlyTx
<1>3. \A s \in Shards, u \in Txs : CallInv(s, u)'
  BY QuietRows, CallFrame DEF ClusterInv, OnlyTx
<1>4. WrittenAsDecided'
  <2>1. \A u \in Txs : /\ commitTime'[u] = commitTime[u] \/ commitTime[u] = 0
                       /\ involved[u] \subseteq involved'[u]
    BY DEF OnlyTx, SameTx
  <2> QED
    BY <2>1, WrittenFrame DEF ClusterInv, ShardInv, shardVars
<1> QED
  BY <1>1, <1>2, <1>3, <1>4 DEF ClusterInv, OnlyTx

LEMMA CallKeeps ==
  ASSUME ClusterInv, NEW s \in Shards, NEW t \in Txs, FreeStep(s, t), OnlyTx(t),
         UNCHANGED crashed, HandlerInv(t)', WrittenAsDecided',
         \A s2 \in Shards : s2 # s => (SameRow(s2, t) => CallInv(s2, t)'),
         CallInv(s, t)'
  PROVE  ClusterInv'
<1>1. ShardInv'
  BY ShardInvStep DEF ClusterInv, FreeNext
<1>2. \A u \in Txs : HandlerInv(u)'
  BY HandlerFrame DEF ClusterInv, OnlyTx
<1>3. ASSUME NEW s2 \in Shards, NEW u \in Txs
      PROVE  CallInv(s2, u)'
  <2>1. CASE s2 = s /\ u = t
    BY <2>1
  <2>2. CASE s2 # s \/ u # t
    <3>1. SameRow(s2, u)
      BY <2>2, StepOthers DEF ClusterInv, ShardInv
    <3> QED
      BY <2>2, <3>1, CallFrame DEF ClusterInv, OnlyTx
  <2> QED
    BY <2>1, <2>2
<1> QED
  BY <1>1, <1>2, <1>3 DEF ClusterInv, OnlyTx

-----------------------------------------------------------------------------
(* The routers call the shards as module Shard assumes.                    *)

LEMMA StartAllowed ==
  ASSUME ClusterInv, NEW t \in Txs, NEW k \in Keys, phase[t] = "active",
         TxStart(Home[k], t)
  PROVE  FreeStep(Home[k], t) /\ Home[k] \in Shards
BY DEF ClusterInv, CallInv, Uncalled, FreeStep, FreeClientCall

LEMMA AskedIsAccess ==
  ASSUME NEW t \in Txs, NEW op, NEW k, Ask(t, op, k)
  PROVE  <<op, k>> \in Access[t]
<1>1. PICK i \in DOMAIN Requests[t] : Requests[t][i] = <<op, k>>
  BY DEF Ask, Upcoming
<1>2. Requests[t] \in Seq(Access[t])
  BY ClusterAssumption
<1>3. i \in 1..Len(Requests[t]) /\ Requests[t][i] \in Access[t]
  BY <1>2
<1> QED
  BY <1>1, <1>3

LEMMA AskAllowed ==
  ASSUME ClusterInv, NEW t \in Txs, NEW k \in Keys, phase[t] = "active",
         Read(t, k) \/ Write(t, k) \/ Delete(t, k)
  PROVE  FreeStep(Home[k], t) /\ Home[k] \in Shards
<1>1. Home[k] \in Shards /\ k \in KeysOf(Home[k]) /\ snap[t] \in Nat
  BY DEF KeysOf, ClusterInv, RouterTypeOK
<1>2. Open(Home[k], t)
  BY <1>1 DEF ClusterInv, CallInv, Uncalled
<1> QED
  BY <1>1, <1>2, AskedIsAccess DEF FreeStep, FreeClientCall, Read, Write, Delete

LEMMA PrepareAllowed ==
  ASSUME ClusterInv, NEW t \in Txs, NEW s \in Shards, SendPrepare(t, s)
  PROVE  PrepareCall(s, t) /\ FreeStep(s, t)
BY DEF ClusterInv, SendPrepare, Call, Next2PC, CallInv, Uncalled, PrepareCall,
       FreeStep

LEMMA CommitAllowed ==
  ASSUME ClusterInv, NEW t \in Txs, NEW s \in Shards, SendCommit(t, s)
  PROVE  FreeCommitCall(s, t) /\ FreeStep(s, t)
<1>1. phase[t] = "commit" /\ s \in involved[t] \ visited[t]
  BY DEF SendCommit, Call, Next2PC
<1>2. commitTime[t] \in Nat /\ commitTime[t] # 0
  BY <1>1 DEF ClusterInv, RouterTypeOK, HandlerInv
<1>3. /\ ptime[s][t] < commitTime[t] /\ KeepsPromise(s, t) /\ ptime[s][t] \in Nat
      /\ dropping[s][t] = "idle"
  BY <1>1, <1>2
     DEF ClusterInv, ShardInv, TypeOK, CallInv, CommitsAsDecided, GivenUp
<1>4. CommitBegin(s, t, commitTime[t])
  BY DEF SendCommit
<1>5. t \notin buffers[s] => CommitBegin(s, t, 0)
  BY <1>4 DEF CommitBegin
<1> QED
  BY <1>2, <1>3, <1>4, <1>5 DEF FreeCommitCall, FreeStep, KeepsPromise

LEMMA AbortAllowed ==
  ASSUME ClusterInv, NEW t \in Txs, NEW s \in Shards, SendAbort(t, s)
  PROVE  FreeAbortCall(s, t) /\ FreeStep(s, t)
<1>1. commitTime[t] = 0
  BY DEF SendAbort, Call, Next2PC, ClusterInv, HandlerInv
<1> QED
  BY <1>1 DEF SendAbort, ClusterInv, CallInv, NothingUndecided, FreeAbortCall,
              FreeStep

-----------------------------------------------------------------------------
(* Each step of the cluster keeps the invariant: the client's requests.    *)

(* At a shard that is still to be called, nothing is decided.              *)
LEMMA OpenRow ==
  ASSUME NEW s \in Shards, NEW t \in Txs, Open(s, t)', commitTime'[t] = 0,
         phase'[t] = "prepare" => s \notin visited'[t]
  PROVE  CallInv(s, t)'
BY DEF CallInv, Open, VotesCounted, CommitsAsDecided, NothingUndecided,
       PrepareAlone, GivenUp, Committing

LEMMA EarlyRows ==
  ASSUME ClusterInv, NEW t \in Txs, phase[t] \in {"new", "active"}
  PROVE  /\ commitTime[t] = 0
         /\ visited[t] = {}
         /\ wait[t] = None
         /\ answer[t] = "none"
         /\ \A s \in Shards : Open(s, t)
BY DEF ClusterInv, HandlerInv, CallInv, Uncalled

LEMMA BeginKeeps ==
  ASSUME ClusterInv, NEW t \in Txs, TxBegin(t)
  PROVE  ClusterInv'
<1>1. /\ OnlyTx(t)
      /\ phase[t] = "new" /\ phase'[t] = "active"
      /\ UNCHANGED <<involved, visited, wait, maxPrepare, commitTime, answer>>
      /\ UNCHANGED <<shardVars, crashed>>
  BY BeginMoves DEF TxBegin, ClusterInv, counters
<1>2. HandlerInv(t)'
  BY <1>1, EarlyRows DEF HandlerInv
<1>3. ASSUME NEW s \in Shards
      PROVE  CallInv(s, t)'
  <2>1. Open(s, t)'
    BY <1>1, EarlyRows DEF Open, shardVars
  <2> QED
    BY <1>1, <2>1, EarlyRows, OpenRow
<1> QED
  BY <1>1, <1>2, <1>3, QuietKeeps

LEMMA StartKeeps ==
  ASSUME ClusterInv, NEW t \in Txs, NEW k \in Keys, phase[t] = "active",
         TxStart(Home[k], t), OnlyTx(t),
         involved'[t] \in {involved[t], involved[t] \cup {Home[k]}},
         UNCHANGED <<crashed, phase, visited, wait, maxPrepare, commitTime, answer>>
  PROVE  ClusterInv'
<1>1. /\ FreeStep(Home[k], t) /\ Home[k] \in Shards
      /\ UNCHANGED <<pc, status, store, dropping>>
  BY StartAllowed DEF TxStart
<1>2. HandlerInv(t)'
  BY EarlyRows DEF HandlerInv
<1>3. ASSUME NEW s \in Shards
      PROVE  CallInv(s, t)'
  <2>1. Open(s, t)'
    BY <1>1, EarlyRows DEF Open
  <2> QED
    BY <1>1, <2>1, EarlyRows, OpenRow
<1>4. WrittenAsDecided'
  <2>1. \A u \in Txs : involved[u] \subseteq involved'[u]
    BY DEF OnlyTx, SameTx
  <2> QED
    BY <1>1, <2>1, WrittenFrame DEF ClusterInv, ShardInv
<1> QED
  BY <1>1, <1>2, <1>3, <1>4, CallKeeps

LEMMA EnlistKeeps ==
  ASSUME ClusterInv, NEW t \in Txs, NEW k \in Keys,
         Enlist(t, k) \/ EnlistUnknown(t, k)
  PROVE  ClusterInv'
<1>1. CASE Enlist(t, k)
  <2>1. /\ TxStart(Home[k], t)
        /\ OnlyTx(t)
        /\ phase[t] = "active"
        /\ involved'[t] = involved[t] \cup {Home[k]}
        /\ UNCHANGED <<crashed, phase, visited, wait, maxPrepare, commitTime,
                       answer>>
    BY <1>1, InvolveMoves DEF Enlist, ClusterInv, counters
  <2> QED
    BY <2>1, StartKeeps
<1>2. CASE EnlistUnknown(t, k)
  <2>1. /\ TxStart(Home[k], t)
        /\ phase[t] = "active"
        /\ UNCHANGED <<routerVars, crashed>>
    BY <1>2 DEF EnlistUnknown
  <2>2. OnlyTx(t)
    BY <2>1 DEF OnlyTx, SameTx, ClusterInv, RouterTypeOK, routerVars
  <2> QED
    BY <2>1, <2>2, StartKeeps DEF routerVars
<1> QED
  BY <1>1, <1>2

LEMMA AskKeeps ==
  ASSUME ClusterInv, NEW t \in Txs, NEW k \in Keys,
         Read(t, k) \/ Write(t, k) \/ Delete(t, k)
  PROVE  ClusterInv'
<1>1. /\ OnlyTx(t) /\ SameTx(t)
      /\ phase[t] = "active"
      /\ UNCHANGED <<commitTime, involved, crashed>>
  BY OperateMoves DEF Read, Write, Delete, Ask, Operate, ClusterInv
<1>2. /\ FreeStep(Home[k], t) /\ Home[k] \in Shards
      /\ UNCHANGED <<pc, status, store, dropping>>
  BY <1>1, AskAllowed
     DEF Read, Write, Delete, TxRead, TxWrite, TxDelete, BufferWrite
<1>3. HandlerInv(t)'
  BY <1>1, HandlerFrame DEF ClusterInv
<1>4. ASSUME NEW s \in Shards
      PROVE  CallInv(s, t)'
  <2>1. Open(s, t)'
    BY <1>1, <1>2, EarlyRows DEF Open
  <2> QED
    BY <1>1, <2>1, EarlyRows, OpenRow DEF SameTx
<1>5. WrittenAsDecided'
  BY <1>1, <1>2, WrittenFrame DEF ClusterInv, ShardInv
<1> QED
  BY <1>1, <1>2, <1>3, <1>4, <1>5, CallKeeps

LEMMA RequestKeeps ==
  ASSUME ClusterInv, NEW t \in Txs, CommitRequest(t) \/ AbortRequest(t),
         UNCHANGED <<shardVars, counters>>
  PROVE  ClusterInv'
<1>1. /\ OnlyTx(t)
      /\ phase[t] = "active" /\ phase'[t] \in {"prepare", "abort"}
      /\ visited'[t] = {}
      /\ UNCHANGED <<involved, wait, maxPrepare, commitTime, answer, crashed>>
  BY RequestMoves DEF CommitRequest, AbortRequest, ClusterInv, counters
<1>2. HandlerInv(t)'
  BY <1>1, EarlyRows DEF HandlerInv
<1>3. ASSUME NEW s \in Shards
      PROVE  CallInv(s, t)'
  <2>1. Open(s, t)'
    BY <1>1, EarlyRows DEF Open, shardVars
  <2> QED
    BY <1>1, <2>1, EarlyRows, OpenRow
<1> QED
  BY <1>1, <1>2, <1>3, QuietKeeps

-----------------------------------------------------------------------------
(* The first loop of Commit, and its end.                                  *)

LEMMA SendPrepareKeeps ==
  ASSUME ClusterInv, NEW t \in Txs, NEW s \in Shards, SendPrepare(t, s)
  PROVE  ClusterInv'
<1>1. /\ PrepareCall(s, t) /\ FreeStep(s, t)
      /\ UNCHANGED crashed
      /\ OnlyTx(t)
      /\ phase[t] = "prepare"
      /\ wait[t] = None /\ wait'[t] = s
      /\ s \in involved[t] \ visited[t]
      /\ visited'[t] = visited[t] \cup {s}
      /\ UNCHANGED <<phase, involved, maxPrepare, commitTime, answer>>
  BY PrepareAllowed, CallMoves DEF SendPrepare, ClusterInv, counters
<1>2. /\ HandlerInv(t) /\ commitTime[t] = 0
      /\ TypeOK
  BY <1>1 DEF ClusterInv, HandlerInv, ShardInv
<1>3. HandlerInv(t)'
  BY <1>1, <1>2 DEF HandlerInv
<1>4. ASSUME NEW s2 \in Shards, s2 # s, SameRow(s2, t)
      PROVE  CallInv(s2, t)'
  <2>1. CallInv(s2, t)
    BY DEF ClusterInv
  <2> QED
    BY <1>1, <1>2, <1>4, <2>1
       DEF CallInv, SameRow, Uncalled, Open, VotesCounted, KeepsPromise,
           CommitsAsDecided, Committing, NothingUndecided, PrepareAlone, GivenUp
<1>5. CallInv(s, t)'
  <2>1. dropping[s][t] = "idle" /\ UNCHANGED dropping
    BY <1>1 DEF PrepareCall, Open, PrepareBegin
  <2> QED
    BY <1>1, <1>2, <2>1, PrepareBeginMoves
     DEF CallInv, Uncalled, VotesCounted, CommitsAsDecided, Committing,
         NothingUndecided, PrepareAlone, GivenUp
<1>6. WrittenAsDecided'
  BY <1>1, <1>2, PrepareBeginMoves, WrittenFrame DEF ClusterInv
<1> QED
  BY <1>1, <1>3, <1>4, <1>5, <1>6, CallKeeps

LEMMA AbortAllKeeps ==
  ASSUME ClusterInv, NEW t \in Txs, AbortAll(t), UNCHANGED <<shardVars, crashed>>
  PROVE  ClusterInv'
<1>1. /\ OnlyTx(t)
      /\ phase[t] = "prepare" /\ phase'[t] = "abort"
      /\ visited'[t] = {}
      /\ wait'[t] = None
      /\ UNCHANGED <<involved, maxPrepare, commitTime, answer>>
  BY AbortAllMoves DEF ClusterInv
<1>2. HandlerInv(t) /\ commitTime[t] = 0
  BY <1>1 DEF ClusterInv, HandlerInv
<1>3. HandlerInv(t)'
  BY <1>1, <1>2 DEF HandlerInv
<1>4. ASSUME NEW s \in Shards
      PROVE  CallInv(s, t)'
  <2>1. CallInv(s, t) /\ SameRow(s, t)
    BY QuietRows DEF ClusterInv
  <2> QED
    BY <1>1, <1>2, <2>1
       DEF CallInv, SameRow, Uncalled, Open, VotesCounted, CommitsAsDecided,
           Committing, NothingUndecided, PrepareAlone, GivenUp
<1> QED
  BY <1>1, <1>3, <1>4, QuietKeeps

LEMMA ReceiveVoteKeeps ==
  ASSUME ClusterInv, NEW t \in Txs, NEW s \in Shards, ReceiveVote(t, s)
  PROVE  ClusterInv'
<1>1. CASE reply[s][t] # "commit"
  BY <1>1, AbortAllKeeps DEF ReceiveVote, counters
<1>2. CASE reply[s][t] = "commit"
  <2>1. /\ ptime[s][t] \in Nat
        /\ VotedCommit(t, ptime[s][t])
        /\ wait[t] = s /\ pc[s][t] = "idle"
        /\ UNCHANGED <<shardVars, crashed>>
    BY <1>2 DEF ReceiveVote, Answered, counters, ClusterInv, ShardInv, TypeOK
  <2>2. /\ OnlyTx(t)
        /\ phase[t] = "prepare"
        /\ wait'[t] = None
        /\ maxPrepare'[t] \in Nat
        /\ maxPrepare'[t] >= maxPrepare[t] /\ maxPrepare'[t] >= ptime[s][t]
        /\ UNCHANGED <<phase, involved, visited, commitTime, answer>>
    BY <2>1, VotedCommitMoves DEF ClusterInv
  <2>3. HandlerInv(t) /\ s \in visited[t] /\ commitTime[t] = 0
    BY <2>1, <2>2 DEF ClusterInv, HandlerInv
  <2>4. HandlerInv(t)'
    BY <2>2, <2>3 DEF HandlerInv
  <2>5. ASSUME NEW s2 \in Shards
        PROVE  CallInv(s2, t)'
    <3>1. CallInv(s2, t) /\ SameRow(s2, t)
      BY <2>1, QuietRows DEF ClusterInv
    <3>2. /\ Uncalled(s2, t)' = Uncalled(s2, t)
          /\ CommitsAsDecided(s2, t)'
          /\ NothingUndecided(s2, t)'
          /\ PrepareAlone(s2, t)'
          /\ GivenUp(s2, t)'
      BY <2>2, <2>3, <3>1
         DEF CallInv, SameRow, Uncalled, CommitsAsDecided, Committing,
             NothingUndecided, PrepareAlone, GivenUp
    <3>3. VotesCounted(s2, t)'
      <4>1. CASE s2 \in visited[t]
        <5>1. /\ ptime[s2][t] \in Nat /\ maxPrepare[t] \in Nat
              /\ s2 # wait'[t]
          BY <2>2 DEF ClusterInv, ShardInv, TypeOK, RouterTypeOK
        <5>2. /\ pc[s2][t] = "idle"
              /\ KeepsPromise(s2, t)
              /\ ptime[s2][t] <= maxPrepare'[t]
          BY <1>2, <2>1, <2>2, <3>1, <4>1, <5>1
             DEF CallInv, VotesCounted, KeepsPromise
        <5> QED
          BY <2>1, <3>1, <5>1, <5>2 DEF VotesCounted, KeepsPromise, SameRow
      <4>2. CASE s2 \notin visited[t]
        BY <2>2, <4>2 DEF VotesCounted
      <4> QED
        BY <4>1, <4>2
    <3> QED
      BY <3>1, <3>2, <3>3 DEF CallInv, SameRow, Open
  <2> QED
    BY <2>1, <2>2, <2>4, <2>5, QuietKeeps
<1> QED
  BY <1>1, <1>2

LEMMA DecideKeeps ==
  ASSUME ClusterInv, NEW t \in Txs, DecideCommit(t)
  PROVE  ClusterInv'
<1>1. /\ OnlyTx(t)
      /\ UNCHANGED <<shardVars, crashed>>
      /\ phase[t] = "prepare" /\ phase'[t] = "commit"
      /\ wait[t] = None /\ wait'[t] = None
      /\ visited[t] = involved[t] /\ visited'[t] = {}
      /\ commitTime'[t] \in Nat /\ maxPrepare[t] \in Nat
      /\ commitTime'[t] > maxPrepare[t]
      /\ UNCHANGED <<involved, maxPrepare, answer>>
  BY DecideMoves DEF DecideCommit, ClusterInv, RouterTypeOK, counters
<1>2. HandlerInv(t) /\ commitTime[t] = 0
  BY <1>1 DEF ClusterInv, HandlerInv
<1>3. HandlerInv(t)'
  BY <1>1, <1>2 DEF HandlerInv
<1>4. ASSUME NEW s \in Shards
      PROVE  CallInv(s, t)'
  <2>1. CallInv(s, t) /\ SameRow(s, t) /\ ptime[s][t] \in Nat
    BY <1>1, QuietRows DEF ClusterInv, ShardInv, TypeOK
  <2>2. CASE s \in involved[t]
    <3>1. pc[s][t] = "idle" /\ KeepsPromise(s, t) /\ ptime[s][t] < commitTime'[t]
      BY <1>1, <2>1, <2>2 DEF CallInv, VotesCounted
    <3> QED
      BY <1>1, <2>1, <2>2, <3>1
         DEF CallInv, SameRow, Uncalled, VotesCounted, CommitsAsDecided,
             KeepsPromise, Committing, NothingUndecided, PrepareAlone, GivenUp
  <2>3. CASE s \notin involved[t]
    BY <1>1, <2>1, <2>3
       DEF CallInv, SameRow, Uncalled, Open, VotesCounted, CommitsAsDecided,
           NothingUndecided, PrepareAlone, GivenUp
  <2> QED
    BY <2>2, <2>3
<1> QED
  BY <1>1, <1>2, <1>3, <1>4, QuietKeeps

-----------------------------------------------------------------------------
(* The second loop of Commit, abortAll, and the reply.                     *)

LEMMA SendCommitKeeps ==
  ASSUME ClusterInv, NEW t \in Txs, NEW s \in Shards, SendCommit(t, s)
  PROVE  ClusterInv'
<1>1. /\ FreeStep(s, t)
      /\ CommitBegin(s, t, commitTime[t])
      /\ UNCHANGED crashed
      /\ OnlyTx(t)
      /\ phase[t] = "commit"
      /\ wait[t] = None /\ wait'[t] = s
      /\ s \in involved[t] \ visited[t]
      /\ visited'[t] = visited[t] \cup {s}
      /\ UNCHANGED <<phase, involved, maxPrepare, commitTime, answer>>
  BY CommitAllowed, CallMoves DEF SendCommit, ClusterInv, counters
<1>2. /\ HandlerInv(t) /\ CallInv(s, t) /\ TypeOK
      /\ commitTime[t] \in Nat /\ commitTime[t] # 0
  BY <1>1 DEF ClusterInv, HandlerInv, ShardInv, RouterTypeOK
<1>3. HandlerInv(t)'
  BY <1>1, <1>2 DEF HandlerInv
<1>4. ASSUME NEW s2 \in Shards, s2 # s, SameRow(s2, t)
      PROVE  CallInv(s2, t)'
  <2>1. CallInv(s2, t)
    BY DEF ClusterInv
  <2> QED
    BY <1>1, <1>2, <1>4, <2>1
       DEF CallInv, SameRow, Uncalled, Open, VotesCounted, KeepsPromise,
           CommitsAsDecided, Committing, NothingUndecided, PrepareAlone, GivenUp
<1>5. /\ pc[s][t] = "idle"
      /\ UNCHANGED <<store, buffers, status, ptime, dropping>>
      /\ pc'[s][t] = "idle" \/ (pc'[s][t] = "put" /\ ctime'[s][t] = commitTime[t])
  BY <1>1, <1>2, CommitBeginMoves
<1>6. CallInv(s, t)'
  BY <1>1, <1>2, <1>5
     DEF CallInv, Uncalled, VotesCounted, CommitsAsDecided, KeepsPromise,
         Committing, NothingUndecided, PrepareAlone, GivenUp
<1>7. WrittenAsDecided'
  BY <1>1, <1>2, <1>5, WrittenFrame DEF ClusterInv
<1> QED
  BY <1>1, <1>3, <1>4, <1>6, <1>7, CallKeeps

(* The loop of Commit leaves a shard behind, with an answer or without.    *)
LEMMA CommitGoesOn ==
  ASSUME ClusterInv, NEW t \in Txs, OnlyTx(t), UNCHANGED <<shardVars, crashed>>,
         phase[t] = "commit", wait'[t] = None,
         visited[t] \subseteq visited'[t], visited'[t] \subseteq involved[t],
         UNCHANGED <<phase, involved, maxPrepare, commitTime, answer>>
  PROVE  ClusterInv'
<1>1. HandlerInv(t) /\ commitTime[t] # 0
  BY DEF ClusterInv, HandlerInv
<1>2. HandlerInv(t)'
  BY <1>1 DEF HandlerInv
<1>3. ASSUME NEW s \in Shards
      PROVE  CallInv(s, t)'
  <2>1. CallInv(s, t) /\ SameRow(s, t)
    BY QuietRows DEF ClusterInv
  <2> QED
    BY <1>1, <2>1
       DEF CallInv, SameRow, Uncalled, Open, VotesCounted, CommitsAsDecided,
           KeepsPromise, Committing, NothingUndecided, PrepareAlone, GivenUp
<1> QED
  BY <1>2, <1>3, QuietKeeps

LEMMA CommitReturnedKeeps ==
  ASSUME ClusterInv, NEW t \in Txs, Returned(t, "commit"),
         UNCHANGED <<shardVars, crashed>>
  PROVE  ClusterInv'
<1>1. visited[t] \subseteq involved[t]
  BY DEF ClusterInv, HandlerInv
<1> QED
  BY <1>1, ReturnedMoves, CommitGoesOn DEF ClusterInv

LEMMA PassCommitKeeps ==
  ASSUME ClusterInv, NEW t \in Txs, NEW s \in Shards, Pass(t, s, "commit"),
         UNCHANGED <<shardVars, crashed>>
  PROVE  ClusterInv'
<1>1. visited[t] \subseteq involved[t]
  BY DEF ClusterInv, HandlerInv
<1> QED
  BY <1>1, PassMoves, CommitGoesOn DEF ClusterInv

LEMMA SendAbortKeeps ==
  ASSUME ClusterInv, NEW t \in Txs, NEW s \in Shards, SendAbort(t, s)
  PROVE  ClusterInv'
<1>1. /\ FreeStep(s, t)
      /\ Abort(s, t)
      /\ UNCHANGED crashed
      /\ OnlyTx(t)
      /\ phase[t] = "abort"
      /\ wait'[t] = s
      /\ s \in involved[t]
      /\ visited'[t] = visited[t] \cup {s}
      /\ UNCHANGED <<phase, involved, maxPrepare, commitTime, answer>>
  BY AbortAllowed, CallMoves DEF SendAbort, ClusterInv, counters
<1>2. HandlerInv(t) /\ CallInv(s, t) /\ TypeOK /\ commitTime[t] = 0
  BY <1>1 DEF ClusterInv, HandlerInv, ShardInv
<1>3. HandlerInv(t)'
  BY <1>1, <1>2 DEF HandlerInv
<1>4. ASSUME NEW s2 \in Shards, s2 # s, SameRow(s2, t)
      PROVE  CallInv(s2, t)'
  <2>1. CallInv(s2, t)
    BY DEF ClusterInv
  <2> QED
    BY <1>1, <1>2, <1>4, <2>1
       DEF CallInv, SameRow, Uncalled, Open, VotesCounted, CommitsAsDecided,
           Committing, NothingUndecided, PrepareAlone, GivenUp
<1>5. UNCHANGED <<store, pc, status>>
  BY <1>1, <1>2, AbortMoves
<1>6. CallInv(s, t)'
  BY <1>1, <1>2, <1>5
     DEF CallInv, Uncalled, VotesCounted, CommitsAsDecided, Committing,
         NothingUndecided, PrepareAlone, GivenUp
<1>7. WrittenAsDecided'
  BY <1>1, <1>2, <1>5, WrittenFrame DEF ClusterInv
<1> QED
  BY <1>1, <1>3, <1>4, <1>6, <1>7, CallKeeps

(* The loop of abortAll leaves a shard behind.                             *)
LEMMA AbortLoopKeeps ==
  ASSUME ClusterInv, NEW t \in Txs, OnlyTx(t), UNCHANGED <<shardVars, crashed>>,
         phase[t] = "abort", wait'[t] = None,
         visited[t] \subseteq visited'[t], visited'[t] \subseteq involved[t],
         UNCHANGED <<phase, involved, maxPrepare, commitTime, answer>>
  PROVE  ClusterInv'
<1>1. HandlerInv(t) /\ commitTime[t] = 0
  BY DEF ClusterInv, HandlerInv
<1>2. HandlerInv(t)'
  BY <1>1 DEF HandlerInv
<1>3. ASSUME NEW s2 \in Shards
      PROVE  CallInv(s2, t)'
  <2>1. CallInv(s2, t) /\ SameRow(s2, t)
    BY QuietRows DEF ClusterInv
  <2> QED
    BY <1>1, <2>1
       DEF CallInv, SameRow, Uncalled, Open, VotesCounted, CommitsAsDecided,
           Committing, NothingUndecided, PrepareAlone, GivenUp
<1> QED
  BY <1>2, <1>3, QuietKeeps

LEMMA AbortReturnedKeeps ==
  ASSUME ClusterInv, NEW t \in Txs,
         \/ Returned(t, "abort")
         \/ \E s \in Shards : Pass(t, s, "abort"),
         UNCHANGED <<shardVars, crashed>>
  PROVE  ClusterInv'
<1>1. visited[t] \subseteq involved[t]
  BY DEF ClusterInv, HandlerInv
<1> QED
  BY <1>1, ReturnedMoves, PassMoves, AbortLoopKeeps DEF ClusterInv

LEMMA ReplyKeeps ==
  ASSUME ClusterInv, NEW t \in Txs, Reply(t)
  PROVE  ClusterInv'
<1>1. /\ OnlyTx(t)
      /\ UNCHANGED <<shardVars, crashed>>
      /\ phase'[t] = "done"
      /\ \/ phase[t] = "commit" /\ answer'[t] = "committed"
         \/ phase[t] = "abort" /\ answer'[t] = "aborted"
      /\ wait[t] = None
      /\ UNCHANGED <<involved, visited, wait, maxPrepare, commitTime>>
  BY FinishMoves DEF Reply, ClusterInv, counters, Answers
<1>2. HandlerInv(t)
  BY DEF ClusterInv
<1>3. HandlerInv(t)'
  BY <1>1, <1>2 DEF HandlerInv
<1>4. ASSUME NEW s \in Shards
      PROVE  CallInv(s, t)'
  <2>1. CallInv(s, t) /\ SameRow(s, t)
    BY <1>1, QuietRows DEF ClusterInv
  <2> QED
    BY <1>1, <1>2, <2>1
       DEF CallInv, SameRow, Uncalled, Open, VotesCounted, CommitsAsDecided,
           KeepsPromise, Committing, NothingUndecided, PrepareAlone, GivenUp
<1> QED
  BY <1>1, <1>3, <1>4, QuietKeeps

LEMMA FailedCallKeeps ==
  ASSUME ClusterInv, NEW t \in Txs,
         PrepareFails(t) \/ CommitFails(t) \/ AbortFails(t)
  PROVE  ClusterInv'
<1>1. CASE PrepareFails(t)
  BY <1>1, AbortAllKeeps DEF PrepareFails
<1>2. CASE CommitFails(t)
  BY <1>2, CommitReturnedKeeps, PassCommitKeeps DEF CommitFails
<1>3. CASE AbortFails(t)
  BY <1>3, AbortReturnedKeeps DEF AbortFails
<1> QED
  BY <1>1, <1>2, <1>3

-----------------------------------------------------------------------------
(* What the routers do not see, the shards' handlers, and crashes.         *)

LEMMA UnseenKeeps ==
  ASSUME ClusterInv, NEW t \in Txs, OnlyTx(t), SameTx(t),
         UNCHANGED <<shardVars, crashed>>
  PROVE  ClusterInv'
<1>1. HandlerInv(t)'
  BY HandlerFrame DEF ClusterInv
<1>2. \A s \in Shards : CallInv(s, t)'
  BY QuietRows, CallFrame DEF ClusterInv
<1> QED
  BY <1>1, <1>2, QuietKeeps DEF SameTx

LEMMA FaultKeeps ==
  ASSUME ClusterInv, NEW t \in Txs, Fault(t)
  PROVE  ClusterInv'
<1>1. CASE EndContext(t)
  BY <1>1, ContextDoneMoves, UnseenKeeps DEF EndContext, ClusterInv
<1>2. ASSUME NEW k \in Keys, AskFails(t, k)
      PROVE  ClusterInv'
  BY <1>2, OperateMoves, UnseenKeeps DEF AskFails, ClusterInv
<1> QED
  BY <1>1, <1>2, EnlistKeeps, FailedCallKeeps DEF Fault

LEMMA PreparingKeeps ==
  ASSUME ClusterInv, NEW s \in Shards, NEW t \in Txs, ShardStep(s, t),
         Preparing(s, t), ~AbortGoesOn(s, t)
  PROVE  CallInv(s, t)' /\ WrittenAsDecided'
<1>1. /\ CallInv(s, t) /\ HandlerInv(t) /\ TypeOK
      /\ UNCHANGED <<routerVars, crashed>>
      /\ Handler(s, t)
  BY DEF ClusterInv, ShardInv, ShardStep, counters
<1>2. /\ pc[s][t] # "idle" /\ ~Committing(s, t)
      /\ ~Uncalled(s, t)
  BY <1>1 DEF Preparing, Committing, CallInv, Open
<1>3. commitTime[t] = 0 /\ (phase[t] = "prepare" => s = wait[t])
  BY <1>1, <1>2 DEF CallInv, CommitsAsDecided, Uncalled, VotesCounted
<1>4. WrittenAsDecided'
  BY <1>1, PreparingMoves, WrittenFrame DEF ClusterInv, routerVars
<1>5. /\ UNCHANGED dropping
      /\ \/ /\ Preparing(s, t)' \/ pc'[s][t] = "abortRelease"
            /\ UNCHANGED <<status, reply>>
         \/ /\ pc'[s][t] = "idle"
            /\ status'[s][t] = "prepared" /\ reply'[s][t] = "commit"
  BY <1>1, PreparingMoves
<1>6. status'[s][t] \in {"running", "aborted", "prepared"}
  BY <1>1, <1>2, <1>5 DEF CallInv, PrepareAlone, Preparing
<1>7. PrepareAlone(s, t)' /\ GivenUp(s, t)'
  BY <1>1, <1>2, <1>5 DEF CallInv, PrepareAlone, GivenUp, Preparing, routerVars
<1>8. /\ ~Uncalled(s, t)'
      /\ VotesCounted(s, t)'
      /\ CommitsAsDecided(s, t)'
      /\ NothingUndecided(s, t)'
  BY <1>1, <1>2, <1>3, <1>5, <1>6
     DEF Uncalled, VotesCounted, CommitsAsDecided, NothingUndecided,
         Preparing, Committing, routerVars
<1> QED
  BY <1>4, <1>7, <1>8 DEF CallInv

LEMMA PrepareAbortsKeeps ==
  ASSUME ClusterInv, NEW s \in Shards, NEW t \in Txs, ShardStep(s, t),
         PrepareAborts(s, t)
  PROVE  CallInv(s, t)' /\ WrittenAsDecided'
<1>1. /\ CallInv(s, t) /\ HandlerInv(t) /\ TypeOK
      /\ UNCHANGED <<routerVars, crashed>>
  BY DEF ClusterInv, ShardInv, ShardStep, counters
<1>2. /\ UNCHANGED <<store, dropping>>
      /\ pc[s][t] \in Cleanups
      /\ \/ pc'[s][t] \in Cleanups
         \/ pc'[s][t] = "idle" /\ reply'[s][t] # "commit"
      /\ status'[s][t] \in {status[s][t], "aborted"}
  BY <1>1, PrepareAbortsMoves, CleanupMoves
<1>3. /\ pc[s][t] # "idle" /\ ~Committing(s, t) /\ ~Committing(s, t)'
      /\ ~Preparing(s, t)'
      /\ ~Uncalled(s, t)
  BY <1>1, <1>2 DEF Preparing, Committing, CallInv, Open, Cleanups
<1>4. commitTime[t] = 0 /\ (phase[t] = "prepare" => s = wait[t])
  BY <1>1, <1>3 DEF CallInv, CommitsAsDecided, Uncalled, VotesCounted
<1>5. WrittenAsDecided'
  BY <1>1, <1>2, WrittenFrame DEF ClusterInv, routerVars
<1>6. CallInv(s, t)'
  BY <1>1, <1>2, <1>3, <1>4
     DEF CallInv, Uncalled, VotesCounted, CommitsAsDecided, NothingUndecided,
         PrepareAlone, GivenUp, Preparing, Cleanups, routerVars
<1> QED
  BY <1>5, <1>6

LEMMA AbortGoesOnKeeps ==
  ASSUME ClusterInv, NEW s \in Shards, NEW t \in Txs, ShardStep(s, t),
         AbortGoesOn(s, t)
  PROVE  CallInv(s, t)' /\ WrittenAsDecided'
<1>1. /\ CallInv(s, t) /\ TypeOK
      /\ UNCHANGED <<routerVars, crashed>>
  BY DEF ClusterInv, ShardInv, ShardStep, counters
<1>2. /\ UNCHANGED <<store, pc>>
      /\ dropping[s][t] # "idle"
      /\ status'[s][t] \in {status[s][t], "aborted"}
  BY <1>1, AbortAtMoves, CleanupMoves DEF AbortGoesOn, Cleanups
<1>3. commitTime[t] = 0 /\ phase[t] \in {"abort", "done", "gone"} /\ ~Uncalled(s, t)
  BY <1>1, <1>2 DEF CallInv, GivenUp, Open
<1>4. WrittenAsDecided'
  BY <1>1, <1>2, WrittenFrame DEF ClusterInv, routerVars
<1>5. CallInv(s, t)'
  BY <1>1, <1>2, <1>3
     DEF CallInv, Uncalled, VotesCounted, CommitsAsDecided, NothingUndecided,
         PrepareAlone, GivenUp, Committing, routerVars
<1> QED
  BY <1>4, <1>5

LEMMA CommittingKeeps ==
  ASSUME ClusterInv, NEW s \in Shards, NEW t \in Txs, ShardStep(s, t),
         Committing(s, t)
  PROVE  CallInv(s, t)' /\ WrittenAsDecided'
<1>1. /\ CallInv(s, t) /\ HandlerInv(t) /\ TypeOK
      /\ UNCHANGED <<routerVars, crashed>>
      /\ Handler(s, t)
      /\ RowInv(s, t)
  BY DEF ClusterInv, ShardInv, ShardStep, counters
<1>2. /\ pc[s][t] # "idle" /\ status[s][t] = "prepared"
      /\ ~Uncalled(s, t)
      /\ commitTime[t] # 0
      /\ ctime[s][t] = commitTime[t]
      /\ s \in involved[t]
      /\ phase[t] = "commit" => s \in visited[t]
  <2>1. pc[s][t] # "idle" /\ status[s][t] = "prepared"
    BY <1>1 DEF RowInv, CommitIsVoted, Committing
  <2>2. ~Uncalled(s, t) /\ commitTime[t] # 0
    BY <1>1, <2>1 DEF CallInv, Open, NothingUndecided
  <2> QED
    BY <1>1, <2>1, <2>2 DEF CallInv, CommitsAsDecided, Uncalled
<1>3. /\ UNCHANGED <<ptime, ctime, dropping>>
      /\ \/ Committing(s, t)' /\ UNCHANGED status
         \/ pc'[s][t] = "idle" /\ status'[s][t] = "committed"
  BY <1>1, <1>2, CommittingMoves DEF RowInv, Committing
<1>4. CallInv(s, t)'
  BY <1>1, <1>2, <1>3
     DEF CallInv, Uncalled, VotesCounted, CommitsAsDecided, NothingUndecided,
         PrepareAlone, GivenUp, Committing, KeepsPromise, HandlerInv, routerVars
<1>5. WrittenAsDecided'
  <2>1. CASE UNCHANGED store
    BY <1>1, <2>1, WrittenFrame DEF ClusterInv, routerVars
  <2>2. ASSUME NEW k \in KeysOf(s), CommitPut(s, t, k)
        PROVE  WrittenAsDecided'
    <3>1. \A k2 \in Keys : \A v \in store'[k2] :
            \/ v \in store[k2]
            \/ k2 = k /\ v.tx = t /\ v.version = ctime[s][t]
      BY <1>1, <2>2 DEF CommitPut, KeysOf, TypeOK
    <3> QED
      BY <1>1, <1>2, <3>1 DEF ClusterInv, WrittenAsDecided, KeysOf, routerVars
  <2> QED
    BY <1>1, <1>2, <2>1, <2>2, CommittingMoves DEF RowInv
<1> QED
  BY <1>4, <1>5

LEMMA ShardStepKeeps ==
  ASSUME ClusterInv, NEW s \in Shards, NEW t \in Txs, ShardStep(s, t)
  PROVE  ClusterInv'
<1>1. /\ TypeOK
      /\ UNCHANGED <<routerVars, crashed>>
      /\ FreeStep(s, t)
      /\ \/ Preparing(s, t) \/ Committing(s, t)
         \/ PrepareAborts(s, t) \/ AbortGoesOn(s, t)
  BY HandlerRuns DEF ClusterInv, ShardInv, ShardStep, counters, FreeStep
<1>2. OnlyTx(t) /\ SameTx(t)
  BY <1>1 DEF OnlyTx, SameTx, ClusterInv, RouterTypeOK, routerVars
<1>3. HandlerInv(t)'
  BY <1>2, HandlerFrame DEF ClusterInv
<1>4. ASSUME NEW s2 \in Shards, SameRow(s2, t)
      PROVE  CallInv(s2, t)'
  BY <1>1, <1>2, <1>4, CallFrame DEF ClusterInv
<1> QED
  BY <1>1, <1>2, <1>3, <1>4, PreparingKeeps, CommittingKeeps, PrepareAbortsKeeps,
     AbortGoesOnKeeps, CallKeeps

LEMMA ShardCrashKeeps ==
  ASSUME ClusterInv, NEW s \in Shards, Crash(s), UNCHANGED routerVars, crashed'
  PROVE  ClusterInv'
<1>1. TypeOK
  BY DEF ClusterInv, ShardInv
<1>2. ShardInv'
  BY ShardInvStep DEF ClusterInv, FreeNext
<1>3. \A t \in Txs : SameTx(t)
  BY DEF SameTx, routerVars
<1>4. \A t \in Txs : HandlerInv(t)'
  BY <1>3, HandlerFrame DEF ClusterInv
<1>5. ASSUME NEW s2 \in Shards, NEW t \in Txs
      PROVE  CallInv(s2, t)'
  <2>1. CallInv(s2, t)
    BY DEF ClusterInv
  <2>2. CASE s2 # s
    BY <1>1, <1>3, <2>1, <2>2, CrashOthers, CallFrame
  <2>3. CASE s2 = s
    <3>1. /\ Open(s, t)'
          /\ KeepsPromise(s, t)'
          /\ ptime'[s][t] = 0
          /\ reply'[s][t] = "error"
      BY <1>1, CrashMoves DEF Open, KeepsPromise
    <3>2. commitTime[t] \in Nat /\ maxPrepare[t] \in Nat
      BY DEF ClusterInv, RouterTypeOK
    <3> QED
      BY <2>1, <2>3, <3>1, <3>2
         DEF CallInv, Open, VotesCounted, CommitsAsDecided, NothingUndecided,
             PrepareAlone, GivenUp, Committing, routerVars
  <2> QED
    BY <2>2, <2>3
<1>6. WrittenAsDecided'
  <2>1. \A k \in Keys : store'[k] \subseteq store[k]
    BY <1>1 DEF Crash, TypeOK
  <2> QED
    BY <2>1 DEF ClusterInv, WrittenAsDecided, routerVars
<1> QED
  BY <1>2, <1>4, <1>5, <1>6 DEF ClusterInv, RouterTypeOK, routerVars

LEMMA RouterCrashKeeps ==
  ASSUME ClusterInv, NEW r \in Routers, RouterCrash(r), UNCHANGED shardVars,
         crashed'
  PROVE  ClusterInv'
<1>1. /\ RouterTypeOK'
      /\ \A t \in Txs :
           \/ SameTx(t)
           \/ /\ phase[t] \notin {"new", "done"} /\ phase'[t] = "gone"
              /\ wait'[t] = None
      /\ UNCHANGED <<involved, visited, maxPrepare, commitTime, answer>>
  BY RouterCrashMoves DEF ClusterInv
<1>2. ShardInv'
  BY Stutter DEF ClusterInv
<1>3. ASSUME NEW t \in Txs
      PROVE  HandlerInv(t)'
  <2>1. HandlerInv(t)
    BY DEF ClusterInv
  <2>2. CASE SameTx(t)
    BY <2>1, <2>2, HandlerFrame
  <2>3. CASE /\ phase[t] \notin {"new", "done"} /\ phase'[t] = "gone"
             /\ wait'[t] = None
    BY <1>1, <2>1, <2>3 DEF HandlerInv
  <2> QED
    BY <1>1, <2>2, <2>3
<1>4. ASSUME NEW s \in Shards, NEW t \in Txs
      PROVE  CallInv(s, t)'
  <2>1. CallInv(s, t) /\ SameRow(s, t)
    BY QuietRows DEF ClusterInv
  <2>2. CASE SameTx(t)
    BY <2>1, <2>2, CallFrame
  <2>3. CASE phase[t] \notin {"new", "done"} /\ phase'[t] = "gone"
    BY <1>1, <2>1, <2>3
       DEF CallInv, SameRow, Uncalled, Open, VotesCounted, CommitsAsDecided,
           KeepsPromise, Committing, NothingUndecided, PrepareAlone, GivenUp
  <2> QED
    BY <1>1, <2>2, <2>3
<1>5. WrittenAsDecided'
  BY <1>1 DEF ClusterInv, WrittenAsDecided, shardVars
<1> QED
  BY <1>1, <1>2, <1>3, <1>4, <1>5 DEF ClusterInv

-----------------------------------------------------------------------------
(* The invariant.                                                          *)

LEMMA InitCluster ==
  ASSUME Init
  PROVE  ClusterInv
<1>1. ShardInv
  BY InvInit DEF Init
<1>2. RouterTypeOK
  BY DEF Init, RouterInit, RouterTypeOK, Phases, Answers
<1>3. \A t \in Txs : HandlerInv(t)
  BY DEF Init, RouterInit, HandlerInv
<1>4. \A s \in Shards, t \in Txs : CallInv(s, t)
  BY DEF Init, RouterInit, ShardInit, CallInv, Open, VotesCounted,
         CommitsAsDecided, NothingUndecided, PrepareAlone, GivenUp, Committing
<1>5. WrittenAsDecided
  BY DEF Init, ShardInit, WrittenAsDecided
<1> QED
  BY <1>1, <1>2, <1>3, <1>4, <1>5 DEF ClusterInv, Init

LEMMA ClientStepKeeps ==
  ASSUME ClusterInv, NEW t \in Txs, ClientStep(t)
  PROVE  ClusterInv'
BY BeginKeeps, EnlistKeeps, AskKeeps, RequestKeeps DEF ClientStep

LEMMA RouterStepKeeps ==
  ASSUME ClusterInv, NEW t \in Txs, RouterStep(t)
  PROVE  ClusterInv'
<1>1. ASSUME NEW s \in Shards, ReceiveCommitted(t, s)
      PROVE  ClusterInv'
  BY <1>1, CommitReturnedKeeps DEF ReceiveCommitted, counters
<1>2. ASSUME NEW s \in Shards, ReceiveAborted(t, s)
      PROVE  ClusterInv'
  BY <1>2, AbortReturnedKeeps DEF ReceiveAborted, counters
<1> QED
  BY <1>1, <1>2, SendPrepareKeeps, ReceiveVoteKeeps, SendCommitKeeps, SendAbortKeeps,
     DecideKeeps, ReplyKeeps, FailedCallKeeps DEF RouterStep

LEMMA CrashKeeps ==
  ASSUME ClusterInv, CrashStep
  PROVE  ClusterInv'
BY ShardCrashKeeps, RouterCrashKeeps DEF CrashStep

LEMMA UnchangedKeeps ==
  ASSUME ClusterInv, UNCHANGED vars
  PROVE  ClusterInv'
<1>1. \A t \in Txs : SameTx(t)
  BY DEF SameTx, vars, routerVars
<1>2. RouterTypeOK'
  BY DEF ClusterInv, RouterTypeOK, vars, routerVars
<1>3. ShardInv'
  BY Stutter DEF ClusterInv, vars
<1>4. \A t \in Txs : HandlerInv(t)'
  BY <1>1, HandlerFrame DEF ClusterInv
<1>5. \A s \in Shards, t \in Txs : CallInv(s, t)'
  BY <1>1, QuietRows, CallFrame DEF ClusterInv, vars, counters
<1>6. WrittenAsDecided'
  BY <1>1, WrittenFrame DEF ClusterInv, ShardInv, SameTx, vars, shardVars
<1> QED
  BY <1>2, <1>3, <1>4, <1>5, <1>6 DEF ClusterInv, vars, counters

LEMMA ClusterStep ==
  ASSUME ClusterInv, [Next]_vars
  PROVE  ClusterInv'
BY ClientStepKeeps, RouterStepKeeps, FaultKeeps, ShardStepKeeps, CrashKeeps,
   UnchangedKeeps DEF Next

(* What the routers (mulberry.go) and the shards (shard.go) rely on of each *)
(* other throughout two-phase commit, whatever calls are lost and whatever  *)
(* crashes.                                                                 *)
THEOREM ClusterInvariant == Spec => []ClusterInv
<1>1. Init => ClusterInv
  BY InitCluster
<1>2. ClusterInv /\ [Next]_vars => ClusterInv'
  BY ClusterStep
<1> QED
  BY <1>1, <1>2, PTL DEF Spec

(* The types of the routers' state.                                        *)
THEOREM RouterTypes == Spec => []RouterTypeOK
<1>1. ClusterInv => RouterTypeOK
  BY DEF ClusterInv
<1> QED
  BY <1>1, ClusterInvariant, PTL

(* mulberry.go Commit: a version of a transaction exists only when every   *)
(* shard it involves had voted to commit it, and none has aborted it.      *)
THEOREM Atomicity == Spec => []AtomicOutcome
<1>1. ClusterInv => AtomicOutcome
  <2>1. SUFFICES ASSUME ClusterInv, ~crashed, NEW t \in Txs, NEW k \in Keys,
                        NEW v \in store[k], v.tx = t, NEW s \in involved[t]
                 PROVE  status[s][t] \in {"prepared", "committed"}
    BY DEF AtomicOutcome, Applied
  <2>2. commitTime[t] # 0
    BY <2>1 DEF ClusterInv, WrittenAsDecided
  <2>3. s \in Shards
    BY <2>1 DEF ClusterInv, RouterTypeOK
  <2> QED
    BY <2>1, <2>2, <2>3 DEF ClusterInv, CallInv, CommitsAsDecided, KeepsPromise
<1> QED
  BY <1>1, ClusterInvariant, PTL

(* mulberry.go Commit, Abort: what a client was told is aborted is not     *)
(* applied anywhere, and will not be.                                      *)
THEOREM AbortsAreFinal == Spec => []AbortedLeavesNothing
<1>1. ClusterInv => AbortedLeavesNothing
  <2>1. SUFFICES ASSUME ClusterInv, NEW t \in Txs, answer[t] = "aborted"
                 PROVE  Applied(t) = {} /\ \A s \in Shards : ~Committing(s, t)
    BY DEF AbortedLeavesNothing
  <2>2. commitTime[t] = 0
    BY <2>1 DEF ClusterInv, HandlerInv
  <2>3. Applied(t) = {}
    BY <2>1, <2>2 DEF ClusterInv, WrittenAsDecided, Applied
  <2> QED
    BY <2>1, <2>2, <2>3 DEF ClusterInv, CallInv, NothingUndecided
<1> QED
  BY <1>1, ClusterInvariant, PTL

-----------------------------------------------------------------------------
(* What the shards of a cluster do is what ShardSpec lets them do.         *)

LEMMA CallsAllowed ==
  ASSUME ClusterInv, [Next]_vars
  PROVE  [FreeNext]_shardVars
<1>1. ASSUME NEW s \in Shards, NEW t \in Txs, FreeStep(s, t)
      PROVE  [FreeNext]_shardVars
  BY <1>1 DEF FreeNext
<1>2. ASSUME NEW t \in Txs, ClientStep(t)
      PROVE  [FreeNext]_shardVars
  <2>1. CASE TxBegin(t)
    BY <2>1 DEF TxBegin
  <2>2. ASSUME NEW k \in Keys, Enlist(t, k)
        PROVE  [FreeNext]_shardVars
    BY <1>1, <2>2, StartAllowed DEF Enlist, Involve
  <2>3. ASSUME NEW k \in Keys, Read(t, k) \/ Write(t, k) \/ Delete(t, k)
        PROVE  [FreeNext]_shardVars
    <3>1. phase[t] = "active"
      BY <2>3 DEF Read, Write, Delete, Ask, Operate
    <3> QED
      BY <1>1, <2>3, <3>1, AskAllowed
  <2> QED
    BY <1>2, <2>1, <2>2, <2>3 DEF ClientStep
<1>3. ASSUME NEW t \in Txs, RouterStep(t)
      PROVE  [FreeNext]_shardVars
  <2>1. ASSUME NEW s \in Shards,
               SendPrepare(t, s) \/ SendCommit(t, s) \/ SendAbort(t, s)
        PROVE  [FreeNext]_shardVars
    BY <1>1, <2>1, PrepareAllowed, CommitAllowed, AbortAllowed
  <2> QED
    BY <1>3, <2>1
       DEF RouterStep, ReceiveVote, ReceiveCommitted, ReceiveAborted,
           DecideCommit, Reply, PrepareFails, CommitFails, AbortFails
<1>4. ASSUME NEW t \in Txs, Fault(t)
      PROVE  [FreeNext]_shardVars
  <2>1. ASSUME NEW k \in Keys, EnlistUnknown(t, k)
        PROVE  [FreeNext]_shardVars
    BY <1>1, <2>1, StartAllowed DEF EnlistUnknown
  <2> QED
    BY <1>4, <2>1
       DEF Fault, EndContext, AskFails, PrepareFails, CommitFails, AbortFails
<1>5. ASSUME NEW s \in Shards, NEW t \in Txs, ShardStep(s, t)
      PROVE  [FreeNext]_shardVars
  BY <1>1, <1>5 DEF ShardStep, FreeStep
<1>6. CrashStep => [FreeNext]_shardVars
  BY DEF CrashStep, FreeNext
<1> QED
  BY <1>2, <1>3, <1>4, <1>5, <1>6 DEF Next, vars

(* The routers (mulberry.go) keep the protocol that module Shard assumes   *)
(* of its callers.  Times and Leads bound the calls of ShardSpec for the   *)
(* model checker and occur in no action of Spec, so they bound nothing     *)
(* here.                                                                   *)
THEOREM RoutersKeepProtocol ==
  ASSUME Times = Nat, Leads = Nat
  PROVE  Spec => ImplementsShard
<1>1. Init => ShardInit
  BY DEF Init
<1>2. ClusterInv /\ [Next]_vars => [ShardNext]_shardVars
  BY CallsAllowed, FreeIsShardNext DEF ClusterInv, ShardInv
<1> QED
  BY <1>1, <1>2, ClusterInvariant, PTL DEF Spec, ImplementsShard, ShardSpec

(* shard.go Commit: a version is added after all the versions of its key.  *)
THEOREM VersionsAscend == Spec => VersionsInOrder
<1>1. ClusterInv /\ [Next]_vars =>
        [\A k \in Keys : \A v \in store'[k] \ store[k] : \A w \in store[k] :
           w.version < v.version]_vars
  BY CallsAllowed, NewVersionsOnTop DEF ClusterInv
<1> QED
  BY <1>1, ClusterInvariant, PTL DEF Spec, VersionsInOrder

-----------------------------------------------------------------------------
(* A cluster implements AtomicCommit.  First, how its steps are recognized *)
(* by what they do to the decisions and the standings.                     *)

SameDecisions == \A t \in Txs : Decision(t)' = Decision(t)

SameStandings == \A s \in Shards, t \in Txs : Standing(s, t)' = Standing(s, t)

OnlyStanding(s, t) ==
  \A s2 \in Shards, u \in Txs :
    s2 # s \/ u # t => Standing(s2, u)' = Standing(s2, u)

CommitmentStep == [Commitment!Next]_(Commitment!vars)

LEMMA Stutters ==
  ASSUME SameDecisions, SameStandings, UNCHANGED <<involved, answer, crashed>>
  PROVE  CommitmentStep
BY DEF SameDecisions, SameStandings, CommitmentStep, Commitment!vars

LEMMA Stands ==
  ASSUME NEW s \in Shards, NEW t \in Txs, NEW what, Standing(s, t)' = what,
         SameDecisions, OnlyStanding(s, t), UNCHANGED <<involved, answer, crashed>>
  PROVE  Commitment!Stand(s, t, what)
<1> DEFINE before == [s2 \in Shards |-> [u \in Txs |-> Standing(s2, u)]]
           after == [s2 \in Shards |-> [u \in Txs |-> Standing(s2, u)']]
<1>1. [u \in Txs |-> Decision(u)'] = [u \in Txs |-> Decision(u)]
  BY DEF SameDecisions
<1>2. after = [before EXCEPT ![s][t] = what]
  BY DEF OnlyStanding
<1> QED
  BY <1>1, <1>2 DEF Commitment!Stand

LEMMA Decides ==
  ASSUME NEW t \in Txs, NEW d \in {"commit", "abort"},
         Decision(t) = "open", Decision(t)' = d,
         \A u \in Txs : u # t => Decision(u)' = Decision(u),
         SameStandings, UNCHANGED <<involved, answer, crashed>>,
         d = "commit" => \A s \in involved[t] :
                           /\ s \in Shards
                           /\ \/ Standing(s, t) = "promised"
                              \/ crashed /\ Standing(s, t) = "working"
  PROVE  CommitmentStep
<1>1. [u \in Txs |-> Decision(u)'] = [[u \in Txs |-> Decision(u)] EXCEPT ![t] = d]
  OBVIOUS
<1>2. [s \in Shards |-> [u \in Txs |-> Standing(s, u)']]
        = [s \in Shards |-> [u \in Txs |-> Standing(s, u)]]
  BY DEF SameStandings
<1>3. Commitment!Decide(t, d)
  BY <1>1, <1>2 DEF Commitment!Decide
<1> QED
  BY <1>3 DEF CommitmentStep, Commitment!Next

Stored(s, t) == \E k \in Applied(t) : Home[k] = s

LEMMA StandingCases ==
  ASSUME NEW s \in Shards, NEW t \in Txs
  PROVE  /\ status[s][t] = "committed" \/ Stored(s, t) => Standing(s, t) = "installed"
         /\ ~Stored(s, t) =>
              /\ status[s][t] = "prepared" => Standing(s, t) = "promised"
              /\ status[s][t] = "aborted" => Standing(s, t) = "dropped"
              /\ status[s][t] \in {"none", "running"} => Standing(s, t) = "working"
BY DEF Standing, Stored

LEMMA SameStanding ==
  ASSUME NEW s \in Shards, NEW t \in Txs, status'[s][t] = status[s][t],
         Stored(s, t)' = Stored(s, t)
  PROVE  Standing(s, t)' = Standing(s, t)
BY DEF Standing, Stored

LEMMA SameStored ==
  ASSUME UNCHANGED store
  PROVE  \A s, t : Stored(s, t)' = Stored(s, t)
BY DEF Stored, Applied

LEMMA UndecidedNotStored ==
  ASSUME ClusterInv, NEW s \in Shards, NEW t \in Txs, commitTime[t] = 0
  PROVE  ~Stored(s, t)
BY DEF ClusterInv, WrittenAsDecided, Stored, Applied

LEMMA SameTxDecision ==
  ASSUME NEW t \in Txs, SameTx(t)
  PROVE  Decision(t)' = Decision(t)
BY DEF SameTx, Decision

LEMMA QuietStandings ==
  ASSUME UNCHANGED shardVars
  PROVE  SameStandings
BY SameStored, SameStanding DEF SameStandings, shardVars

(* A step of transaction t at shard s changes no other standing.           *)
LEMMA OtherStandings ==
  ASSUME ClusterInv, NEW s \in Shards, NEW t \in Txs, FreeStep(s, t)
  PROVE  OnlyStanding(s, t)
<1>1. SUFFICES ASSUME NEW s2 \in Shards, NEW u \in Txs, s2 # s \/ u # t
               PROVE  Standing(s2, u)' = Standing(s2, u)
  BY DEF OnlyStanding
<1>2. status'[s2][u] = status[s2][u]
  BY <1>1, StepOthers DEF ClusterInv, ShardInv, SameRow
<1>3. Stored(s2, u)' = Stored(s2, u)
  <2>1. CASE UNCHANGED store
    BY <2>1, SameStored
  <2>2. ASSUME NEW k \in KeysOf(s), CommitPut(s, t, k)
        PROVE  Stored(s2, u)' = Stored(s2, u)
    <3>1. \A k2 \in Keys :
            /\ store[k2] \subseteq store'[k2]
            /\ \A v \in store'[k2] :
                 v \in store[k2] \/ (Home[k2] = s /\ v.tx = t)
      BY <2>2 DEF CommitPut, KeysOf, ClusterInv, ShardInv, TypeOK
    <3> QED
      BY <1>1, <3>1 DEF Stored, Applied
  <2> QED
    BY <2>1, <2>2, OnlyPutsStore
<1> QED
  BY <1>2, <1>3, SameStanding

LEMMA AllStandings ==
  ASSUME NEW s \in Shards, NEW t \in Txs, OnlyStanding(s, t),
         Standing(s, t)' = Standing(s, t)
  PROVE  SameStandings
BY DEF OnlyStanding, SameStandings

-----------------------------------------------------------------------------
(* The steps of the client, the router and the shards.                     *)

LEMMA OnlyTxDecision ==
  ASSUME NEW t \in Txs, OnlyTx(t)
  PROVE  \A u \in Txs : u # t => Decision(u)' = Decision(u)
BY SameTxDecision DEF OnlyTx

LEMMA KeepsDecisions ==
  ASSUME NEW t \in Txs, OnlyTx(t), Decision(t)' = Decision(t)
  PROVE  SameDecisions
BY OnlyTxDecision DEF SameDecisions

(* A call that shard s answers without a change to the status of t.        *)
LEMMA QuietCall ==
  ASSUME ClusterInv, NEW s \in Shards, NEW t \in Txs, FreeStep(s, t),
         status'[s][t] = status[s][t], UNCHANGED store
  PROVE  SameStandings
BY OtherStandings, SameStored, SameStanding, AllStandings

LEMMA StartCommits ==
  ASSUME ClusterInv, NEW t \in Txs, NEW k \in Keys,
         Enlist(t, k) \/ EnlistUnknown(t, k)
  PROVE  CommitmentStep
<1>1. /\ TxStart(Home[k], t)
      /\ phase[t] = "active"
      /\ UNCHANGED <<answer, crashed>>
  BY DEF Enlist, EnlistUnknown, Involve, counters, routerVars
<1>2. SameStandings
  BY <1>1, StartAllowed, QuietCall DEF TxStart
<1>3. CASE Enlist(t, k)
  <2>1. OnlyTx(t) /\ UNCHANGED <<phase, commitTime>>
    BY <1>3, InvolveMoves DEF Enlist, ClusterInv
  <2>2. SameDecisions
    BY <2>1, KeepsDecisions DEF Decision
  <2>3. Decision(t) = "open"
    BY <1>1, EarlyRows DEF Decision
  <2>4. involved' = [involved EXCEPT ![t] = @ \cup {Home[k]}]
    BY <1>3 DEF Enlist, Involve
  <2>5. /\ [u \in Txs |-> Decision(u)'] = [u \in Txs |-> Decision(u)]
        /\ [s \in Shards |-> [u \in Txs |-> Standing(s, u)']]
             = [s \in Shards |-> [u \in Txs |-> Standing(s, u)]]
    BY <1>2, <2>2 DEF SameDecisions, SameStandings
  <2>6. Commitment!Enlist(t, Home[k])
    BY <1>1, <2>3, <2>4, <2>5 DEF Commitment!Enlist
  <2> QED
    BY <2>6 DEF CommitmentStep, Commitment!Next
<1>4. CASE EnlistUnknown(t, k)
  <2>1. UNCHANGED routerVars
    BY <1>4 DEF EnlistUnknown
  <2>2. SameDecisions
    BY <2>1 DEF SameDecisions, Decision, routerVars
  <2> QED
    BY <1>1, <1>2, <2>1, <2>2, Stutters DEF routerVars
<1> QED
  BY <1>3, <1>4

LEMMA ClientCommits ==
  ASSUME ClusterInv, NEW t \in Txs, ClientStep(t)
  PROVE  CommitmentStep
<1>1. CASE TxBegin(t)
  <2>1. /\ OnlyTx(t)
        /\ phase[t] = "new" /\ phase'[t] = "active"
        /\ UNCHANGED <<involved, commitTime, answer, shardVars, crashed>>
    BY <1>1, BeginMoves DEF TxBegin, ClusterInv, counters
  <2>2. SameDecisions
    BY <2>1, KeepsDecisions DEF Decision
  <2> QED
    BY <2>1, <2>2, QuietStandings, Stutters
<1>2. ASSUME NEW k \in Keys, Enlist(t, k)
      PROVE  CommitmentStep
  BY <1>2, StartCommits
<1>3. ASSUME NEW k \in Keys, Read(t, k) \/ Write(t, k) \/ Delete(t, k)
      PROVE  CommitmentStep
  <2>1. /\ \/ TxRead(Home[k], t, k, snap[t])
           \/ TxWrite(Home[k], t, k)
           \/ TxDelete(Home[k], t, k)
        /\ Operate(t, k)
        /\ UNCHANGED <<involved, answer, crashed>>
    BY <1>3 DEF Read, Write, Delete, Ask, Operate
  <2>2. OnlyTx(t) /\ SameTx(t) /\ phase[t] = "active"
    BY <2>1, OperateMoves DEF ClusterInv
  <2>3. SameDecisions
    BY <2>2, SameTxDecision, KeepsDecisions
  <2>4. SameStandings
    BY <1>3, <2>1, <2>2, AskAllowed, QuietCall
       DEF TxRead, TxWrite, TxDelete, BufferWrite
  <2> QED
    BY <2>1, <2>3, <2>4, Stutters
<1>4. CASE (CommitRequest(t) \/ AbortRequest(t)) /\ UNCHANGED <<shardVars, counters, prior>>
  <2>1. /\ OnlyTx(t)
        /\ phase[t] = "active" /\ phase'[t] \in {"prepare", "abort"}
        /\ UNCHANGED <<involved, commitTime, answer, crashed>>
    BY <1>4, RequestMoves DEF CommitRequest, AbortRequest, ClusterInv, counters
  <2>2. Decision(t) = "open" /\ Decision(t)' \in {"open", "abort"}
    BY <2>1, EarlyRows DEF Decision
  <2>3. SameStandings
    BY <1>4, QuietStandings
  <2>4. CASE Decision(t)' = "open"
    BY <2>1, <2>2, <2>3, <2>4, KeepsDecisions, Stutters
  <2>5. CASE Decision(t)' = "abort"
    BY <2>1, <2>2, <2>3, <2>5, OnlyTxDecision, Decides
  <2> QED
    BY <2>2, <2>4, <2>5
<1> QED
  BY <1>1, <1>2, <1>3, <1>4 DEF ClientStep

(* The router gives t up.                                                  *)
LEMMA AbortAllCommits ==
  ASSUME ClusterInv, NEW t \in Txs, AbortAll(t), UNCHANGED <<shardVars, crashed>>
  PROVE  CommitmentStep
<1>1. /\ OnlyTx(t)
      /\ phase[t] = "prepare" /\ phase'[t] = "abort"
      /\ UNCHANGED <<involved, commitTime, answer>>
  BY AbortAllMoves DEF ClusterInv
<1>2. Decision(t) = "open" /\ Decision(t)' = "abort"
  BY <1>1 DEF Decision, ClusterInv, HandlerInv
<1> QED
  BY <1>1, <1>2, QuietStandings, OnlyTxDecision, Decides

(* Every involved shard stands by its promise.                             *)
LEMMA DecideCommits ==
  ASSUME ClusterInv, NEW t \in Txs, DecideCommit(t)
  PROVE  CommitmentStep
<1>1. /\ OnlyTx(t)
      /\ UNCHANGED <<shardVars, crashed, involved, answer>>
      /\ phase[t] = "prepare"
      /\ wait[t] = None
      /\ visited[t] = involved[t]
      /\ commitTime'[t] \in Nat /\ maxPrepare[t] \in Nat
      /\ commitTime'[t] > maxPrepare[t]
  BY DecideMoves DEF DecideCommit, ClusterInv, RouterTypeOK, counters
<1>2. commitTime[t] = 0 /\ commitTime'[t] # 0
  BY <1>1 DEF ClusterInv, HandlerInv
<1>3. Decision(t) = "open" /\ Decision(t)' = "commit"
  BY <1>1, <1>2 DEF Decision
<1>4. ASSUME NEW s \in involved[t]
      PROVE  /\ s \in Shards
             /\ \/ Standing(s, t) = "promised"
                \/ crashed /\ Standing(s, t) = "working"
  <2>1. s \in Shards
    BY DEF ClusterInv, RouterTypeOK
  <2>2. KeepsPromise(s, t)
    BY <1>1, <2>1 DEF ClusterInv, CallInv, VotesCounted
  <2> QED
    BY <1>2, <2>1, <2>2, UndecidedNotStored, StandingCases DEF KeepsPromise
<1> QED
  BY <1>1, <1>3, <1>4, QuietStandings, OnlyTxDecision, Decides

LEMMA ReplyCommits ==
  ASSUME ClusterInv, NEW t \in Txs, Reply(t)
  PROVE  CommitmentStep
<1>1. /\ OnlyTx(t)
      /\ UNCHANGED <<shardVars, crashed, involved, commitTime>>
      /\ phase'[t] = "done"
      /\ \/ phase[t] = "commit" /\ answer' = [answer EXCEPT ![t] = "committed"]
         \/ phase[t] = "abort" /\ answer' = [answer EXCEPT ![t] = "aborted"]
  BY FinishMoves DEF Reply, Finish, ClusterInv, counters, Answers
<1>2. answer[t] = "none"
  BY <1>1 DEF ClusterInv, HandlerInv
<1>3. /\ phase[t] = "commit" => Decision(t) = "commit"
      /\ phase[t] = "abort" => Decision(t) = "abort"
  BY DEF ClusterInv, HandlerInv, Decision
<1>4. SameDecisions
  BY <1>1, KeepsDecisions DEF Decision
<1>5. /\ [u \in Txs |-> Decision(u)'] = [u \in Txs |-> Decision(u)]
      /\ [s \in Shards |-> [u \in Txs |-> Standing(s, u)']]
           = [s \in Shards |-> [u \in Txs |-> Standing(s, u)]]
  BY <1>1, <1>4, QuietStandings DEF SameDecisions, SameStandings
<1>6. Commitment!Tell(t)
  BY <1>1, <1>2, <1>3, <1>5 DEF Commitment!Tell
<1> QED
  BY <1>6 DEF CommitmentStep, Commitment!Next

(* A step of the loops that decides nothing and calls nobody.              *)
LEMMA LoopCommits ==
  ASSUME ClusterInv, NEW t \in Txs, OnlyTx(t), UNCHANGED <<shardVars, crashed>>,
         UNCHANGED <<phase, commitTime, involved, answer>>
  PROVE  CommitmentStep
<1>1. SameDecisions
  BY KeepsDecisions DEF Decision
<1> QED
  BY <1>1, QuietStandings, Stutters

LEMMA FailedCallCommits ==
  ASSUME ClusterInv, NEW t \in Txs,
         PrepareFails(t) \/ CommitFails(t) \/ AbortFails(t)
  PROVE  CommitmentStep
<1>1. RouterTypeOK
  BY DEF ClusterInv
<1>2. CASE PrepareFails(t)
  BY <1>2, AbortAllCommits DEF PrepareFails
<1>3. CASE CommitFails(t)
  BY <1>1, <1>3, ReturnedMoves, PassMoves, LoopCommits DEF CommitFails
<1>4. CASE AbortFails(t)
  BY <1>1, <1>4, ReturnedMoves, PassMoves, LoopCommits DEF AbortFails
<1> QED
  BY <1>2, <1>3, <1>4

LEMMA SendCommits ==
  ASSUME ClusterInv, NEW t \in Txs, NEW s \in Shards,
         SendPrepare(t, s) \/ SendCommit(t, s) \/ SendAbort(t, s)
  PROVE  CommitmentStep
<1>1. /\ TypeOK /\ RouterTypeOK /\ commitTime[t] \in Nat
      /\ FreeStep(s, t)
      /\ UNCHANGED crashed
  BY PrepareAllowed, CommitAllowed, AbortAllowed
     DEF ClusterInv, ShardInv, RouterTypeOK, SendPrepare, SendCommit,
         SendAbort, counters
<1>2. OnlyTx(t) /\ UNCHANGED <<phase, commitTime, involved, answer>>
  BY <1>1, CallMoves DEF SendPrepare, SendCommit, SendAbort
<1>3. SameDecisions
  BY <1>2, KeepsDecisions DEF Decision
<1>4. CASE SendPrepare(t, s)
  <2>1. /\ UNCHANGED store
        /\ status[s][t] = "none"
        /\ status'[s][t] \in {"none", "running"}
    BY <1>1, <1>4, PrepareAllowed, PrepareBeginMoves DEF PrepareCall, Open
  <2>2. commitTime[t] = 0
    BY <1>4 DEF SendPrepare, Call, Next2PC, ClusterInv, HandlerInv
  <2>3. ~Stored(s, t) /\ ~Stored(s, t)'
    BY <2>1, <2>2, UndecidedNotStored, SameStored
  <2>4. Standing(s, t)' = Standing(s, t)
    BY <2>1, <2>3 DEF Standing, Stored
  <2> QED
    BY <1>1, <1>2, <1>3, <2>4, OtherStandings, AllStandings, Stutters
<1>5. CASE SendCommit(t, s)
  <2>1. UNCHANGED <<store, status>>
    BY <1>1, <1>5, CommitBeginMoves DEF SendCommit
  <2> QED
    BY <1>1, <1>2, <1>3, <2>1, QuietCall, Stutters
<1>6. CASE SendAbort(t, s)
  <2>1. UNCHANGED <<store, status>>
    BY <1>1, <1>6, AbortMoves DEF SendAbort
  <2> QED
    BY <1>1, <1>2, <1>3, <2>1, QuietCall, Stutters
<1> QED
  BY <1>4, <1>5, <1>6

LEMMA RouterCommits ==
  ASSUME ClusterInv, NEW t \in Txs, RouterStep(t)
  PROVE  CommitmentStep
<1>1. ASSUME NEW s \in Shards, ReceiveVote(t, s)
      PROVE  CommitmentStep
  <2>1. RouterTypeOK /\ ptime[s][t] \in Nat
    BY DEF ClusterInv, ShardInv, TypeOK
  <2>2. UNCHANGED <<shardVars, crashed>>
    BY <1>1 DEF ReceiveVote, counters
  <2>3. CASE VotedCommit(t, ptime[s][t])
    BY <2>1, <2>2, <2>3, VotedCommitMoves, LoopCommits
  <2>4. CASE AbortAll(t)
    BY <2>2, <2>4, AbortAllCommits
  <2> QED
    BY <1>1, <2>3, <2>4 DEF ReceiveVote
<1>2. ASSUME NEW s \in Shards, ReceiveCommitted(t, s) \/ ReceiveAborted(t, s)
      PROVE  CommitmentStep
  <2>1. /\ RouterTypeOK /\ UNCHANGED <<shardVars, crashed>>
        /\ Returned(t, "commit") \/ Returned(t, "abort")
    BY <1>2 DEF ReceiveCommitted, ReceiveAborted, ClusterInv, counters
  <2>2. OnlyTx(t) /\ UNCHANGED <<phase, commitTime, involved, answer>>
    BY <2>1, ReturnedMoves
  <2> QED
    BY <2>1, <2>2, LoopCommits
<1> QED
  BY <1>1, <1>2, SendCommits, DecideCommits, ReplyCommits, FailedCallCommits
     DEF RouterStep

LEMMA FaultCommits ==
  ASSUME ClusterInv, NEW t \in Txs, Fault(t)
  PROVE  CommitmentStep
<1>1. CASE EndContext(t)
  <2>1. RouterTypeOK /\ UNCHANGED <<shardVars, crashed>>
    BY <1>1 DEF ClusterInv, EndContext
  <2> QED
    BY <1>1, <2>1, ContextDoneMoves, LoopCommits DEF EndContext, ContextDone
<1>2. ASSUME NEW k \in Keys, AskFails(t, k)
      PROVE  CommitmentStep
  <2>1. RouterTypeOK /\ UNCHANGED <<shardVars, crashed>>
    BY <1>2 DEF ClusterInv, AskFails
  <2> QED
    BY <1>2, <2>1, OperateMoves, LoopCommits DEF AskFails, Operate
<1> QED
  BY <1>1, <1>2, StartCommits, FailedCallCommits DEF Fault

(* A vote for t promises it, at a shard that an Abort has overtaken too.   *)
LEMMA PreparingCommits ==
  ASSUME ClusterInv, NEW s \in Shards, NEW t \in Txs, ShardStep(s, t),
         ~AbortGoesOn(s, t), Preparing(s, t)
  PROVE  CommitmentStep
<1>1. /\ CallInv(s, t) /\ HandlerInv(t) /\ TypeOK
      /\ UNCHANGED <<routerVars, crashed>>
      /\ Handler(s, t) /\ FreeStep(s, t)
  BY DEF ClusterInv, ShardInv, ShardStep, counters, FreeStep
<1>2. /\ pc[s][t] # "idle" /\ ~Committing(s, t) /\ ~Uncalled(s, t)
      /\ commitTime[t] = 0
  <2>1. pc[s][t] # "idle" /\ ~Committing(s, t)
    BY DEF Preparing, Committing
  <2>2. ~Uncalled(s, t)
    BY <1>1, <2>1 DEF CallInv, Open
  <2> QED
    BY <1>1, <2>1, <2>2 DEF CallInv, CommitsAsDecided, Uncalled
<1>3. \/ status[s][t] = "running"
      \/ status[s][t] = "aborted" /\ Decision(t) = "abort"
  BY <1>1, <1>2 DEF CallInv, PrepareAlone, Preparing, Decision
<1>4. SameDecisions /\ UNCHANGED <<involved, answer>>
  BY <1>1 DEF SameDecisions, Decision, routerVars
<1>5. UNCHANGED store /\ ~Stored(s, t) /\ ~Stored(s, t)'
  BY <1>1, <1>2, PreparingMoves, UndecidedNotStored, SameStored
<1>6. CASE UNCHANGED status
  BY <1>1, <1>4, <1>5, <1>6, QuietCall, Stutters
<1>7. CASE status'[s][t] = "prepared"
  <2>1. Standing(s, t)' = "promised"
    BY <1>5, <1>7 DEF Standing, Stored
  <2>2. Commitment!Stand(s, t, "promised")
    BY <1>1, <1>4, <2>1, OtherStandings, Stands
  <2>3. \/ Standing(s, t) = "working"
        \/ Standing(s, t) = "dropped" /\ Decision(t) = "abort"
    BY <1>3, <1>5, StandingCases
  <2> QED
    BY <2>2, <2>3 DEF Commitment!Promise, CommitmentStep, Commitment!Next
<1> QED
  BY <1>1, <1>6, <1>7, PreparingMoves

(* The cleanup of a transaction that is not decided to commit marks it as  *)
(* aborted, and does nothing else that shows.                              *)
LEMMA CleanupCommits ==
  ASSUME ClusterInv, NEW s \in Shards, NEW t \in Txs, ShardStep(s, t),
         PrepareAborts(s, t) \/ AbortGoesOn(s, t)
  PROVE  CommitmentStep
<1>1. /\ CallInv(s, t) /\ TypeOK
      /\ UNCHANGED <<routerVars, crashed>>
      /\ FreeStep(s, t)
  BY DEF ClusterInv, ShardInv, ShardStep, counters, FreeStep
<1>2. /\ UNCHANGED store
      /\ status'[s][t] \in {status[s][t], "aborted"}
  BY <1>1, PrepareAbortsMoves, AbortAtMoves, CleanupMoves DEF AbortGoesOn
<1>3. commitTime[t] = 0
  <2>1. CASE PrepareAborts(s, t)
    BY <1>1, <2>1
       DEF PrepareAborts, Cleanups, Committing, CallInv, Open, Uncalled,
           CommitsAsDecided
  <2>2. CASE AbortGoesOn(s, t)
    BY <1>1, <2>2 DEF AbortGoesOn, Cleanups, CallInv, GivenUp
  <2> QED
    BY <2>1, <2>2
<1>4. SameDecisions /\ UNCHANGED <<involved, answer>>
  BY <1>1 DEF SameDecisions, Decision, routerVars
<1>5. CASE status'[s][t] = status[s][t]
  BY <1>1, <1>2, <1>4, <1>5, QuietCall, Stutters
<1>6. CASE status'[s][t] = "aborted"
  <2>1. ~Stored(s, t)'
    BY <1>2, <1>3, UndecidedNotStored, SameStored
  <2>2. Standing(s, t)' = "dropped"
    BY <1>6, <2>1 DEF Standing, Stored
  <2>3. Commitment!Stand(s, t, "dropped") /\ Decision(t) # "commit"
    BY <1>1, <1>3, <1>4, <2>2, OtherStandings, Stands DEF Decision
  <2> QED
    BY <2>3 DEF Commitment!Drop, CommitmentStep, Commitment!Next
<1> QED
  BY <1>2, <1>5, <1>6

(* The first version that a Commit adds, or its end, installs t.           *)
LEMMA CommittingCommits ==
  ASSUME ClusterInv, NEW s \in Shards, NEW t \in Txs, ShardStep(s, t),
         Committing(s, t)
  PROVE  CommitmentStep
<1>1. /\ CallInv(s, t) /\ TypeOK /\ RowInv(s, t)
      /\ UNCHANGED <<routerVars, crashed>>
      /\ Handler(s, t) /\ FreeStep(s, t)
  BY DEF ClusterInv, ShardInv, ShardStep, counters, FreeStep
<1>2. /\ status[s][t] = "prepared"
      /\ commitTime[t] # 0
      /\ s \in involved[t]
  BY <1>1 DEF RowInv, CommitIsVoted, Voted, CallInv, NothingUndecided, Uncalled,
              Open
<1>3. SameDecisions /\ UNCHANGED <<involved, answer>>
  BY <1>1 DEF SameDecisions, Decision, routerVars
<1>4. status'[s][t] \in {"prepared", "committed"}
  BY <1>1, <1>2, CommittingMoves DEF RowInv
<1>5. Stored(s, t) => Stored(s, t)'
  <2>1. CASE UNCHANGED store
    BY <2>1 DEF Stored, Applied
  <2>2. CASE \E k \in KeysOf(s) : CommitPut(s, t, k)
    <3>1. PICK k \in KeysOf(s) : CommitPut(s, t, k)
      BY <2>2
    <3>2. \A k2 \in Keys : store[k2] \subseteq store'[k2]
      BY <1>1, <3>1 DEF CommitPut, KeysOf, TypeOK
    <3> QED
      BY <3>2 DEF Stored, Applied
  <2> QED
    BY <1>1, <2>1, <2>2, OnlyPutsStore
<1>6. Standing(s, t) \in {"promised", "installed"}
  BY <1>2 DEF Standing
<1>7. \/ Standing(s, t)' = Standing(s, t)
      \/ Standing(s, t) = "promised" /\ Standing(s, t)' = "installed"
  BY <1>2, <1>4, <1>5 DEF Standing, Stored
<1>8. CASE Standing(s, t)' = Standing(s, t)
  BY <1>1, <1>3, <1>8, OtherStandings, AllStandings, Stutters
<1>9. CASE Standing(s, t) = "promised" /\ Standing(s, t)' = "installed"
  <2>1. Commitment!Stand(s, t, "installed") /\ Decision(t) = "commit"
    BY <1>1, <1>2, <1>3, <1>9, OtherStandings, Stands DEF Decision
  <2> QED
    BY <1>2, <1>9, <2>1 DEF Commitment!Install, CommitmentStep, Commitment!Next
<1> QED
  BY <1>7, <1>8, <1>9

LEMMA ShardCrashCommits ==
  ASSUME ClusterInv, NEW s \in Shards, Crash(s), UNCHANGED routerVars,
         crashed' = TRUE
  PROVE  CommitmentStep
<1>1. TypeOK
  BY DEF ClusterInv, ShardInv
<1>2. ASSUME NEW u \in Txs
      PROVE  Standing(s, u)' = "working"
  <2>1. status'[s][u] = "none" /\ \A k \in Keys : Home[k] = s => store'[k] = {}
    BY <1>1 DEF Crash, TypeOK
  <2> QED
    BY <2>1 DEF Standing, Applied
<1>3. ASSUME NEW s2 \in Shards, NEW u \in Txs, s2 # s
      PROVE  Standing(s2, u)' = Standing(s2, u)
  <2>1. /\ status'[s2][u] = status[s2][u]
        /\ \A k \in Keys : Home[k] = s2 => store'[k] = store[k]
    BY <1>1, <1>3 DEF Crash, TypeOK
  <2>2. Stored(s2, u)' = Stored(s2, u)
    BY <2>1 DEF Stored, Applied
  <2> QED
    BY <2>1, <2>2, SameStanding
<1>4. [u \in Txs |-> Decision(u)'] = [u \in Txs |-> Decision(u)]
  BY DEF Decision, routerVars
<1>5. [s2 \in Shards |-> [u \in Txs |-> Standing(s2, u)']]
        = [[s2 \in Shards |-> [u \in Txs |-> Standing(s2, u)]]
             EXCEPT ![s] = [u \in Txs |-> "working"]]
  BY <1>2, <1>3
<1>6. Commitment!CrashShard(s)
  BY <1>4, <1>5 DEF Commitment!CrashShard, routerVars
<1> QED
  BY <1>6 DEF CommitmentStep, Commitment!Next

LEMMA RouterCrashCommits ==
  ASSUME ClusterInv, NEW r \in Routers, RouterCrash(r), UNCHANGED shardVars,
         crashed' = TRUE
  PROVE  CommitmentStep
<1> DEFINE lost == {u \in Txs : Decision(u) = "open" /\ Decision(u)' = "abort"}
<1>1. /\ \A u \in Txs :
           \/ SameTx(u)
           \/ phase[u] \notin {"new", "done"} /\ phase'[u] = "gone"
      /\ UNCHANGED <<involved, commitTime, answer>>
  BY RouterCrashMoves DEF ClusterInv
<1>2. ASSUME NEW u \in Txs, u \notin lost
      PROVE  Decision(u)' = Decision(u)
  BY <1>1, <1>2, SameTxDecision DEF Decision
<1>3. [u \in Txs |-> Decision(u)']
        = [u \in Txs |-> IF u \in lost THEN "abort" ELSE Decision(u)]
  BY <1>2
<1>4. [s \in Shards |-> [u \in Txs |-> Standing(s, u)']]
        = [s \in Shards |-> [u \in Txs |-> Standing(s, u)]]
  BY QuietStandings DEF SameStandings
<1>5. Commitment!CrashRouter(lost)
  BY <1>1, <1>3, <1>4 DEF Commitment!CrashRouter
<1> QED
  BY <1>5 DEF CommitmentStep, Commitment!Next

LEMMA CommitmentInit ==
  ASSUME Init
  PROVE  Commitment!Init
<1>1. /\ \A t \in Txs : Decision(t) = "open"
      /\ \A s \in Shards, t \in Txs : Standing(s, t) = "working"
  BY DEF Init, RouterInit, ShardInit, Decision, Standing, Applied
<1> QED
  BY <1>1 DEF Init, RouterInit, Commitment!Init

LEMMA CommitmentSteps ==
  ASSUME ClusterInv, [Next]_vars
  PROVE  CommitmentStep
<1>1. ASSUME NEW s \in Shards, NEW t \in Txs, ShardStep(s, t)
      PROVE  CommitmentStep
  <2>1. TypeOK /\ Handler(s, t)
    BY <1>1 DEF ClusterInv, ShardInv, ShardStep
  <2> QED
    BY <1>1, <2>1, HandlerRuns, PreparingCommits, CommittingCommits, CleanupCommits
<1>2. CASE CrashStep
  BY <1>2, ShardCrashCommits, RouterCrashCommits DEF CrashStep
<1>3. CASE UNCHANGED vars
  <2>1. SameDecisions
    BY <1>3 DEF SameDecisions, Decision, vars, routerVars
  <2> QED
    BY <1>3, <2>1, QuietStandings, Stutters DEF vars, routerVars, counters
<1> QED
  BY <1>1, <1>2, <1>3, ClientCommits, RouterCommits, FaultCommits DEF Next

(* mulberry.go and shard.go together: handlers, lost calls, ended contexts *)
(* and crashes do nothing that AtomicCommit does not allow.                *)
THEOREM ImplementsCommitment == Spec => ImplementsAtomicCommit
<1>1. Init => Commitment!Init
  BY CommitmentInit
<1>2. ClusterInv /\ [Next]_vars => [Commitment!Next]_(Commitment!vars)
  BY CommitmentSteps DEF CommitmentStep
<1> QED
  BY <1>1, <1>2, ClusterInvariant, PTL
     DEF Spec, ImplementsAtomicCommit, Commitment!Spec

-----------------------------------------------------------------------------
(* Until the first fault.  What a reader finds, and what the store keeps.  *)

(* MVCCStore.Get answers with a version at least as late as any that it    *)
(* may answer with.                                                        *)
LEMMA GetFindsLatest ==
  ASSUME NEW vs \in SUBSET Version, NEW time \in Nat, NEW w \in vs,
         w.version <= time
  PROVE  \E v \in vs :
           /\ w.version <= v.version
           /\ v.version <= time
           /\ IF FindAt(vs, time).found THEN FindAt(vs, time).version = v.version
                                     ELSE v.deleted
<1> DEFINE old == {v \in vs : v.version <= time}
           gaps == {time - v.version : v \in old}
<1>1. \A v \in vs : v.version \in Nat /\ v.deleted \in BOOLEAN
  BY DEF Version
<1>2. gaps \in SUBSET Nat /\ gaps # {}
  BY <1>1
<1>3. PICK gap \in gaps : \A g \in gaps : ~ <<g, gap>> \in OpToRel(<, Nat)
  BY <1>2, WFMin, NatLessThanWellFounded
<1>4. PICK v \in old : gap = time - v.version
  BY <1>3
<1>5. ASSUME NEW x \in old
      PROVE  x.version <= v.version
  <2>1. ~(time - x.version < time - v.version)
    BY <1>1, <1>2, <1>3, <1>4 DEF OpToRel
  <2> QED
    BY <1>1, <2>1
<1>6. v \in Latest(old) /\ \A x \in Latest(old) : x.version = v.version
  <2>1. ASSUME NEW x \in Latest(old)
        PROVE  x.version = v.version
    <3>1. x \in old /\ v.version <= x.version
      BY DEF Latest
    <3> QED
      BY <1>1, <1>5, <3>1
  <2> QED
    BY <1>5, <2>1 DEF Latest
<1> DEFINE live == {x \in Latest(old) : ~x.deleted}
<1>7. FindAt(vs, time) = IF live = {} THEN NotFound
                      ELSE [version |-> (CHOOSE x \in live : TRUE).version,
                            found |-> TRUE]
  BY DEF FindAt, FindLatest
<1>8. IF FindAt(vs, time).found THEN FindAt(vs, time).version = v.version ELSE v.deleted
  <2>1. CASE live = {}
    BY <1>1, <1>6, <1>7, <2>1 DEF NotFound
  <2>2. CASE live # {}
    <3>1. (CHOOSE x \in live : TRUE) \in live
      BY <2>2
    <3> HIDE DEF live
    <3>2. (CHOOSE x \in live : TRUE).version = v.version
      BY <1>6, <3>1 DEF live
    <3> QED
      BY <1>7, <2>2, <3>2
  <2> QED
    BY <2>1, <2>2
<1> QED
  BY <1>4, <1>5, <1>8

LEMMA StoreGrows ==
  ASSUME TypeOK, NEW s \in Shards, NEW t \in Txs, FreeStep(s, t)
  PROVE  \A k \in Keys : store[k] \subseteq store'[k]
<1>1. CASE UNCHANGED store
  BY <1>1
<1>2. ASSUME NEW k \in KeysOf(s), CommitPut(s, t, k)
      PROVE  \A k2 \in Keys : store[k2] \subseteq store'[k2]
  BY <1>2 DEF CommitPut, KeysOf, TypeOK
<1> QED
  BY <1>1, <1>2, OnlyPutsStore

(* Only a handler that is putting adds to the store.                       *)
LEMMA OthersNotApplied ==
  ASSUME TypeOK, NEW s \in Shards, NEW t \in Txs, FreeStep(s, t),
         NEW u \in Txs, pc[s][u] = "idle"
  PROVE  Applied(u)' = Applied(u)
<1>1. CASE UNCHANGED store
  BY <1>1 DEF Applied
<1>2. ASSUME NEW k \in KeysOf(s), CommitPut(s, t, k)
      PROVE  Applied(u)' = Applied(u)
  <2>1. u # t
    BY <1>2 DEF CommitPut
  <2>2. \A k2 \in Keys :
          /\ store[k2] \subseteq store'[k2]
          /\ \A v \in store'[k2] : v \in store[k2] \/ v.tx = t
    BY <1>2 DEF CommitPut, KeysOf, TypeOK
  <2> QED
    BY <2>1, <2>2 DEF Applied
<1> QED
  BY <1>1, <1>2, OnlyPutsStore

LEMMA HandlerWritesNothing ==
  ASSUME NEW s \in Shards, NEW t \in Txs, Handler(s, t)
  PROVE  UNCHANGED <<writes, reads>>
BY DEF Handler, PrepareLock, PrepareCheckWrite, PrepareCheckRead, VoteAbort,
       PrepareNext, PrepareVote, PrepareAborts, CommitPut, CommitClock,
       CommitCleanup, AbortGoesOn, AbortAt

LEMMA ReadsOfOthers ==
  ASSUME TypeOK, NEW s \in Shards, NEW t \in Txs, FreeStep(s, t),
         NEW u \in Txs, u # t
  PROVE  reads'[u] = reads[u]
<1>1. CASE FreeClientCall(s, t)
  <2>1. CASE TxStart(s, t)
    BY <2>1 DEF TxStart, TypeOK
  <2>2. ASSUME NEW k \in KeysOf(s), NEW time \in Nat, TxRead(s, t, k, time)
        PROVE  reads'[u] = reads[u]
    BY <2>2 DEF TxRead, TypeOK
  <2>3. ASSUME NEW k \in KeysOf(s), NEW d \in BOOLEAN, BufferWrite(s, t, k, d)
        PROVE  reads'[u] = reads[u]
    BY <2>3 DEF BufferWrite
  <2> QED
    BY <1>1, <2>1, <2>2, <2>3, ClientOperation
<1> QED
  BY <1>1, HandlerWritesNothing
     DEF FreeStep, PrepareCall, PrepareBegin, FreeCommitCall, CommitBegin,
         FreeAbortCall, Abort, AbortAt

-----------------------------------------------------------------------------
(* The shards and the routers keep to each other.                          *)

Rows ==
  /\ LockersIntact
  /\ \A s \in Shards, t \in Txs : Attended(s, t) /\ Installs(s, t)

LEMMA AttendedFrame ==
  ASSUME NEW s \in Shards, NEW t \in Txs, Attended(s, t), SameRow(s, t), SameTx(t)
  PROVE  Attended(s, t)'
BY DEF Attended, SameRow, SameTx

LEMMA InstallsFrame ==
  ASSUME NEW s \in Shards, NEW t \in Txs, Installs(s, t), SameRow(s, t),
         commitTime'[t] = commitTime[t],
         s \in visited'[t] => s \in visited[t],
         \A k \in Keys : store[k] \subseteq store'[k]
  PROVE  Installs(s, t)'
<1>1. WriteKeys(s, t)' = WriteKeys(s, t) /\ WriteKeys(s, t) \subseteq Keys
  BY SameSets DEF WriteKeys, KeysOf
<1> QED
  BY <1>1 DEF Installs, SameRow

(* A transaction whose loop has yet to start.                              *)
LEMMA UncalledRow ==
  ASSUME NEW s \in Shards, NEW t \in Txs, Open(s, t)', visited'[t] = {},
         t \in buffers'[s] => s \in involved'[t]
  PROVE  Attended(s, t)' /\ Installs(s, t)'
BY DEF Open, Attended, Installs

(* While its router does not wait for s, no handler of t runs there.       *)
LEMMA NotWaited ==
  ASSUME NEW s \in Shards, NEW t \in Txs, Attended(s, t), wait[t] # s
  PROVE  pc[s][t] = "idle" /\ dropping[s][t] = "idle"
BY DEF Attended

LEMMA NoneIsNoShard ==
  ASSUME NEW s \in Shards
  PROVE  s # None
OBVIOUS

(* Nor an Abort, while the end of t is open or its commit is decided.      *)
LEMMA NotDropped ==
  ASSUME NEW s \in Shards, NEW t \in Txs, CallInv(s, t),
         phase[t] \in {"new", "active", "prepare", "commit"}
  PROVE  dropping[s][t] = "idle" /\ ~AbortGoesOn(s, t)
BY DEF CallInv, GivenUp, AbortGoesOn, Cleanups

LEMMA ReleaseFrees ==
  ASSUME TypeOK, NEW s \in Shards, NEW t \in Txs, Release(s, t)
  PROVE  /\ \A k \in KeysOf(s) : locks'[k] # t
         /\ \A k \in Keys : locks'[k] \in {locks[k], None}
BY DEF Release, Owned, KeysOf

(* The only lock a step of t takes is taken by its Prepare.                *)
LEMMA LockMoves ==
  ASSUME TypeOK, NEW s \in Shards, NEW t \in Txs, FreeStep(s, t), NEW k \in Keys
  PROVE  \/ locks'[k] \in {locks[k], None}
         \/ Home[k] = s /\ locks'[k] = t /\ pc[s][t] = "lock"
<1>1. CASE UNCHANGED locks
  BY <1>1
<1>2. CASE Release(s, t)
  BY <1>2, ReleaseFrees
<1>3. ASSUME NEW at, AbortCleanup(s, t, at)
      PROVE  locks'[k] \in {locks[k], None}
  BY <1>3, ReleaseFrees DEF AbortCleanup
<1>4. ASSUME NEW k2 \in KeysOf(s), PrepareLock(s, t, k2)
      PROVE  \/ locks'[k] \in {locks[k], None}
             \/ Home[k] = s /\ locks'[k] = t /\ pc[s][t] = "lock"
  BY <1>4 DEF PrepareLock, VoteAbort, KeysOf, TypeOK
<1>5. CASE FreeClientCall(s, t)
  BY <1>1, <1>5, ClientOperation DEF TxStart, TxRead, BufferWrite
<1>6. CASE PrepareCall(s, t) \/ FreeCommitCall(s, t)
  BY <1>1, <1>6 DEF PrepareCall, PrepareBegin, FreeCommitCall, CommitBegin
<1>7. CASE FreeAbortCall(s, t) \/ AbortGoesOn(s, t) \/ PrepareAborts(s, t)
  BY <1>3, <1>7 DEF FreeAbortCall, Abort, AbortGoesOn, AbortAt, PrepareAborts
<1>8. CASE CommitCleanup(s, t)
  BY <1>1, <1>2, <1>8 DEF CommitCleanup
<1> QED
  BY <1>1, <1>4, <1>5, <1>6, <1>7, <1>8
     DEF FreeStep, Handler, PrepareCheckWrite, PrepareCheckRead, VoteAbort,
         PrepareNext, PrepareVote, CommitPut, CommitClock

(* A handler gives back the locks of t before it takes its buffer away.    *)
LEMMA IntactStep ==
  ASSUME TypeOK, NEW s \in Shards, NEW t \in Txs, FreeStep(s, t), Intact(s, t)
  PROVE  Intact(s, t)' \/ \A k \in KeysOf(s) : locks'[k] # t
<1>1. /\ t \in buffers[s]
      /\ pc[s][t] \notin {"remove", "abortRemove"}
      /\ dropping[s][t] # "abortRemove"
  BY DEF Intact, Released
<1>2. CASE Release(s, t)
  BY <1>2, ReleaseFrees
<1>3. SUFFICES ASSUME ~Release(s, t)
               PROVE  /\ t \in buffers'[s]
                      /\ pc'[s][t] \notin {"remove", "abortRemove"}
                      /\ dropping'[s][t] # "abortRemove"
  BY <1>2 DEF Intact, Released
<1>4. ASSUME NEW at \in Cleanups \ {"abortRemove"}, AbortCleanup(s, t, at)
      PROVE  UNCHANGED buffers /\ After(at) # "abortRemove"
  BY <1>3, <1>4 DEF AbortCleanup, After, Cleanups
<1>5. CASE FreeClientCall(s, t)
  BY <1>1, <1>5, ClientOperation DEF TxStart, TxRead, BufferWrite, TypeOK
<1>6. CASE PrepareCall(s, t)
  BY <1>1, <1>6, PrepareBeginMoves DEF PrepareCall, PrepareBegin
<1>7. CASE FreeCommitCall(s, t)
  <2>1. PICK ct \in Nat : CommitBegin(s, t, ct)
    BY <1>7 DEF FreeCommitCall
  <2> QED
    BY <1>1, <2>1, CommitBeginMoves
<1>8. CASE FreeAbortCall(s, t)
  BY <1>3, <1>8 DEF FreeAbortCall, Abort, AbortAt, AbortCleanup
<1>9. CASE AbortGoesOn(s, t)
  BY <1>1, <1>4, <1>9, AbortAtMoves DEF AbortGoesOn
<1>10. CASE PrepareAborts(s, t)
  <2>1. /\ pc[s][t] \in Cleanups
        /\ AbortCleanup(s, t, pc[s][t])
        /\ pc'[s][t] = After(pc[s][t])
        /\ UNCHANGED dropping
    BY <1>10, PrepareAbortsMoves
  <2>2. UNCHANGED buffers /\ After(pc[s][t]) \notin {"remove", "abortRemove"}
    BY <1>1, <1>4, <2>1 DEF After
  <2> QED
    BY <1>1, <2>1, <2>2
<1>11. CASE Handler(s, t) /\ ~AbortGoesOn(s, t) /\ Preparing(s, t)
  BY <1>1, <1>11, PreparingMoves DEF Preparing
<1>12. CASE \E k \in KeysOf(s) : CommitPut(s, t, k)
  BY <1>1, <1>12 DEF CommitPut
<1>13. CASE CommitClock(s, t)
  BY <1>1, <1>13 DEF CommitClock, Loop, TypeOK
<1>14. CASE CommitCleanup(s, t)
  BY <1>1, <1>3, <1>14 DEF CommitCleanup, Answer, TypeOK
<1>15. CASE Handler(s, t)
  BY <1>9, <1>10, <1>11, <1>12, <1>13, <1>14, <1>15
     DEF Handler, Preparing, PrepareLock, PrepareCheckWrite, PrepareCheckRead,
         PrepareNext, PrepareVote
<1> QED
  BY <1>5, <1>6, <1>7, <1>8, <1>15 DEF FreeStep

LEMMA LockersStep ==
  ASSUME TypeOK, LockersIntact, NEW s \in Shards, NEW t \in Txs, FreeStep(s, t),
         RowInv(s, t), pc[s][t] = "lock" => Intact(s, t)
  PROVE  LockersIntact'
<1>1. SUFFICES ASSUME NEW k \in Keys, NEW u \in Txs, locks'[k] = u
               PROVE  Intact(Home[k], u)'
  BY DEF LockersIntact
<1>2. Home[k] \in Shards /\ k \in KeysOf(Home[k])
  BY DEF KeysOf
<1>3. Intact(Home[k], u)
  BY <1>1, LockMoves DEF LockersIntact
<1>4. CASE Home[k] = s /\ u = t
  BY <1>1, <1>2, <1>3, <1>4, IntactStep
<1>5. CASE Home[k] # s \/ u # t
  BY <1>2, <1>3, <1>5, StepOthers, SameSets
<1> QED
  BY <1>4, <1>5

(* A step of t that calls no shard, or shard s.                            *)
LEMMA QuietRowsKept ==
  ASSUME ClusterInv, Rows, NEW t \in Txs, OnlyTx(t), UNCHANGED shardVars,
         \A s \in Shards : Attended(s, t)' /\ Installs(s, t)'
  PROVE  Rows'
<1>1. LockersIntact'
  BY DEF Rows, LockersIntact, Intact, Released, shardVars
<1>2. ASSUME NEW s \in Shards, NEW u \in Txs, u # t
      PROVE  Attended(s, u)' /\ Installs(s, u)'
  <2>1. SameTx(u) /\ SameRow(s, u) /\ Attended(s, u) /\ Installs(s, u)
    BY <1>2, QuietRows DEF OnlyTx, Rows
  <2>2. \A k \in Keys : store[k] \subseteq store'[k]
    BY DEF shardVars
  <2> QED
    BY <2>1, <2>2, AttendedFrame, InstallsFrame DEF SameTx
<1> QED
  BY <1>1, <1>2 DEF Rows

LEMMA CallRowsKept ==
  ASSUME ClusterInv, Rows, NEW s \in Shards, NEW t \in Txs, FreeStep(s, t),
         OnlyTx(t),
         \A s2 \in Shards :
           s2 # s => (SameRow(s2, t) => Attended(s2, t)' /\ Installs(s2, t)'),
         Attended(s, t)' /\ Installs(s, t)'
  PROVE  Rows'
<1>1. TypeOK /\ RowInv(s, t)
  BY DEF ClusterInv, ShardInv
<1>2. LockersIntact'
  <2>1. pc[s][t] = "lock" => Intact(s, t)
    <3>1. SUFFICES ASSUME pc[s][t] = "lock"
                   PROVE  Intact(s, t)
      OBVIOUS
    <3>2. t \in buffers[s] /\ phase[t] \in {"prepare", "commit"}
      BY <3>1 DEF Rows, Attended
    <3>3. dropping[s][t] = "idle"
      BY <3>2, NotDropped DEF ClusterInv
    <3> QED
      BY <3>1, <3>2, <3>3 DEF Intact, Released
  <2> QED
    BY <1>1, <2>1, LockersStep DEF Rows
<1>3. ASSUME NEW s2 \in Shards, NEW u \in Txs
      PROVE  Attended(s2, u)' /\ Installs(s2, u)'
  <2>1. CASE s2 = s /\ u = t
    BY <2>1
  <2>2. CASE s2 # s \/ u # t
    <3>1. SameRow(s2, u)
      BY <1>1, <2>2, StepOthers
    <3>2. CASE u = t
      BY <2>2, <3>1, <3>2
    <3>3. CASE u # t
      <4>1. SameTx(u) /\ Attended(s2, u) /\ Installs(s2, u)
        BY <3>3 DEF OnlyTx, Rows
      <4> QED
        BY <1>1, <3>1, <4>1, StoreGrows, AttendedFrame, InstallsFrame DEF SameTx
    <3> QED
      BY <3>2, <3>3
  <2> QED
    BY <2>1, <2>2
<1> QED
  BY <1>2, <1>3 DEF Rows

(* A transaction that has not asked for its end: no shard has voted.       *)
LEMMA EarlyRowsKept ==
  ASSUME ClusterInv, Rows, NEW t \in Txs, OnlyTx(t), UNCHANGED shardVars,
         phase[t] \in {"new", "active"}, visited'[t] = {}, UNCHANGED involved
  PROVE  Rows'
<1>1. ASSUME NEW s \in Shards
      PROVE  Attended(s, t)' /\ Installs(s, t)'
  <2>1. Open(s, t)'
    BY EarlyRows DEF Open, shardVars
  <2>2. t \in buffers'[s] => s \in involved'[t]
    BY DEF Rows, Attended, shardVars
  <2> QED
    BY <2>1, <2>2, UncalledRow
<1> QED
  BY <1>1, QuietRowsKept

LEMMA BeginRows ==
  ASSUME ClusterInv, Rows, NEW t \in Txs, TxBegin(t)
  PROVE  Rows'
<1>1. visited'[t] = {} /\ UNCHANGED <<involved, shardVars>>
  BY BeginMoves, EarlyRows DEF TxBegin, ClusterInv
<1> QED
  BY <1>1, BeginMoves, EarlyRowsKept DEF TxBegin, ClusterInv

LEMMA RequestRows ==
  ASSUME ClusterInv, Rows, NEW t \in Txs, CommitRequest(t) \/ AbortRequest(t),
         UNCHANGED shardVars
  PROVE  Rows'
<1>1. /\ OnlyTx(t)
      /\ phase[t] = "active" /\ visited'[t] = {}
      /\ UNCHANGED involved
  BY RequestMoves DEF CommitRequest, AbortRequest, ClusterInv
<1> QED
  BY <1>1, EarlyRowsKept

LEMMA EnlistRows ==
  ASSUME ClusterInv, Rows, NEW t \in Txs, NEW k \in Keys, Enlist(t, k)
  PROVE  Rows'
<1>1. /\ TxStart(Home[k], t) /\ OnlyTx(t)
      /\ phase[t] = "active"
      /\ involved'[t] = involved[t] \cup {Home[k]}
      /\ UNCHANGED visited
  BY InvolveMoves DEF Enlist, ClusterInv
<1>2. /\ FreeStep(Home[k], t) /\ Home[k] \in Shards
      /\ UNCHANGED <<pc, status, dropping>>
  BY <1>1, StartAllowed DEF TxStart
<1>3. ASSUME NEW s \in Shards
      PROVE  Attended(s, t)' /\ Installs(s, t)'
  <2>1. Open(s, t)' /\ visited'[t] = {}
    BY <1>1, <1>2, EarlyRows DEF Open
  <2>2. t \in buffers'[s] => s \in involved'[t]
    BY <1>1, <1>2 DEF Rows, Attended, TxStart, ClusterInv, ShardInv, TypeOK
  <2> QED
    BY <2>1, <2>2, UncalledRow
<1> QED
  BY <1>1, <1>2, <1>3, CallRowsKept

LEMMA AskRows ==
  ASSUME ClusterInv, Rows, NEW t \in Txs, NEW k \in Keys,
         Read(t, k) \/ Write(t, k) \/ Delete(t, k)
  PROVE  Rows'
<1>1. /\ TxRead(Home[k], t, k, snap[t]) \/ TxWrite(Home[k], t, k) \/ TxDelete(Home[k], t, k)
      /\ OnlyTx(t)
      /\ phase[t] = "active"
      /\ UNCHANGED <<visited, involved>>
  BY OperateMoves DEF Read, Write, Delete, Ask, Operate, ClusterInv
<1>2. /\ FreeStep(Home[k], t) /\ Home[k] \in Shards
      /\ UNCHANGED <<pc, status, dropping, buffers>>
  BY <1>1, AskAllowed DEF TxRead, TxWrite, TxDelete, BufferWrite
<1>3. ASSUME NEW s \in Shards
      PROVE  Attended(s, t)' /\ Installs(s, t)'
  <2>1. Open(s, t)' /\ visited'[t] = {}
    BY <1>1, <1>2, EarlyRows DEF Open
  <2>2. t \in buffers'[s] => s \in involved'[t]
    BY <1>1, <1>2 DEF Rows, Attended
  <2> QED
    BY <2>1, <2>2, UncalledRow
<1> QED
  BY <1>1, <1>2, <1>3, CallRowsKept

LEMMA UnseenRows ==
  ASSUME ClusterInv, Rows, NEW t \in Txs, OnlyTx(t), SameTx(t), UNCHANGED shardVars
  PROVE  Rows'
<1>1. ASSUME NEW s \in Shards
      PROVE  Attended(s, t)' /\ Installs(s, t)'
  <2>1. SameRow(s, t) /\ Attended(s, t) /\ Installs(s, t)
    BY QuietRows DEF Rows
  <2>2. \A k \in Keys : store[k] \subseteq store'[k]
    BY DEF shardVars
  <2> QED
    BY <2>1, <2>2, AttendedFrame, InstallsFrame DEF SameTx
<1> QED
  BY <1>1, QuietRowsKept

LEMMA SendPrepareRows ==
  ASSUME ClusterInv, Rows, NEW t \in Txs, NEW s \in Shards, SendPrepare(t, s)
  PROVE  Rows'
<1>1. /\ PrepareCall(s, t) /\ FreeStep(s, t)
      /\ OnlyTx(t)
      /\ phase[t] = "prepare"
      /\ wait[t] = None /\ wait'[t] = s
      /\ s \in involved[t]
      /\ visited'[t] = visited[t] \cup {s}
      /\ UNCHANGED <<phase, involved, commitTime>>
  BY PrepareAllowed, CallMoves DEF SendPrepare, ClusterInv
<1>2. TypeOK /\ commitTime[t] = 0
  BY <1>1 DEF ClusterInv, ShardInv, HandlerInv
<1>3. /\ pc'[s][t] # "idle" => t \in buffers'[s]
      /\ status'[s][t] # "prepared"
      /\ t \in buffers'[s] => s \in involved[t]
      /\ dropping'[s][t] = "idle"
  <2>1. PrepareBegin(s, t) /\ status[s][t] = "none" /\ dropping'[s][t] = "idle"
    BY <1>1 DEF PrepareCall, PrepareBegin, Open
  <2>2. CASE Answer(s, t, "error")
    BY <1>1, <1>2, <2>1, <2>2, PrepareBeginMoves DEF Answer, TypeOK
  <2>3. CASE t \in buffers[s] /\ UNCHANGED buffers
    BY <1>1, <1>2, <2>1, <2>3, PrepareBeginMoves
  <2> QED
    BY <2>1, <2>2, <2>3 DEF PrepareBegin
<1>4. Attended(s, t)' /\ Installs(s, t)'
  BY <1>1, <1>2, <1>3 DEF Attended, Installs
<1>5. ASSUME NEW s2 \in Shards, s2 # s, SameRow(s2, t)
      PROVE  Attended(s2, t)' /\ Installs(s2, t)'
  <2>1. Attended(s2, t) /\ pc[s2][t] = "idle" /\ dropping[s2][t] = "idle"
    BY <1>1, NoneIsNoShard, NotWaited DEF Rows
  <2> QED
    BY <1>1, <1>2, <1>5, <2>1 DEF Attended, Installs, SameRow
<1> QED
  BY <1>1, <1>4, <1>5, CallRowsKept

(* The handler of t has the answer it waited for, or waits for none, and   *)
(* goes on to its next loop or its next shard.                             *)
LEMMA GoOnRows ==
  ASSUME ClusterInv, Rows, NEW t \in Txs, OnlyTx(t), UNCHANGED shardVars,
         wait[t] # None => pc[wait[t]][t] = "idle" /\ dropping[wait[t]][t] = "idle",
         wait'[t] = None, involved'[t] = involved[t],
         \/ visited'[t] = {}
         \/ /\ visited'[t] = visited[t]
            /\ commitTime'[t] = commitTime[t]
            /\ \/ phase[t] \in {"commit", "abort", "done"}
               \/ phase'[t] = "prepare"
  PROVE  Rows'
<1>1. ASSUME NEW s \in Shards
      PROVE  Attended(s, t)' /\ Installs(s, t)'
  <2>1. SameRow(s, t) /\ Attended(s, t) /\ Installs(s, t)
    BY QuietRows DEF Rows
  <2>2. pc[s][t] = "idle" /\ dropping[s][t] = "idle"
    BY <2>1, NoneIsNoShard, NotWaited
  <2>3. Attended(s, t)'
    BY <2>1, <2>2 DEF Attended, SameRow
  <2>4. CASE visited'[t] = {}
    BY <2>3, <2>4 DEF Installs
  <2>5. CASE visited'[t] = visited[t] /\ commitTime'[t] = commitTime[t]
    <3>1. \A k \in Keys : store[k] \subseteq store'[k]
      BY DEF shardVars
    <3> QED
      BY <2>1, <2>3, <2>5, <3>1, InstallsFrame
  <2> QED
    BY <2>4, <2>5
<1> QED
  BY <1>1, QuietRowsKept

LEMMA ReceiveVoteRows ==
  ASSUME ClusterInv, Rows, NEW t \in Txs, NEW s \in Shards, ReceiveVote(t, s)
  PROVE  Rows'
<1>1. /\ wait[t] = s /\ pc[s][t] = "idle" /\ dropping[s][t] = "idle"
      /\ UNCHANGED shardVars
  BY NotDropped DEF ReceiveVote, Answered, ClusterInv
<1>2. CASE AbortAll(t)
  BY <1>1, <1>2, AbortAllMoves, GoOnRows DEF ClusterInv
<1>3. CASE VotedCommit(t, ptime[s][t])
  <2>1. ptime[s][t] \in Nat
    BY DEF ClusterInv, ShardInv, TypeOK
  <2>2. /\ OnlyTx(t) /\ wait'[t] = None /\ phase'[t] = "prepare"
        /\ UNCHANGED <<involved, visited, commitTime>>
    BY <1>3, <2>1, VotedCommitMoves DEF ClusterInv
  <2> QED
    BY <1>1, <2>2, GoOnRows
<1> QED
  BY <1>2, <1>3 DEF ReceiveVote

LEMMA DecideRows ==
  ASSUME ClusterInv, Rows, NEW t \in Txs, DecideCommit(t)
  PROVE  Rows'
<1>1. /\ OnlyTx(t)
      /\ wait[t] = None /\ wait'[t] = None
      /\ visited'[t] = {}
      /\ UNCHANGED <<involved, shardVars>>
  BY DecideMoves DEF DecideCommit, ClusterInv
<1> QED
  BY <1>1, GoOnRows

LEMMA SendCommitRows ==
  ASSUME ClusterInv, Rows, ~crashed, NEW t \in Txs, NEW s \in Shards,
         SendCommit(t, s)
  PROVE  Rows'
<1>1. /\ FreeStep(s, t)
      /\ CommitBegin(s, t, commitTime[t])
      /\ OnlyTx(t)
      /\ phase[t] = "commit"
      /\ wait[t] = None /\ wait'[t] = s
      /\ s \in involved[t] \ visited[t]
      /\ visited'[t] = visited[t] \cup {s}
      /\ UNCHANGED <<phase, involved, commitTime>>
  BY CommitAllowed, CallMoves DEF SendCommit, ClusterInv
<1>2. commitTime[t] \in Nat /\ commitTime[t] # 0 /\ TypeOK
  BY <1>1 DEF ClusterInv, HandlerInv, ShardInv, RouterTypeOK
<1>3. t \in buffers[s]
  <2>1. status[s][t] = "prepared"
    BY <1>1, <1>2 DEF ClusterInv, CallInv, CommitsAsDecided, KeepsPromise
  <2>2. pc[s][t] = "idle" /\ dropping[s][t] = "idle"
    BY <1>1, NoneIsNoShard, NotWaited DEF Rows
  <2> QED
    BY <2>1, <2>2 DEF Rows, Attended
<1>4. /\ pc'[s][t] = "put" /\ dropping'[s][t] = "idle"
      /\ todo'[s][t] = WriteKeys(s, t)
      /\ UNCHANGED <<writes, buffers>>
  BY <1>1, <1>2, <1>3, CommitBeginMoves, NotDropped DEF ClusterInv
<1>5. Attended(s, t)' /\ Installs(s, t)'
  BY <1>1, <1>3, <1>4 DEF Attended, Installs, WriteKeys, KeysOf
<1>6. ASSUME NEW s2 \in Shards, s2 # s, SameRow(s2, t)
      PROVE  Attended(s2, t)' /\ Installs(s2, t)'
  <2>1. /\ Attended(s2, t) /\ Installs(s2, t)
        /\ pc[s2][t] = "idle" /\ dropping[s2][t] = "idle"
    BY <1>1, NoneIsNoShard, NotWaited DEF Rows
  <2>2. Attended(s2, t)'
    BY <1>1, <1>6, <2>1 DEF Attended, SameRow
  <2> QED
    BY <1>1, <1>2, <1>6, <2>1, <2>2, StoreGrows, InstallsFrame
<1> QED
  BY <1>1, <1>5, <1>6, CallRowsKept

LEMMA ReturnedRows ==
  ASSUME ClusterInv, Rows, NEW t \in Txs, NEW s \in Shards,
         ReceiveCommitted(t, s) \/ ReceiveAborted(t, s)
  PROVE  Rows'
<1>1. /\ Returned(t, "commit") \/ Returned(t, "abort")
      /\ wait[t] = s
      /\ UNCHANGED shardVars
  BY DEF ReceiveCommitted, ReceiveAborted, Answered
<1>2. /\ OnlyTx(t)
      /\ phase[t] \in {"commit", "abort"}
      /\ wait'[t] = None
      /\ UNCHANGED <<phase, involved, visited, commitTime>>
  BY <1>1, ReturnedMoves DEF ClusterInv
<1>3. pc[s][t] = "idle" /\ dropping[s][t] = "idle"
  <2>1. CASE ReceiveCommitted(t, s)
    BY <2>1, NotDropped DEF ReceiveCommitted, Returned, Answered, ClusterInv
  <2>2. CASE ReceiveAborted(t, s)
    BY <2>2 DEF ReceiveAborted, Returned, Rows, Attended
  <2> QED
    BY <2>1, <2>2
<1> QED
  BY <1>1, <1>2, <1>3, GoOnRows

LEMMA SendAbortRows ==
  ASSUME ClusterInv, Rows, NEW t \in Txs, NEW s \in Shards, SendAbort(t, s)
  PROVE  Rows'
<1>1. /\ FreeStep(s, t)
      /\ Abort(s, t)
      /\ OnlyTx(t)
      /\ phase[t] = "abort"
      /\ wait[t] = None /\ wait'[t] = s
      /\ s \in involved[t]
      /\ visited'[t] = visited[t] \cup {s}
      /\ UNCHANGED <<phase, involved, commitTime>>
  BY AbortAllowed, CallMoves DEF SendAbort, ClusterInv
<1>2. TypeOK /\ commitTime[t] = 0
  BY <1>1 DEF ClusterInv, ShardInv, HandlerInv
<1>3. \A s2 \in Shards : /\ Attended(s2, t)
                         /\ pc[s2][t] = "idle" /\ dropping[s2][t] = "idle"
  BY <1>1, NoneIsNoShard, NotWaited DEF Rows
<1>4. /\ pc'[s][t] = "idle"
      /\ dropping'[s][t] = "abortRemove"
  BY <1>1, <1>2, <1>3, AbortMoves
<1>5. Attended(s, t)' /\ Installs(s, t)'
  BY <1>1, <1>2, <1>4 DEF Attended, Installs
<1>6. ASSUME NEW s2 \in Shards, s2 # s, SameRow(s2, t)
      PROVE  Attended(s2, t)' /\ Installs(s2, t)'
  BY <1>1, <1>2, <1>3, <1>6 DEF Attended, Installs, SameRow
<1> QED
  BY <1>1, <1>5, <1>6, CallRowsKept

LEMMA ReplyRows ==
  ASSUME ClusterInv, Rows, NEW t \in Txs, Reply(t)
  PROVE  Rows'
<1>1. /\ OnlyTx(t)
      /\ phase[t] \in {"commit", "abort"}
      /\ wait[t] = None /\ wait'[t] = None
      /\ UNCHANGED <<involved, visited, commitTime, shardVars>>
  BY FinishMoves DEF Reply, ClusterInv, Answers
<1> QED
  BY <1>1, GoOnRows

LEMMA PreparingRows ==
  ASSUME ClusterInv, Rows, NEW s \in Shards, NEW t \in Txs, ShardStep(s, t),
         Preparing(s, t)
  PROVE  Attended(s, t)' /\ Installs(s, t)'
<1>1. /\ CallInv(s, t) /\ HandlerInv(t) /\ Attended(s, t) /\ TypeOK
      /\ UNCHANGED routerVars
      /\ Handler(s, t)
  BY DEF ClusterInv, ShardInv, ShardStep, Rows
<1>2. pc[s][t] # "idle" /\ ~Committing(s, t)
  BY DEF Preparing, Committing
<1>3. /\ wait[t] = s /\ phase[t] \in {"prepare", "commit"}
      /\ t \in buffers[s]
  BY <1>1, <1>2 DEF Attended, Preparing
<1>4. phase[t] = "prepare" /\ commitTime[t] = 0 /\ s \in involved[t]
  BY <1>1, <1>2, <1>3, NoneIsNoShard DEF CallInv, CommitsAsDecided, HandlerInv
<1>5. dropping[s][t] = "idle" /\ ~AbortGoesOn(s, t)
  BY <1>1, <1>3, NotDropped
<1>6. t \in buffers'[s] /\ dropping'[s][t] = "idle"
  BY <1>1, <1>3, <1>5, PreparingMoves
<1> QED
  BY <1>1, <1>3, <1>4, <1>6 DEF Attended, Installs, routerVars

(* A Prepare that votes against t cleans up, and its router aborts t then.  *)
LEMMA PrepareAbortsRows ==
  ASSUME ClusterInv, Rows, NEW s \in Shards, NEW t \in Txs, ShardStep(s, t),
         PrepareAborts(s, t)
  PROVE  Attended(s, t)' /\ Installs(s, t)'
<1>1. /\ CallInv(s, t) /\ HandlerInv(t) /\ RowInv(s, t) /\ TypeOK
      /\ Attended(s, t)
      /\ UNCHANGED routerVars
  BY DEF ClusterInv, ShardInv, ShardStep, Rows
<1>2. /\ pc[s][t] \in Cleanups
      /\ AbortCleanup(s, t, pc[s][t])
      /\ pc'[s][t] = After(pc[s][t])
      /\ dropping'[s][t] = dropping[s][t]
  BY <1>1, PrepareAbortsMoves
<1>3. /\ pc[s][t] # "idle" /\ ~Committing(s, t)
      /\ status[s][t] # "prepared"
  BY <1>1, <1>2 DEF Cleanups, Committing, RowInv, CommitIsVoted
<1>4. wait[t] = s /\ phase[t] \in {"prepare", "commit"}
  BY <1>1, <1>3 DEF Attended
<1>5. phase[t] = "prepare" /\ commitTime[t] = 0 /\ s \in involved[t]
  BY <1>1, <1>3, <1>4, NoneIsNoShard DEF CallInv, CommitsAsDecided, HandlerInv
<1>6. /\ status'[s][t] # "prepared"
      /\ pc[s][t] = "abortRelease" => t \in buffers'[s]
  BY <1>1, <1>2, <1>3, CleanupMoves DEF Attended
<1> QED
  BY <1>1, <1>2, <1>4, <1>5, <1>6
     DEF Attended, Installs, After, Cleanups, routerVars

(* An Abort cleans up, and its router goes on to the next shard then.      *)
LEMMA AbortGoesOnRows ==
  ASSUME ClusterInv, Rows, NEW s \in Shards, NEW t \in Txs, ShardStep(s, t),
         AbortGoesOn(s, t)
  PROVE  Attended(s, t)' /\ Installs(s, t)'
<1>1. /\ CallInv(s, t) /\ HandlerInv(t) /\ TypeOK
      /\ Attended(s, t)
      /\ UNCHANGED routerVars
  BY DEF ClusterInv, ShardInv, ShardStep, Rows
<1>2. /\ dropping[s][t] \in Cleanups
      /\ AbortCleanup(s, t, dropping[s][t])
      /\ dropping'[s][t] = After(dropping[s][t])
      /\ pc'[s][t] = pc[s][t]
  BY <1>1, AbortAtMoves DEF AbortGoesOn
<1>3. dropping[s][t] # "idle"
  BY <1>2 DEF Cleanups
<1>4. /\ wait[t] = s /\ s \in visited[t] /\ s \in involved[t]
      /\ phase[t] = "abort" /\ commitTime[t] = 0
  BY <1>1, <1>3, NoneIsNoShard DEF Attended, CallInv, GivenUp, HandlerInv
<1>5. pc[s][t] = "idle"
  BY <1>1, <1>4 DEF Attended
<1>6. /\ dropping[s][t] \in {"abortRemove", "abortMark", "abortTick"} =>
           t \notin buffers'[s]
      /\ dropping[s][t] \in {"abortMark", "abortTick"} =>
           status'[s][t] \in {"none", "committed", "aborted"}
  BY <1>1, <1>2, <1>4, <1>5, CleanupMoves DEF Attended
<1> QED
  BY <1>1, <1>2, <1>4, <1>5, <1>6
     DEF Attended, Installs, After, Cleanups, routerVars

LEMMA CommittingRows ==
  ASSUME ClusterInv, Rows, NEW s \in Shards, NEW t \in Txs, ShardStep(s, t),
         Committing(s, t)
  PROVE  Attended(s, t)' /\ Installs(s, t)'
<1>1. /\ CallInv(s, t) /\ HandlerInv(t) /\ RowInv(s, t) /\ TypeOK
      /\ Attended(s, t) /\ Installs(s, t)
      /\ UNCHANGED routerVars
      /\ Handler(s, t) /\ FreeStep(s, t)
  BY DEF ClusterInv, ShardInv, ShardStep, Rows, FreeStep
<1>2. /\ pc[s][t] # "idle" /\ status[s][t] = "prepared"
      /\ wait[t] = s /\ s \in visited[t]
      /\ s \in involved[t] /\ commitTime[t] # 0
      /\ ctime[s][t] = commitTime[t]
      /\ phase[t] \in {"prepare", "commit"}
      /\ dropping[s][t] = "idle"
      /\ pc[s][t] # "mark" => t \in buffers[s]
  <2>1. pc[s][t] # "idle" /\ status[s][t] = "prepared"
    BY <1>1 DEF RowInv, CommitIsVoted, Committing
  <2>2. /\ wait[t] = s /\ s \in visited[t] /\ s \in involved[t]
        /\ phase[t] \in {"prepare", "commit"}
        /\ dropping[s][t] = "idle"
        /\ pc[s][t] # "mark" => t \in buffers[s]
    BY <1>1, <2>1, NoneIsNoShard
       DEF Attended, HandlerInv, RowInv, CommitIsVoted, Committing
  <2>3. commitTime[t] # 0
    BY <1>1 DEF CallInv, NothingUndecided
  <2> QED
    BY <1>1, <2>1, <2>2, <2>3 DEF CallInv, CommitsAsDecided
<1>3. Attended(s, t)'
  BY <1>1, <1>2, CommittingMoves DEF RowInv, Attended, Committing, routerVars
<1>4. WriteKeys(s, t)' = WriteKeys(s, t) /\ WriteKeys(s, t) \subseteq KeysOf(s)
  BY <1>1, HandlerWritesNothing DEF WriteKeys, KeysOf
<1>5. ASSUME NEW k \in WriteKeys(s, t)
      PROVE  \/ pc'[s][t] = "put" /\ k \in todo'[s][t]
             \/ \E v \in store'[k] : v.tx = t /\ v.version = commitTime[t]
  <2>1. k \in Keys /\ store[k] \subseteq store'[k]
    BY <1>1, <1>4, StoreGrows DEF KeysOf
  <2>2. CASE \E v \in store[k] : v.tx = t /\ v.version = commitTime[t]
    BY <2>1, <2>2
  <2>3. CASE pc[s][t] = "put" /\ k \in todo[s][t]
    <3>1. PICK k2 \in KeysOf(s) : CommitPut(s, t, k2)
      BY <1>1, <1>2, <2>3
         DEF Handler, PrepareLock, PrepareCheckWrite, PrepareCheckRead,
             PrepareNext, PrepareVote, PrepareAborts, CommitClock,
             CommitCleanup, AbortGoesOn, Cleanups
    <3>2. CASE k2 = k
      <4> DEFINE v == [version |-> ctime[s][t], tx |-> t,
                       deleted |-> writes[t][k].deleted]
      <4>1. ~VersionConflict(k, ctime[s][t])
        <5>1. \A w \in store[k] : w.version < ctime[s][t]
          BY <2>3, OnTop DEF AppliesOnTop, ClusterInv
        <5>2. \A w \in store[k] : w.version \in Nat
          BY <1>1, <2>1 DEF TypeOK, Version
        <5> QED
          BY <5>1, <5>2 DEF VersionConflict
      <4>2. v \in store'[k]
        BY <1>1, <2>1, <3>1, <3>2, <4>1 DEF CommitPut, TypeOK
      <4> QED
        BY <1>2, <4>2
    <3>3. CASE k2 # k
      BY <1>1, <2>3, <3>1, <3>3 DEF CommitPut, Visit, TypeOK
    <3> QED
      BY <3>2, <3>3
  <2> QED
    BY <1>1, <1>2, <2>2, <2>3 DEF Installs
<1>6. commitTime'[t] = commitTime[t]
  BY <1>1 DEF routerVars
<1> QED
  BY <1>3, <1>4, <1>5, <1>6 DEF Installs

LEMMA ShardStepRows ==
  ASSUME ClusterInv, Rows, NEW s \in Shards, NEW t \in Txs, ShardStep(s, t)
  PROVE  Rows'
<1>1. /\ TypeOK /\ FreeStep(s, t)
      /\ UNCHANGED routerVars
      /\ \/ Preparing(s, t) \/ Committing(s, t)
         \/ PrepareAborts(s, t) \/ AbortGoesOn(s, t)
  BY HandlerRuns DEF ClusterInv, ShardInv, ShardStep, FreeStep
<1>2. OnlyTx(t) /\ SameTx(t)
  BY <1>1 DEF OnlyTx, SameTx, ClusterInv, RouterTypeOK, routerVars
<1>3. ASSUME NEW s2 \in Shards, SameRow(s2, t)
      PROVE  Attended(s2, t)' /\ Installs(s2, t)'
  BY <1>1, <1>2, <1>3, StoreGrows, AttendedFrame, InstallsFrame DEF Rows, SameTx
<1>4. Attended(s, t)' /\ Installs(s, t)'
  BY <1>1, PreparingRows, CommittingRows, PrepareAbortsRows, AbortGoesOnRows
<1> QED
  BY <1>1, <1>2, <1>3, <1>4, CallRowsKept

-----------------------------------------------------------------------------
(* The order of commits, snapshots and reads.                              *)

(* What no step does to a transaction that has not begun, or is over.      *)
EndsKept(t) ==
  /\ OnlyTx(t)
  /\ phase[t] # "done" \/ SameTx(t)
  /\ phase'[t] # "new"
  /\ phase'[t] = "done" => visited'[t] = involved'[t]
  /\ commitTime'[t] \in {commitTime[t], rclock'[RouterOf[t]]}
  /\ \A r \in Routers : rclock'[r] >= rclock[r]
  /\ \A u \in Txs : u # t => reads'[u] = reads[u]

LEMMA EndsKeepOrder ==
  ASSUME ClusterInv, \A u \in Txs : InOrder(u), prior \in [Txs -> SUBSET Txs],
         NEW t \in Txs, EndsKept(t), UNCHANGED <<snap, prior>>
  PROVE  \A u \in Txs : InOrder(u)'
<1>1. SUFFICES ASSUME NEW u \in Txs
               PROVE  InOrder(u)'
  OBVIOUS
<1>2. InOrder(u)
  OBVIOUS
<1>3. phase'[u] = "new" => \A k \in Keys : reads'[u][k] = None
  BY <1>2 DEF InOrder, EndsKept, OnlyTx, SameTx
<1>4. phase'[u] = "done" => visited'[u] = involved'[u]
  BY <1>2 DEF InOrder, EndsKept, OnlyTx, SameTx
<1>5. commitTime'[u] <= rclock'[RouterOf[u]]
  <2>1. /\ RouterOf[u] \in Routers
        /\ rclock[RouterOf[u]] \in Nat /\ rclock'[RouterOf[u]] \in Nat
        /\ commitTime[u] \in Nat
        /\ commitTime'[u] \in {commitTime[u], rclock'[RouterOf[u]]}
        /\ rclock'[RouterOf[u]] >= rclock[RouterOf[u]]
    BY DEF EndsKept, OnlyTx, SameTx, ClusterInv, RouterTypeOK
  <2> QED
    BY <1>2, <2>1 DEF InOrder
<1>6. ASSUME NEW w \in prior'[u]
      PROVE  answer'[w] = "committed" /\ commitTime'[w] <= snap'[u]
  <2>1. w \in prior[u] /\ w \in Txs /\ answer[w] = "committed"
    BY <1>2 DEF InOrder
  <2>2. phase[w] = "done"
    BY <2>1 DEF ClusterInv, HandlerInv
  <2>3. SameTx(w)
    BY <2>1, <2>2 DEF EndsKept, OnlyTx
  <2> QED
    BY <1>2, <2>1, <2>3 DEF InOrder, SameTx
<1> QED
  BY <1>3, <1>4, <1>5, <1>6 DEF InOrder

LEMMA BeginKeepsOrder ==
  ASSUME ClusterInv, \A u \in Txs : InOrder(u), prior \in [Txs -> SUBSET Txs],
         NEW t \in Txs, TxBegin(t)
  PROVE  /\ \A u \in Txs : InOrder(u)'
         /\ prior' \in [Txs -> SUBSET Txs]
<1>1. RouterOf[t] \in Routers /\ rclock[RouterOf[t]] \in Nat
  BY DEF ClusterInv, RouterTypeOK
<1>2. PICK now1 \in Wall, now2 \in Wall :
        LET time == Tick(Tick(rclock[RouterOf[t]], now1), now2)
        IN /\ rclock' = [rclock EXCEPT ![RouterOf[t]] = time]
           /\ snap' = [snap EXCEPT ![t] = time]
  BY DEF TxBegin, Begin
<1> DEFINE time == Tick(Tick(rclock[RouterOf[t]], now1), now2)
<1>3. time \in Nat /\ time > rclock[RouterOf[t]]
  <2>1. /\ Tick(rclock[RouterOf[t]], now1) \in Nat
        /\ Tick(rclock[RouterOf[t]], now1) > rclock[RouterOf[t]]
    BY <1>1, TickType
  <2>2. time \in Nat /\ time > Tick(rclock[RouterOf[t]], now1)
    BY <2>1, TickType
  <2> QED
    BY <1>1, <2>1, <2>2
<1> HIDE DEF time
<1>4. /\ OnlyTx(t)
      /\ phase[t] = "new" /\ phase'[t] = "active"
      /\ UNCHANGED <<involved, visited, commitTime, answer, reads>>
      /\ prior' = [prior EXCEPT ![t] = {u \in Txs : /\ answer[u] = "committed"
                                                    /\ RouterOf[u] = RouterOf[t]}]
  BY BeginMoves DEF TxBegin, ClusterInv, shardVars
<1>5. /\ \A r \in Routers : rclock'[r] >= rclock[r] /\ rclock[r] \in Nat /\ rclock'[r] \in Nat
      /\ snap'[t] = time
      /\ \A u \in Txs : u # t => snap'[u] = snap[u]
  BY <1>1, <1>2, <1>3 DEF time, ClusterInv, RouterTypeOK
<1>6. ASSUME NEW u \in Txs
      PROVE  InOrder(u)'
  <2>1. InOrder(u) /\ commitTime[u] \in Nat /\ RouterOf[u] \in Routers
    BY DEF ClusterInv, RouterTypeOK
  <2>2. commitTime'[u] <= rclock'[RouterOf[u]]
    BY <1>4, <1>5, <2>1 DEF InOrder
  <2>3. CASE u # t
    BY <1>4, <1>5, <2>1, <2>2, <2>3 DEF InOrder, OnlyTx, SameTx
  <2>4. CASE u = t
    <3>1. ASSUME NEW w \in prior'[t]
          PROVE  answer'[w] = "committed" /\ commitTime'[w] <= snap'[t]
      <4>1. w \in Txs /\ answer[w] = "committed" /\ RouterOf[w] = RouterOf[t]
        BY <1>4
      <4>2. commitTime[w] <= rclock[RouterOf[t]] /\ commitTime[w] \in Nat
        BY <4>1 DEF InOrder, ClusterInv, RouterTypeOK
      <4> QED
        BY <1>1, <1>3, <1>4, <1>5, <4>1, <4>2
    <3> QED
      BY <1>4, <2>2, <2>4, <3>1 DEF InOrder
  <2> QED
    BY <2>3, <2>4
<1> QED
  BY <1>4, <1>6

(* A step that records no read.                                            *)
LEMMA NoNewRead ==
  ASSUME ReadsFollowCommits, prior \in [Txs -> SUBSET Txs],
         \A t \in Txs, k \in Keys : reads'[t][k] \in {reads[t][k], None},
         \A t \in Txs : \/ prior'[t] = prior[t] /\ snap'[t] = snap[t]
                        \/ \A k \in Keys : reads[t][k] = None,
         \A u \in Txs : answer[u] = "committed" =>
                          Applied(u)' = Applied(u) /\ commitTime'[u] = commitTime[u],
         \A t \in Txs : \A u \in prior[t] : answer[u] = "committed",
         \A k \in Keys : store[k] \subseteq store'[k]
  PROVE  ReadsFollowCommits'
<1>1. SUFFICES ASSUME NEW t \in Txs, NEW k \in Keys, reads'[t][k] # None,
                      NEW u \in prior'[t], k \in Applied(u)'
               PROVE  \E v \in store'[k] :
                        /\ commitTime'[u] <= v.version
                        /\ v.version <= snap'[t]
                        /\ IF reads'[t][k].found
                             THEN reads'[t][k].version = v.version ELSE v.deleted
  BY DEF ReadsFollowCommits
<1>2. reads'[t][k] = reads[t][k] /\ prior'[t] = prior[t] /\ snap'[t] = snap[t]
  BY <1>1
<1>3. /\ u \in prior[t] /\ u \in Txs
      /\ k \in Applied(u) /\ commitTime'[u] = commitTime[u]
  BY <1>1, <1>2
<1>4. PICK v \in store[k] :
        /\ commitTime[u] <= v.version
        /\ v.version <= snap[t]
        /\ IF reads[t][k].found THEN reads[t][k].version = v.version ELSE v.deleted
  BY <1>1, <1>2, <1>3 DEF ReadsFollowCommits
<1> QED
  BY <1>2, <1>3, <1>4

(* A committed transaction adds no version, and its commit time stands.    *)
LEMMA CommittedStands ==
  ASSUME ClusterInv, Rows, NEW s \in Shards, NEW t \in Txs, FreeStep(s, t),
         NEW u \in Txs, answer[u] = "committed"
  PROVE  Applied(u)' = Applied(u)
<1>1. wait[u] = None
  BY DEF ClusterInv, HandlerInv
<1>2. pc[s][u] = "idle" /\ TypeOK
  BY <1>1, NoneIsNoShard, NotWaited DEF Rows, ClusterInv, ShardInv
<1> QED
  BY <1>2, OthersNotApplied

LEMMA ReadFollows ==
  ASSUME ClusterInv, ReadsFollowCommits, prior \in [Txs -> SUBSET Txs],
         NEW t \in Txs, NEW k \in Keys, TxRead(Home[k], t, k, snap[t]),
         \A u \in prior[t] : commitTime[u] <= snap[t],
         UNCHANGED <<commitTime, snap, prior>>
  PROVE  ReadsFollowCommits'
<1>1. TypeOK /\ snap[t] \in Nat /\ WrittenAsDecided
  BY DEF ClusterInv, ShardInv, RouterTypeOK
<1>2. /\ UNCHANGED store
      /\ reads'[t][k] = FindAt(store[k], snap[t])
      /\ \A t2 \in Txs, k2 \in Keys :
           t2 # t \/ k2 # k => reads'[t2][k2] = reads[t2][k2]
  BY <1>1 DEF TxRead, TypeOK
<1>3. SUFFICES ASSUME NEW t2 \in Txs, NEW k2 \in Keys, reads'[t2][k2] # None,
                      NEW u \in prior[t2], k2 \in Applied(u)
               PROVE  \E v \in store[k2] :
                        /\ commitTime[u] <= v.version
                        /\ v.version <= snap[t2]
                        /\ IF reads'[t2][k2].found
                             THEN reads'[t2][k2].version = v.version ELSE v.deleted
  BY <1>2 DEF ReadsFollowCommits, Applied
<1>4. CASE t2 = t /\ k2 = k
  <2>1. PICK w \in store[k] : w.tx = u
    BY <1>3, <1>4 DEF Applied
  <2>2. w.version = commitTime[u] /\ w.version <= snap[t]
    BY <1>1, <1>4, <2>1 DEF WrittenAsDecided
  <2>3. store[k] \in SUBSET Version
    BY <1>1 DEF TypeOK
  <2> QED
    BY <1>1, <1>2, <1>4, <2>2, <2>3, GetFindsLatest
<1>5. CASE t2 # t \/ k2 # k
  BY <1>2, <1>3, <1>5 DEF ReadsFollowCommits
<1> QED
  BY <1>4, <1>5

-----------------------------------------------------------------------------
(* The steps of a cluster before its first fault.                          *)

Orders ==
  /\ prior \in [Txs -> SUBSET Txs]
  /\ \A t \in Txs : InOrder(t)
  /\ ReadsFollowCommits

(* A step after which what was committed stands and no read is recorded.   *)
LEMMA OrdersKept ==
  ASSUME ClusterInv, Orders, NEW t \in Txs, EndsKept(t), UNCHANGED <<snap, prior>>,
         \A k \in Keys : reads'[t][k] \in {reads[t][k], None},
         \A u \in Txs : answer[u] = "committed" => Applied(u)' = Applied(u),
         \A k \in Keys : store[k] \subseteq store'[k]
  PROVE  Orders'
<1>1. \A u \in Txs : answer[u] = "committed" => commitTime'[u] = commitTime[u]
  <2>1. ASSUME NEW u \in Txs, answer[u] = "committed"
        PROVE  commitTime'[u] = commitTime[u]
    <3>1. phase[u] = "done"
      BY <2>1 DEF ClusterInv, HandlerInv
    <3> QED
      BY <3>1 DEF EndsKept, OnlyTx, SameTx
  <2> QED
    BY <2>1
<1>2. \A u \in Txs, k \in Keys : reads'[u][k] \in {reads[u][k], None}
  BY DEF EndsKept
<1>3. \A u \in Txs : \A w \in prior[u] : answer[w] = "committed"
  BY DEF Orders, InOrder
<1>4. ReadsFollowCommits'
  BY <1>1, <1>2, <1>3, NoNewRead DEF Orders
<1> QED
  BY <1>4, EndsKeepOrder DEF Orders

(* A step that leaves the shards alone.                                    *)
LEMMA QuietOrders ==
  ASSUME ClusterInv, Orders, NEW t \in Txs, OnlyTx(t),
         UNCHANGED <<shardVars, snap, prior>>,
         phase[t] # "done" \/ SameTx(t), phase'[t] # "new",
         phase'[t] = "done" => visited'[t] = involved'[t],
         commitTime'[t] \in {commitTime[t], rclock'[RouterOf[t]]},
         \A r \in Routers : rclock'[r] >= rclock[r]
  PROVE  Orders'
<1>1. /\ \A u \in Txs : reads'[u] = reads[u] /\ Applied(u)' = Applied(u)
      /\ \A k \in Keys : store'[k] = store[k]
  BY DEF shardVars, Applied
<1>2. EndsKept(t)
  BY <1>1 DEF EndsKept
<1> QED
  BY <1>1, <1>2, OrdersKept

LEMMA SameClocks ==
  ASSUME RouterTypeOK, UNCHANGED rclock
  PROVE  \A r \in Routers : rclock'[r] >= rclock[r]
BY DEF RouterTypeOK

LEMMA BeginOrders ==
  ASSUME ClusterInv, Orders, NEW t \in Txs, TxBegin(t)
  PROVE  Orders'
<1>1. /\ prior' \in [Txs -> SUBSET Txs]
      /\ \A u \in Txs : InOrder(u)'
  BY BeginKeepsOrder DEF Orders
<1>2. /\ phase[t] = "new"
      /\ UNCHANGED <<commitTime, store, reads>>
      /\ \A u \in Txs : u # t => prior'[u] = prior[u] /\ snap'[u] = snap[u]
  BY BeginMoves DEF TxBegin, Begin, ClusterInv, shardVars, Orders, RouterTypeOK
<1>3. \A u \in Txs : Applied(u)' = Applied(u)
  BY <1>2 DEF Applied
<1>4. \A u \in Txs : \/ prior'[u] = prior[u] /\ snap'[u] = snap[u]
                     \/ \A k \in Keys : reads[u][k] = None
  BY <1>2 DEF Orders, InOrder
<1>5. \A u \in Txs : \A w \in prior[u] : answer[w] = "committed"
  BY DEF Orders, InOrder
<1>6. ReadsFollowCommits'
  BY <1>2, <1>3, <1>4, <1>5, NoNewRead DEF Orders
<1> QED
  BY <1>1, <1>6 DEF Orders

LEMMA EnlistOrders ==
  ASSUME ClusterInv, Rows, Orders, NEW t \in Txs, NEW k \in Keys, Enlist(t, k)
  PROVE  Orders'
<1>1. /\ TxStart(Home[k], t) /\ OnlyTx(t)
      /\ phase[t] = "active"
      /\ UNCHANGED <<phase, commitTime, rclock, snap, prior>>
  BY InvolveMoves DEF Enlist, Involve, ClusterInv
<1>2. /\ FreeStep(Home[k], t) /\ Home[k] \in Shards /\ TypeOK
  BY <1>1, StartAllowed DEF ClusterInv, ShardInv
<1>3. EndsKept(t)
  BY <1>1, <1>2, SameClocks, ReadsOfOthers DEF EndsKept, ClusterInv
<1>4. \A k2 \in Keys : reads'[t][k2] \in {reads[t][k2], None}
  BY <1>1, <1>2 DEF TxStart, TypeOK
<1> QED
  BY <1>1, <1>2, <1>3, <1>4, CommittedStands, StoreGrows, OrdersKept

LEMMA AskOrders ==
  ASSUME ClusterInv, Rows, Orders, NEW t \in Txs, NEW k \in Keys,
         Read(t, k) \/ Write(t, k) \/ Delete(t, k)
  PROVE  Orders'
<1>1. /\ TxRead(Home[k], t, k, snap[t]) \/ TxWrite(Home[k], t, k) \/ TxDelete(Home[k], t, k)
      /\ OnlyTx(t)
      /\ phase[t] = "active"
      /\ UNCHANGED <<phase, commitTime, rclock, snap, prior>>
  BY OperateMoves DEF Read, Write, Delete, Ask, Operate, ClusterInv
<1>2. /\ FreeStep(Home[k], t) /\ Home[k] \in Shards /\ TypeOK
  BY <1>1, AskAllowed DEF ClusterInv, ShardInv
<1>3. EndsKept(t)
  BY <1>1, <1>2, SameClocks, ReadsOfOthers DEF EndsKept, ClusterInv
<1>4. CASE TxRead(Home[k], t, k, snap[t])
  <2>1. \A u \in prior[t] : commitTime[u] <= snap[t]
    BY DEF Orders, InOrder
  <2>2. ReadsFollowCommits'
    BY <1>1, <1>4, <2>1, ReadFollows DEF Orders
  <2> QED
    BY <1>1, <1>3, <2>2, EndsKeepOrder DEF Orders
<1>5. CASE TxWrite(Home[k], t, k) \/ TxDelete(Home[k], t, k)
  <2>1. UNCHANGED reads
    BY <1>5 DEF TxWrite, TxDelete, BufferWrite
  <2> QED
    BY <1>1, <1>2, <1>3, <2>1, CommittedStands, StoreGrows, OrdersKept
<1> QED
  BY <1>1, <1>4, <1>5

LEMMA ClientOrders ==
  ASSUME ClusterInv, Rows, Orders, NEW t \in Txs, ClientStep(t)
  PROVE  Orders'
<1>1. CASE (CommitRequest(t) \/ AbortRequest(t)) /\ UNCHANGED <<shardVars, counters, prior>>
  <2>1. /\ OnlyTx(t)
        /\ phase[t] = "active" /\ phase'[t] \in {"prepare", "abort"}
        /\ UNCHANGED <<commitTime, rclock, snap>>
    BY <1>1, RequestMoves DEF CommitRequest, AbortRequest, Request, ClusterInv
  <2> QED
    BY <1>1, <2>1, SameClocks, QuietOrders DEF ClusterInv
<1> QED
  BY <1>1, BeginOrders, EnlistOrders, AskOrders DEF ClientStep

(* The calls of a router's handler.                                        *)
LEMMA CallOrders ==
  ASSUME ClusterInv, Rows, Orders, NEW s \in Shards, NEW t \in Txs, FreeStep(s, t),
         OnlyTx(t), UNCHANGED <<phase, commitTime, rclock, snap, prior, reads>>,
         phase[t] \in {"prepare", "commit", "abort"}
  PROVE  Orders'
<1>1. TypeOK /\ EndsKept(t)
  BY SameClocks DEF EndsKept, ClusterInv, ShardInv
<1> QED
  BY <1>1, CommittedStands, StoreGrows, OrdersKept

RouterMoves(t) ==
  \/ \E s \in Shards : \/ SendPrepare(t, s)
                       \/ ReceiveVote(t, s)
                       \/ SendCommit(t, s)
                       \/ ReceiveCommitted(t, s)
                       \/ SendAbort(t, s)
                       \/ ReceiveAborted(t, s)
  \/ DecideCommit(t)
  \/ Reply(t)

LEMMA RouterOrders ==
  ASSUME ClusterInv, Rows, Orders, NEW t \in Txs, RouterMoves(t)
  PROVE  Orders'
<1>1. ASSUME NEW s \in Shards, SendPrepare(t, s)
      PROVE  Orders'
  <2>1. FreeStep(s, t) /\ UNCHANGED <<rclock, snap, prior, reads>>
    BY <1>1, PrepareAllowed DEF SendPrepare, Call, PrepareBegin
  <2> QED
    BY <1>1, <2>1, CallMoves, CallOrders DEF SendPrepare, ClusterInv
<1>2. ASSUME NEW s \in Shards, SendCommit(t, s)
      PROVE  Orders'
  <2>1. FreeStep(s, t) /\ UNCHANGED <<rclock, snap, prior, reads>>
    BY <1>2, CommitAllowed DEF SendCommit, Call, CommitBegin
  <2> QED
    BY <1>2, <2>1, CallMoves, CallOrders DEF SendCommit, ClusterInv
<1>3. ASSUME NEW s \in Shards, SendAbort(t, s)
      PROVE  Orders'
  <2>1. FreeStep(s, t) /\ UNCHANGED <<rclock, snap, prior, reads>>
    BY <1>3, AbortAllowed DEF SendAbort, Call, Abort, AbortAt
  <2> QED
    BY <1>3, <2>1, CallMoves, CallOrders DEF SendAbort, ClusterInv
<1>4. ASSUME NEW s \in Shards, ReceiveVote(t, s)
      PROVE  Orders'
  <2>1. UNCHANGED <<shardVars, rclock, snap, prior>>
    BY <1>4 DEF ReceiveVote, VotedCommit, AbortAll
  <2>2. CASE AbortAll(t)
    BY <2>1, <2>2, AbortAllMoves, SameClocks, QuietOrders DEF ClusterInv
  <2>3. CASE VotedCommit(t, ptime[s][t])
    <3>1. ptime[s][t] \in Nat
      BY DEF ClusterInv, ShardInv, TypeOK
    <3> QED
      BY <2>1, <2>3, <3>1, VotedCommitMoves, SameClocks, QuietOrders DEF ClusterInv
  <2> QED
    BY <1>4, <2>2, <2>3 DEF ReceiveVote
<1>5. ASSUME NEW s \in Shards, ReceiveCommitted(t, s) \/ ReceiveAborted(t, s)
      PROVE  Orders'
  <2>1. PICK p \in {"commit", "abort"} : Returned(t, p)
    BY <1>5 DEF ReceiveCommitted, ReceiveAborted
  <2>2. UNCHANGED <<shardVars, rclock, snap, prior>>
    BY <1>5, <2>1 DEF ReceiveCommitted, ReceiveAborted, Returned
  <2> QED
    BY <2>1, <2>2, ReturnedMoves, SameClocks, QuietOrders DEF ClusterInv
<1>6. CASE DecideCommit(t)
  <2>1. UNCHANGED <<shardVars, snap, prior>>
    BY <1>6 DEF DecideCommit, Decide
  <2>2. \A r \in Routers : rclock'[r] >= rclock[r]
    <3>1. RouterOf[t] \in Routers /\ rclock'[RouterOf[t]] > rclock[RouterOf[t]]
      BY <1>6, DecideMoves DEF DecideCommit, ClusterInv
    <3>2. PICK time : rclock' = [rclock EXCEPT ![RouterOf[t]] = time]
      BY <1>6 DEF DecideCommit, Decide
    <3> QED
      BY <1>6, <3>1, <3>2, DecideMoves
         DEF DecideCommit, OnlyTx, ClusterInv, RouterTypeOK
  <2> QED
    BY <1>6, <2>1, <2>2, DecideMoves, QuietOrders DEF DecideCommit, ClusterInv
<1>7. CASE Reply(t)
  BY <1>7, FinishMoves, SameClocks, QuietOrders
     DEF Reply, Finish, ClusterInv, Answers
<1> QED
  BY <1>1, <1>2, <1>3, <1>4, <1>5, <1>6, <1>7 DEF RouterMoves

LEMMA ShardStepOrders ==
  ASSUME ClusterInv, Rows, Orders, NEW s \in Shards, NEW t \in Txs, ShardStep(s, t)
  PROVE  Orders'
<1>1. /\ TypeOK /\ FreeStep(s, t)
      /\ UNCHANGED <<routerVars, prior, reads>>
      /\ pc[s][t] # "idle" \/ dropping[s][t] # "idle"
  BY HandlerRuns, HandlerWritesNothing
     DEF ClusterInv, ShardInv, ShardStep, FreeStep, Preparing, Committing,
         PrepareAborts, AbortGoesOn, Cleanups
<1>2. OnlyTx(t)
  BY <1>1 DEF OnlyTx, SameTx, ClusterInv, RouterTypeOK, routerVars
<1>3. phase[t] \in {"prepare", "commit", "abort"}
  BY <1>1, NoneIsNoShard DEF Rows, Attended, ClusterInv, HandlerInv
<1> QED
  BY <1>1, <1>2, <1>3, CallOrders DEF routerVars

(* Without a fault, a step is one of these, and no context ends.           *)
LEMMA FaultlessStep ==
  ASSUME FaultFree, faults = 0, faults' = 0, [Next]_vars
  PROVE  /\ UNCHANGED <<alive, crashed>>
         /\ \/ \E t \in Txs : ClientStep(t) \/ RouterMoves(t)
            \/ \E t \in Txs, k \in Keys : AskFails(t, k)
            \/ \E s \in Shards, t \in Txs : ShardStep(s, t)
            \/ UNCHANGED vars
<1>1. \A kind : ~Fails(kind)
  BY DEF Fails
<1>2. \A t \in Txs : alive[t] /\ ~CallFails(t)
  BY <1>1 DEF FaultFree, CallFails
<1>3. ASSUME NEW t \in Txs, PrepareFails(t) \/ CommitFails(t) \/ AbortFails(t)
      PROVE  FALSE
  BY <1>2, <1>3 DEF PrepareFails, CommitFails, AbortFails
<1>4. CASE \E t \in Txs : ClientStep(t)
  <2>1. PICK t \in Txs : ClientStep(t)
    BY <1>4
  <2>2. ASSUME NEW k \in Keys, Enlist(t, k) \/ Read(t, k) \/ Write(t, k) \/ Delete(t, k)
        PROVE  UNCHANGED <<alive, crashed>>
    BY <2>2 DEF Enlist, Involve, Read, Write, Delete, Ask, Operate, counters
  <2>3. TxBegin(t) => UNCHANGED <<alive, crashed>>
    BY DEF TxBegin, Begin, counters
  <2>4. (CommitRequest(t) \/ AbortRequest(t)) /\ UNCHANGED <<shardVars, counters, prior>>
          => UNCHANGED <<alive, crashed>>
    BY DEF CommitRequest, AbortRequest, Request, counters
  <2> QED
    BY <2>1, <2>2, <2>3, <2>4 DEF ClientStep
<1>5. CASE \E t \in Txs : RouterStep(t)
  <2>1. PICK t \in Txs : RouterMoves(t)
    BY <1>2, <1>5 DEF RouterStep, RouterMoves
  <2>2. UNCHANGED <<alive, crashed>>
    BY <2>1 DEF RouterMoves, SendPrepare, ReceiveVote, SendCommit,
                ReceiveCommitted, SendAbort, ReceiveAborted, DecideCommit,
                Reply, Call, VotedCommit, AbortAll, Returned, Decide, Finish,
                counters
  <2> QED
    BY <2>1, <2>2
<1>6. CASE \E t \in Txs : Fault(t)
  <2>1. PICK t \in Txs, k \in Keys : AskFails(t, k)
    BY <1>1, <1>3, <1>6 DEF Fault, EndContext, EnlistUnknown
  <2> QED
    BY <2>1 DEF AskFails, Operate
<1>7. CASE \E s \in Shards, t \in Txs : ShardStep(s, t)
  BY <1>7 DEF ShardStep, routerVars, counters
<1>8. CASE CrashStep
  BY <1>1, <1>8 DEF CrashStep
<1>9. CASE UNCHANGED vars
  BY <1>9 DEF vars, routerVars, counters
<1> QED
  BY <1>4, <1>5, <1>6, <1>7, <1>8, <1>9 DEF Next

LEMMA RouterRows ==
  ASSUME ClusterInv, Rows, ~crashed, NEW t \in Txs, RouterMoves(t)
  PROVE  Rows'
BY SendPrepareRows, ReceiveVoteRows, SendCommitRows, ReturnedRows,
   SendAbortRows, DecideRows, ReplyRows DEF RouterMoves

LEMMA ClientRows ==
  ASSUME ClusterInv, Rows, NEW t \in Txs, ClientStep(t)
  PROVE  Rows'
BY BeginRows, EnlistRows, AskRows, RequestRows DEF ClientStep

LEMMA FaultFreeStep ==
  ASSUME ClusterInv, FaultFree, prior \in [Txs -> SUBSET Txs],
         faults = 0, faults' = 0, [Next]_vars
  PROVE  FaultFree' /\ prior' \in [Txs -> SUBSET Txs]
<1>1. Rows /\ Orders /\ ~crashed
  BY DEF FaultFree, Rows, Orders
<1>2. (\A t \in Txs : alive[t])' /\ ~crashed'
  BY <1>1, FaultlessStep DEF FaultFree
<1>3. SUFFICES Rows' /\ Orders'
  BY <1>2 DEF FaultFree, Rows, Orders
<1>4. CASE \E t \in Txs : ClientStep(t)
  BY <1>1, <1>4, ClientRows, ClientOrders
<1>5. CASE \E t \in Txs : RouterMoves(t)
  BY <1>1, <1>5, RouterRows, RouterOrders
<1>6. CASE \E t \in Txs, k \in Keys : AskFails(t, k)
  <2>1. PICK t \in Txs, k \in Keys : AskFails(t, k)
    BY <1>6
  <2>2. /\ OnlyTx(t) /\ SameTx(t) /\ phase[t] = "active"
        /\ UNCHANGED <<shardVars, rclock, snap, prior>>
    BY <2>1, OperateMoves DEF AskFails, Operate, ClusterInv
  <2>3. Rows'
    BY <1>1, <2>2, UnseenRows
  <2>4. Orders'
    BY <1>1, <2>2, SameClocks, QuietOrders DEF SameTx, ClusterInv
  <2> QED
    BY <2>3, <2>4
<1>7. CASE \E s \in Shards, t \in Txs : ShardStep(s, t)
  BY <1>1, <1>7, ShardStepRows, ShardStepOrders
<1>8. CASE UNCHANGED vars
  <2>1. Rows'
    <3>1. \A s \in Shards, t \in Txs : Attended(s, t)' /\ Installs(s, t)'
      <4>1. \A t \in Txs : SameTx(t)
        BY <1>8 DEF SameTx, vars, routerVars
      <4>2. \A k \in Keys : store[k] \subseteq store'[k]
        BY <1>8 DEF vars, shardVars
      <4> QED
        BY <1>1, <1>8, <4>1, <4>2, QuietRows, AttendedFrame, InstallsFrame
           DEF Rows, SameTx, vars
    <3> QED
      BY <1>1, <1>8, <3>1
         DEF Rows, LockersIntact, Intact, Released, vars, shardVars
  <2>2. Orders'
    BY <1>1, <1>8 DEF Orders, InOrder, ReadsFollowCommits, Applied, vars,
                      shardVars, routerVars
  <2> QED
    BY <2>1, <2>2
<1> QED
  BY <1>4, <1>5, <1>6, <1>7, <1>8, FaultlessStep

LEMMA FaultsCounted ==
  ASSUME faults \in Nat, [Next]_vars
  PROVE  faults' \in Nat /\ (faults' = 0 => faults = 0)
<1>1. SUFFICES faults' \in {faults, faults + 1}
  OBVIOUS
<1>2. \A kind : Fails(kind) => faults' = faults + 1
  BY DEF Fails
<1>3. \A t : CallFails(t) => faults' \in {faults, faults + 1}
  BY <1>2 DEF CallFails
<1>4. CASE \E t \in Txs : ClientStep(t)
  BY <1>4 DEF ClientStep, TxBegin, Enlist, Read, Write, Delete, Ask, counters
<1>5. ASSUME NEW t \in Txs, PrepareFails(t) \/ CommitFails(t) \/ AbortFails(t)
      PROVE  faults' \in {faults, faults + 1}
  BY <1>3, <1>5 DEF PrepareFails, CommitFails, AbortFails
<1>6. CASE \E t \in Txs : RouterStep(t)
  BY <1>5, <1>6
     DEF RouterStep, SendPrepare, ReceiveVote, SendCommit, ReceiveCommitted,
         SendAbort, ReceiveAborted, DecideCommit, Reply, counters
<1>7. CASE \E t \in Txs : Fault(t)
  BY <1>2, <1>3, <1>5, <1>7 DEF Fault, EndContext, EnlistUnknown, AskFails
<1>8. CASE \E s \in Shards, t \in Txs : ShardStep(s, t)
  BY <1>8 DEF ShardStep, counters
<1>9. CASE CrashStep
  BY <1>2, <1>9 DEF CrashStep
<1>10. CASE UNCHANGED vars
  BY <1>10 DEF vars, counters
<1> QED
  BY <1>4, <1>6, <1>7, <1>8, <1>9, <1>10 DEF Next

LEMMA CleanStep ==
  ASSUME CleanInv, [Next]_vars
  PROVE  CleanInv'
<1>1. ClusterInv' /\ faults' \in Nat
  BY ClusterStep, FaultsCounted DEF CleanInv
<1>2. prior' \in [Txs -> SUBSET Txs]
  <2>1. UNCHANGED prior \/ \E t \in Txs : TxBegin(t)
    BY DEF Next, ClientStep, Enlist, Read, Write, Delete, Ask, RouterStep,
           SendPrepare, ReceiveVote, DecideCommit, SendCommit,
           ReceiveCommitted, SendAbort, ReceiveAborted, Reply, PrepareFails, CommitFails,
           AbortFails, ShardStep, Fault, EndContext, EnlistUnknown, AskFails,
           CrashStep, vars
  <2> QED
    BY <2>1 DEF TxBegin, CleanInv
<1> QED
  BY <1>1, <1>2, FaultFreeStep, FaultsCounted DEF CleanInv

LEMMA CleanInit ==
  ASSUME Init
  PROVE  CleanInv
<1>1. ClusterInv
  BY InitCluster
<1>2. \A s \in Shards, t \in Txs : Attended(s, t) /\ Installs(s, t)
  BY DEF Init, ShardInit, RouterInit, Attended, Installs
<1>3. \A t \in Txs : alive[t] /\ InOrder(t)
  BY DEF Init, ShardInit, RouterInit, InOrder
<1>4. LockersIntact /\ ReadsFollowCommits
  BY DEF Init, ShardInit, LockersIntact, ReadsFollowCommits
<1> QED
  BY <1>1, <1>2, <1>3, <1>4 DEF Init, CleanInv, FaultFree

(* Until a call is lost, a context ends or a process crashes.              *)
THEOREM CleanInvariant == Spec => []CleanInv
<1>1. Init => CleanInv
  BY CleanInit
<1>2. CleanInv /\ [Next]_vars => CleanInv'
  BY CleanStep
<1> QED
  BY <1>1, <1>2, PTL DEF Spec

(* mulberry.go Commit, shard.go Commit: when the client is told that its   *)
(* transaction is committed, every write is in the store, at the commit    *)
(* time; no version was refused and no shard passed over.                  *)
THEOREM CommitsReachEveryShard == Spec => [](faults = 0 => CommittedEverywhere)
<1>1. CleanInv => (faults = 0 => CommittedEverywhere)
  <2>1. SUFFICES ASSUME CleanInv, faults = 0, NEW t \in Txs,
                        answer[t] = "committed", NEW k \in Keys,
                        writes[t][k] # None, Home[k] \in involved[t]
                 PROVE  \E v \in store[k] : v.tx = t /\ v.version = commitTime[t]
    BY DEF CommittedEverywhere
  <2>2. phase[t] = "done" /\ commitTime[t] # 0 /\ wait[t] = None
    BY <2>1 DEF CleanInv, ClusterInv, HandlerInv
  <2>3. Home[k] \in visited[t] /\ Home[k] \in Shards
    BY <2>1, <2>2 DEF CleanInv, FaultFree, InOrder
  <2>4. pc[Home[k]][t] = "idle" /\ Installs(Home[k], t)
    BY <2>1, <2>2, <2>3, NoneIsNoShard, NotWaited DEF CleanInv, FaultFree
  <2> QED
    BY <2>1, <2>2, <2>3, <2>4 DEF Installs, WriteKeys, KeysOf
<1> QED
  BY <1>1, CleanInvariant, PTL

(* shard.go cleanup: a transaction that is over holds no lock, no buffer   *)
(* and no handler, at any shard.                                           *)
THEOREM NothingIsLeft == Spec => [](faults = 0 => NothingLeft)
<1>1. CleanInv => (faults = 0 => NothingLeft)
  <2>1. SUFFICES ASSUME CleanInv, faults = 0, NEW t \in Txs, phase[t] = "done"
                 PROVE  /\ \A k \in Keys : locks[k] # t
                        /\ \A s \in Shards :
                             /\ t \notin buffers[s]
                             /\ pc[s][t] = "idle" /\ dropping[s][t] = "idle"
                             /\ status[s][t] \in {"none", "committed", "aborted"}
    BY DEF NothingLeft
  <2>2. wait[t] = None /\ visited[t] = involved[t]
    BY <2>1 DEF CleanInv, ClusterInv, HandlerInv, FaultFree, InOrder
  <2>3. ASSUME NEW s \in Shards
        PROVE  /\ t \notin buffers[s]
               /\ pc[s][t] = "idle" /\ dropping[s][t] = "idle"
               /\ status[s][t] \in {"none", "committed", "aborted"}
    <3>1. /\ Attended(s, t) /\ CallInv(s, t)
          /\ pc[s][t] = "idle" /\ dropping[s][t] = "idle"
      BY <2>1, <2>2, NoneIsNoShard, NotWaited DEF CleanInv, ClusterInv, FaultFree
    <3>2. CASE s \in involved[t]
      BY <2>1, <2>2, <3>1, <3>2 DEF Attended
    <3>3. CASE s \notin involved[t]
      BY <3>1, <3>3 DEF Attended, CallInv, Uncalled, Open
    <3> QED
      BY <3>1, <3>2, <3>3
  <2> QED
    BY <2>1, <2>3 DEF CleanInv, FaultFree, LockersIntact, Intact
<1> QED
  BY <1>1, CleanInvariant, PTL

(* mulberry.go BeginTransaction, store.go Get: a transaction reads what    *)
(* had been committed through its router before it began, or later.        *)
THEOREM ReadsAreRecent == Spec => [](faults = 0 => ReadsFollowCommits)
<1>1. CleanInv => (faults = 0 => ReadsFollowCommits)
  BY DEF CleanInv, FaultFree
<1> QED
  BY <1>1, CleanInvariant, PTL
=============================================================================
