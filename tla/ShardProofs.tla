---------------------------- MODULE ShardProofs ----------------------------
(* Theorems about ShardSpec, for every set of shards, transactions and     *)
(* keys, every assignment of levels and every wall clock.                  *)
EXTENDS Shard, TLAPS

USE DeploymentAssumption, NoneAssumption

LEMMA FindLatestType ==
  ASSUME NEW vs \in SUBSET Version
  PROVE  FindLatest(vs) \in ReadRecord
BY DEF FindLatest, Latest, NotFound, ReadRecord, Version

LEMMA GetType ==
  ASSUME NEW vs \in SUBSET Version, NEW time \in Nat
  PROVE  FindAt(vs, time) \in ReadRecord
BY FindLatestType, {v \in vs : v.version <= time} \in SUBSET Version DEF FindAt

LEMMA TickType ==
  ASSUME NEW c \in Nat, NEW now \in Wall
  PROVE  Tick(c, now) \in Nat /\ Tick(c, now) > c
BY DEF Tick

LEMMA UpdateType ==
  ASSUME NEW c \in Nat, NEW ct \in Nat, NEW now \in Wall
  PROVE  Update(c, ct, now) \in Nat /\ Update(c, ct, now) > c
           /\ Update(c, ct, now) > ct
BY DEF Tick, Update

LEMMA HlcTickType ==
  ASSUME TypeOK, NEW s \in Shards, HlcTick(s)
  PROVE  /\ clock' \in [Shards -> Nat]
         /\ clock'[s] > clock[s]
         /\ \A s2 \in Shards : clock'[s2] >= clock[s2]
BY TickType DEF HlcTick, TypeOK

LEMMA AnswerType ==
  ASSUME TypeOK, NEW s \in Shards, NEW t \in Txs, NEW answer \in Replies,
         Answer(s, t, answer)
  PROVE  /\ pc' \in [Shards -> [Txs -> Positions]]
         /\ todo' \in [Shards -> [Txs -> SUBSET Keys]]
         /\ reply' \in [Shards -> [Txs -> Replies]]
BY DEF TypeOK, Answer, Positions

LEMMA LoopType ==
  ASSUME TypeOK, NEW s \in Shards, NEW t \in Txs, NEW position \in Positions,
         NEW ks \in SUBSET Keys, Loop(s, t, position, ks)
  PROVE  /\ pc' \in [Shards -> [Txs -> Positions]]
         /\ todo' \in [Shards -> [Txs -> SUBSET Keys]]
BY DEF TypeOK, Loop

LEMMA VisitType ==
  ASSUME TypeOK, NEW s \in Shards, NEW t \in Txs, NEW k \in Keys, Visit(s, t, k)
  PROVE  todo' \in [Shards -> [Txs -> SUBSET Keys]]
BY DEF TypeOK, Visit

LEMMA MarkType ==
  ASSUME TypeOK, NEW s \in Shards, NEW t \in Txs,
         NEW final \in {"committed", "aborted"}, Mark(s, t, final)
  PROVE  status' \in [Shards -> [Txs -> Statuses]]
<1> DEFINE row == [status[s] EXCEPT ![t] = IF @ = "none" THEN @ ELSE final]
<1>1. row \in [Txs -> Statuses]
  BY DEF Statuses, TypeOK
<1>2. status' = [status EXCEPT ![s] = row]
  BY DEF Mark
<1> HIDE DEF row
<1> QED
  BY <1>1, <1>2 DEF TypeOK

LEMMA AbortCleanupType ==
  ASSUME TypeOK, NEW s \in Shards, NEW t \in Txs, NEW at, AbortCleanup(s, t, at)
  PROVE  /\ locks' \in [Keys -> Txs \cup {None}]
         /\ buffers' \in [Shards -> SUBSET Txs]
         /\ status' \in [Shards -> [Txs -> Statuses]]
         /\ clock' \in [Shards -> Nat]
<1>1. locks' \in [Keys -> Txs \cup {None}]
  BY DEF AbortCleanup, Release, TypeOK
<1>2. buffers' \in [Shards -> SUBSET Txs]
  BY DEF AbortCleanup, Remove, TypeOK
<1>3. status' \in [Shards -> [Txs -> Statuses]]
  BY MarkType DEF AbortCleanup, TypeOK
<1> QED
  BY <1>1, <1>2, <1>3, HlcTickType DEF AbortCleanup, TypeOK

LEMMA AfterType ==
  ASSUME NEW at \in Cleanups
  PROVE  /\ After(at) \in {"idle"} \cup Cleanups
         /\ After(at) = "idle" <=> at = "abortTick"
BY DEF After, Cleanups

LEMMA VoteAbortType ==
  ASSUME TypeOK, NEW s \in Shards, NEW t \in Txs, VoteAbort(s, t),
         reply' \in [Shards -> [Txs -> Replies]]
  PROVE  TypeOK'
<1>1. "abortRelease" \in Positions
  BY DEF Positions, Cleanups
<1> QED
  BY <1>1, LoopType DEF VoteAbort, TypeOK

LEMMA PrepareBeginType ==
  ASSUME TypeOK, NEW s \in Shards, NEW t \in Txs, PrepareBegin(s, t)
  PROVE  TypeOK'
<1>1. CASE t \notin buffers[s]
  BY <1>1, AnswerType DEF PrepareBegin, TypeOK, Replies
<1>2. CASE VoteAbort(s, t) /\ reply' = [reply EXCEPT ![s][t] = "none"]
  <2>1. reply' \in [Shards -> [Txs -> Replies]]
    BY <1>2 DEF TypeOK, Replies
  <2> QED
    BY <1>2, <2>1, VoteAbortType
<1>3. CASE /\ status' = [status EXCEPT ![s][t] = "running"]
           /\ ptime' = [ptime EXCEPT ![s][t] = 0]
           /\ Loop(s, t, "lock", WriteKeys(s, t))
           /\ reply' = [reply EXCEPT ![s][t] = "none"]
  <2>1. WriteKeys(s, t) \in SUBSET Keys
    BY DEF WriteKeys, KeysOf
  <2>2. /\ pc' \in [Shards -> [Txs -> Positions]]
        /\ todo' \in [Shards -> [Txs -> SUBSET Keys]]
    BY <1>3, <2>1, LoopType DEF Positions
  <2> QED
    BY <1>3, <2>2 DEF PrepareBegin, TypeOK, Replies, Statuses
<1> QED
  BY <1>1, <1>2, <1>3 DEF PrepareBegin

LEMMA PrepareAbortsType ==
  ASSUME TypeOK, NEW s \in Shards, NEW t \in Txs, PrepareAborts(s, t)
  PROVE  TypeOK'
<1> DEFINE at == pc[s][t]
<1>1. at \in Cleanups /\ AbortCleanup(s, t, at)
  BY DEF PrepareAborts
<1>2. CASE at = "abortTick"
  <2>1. PICK answer \in Replies : Answer(s, t, answer)
    BY <1>2 DEF PrepareAborts, Replies
  <2> QED
    BY <1>1, <2>1, AbortCleanupType, AnswerType DEF PrepareAborts, TypeOK
<1>3. CASE at # "abortTick"
  <2>1. After(at) \in Positions
    BY <1>1, AfterType DEF Positions
  <2>2. Loop(s, t, After(at), {}) /\ UNCHANGED reply
    BY <1>3 DEF PrepareAborts
  <2> QED
    BY <1>1, <2>1, <2>2, AbortCleanupType, LoopType DEF PrepareAborts, TypeOK
<1> QED
  BY <1>2, <1>3

LEMMA AbortAtType ==
  ASSUME TypeOK, NEW s \in Shards, NEW t \in Txs, NEW at \in Cleanups,
         AbortAt(s, t, at)
  PROVE  TypeOK'
<1>1. dropping' \in [Shards -> [Txs -> {"idle"} \cup Cleanups]]
  BY AfterType DEF AbortAt, TypeOK
<1> QED
  BY <1>1, AbortCleanupType DEF AbortAt, TypeOK

LEMMA AbortType ==
  ASSUME TypeOK, NEW s \in Shards, NEW t \in Txs, Abort(s, t)
  PROVE  TypeOK'
BY AbortAtType DEF Abort, Cleanups

LEMMA HandlerType ==
  ASSUME TypeOK, NEW s \in Shards, NEW t \in Txs, PutsWrites(s, t), Handler(s, t)
  PROVE  TypeOK'
<1>1. ASSUME NEW k \in KeysOf(s), PrepareLock(s, t, k)
      PROVE  TypeOK'
  <2>1. k \in Keys
    BY DEF KeysOf
  <2>2. CASE CanLock(t, k)
    <3>1. locks' \in [Keys -> Txs \cup {None}]
      BY <1>1, <2>1, <2>2 DEF PrepareLock, TypeOK
    <3> QED
      BY <1>1, <2>1, <2>2, <3>1, VisitType DEF PrepareLock, TypeOK
  <2>3. CASE ~CanLock(t, k)
    BY <1>1, <2>3, VoteAbortType DEF PrepareLock, TypeOK
  <2> QED
    BY <2>2, <2>3
<1>2. ASSUME NEW k \in KeysOf(s), PrepareCheckWrite(s, t, k)
      PROVE  TypeOK'
  <2>1. k \in Keys
    BY DEF KeysOf
  <2> QED
    BY <1>2, <2>1, VisitType, VoteAbortType DEF PrepareCheckWrite, TypeOK
<1>3. ASSUME NEW k \in KeysOf(s), PrepareCheckRead(s, t, k)
      PROVE  TypeOK'
  <2>1. k \in Keys
    BY DEF KeysOf
  <2> QED
    BY <1>3, <2>1, VisitType, VoteAbortType DEF PrepareCheckRead, TypeOK
<1>4. ASSUME NEW k \in KeysOf(s), CommitPut(s, t, k)
      PROVE  TypeOK'
  <2>1. k \in Keys /\ Visit(s, t, k)
    BY <1>4 DEF KeysOf, CommitPut
  <2>2. todo' \in [Shards -> [Txs -> SUBSET Keys]]
    BY <2>1, VisitType
  <2>3. k \in WriteKeys(s, t)
    BY <1>4 DEF CommitPut, PutsWrites
  <2>5. writes[t][k].deleted \in BOOLEAN
    BY <2>1, <2>3 DEF WriteKeys, WriteOp, TypeOK
  <2>4. store' \in [Keys -> SUBSET Version]
    BY <1>4, <2>1, <2>5 DEF CommitPut, TypeOK, Version
  <2> QED
    BY <1>4, <2>2, <2>4 DEF CommitPut, TypeOK
<1>5. ASSUME PrepareNext(s, t)
      PROVE  TypeOK'
  <2>1. PICK position \in Positions, ks \in SUBSET Keys : Loop(s, t, position, ks)
    <3>1. WriteKeys(s, t) \in SUBSET Keys /\ ReadKeys(s, t) \in SUBSET Keys
      BY DEF WriteKeys, ReadKeys, KeysOf
    <3> QED
      BY <1>5, <3>1 DEF PrepareNext, Positions
  <2>2. /\ pc' \in [Shards -> [Txs -> Positions]]
        /\ todo' \in [Shards -> [Txs -> SUBSET Keys]]
    BY <2>1, LoopType
  <2> QED
    BY <1>5, <2>2 DEF PrepareNext, TypeOK
<1>6. ASSUME PrepareVote(s, t)
      PROVE  TypeOK'
  <2>1. clock' \in [Shards -> Nat]
    BY <1>6, HlcTickType DEF PrepareVote
  <2>2. ptime' \in [Shards -> [Txs -> Nat]]
    BY <1>6, <2>1 DEF PrepareVote, TypeOK
  <2>3. status' \in [Shards -> [Txs -> Statuses]]
    BY <1>6 DEF PrepareVote, TypeOK, Statuses
  <2> QED
    BY <1>6, <2>1, <2>2, <2>3, AnswerType DEF PrepareVote, TypeOK, Replies
<1>7. ASSUME CommitClock(s, t)
      PROVE  TypeOK'
  <2>1. clock' \in [Shards -> Nat]
    BY <1>7, UpdateType DEF CommitClock, TypeOK
  <2>2. /\ pc' \in [Shards -> [Txs -> Positions]]
        /\ todo' \in [Shards -> [Txs -> SUBSET Keys]]
    BY <1>7, LoopType DEF CommitClock, Positions
  <2> QED
    BY <1>7, <2>1, <2>2 DEF CommitClock, TypeOK
<1>8. ASSUME CommitCleanup(s, t)
      PROVE  TypeOK'
  <2>1. locks' \in [Keys -> Txs \cup {None}]
    BY <1>8 DEF CommitCleanup, Release, TypeOK
  <2>2. buffers' \in [Shards -> SUBSET Txs]
    BY <1>8 DEF CommitCleanup, Remove, TypeOK
  <2>3. status' \in [Shards -> [Txs -> Statuses]]
    BY <1>8, MarkType DEF CommitCleanup, TypeOK
  <2>4. /\ pc' \in [Shards -> [Txs -> Positions]]
        /\ todo' \in [Shards -> [Txs -> SUBSET Keys]]
        /\ reply' \in [Shards -> [Txs -> Replies]]
    <3>1. \/ Loop(s, t, "remove", {}) /\ UNCHANGED reply
          \/ Loop(s, t, "mark", {}) /\ UNCHANGED reply
          \/ Answer(s, t, "ok")
      BY <1>8 DEF CommitCleanup
    <3>2. {"remove", "mark"} \subseteq Positions /\ "ok" \in Replies
      BY DEF Positions, Replies
    <3> QED
      BY <3>1, <3>2, AnswerType, LoopType DEF TypeOK
  <2> QED
    BY <1>8, <2>1, <2>2, <2>3, <2>4 DEF CommitCleanup, TypeOK
<1>9. ASSUME AbortGoesOn(s, t)
      PROVE  TypeOK'
  BY <1>9, AbortAtType DEF AbortGoesOn
<1> QED
  BY <1>1, <1>2, <1>3, <1>4, <1>5, <1>6, <1>7, <1>8, <1>9, PrepareAbortsType
     DEF Handler

-----------------------------------------------------------------------------
(* The calls of ShardNext without the bounds that a run needs: clients use *)
(* any time, at any reading of the clock.  ShardNext allows no more, and   *)
(* no less when Times is Nat.                                              *)

FreeClientCall(s, t) ==
  /\ Open(s, t)
  /\ \/ TxStart(s, t)
     \/ \E k \in KeysOf(s) :
          \/ /\ <<"read", k>> \in Access[t]
             /\ \E time \in Nat : TxRead(s, t, k, time)
          \/ <<"write", k>> \in Access[t] /\ TxWrite(s, t, k)
          \/ <<"delete", k>> \in Access[t] /\ TxDelete(s, t, k)

FreeCommitCall(s, t) ==
  /\ dropping[s][t] = "idle"
  /\ \/ t \notin buffers[s] /\ CommitBegin(s, t, 0)
     \/ /\ status[s][t] = "prepared"
        /\ \E ct \in Nat : ct > ptime[s][t] /\ CommitBegin(s, t, ct)

FreeAbortCall(s, t) == ~Committing(s, t) /\ Abort(s, t)

FreeStep(s, t) ==
  \/ FreeClientCall(s, t)
  \/ PrepareCall(s, t)
  \/ FreeCommitCall(s, t)
  \/ FreeAbortCall(s, t)
  \/ Handler(s, t)

FreeNext == \E s \in Shards : Crash(s) \/ \E t \in Txs : FreeStep(s, t)

LEMMA FreeIsWider ==
  ASSUME TypeOK, [ShardNext]_shardVars
  PROVE  [FreeNext]_shardVars
<1>1. ASSUME NEW s \in Shards, NEW t \in Txs, CommitCall(s, t)
      PROVE  FreeCommitCall(s, t)
  <2>1. CASE t \notin buffers[s] /\ CommitBegin(s, t, 0)
    BY <1>1, <2>1 DEF CommitCall, FreeCommitCall
  <2>2. ASSUME status[s][t] = "prepared", NEW ahead \in Leads,
               CommitBegin(s, t, ptime[s][t] + 1 + ahead)
        PROVE  FreeCommitCall(s, t)
    <3>1. /\ ptime[s][t] + 1 + ahead \in Nat
          /\ ptime[s][t] + 1 + ahead > ptime[s][t]
      BY DEF TypeOK
    <3> QED
      BY <1>1, <2>2, <3>1 DEF CommitCall, FreeCommitCall
  <2> QED
    BY <1>1, <2>1, <2>2 DEF CommitCall
<1>2. ASSUME NEW s \in Shards, NEW t \in Txs, ClientCall(s, t)
      PROVE  FreeClientCall(s, t)
  BY <1>2 DEF ClientCall, FreeClientCall
<1> QED
  BY <1>1, <1>2 DEF ShardNext, FreeNext, FreeStep, AbortCall, FreeAbortCall

(* Without a bound on the times, the two are the same.                     *)
LEMMA FreeIsShardNext ==
  ASSUME Times = Nat, Leads = Nat, TypeOK, [FreeNext]_shardVars
  PROVE  [ShardNext]_shardVars
<1>1. ASSUME NEW s \in Shards, NEW t \in Txs, FreeCommitCall(s, t)
      PROVE  CommitCall(s, t)
  <2>1. CASE t \notin buffers[s] /\ CommitBegin(s, t, 0)
    BY <1>1, <2>1 DEF CommitCall, FreeCommitCall
  <2>2. ASSUME status[s][t] = "prepared", NEW ct \in Nat, ct > ptime[s][t],
               CommitBegin(s, t, ct)
        PROVE  CommitCall(s, t)
    <3>1. /\ ct - (ptime[s][t] + 1) \in Leads
          /\ ptime[s][t] + 1 + (ct - (ptime[s][t] + 1)) = ct
      BY <2>2 DEF TypeOK
    <3> QED
      BY <1>1, <2>2, <3>1 DEF CommitCall, FreeCommitCall
  <2> QED
    BY <1>1, <2>1, <2>2 DEF FreeCommitCall
<1>2. \A s \in Shards : clock[s] + 1 \in Times
  BY DEF TypeOK
<1>3. ASSUME NEW s \in Shards, NEW t \in Txs, FreeClientCall(s, t)
      PROVE  ClientCall(s, t)
  BY <1>2, <1>3 DEF ClientCall, FreeClientCall
<1> QED
  BY <1>1, <1>2, <1>3 DEF ShardNext, FreeNext, FreeStep, AbortCall, FreeAbortCall

LEMMA ClientOperation ==
  ASSUME NEW s \in Shards, NEW t \in Txs, FreeClientCall(s, t)
  PROVE  /\ Open(s, t)
         /\ \/ TxStart(s, t)
            \/ \E k \in KeysOf(s) : \/ \E time \in Nat : TxRead(s, t, k, time)
                                    \/ \E d \in BOOLEAN : BufferWrite(s, t, k, d)
BY DEF FreeClientCall, TxWrite, TxDelete

LEMMA ClientCallType ==
  ASSUME TypeOK, NEW s \in Shards, NEW t \in Txs, FreeClientCall(s, t)
  PROVE  TypeOK'
<1>1. ASSUME TxStart(s, t)
      PROVE  TypeOK'
  <2>1. buffers' \in [Shards -> SUBSET Txs]
    BY <1>1 DEF TxStart, TypeOK
  <2>2. writes' \in [Txs -> [Keys -> WriteOp \cup {None}]]
    BY <1>1 DEF TxStart, TypeOK
  <2>3. reads' \in [Txs -> [Keys -> ReadRecord \cup {None}]]
    BY <1>1 DEF TxStart, TypeOK
  <2> QED
    BY <1>1, <2>1, <2>2, <2>3 DEF TxStart, TypeOK
<1>2. ASSUME NEW k \in KeysOf(s), NEW time \in Nat, TxRead(s, t, k, time)
      PROVE  TypeOK'
  <2>1. k \in Keys
    BY DEF KeysOf
  <2>2. FindAt(store[k], time) \in ReadRecord
    BY <2>1, GetType DEF TypeOK
  <2>3. reads' \in [Txs -> [Keys -> ReadRecord \cup {None}]]
    BY <1>2, <2>1, <2>2 DEF TxRead, TypeOK
  <2>4. clock' \in [Shards -> Nat]
    BY <1>2, HlcTickType DEF TxRead, TypeOK
  <2> QED
    BY <1>2, <2>3, <2>4 DEF TxRead, TypeOK
<1>3. ASSUME NEW k \in KeysOf(s), NEW d \in BOOLEAN, BufferWrite(s, t, k, d)
      PROVE  TypeOK'
  <2>1. k \in Keys
    BY DEF KeysOf
  <2>2. [deleted |-> d, orig |-> FindLatest(store[k]).version] \in WriteOp
    BY <2>1, FindLatestType DEF TypeOK, WriteOp, ReadRecord
  <2>3. writes' \in [Txs -> [Keys -> WriteOp \cup {None}]]
    BY <1>3, <2>1, <2>2 DEF BufferWrite, TypeOK
  <2> QED
    BY <1>3, <2>3, HlcTickType DEF BufferWrite, TypeOK
<1> QED
  BY <1>1, <1>2, <1>3, ClientOperation

LEMMA CommitBeginType ==
  ASSUME TypeOK, NEW s \in Shards, NEW t \in Txs, NEW ct \in Nat,
         CommitBegin(s, t, ct)
  PROVE  TypeOK'
<1>1. CASE t \notin buffers[s]
  BY <1>1, AnswerType DEF CommitBegin, TypeOK, Replies
<1>2. CASE t \in buffers[s]
  <2>1. WriteKeys(s, t) \in SUBSET Keys
    BY DEF WriteKeys, KeysOf
  <2>2. /\ pc' \in [Shards -> [Txs -> Positions]]
        /\ todo' \in [Shards -> [Txs -> SUBSET Keys]]
    BY <1>2, <2>1, LoopType DEF CommitBegin, Positions
  <2>0. /\ ctime' = [ctime EXCEPT ![s][t] = ct]
        /\ reply' = [reply EXCEPT ![s][t] = "none"]
    BY <1>2, Zenon DEF CommitBegin
  <2>3. ctime' \in [Shards -> [Txs -> Nat]]
    BY <2>0 DEF TypeOK
  <2>4. reply' \in [Shards -> [Txs -> Replies]]
    BY <2>0 DEF TypeOK, Replies
  <2> QED
    BY <1>2, <2>2, <2>3, <2>4 DEF CommitBegin, TypeOK
<1> QED
  BY <1>1, <1>2

LEMMA CrashType ==
  ASSUME TypeOK, NEW s \in Shards, Crash(s)
  PROVE  TypeOK'
<1>1. store' \in [Keys -> SUBSET Version]
  BY DEF Crash, TypeOK
<1>2. writes' \in [Txs -> [Keys -> WriteOp \cup {None}]]
  BY DEF Crash, TypeOK
<1>3. reads' \in [Txs -> [Keys -> ReadRecord \cup {None}]]
  BY DEF Crash, TypeOK
<1>4. locks' \in [Keys -> Txs \cup {None}]
  BY DEF Crash, TypeOK
<1>5. /\ clock' \in [Shards -> Nat]
      /\ buffers' \in [Shards -> SUBSET Txs]
      /\ status' \in [Shards -> [Txs -> Statuses]]
  BY DEF Crash, TypeOK, Statuses
<1>6. /\ ptime' \in [Shards -> [Txs -> Nat]]
      /\ ctime' \in [Shards -> [Txs -> Nat]]
  BY DEF Crash, TypeOK
<1>7. /\ pc' \in [Shards -> [Txs -> Positions]]
      /\ todo' \in [Shards -> [Txs -> SUBSET Keys]]
  BY DEF Crash, TypeOK, Positions
<1>8. reply' \in [Shards -> [Txs -> Replies]]
  BY DEF Crash, TypeOK, Replies
<1>9. dropping' \in [Shards -> [Txs -> {"idle"} \cup Cleanups]]
  BY DEF Crash, TypeOK
<1> QED
  BY <1>1, <1>2, <1>3, <1>4, <1>5, <1>6, <1>7, <1>8, <1>9 DEF TypeOK

LEMMA TypeStep ==
  ASSUME ShardInv, [FreeNext]_shardVars
  PROVE  TypeOK'
<1> USE DEF ShardInv
<1>1. ASSUME NEW s \in Shards, Crash(s)
      PROVE  TypeOK'
  BY <1>1, CrashType
<1>2. ASSUME NEW s \in Shards, NEW t \in Txs, FreeClientCall(s, t)
      PROVE  TypeOK'
  BY <1>2, ClientCallType
<1>3. ASSUME NEW s \in Shards, NEW t \in Txs, PrepareCall(s, t)
      PROVE  TypeOK'
  BY <1>3, PrepareBeginType DEF PrepareCall
<1>4. ASSUME NEW s \in Shards, NEW t \in Txs, FreeCommitCall(s, t)
      PROVE  TypeOK'
  BY <1>4, CommitBeginType DEF FreeCommitCall
<1>5. ASSUME NEW s \in Shards, NEW t \in Txs, FreeAbortCall(s, t)
      PROVE  TypeOK'
  BY <1>5, AbortType DEF FreeAbortCall
<1>6. ASSUME NEW s \in Shards, NEW t \in Txs, Handler(s, t)
      PROVE  TypeOK'
  BY <1>6, HandlerType DEF RowInv
<1>7. CASE UNCHANGED shardVars
  BY <1>7 DEF shardVars, TypeOK
<1> QED
  BY <1>1, <1>2, <1>3, <1>4, <1>5, <1>6, <1>7 DEF FreeNext, FreeStep

-----------------------------------------------------------------------------
(* What a step leaves alone.  SameRow: it changes nothing of transaction t *)
(* at shard s; LockShields: what t has locked there stays locked and keeps *)
(* its versions.                                                           *)

SameRow(s, t) ==
  /\ pc'[s][t] = pc[s][t]
  /\ todo'[s][t] = todo[s][t]
  /\ status'[s][t] = status[s][t]
  /\ ptime'[s][t] = ptime[s][t]
  /\ ctime'[s][t] = ctime[s][t]
  /\ reply'[s][t] = reply[s][t]
  /\ dropping'[s][t] = dropping[s][t]
  /\ t \in buffers'[s] <=> t \in buffers[s]
  /\ \A k \in KeysOf(s) : writes'[t][k] = writes[t][k] /\ reads'[t][k] = reads[t][k]

LockShields(s, t) ==
  \A k \in KeysOf(s) : locks[k] = t => locks'[k] = t /\ store'[k] = store[k]

LEMMA SameSets ==
  ASSUME NEW s \in Shards, NEW t \in Txs, SameRow(s, t)
  PROVE  /\ WriteKeys(s, t)' = WriteKeys(s, t)
         /\ ReadKeys(s, t)' = ReadKeys(s, t)
         /\ Acquired(s, t)' = Acquired(s, t)
         /\ WritesChecked(s, t)' = WritesChecked(s, t)
         /\ ReadsChecked(s, t)' = ReadsChecked(s, t)
         /\ Intact(s, t)' = Intact(s, t)
         /\ Voted(s, t)' = Voted(s, t)
         /\ Committing(s, t)' = Committing(s, t)
<1>1. KeysOf(s)' = KeysOf(s)
  BY DEF KeysOf
<1>2. WriteKeys(s, t)' = WriteKeys(s, t)
  BY <1>1 DEF SameRow, WriteKeys
<1>3. ReadKeys(s, t)' = ReadKeys(s, t)
  BY <1>1 DEF SameRow, ReadKeys
<1>4. Acquired(s, t)' = Acquired(s, t)
  BY <1>2 DEF SameRow, Acquired, Settled
<1>5. WritesChecked(s, t)' = WritesChecked(s, t)
  BY <1>2 DEF SameRow, WritesChecked, Settled
<1>6. ReadsChecked(s, t)' = ReadsChecked(s, t)
  BY <1>2, <1>3 DEF SameRow, ReadsChecked, Settled
<1>7. Intact(s, t)' = Intact(s, t)
  BY DEF SameRow, Intact, Released
<1> QED
  BY <1>2, <1>3, <1>4, <1>5, <1>6, <1>7 DEF SameRow, Voted, Committing

(* What has been checked, and what a voted transaction is going to write,  *)
(* is locked.                                                              *)
LEMMA CheckedIsAcquired ==
  ASSUME NEW s \in Shards, NEW t \in Txs
  PROVE  /\ WritesChecked(s, t) \subseteq Acquired(s, t)
         /\ ReadsChecked(s, t) \subseteq Acquired(s, t)
         /\ Acquired(s, t) \subseteq WriteKeys(s, t)
         /\ WriteKeys(s, t) \subseteq KeysOf(s)
         /\ pc[s][t] = "idle" /\ status[s][t] = "prepared"
              => WriteKeys(s, t) \subseteq Acquired(s, t)
         /\ pc[s][t] \in {"vote", "put", "release"}
              => WriteKeys(s, t) \subseteq Acquired(s, t)
BY DEF WritesChecked, ReadsChecked, Acquired, Settled, WriteKeys

LEMMA RowFrame ==
  ASSUME NEW s \in Shards, NEW t \in Txs, RowInv(s, t), SameRow(s, t),
         LockShields(s, t)
  PROVE  RowInv(s, t)'
<1>1. PutsWrites(s, t)'
  BY SameSets DEF RowInv, PutsWrites, SameRow
<1>2. LocksKept(s, t)'
  BY SameSets, CheckedIsAcquired DEF RowInv, LocksKept, SameRow, LockShields
<1>3. WritesKept(s, t)'
  <2>1. SUFFICES ASSUME Intact(s, t), Level[t] \in {"SI", "SER"},
                        NEW k \in WritesChecked(s, t)
                 PROVE  CASValid(t, k)'
    BY SameSets DEF WritesKept, SameRow
  <2>2. locks[k] = t /\ k \in KeysOf(s)
    BY <2>1, CheckedIsAcquired DEF RowInv, LocksKept
  <2> QED
    BY <2>1, <2>2 DEF RowInv, WritesKept, CASValid, SameRow, LockShields
<1>4. ReadsKept(s, t)'
  <2>1. SUFFICES ASSUME Intact(s, t), Level[t] = "SER",
                        NEW k \in ReadsChecked(s, t)
                 PROVE  ReadValid(t, k)'
    BY SameSets DEF ReadsKept, SameRow
  <2>2. locks[k] = t /\ k \in KeysOf(s)
    BY <2>1, CheckedIsAcquired DEF RowInv, LocksKept
  <2> QED
    BY <2>1, <2>2 DEF RowInv, ReadsKept, ReadValid, SameRow, LockShields
<1>5. CommitIsVoted(s, t)'
  BY SameSets DEF RowInv, CommitIsVoted, SameRow
<1>6. PreparedAbove(s, t)'
  <2>1. SUFFICES ASSUME Voted(s, t), NEW k \in WriteKeys(s, t),
                        pc[s][t] = "idle" \/ (pc[s][t] = "put" /\ k \in todo[s][t])
                 PROVE  \A v \in store'[k] : v.version < ptime[s][t]
    BY SameSets DEF PreparedAbove, SameRow
  <2>2. locks[k] = t /\ k \in KeysOf(s)
    BY <2>1, CheckedIsAcquired DEF RowInv, LocksKept, Voted
  <2> QED
    BY <2>1, <2>2 DEF RowInv, PreparedAbove, LockShields
<1> QED
  BY <1>1, <1>2, <1>3, <1>4, <1>5, <1>6 DEF RowInv

LEMMA BehindFrame ==
  ASSUME TypeOK, TypeOK', BehindClock, UNCHANGED store,
         \A s \in Shards : clock'[s] >= clock[s],
         \A s \in Shards, t \in Txs :
           pc[s][t] = "put" => SameRow(s, t)
  PROVE  BehindClock'
<1>1. SUFFICES ASSUME NEW k \in Keys, NEW v \in store[k]
               PROVE  \/ v.version <= clock'[Home[k]]
                      \/ /\ pc'[Home[k]][v.tx] = "put"
                         /\ k \in WriteKeys(Home[k], v.tx)'
                         /\ v.version = ctime'[Home[k]][v.tx]
  BY DEF BehindClock
<1>2. Home[k] \in Shards /\ v.tx \in Txs /\ v.version \in Nat
  BY DEF TypeOK, Version
<1>3. CASE v.version <= clock[Home[k]]
  BY <1>2, <1>3 DEF TypeOK
<1>4. CASE /\ pc[Home[k]][v.tx] = "put"
           /\ k \in WriteKeys(Home[k], v.tx)
           /\ v.version = ctime[Home[k]][v.tx]
  <2>1. SameRow(Home[k], v.tx)
    BY <1>2, <1>4
  <2> QED
    BY <1>2, <1>4, <2>1, SameSets DEF SameRow
<1> QED
  BY <1>1, <1>3, <1>4 DEF BehindClock

(* A step of transaction t at shard s leaves every other row alone.        *)
LEMMA ReleaseOthers ==
  ASSUME TypeOK, NEW s \in Shards, NEW t \in Txs, Release(s, t),
         NEW s2 \in Shards, NEW t2 \in Txs, s2 # s \/ t2 # t,
         NEW k \in KeysOf(s2), locks[k] = t2
  PROVE  locks'[k] = t2
BY DEF Release, TypeOK, Owned, KeysOf

LEMMA RemoveOthers ==
  ASSUME TypeOK, NEW s \in Shards, NEW t \in Txs, Remove(s, t),
         NEW s2 \in Shards, NEW t2 \in Txs, s2 # s \/ t2 # t
  PROVE  t2 \in buffers'[s2] <=> t2 \in buffers[s2]
BY DEF Remove, TypeOK

LEMMA MarkOthers ==
  ASSUME TypeOK, NEW s \in Shards, NEW t \in Txs, NEW final, Mark(s, t, final),
         NEW s2 \in Shards, NEW t2 \in Txs, s2 # s \/ t2 # t
  PROVE  status'[s2][t2] = status[s2][t2]
BY DEF Mark, TypeOK

LEMMA AnswerOthers ==
  ASSUME TypeOK, NEW s \in Shards, NEW t \in Txs, NEW answer,
         Answer(s, t, answer),
         NEW s2 \in Shards, NEW t2 \in Txs, s2 # s \/ t2 # t
  PROVE  /\ pc'[s2][t2] = pc[s2][t2]
         /\ todo'[s2][t2] = todo[s2][t2]
         /\ reply'[s2][t2] = reply[s2][t2]
BY DEF Answer, TypeOK

LEMMA LoopOthers ==
  ASSUME TypeOK, NEW s \in Shards, NEW t \in Txs, NEW position, NEW ks,
         Loop(s, t, position, ks),
         NEW s2 \in Shards, NEW t2 \in Txs, s2 # s \/ t2 # t
  PROVE  pc'[s2][t2] = pc[s2][t2] /\ todo'[s2][t2] = todo[s2][t2]
BY DEF Loop, TypeOK

LEMMA AbortCleanupOthers ==
  ASSUME TypeOK, NEW s \in Shards, NEW t \in Txs, NEW at, AbortCleanup(s, t, at),
         NEW s2 \in Shards, NEW t2 \in Txs, s2 # s \/ t2 # t
  PROVE  /\ t2 \in buffers'[s2] <=> t2 \in buffers[s2]
         /\ \A k \in KeysOf(s2) : locks[k] = t2 => locks'[k] = t2
         /\ status'[s2][t2] = status[s2][t2]
BY ReleaseOthers, RemoveOthers, MarkOthers DEF AbortCleanup

LEMMA VoteAbortOthers ==
  ASSUME TypeOK, NEW s \in Shards, NEW t \in Txs, VoteAbort(s, t),
         NEW s2 \in Shards, NEW t2 \in Txs, s2 # s \/ t2 # t,
         reply'[s2][t2] = reply[s2][t2]
  PROVE  SameRow(s2, t2) /\ LockShields(s2, t2)
BY LoopOthers DEF VoteAbort, SameRow, LockShields

LEMMA PrepareAbortsOthers ==
  ASSUME TypeOK, NEW s \in Shards, NEW t \in Txs, PrepareAborts(s, t),
         NEW s2 \in Shards, NEW t2 \in Txs, s2 # s \/ t2 # t
  PROVE  SameRow(s2, t2) /\ LockShields(s2, t2)
<1>1. /\ pc'[s2][t2] = pc[s2][t2]
      /\ todo'[s2][t2] = todo[s2][t2]
      /\ reply'[s2][t2] = reply[s2][t2]
  BY AnswerOthers, LoopOthers DEF PrepareAborts
<1> QED
  BY <1>1, AbortCleanupOthers DEF PrepareAborts, SameRow, LockShields

LEMMA ClientCallOthers ==
  ASSUME TypeOK, NEW s \in Shards, NEW t \in Txs, FreeClientCall(s, t),
         NEW s2 \in Shards, NEW t2 \in Txs, s2 # s \/ t2 # t
  PROVE  SameRow(s2, t2) /\ LockShields(s2, t2)
<1>1. ASSUME TxStart(s, t)
      PROVE  SameRow(s2, t2) /\ LockShields(s2, t2)
  <2>1. t2 \in buffers'[s2] <=> t2 \in buffers[s2]
    BY <1>1 DEF TxStart, TypeOK
  <2>2. \A k \in KeysOf(s2) : writes'[t2][k] = writes[t2][k]
    BY <1>1 DEF TxStart, TypeOK, KeysOf
  <2>3. \A k \in KeysOf(s2) : reads'[t2][k] = reads[t2][k]
    BY <1>1 DEF TxStart, TypeOK, KeysOf
  <2> QED
    BY <1>1, <2>1, <2>2, <2>3 DEF TxStart, SameRow, LockShields
<1>2. ASSUME NEW k \in KeysOf(s), NEW time \in Nat, TxRead(s, t, k, time)
      PROVE  SameRow(s2, t2) /\ LockShields(s2, t2)
  <2>1. \A k2 \in KeysOf(s2) : reads'[t2][k2] = reads[t2][k2]
    BY <1>2 DEF TxRead, TypeOK, KeysOf
  <2> QED
    BY <1>2, <2>1 DEF TxRead, SameRow, LockShields
<1>3. ASSUME NEW k \in KeysOf(s), NEW d \in BOOLEAN, BufferWrite(s, t, k, d)
      PROVE  SameRow(s2, t2) /\ LockShields(s2, t2)
  <2>1. \A k2 \in KeysOf(s2) : writes'[t2][k2] = writes[t2][k2]
    BY <1>3 DEF BufferWrite, TypeOK, KeysOf
  <2> QED
    BY <1>3, <2>1 DEF BufferWrite, SameRow, LockShields
<1> QED
  BY <1>1, <1>2, <1>3, ClientOperation

LEMMA PrepareBeginOthers ==
  ASSUME TypeOK, NEW s \in Shards, NEW t \in Txs, PrepareBegin(s, t),
         NEW s2 \in Shards, NEW t2 \in Txs, s2 # s \/ t2 # t
  PROVE  SameRow(s2, t2) /\ LockShields(s2, t2)
<1>1. CASE t \notin buffers[s]
  BY <1>1, AnswerOthers DEF PrepareBegin, SameRow, LockShields
<1>2. CASE VoteAbort(s, t) /\ reply' = [reply EXCEPT ![s][t] = "none"]
  BY <1>2, VoteAbortOthers DEF TypeOK
<1>3. CASE /\ status' = [status EXCEPT ![s][t] = "running"]
           /\ ptime' = [ptime EXCEPT ![s][t] = 0]
           /\ Loop(s, t, "lock", WriteKeys(s, t))
           /\ reply' = [reply EXCEPT ![s][t] = "none"]
  <2>1. /\ status'[s2][t2] = status[s2][t2]
        /\ ptime'[s2][t2] = ptime[s2][t2]
        /\ reply'[s2][t2] = reply[s2][t2]
    BY <1>3 DEF TypeOK
  <2> QED
    BY <1>3, <2>1, LoopOthers DEF PrepareBegin, SameRow, LockShields
<1> QED
  BY <1>1, <1>2, <1>3 DEF PrepareBegin

LEMMA CommitBeginOthers ==
  ASSUME TypeOK, NEW s \in Shards, NEW t \in Txs, NEW ct \in Nat,
         CommitBegin(s, t, ct),
         NEW s2 \in Shards, NEW t2 \in Txs, s2 # s \/ t2 # t
  PROVE  SameRow(s2, t2) /\ LockShields(s2, t2)
<1>1. CASE t \notin buffers[s]
  BY <1>1, AnswerOthers DEF CommitBegin, SameRow, LockShields
<1>2. CASE t \in buffers[s]
  <2>1. /\ ctime'[s2][t2] = ctime[s2][t2]
        /\ reply'[s2][t2] = reply[s2][t2]
    <3>1. /\ ctime' = [ctime EXCEPT ![s][t] = ct]
          /\ reply' = [reply EXCEPT ![s][t] = "none"]
      BY <1>2, Zenon DEF CommitBegin
    <3> QED
      BY <3>1 DEF TypeOK
  <2> QED
    BY <1>2, <2>1, LoopOthers DEF CommitBegin, SameRow, LockShields
<1> QED
  BY <1>1, <1>2

LEMMA AbortOthers ==
  ASSUME TypeOK, NEW s \in Shards, NEW t \in Txs, NEW at, AbortAt(s, t, at),
         NEW s2 \in Shards, NEW t2 \in Txs, s2 # s \/ t2 # t
  PROVE  SameRow(s2, t2) /\ LockShields(s2, t2)
<1>1. dropping'[s2][t2] = dropping[s2][t2]
  BY DEF AbortAt, TypeOK
<1> QED
  BY <1>1, AbortCleanupOthers DEF AbortAt, SameRow, LockShields

LEMMA HandlerOthers ==
  ASSUME TypeOK, NEW s \in Shards, NEW t \in Txs, Handler(s, t), RowInv(s, t),
         NEW s2 \in Shards, NEW t2 \in Txs, s2 # s \/ t2 # t
  PROVE  SameRow(s2, t2) /\ LockShields(s2, t2)
<1>0. ASSUME NEW k \in Keys, Visit(s, t, k)
      PROVE  todo'[s2][t2] = todo[s2][t2]
  BY <1>0 DEF Visit, TypeOK
<1>1. ASSUME NEW k \in KeysOf(s), PrepareLock(s, t, k)
      PROVE  SameRow(s2, t2) /\ LockShields(s2, t2)
  <2>1. CASE CanLock(t, k)
    <3>1. todo'[s2][t2] = todo[s2][t2]
      BY <1>0, <1>1, <2>1 DEF PrepareLock, KeysOf
    <3>2. ASSUME NEW k2 \in KeysOf(s2), locks[k2] = t2
          PROVE  locks'[k2] = t2
      BY <1>1, <2>1, <3>2 DEF PrepareLock, CanLock, TypeOK, KeysOf
    <3> QED
      BY <1>1, <2>1, <3>1, <3>2 DEF PrepareLock, SameRow, LockShields
  <2>2. CASE ~CanLock(t, k)
    BY <1>1, <2>2, VoteAbortOthers DEF PrepareLock
  <2> QED
    BY <2>1, <2>2
<1>2. ASSUME NEW k \in KeysOf(s), PrepareCheckWrite(s, t, k)
      PROVE  SameRow(s2, t2) /\ LockShields(s2, t2)
  BY <1>0, <1>2, VoteAbortOthers
     DEF PrepareCheckWrite, SameRow, LockShields, KeysOf
<1>3. ASSUME NEW k \in KeysOf(s), PrepareCheckRead(s, t, k)
      PROVE  SameRow(s2, t2) /\ LockShields(s2, t2)
  BY <1>0, <1>3, VoteAbortOthers
     DEF PrepareCheckRead, SameRow, LockShields, KeysOf
<1>4. ASSUME NEW k \in KeysOf(s), CommitPut(s, t, k)
      PROVE  SameRow(s2, t2) /\ LockShields(s2, t2)
  <2>1. todo'[s2][t2] = todo[s2][t2]
    BY <1>0, <1>4 DEF CommitPut, KeysOf
  <2>2. k \in WriteKeys(s, t) /\ Intact(s, t)
    BY <1>4 DEF CommitPut, RowInv, PutsWrites, CommitIsVoted, Committing,
                Intact, Released
  <2>3. locks[k] = t
    BY <1>4, <2>2, CheckedIsAcquired DEF CommitPut, RowInv, LocksKept
  <2>4. ASSUME NEW k2 \in KeysOf(s2), locks[k2] = t2
        PROVE  store'[k2] = store[k2]
    BY <1>4, <2>3, <2>4 DEF CommitPut, TypeOK, KeysOf
  <2> QED
    BY <1>4, <2>1, <2>4 DEF CommitPut, SameRow, LockShields
<1>5. ASSUME PrepareNext(s, t)
      PROVE  SameRow(s2, t2) /\ LockShields(s2, t2)
  BY <1>5, LoopOthers DEF PrepareNext, SameRow, LockShields
<1>6. ASSUME PrepareVote(s, t)
      PROVE  SameRow(s2, t2) /\ LockShields(s2, t2)
  <2>1. status'[s2][t2] = status[s2][t2] /\ ptime'[s2][t2] = ptime[s2][t2]
    BY <1>6 DEF PrepareVote, TypeOK
  <2> QED
    BY <1>6, <2>1, AnswerOthers DEF PrepareVote, SameRow, LockShields
<1>7. ASSUME CommitClock(s, t)
      PROVE  SameRow(s2, t2) /\ LockShields(s2, t2)
  BY <1>7, LoopOthers DEF CommitClock, SameRow, LockShields
<1>8. ASSUME CommitCleanup(s, t)
      PROVE  SameRow(s2, t2) /\ LockShields(s2, t2)
  <2>1. /\ pc'[s2][t2] = pc[s2][t2]
        /\ todo'[s2][t2] = todo[s2][t2]
        /\ reply'[s2][t2] = reply[s2][t2]
    BY <1>8, AnswerOthers, LoopOthers DEF CommitCleanup
  <2>2. /\ t2 \in buffers'[s2] <=> t2 \in buffers[s2]
        /\ \A k \in KeysOf(s2) : locks[k] = t2 => locks'[k] = t2
        /\ status'[s2][t2] = status[s2][t2]
    BY <1>8, ReleaseOthers, RemoveOthers, MarkOthers DEF CommitCleanup
  <2> QED
    BY <1>8, <2>1, <2>2 DEF CommitCleanup, SameRow, LockShields
<1> QED
  BY <1>1, <1>2, <1>3, <1>4, <1>5, <1>6, <1>7, <1>8, PrepareAbortsOthers,
     AbortOthers DEF Handler, AbortGoesOn

LEMMA StepOthers ==
  ASSUME TypeOK, NEW s \in Shards, NEW t \in Txs, FreeStep(s, t), RowInv(s, t),
         NEW s2 \in Shards, NEW t2 \in Txs, s2 # s \/ t2 # t
  PROVE  SameRow(s2, t2) /\ LockShields(s2, t2)
<1>1. CASE FreeCommitCall(s, t)
  BY <1>1, CommitBeginOthers DEF FreeCommitCall
<1> QED
  BY <1>1, ClientCallOthers, PrepareBeginOthers, AbortOthers, HandlerOthers
     DEF FreeStep, PrepareCall, FreeAbortCall, Abort

-----------------------------------------------------------------------------
(* What a step of transaction t at shard s does to its own row.            *)

(* A transaction that is in no loop and has not voted owes nothing, and     *)
(* neither does one whose buffer is gone or going.                         *)
LEMMA RestingRow ==
  ASSUME NEW s \in Shards, NEW t \in Txs, pc'[s][t] \in {"idle"} \cup Cleanups,
         status'[s][t] # "prepared"
  PROVE  RowInv(s, t)'
<1>1. pc'[s][t] \notin Positions \ ({"idle"} \cup Cleanups)
  OBVIOUS
<1>2. /\ Acquired(s, t)' = {}
      /\ WritesChecked(s, t)' = {}
      /\ ReadsChecked(s, t)' = {}
      /\ ~Voted(s, t)'
      /\ ~Committing(s, t)'
      /\ pc'[s][t] \notin {"put", "release", "remove", "mark"}
  BY DEF Acquired, WritesChecked, ReadsChecked, Settled, Voted, Committing,
         Cleanups
<1> QED
  BY <1>2 DEF RowInv, PutsWrites, LocksKept, WritesKept, ReadsKept,
              CommitIsVoted, PreparedAbove

LEMMA GoneRow ==
  ASSUME NEW s \in Shards, NEW t \in Txs, ~Intact(s, t)', CommitIsVoted(s, t)',
         PutsWrites(s, t)'
  PROVE  RowInv(s, t)'
BY DEF RowInv, LocksKept, WritesKept, ReadsKept, PreparedAbove, Voted

LEMMA NotCommittingRow ==
  ASSUME NEW s \in Shards, NEW t \in Txs, ~Committing(s, t)',
         status'[s][t] = "prepared" => pc'[s][t] = "idle"
  PROVE  CommitIsVoted(s, t)' /\ PutsWrites(s, t)'
BY DEF CommitIsVoted, PutsWrites, Committing

LEMMA MarkOwn ==
  ASSUME TypeOK, NEW s \in Shards, NEW t \in Txs,
         NEW final \in {"committed", "aborted"}, Mark(s, t, final)
  PROVE  status'[s][t] # "prepared"
BY DEF Mark, TypeOK

LEMMA AnswerOwn ==
  ASSUME TypeOK, NEW s \in Shards, NEW t \in Txs, NEW answer, Answer(s, t, answer)
  PROVE  pc'[s][t] = "idle"
BY DEF Answer, TypeOK

LEMMA LoopOwn ==
  ASSUME TypeOK, NEW s \in Shards, NEW t \in Txs, NEW position, NEW ks,
         Loop(s, t, position, ks)
  PROVE  pc'[s][t] = position /\ todo'[s][t] = ks
BY DEF Loop, TypeOK

LEMMA VisitOwn ==
  ASSUME TypeOK, NEW s \in Shards, NEW t \in Txs, NEW k, Visit(s, t, k)
  PROVE  todo'[s][t] = todo[s][t] \ {k}
BY DEF Visit, TypeOK

LEMMA SameWriteKeys ==
  ASSUME NEW s \in Shards, NEW t \in Txs, UNCHANGED <<writes, reads>>
  PROVE  WriteKeys(s, t)' = WriteKeys(s, t) /\ ReadKeys(s, t)' = ReadKeys(s, t)
BY DEF WriteKeys, ReadKeys, KeysOf

LEMMA VoteAbortRow ==
  ASSUME TypeOK, NEW s \in Shards, NEW t \in Txs, VoteAbort(s, t),
         status[s][t] # "prepared"
  PROVE  RowInv(s, t)'
BY LoopOwn, RestingRow DEF VoteAbort, Cleanups

LEMMA PrepareAbortsRow ==
  ASSUME TypeOK, NEW s \in Shards, NEW t \in Txs, RowInv(s, t),
         PrepareAborts(s, t)
  PROVE  RowInv(s, t)'
<1>1. /\ pc[s][t] \in Cleanups
      /\ AbortCleanup(s, t, pc[s][t])
  BY DEF PrepareAborts
<1>2. pc'[s][t] \in {"idle"} \cup Cleanups
  BY <1>1, AnswerOwn, LoopOwn, AfterType DEF PrepareAborts
<1>3. status[s][t] # "prepared"
  BY <1>1 DEF RowInv, CommitIsVoted, Committing, Cleanups
<1>4. status'[s][t] # "prepared"
  BY <1>1, <1>3, MarkOwn DEF AbortCleanup
<1> QED
  BY <1>2, <1>4, RestingRow

LEMMA ClientCallRow ==
  ASSUME TypeOK, NEW s \in Shards, NEW t \in Txs, FreeClientCall(s, t)
  PROVE  RowInv(s, t)'
<1>1. UNCHANGED <<pc, status>>
  BY DEF FreeClientCall, TxStart, TxRead, TxWrite, TxDelete, BufferWrite
<1> QED
  BY <1>1, RestingRow DEF FreeClientCall, Open

LEMMA PrepareCallRow ==
  ASSUME TypeOK, NEW s \in Shards, NEW t \in Txs, PrepareCall(s, t)
  PROVE  RowInv(s, t)'
<1>1. CASE Answer(s, t, "error") /\ UNCHANGED status
  BY <1>1, AnswerOwn, RestingRow DEF PrepareCall, Open
<1>2. CASE VoteAbort(s, t)
  BY <1>2, VoteAbortRow DEF PrepareCall, Open
<1>3. CASE /\ status' = [status EXCEPT ![s][t] = "running"]
           /\ Loop(s, t, "lock", WriteKeys(s, t))
  <2>1. UNCHANGED <<writes, reads>>
    BY DEF PrepareCall, PrepareBegin
  <2>2. /\ pc'[s][t] = "lock"
        /\ todo'[s][t] = WriteKeys(s, t)
        /\ status'[s][t] = "running"
    BY <1>3, LoopOwn DEF TypeOK
  <2>3. WriteKeys(s, t)' = WriteKeys(s, t)
    BY <2>1, SameWriteKeys
  <2>4. /\ Acquired(s, t)' = {}
        /\ WritesChecked(s, t)' = {}
        /\ ReadsChecked(s, t)' = {}
        /\ ~Voted(s, t)'
        /\ ~Committing(s, t)'
    BY <2>2, <2>3
       DEF Acquired, WritesChecked, ReadsChecked, Settled, Voted, Committing
  <2> QED
    BY <2>2, <2>4 DEF RowInv, PutsWrites, LocksKept, WritesKept, ReadsKept,
                      CommitIsVoted, PreparedAbove
<1> QED
  BY <1>1, <1>2, <1>3 DEF PrepareCall, PrepareBegin

(* An Abort beside a Prepare: once it begins, the buffer is as good as     *)
(* gone; its last two steps leave locks, versions and operations alone.    *)
LEMMA AbortAtRow ==
  ASSUME TypeOK, NEW s \in Shards, NEW t \in Txs, RowInv(s, t),
         ~Committing(s, t), NEW at \in Cleanups, AbortAt(s, t, at),
         at = "abortRelease" \/ at = dropping[s][t]
  PROVE  RowInv(s, t)'
<1>1. /\ UNCHANGED <<store, writes, reads, ptime, ctime, pc, todo>>
      /\ AbortCleanup(s, t, at)
      /\ dropping'[s][t] = After(at)
  BY DEF AbortAt, TypeOK
<1>2. status'[s][t] = status[s][t] \/ status'[s][t] # "prepared"
  BY <1>1, MarkOwn DEF AbortCleanup
<1>3. CommitIsVoted(s, t)' /\ PutsWrites(s, t)'
  <2>1. ~Committing(s, t)'
    BY <1>1 DEF Committing
  <2>2. status'[s][t] = "prepared" => pc'[s][t] = "idle"
    BY <1>1, <1>2 DEF RowInv, CommitIsVoted
  <2> QED
    BY <2>1, <2>2, NotCommittingRow
<1>4. CASE at = "abortRelease"
  <2>1. ~Intact(s, t)'
    BY <1>1, <1>4 DEF Intact, Released, After
  <2> QED
    BY <1>3, <2>1, GoneRow
<1>5. CASE at = "abortRemove"
  <2>1. ~Intact(s, t)'
    BY <1>1, <1>5 DEF AbortCleanup, Remove, Intact, TypeOK
  <2> QED
    BY <1>3, <2>1, GoneRow
<1>6. CASE at \in {"abortMark", "abortTick"} /\ Intact(s, t)'
  <2>1. UNCHANGED <<locks, buffers>>
    BY <1>1, <1>6 DEF AbortCleanup
  <2>2. Intact(s, t)
    BY <1>1, <1>6, <2>1 DEF Intact, Released
  <2>3. /\ WriteKeys(s, t)' = WriteKeys(s, t)
        /\ ReadKeys(s, t)' = ReadKeys(s, t)
    BY <1>1, SameWriteKeys
  <2>4. /\ Acquired(s, t)' \subseteq Acquired(s, t)
        /\ WritesChecked(s, t)' \subseteq WritesChecked(s, t)
        /\ ReadsChecked(s, t)' \subseteq ReadsChecked(s, t)
    BY <1>1, <1>2, <2>3 DEF Acquired, WritesChecked, ReadsChecked, Settled
  <2>5. LocksKept(s, t)' /\ WritesKept(s, t)' /\ ReadsKept(s, t)'
    BY <1>1, <2>1, <2>2, <2>4
       DEF RowInv, LocksKept, WritesKept, ReadsKept, CASValid, ReadValid
  <2>6. PreparedAbove(s, t)'
    BY <1>1, <1>2, <2>2, <2>3 DEF RowInv, PreparedAbove, Voted
  <2> QED
    BY <1>3, <2>5, <2>6 DEF RowInv
<1> QED
  BY <1>3, <1>4, <1>5, <1>6, GoneRow DEF Cleanups

LEMMA AbortCallRow ==
  ASSUME TypeOK, NEW s \in Shards, NEW t \in Txs, RowInv(s, t),
         FreeAbortCall(s, t)
  PROVE  RowInv(s, t)'
BY AbortAtRow DEF FreeAbortCall, Abort, Cleanups

LEMMA AbortGoesOnRow ==
  ASSUME TypeOK, NEW s \in Shards, NEW t \in Txs, RowInv(s, t),
         AbortGoesOn(s, t)
  PROVE  RowInv(s, t)'
<1>1. ~Committing(s, t)
  BY DEF RowInv, CommitIsVoted, AbortGoesOn, Cleanups
<1> QED
  BY <1>1, AbortAtRow DEF AbortGoesOn

LEMMA PrepareLockRow ==
  ASSUME ShardInv, NEW s \in Shards, NEW t \in Txs, NEW k \in KeysOf(s),
         PrepareLock(s, t, k)
  PROVE  RowInv(s, t)'
<1>1. TypeOK /\ RowInv(s, t)
  BY DEF ShardInv
<1>2. CASE CanLock(t, k)
  <2>1. /\ UNCHANGED <<store, buffers, writes, reads, status, ptime, ctime, pc,
                       dropping>>
        /\ pc[s][t] = "lock"
        /\ locks' = [locks EXCEPT ![k] = t]
        /\ todo'[s][t] = todo[s][t] \ {k}
    BY <1>1, <1>2, VisitOwn DEF PrepareLock
  <2>2. WriteKeys(s, t)' = WriteKeys(s, t)
    BY <2>1, SameWriteKeys
  <2>3. /\ Acquired(s, t)' \subseteq Acquired(s, t) \cup {k}
        /\ Acquired(s, t)' \subseteq Keys
        /\ WritesChecked(s, t)' = {}
        /\ ReadsChecked(s, t)' = {}
        /\ ~Committing(s, t)'
        /\ status[s][t] # "prepared"
        /\ Intact(s, t)' = Intact(s, t)
    BY <1>1, <2>1, <2>2
       DEF Acquired, WritesChecked, ReadsChecked, Settled, Committing, RowInv,
           CommitIsVoted, WriteKeys, KeysOf, Intact, Released
  <2>4. LocksKept(s, t)'
    BY <1>1, <2>1, <2>3 DEF RowInv, LocksKept, TypeOK
  <2>5. ~Voted(s, t)'
    BY <2>1, <2>3 DEF Voted
  <2> QED
    BY <2>1, <2>3, <2>4, <2>5 DEF RowInv, PutsWrites, WritesKept, ReadsKept,
                                  CommitIsVoted, PreparedAbove
<1>3. CASE ~CanLock(t, k)
  BY <1>1, <1>3, VoteAbortRow
     DEF PrepareLock, RowInv, CommitIsVoted, Committing
<1> QED
  BY <1>2, <1>3

LEMMA PrepareCheckWriteRow ==
  ASSUME ShardInv, NEW s \in Shards, NEW t \in Txs, NEW k \in KeysOf(s),
         PrepareCheckWrite(s, t, k)
  PROVE  RowInv(s, t)'
<1>1. TypeOK /\ RowInv(s, t)
  BY DEF ShardInv
<1>2. CASE CASValid(t, k)
  <2>1. /\ UNCHANGED <<store, buffers, writes, reads, locks, status, ptime,
                       ctime, pc, dropping>>
        /\ pc[s][t] = "checkWrites"
        /\ todo'[s][t] = todo[s][t] \ {k}
    BY <1>1, <1>2, VisitOwn DEF PrepareCheckWrite
  <2>2. WriteKeys(s, t)' = WriteKeys(s, t)
    BY <2>1, SameWriteKeys
  <2>3. /\ Acquired(s, t)' = Acquired(s, t)
        /\ WritesChecked(s, t)' \subseteq WritesChecked(s, t) \cup {k}
        /\ ReadsChecked(s, t)' = {}
        /\ ~Committing(s, t)'
        /\ status[s][t] # "prepared"
        /\ Intact(s, t)' = Intact(s, t)
    BY <1>1, <2>1, <2>2
       DEF Acquired, WritesChecked, ReadsChecked, Settled, Committing, RowInv,
           CommitIsVoted, Intact, Released
  <2>4. LocksKept(s, t)'
    BY <1>1, <2>1, <2>3 DEF RowInv, LocksKept
  <2>5. WritesKept(s, t)'
    BY <1>1, <1>2, <2>1, <2>3 DEF RowInv, WritesKept, CASValid
  <2>6. ~Voted(s, t)'
    BY <2>1, <2>3 DEF Voted
  <2> QED
    BY <2>1, <2>3, <2>4, <2>5, <2>6 DEF RowInv, PutsWrites, ReadsKept,
                                        CommitIsVoted, PreparedAbove
<1>3. CASE ~CASValid(t, k)
  BY <1>1, <1>3, VoteAbortRow
     DEF PrepareCheckWrite, RowInv, CommitIsVoted, Committing
<1> QED
  BY <1>2, <1>3

LEMMA PrepareCheckReadRow ==
  ASSUME ShardInv, NEW s \in Shards, NEW t \in Txs, NEW k \in KeysOf(s),
         PrepareCheckRead(s, t, k)
  PROVE  RowInv(s, t)'
<1>1. TypeOK /\ RowInv(s, t)
  BY DEF ShardInv
<1>2. CASE ReadValid(t, k)
  <2>1. /\ UNCHANGED <<store, buffers, writes, reads, locks, status, ptime,
                       ctime, pc, dropping>>
        /\ pc[s][t] = "checkReads"
        /\ todo'[s][t] = todo[s][t] \ {k}
    BY <1>1, <1>2, VisitOwn DEF PrepareCheckRead
  <2>2. /\ WriteKeys(s, t)' = WriteKeys(s, t)
        /\ ReadKeys(s, t)' = ReadKeys(s, t)
    BY <2>1, SameWriteKeys
  <2>3. /\ Acquired(s, t)' = Acquired(s, t)
        /\ WritesChecked(s, t)' = WritesChecked(s, t)
        /\ ReadsChecked(s, t)' \subseteq ReadsChecked(s, t) \cup {k}
        /\ ~Committing(s, t)'
        /\ status[s][t] # "prepared"
        /\ Intact(s, t)' = Intact(s, t)
    BY <1>1, <2>1, <2>2
       DEF Acquired, WritesChecked, ReadsChecked, Settled, Committing, RowInv,
           CommitIsVoted, Intact, Released
  <2>4. LocksKept(s, t)'
    BY <1>1, <2>1, <2>3 DEF RowInv, LocksKept
  <2>5. WritesKept(s, t)'
    BY <1>1, <2>1, <2>3 DEF RowInv, WritesKept, CASValid
  <2>6. ReadsKept(s, t)'
    BY <1>1, <1>2, <2>1, <2>3 DEF RowInv, ReadsKept, ReadValid
  <2>7. ~Voted(s, t)'
    BY <2>1, <2>3 DEF Voted
  <2> QED
    BY <2>1, <2>3, <2>4, <2>5, <2>6, <2>7 DEF RowInv, PutsWrites,
                                              CommitIsVoted, PreparedAbove
<1>3. CASE ~ReadValid(t, k)
  BY <1>1, <1>3, VoteAbortRow
     DEF PrepareCheckRead, RowInv, CommitIsVoted, Committing
<1> QED
  BY <1>2, <1>3

LEMMA PrepareNextRow ==
  ASSUME ShardInv, NEW s \in Shards, NEW t \in Txs, PrepareNext(s, t)
  PROVE  RowInv(s, t)'
<1>1. TypeOK /\ RowInv(s, t)
  BY DEF ShardInv
<1>2. /\ UNCHANGED <<store, buffers, writes, reads, locks, status, ptime,
                     dropping>>
      /\ todo[s][t] = {}
      /\ pc[s][t] \in {"lock", "checkWrites", "checkReads"}
  BY DEF PrepareNext
<1>3. /\ WriteKeys(s, t)' = WriteKeys(s, t)
      /\ ReadKeys(s, t)' = ReadKeys(s, t)
  BY <1>2, SameWriteKeys
<1>4. /\ pc'[s][t] \in {"checkWrites", "checkReads", "vote"}
      /\ pc'[s][t] = "checkWrites" => /\ pc[s][t] = "lock"
                                      /\ todo'[s][t] = WriteKeys(s, t)
      /\ pc'[s][t] = "checkReads" => /\ pc[s][t] = "checkWrites"
                                     /\ todo'[s][t] = ReadKeys(s, t)
      /\ pc'[s][t] = "vote" =>
           \/ pc[s][t] = "lock" /\ Level[t] \notin {"SI", "SER"}
           \/ pc[s][t] = "checkWrites" /\ Level[t] # "SER"
           \/ pc[s][t] = "checkReads"
  BY <1>1, LoopOwn DEF PrepareNext
<1>5. /\ Acquired(s, t) = WriteKeys(s, t)
      /\ Acquired(s, t)' = WriteKeys(s, t)
  BY <1>2, <1>3, <1>4 DEF Acquired
<1>6. /\ ~Committing(s, t)'
      /\ status[s][t] # "prepared"
      /\ ~Voted(s, t)'
      /\ Intact(s, t)' = Intact(s, t)
      /\ CommitIsVoted(s, t)'
  BY <1>1, <1>2, <1>4
     DEF RowInv, CommitIsVoted, Committing, Voted, Intact, Released
<1>7. LocksKept(s, t)'
  BY <1>1, <1>2, <1>5, <1>6 DEF RowInv, LocksKept
<1>8. WritesKept(s, t)'
  <2>1. Level[t] \in {"SI", "SER"}
          => WritesChecked(s, t)' \subseteq WritesChecked(s, t)
    BY <1>2, <1>3, <1>4, <1>6 DEF WritesChecked, Settled
  <2> QED
    BY <1>1, <1>2, <1>6, <2>1 DEF RowInv, WritesKept, CASValid
<1>9. ReadsKept(s, t)'
  <2>1. Level[t] = "SER" => ReadsChecked(s, t)' \subseteq ReadsChecked(s, t)
    BY <1>2, <1>3, <1>4, <1>6 DEF ReadsChecked, Settled
  <2> QED
    BY <1>1, <1>2, <1>6, <2>1 DEF RowInv, ReadsKept, ReadValid
<1> QED
  BY <1>2, <1>4, <1>6, <1>7, <1>8, <1>9
     DEF RowInv, PutsWrites, PreparedAbove

(* Above the clock there are only versions of transactions that hold the   *)
(* lock, so the tick of a vote is above every version of the locked keys.  *)
LEMMA PrepareVoteRow ==
  ASSUME ShardInv, NEW s \in Shards, NEW t \in Txs, PrepareVote(s, t)
  PROVE  RowInv(s, t)'
<1>1. TypeOK /\ RowInv(s, t)
  BY DEF ShardInv
<1>2. /\ UNCHANGED <<store, buffers, writes, reads, locks, dropping>>
      /\ pc[s][t] = "vote"
      /\ pc'[s][t] = "idle"
      /\ status'[s][t] = "prepared"
      /\ ptime'[s][t] = clock'[s]
  BY <1>1, AnswerOwn DEF PrepareVote, TypeOK
<1>3. clock'[s] \in Nat /\ clock'[s] > clock[s] /\ clock[s] \in Nat
  BY <1>1, HlcTickType DEF PrepareVote, TypeOK
<1>4. /\ WriteKeys(s, t)' = WriteKeys(s, t)
      /\ ReadKeys(s, t)' = ReadKeys(s, t)
  BY <1>2, SameWriteKeys
<1>5. /\ Acquired(s, t)' = Acquired(s, t)
      /\ WritesChecked(s, t)' = WritesChecked(s, t)
      /\ ReadsChecked(s, t)' = ReadsChecked(s, t)
      /\ Intact(s, t)' = Intact(s, t)
  BY <1>2, <1>4
     DEF Acquired, WritesChecked, ReadsChecked, Settled, Intact, Released
<1>6. LocksKept(s, t)' /\ WritesKept(s, t)' /\ ReadsKept(s, t)'
  BY <1>1, <1>2, <1>5
     DEF RowInv, LocksKept, WritesKept, ReadsKept, CASValid, ReadValid
<1>7. PreparedAbove(s, t)'
  <2>1. SUFFICES ASSUME Intact(s, t), NEW k \in WriteKeys(s, t),
                        NEW v \in store[k]
                 PROVE  v.version < ptime'[s][t]
    BY <1>2, <1>4, <1>5 DEF PreparedAbove, Voted
  <2>2. k \in Keys /\ Home[k] = s /\ locks[k] = t
    BY <1>1, <1>2, <2>1, CheckedIsAcquired
       DEF RowInv, LocksKept, WriteKeys, KeysOf
  <2>3. v \in Version
    BY <1>1, <2>1, <2>2 DEF TypeOK
  <2>4. v.version \in Nat /\ v.tx \in Txs
    BY <2>3 DEF Version
  <2>5. CASE v.version <= clock[s]
    BY <1>2, <1>3, <2>4, <2>5
  <2>6. CASE pc[s][v.tx] = "put" /\ k \in WriteKeys(s, v.tx)
    <3>1. RowInv(s, v.tx)
      BY <2>4 DEF ShardInv
    <3>2. Intact(s, v.tx)
      BY <2>6, <3>1 DEF RowInv, CommitIsVoted, Committing, Intact, Released
    <3>3. locks[k] = v.tx
      BY <2>4, <2>6, <3>1, <3>2, CheckedIsAcquired DEF RowInv, LocksKept
    <3> QED
      BY <1>2, <2>2, <2>6, <3>3
  <2> QED
    BY <2>1, <2>2, <2>5, <2>6 DEF ShardInv, BehindClock
<1> QED
  BY <1>2, <1>6, <1>7 DEF RowInv, PutsWrites, CommitIsVoted, Committing

LEMMA CommitCallRow ==
  ASSUME ShardInv, NEW s \in Shards, NEW t \in Txs, FreeCommitCall(s, t)
  PROVE  RowInv(s, t)'
<1>1. TypeOK /\ RowInv(s, t)
  BY DEF ShardInv
<1>2. CASE t \notin buffers[s]
  <2>1. PICK ct \in Nat : CommitBegin(s, t, ct)
    BY DEF FreeCommitCall
  <2>2. pc'[s][t] = "idle" /\ UNCHANGED buffers
    BY <1>1, <1>2, <2>1, AnswerOwn DEF CommitBegin
  <2>3. ~Intact(s, t)' /\ ~Committing(s, t)'
    BY <1>2, <2>2 DEF Intact, Committing
  <2> QED
    BY <2>2, <2>3, GoneRow, NotCommittingRow
<1>3. CASE t \in buffers[s]
  <2>0. PICK ct \in Nat : ct > ptime[s][t] /\ CommitBegin(s, t, ct)
    BY <1>3 DEF FreeCommitCall
  <2>1. /\ UNCHANGED <<store, buffers, writes, reads, locks, status, ptime,
                       dropping>>
        /\ Loop(s, t, "put", WriteKeys(s, t))
        /\ ctime' = [ctime EXCEPT ![s][t] = ct]
    BY <1>3, <2>0, Zenon DEF CommitBegin
  <2>2. /\ pc'[s][t] = "put"
        /\ todo'[s][t] = WriteKeys(s, t)
        /\ ctime'[s][t] = ct
    BY <1>1, <2>1, LoopOwn DEF TypeOK
  <2>3. /\ pc[s][t] = "idle"
        /\ dropping[s][t] = "idle"
        /\ status[s][t] = "prepared"
        /\ Voted(s, t)
    BY <1>3, <2>0 DEF CommitBegin, FreeCommitCall, Voted, Intact, Released
  <2>4. /\ WriteKeys(s, t)' = WriteKeys(s, t)
        /\ ReadKeys(s, t)' = ReadKeys(s, t)
    BY <2>1, SameWriteKeys
  <2>5. /\ Acquired(s, t)' = Acquired(s, t)
        /\ WritesChecked(s, t)' = WritesChecked(s, t)
        /\ ReadsChecked(s, t)' = ReadsChecked(s, t)
        /\ Intact(s, t)' = Intact(s, t)
        /\ Voted(s, t)'
    BY <2>1, <2>2, <2>3, <2>4
       DEF Acquired, WritesChecked, ReadsChecked, Settled, Voted, Intact,
           Released
  <2>6. LocksKept(s, t)' /\ WritesKept(s, t)' /\ ReadsKept(s, t)'
    BY <1>1, <2>1, <2>5
       DEF RowInv, LocksKept, WritesKept, ReadsKept, CASValid, ReadValid
  <2>7. PreparedAbove(s, t)'
    BY <1>1, <2>1, <2>3, <2>4 DEF RowInv, PreparedAbove
  <2>8. CommitIsVoted(s, t)'
    BY <1>3, <2>0, <2>1, <2>2, <2>3 DEF CommitIsVoted, Committing
  <2> QED
    BY <2>2, <2>4, <2>6, <2>7, <2>8 DEF RowInv, PutsWrites
<1> QED
  BY <1>2, <1>3

LEMMA CommitPutRow ==
  ASSUME ShardInv, NEW s \in Shards, NEW t \in Txs, NEW k \in KeysOf(s),
         CommitPut(s, t, k)
  PROVE  RowInv(s, t)'
<1>1. TypeOK /\ RowInv(s, t)
  BY DEF ShardInv
<1>2. /\ UNCHANGED <<buffers, writes, reads, locks, status, ptime, ctime, pc,
                     dropping>>
      /\ pc[s][t] = "put"
      /\ todo'[s][t] = todo[s][t] \ {k}
  BY <1>1, VisitOwn DEF CommitPut
<1>3. \A k2 \in Keys : k2 # k => store'[k2] = store[k2]
  BY <1>1 DEF CommitPut, TypeOK, KeysOf
<1>4. /\ WriteKeys(s, t)' = WriteKeys(s, t)
      /\ ReadKeys(s, t)' = ReadKeys(s, t)
  BY <1>2, SameWriteKeys
<1>5. /\ Acquired(s, t)' = Acquired(s, t)
      /\ WritesChecked(s, t)' = WritesChecked(s, t) \ {k}
      /\ ReadsChecked(s, t)' = ReadsChecked(s, t) \ {k}
      /\ WritesChecked(s, t) \subseteq Keys
      /\ ReadsChecked(s, t) \subseteq Keys
      /\ Intact(s, t)' = Intact(s, t)
      /\ Voted(s, t)' = Voted(s, t)
      /\ Committing(s, t)' = Committing(s, t)
  BY <1>2, <1>4 DEF Acquired, WritesChecked, ReadsChecked, Settled, Voted,
                    Committing, WriteKeys, KeysOf, Intact, Released
<1>6. LocksKept(s, t)'
  BY <1>1, <1>2, <1>5 DEF RowInv, LocksKept
<1>7. WritesKept(s, t)'
  BY <1>1, <1>2, <1>3, <1>5 DEF RowInv, WritesKept, CASValid
<1>8. ReadsKept(s, t)'
  BY <1>1, <1>2, <1>3, <1>5 DEF RowInv, ReadsKept, ReadValid
<1>9. PreparedAbove(s, t)'
  <2>1. SUFFICES ASSUME Voted(s, t), NEW k2 \in WriteKeys(s, t),
                        k2 \in todo[s][t] \ {k}
                 PROVE  \A v \in store'[k2] : v.version < ptime[s][t]
    BY <1>2, <1>4, <1>5 DEF PreparedAbove
  <2>2. store'[k2] = store[k2]
    BY <1>3, <2>1 DEF WriteKeys, KeysOf
  <2> QED
    BY <1>1, <1>2, <2>1, <2>2 DEF RowInv, PreparedAbove
<1>10. CommitIsVoted(s, t)'
  BY <1>1, <1>2, <1>5 DEF RowInv, CommitIsVoted
<1>11. PutsWrites(s, t)'
  BY <1>1, <1>2, <1>4 DEF RowInv, PutsWrites
<1> QED
  BY <1>6, <1>7, <1>8, <1>9, <1>10, <1>11 DEF RowInv

LEMMA CommitClockRow ==
  ASSUME ShardInv, NEW s \in Shards, NEW t \in Txs, CommitClock(s, t)
  PROVE  RowInv(s, t)'
<1>1. TypeOK /\ RowInv(s, t)
  BY DEF ShardInv
<1>2. /\ UNCHANGED <<store, buffers, writes, reads, locks, status, ptime, ctime,
                     dropping>>
      /\ pc[s][t] = "put"
      /\ pc'[s][t] = "release"
  BY <1>1, LoopOwn DEF CommitClock
<1>3. WriteKeys(s, t)' = WriteKeys(s, t)
  BY <1>2, SameWriteKeys
<1>4. /\ Acquired(s, t)' = Acquired(s, t)
      /\ WritesChecked(s, t)' = {}
      /\ ReadsChecked(s, t)' = {}
      /\ Intact(s, t)' = Intact(s, t)
      /\ Committing(s, t) /\ Committing(s, t)'
  BY <1>2, <1>3 DEF Acquired, WritesChecked, ReadsChecked, Settled, Committing,
                    Intact, Released
<1>5. LocksKept(s, t)' /\ CommitIsVoted(s, t)'
  BY <1>1, <1>2, <1>4 DEF RowInv, LocksKept, CommitIsVoted
<1> QED
  BY <1>2, <1>4, <1>5
     DEF RowInv, PutsWrites, WritesKept, ReadsKept, PreparedAbove

LEMMA CommitCleanupRow ==
  ASSUME TypeOK, NEW s \in Shards, NEW t \in Txs, RowInv(s, t),
         CommitCleanup(s, t)
  PROVE  RowInv(s, t)'
<1>1. UNCHANGED <<ptime, ctime, dropping>>
  BY DEF CommitCleanup
<1>2. CASE pc[s][t] = "release"
  <2>1. pc'[s][t] = "remove" /\ UNCHANGED <<buffers, status>>
    BY <1>2, LoopOwn DEF CommitCleanup
  <2>2. CommitIsVoted(s, t)' /\ PutsWrites(s, t)'
    BY <1>1, <1>2, <2>1 DEF RowInv, CommitIsVoted, PutsWrites, Committing
  <2>3. ~Intact(s, t)'
    BY <2>1 DEF Intact, Released
  <2> QED
    BY <2>2, <2>3, GoneRow
<1>3. CASE pc[s][t] = "remove"
  <2>1. pc'[s][t] = "mark" /\ UNCHANGED status
    BY <1>3, LoopOwn DEF CommitCleanup
  <2>2. t \notin buffers'[s]
    BY <1>3 DEF CommitCleanup, Remove, TypeOK
  <2>3. CommitIsVoted(s, t)' /\ PutsWrites(s, t)'
    BY <1>1, <1>3, <2>1, <2>2 DEF RowInv, CommitIsVoted, PutsWrites, Committing
  <2>4. ~Intact(s, t)'
    BY <2>2 DEF Intact
  <2> QED
    BY <2>3, <2>4, GoneRow
<1>4. CASE pc[s][t] = "mark"
  <2>1. pc'[s][t] = "idle" /\ status'[s][t] # "prepared"
    BY <1>4, AnswerOwn, MarkOwn DEF CommitCleanup
  <2> QED
    BY <2>1, RestingRow
<1> QED
  BY <1>2, <1>3, <1>4 DEF CommitCleanup

-----------------------------------------------------------------------------
(* Versions stay behind the clock.                                         *)

(* No version is added, and a row that is applying its writes is not       *)
(* stepped.                                                                *)
LEMMA BehindQuiet ==
  ASSUME TypeOK, TypeOK', BehindClock, NEW s \in Shards, NEW t \in Txs,
         UNCHANGED store, UNCHANGED clock \/ HlcTick(s),
         pc[s][t] # "put",
         \A s2 \in Shards, t2 \in Txs : s2 # s \/ t2 # t => SameRow(s2, t2)
  PROVE  BehindClock'
<1>1. \A s2 \in Shards : clock'[s2] >= clock[s2]
  BY HlcTickType DEF TypeOK
<1> QED
  BY <1>1, BehindFrame

LEMMA CommitPutBehind ==
  ASSUME ShardInv, TypeOK', NEW s \in Shards, NEW t \in Txs,
         NEW k \in KeysOf(s), CommitPut(s, t, k)
  PROVE  BehindClock'
<1>1. TypeOK /\ RowInv(s, t) /\ BehindClock
  BY DEF ShardInv
<1>2. /\ UNCHANGED <<clock, writes, ctime, pc>>
      /\ pc[s][t] = "put"
      /\ k \in Keys /\ Home[k] = s
      /\ k \in WriteKeys(s, t)
  BY <1>1 DEF CommitPut, KeysOf, RowInv, PutsWrites
<1>3. \A k2 \in Keys : \A v \in store'[k2] :
        v \in store[k2] \/ (k2 = k /\ v.tx = t /\ v.version = ctime[s][t])
  BY <1>1, <1>2 DEF CommitPut, TypeOK
<1>4. \A s2, t2 : WriteKeys(s2, t2)' = WriteKeys(s2, t2)
  BY <1>2 DEF WriteKeys, KeysOf
<1> QED
  BY <1>1, <1>2, <1>3, <1>4 DEF BehindClock

LEMMA CommitClockBehind ==
  ASSUME ShardInv, TypeOK', NEW s \in Shards, NEW t \in Txs, CommitClock(s, t)
  PROVE  BehindClock'
<1>1. TypeOK /\ RowInv(s, t) /\ BehindClock
  BY DEF ShardInv
<1>2. /\ clock'[s] \in Nat
      /\ clock'[s] > clock[s]
      /\ clock'[s] > ctime[s][t]
      /\ \A s2 \in Shards : s2 # s => clock'[s2] = clock[s2]
  BY <1>1, UpdateType DEF CommitClock, TypeOK
<1>3. SUFFICES ASSUME NEW k \in Keys, NEW v \in store[k]
               PROVE  \/ v.version <= clock'[Home[k]]
                      \/ /\ pc'[Home[k]][v.tx] = "put"
                         /\ k \in WriteKeys(Home[k], v.tx)'
                         /\ v.version = ctime'[Home[k]][v.tx]
  BY DEF BehindClock, CommitClock
<1>4. Home[k] \in Shards /\ v.tx \in Txs /\ v.version \in Nat
  BY <1>1 DEF TypeOK, Version
<1>5. CASE v.version <= clock[Home[k]]
  <2>1. clock'[Home[k]] >= clock[Home[k]]
    <3>1. CASE Home[k] = s
      BY <1>1, <1>2, <3>1 DEF TypeOK
    <3>2. CASE Home[k] # s
      BY <1>1, <1>2, <1>4, <3>2 DEF TypeOK
    <3> QED
      BY <3>1, <3>2
  <2>2. clock[Home[k]] \in Nat /\ clock'[Home[k]] \in Nat
    BY <1>1, <1>2, <1>4 DEF TypeOK
  <2> QED
    BY <1>4, <1>5, <2>1, <2>2
<1>6. CASE Home[k] = s /\ v.tx = t /\ v.version = ctime[s][t]
  BY <1>1, <1>2, <1>4, <1>6 DEF TypeOK
<1>7. CASE /\ Home[k] # s \/ v.tx # t
           /\ pc[Home[k]][v.tx] = "put"
           /\ k \in WriteKeys(Home[k], v.tx)
           /\ v.version = ctime[Home[k]][v.tx]
  <2>1. pc'[Home[k]][v.tx] = pc[Home[k]][v.tx]
    BY <1>1, <1>4, <1>7, LoopOthers DEF CommitClock
  <2>2. WriteKeys(Home[k], v.tx)' = WriteKeys(Home[k], v.tx)
    BY <1>4, SameWriteKeys DEF CommitClock
  <2> QED
    BY <1>7, <2>1, <2>2 DEF CommitClock
<1> QED
  BY <1>1, <1>5, <1>6, <1>7 DEF BehindClock

-----------------------------------------------------------------------------
(* A crash forgets one shard and touches no other.                         *)

LEMMA CrashOthers ==
  ASSUME TypeOK, NEW s \in Shards, Crash(s),
         NEW s2 \in Shards, NEW t2 \in Txs, s2 # s
  PROVE  SameRow(s2, t2) /\ LockShields(s2, t2)
<1>1. /\ pc'[s2][t2] = pc[s2][t2]
      /\ todo'[s2][t2] = todo[s2][t2]
      /\ status'[s2][t2] = status[s2][t2]
      /\ ptime'[s2][t2] = ptime[s2][t2]
      /\ ctime'[s2][t2] = ctime[s2][t2]
      /\ reply'[s2][t2] = reply[s2][t2]
      /\ dropping'[s2][t2] = dropping[s2][t2]
      /\ buffers'[s2] = buffers[s2]
  BY DEF Crash, TypeOK
<1>2. \A k \in KeysOf(s2) : /\ writes'[t2][k] = writes[t2][k]
                            /\ reads'[t2][k] = reads[t2][k]
                            /\ locks'[k] = locks[k]
                            /\ store'[k] = store[k]
  BY DEF Crash, TypeOK, KeysOf
<1> QED
  BY <1>1, <1>2 DEF SameRow, LockShields

LEMMA CrashRow ==
  ASSUME ShardInv, TypeOK', NEW s \in Shards, Crash(s)
  PROVE  ShardInv'
<1>1. TypeOK /\ BehindClock
  BY DEF ShardInv
<1>2. ASSUME NEW s2 \in Shards, NEW t2 \in Txs, s2 # s
      PROVE  SameRow(s2, t2) /\ LockShields(s2, t2)
  BY <1>1, <1>2, CrashOthers
<1>3. ASSUME NEW s2 \in Shards, NEW t2 \in Txs
      PROVE  RowInv(s2, t2)'
  <2>1. CASE s2 = s
    <3>1. pc'[s][t2] = "idle" /\ status'[s][t2] = "none"
      BY <1>1 DEF Crash, TypeOK
    <3> QED
      BY <2>1, <3>1, RestingRow
  <2>2. CASE s2 # s
    BY <1>2, <2>2, RowFrame DEF ShardInv
  <2> QED
    BY <2>1, <2>2
<1>4. BehindClock'
  <2>1. SUFFICES ASSUME NEW k \in Keys, NEW v \in store'[k]
                 PROVE  \/ v.version <= clock'[Home[k]]
                        \/ /\ pc'[Home[k]][v.tx] = "put"
                           /\ k \in WriteKeys(Home[k], v.tx)'
                           /\ v.version = ctime'[Home[k]][v.tx]
    BY DEF BehindClock
  <2>2. Home[k] # s /\ v \in store[k]
    BY <1>1 DEF Crash, TypeOK
  <2>3. Home[k] \in Shards /\ v.tx \in Txs
    BY <1>1, <2>2 DEF TypeOK, Version
  <2>4. SameRow(Home[k], v.tx) /\ clock'[Home[k]] = clock[Home[k]]
    BY <1>1, <1>2, <2>2, <2>3 DEF Crash, TypeOK
  <2>5. WriteKeys(Home[k], v.tx)' = WriteKeys(Home[k], v.tx)
    BY <2>3, <2>4, SameSets
  <2> QED
    BY <1>1, <2>2, <2>4, <2>5 DEF BehindClock, SameRow
<1> QED
  BY <1>3, <1>4 DEF ShardInv

-----------------------------------------------------------------------------
(* The invariant and what follows from it.                                 *)

LEMMA InvInit ==
  ASSUME ShardInit
  PROVE  ShardInv
<1>1. TypeOK
  BY DEF ShardInit, TypeOK, Statuses, Positions, Replies
<1>2. BehindClock
  BY DEF ShardInit, BehindClock
<1>3. ASSUME NEW s \in Shards, NEW t \in Txs
      PROVE  RowInv(s, t)
  <2>1. /\ WriteKeys(s, t) = {}
        /\ t \notin buffers[s]
        /\ pc[s][t] = "idle"
        /\ status[s][t] = "none"
    BY DEF ShardInit, WriteKeys, KeysOf
  <2> QED
    BY <2>1 DEF RowInv, PutsWrites, LocksKept, WritesKept, ReadsKept,
                CommitIsVoted, PreparedAbove, Committing, Voted, Intact
<1> QED
  BY <1>1, <1>2, <1>3 DEF ShardInv

LEMMA TxStep ==
  ASSUME ShardInv, TypeOK', NEW s \in Shards, NEW t \in Txs, FreeStep(s, t)
  PROVE  ShardInv'
<1> USE DEF FreeStep
<1>1. TypeOK /\ BehindClock /\ RowInv(s, t)
  BY DEF ShardInv
<1>2. ASSUME NEW s2 \in Shards, NEW t2 \in Txs, s2 # s \/ t2 # t
      PROVE  SameRow(s2, t2) /\ LockShields(s2, t2)
  BY <1>1, <1>2, StepOthers
<1>3. RowInv(s, t)'
  BY <1>1, ClientCallRow, PrepareCallRow, CommitCallRow, AbortCallRow,
     PrepareLockRow, PrepareCheckWriteRow, PrepareCheckReadRow, PrepareNextRow,
     PrepareVoteRow, PrepareAbortsRow, CommitPutRow, CommitClockRow,
     CommitCleanupRow, AbortGoesOnRow DEF Handler
<1>4. \A s2 \in Shards, t2 \in Txs : RowInv(s2, t2)'
  BY <1>2, <1>3, RowFrame DEF ShardInv
<1>5. BehindClock'
  <2>1. CASE \E k \in KeysOf(s) : CommitPut(s, t, k)
    BY <2>1, CommitPutBehind
  <2>2. CASE CommitClock(s, t)
    BY <2>2, CommitClockBehind
  <2>3. CASE FreeClientCall(s, t)
    BY <1>1, <1>2, <2>3, ClientOperation, BehindQuiet
       DEF Open, TxStart, TxRead, BufferWrite
  <2>4. CASE PrepareCall(s, t)
    BY <1>1, <1>2, <2>4, BehindQuiet DEF PrepareCall, Open, PrepareBegin
  <2>5. CASE FreeCommitCall(s, t)
    BY <1>1, <1>2, <2>5, BehindQuiet DEF FreeCommitCall, CommitBegin
  <2>6. CASE FreeAbortCall(s, t) \/ AbortGoesOn(s, t)
    <3>1. ~Committing(s, t) /\ \E at \in Cleanups : AbortAt(s, t, at)
      BY <1>1, <2>6 DEF FreeAbortCall, Abort, AbortGoesOn, Cleanups, RowInv,
                        CommitIsVoted
    <3> QED
      BY <1>1, <1>2, <3>1, BehindQuiet DEF Committing, AbortAt, AbortCleanup
  <2>7. CASE \E k \in KeysOf(s) : \/ PrepareLock(s, t, k)
                                  \/ PrepareCheckWrite(s, t, k)
                                  \/ PrepareCheckRead(s, t, k)
    BY <1>1, <1>2, <2>7, BehindQuiet
       DEF PrepareLock, PrepareCheckWrite, PrepareCheckRead, VoteAbort
  <2>8. CASE PrepareNext(s, t) \/ PrepareVote(s, t) \/ CommitCleanup(s, t)
    BY <1>1, <1>2, <2>8, BehindQuiet
       DEF PrepareNext, PrepareVote, CommitCleanup
  <2>9. CASE PrepareAborts(s, t)
    BY <1>1, <1>2, <2>9, BehindQuiet DEF PrepareAborts, AbortCleanup, Cleanups
  <2> QED
    BY <2>1, <2>2, <2>3, <2>4, <2>5, <2>6, <2>7, <2>8, <2>9 DEF Handler
<1> QED
  BY <1>4, <1>5 DEF ShardInv

LEMMA Stutter ==
  ASSUME ShardInv, UNCHANGED shardVars
  PROVE  ShardInv'
<1>1. TypeOK'
  BY DEF ShardInv, TypeOK, shardVars
<1>2. \A s \in Shards, t \in Txs : SameRow(s, t) /\ LockShields(s, t)
  BY DEF shardVars, SameRow, LockShields
<1>3. \A s \in Shards, t \in Txs : RowInv(s, t)'
  BY <1>2, RowFrame DEF ShardInv
<1>4. \A s \in Shards : clock'[s] >= clock[s]
  BY DEF shardVars, ShardInv, TypeOK
<1>5. BehindClock'
  BY <1>1, <1>2, <1>4, BehindFrame DEF ShardInv, shardVars
<1> QED
  BY <1>1, <1>3, <1>5 DEF ShardInv

LEMMA ShardInvStep ==
  ASSUME ShardInv, [FreeNext]_shardVars
  PROVE  ShardInv'
<1>1. TypeOK'
  BY TypeStep
<1> QED
  BY <1>1, CrashRow, TxStep, Stutter DEF FreeNext

(* ShardInv is an invariant of a shard that is called as its routers call  *)
(* it, from TxStart to Abort of shard.go: the theorems below follow from   *)
(* it.                                                                     *)
THEOREM ShardInvariant == ShardSpec => []ShardInv
<1>1. ShardInit => ShardInv
  BY InvInit
<1>2. ShardInv /\ [ShardNext]_shardVars => ShardInv'
  BY FreeIsWider, ShardInvStep DEF ShardInv
<1> QED
  BY <1>1, <1>2, PTL DEF ShardSpec

LEMMA OnTop ==
  ASSUME ShardInv
  PROVE  AppliesOnTop
<1>1. SUFFICES ASSUME NEW s \in Shards, NEW t \in Txs, pc[s][t] = "put",
                      NEW k \in todo[s][t], NEW v \in store[k]
               PROVE  v.version < ctime[s][t]
  BY DEF AppliesOnTop
<1>2. RowInv(s, t) /\ TypeOK
  BY DEF ShardInv
<1>3. k \in WriteKeys(s, t) /\ k \in Keys
  BY <1>1, <1>2 DEF RowInv, PutsWrites, WriteKeys, KeysOf
<1>4. v.version < ptime[s][t] /\ ptime[s][t] < ctime[s][t]
  <2>1. Voted(s, t) /\ ptime[s][t] < ctime[s][t]
    BY <1>1, <1>2 DEF RowInv, CommitIsVoted, Committing, Voted, Intact, Released
  <2> QED
    BY <1>1, <1>2, <1>3, <2>1 DEF RowInv, PreparedAbove
<1>5. v.version \in Nat /\ ptime[s][t] \in Nat /\ ctime[s][t] \in Nat
  BY <1>1, <1>2, <1>3 DEF TypeOK, Version
<1> QED
  BY <1>4, <1>5

LEMMA OnlyPutsStore ==
  ASSUME NEW s \in Shards, NEW t \in Txs, FreeStep(s, t)
  PROVE  UNCHANGED store \/ \E k \in KeysOf(s) : CommitPut(s, t, k)
BY ClientOperation
   DEF FreeStep, TxStart, TxRead, BufferWrite, PrepareCall, PrepareBegin,
       FreeCommitCall, CommitBegin, FreeAbortCall, Abort, AbortAt, Handler,
       PrepareLock, PrepareCheckWrite, PrepareCheckRead, VoteAbort, PrepareNext,
       PrepareVote, PrepareAborts, CommitClock, CommitCleanup, AbortGoesOn

(* shard.go Commit: a step adds a version only after all the versions of   *)
(* its key.                                                                *)
LEMMA NewVersionsOnTop ==
  ASSUME ShardInv, [FreeNext]_shardVars,
         NEW k \in Keys, NEW v \in store'[k] \ store[k], NEW w \in store[k]
  PROVE  w.version < v.version
<1>1. PICK s \in Shards, t \in Txs : CommitPut(s, t, k)
  <2>1. ASSUME NEW s \in Shards, Crash(s)
        PROVE  store'[k] \subseteq store[k]
    BY <2>1 DEF Crash, ShardInv, TypeOK
  <2>3. PICK s \in Shards, t \in Txs : \E k2 \in KeysOf(s) : CommitPut(s, t, k2)
    BY <2>1, OnlyPutsStore DEF FreeNext, shardVars
  <2>4. PICK k2 \in KeysOf(s) : CommitPut(s, t, k2)
    BY <2>3
  <2>5. k2 = k
    BY <2>4 DEF CommitPut, KeysOf, ShardInv, TypeOK
  <2> QED
    BY <2>4, <2>5
<1>2. v.version = ctime[s][t] /\ k \in todo[s][t] /\ pc[s][t] = "put"
  BY <1>1 DEF CommitPut, ShardInv, TypeOK
<1> QED
  BY <1>2, OnTop DEF AppliesOnTop

(* The types of the shard's state.                                         *)
THEOREM TypeCorrect == ShardSpec => []TypeOK
<1>1. ShardInv => TypeOK
  BY DEF ShardInv
<1> QED
  BY <1>1, ShardInvariant, PTL

(* shard.go Prepare, Commit: what a transaction voted to write stays       *)
(* locked until it is applied.                                             *)
THEOREM LocksHeldToCommit == ShardSpec => []WriteLocked
<1>1. ShardInv => WriteLocked
  <2>1. SUFFICES ASSUME ShardInv, NEW s \in Shards, NEW t \in Txs, Voted(s, t),
                        NEW k \in WriteKeys(s, t)
                 PROVE  locks[k] = t
    BY DEF WriteLocked
  <2>2. RowInv(s, t)
    BY <2>1 DEF ShardInv
  <2>3. pc[s][t] \in {"idle", "put", "release"} /\ status[s][t] = "prepared"
    BY <2>1, <2>2 DEF RowInv, CommitIsVoted, Committing, Voted, Intact, Released
  <2> QED
    BY <2>1, <2>2, <2>3, CheckedIsAcquired DEF RowInv, LocksKept, Voted
<1> QED
  BY <1>1, ShardInvariant, PTL

(* shard.go Commit, store.go Put: a commit adds its versions on top, so    *)
(* the ErrVersionConflict that Commit ignores cannot happen.               *)
THEOREM CommitsOnTop == ShardSpec => []AppliesOnTop
BY OnTop, ShardInvariant, PTL

(* shard.go Prepare at SI and SER: the CAS validation is still good when   *)
(* the commit comes.                                                       *)
THEOREM ValidationLasts == ShardSpec => []CASHolds
<1>1. ShardInv => CASHolds
  <2>1. SUFFICES ASSUME ShardInv, NEW s \in Shards, NEW t \in Txs, Voted(s, t),
                        Level[t] \in {"SI", "SER"}, NEW k \in WriteKeys(s, t),
                        \/ Settled(s, t)
                        \/ pc[s][t] = "put" /\ k \in todo[s][t]
                 PROVE  CASValid(t, k)
    BY DEF CASHolds
  <2>2. RowInv(s, t)
    BY <2>1 DEF ShardInv
  <2>3. k \in WritesChecked(s, t)
    BY <2>1 DEF WritesChecked
  <2> QED
    BY <2>1, <2>2, <2>3 DEF RowInv, WritesKept, Voted
<1> QED
  BY <1>1, ShardInvariant, PTL

(* shard.go Prepare at SER: a key read and then written is overwritten as  *)
(* it was read.                                                            *)
THEOREM SerUpdates == ShardSpec => []NoLostUpdate
<1>1. ShardInv => NoLostUpdate
  <2>1. SUFFICES ASSUME ShardInv, NEW s \in Shards, NEW t \in Txs,
                        pc[s][t] = "put", Level[t] = "SER",
                        NEW k \in todo[s][t] \cap ReadKeys(s, t)
                 PROVE  ReadValid(t, k)
    BY DEF NoLostUpdate
  <2>2. RowInv(s, t)
    BY <2>1 DEF ShardInv
  <2>3. Intact(s, t) /\ k \in ReadsChecked(s, t)
    BY <2>1, <2>2 DEF RowInv, PutsWrites, CommitIsVoted, Committing, Intact,
                      Released, ReadsChecked
  <2> QED
    BY <2>1, <2>2, <2>3 DEF RowInv, ReadsKept
<1> QED
  BY <1>1, ShardInvariant, PTL
=============================================================================
