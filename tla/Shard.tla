------------------------------- MODULE Shard -------------------------------
(***************************************************************************)
(* The shard servers: internal/shard/component (Shard, MVCCStore,          *)
(* LockManager, TxBufferManager), internal/model.TxStatusTable, and the    *)
(* RPC handlers of internal/shard/server.go.                               *)
(*                                                                         *)
(* Every key has one home shard, so what a shard keeps per key (versions,  *)
(* lock entry, buffered write, recorded read) is indexed by the key alone. *)
(* A shard has no mutex of its own: each component locks itself for one    *)
(* call.  Prepare, Commit and Abort therefore run as a sequence of steps,  *)
(* one for each call that another handler can observe: pc[s][t] is the     *)
(* position of transaction t's Prepare or Commit at shard s, todo[s][t]    *)
(* the keys its current loop has still to visit, and dropping[s][t] the    *)
(* position of t's Abort, which may run beside them.  Calls that reach     *)
(* only t's own buffer or its row of the status table are merged with the  *)
(* neighbouring step, except in the cleanup that an Abort shares with a    *)
(* Prepare.                                                                *)
(***************************************************************************)
EXTENDS Deployment, Versions

(* VersionedValue: the writer stands for the value it wrote.               *)
Version == [version : Nat, tx : Txs, deleted : BOOLEAN]

WriteOp == [deleted : BOOLEAN, orig : Nat]

ReadRecord == [version : Nat, found : BOOLEAN]

ASSUME NoneAssumption == None \notin Txs \cup WriteOp \cup ReadRecord

VARIABLES
  store,     \* store[k]: the versions of k, the sorted list as a set
  clock,     \* clock[s]: the shard's hybrid logical clock
  buffers,   \* buffers[s]: the transactions with a buffer at s
  writes,    \* writes[t][k]: t's buffered write of k
  reads,     \* reads[t][k]: t's recorded external read of k
  locks,     \* locks[k]: the transaction with the write lock
  status,    \* status[s][t]: t's row of the status table
  ptime,     \* ptime[s][t]: the prepare time in that row
  ctime,     \* ctime[s][t]: the commit time t's Commit was called with
  pc,        \* pc[s][t]: where t's Prepare or Commit handler stands
  todo,      \* todo[s][t]: the keys its loop has not visited
  dropping,  \* dropping[s][t]: where t's Abort handler stands
  reply      \* reply[s][t]: what its last handler answered

shardVars == <<store, clock, buffers, writes, reads, locks, status, ptime,
               ctime, pc, todo, dropping, reply>>

Statuses == {"none", "running", "prepared", "committed", "aborted"}

(* The critical sections of abortCleanup, and those of the handlers.       *)
Cleanups == {"abortRelease", "abortRemove", "abortMark", "abortTick"}

Positions == {"idle", "lock", "checkWrites", "checkReads", "vote",
              "put", "release", "remove", "mark"} \cup Cleanups

Replies == {"none", "commit", "abort", "error", "ok"}

TypeOK ==
  /\ store \in [Keys -> SUBSET Version]
  /\ clock \in [Shards -> Nat]
  /\ buffers \in [Shards -> SUBSET Txs]
  /\ writes \in [Txs -> [Keys -> WriteOp \cup {None}]]
  /\ reads \in [Txs -> [Keys -> ReadRecord \cup {None}]]
  /\ locks \in [Keys -> Txs \cup {None}]
  /\ status \in [Shards -> [Txs -> Statuses]]
  /\ ptime \in [Shards -> [Txs -> Nat]]
  /\ ctime \in [Shards -> [Txs -> Nat]]
  /\ pc \in [Shards -> [Txs -> Positions]]
  /\ todo \in [Shards -> [Txs -> SUBSET Keys]]
  /\ dropping \in [Shards -> [Txs -> {"idle"} \cup Cleanups]]
  /\ reply \in [Shards -> [Txs -> Replies]]

ShardInit ==
  /\ store = [k \in Keys |-> {}]
  /\ clock = [s \in Shards |-> 0]
  /\ buffers = [s \in Shards |-> {}]
  /\ writes = [t \in Txs |-> [k \in Keys |-> None]]
  /\ reads = [t \in Txs |-> [k \in Keys |-> None]]
  /\ locks = [k \in Keys |-> None]
  /\ status = [s \in Shards |-> [t \in Txs |-> "none"]]
  /\ ptime = [s \in Shards |-> [t \in Txs |-> 0]]
  /\ ctime = [s \in Shards |-> [t \in Txs |-> 0]]
  /\ pc = [s \in Shards |-> [t \in Txs |-> "idle"]]
  /\ todo = [s \in Shards |-> [t \in Txs |-> {}]]
  /\ dropping = [s \in Shards |-> [t \in Txs |-> "idle"]]
  /\ reply = [s \in Shards |-> [t \in Txs |-> "none"]]

-----------------------------------------------------------------------------
(* What a transaction has at a shard. *)

KeysOf(s) == {k \in Keys : Home[k] = s}

WriteKeys(s, t) == {k \in KeysOf(s) : writes[t][k] # None}

ReadKeys(s, t) == {k \in KeysOf(s) : reads[t][k] # None}

-----------------------------------------------------------------------------
(* Operations of an open transaction.  Each is one RPC, and one step: the  *)
(* oplog is NoOpLog, so an appended entry leaves only the clock tick that  *)
(* stamps it.                                                              *)

HlcTick(s) == \E now \in Wall : clock' = [clock EXCEPT ![s] = Tick(@, now)]

TxStart(s, t) ==
  /\ t \notin buffers[s]
  /\ buffers' = [buffers EXCEPT ![s] = @ \cup {t}]
  /\ writes' = [writes EXCEPT ![t] =
                  [k \in Keys |-> IF Home[k] = s THEN None ELSE @[k]]]
  /\ reads' = [reads EXCEPT ![t] =
                 [k \in Keys |-> IF Home[k] = s THEN None ELSE @[k]]]
  /\ UNCHANGED <<store, clock, locks, status, ptime, ctime, pc, todo, dropping,
                 reply>>

(* TxRead of a key t has written answers from the buffer and changes       *)
(* nothing.  This is the external read: it is recorded whether or not the  *)
(* key was found, and logged only when it was.                             *)
TxRead(s, t, k, time) ==
  LET read == FindAt(store[k], time)
  IN /\ t \in buffers[s]
     /\ writes[t][k] = None
     /\ reads' = [reads EXCEPT ![t][k] = read]
     /\ IF read.found THEN HlcTick(s) ELSE UNCHANGED clock
     /\ UNCHANGED <<store, buffers, writes, locks, status, ptime, ctime, pc,
                    todo, reply, dropping>>

(* TxWrite and TxDelete.  The original version is the latest one in the    *)
(* store now, not the one in t's snapshot, and a second write of the same  *)
(* key replaces it.                                                        *)
BufferWrite(s, t, k, deleted) ==
  /\ t \in buffers[s]
  /\ writes' = [writes EXCEPT ![t][k] =
                  [deleted |-> deleted, orig |-> FindLatest(store[k]).version]]
  /\ HlcTick(s)
  /\ UNCHANGED <<store, buffers, reads, locks, status, ptime, ctime, pc, todo,
                 reply, dropping>>

TxWrite(s, t, k) == BufferWrite(s, t, k, FALSE)

TxDelete(s, t, k) == BufferWrite(s, t, k, TRUE)

-----------------------------------------------------------------------------
(* Ending a transaction at a shard. *)

(* Mutant: Release gives back the locks of every transaction.              *)
OwnedByAny(s, t) == {k \in KeysOf(s) : locks[k] # None}

(* Mutant: Release gives back nothing.                                     *)
OwnedForever(s, t) == {}

Owned(s, t) == {k \in KeysOf(s) : locks[k] = t}

(* LockManager.Release.                                                    *)
Release(s, t) ==
  locks' = [k \in Keys |-> IF k \in Owned(s, t) THEN None ELSE locks[k]]

(* Mutant: the buffer stays.                                               *)
RemoveNothing(s, t) == UNCHANGED buffers

(* TxBufferManager.Remove.  The buffer is only unlinked: a handler that    *)
(* already has it keeps reading its writes.                                *)
Remove(s, t) == buffers' = [buffers EXCEPT ![s] = @ \ {t}]

(* TxStatusTable.Commit and Abort change an existing row only.             *)
Mark(s, t, final) ==
  status' = [status EXCEPT ![s][t] = IF @ = "none" THEN @ ELSE final]

(* abortCleanup, one component at a time: what is done at one position of  *)
(* it, and the position after that.                                        *)
AbortCleanup(s, t, at) ==
  \/ /\ at = "abortRelease"
     /\ Release(s, t)
     /\ UNCHANGED <<buffers, status, clock>>
  \/ /\ at = "abortRemove"
     /\ Remove(s, t)
     /\ UNCHANGED <<locks, status, clock>>
  \/ /\ at = "abortMark"
     /\ Mark(s, t, "aborted")
     /\ UNCHANGED <<locks, buffers, clock>>
  \/ /\ at = "abortTick"
     /\ HlcTick(s)
     /\ UNCHANGED <<locks, buffers, status>>

After(at) ==
  CASE at = "abortRelease" -> "abortRemove"
    [] at = "abortRemove" -> "abortMark"
    [] at = "abortMark" -> "abortTick"
    [] OTHER -> "idle"

Answer(s, t, answer) ==
  /\ pc' = [pc EXCEPT ![s][t] = "idle"]
  /\ todo' = [todo EXCEPT ![s][t] = {}]
  /\ reply' = [reply EXCEPT ![s][t] = answer]

(* A loop over keys visits them in any order, which includes the insertion *)
(* order of the code.                                                      *)
Loop(s, t, position, ks) ==
  /\ pc' = [pc EXCEPT ![s][t] = position]
  /\ todo' = [todo EXCEPT ![s][t] = ks]

Visit(s, t, k) == todo' = [todo EXCEPT ![s][t] = @ \ {k}]

-----------------------------------------------------------------------------
(* Prepare. *)

(* What decides the vote is over; abortCleanup follows.                    *)
VoteAbort(s, t) ==
  /\ Loop(s, t, "abortRelease", {})
  /\ UNCHANGED <<store, clock, buffers, writes, reads, locks, status, ptime,
                 ctime, dropping>>

NoOps(s, t) == WriteKeys(s, t) \cup ReadKeys(s, t) = {}

PrepareBegin(s, t) ==
  /\ pc[s][t] = "idle"
  /\ \/ /\ t \notin buffers[s]
        /\ Answer(s, t, "error")
        /\ UNCHANGED <<status, ptime>>
     \/ /\ t \in buffers[s]
        /\ NoOps(s, t)
        /\ VoteAbort(s, t)
        /\ reply' = [reply EXCEPT ![s][t] = "none"]
     \/ /\ t \in buffers[s]
        /\ ~NoOps(s, t)
        /\ status' = [status EXCEPT ![s][t] = "running"]
        /\ ptime' = [ptime EXCEPT ![s][t] = 0]
        /\ Loop(s, t, "lock", WriteKeys(s, t))
        /\ reply' = [reply EXCEPT ![s][t] = "none"]
  /\ UNCHANGED <<store, clock, buffers, writes, reads, locks, ctime, dropping>>

(* Mutant: a lock is taken from its holder.                                *)
CanLockAnyway(t, k) == TRUE

(* LockManager.AcquireWrite never waits: a lock held by another            *)
(* transaction is a conflict.                                              *)
CanLock(t, k) == locks[k] \in {None, t}

PrepareLock(s, t, k) ==
  /\ pc[s][t] = "lock"
  /\ k \in todo[s][t]
  /\ \/ /\ CanLock(t, k)
        /\ locks' = [locks EXCEPT ![k] = t]
        /\ Visit(s, t, k)
        /\ UNCHANGED <<store, clock, buffers, writes, reads, status, ptime,
                       ctime, pc, reply, dropping>>
     \/ ~CanLock(t, k) /\ VoteAbort(s, t) /\ UNCHANGED reply

(* The write of k was made to the version that is still the latest one.    *)
CASValid(t, k) == FindLatest(store[k]).version = writes[t][k].orig

PrepareCheckWrite(s, t, k) ==
  /\ pc[s][t] = "checkWrites"
  /\ k \in todo[s][t]
  /\ \/ /\ CASValid(t, k)
        /\ Visit(s, t, k)
        /\ UNCHANGED <<store, clock, buffers, writes, reads, locks, status,
                       ptime, ctime, pc, reply, dropping>>
     \/ ~CASValid(t, k) /\ VoteAbort(s, t) /\ UNCHANGED reply

ReadValid(t, k) == FindLatest(store[k]) = reads[t][k]

PrepareCheckRead(s, t, k) ==
  /\ pc[s][t] = "checkReads"
  /\ k \in todo[s][t]
  /\ \/ /\ ReadValid(t, k)
        /\ Visit(s, t, k)
        /\ UNCHANGED <<store, clock, buffers, writes, reads, locks, status,
                       ptime, ctime, pc, reply, dropping>>
     \/ ~ReadValid(t, k) /\ VoteAbort(s, t) /\ UNCHANGED reply

(* Mutant: what was read is not validated, at any level.                   *)
PrepareNextNoReads(s, t) ==
  /\ todo[s][t] = {}
  /\ \/ /\ pc[s][t] = "lock"
        /\ Level[t] \in {"SI", "SER"}
        /\ Loop(s, t, "checkWrites", WriteKeys(s, t))
     \/ /\ \/ pc[s][t] = "lock" /\ Level[t] \notin {"SI", "SER"}
           \/ pc[s][t] = "checkWrites"
        /\ Loop(s, t, "vote", {})
  /\ UNCHANGED <<store, clock, buffers, writes, reads, locks, status, ptime,
                 ctime, reply, dropping>>

(* The end of one loop of Prepare and the start of the next.               *)
PrepareNext(s, t) ==
  /\ todo[s][t] = {}
  /\ \/ /\ pc[s][t] = "lock"
        /\ Level[t] \in {"SI", "SER"}
        /\ Loop(s, t, "checkWrites", WriteKeys(s, t))
     \/ /\ pc[s][t] = "checkWrites"
        /\ Level[t] = "SER"
        /\ Loop(s, t, "checkReads", ReadKeys(s, t))
     \/ /\ \/ pc[s][t] = "lock" /\ Level[t] \notin {"SI", "SER"}
           \/ pc[s][t] = "checkWrites" /\ Level[t] # "SER"
           \/ pc[s][t] = "checkReads"
        /\ Loop(s, t, "vote", {})
  /\ UNCHANGED <<store, clock, buffers, writes, reads, locks, status, ptime,
                 ctime, reply, dropping>>

PrepareVote(s, t) ==
  /\ pc[s][t] = "vote"
  /\ HlcTick(s)
  /\ status' = [status EXCEPT ![s][t] = "prepared"]
  /\ ptime' = [ptime EXCEPT ![s][t] = clock'[s]]
  /\ Answer(s, t, "commit")
  /\ UNCHANGED <<store, buffers, writes, reads, locks, ctime, dropping>>

(* A vote to abort is answered after abortCleanup; a Prepare that found    *)
(* nothing to do answers with an error.                                    *)
PrepareAborts(s, t) ==
  LET at == pc[s][t]
  IN /\ at \in Cleanups
     /\ AbortCleanup(s, t, at)
     /\ IF at = "abortTick"
          THEN Answer(s, t, IF NoOps(s, t) THEN "error" ELSE "abort")
          ELSE Loop(s, t, After(at), {}) /\ UNCHANGED reply
     /\ UNCHANGED <<store, writes, reads, ptime, ctime, dropping>>

-----------------------------------------------------------------------------
(* Commit and Abort. *)

CommitBegin(s, t, ct) ==
  /\ pc[s][t] = "idle"
  /\ UNCHANGED <<store, clock, buffers, writes, reads, locks, status, ptime,
                 dropping>>
  /\ \/ /\ t \notin buffers[s]
        /\ Answer(s, t, "error")
        /\ UNCHANGED ctime
     \/ /\ t \in buffers[s]
        /\ Loop(s, t, "put", WriteKeys(s, t))
        /\ ctime' = [ctime EXCEPT ![s][t] = ct]
        /\ reply' = [reply EXCEPT ![s][t] = "none"]

(* MVCCStore.Put and Delete refuse a version that exists; Commit ignores   *)
(* the error.                                                              *)
VersionConflict(k, ct) == \E v \in store[k] : v.version = ct

CommitPut(s, t, k) ==
  LET ct == ctime[s][t]
      v == [version |-> ct, tx |-> t, deleted |-> writes[t][k].deleted]
  IN /\ pc[s][t] = "put"
     /\ k \in todo[s][t]
     /\ Visit(s, t, k)
     /\ store' = [store EXCEPT ![k] =
                    IF VersionConflict(k, ct) THEN @ ELSE @ \cup {v}]
     /\ UNCHANGED <<clock, buffers, writes, reads, locks, status, ptime,
                    ctime, pc, reply, dropping>>

(* Mutant: the shard's clock does not learn the commit time.               *)
CommitClockUnmoved(s, t) ==
  /\ pc[s][t] = "put"
  /\ todo[s][t] = {}
  /\ Loop(s, t, "release", {})
  /\ UNCHANGED <<store, clock, buffers, writes, reads, locks, status, ptime,
                 ctime, reply, dropping>>

(* Clock.Update with the commit time.                                      *)
CommitClock(s, t) ==
  /\ pc[s][t] = "put"
  /\ todo[s][t] = {}
  /\ \E now \in Wall : clock' = [clock EXCEPT ![s] = Update(@, ctime[s][t], now)]
  /\ Loop(s, t, "release", {})
  /\ UNCHANGED <<store, buffers, writes, reads, locks, status, ptime, ctime,
                 reply, dropping>>

(* cleanup and TxStatusTable.Commit, one component at a time.              *)
CommitCleanup(s, t) ==
  /\ \/ /\ pc[s][t] = "release"
        /\ Release(s, t)
        /\ Loop(s, t, "remove", {})
        /\ UNCHANGED <<buffers, status, reply>>
     \/ /\ pc[s][t] = "remove"
        /\ Remove(s, t)
        /\ Loop(s, t, "mark", {})
        /\ UNCHANGED <<locks, status, reply>>
     \/ /\ pc[s][t] = "mark"
        /\ Mark(s, t, "committed")
        /\ Answer(s, t, "ok")
        /\ UNCHANGED <<locks, buffers>>
  /\ UNCHANGED <<store, clock, writes, reads, ptime, ctime, dropping>>

(* The first step of Abort; the others are AbortGoesOn.  It does not look  *)
(* at pc: a Prepare of t may be running.                                   *)
AbortAt(s, t, at) ==
  /\ AbortCleanup(s, t, at)
  /\ dropping' = [dropping EXCEPT ![s][t] = After(at)]
  /\ UNCHANGED <<store, writes, reads, ptime, ctime, pc, todo, reply>>

Abort(s, t) == dropping[s][t] = "idle" /\ AbortAt(s, t, "abortRelease")

AbortGoesOn(s, t) ==
  dropping[s][t] \in Cleanups /\ AbortAt(s, t, dropping[s][t])

(* The process dies and starts again.  It persists nothing, and the calls  *)
(* it was serving end in an error for their callers.                       *)
Crash(s) ==
  LET lost(f, new) == [k \in Keys |-> IF Home[k] = s THEN new ELSE f[k]]
      forgotten(f) == [t \in Txs |-> lost(f[t], None)]
  IN /\ store' = lost(store, {})
     /\ locks' = lost(locks, None)
     /\ clock' = [clock EXCEPT ![s] = 0]
     /\ buffers' = [buffers EXCEPT ![s] = {}]
     /\ status' = [status EXCEPT ![s] = [t \in Txs |-> "none"]]
     /\ ptime' = [ptime EXCEPT ![s] = [t \in Txs |-> 0]]
     /\ ctime' = [ctime EXCEPT ![s] = [t \in Txs |-> 0]]
     /\ pc' = [pc EXCEPT ![s] = [t \in Txs |-> "idle"]]
     /\ todo' = [todo EXCEPT ![s] = [t \in Txs |-> {}]]
     /\ dropping' = [dropping EXCEPT ![s] = [t \in Txs |-> "idle"]]
     /\ writes' = forgotten(writes)
     /\ reads' = forgotten(reads)
     /\ reply' = [reply EXCEPT ![s] = [t \in Txs |-> "error"]]

(* What a running handler does next.                                       *)
Handler(s, t) ==
  \/ \E k \in KeysOf(s) : \/ PrepareLock(s, t, k)
                          \/ PrepareCheckWrite(s, t, k)
                          \/ PrepareCheckRead(s, t, k)
                          \/ CommitPut(s, t, k)
  \/ PrepareNext(s, t)
  \/ PrepareVote(s, t)
  \/ PrepareAborts(s, t)
  \/ CommitClock(s, t)
  \/ CommitCleanup(s, t)
  \/ AbortGoesOn(s, t)

-----------------------------------------------------------------------------
(* A shard by itself, called as the routers call it: a transaction is      *)
(* prepared once, nothing is added to it afterwards, it is committed only  *)
(* after it voted to, at a time later than its prepare time, and it is not *)
(* aborted once its commit was asked for.  An Abort may overtake a Prepare *)
(* that is still running (its caller got an error and gave up on it).      *)

Open(s, t) ==
  /\ pc[s][t] = "idle"
  /\ dropping[s][t] = "idle"
  /\ status[s][t] = "none"

Committing(s, t) == pc[s][t] \in {"put", "release", "remove", "mark"}

ClientCall(s, t) ==
  /\ Open(s, t)
  /\ clock[s] + 1 \in Times
  /\ \/ TxStart(s, t)
     \/ \E k \in KeysOf(s) :
          \/ /\ <<"read", k>> \in Access[t]
             /\ \E time \in Times : TxRead(s, t, k, time)
          \/ <<"write", k>> \in Access[t] /\ TxWrite(s, t, k)
          \/ <<"delete", k>> \in Access[t] /\ TxDelete(s, t, k)

PrepareCall(s, t) == Open(s, t) /\ PrepareBegin(s, t)

CommitCall(s, t) ==
  /\ dropping[s][t] = "idle"
  /\ \/ t \notin buffers[s] /\ CommitBegin(s, t, 0)
     \/ /\ status[s][t] = "prepared"
        /\ \E ahead \in Leads : CommitBegin(s, t, ptime[s][t] + 1 + ahead)

AbortCall(s, t) ==
  /\ ~Committing(s, t)
  /\ t \in buffers[s] \/ clock[s] + 1 \in Times
  /\ Abort(s, t)

ShardNext ==
  \E s \in Shards :
    \/ Crash(s)
    \/ \E t \in Txs : \/ ClientCall(s, t)
                      \/ PrepareCall(s, t)
                      \/ CommitCall(s, t)
                      \/ AbortCall(s, t)
                      \/ Handler(s, t)

ShardSpec == ShardInit /\ [][ShardNext]_shardVars

-----------------------------------------------------------------------------
(* Properties. *)

(* A handler has given t's locks back and is about to remove its buffer.   *)
Released(s, t) ==
  pc[s][t] \in {"remove", "abortRemove"} \/ dropping[s][t] = "abortRemove"

(* t has its buffer yet, and nobody has started to take it away.           *)
Intact(s, t) == t \in buffers[s] /\ ~Released(s, t)

(* t voted to commit at s, or is being committed, and no cleanup has begun. *)
Voted(s, t) == Intact(s, t) /\ status[s][t] = "prepared"

(* It voted, and its Commit has not come.                                  *)
Settled(s, t) == pc[s][t] = "idle" /\ status[s][t] = "prepared"

(* Between its vote and the cleanup of its Commit, a transaction holds the *)
(* write lock of every key it is going to write, whatever the other        *)
(* transactions do and even if an Abort of another overtakes its Prepare.  *)
WriteLocked ==
  \A s \in Shards, t \in Txs :
    Voted(s, t) => \A k \in WriteKeys(s, t) : locks[k] = t

(* A commit only ever adds a version after all the versions its key has:   *)
(* no ErrVersionConflict for Commit to ignore, and no reader finds that a  *)
(* version appeared behind one it has seen.                                *)
AppliesOnTop ==
  \A s \in Shards, t \in Txs :
    pc[s][t] = "put" =>
      \A k \in todo[s][t] : \A v \in store[k] : v.version < ctime[s][t]

(* What the CAS validation of Prepare established at SI and SER is still   *)
(* true when the write is applied, however long phase 2 takes to come.     *)
CASHolds ==
  \A s \in Shards, t \in Txs :
    /\ Voted(s, t)
    /\ Level[t] \in {"SI", "SER"}
    => \A k \in WriteKeys(s, t) :
         Settled(s, t) \/ (pc[s][t] = "put" /\ k \in todo[s][t])
           => CASValid(t, k)

(* At SER a key that was read and then written is overwritten as it was    *)
(* read: no update in between is lost.                                     *)
NoLostUpdate ==
  \A s \in Shards, t \in Txs :
    /\ pc[s][t] = "put"
    /\ Level[t] = "SER"
    => \A k \in todo[s][t] \cap ReadKeys(s, t) : ReadValid(t, k)

-----------------------------------------------------------------------------
(* The inductive invariant behind these properties, for module             *)
(* ShardProofs.                                                            *)

(* The write locks t has taken by now.                                     *)
Acquired(s, t) ==
  {k \in WriteKeys(s, t) :
     \/ pc[s][t] = "lock" /\ k \notin todo[s][t]
     \/ pc[s][t] \in {"checkWrites", "checkReads", "vote", "put", "release"}
     \/ Settled(s, t)}

(* The writes whose CAS validation succeeded and that are not applied yet. *)
WritesChecked(s, t) ==
  {k \in WriteKeys(s, t) :
     \/ pc[s][t] = "checkWrites" /\ k \notin todo[s][t]
     \/ pc[s][t] \in {"checkReads", "vote"}
     \/ pc[s][t] = "put" /\ k \in todo[s][t]
     \/ Settled(s, t)}

(* Likewise for the reads of keys that t writes too.                       *)
ReadsChecked(s, t) ==
  {k \in WriteKeys(s, t) \cap ReadKeys(s, t) :
     \/ pc[s][t] = "checkReads" /\ k \notin todo[s][t]
     \/ pc[s][t] = "vote"
     \/ pc[s][t] = "put" /\ k \in todo[s][t]
     \/ Settled(s, t)}

PutsWrites(s, t) == pc[s][t] = "put" => todo[s][t] \subseteq WriteKeys(s, t)

LocksKept(s, t) == Intact(s, t) => \A k \in Acquired(s, t) : locks[k] = t

WritesKept(s, t) ==
  Intact(s, t) /\ Level[t] \in {"SI", "SER"}
    => \A k \in WritesChecked(s, t) : CASValid(t, k)

ReadsKept(s, t) ==
  Intact(s, t) /\ Level[t] = "SER"
    => \A k \in ReadsChecked(s, t) : ReadValid(t, k)

CommitIsVoted(s, t) ==
  /\ Committing(s, t) =>
       /\ status[s][t] = "prepared"
       /\ dropping[s][t] = "idle"
       /\ ptime[s][t] < ctime[s][t]
  /\ pc[s][t] \in {"put", "release", "remove"} => t \in buffers[s]
  /\ pc[s][t] = "mark" => t \notin buffers[s]
  /\ status[s][t] = "prepared" => pc[s][t] = "idle" \/ Committing(s, t)

PreparedAbove(s, t) ==
  Voted(s, t) =>
    \A k \in WriteKeys(s, t) :
      pc[s][t] = "idle" \/ (pc[s][t] = "put" /\ k \in todo[s][t]) =>
        \A v \in store[k] : v.version < ptime[s][t]

RowInv(s, t) ==
  /\ PutsWrites(s, t)
  /\ LocksKept(s, t)
  /\ WritesKept(s, t)
  /\ ReadsKept(s, t)
  /\ CommitIsVoted(s, t)
  /\ PreparedAbove(s, t)

(* A version is at most its shard's clock, or its writer has still to      *)
(* update the clock and holds the lock until it does.                      *)
BehindClock ==
  \A k \in Keys : \A v \in store[k] :
    \/ v.version <= clock[Home[k]]
    \/ /\ pc[Home[k]][v.tx] = "put"
       /\ k \in WriteKeys(Home[k], v.tx)
       /\ v.version = ctime[Home[k]][v.tx]

ShardInv ==
  /\ TypeOK
  /\ BehindClock
  /\ \A s \in Shards, t \in Txs : RowInv(s, t)
=============================================================================
