------------------------------ MODULE Sessions ------------------------------
(***************************************************************************)
(* Requests of one transaction that overlap, are given up, or reach        *)
(* another router.  A client of the library (internal/client) sends each   *)
(* request to a router in turn and may not wait for the answer of the last *)
(* one; when its deadline passes, the handler and the call it was waiting  *)
(* for go on.  A router (internal/mulberry) has one mutex for its table of *)
(* transactions, and holds it across the TxStart call.  The shards are     *)
(* here only what they make of a transaction's buffer: locks, validation   *)
(* and versions are in Shard and Cluster.                                  *)
(***************************************************************************)
EXTENDS Clock, FiniteSets

CONSTANTS
  Clients,
  Routers,
  Shards,
  Boots,         \* where the clock of a router may be when it starts
  MaxRequests,   \* bound: MaxRequests[c] requests of client c
  MaxOverlap,    \* bound: handlers running for one client
  None

Requests == UNION {{c} \X (1..MaxRequests[c]) : c \in Clients}

ASSUME SessionsAssumption ==
  /\ Boots \subseteq Nat
  /\ MaxRequests \in [Clients -> Nat]
  /\ MaxOverlap \in Nat
  /\ None \notin Nat \cup Requests \cup {"write", "commit", "abort"}

(* A transaction is named by a time of the router that began it.           *)
Ids == Nat

VARIABLES
  clock,      \* clock[r]: the clock of router r
  active,     \* active[r]: the ids in its activeTxns
  mutex,      \* mutex[r]: the request that holds Router.mu across a call
  involved,   \* involved[r]: the <<id, shard>> pairs of its InvolvedShards
  buffers,    \* buffers[s]: the ids that have a buffer at s
  writes,     \* writes[s]: the <<id, request>> pairs in those buffers
  store,      \* store[s]: the requests whose write is committed
  id,         \* id[c]: the transaction of c
  sent,       \* sent[c]: requests of c that have arrived
  op,         \* op[q]: "write", "commit" or "abort"
  to,         \* to[q]: the shard of a write
  via,        \* via[q]: the router that q was sent to
  pc,         \* pc[q]: where its handler stands
  call,       \* call[q]: what the shard makes of its TxStart or TxWrite
  due,        \* due[q]: the shards its loop has to visit
  dead,       \* dead[q]: its deadline has passed
  result,     \* result[q]: what the client was told
  acked,      \* acked[q]: the writes acknowledged when q arrived
  lost,       \* the requests whose write another one may have displaced
  fatal       \* the runtime found a map in use by two goroutines

router == <<clock, active, mutex, involved>>
shard == <<buffers, writes, store, call, lost>>
client == <<id, sent, op, to, via, acked>>
vars == <<router, shard, client, pc, due, dead, result, fatal>>

Positions == {"new", "ensure", "start", "write",
              "prepare", "commit", "abort", "done"}

Operations == {"write", "commit", "abort"}

TypeOK ==
  /\ clock \in [Routers -> Nat]
  /\ active \in [Routers -> SUBSET Ids]
  /\ mutex \in [Routers -> Requests \cup {None}]
  /\ involved \in [Routers -> SUBSET (Ids \X Shards)]
  /\ buffers \in [Shards -> SUBSET Ids]
  /\ writes \in [Shards -> SUBSET (Ids \X Requests)]
  /\ store \in [Shards -> SUBSET Requests]
  /\ id \in [Clients -> Ids \cup {None}]
  /\ sent \in [Clients -> Nat]
  /\ op \in [Requests -> Operations \cup {None}]
  /\ to \in [Requests -> Shards \cup {None}]
  /\ via \in [Requests -> Routers \cup {None}]
  /\ pc \in [Requests -> Positions]
  /\ call \in [Requests -> {"none", "check", "exists", "create", "write", "missing", "done"}]
  /\ due \in [Requests -> SUBSET Shards]
  /\ dead \in [Requests -> BOOLEAN]
  /\ result \in [Requests -> {"none", "ok", "error"}]
  /\ acked \in [Requests -> SUBSET Requests]

Init ==
  /\ clock \in [Routers -> Boots]
  /\ active = [r \in Routers |-> {}]
  /\ mutex = [r \in Routers |-> None]
  /\ involved = [r \in Routers |-> {}]
  /\ buffers = [s \in Shards |-> {}]
  /\ writes = [s \in Shards |-> {}]
  /\ store = [s \in Shards |-> {}]
  /\ id = [c \in Clients |-> None]
  /\ sent = [c \in Clients |-> 0]
  /\ op = [q \in Requests |-> None]
  /\ to = [q \in Requests |-> None]
  /\ via = [q \in Requests |-> None]
  /\ pc = [q \in Requests |-> "new"]
  /\ call = [q \in Requests |-> "none"]
  /\ due = [q \in Requests |-> {}]
  /\ dead = [q \in Requests |-> FALSE]
  /\ result = [q \in Requests |-> "none"]
  /\ acked = [q \in Requests |-> {}]
  /\ lost = {}
  /\ fatal = FALSE

IdOf(q) == id[q[1]]

Goto(q, p) == pc' = [pc EXCEPT ![q] = p]

Call(q, p, what) ==
  /\ Goto(q, p)
  /\ call' = [call EXCEPT ![q] = what]

FirstStep == [write |-> "ensure", commit |-> "prepare", abort |-> "abort"]

Ongoing(q) == pc[q] \notin {"new", "done"}

(* The handler returns.  After the deadline the client does not hear it.   *)
Return(q, answer) ==
  /\ Goto(q, "done")
  /\ result' = [result EXCEPT ![q] = IF dead[q] THEN "error" ELSE answer]

-----------------------------------------------------------------------------
(* The client. *)

(* BeginTransaction at some router: the id is one tick, the snapshot time  *)
(* another.                                                                *)
Begin(c, r) ==
  /\ id[c] = None
  /\ mutex[r] = None
  /\ LET tick == Tick(clock[r], 0)
     IN /\ id' = [id EXCEPT ![c] = tick]
        /\ active' = [active EXCEPT ![r] = @ \cup {tick}]
        /\ clock' = [clock EXCEPT ![r] = Tick(tick, 0)]
  /\ UNCHANGED <<mutex, involved, shard, sent, op, to, via, acked, pc, due,
                 dead, result, fatal>>

Acknowledged(c) ==
  {q \in Requests : q[1] = c /\ op[q] = "write" /\ result[q] = "ok"}

Ended(c) == \E q \in Requests : q[1] = c /\ op[q] # "write" /\ result[q] = "ok"

Involved(c, r) == {s \in Shards : <<id[c], s>> \in involved[r]}

(* A request reaches r, the balancer of the library having picked any      *)
(* router, and getTxContext looks for its transaction.                     *)
Arrive(c, o, s, r) ==
  LET q == <<c, sent[c] + 1>>
  IN /\ id[c] # None
     /\ ~Ended(c)
     /\ q \in Requests
     /\ Cardinality({p \in Requests : p[1] = c /\ Ongoing(p) /\ ~dead[p]}) < MaxOverlap
     /\ mutex[r] = None
     /\ sent' = [sent EXCEPT ![c] = @ + 1]
     /\ op' = [op EXCEPT ![q] = o]
     /\ to' = [to EXCEPT ![q] = s]
     /\ via' = [via EXCEPT ![q] = r]
     /\ acked' = [acked EXCEPT ![q] = Acknowledged(c)]
     /\ \/ /\ id[c] \notin active[r]
           /\ Return(q, "error")
           /\ UNCHANGED due
        \/ /\ id[c] \in active[r]
           /\ Goto(q, FirstStep[o])
           /\ due' = [due EXCEPT ![q] = IF o = "write" THEN {} ELSE Involved(c, r)]
           /\ UNCHANGED result
     /\ UNCHANGED <<router, shard, id, dead, fatal>>

(* The deadline of q passes while it waits for a shard.  If it passes      *)
(* elsewhere the next call fails before it is sent, which differs only in  *)
(* what the shard does.                                                    *)
Deadline(q) ==
  /\ Ongoing(q) /\ pc[q] # "ensure"
  /\ ~dead[q]
  /\ dead' = [dead EXCEPT ![q] = TRUE]
  /\ UNCHANGED <<router, shard, client, pc, due, result, fatal>>

-----------------------------------------------------------------------------
(* The handler of Write (Read and Delete make the same calls).             *)

(* Mutant: the mutex is given back before the call.                        *)
EnsureUnlocked(q) ==
  /\ pc[q] = "ensure"
  /\ mutex[via[q]] = None
  /\ IF to[q] \in Involved(q[1], via[q]) THEN Call(q, "write", "write") ELSE Call(q, "start", "check")
  /\ UNCHANGED mutex
  /\ UNCHANGED <<clock, active, involved, buffers, writes, store, lost, client, due, dead, result, fatal>>

(* ensureShardStarted takes the mutex and keeps it while TxStart runs.     *)
Ensure(q) ==
  /\ pc[q] = "ensure"
  /\ mutex[via[q]] = None
  /\ \/ /\ to[q] \in Involved(q[1], via[q])
        /\ Call(q, "write", "write")
        /\ UNCHANGED mutex
     \/ /\ to[q] \notin Involved(q[1], via[q])
        /\ Call(q, "start", "check")
        /\ mutex' = [mutex EXCEPT ![via[q]] = q]
  /\ UNCHANGED <<clock, active, involved, buffers, writes, store, lost, client, due,
                 dead, result, fatal>>

(* TxStart at the shard: the check and the creation are two sections.      *)
ShardCheck(q) ==
  /\ call[q] = "check"
  /\ call' = [call EXCEPT ![q] = IF IdOf(q) \in buffers[to[q]] THEN "exists" ELSE "create"]
  /\ UNCHANGED <<router, buffers, writes, store, lost, client, pc, due, dead, result, fatal>>

(* TxBufferManager.Start puts an empty buffer, whatever is there.          *)
ShardCreate(q) ==
  /\ call[q] = "create"
  /\ call' = [call EXCEPT ![q] = "done"]
  /\ buffers' = [buffers EXCEPT ![to[q]] = @ \cup {IdOf(q)}]
  /\ writes' = [writes EXCEPT ![to[q]] = {w \in @ : w[1] # IdOf(q)}]
  /\ UNCHANGED <<router, store, lost, client, pc, due, dead, result, fatal>>

(* The handlers whose loop goes over the map that q's TxStart adds to.     *)
Looping(q) ==
  {p \in Requests : /\ pc[p] \in {"prepare", "commit", "abort"}
                    /\ via[p] = via[q] /\ IdOf(p) = IdOf(q)}

Unlock(q) == mutex' = [r \in Routers |-> IF mutex[r] = q THEN None ELSE mutex[r]]

(* TxStart has answered.  A loop that runs may or may not meet the shard.  *)
Started(q) ==
  /\ pc[q] = "start"
  /\ ~dead[q]
  /\ Unlock(q)
  /\ \/ /\ call[q] = "done"
        /\ involved' = [involved EXCEPT ![via[q]] = @ \cup {<<IdOf(q), to[q]>>}]
        /\ \E meet \in SUBSET Looping(q) :
             due' = [p \in Requests |-> IF p \in meet THEN due[p] \cup {to[q]} ELSE due[p]]
        /\ Call(q, "write", "write")
        /\ UNCHANGED result
     \/ /\ call[q] = "exists"
        /\ Return(q, "error")
        /\ UNCHANGED <<involved, due, call>>
  /\ UNCHANGED <<clock, active, buffers, writes, store, lost, client, dead, fatal>>

(* Mutant: an error return leaves the mutex locked.                        *)
StartFailsLocked(q) ==
  /\ pc[q] = "start"
  /\ dead[q]
  /\ Return(q, "error")
  /\ UNCHANGED <<router, shard, client, due, dead, fatal>>

(* The deadline passed during TxStart.                                     *)
StartFails(q) ==
  /\ pc[q] = "start"
  /\ dead[q]
  /\ Unlock(q)
  /\ Return(q, "error")
  /\ UNCHANGED <<clock, active, involved, shard, client, due, dead, fatal>>

(* TxWrite at the shard.  A TxBuffer has no mutex: of two writes at a time *)
(* one may be lost, both having appended to the same end of writeOrder.    *)
ShardWrite(q) ==
  /\ call[q] = "write"
  /\ \/ /\ IdOf(q) \in buffers[to[q]]
        /\ call' = [call EXCEPT ![q] = "done"]
        /\ \/ /\ writes' = [writes EXCEPT ![to[q]] = @ \cup {<<IdOf(q), q>>}]
              /\ UNCHANGED lost
           \/ /\ \E p \in Requests \ {q} :
                   call[p] = "write" /\ to[p] = to[q] /\ IdOf(p) = IdOf(q)
              /\ lost' = lost \cup {q}
              /\ UNCHANGED writes
     \/ /\ IdOf(q) \notin buffers[to[q]]
        /\ call' = [call EXCEPT ![q] = "missing"]
        /\ UNCHANGED <<writes, lost>>
  /\ UNCHANGED <<router, buffers, store, client, pc, due, dead, result, fatal>>

Written(q) ==
  /\ pc[q] = "write"
  /\ \/ call[q] = "done" /\ Return(q, "ok")
     \/ (call[q] = "missing" \/ dead[q]) /\ Return(q, "error")
  /\ UNCHANGED <<router, shard, client, due, dead, fatal>>

-----------------------------------------------------------------------------
(* The handlers of Commit and Abort. *)

BufferOf(q, s) == {w \in writes[s] : w[1] = IdOf(q)}

DropBuffer(q, s) ==
  /\ buffers' = [buffers EXCEPT ![s] = @ \ {IdOf(q)}]
  /\ writes' = [writes EXCEPT ![s] = @ \ BufferOf(q, s)]

(* A vote against, or an error: abortAll begins.                           *)
AbortAll(q) ==
  /\ Goto(q, "abort")
  /\ due' = [due EXCEPT ![q] = Involved(q[1], via[q])]

Visited(q, s) == due' = [due EXCEPT ![q] = @ \ {s}]

(* A shard without a buffer, or with an empty one, votes against; another  *)
(* may, for a conflict.  Here and below, a call that the deadline cut off  *)
(* may have been served.                                                   *)
Prepare(q, s) ==
  /\ pc[q] = "prepare"
  /\ s \in due[q]
  /\ \/ ~dead[q] /\ BufferOf(q, s) # {} /\ Visited(q, s) /\ UNCHANGED <<buffers, writes, pc>>
     \/ DropBuffer(q, s) /\ AbortAll(q)
     \/ dead[q] /\ AbortAll(q) /\ UNCHANGED <<buffers, writes>>
  /\ UNCHANGED <<router, store, call, lost, client, dead, result, fatal>>

Decide(q) ==
  /\ pc[q] = "prepare"
  /\ due[q] = {}
  /\ Goto(q, "commit")
  /\ due' = [due EXCEPT ![q] = Involved(q[1], via[q])]
  /\ UNCHANGED <<router, shard, client, dead, result, fatal>>

CommitAt(q, s) ==
  /\ pc[q] = "commit"
  /\ s \in due[q]
  /\ Visited(q, s)
  /\ \/ /\ store' = [store EXCEPT ![s] = @ \cup {w[2] : w \in BufferOf(q, s)}]
        /\ DropBuffer(q, s)
     \/ dead[q] /\ UNCHANGED <<buffers, writes, store>>
  /\ UNCHANGED <<router, call, lost, client, pc, dead, result, fatal>>

AbortAt(q, s) ==
  /\ pc[q] = "abort"
  /\ s \in due[q]
  /\ Visited(q, s)
  /\ \/ DropBuffer(q, s)
     \/ dead[q] /\ UNCHANGED <<buffers, writes>>
  /\ UNCHANGED <<router, store, call, lost, client, pc, dead, result, fatal>>

(* removeTxContext and the reply.                                          *)
End(q) ==
  /\ pc[q] \in {"commit", "abort"}
  /\ due[q] = {}
  /\ mutex[via[q]] = None
  /\ active' = [active EXCEPT ![via[q]] = @ \ {IdOf(q)}]
  /\ Return(q, IF pc[q] = op[q] THEN "ok" ELSE "error")
  /\ UNCHANGED <<clock, mutex, involved, shard, client, due, dead, fatal>>

-----------------------------------------------------------------------------
(* Two goroutines in one Go map, one of them writing: InvolvedShards, or   *)
(* the maps of a TxBuffer.  The runtime ends the process if it notices, and*)
(* nothing more is said of such a behaviour.                               *)
MapRace ==
  /\ \E q \in Requests :
       \/ pc[q] = "start" /\ call[q] = "done" /\ Looping(q) # {}
       \/ /\ call[q] = "write"
          /\ \E p \in Requests \ {q} :
               /\ IdOf(p) = IdOf(q)
               /\ \/ call[p] = "write" /\ to[p] = to[q]
                  \/ pc[p] \in {"prepare", "commit"} /\ to[q] \in due[p]
  /\ fatal' = TRUE
  /\ UNCHANGED <<router, shard, client, pc, due, dead, result>>

RouterStep(q) ==
  \/ Ensure(q) \/ Started(q) \/ StartFails(q) \/ Written(q)
  \/ \E s \in Shards : Prepare(q, s) \/ CommitAt(q, s) \/ AbortAt(q, s)
  \/ Decide(q) \/ End(q)

ShardStep(q) == ShardCheck(q) \/ ShardCreate(q) \/ ShardWrite(q)

Next ==
  /\ ~fatal
  /\ \/ \E c \in Clients, r \in Routers :
          \/ Begin(c, r)
          \/ \E s \in Shards : Arrive(c, "write", s, r)
          \/ Arrive(c, "commit", None, r)
          \/ Arrive(c, "abort", None, r)
     \/ \E q \in Requests : Deadline(q) \/ RouterStep(q) \/ ShardStep(q)
     \/ MapRace

Spec == Init /\ [][Next]_vars

(* Handlers run and deadlines pass (5 seconds in cmd/client); a shard need *)
(* not answer.  As requests are finite, it is enough that some handler or  *)
(* deadline goes on as long as one can.                                    *)
FairSpec == Spec /\ WF_vars(~fatal /\ \E q \in Requests : RouterStep(q) \/ Deadline(q))

-----------------------------------------------------------------------------
(* Properties. *)

UniqueId(c) == \A d \in Clients \ {c} : id[d] # id[c]

(* q is the only commit or abort of its client.                            *)
OnlyEnd(q) ==
  \A p \in Requests : p[1] = q[1] /\ op[p] \in {"commit", "abort"} => p = q

(* The client of w gave up no write to that shard.                         *)
Patient(w) == \A p \in Requests : p[1] = w[1] /\ to[p] = to[w] => ~dead[p]

(* A successful Commit has committed every write that was acknowledged     *)
(* before it arrived, although writes overlap and shards are started on   *)
(* demand.  Not so if the client ended the transaction twice or shares its *)
(* id, gave up a write to the same shard (its TxStart may yet replace the  *)
(* buffer), or if two writes were in the shard at once.                    *)
AckedWritesCommit ==
  \A q \in Requests :
    op[q] = "commit" /\ result[q] = "ok" /\ OnlyEnd(q) /\ UniqueId(q[1])
    => \A w \in acked[q] \ lost : Patient(w) => w \in store[to[w]]

(* Every request ends, at the latest some time after its deadline, and     *)
(* although one that waits for a silent shard holds the router's mutex.    *)
HandlersEnd == <>[](fatal \/ \A q \in Requests : ~Ongoing(q))
=============================================================================
