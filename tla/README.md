# let-mil-go in TLA+

let-mil-go is a distributed transactional key-value store: **shard servers** keep
multi-versioned data in memory, **transaction routers** (`internal/mulberry`) run
transactions over them with two-phase commit, and a **config server** (CSRS,
`internal/csrs`) tells the routers which shards exist. Every shard and router has
a hybrid logical clock (`internal/hlc`), whose timestamps order everything.

This directory holds models of that system, the configurations that check them
with TLC on small instances, and theorems about them proved with TLAPS.

## 1. The system

| Component | Code | State | Operations |
|---|---|---|---|
| Shard | `internal/shard/component/shard.go`, `internal/shard/server.go` | the components below and a clock | TxStart, TxRead, TxWrite, TxDelete, Prepare, Commit, Abort; Put, Get, GC passed through |
| Version store | `component/store.go` | per key a sorted list of versions | Put, Delete, Get, GetExact, GetLatest, GC |
| Lock manager | `component/lock.go` | entries by key, keys by transaction | AcquireRead, AcquireWrite, Release, ReleaseKey |
| Transaction buffers | `component/buffer.go` | per transaction: writes and external reads, with their order | Create, Get, Remove, AddWrite, AddRead, ... |
| Status table | `internal/model/transaction.go` | per transaction: status, times | Start, Prepare, Commit, Abort |
| Oplog | `component/oplog.go` | none (`NoOpLog`) | Append |
| Clock | `internal/hlc/hlc.go` | one timestamp | Tick, Update, Current |
| Router | `internal/mulberry/mulberry.go`, `server.go` | active transactions (snapshot time, involved shards), a clock, a topology | BeginTransaction, Read, Write, Delete, Commit, Abort |
| Hash ring | `internal/csrs/hash_ring.go` | sorted hashes, hash to shard | AddShard, RemoveShard, GetShardForKey, GetNShards |
| Topology | `internal/csrs/topology_manager.go`, `shard_info.go`, `server.go`, `cmd/csrs` | registry, ring, version | RegisterShard, AddShard, RemoveShard, BumpTopologyVersion, GetShardForKey, GetShardAddressMap |
| Topology sync | `cmd/mulberry/main.go` | the router's registry | syncTopology, doSync |
| Connection pool | `internal/mulberry/connection_manager.go` | per address a connection and a stub | GetStub, GetConnection, RemoveConnection, Shutdown |
| Client, shell | `internal/client`, `cmd/client` | the current transaction | requests, round robin over the routers, 5 s each |
| Workload | `internal/model/template.go`, `dependency.go` | templates, dependency graph | BuildFromTemplates, HasCycle, FindCycles |

**How they interact.** A client sends the requests of a transaction to a router. The
router hashes the key to a shard, calls `TxStart` there the first time, and then
the operation. `Commit` calls `Prepare` at each involved shard in turn, takes the
largest prepare time, updates its clock with it to get the commit time, and calls
`Commit` at each; any vote against, or any error, makes it call `Abort` at each. All calls
are synchronous gRPC calls that carry the context of the client's request. Shards register
with the config server when they start; a router polls it.

**What is hard.** The shard has no mutex: each of its components locks itself for one
call, so two handlers interleave between any two component calls, of one transaction as well as
of two. A call that fails for the router may still run at the shard. The request's
context may end between any two calls of its handler. Nothing is persisted. Commit times are
chosen by routers and applied by shards later. Topology answers are assembled from
several critical sections. A client may send a request before the last one is answered, or give it up and go
on; the handlers of one transaction then share its context at the router, which iterates over a map that another
handler changes, and its buffer at a shard, which has no mutex. The router's one mutex is held across a call.

**What makes each component correct.**

- Shard: a transaction that voted to commit keeps its write locks until it has
  written; what validation found stays true until then; versions of a key are only added
  on top.
- Router and shards: atomic commitment; what was reported aborted is never
  applied; what was reported committed is everywhere and visible to later
  transactions; requests end; nothing is left behind.
- Lock manager: write locks are exclusive, the two tables agree, nobody is
  refused without cause.
- Store: bisection answers what the set of versions says; collection changes no
  snapshot read.
- Clock: the 48 + 16 bit arithmetic is arithmetic on one number that only grows.
- Overlapping requests: what was acknowledged before a Commit is part of it; no handler waits for ever.
- Connection pool: an open connection is in the pool, once.
- Dependency graph: cycles are found in whatever order the maps are iterated.
- Ring: routing depends on membership only; a change moves only the keys it must.
- Topology: a router gets what it was told, is never left without shards, catches up,
  and a stale view can be told by its version.

## 2. The modules

```
Clock <- Deployment <- Shard  <- ShardProofs          Versions <- Shard, MVCCStore
Clock <- Topology   <- MCTopology                     Clock    <- HLC (INSTANCE)
                    <- TopologyProofs                 DependencyGraph <- MCDependencyGraph
         Deployment <- Router                                         <- DependencyGraphProofs
         Shard, Router <- Cluster <- MCCluster        AtomicCommit <- AtomicCommitProofs
         Shard <- MCShard                             Cluster implements AtomicCommit (INSTANCE)
Clock <- Sessions   <- MCSessions                     Cluster, ShardProofs <- ClusterProofs
                    <- SessionsProofs
HLC, and INSTANCEs of LockManager, MVCCStore, HashRing, Connections <- Parts <- MCParts
Parts <- RingProofs <- PartsProofs
```

| Module | Models | What it promises the others |
|---|---|---|
| `Clock` | `Tick`, `Update` on whole timestamps | the abstract clock |
| `HLC` | the two halves, the carry, the 16-bit wrap | computes `Clock` (`ComputesClock`) |
| `Versions` | reads of a set of versions | the abstract store |
| `MVCCStore` | sorted lists, bisection, insertion, GC | answers as `Versions` (`ReadsAgree`) |
| `LockManager` | both tables, upgrades, releases | write locks are exclusive |
| `Deployment` | the constants of a cluster | |
| `Shard` | the shard servers; `ShardSpec` is a shard called as routers call it | the theorems of `ShardProofs` |
| `Router` | the routers' side of every call | |
| `Cluster` | clients, routers, shards, faults | implements `ShardSpec` (`ImplementsShard`) and `AtomicCommit` (`ImplementsAtomicCommit`) |
| `AtomicCommit` | what two-phase commit promises, with no messages, clocks or locks | `Agreement`, proved |
| `Sessions` | requests of one transaction that overlap, are given up, or go to another router | |
| `Connections` | the router's connection pool, critical section by critical section | |
| `DependencyGraph` | templates, their dependencies, both depth-first searches | |
| `Parts` | the components with a mutex of their own, one in each behaviour | |
| `HashRing` | the ring, under every hash function | routing is a function of membership |
| `Topology` | config server, registration, sync, lookups | |

Modules named `MC...` only define small instances. Operators under a comment
"Mutant: ..." are plausible bugs; each shows that a property notices the bug when it
replaces the definition that follows it. They are not used by any specification.

### Shard

Every key has one home shard (`Home`), so what a shard keeps per key is indexed by the
key: `store[k]`, `locks[k]`, `writes[t][k]`, `reads[t][k]`. What it keeps per transaction is
indexed by shard and transaction. `pc[s][t]` is the position of the Prepare or Commit
handler, `todo[s][t]` the keys its loop has still to visit, and `dropping[s][t]` the position of an
Abort, which may run beside them:

| Code | Actions |
|---|---|
| `TxStart`, `TxRead`, `TxWrite`, `TxDelete` | the same names, one step each |
| `Prepare`: checks, `statusTable.Start` | `PrepareBegin` |
| loop over `AcquireWrite` | `PrepareLock`, one key a step |
| CAS validation loop (SI, SER) | `PrepareCheckWrite`, one key a step |
| read validation loop (SER) | `PrepareCheckRead`, one key a step |
| prepare time, status, reply | `PrepareVote` |
| `Commit`: buffer lookup | `CommitBegin` |
| loop over `Put` and `Delete` | `CommitPut`, one key a step |
| `clock.Update` | `CommitClock` |
| `cleanup`: `lockMgr.Release`, `bufferMgr.Remove`; then `statusTable.Commit`, reply | `CommitCleanup`, one component a step (positions `release`, `remove`, `mark`) |
| `abortCleanup` after a vote to abort, reply | `PrepareAborts`, one component a step: locks, buffer, status, clock (`abortRelease` to `abortTick`) |
| `abortCleanup` called by `Abort` | `Abort` gives the locks back, `AbortGoesOn` does the rest in the same steps; neither waits for a running Prepare |
| process crash | `Crash`: everything in memory is gone |

So the locks of a transaction are free while its buffer is still there, and its buffer is gone while it is still
prepared; another handler may come in between. `AbortCleanup` is what `PrepareAborts` and `Abort` have in common.

A value is represented by its writer. Loops visit keys in any order, which includes
the insertion order of the code. The oplog is `NoOpLog`; only its clock tick remains. The
levels below SI are one level, `RA`: the code tests only for SI and SER.

`ShardSpec` closes the module with the weakest callers the theorems need
(`ClientCall`, `PrepareCall`, `CommitCall`, `AbortCall`): a transaction is prepared
once, nothing is added to it afterwards, it is committed only if it voted for it, at a time after its
prepare time, and an Abort may come at any moment before its Commit, also while its
Prepare runs.

### Router and Cluster

`phase[t]` is where the handler working for `t` stands; `wait[t]` the shard it waits
for; `visited[t]` the shards its loop has called. `Cluster` joins a router's step with
the shard's side of the call: `SendAbort` and `ReceiveAborted`, for instance, are the call of Abort and its answer. `Requests[t]` lists what
the client of `t` may ask for, in that order; it may leave requests out and end the transaction at any time. A request's answer is lost, or the request itself, by
`EnlistUnknown`, `AskFails`, `PrepareFails`, `CommitFails`, `AbortFails`; a lost Prepare or
Commit call leaves the handler running at the shard. `EndContext` ends a request's context, after which its
calls fail at no cost to the fault bound. `CrashStep` crashes a shard or a router.

`AtomicCommit` sees of a transaction what was decided, the shards whose promise that takes, what each shard has done
(working, promised, installed, dropped), and what the client was told. `Cluster` maps its variables to these with
`Decision` and `Standing`; every step of `Cluster` is one step of `AtomicCommit` or none.

### Sessions

A request `q` is a client and a number; `pc[q]` is where its handler stands at the router `via[q]`, and `call[q]` what the
shard makes of its TxStart or TxWrite, which goes on when the handler has given up.

| Code | Actions |
|---|---|
| the balancer, `getTxContext` | `Arrive` at any router |
| `ensureShardStarted` | `Ensure` takes the mutex, `Started` or `StartFails` gives it back |
| `TxStart` at the shard | `ShardCheck`, `ShardCreate`: two critical sections |
| `TxWrite` at the shard | `ShardWrite`; of two at a time one may be lost |
| the loops of `Commit` and `abortAll` | `Prepare`, `CommitAt`, `AbortAt`, one shard a step; a TxStart that ends meanwhile adds to the map a loop is going over, which may or may not meet it |
| `removeTxContext`, reply | `End` |
| the request's context | `Deadline` |
| a map used by two goroutines | `MapRace`: the runtime may end the process |

Of the shards only the buffers and what was committed remain; votes are free.

### Connections, DependencyGraph, Parts

`Connections` has one worker per goroutine; `at[w]` is the critical section it comes to next. `DependencyGraph` runs the
recursive searches edge by edge with an explicit path, the nodes and the edges of a node in any order, as Go maps give
them. `Parts` runs the components that know nothing of each other, one in each behaviour: `part` chooses which.

### HLC, MVCCStore, LockManager, HashRing

These follow the code operation by operation; every operation holds its component's
mutex and is one step. `HLC.sent` is every timestamp ever handed out: any may be delivered, once,
twice or late. `HashRing` takes the hash of every virtual node from the initial state, so a run covers
all hash functions of a set. Its `RemoveShard` has the code's filtering loop, which deletes a mapping at
its first entry, so that after a collision an entry that maps to the empty string stays.

### Topology

`registry` and `version` are the config server's; `router` is one router's registry. A sync is
`ReadMap` and `ReadVersion` (the two critical sections of `GetShardAddressMap`), then
`SyncAdd` and `SyncRemove` one shard at a time, then `SyncEnd`. The ring is left out: `HashRing` shows that
routing is a function of the members, so one key and the order in which the shards follow it are enough. `LookUp` and
`Answer` are the two critical sections of `routeKey` at the router and of `GetShardForKey` at the config server. `torn` is a history variable: the topology changed between the two
critical sections.

## 3. What is checked

| Run | Instance | What it shows |
|---|---|---|
| `Shard` | 1 shard, 2 keys; a SER transaction reads and writes the first, an RA transaction writes it and deletes the other; crashes, overtaking aborts | `WriteLocked`: a prepared transaction keeps every write lock to the end of its Commit. `CASHolds`: what validation found is still true when the write is applied. `AppliesOnTop`: `ErrVersionConflict`, which Commit ignores, cannot happen. `NoLostUpdate`: the other transaction may commit between the read and the write, after which CAS finds nothing wrong and only read validation refuses. `ShardInv`: the invariant of the proofs |
| `ClusterFaults` | 2 shards, 2 routers, 2 writers, 1 fault of any kind | `AtomicOutcome`, `AbortedLeavesNothing`, `ImplementsShard`, `ImplementsAtomicCommit` |
| `ClusterRequests` | the same with an ended context or a crash, fair | `RequestsEnd` |
| `ClusterClean` | 2 SI transactions without a fault: one writes and deletes a key and writes one at the other shard, one reads and overwrites the first key | `CommittedEverywhere`; `NothingLeft`: when both are over, the separate steps of the cleanups have left no buffer, lock, prepared row or running handler; `ReadsFollowCommits`, `VersionsInOrder`, `LocksFreed` |
| `Parts` | lock manager: 3 transactions, 2 keys | `Exclusive`, `TablesAgree`, `DeniedByOther` |
| | clock: 2 nodes, 3 logical values | `ComputesClock`, `PhysicalForward` |
| | store: 2 keys, 4 version numbers | `ReadsAgree`, `GCKeepsSnapshots` |
| | ring: 3 shards x 2 virtual nodes, 6 hashes, all functions with at most one collision | `RoutesByMembership`: routing is a function of the members, but for keys next to a shared hash; `ReplicasInOrder` without collisions; `MovesOnlyItsKeys` with and without |
| | pool: 2 goroutines, 2 addresses, 3 connections | `PoolOwnsConnections`: none is opened twice or left open; `NothingOnlyIfRemoved`: GetConnection returns nil only after a removal |
| `Sessions` | 1 client, 3 requests, 2 at a time, 2 routers, 2 shards | `AckedWritesCommit`: a successful Commit has committed every write acknowledged before it arrived; `HandlersEnd`: every handler ends, although one holds the mutex while it waits for a silent shard |
| `DependencyGraph` | 3 templates, 2 keys, 3 calls, every order of visits | `HasCycleIsExact`; `CyclesInEveryKnot`: each cycle shares a strongly connected component with a listed one; `CycleIsConflict`: on built graphs there is a cycle just when two templates use a key that one writes |
| `Topology` | 3 shards, 5 addresses, 3 changes, a failed sync, a restart, lookups at any time | `SyncInstalls`, `NeverWithoutShards`, `AddressIsOwn`: no shard is paired with the address of another; `Converges`, `MembershipChangeShows` |

Four runs end in a counterexample, each to a statement of the repository that the code does not keep:

| Run | Statement | What happens |
|---|---|---|
| `ClusterWriteSkew` | `shard.proto:15` "Serializable" | reads are compared once and not locked; two transactions each read what the other writes, and both commit |
| `ClusterLostCommit` | `mulberry.go:220` "commit decision is final" | an error in phase 2 is skipped for good and success is reported |
| `HLCMonotonic` | `hlc.go:62` "Logical overflow: advance physical time by 1ms" | Update computes the logical half in 16 bits before it compares it with the maximum; the carry is dead code and the clock goes back |
| `DependencyGraphAll` | `dependency.go:137` "FindCycles returns all cycles in the graph." | a node is searched once: of two cycles that share it, those through a later branch are not listed |

### What the properties do not claim

Reading the code for the models also showed these limits. The properties above are worded so as not to claim
the contrary:

- A read ignores prepared writes, so a reader concurrent with phase 2 can see one write of a transaction and not the
  other. `ReadsFollowCommits` is about transactions reported committed before the reader began.
- At SI the original version is taken when the write is buffered, not from the snapshot, so an update made between the
  two is overwritten. `NoLostUpdate` is about SER.
- An Abort that overtakes a running Prepare leaves the Prepare acquiring locks that nobody releases, and `abortAll`
  makes no call at all once the request's context has ended. `NothingLeft` and `LocksFreed` are about a cluster
  without faults; what does hold then is `AbortedLeavesNothing`: nothing is applied.
- `version+1` wraps at the largest version, where `Get` finds nothing (`ReadsAgree` says so).
- After two virtual nodes collide and the shard that shadows the other is removed, the ring keeps an entry that maps to
  the empty string: keys next to it have no shard, the ring grows with each such removal, and GetNShards may look for ever
  for a shard that is shadowed. `RoutesByMembership` says which keys are not affected; `ReplicasInOrder` is about rings without collisions.
- A client that ends its transaction twice (an Abort or a second Commit while the first runs), that gave up a write to a
  shard (its TxStart may still come, and puts an empty buffer in the place of the one with later writes), or whose two writes
  were in one shard at the same moment, may lose an acknowledged write and still be told that it committed.
  `AckedWritesCommit` is about the others.
- Nothing makes transaction ids unique across routers: an id is a tick of the router's own clock. `AckedWritesCommit`
  excludes a shared id (`UniqueId`); its run has one client.
- The client spreads the requests of a transaction over all routers, of which one knows it; the others refuse.
- `Shutdown` of the connection pool comes before the handlers have ended, and one of them may connect again.
- A topology version does not show a shard's new address, nor a change between the two critical sections of
  an answer, nor a restart of the config server (`MembershipChangeShows` names the three).
- `GetShardForKey` of the config server looks the key up twice; if it has moved in between, the id of one shard comes with
  the address of another (`AddressIsOwn` says so; the router's own lookup asks by the shard and has no such answer).

### Bounds, and why they are enough

- `Times`, up to 6 in `Shard`: a client sends nothing to a shard whose clock is at the last of them, while
  handlers already running go on. One transaction takes three ticks to write twice and vote, and its commit time is one or three
  above the vote; so it can write, vote and commit between the read and the write of the other, and the other can begin after
  it. With less room every read finds an empty store and read validation decides nothing.
- `Leads = {0, 2}` in `Shard`: the commit time is the next after the prepare time, which is the tightest, or leaves room for
  ticks in between.
- In `Cluster`, `Times`, `Leads` and `Access` occur only in `ImplementsShard` and in assumptions, and no clock gets to 12.
- `Wall`: the readings of the wall clock. `{0}` makes the clock purely logical, the tightest order of timestamps;
  `{0, 3}` in `Topology` lets it jump ahead and back. The proofs are for any readings.
- `Requests`: two requests suffice to involve two shards, or to read and write; a third to write a key again. A client
  writes different keys in one order: a buffered write takes no lock, and phase 1 goes over the shards in any order.
- `MaxFaults`: one fault, at every position where it can occur, of every kind in `FaultKinds`: a lost call, a context
  that ends (after which every later call of the handler fails), a crash. Several failures in
  one handler are what an ended context gives; faults of two requests, which meet only in the locks, are not combined. `AtomicOutcome` is not claimed after a crash, since nothing is persisted.
- `LogicalSize = 3`, `MaxPhysical = 1`: a logical half that is zero, inner, and last; physical times behind,
  equal and ahead. `PartsProofs` removes the bound.
- `VersionSpace = 4`: lists of length 0 to 4, so every path of the bisection, and the wrap at the end.
- `HashSpace = 6`, six virtual nodes: every relative order of them, and with a collision a free position, so a key
  falls before, on, between and after virtual nodes. `MaxRing = 6`: leftover entries count, so a ring that has kept one is still
  there with two shards. Two collisions at a time are not taken; `RingProofs` is about any hash function.
- `MaxConns = 3`: each address connects, and one of them again after a removal.
- `MaxRequests = 3`, `MaxOverlap = 2` in `Sessions`: two writes and a Commit, the fewest with which a write can be lost, in
  every overlap of two; a given-up request no longer counts, so three handlers may run.
- `MaxCalls = 3` in `DependencyGraph`: three edges on three nodes give every cycle and two that share an edge or a node;
  three reads or writes give a conflict and a template apart.
- `MaxChanges = 3`: a sync meets a change before, between and after the two reads of its answer.

`CHECK_DEADLOCK FALSE` is set for the runs of `Shard`, `Cluster`, `Sessions` and `Parts`: clients may do nothing more, and with
the bounds reached a system in which every request is over really stops.

### Fairness

`FairSpec` of `Cluster` has weak fairness on `RouterStep(t)` and `ShardStep(s, t)`: they are statements of
running goroutines, none of which waits for anything but an answer, a component mutex held for one call, or the end of
its context; the Go scheduler runs them. Clients and faults are not fair. An answer is
received or fails; a shard's handler always answers, because locks are never waited for. `FairSpec` of `Sessions` has weak fairness on the
steps of handlers and deadlines together, and none on the shards: a shard may be silent for ever, and the deadline ends the wait. Requests are
finite, so a waiting handler is reached. `FairSpec` of `Topology` has weak fairness on
`SyncStep`, the ticker of `syncTopology`.

## 4. What is proved

Every theorem is for all values of the constants under the assumptions its module names, which TLC evaluates on every instance:
`DeploymentAssumption` (keys have a home, levels are levels, readings of the wall clock, `Times` and `Leads` are naturals, `Access`
has operations on keys), `ClusterAssumption` (a client's requests are among those of its `Access`),
`NoneAssumption`, `RouterAssumption`, `SessionsAssumption`, `PartsAssumption` (None and Nobody are nothing else; the sizes are
naturals; the shards are finitely many, each with a virtual node or more, as the code replaces any other number by its default; hash
functions have the hashes as values), `HLCAssumption` (sizes are naturals), `GraphAssumption` (the templates are finitely many) and
`TopologyAssumption` (shards are finitely many, each somewhere in `Order`; None is
neither a shard nor an address). `AtomicCommitProofs` needs none. One theorem has a hypothesis of its own:
`RoutersKeepProtocol` takes `Times` and `Leads` to be all of `Nat`, since they are where `ShardSpec` stops its callers for the model checker,
which is no rule of the routers; they occur in no action of `Cluster`.

What is proved with the clock of module `Clock` (`ShardProofs`, `ClusterProofs` and `Stamped` of `TopologyProofs`) is about timestamps without a
bound. The code's Update drops the carry when the logical half is at its largest value, and may then return less than
it was given (`HLCMonotonic`); `ClocksAgree` says that it agrees with `Clock` everywhere else. So `AppliesOnTop`, `VersionsInOrder`,
`ReadsFollowCommits` and the others that rest on the order of times hold away from that wrap: as long as no clock is
updated with, or from, a timestamp that has used all logical values of its millisecond.

**`ShardProofs`**: `ShardInvariant`, and from it `TypeCorrect`, `LocksHeldToCommit` (`WriteLocked`), `CommitsOnTop`
(`AppliesOnTop`), `ValidationLasts` (`CASHolds`) and `SerUpdates` (`NoLostUpdate`), for `ShardSpec`. None of these is
inductive. `ShardInv` adds what the handlers rely on between steps, each conjunct about one shard and one transaction:

- `LocksKept`: while the transaction is `Intact`, every lock the handler has passed in its loop is still held. Intact means that its buffer is
  there and no handler has given its locks back to remove the buffer next. The condition is essential: an Abort that overtakes a Prepare
  takes away both, one after the other, and the Prepare goes on.
- `WritesKept`, `ReadsKept`: what CAS and read validation found of the keys already visited holds still. It follows from
  `LocksKept`: only the holder of the write lock changes a key, and a transaction validates after it has locked.
- `BehindClock`: every version in a store is at or behind the shard's clock, unless its writer has just put it there and has
  still to update the clock, in which case it holds the lock of that key.
- `PreparedAbove`: a prepared transaction's prepare time is above every version of the keys it will write. It is taken
  from the clock by a tick, hence above by `BehindClock`, and remains so by `LocksKept`. Commit times are above prepare times,
  which gives `AppliesOnTop`.
- `CommitIsVoted`, `PutsWrites`: a running Commit belongs to a transaction that voted, and puts only what it buffered; no Abort
  runs beside it, and the buffer goes at its place in the cleanup.

The proof has one lemma per action, and under it one step per conjunct. The steps are those of `FreeNext`, which is `ShardNext`
without the bounds `Times` and `Leads`; so they serve `Cluster` too.

**`ClusterProofs`**: the properties of the two-phase commit for any number of routers, shards, keys and transactions and any faults.
`AtomicOutcome` and `AbortedLeavesNothing` are not inductive: whether a shard may commit depends on what its router has counted,
and that on replies that may be under way. `ClusterInv` (`ClusterInvariant`) ties the two together, for each transaction and shard:

- `HandlerInv`: where the router's handler stands says which shards it has called, for which it waits, and what it has told the client.
- `Uncalled` shards are `Open`: a shard whose Prepare has not been sent has neither voted nor started.
- `VotesCounted`: a shard of which the router counted a vote `KeepsPromise`, which is what `ShardSpec` asks of a Commit; a
  decision to commit takes the promise of every involved shard, and its time is above all their prepare times.
- `CommitsAsDecided`, `NothingUndecided`: a Commit runs only at the decided time; where nothing was decided nothing is committed.
- `GivenUp`: an Abort runs only where the router has given the transaction up.
- `PrepareAlone`: a Prepare that runs on after the router gave up finds the transaction aborted.
- `WrittenAsDecided`: a version is of a transaction that was decided to commit, at its commit time.

From it `RouterTypes`, `Atomicity`, `AbortsAreFinal`, `VersionsAscend`, and the two refinements, step by step:
`RoutersKeepProtocol` (each call a router makes is one that `ShardSpec` allows, so the theorems of `ShardProofs` hold
of the shards of a cluster) and `ImplementsCommitment` (one action of `AtomicCommit`, or none, for each action of `Cluster`).

The other three, `CommitsReachEveryShard`, `NothingIsLeft` and `ReadsAreRecent`, are about clusters in which nothing fails, and read
`faults = 0 => ...`: in every behaviour, whatever `MaxFaults`, they hold until the first fault. `CleanInv` adds to `ClusterInv`
that a handler at a shard has its router waiting for it and that a buffer is there until the Commit or Abort has come
(`Attended`), that a lock holder has a buffer that nobody has begun to remove (`LockersIntact`), that a Commit leaves every write in the store or in its loop
(`Installs`), and that a router's clock is ahead of what it has decided (`InOrder`), so that later snapshots are.

**`AtomicCommitProofs`**: `CommitInvariant`, and from it `ShardsAgree`: no shard installs what another that promised has
dropped, nor what the client was told is aborted. The invariant ties a standing to the decision: installed only after a
decision to commit, nothing dropped after it, and the set of shards whose promise it took stands from then on.
With `ImplementsCommitment` it is what `Cluster` does.

**`SessionsProofs`**: `AcknowledgedIsCommitted` (`AckedWritesCommit`) for any number of clients, requests, routers and shards. The
invariant follows a write from the shard's answer to the commit. `Handlers` says what a request's position implies; above all a
TxStart under way holds the mutex of a router that has not yet started that shard, so that none can come to replace a
buffer with an acknowledged write in it. `Known` and `Home`: an id belongs to one router. `Kept`: an acknowledged
write is in the buffer until somebody ends the transaction. `Promised`: of a Commit that is the only end of its transaction,
the shards of those writes are involved throughout, the buffers are there in phase 1, and in phase 2 a write is committed or still due.

**`RingProofs`**: the four theorems of the ring, for any finite number of shards, any number of virtual nodes and any hash function,
however many collide. The loops of the code and its sort make lists by taking positions of another; each is given as a
bijection between places and positions (`Ranked`, `SortedIs`, `KeepIs`), which takes the place of an induction over the list. `RoundIs`: the binary
search and its wrap find the entry nearest to the key. `RingInv`, which is `RingMatchesMembers`: the list ascends, and a hash that no two virtual nodes
share is in it exactly once, and mapped to its shard, exactly while that shard is a member. Of a hash that is shared it says nothing,
since an entry may stay behind. Hence `RingRoutesByMembership`, and `RingReplicasInOrder`, in which every entry is a node.
`RingMovesOnlyItsKeys` compares the ring before and after a step, and holds with collisions.

**`PartsProofs`**: the theorems of the formulas that the run of `Parts` checks.

- Locks: `LockManagerCorrect`, that `LockInv` (types, tables, exclusiveness, justified refusals) is inductive. A behaviour of `Parts` is one
  of the lock manager (`LocksRun`), since a step of another component leaves its variables alone. Hence `LocksExclusive`, `LocksAgree` and `LocksDenied`.
- Pool, for any number of goroutines: `PoolOwned` and `PoolAnswers`. `PoolInv` adds to ownership that
  connections are numbered below `made`, so a new one is no other's (`Numbered`), and that a call in its last section finds a
  connection unless one was removed since it began (`CallsFindConnection`): the tables agree, so a stub found under one lock is a
  connection found under the next. `PoolRuns` carries it over to `Parts`.
- Store: `StoreReadsAgree` and `StoreCollects`. The invariant is that every list ascends. That the bisection finds what the set of
  versions says (`BisectionFinds`) is about a recursive function: that a function satisfies its equation is shown by giving one
  (`SearchExists`), that only one does by taking the narrowest range on which two differ (`SearchUnique`). Then
  insertion at the place found keeps the list ascending (`InsertKeepsOrder`), and collection cuts a prefix of it (`CollectionCuts`).
- Clock: `TickIsClockTick` and `UpdateIsClockUpdate`, that the arithmetic on the halves is the arithmetic of
  `Clock` on the 64-bit value (they rest on the lexicographic order of the halves being the order of the values); `HalvesInRange`;
  and, of `Parts`, `ClocksForward` (`PhysicalForward`) and `ClocksAgree` (`ComputesClock`): in every reachable state the
  next timestamps are those of `Clock`, except for the missing carry of Update.
- `PartsTyped`: the types of all five together.

**`TopologyProofs`**: `SyncInstallsFetched`, `AlwaysSomeShard` and `LookupAddressIsOwn`. The invariant says what a running sync has
done so far (`Applying`: a shard it has visited is as fetched, any other as before, and no removal comes before the last
addition), that registries list shards at their own addresses, and that a lookup has chosen a shard, which rests on
`HomeIsMember`: the first member around the ring is a member. `VersionInvariant` adds the types (`TopologyTypes`) and `Stamped`: the
version of an answer is not ahead of the config server's clock, and behind it once the members have changed, which gives
`StaleMembersShow` (`MembershipChangeShows`).

**`DependencyGraphProofs`**: what the two searches answer, for any templates, any graph, and any order in which the maps are iterated. `GraphInv`
(`GraphInvariant`) is about the edges a search has looked at: each led to a node that the search has left for good, or on down the path, or it lies in a
cycle that was listed. A node is left when all its edges have been looked at, so of any cycle the last node to be left has an edge of the third kind.
Hence `CycleFound` (`HasCycleIsExact`) and `KnotsFound` (`CyclesInEveryKnot`). That one node leads to another is said by closed sets (`Joined`) and
not by the existence of a path, so no proof is an induction over paths. `CyclesAreConflicts` (`CycleIsConflict`) is about the graphs that
`BuildFromTemplates` makes, where an edge goes each way between two templates in conflict.

**Only model-checked**: liveness (`RequestsEnd`, `LocksFreed`, `HandlersEnd`, `Converges`), which is beyond this prover. Every invariant and action
property of the passing runs is stated by a theorem. The four runs that end in a counterexample need no proof.

## 5. What is not modelled

- Operations that only read and that nobody calls: `GetActiveShards`, snapshots, `ConnectionCount`; a shard's status, which they
  report. Operations without a caller: `GetOrCreate`, `HasWrite`, `statusTable.Remove`.
- Address discovery of the processes, the text of the shell, the configuration of the gRPC resolver: I/O. A client is the order
  of its requests, their deadlines, and the routers they reach.
- The names of isolation levels and protocols in `internal/model`: no state, no caller.
- A topology that changes under running transactions: `Home` is constant in `Cluster`. Data is never moved to a shard that joins,
  so no promise about reads holds across a change, and a Commit whose involved shard has left dereferences nil; there
  is nothing to state that the code keeps.
- Persistence: there is none, the oplog discards its entries.
- `TypeOK` of `DependencyGraph`, `Sessions` and `Shard` is not an invariant of its own in a run. It is part of the invariants that are
  proved (`GraphInv`, `SessionInv`, `ShardInv`).

## 6. Plan

Done: the shard and its proofs; router and cluster; the abstract commitment, its proof and the refinement; overlapping requests;
lock manager, clock, store, ring with a collision, connection pool; topology with lookups; the dependency graph; the
proofs of section 4.

Next:

1. More of the registry and the process around it: what a shard that starts again under another address does to a transaction under way.
2. Liveness stays with TLC. What of it is a measure that every step decreases (`RequestsEnd`) can be proved as an action property.
3. The lock manager and the store of `Parts` as what the shards of `Cluster` use: a refinement of a shard's `locks` and `store` by the
   tables and lists of the component.
