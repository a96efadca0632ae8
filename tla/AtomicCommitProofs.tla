------------------------- MODULE AtomicCommitProofs -------------------------
(***************************************************************************)
(* Agreement is an invariant of AtomicCommit, and so of whatever           *)
(* implements it, for any number of transactions and shards.               *)
(***************************************************************************)
EXTENDS AtomicCommit, TLAPS

(* What Agreement rests on: installing follows a decision to commit, which *)
(* is final, and which no enlisted shard that dropped the transaction has  *)
(* survived.                                                               *)
CommitInv ==
  /\ TypeOK
  /\ \A t \in Txs, s \in Shards : standing[s][t] = "installed" => decision[t] = "commit"
  /\ \A t \in Txs, s \in Shards :
       decision[t] = "commit" /\ s \in enlisted[t] => standing[s][t] # "dropped"
  /\ \A t \in Txs : told[t] = "aborted" => decision[t] = "abort"

LEMMA InitCommit == Init => CommitInv
<1>. SUFFICES ASSUME Init PROVE CommitInv
  OBVIOUS
<1>1. crashed \in BOOLEAN
  BY Zenon DEF Init
<1>2. TypeOK
  BY <1>1 DEF Init, TypeOK, Decisions, Standings
<1>3. QED
  BY <1>2 DEF Init, CommitInv

(* A step that changes the standing of one shard for one transaction.      *)
LEMMA StandCommit ==
  ASSUME CommitInv, NEW t \in Txs, NEW s \in Shards,
         NEW what \in Standings, Stand(s, t, what),
         what = "installed" => decision[t] = "commit",
         what = "dropped" => decision[t] # "commit"
  PROVE  CommitInv'
<1>1. TypeOK'
  BY DEF CommitInv, TypeOK, Stand
<1>2. \A u \in Txs, v \in Shards :
        standing'[v][u] = IF v = s /\ u = t THEN what ELSE standing[v][u]
  BY DEF CommitInv, TypeOK, Stand
<1>3. QED
  BY <1>1, <1>2 DEF CommitInv, Stand

LEMMA DecideCommit ==
  ASSUME CommitInv, NEW t \in Txs, NEW d \in {"commit", "abort"}, Decide(t, d)
  PROVE  CommitInv'
<1>1. TypeOK'
  BY DEF CommitInv, TypeOK, Decide, Decisions
<1>2. \A u \in Txs : decision'[u] = IF u = t THEN d ELSE decision[u]
  BY DEF CommitInv, TypeOK, Decide
<1>3. \A u \in Txs : decision[u] = "commit" => decision'[u] = "commit"
  BY <1>2 DEF Decide
<1>4. \A u \in Txs, s \in Shards : standing'[s][u] = "installed" => decision'[u] = "commit"
  BY <1>3 DEF CommitInv, Decide
<1>5. \A u \in Txs, s \in Shards :
        decision'[u] = "commit" /\ s \in enlisted'[u] => standing'[s][u] # "dropped"
  BY <1>2 DEF CommitInv, Decide
<1>6. \A u \in Txs : told'[u] = "aborted" => decision'[u] = "abort"
  BY <1>2 DEF CommitInv, Decide
<1>7. QED
  BY <1>1, <1>4, <1>5, <1>6 DEF CommitInv

LEMMA TellCommit ==
  ASSUME CommitInv, NEW t \in Txs, Tell(t)
  PROVE  CommitInv'
<1>1. TypeOK'
  BY DEF CommitInv, TypeOK, Tell
<1>2. \A u \in Txs : told'[u] = "aborted" => decision'[u] = "abort"
  BY DEF CommitInv, TypeOK, Tell
<1>3. QED
  BY <1>1, <1>2 DEF CommitInv, Tell

LEMMA CrashShardCommit ==
  ASSUME CommitInv, NEW s \in Shards, CrashShard(s)
  PROVE  CommitInv'
<1>1. TypeOK'
  BY DEF CommitInv, TypeOK, CrashShard, Standings
<1>2. \A t \in Txs, u \in Shards :
        standing'[u][t] = IF u = s THEN "working" ELSE standing[u][t]
  BY DEF CommitInv, TypeOK, CrashShard
<1>3. QED
  BY <1>1, <1>2 DEF CommitInv, CrashShard

LEMMA CrashRouterCommit ==
  ASSUME CommitInv, NEW lost \in SUBSET Txs, CrashRouter(lost)
  PROVE  CommitInv'
<1>1. TypeOK'
  BY DEF CommitInv, TypeOK, CrashRouter, Decisions
<1>2. \A t \in Txs : decision'[t] = IF t \in lost THEN "abort" ELSE decision[t]
  BY DEF CrashRouter
<1>3. \A t \in lost : decision[t] = "open"
  BY DEF CrashRouter
<1>4. QED
  BY <1>1, <1>2, <1>3 DEF CommitInv, CrashRouter

LEMMA StepCommit == CommitInv /\ [Next]_vars => CommitInv'
<1>. SUFFICES ASSUME CommitInv, [Next]_vars PROVE CommitInv'
  OBVIOUS
<1>1. ASSUME NEW t \in Txs, NEW s \in Shards, Enlist(t, s) PROVE CommitInv'
  <2>1. TypeOK'
    BY <1>1 DEF CommitInv, TypeOK, Enlist
  <2>2. \A u \in Txs : decision[u] = "commit" => enlisted'[u] = enlisted[u]
    BY <1>1 DEF CommitInv, TypeOK, Enlist
  <2>3. QED
    BY <1>1, <2>1, <2>2 DEF CommitInv, Enlist
<1>2. ASSUME NEW t \in Txs, NEW s \in Shards, Promise(s, t) PROVE CommitInv'
  BY <1>2, StandCommit DEF Promise, Standings
<1>3. ASSUME NEW t \in Txs, NEW s \in Shards, Drop(s, t) PROVE CommitInv'
  BY <1>3, StandCommit DEF Drop, Standings
<1>4. ASSUME NEW t \in Txs, NEW s \in Shards, Install(s, t) PROVE CommitInv'
  BY <1>4, StandCommit DEF Install, Standings
<1>5. CASE UNCHANGED vars
  BY <1>5 DEF CommitInv, TypeOK, vars
<1>6. QED
  BY <1>1, <1>2, <1>3, <1>4, <1>5, DecideCommit, TellCommit,
     CrashShardCommit, CrashRouterCommit DEF Next

(* mulberry.go Commit: the decisions, promises and standings of every      *)
(* behaviour of AtomicCommit satisfy CommitInv.                            *)
THEOREM CommitInvariant == Spec => []CommitInv
BY InitCommit, StepCommit, PTL DEF Spec

(* No transaction is installed at one shard and dropped at another, nor    *)
(* installed anywhere after its client was told that it was aborted.       *)
THEOREM ShardsAgree == Spec => []Agreement
<1>1. CommitInv => Agreement
  BY DEF CommitInv, TypeOK, Agreement
<1>2. QED
  BY <1>1, CommitInvariant, PTL
=============================================================================
