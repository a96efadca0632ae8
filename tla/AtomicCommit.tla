---------------------------- MODULE AtomicCommit ----------------------------
(***************************************************************************)
(* What two-phase commit (mulberry.go Commit and abortAll, shard.go        *)
(* Prepare, Commit and Abort) promises for each transaction, with no       *)
(* messages, clocks, locks or stores: when a commit may be decided, and    *)
(* what a shard may do before and after.  Module Cluster implements it.    *)
(***************************************************************************)

CONSTANTS Txs, Shards

VARIABLES
  decision,   \* decision[t]: what the router has decided
  enlisted,   \* enlisted[t]: the shards whose promise that takes
  standing,   \* standing[s][t]: what s has done for t
  told,       \* told[t]: what the client was told
  crashed     \* a process has crashed and restarted with nothing

vars == <<decision, enlisted, standing, told, crashed>>

Decisions == {"open", "commit", "abort"}

Standings == {"working", "promised", "installed", "dropped"}

TypeOK ==
  /\ decision \in [Txs -> Decisions]
  /\ enlisted \in [Txs -> SUBSET Shards]
  /\ standing \in [Shards -> [Txs -> Standings]]
  /\ told \in [Txs -> {"none", "committed", "aborted"}]
  /\ crashed \in BOOLEAN

Init ==
  /\ decision = [t \in Txs |-> "open"]
  /\ enlisted = [t \in Txs |-> {}]
  /\ standing = [s \in Shards |-> [t \in Txs |-> "working"]]
  /\ told = [t \in Txs |-> "none"]
  /\ crashed = FALSE

Enlist(t, s) ==
  /\ decision[t] = "open"
  /\ enlisted' = [enlisted EXCEPT ![t] = @ \cup {s}]
  /\ UNCHANGED <<decision, standing, told, crashed>>

Stand(s, t, what) ==
  /\ standing' = [standing EXCEPT ![s][t] = what]
  /\ UNCHANGED <<decision, enlisted, told, crashed>>

(* A promise that comes after the transaction was aborted counts for       *)
(* nothing, even at a shard that had dropped it.                           *)
Promise(s, t) ==
  /\ \/ standing[s][t] = "working"
     \/ standing[s][t] = "dropped" /\ decision[t] = "abort"
  /\ Stand(s, t, "promised")

Drop(s, t) ==
  /\ decision[t] # "commit"
  /\ Stand(s, t, "dropped")

Install(s, t) ==
  /\ decision[t] = "commit"
  /\ s \in enlisted[t]
  /\ standing[s][t] = "promised"
  /\ Stand(s, t, "installed")

Decide(t, d) ==
  /\ decision[t] = "open"
  /\ d = "commit" =>
       \A s \in enlisted[t] : \/ standing[s][t] = "promised"
                              \/ crashed /\ standing[s][t] = "working"
  /\ decision' = [decision EXCEPT ![t] = d]
  /\ UNCHANGED <<enlisted, standing, told, crashed>>

Tell(t) ==
  /\ told[t] = "none"
  /\ \/ /\ decision[t] = "commit"
        /\ told' = [told EXCEPT ![t] = "committed"]
     \/ /\ decision[t] = "abort"
        /\ told' = [told EXCEPT ![t] = "aborted"]
  /\ UNCHANGED <<decision, enlisted, standing, crashed>>

(* A shard forgets everything; a router gives up what it had not decided.  *)
CrashShard(s) ==
  /\ crashed' = TRUE
  /\ standing' = [standing EXCEPT ![s] = [t \in Txs |-> "working"]]
  /\ UNCHANGED <<decision, enlisted, told>>

CrashRouter(lost) ==
  /\ crashed' = TRUE
  /\ \A t \in lost : decision[t] = "open"
  /\ decision' = [t \in Txs |-> IF t \in lost THEN "abort" ELSE decision[t]]
  /\ UNCHANGED <<enlisted, standing, told>>

Next ==
  \/ \E t \in Txs, s \in Shards :
       Enlist(t, s) \/ Promise(s, t) \/ Drop(s, t) \/ Install(s, t)
  \/ \E t \in Txs : Decide(t, "commit") \/ Decide(t, "abort") \/ Tell(t)
  \/ \E s \in Shards : CrashShard(s)
  \/ \E lost \in SUBSET Txs : CrashRouter(lost)

Spec == Init /\ [][Next]_vars

-----------------------------------------------------------------------------
(* Properties. *)

(* No shard has installed a transaction that another one has dropped, or   *)
(* that its client was told is aborted, whatever crashes.                  *)
Agreement ==
  \A t \in Txs, s \in Shards :
    standing[s][t] = "installed" =>
      /\ told[t] # "aborted"
      /\ \A u \in enlisted[t] : standing[u][t] # "dropped"
=============================================================================
