---------------------------- MODULE Deployment ----------------------------
(* What the processes of one cluster have in common.                       *)
EXTENDS Clock

CONSTANTS
  Shards,    \* shard servers
  Txs,       \* transaction identifiers
  Keys,      \* keys
  Home,      \* Home[k]: the shard the hash ring routes k to
  Level,     \* Level[t]: the isolation level t was begun with
  Wall,      \* the readings a wall clock can give, as timestamps
  None,      \* no lock holder, no buffered write, no call under way
  Access,    \* Access[t]: the <<operation, key>> pairs t's client may ask for
  Times,     \* bound: the times clients consider; without a bound it is Nat
  Leads      \* bound: how far a commit time is ahead of a prepare time, likewise

(* RA stands for every level below SI (UNKNOWN, RA, CC, PC, PSI): the code *)
(* tests only for SI and SER.                                              *)
Levels == {"RA", "SI", "SER"}

Operations == {"read", "write", "delete"}

ASSUME DeploymentAssumption ==
  /\ Home \in [Keys -> Shards]
  /\ Level \in [Txs -> Levels]
  /\ Wall \subseteq Nat
  /\ Access \in [Txs -> SUBSET (Operations \X Keys)]
  /\ Times \subseteq Nat
  /\ Leads \subseteq Nat
=============================================================================
