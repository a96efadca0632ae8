---------------------------- MODULE LockManager ----------------------------
(***************************************************************************)
(* The lock manager of a shard (internal/shard/component/lock.go): read    *)
(* and write locks on keys, kept in two tables, one by key and one by      *)
(* transaction.  Every operation holds the manager's mutex, so it is one   *)
(* step; none of them waits.  Module Shard uses only AcquireWrite and      *)
(* Release, and keeps of the tables only who has the write lock.           *)
(***************************************************************************)

CONSTANTS Txs, Keys

VARIABLES
  mode,      \* mode[k]: the mode of k's lock entry
  holders,   \* holders[k]: the transactions in that entry
  txLocks,   \* txLocks[t][k]: the mode in which t has k, by its own table
  denied     \* the <<transaction, key>> the last operation refused, if any

vars == <<mode, holders, txLocks, denied>>

Modes == {"NONE", "READ", "WRITE"}

TypeOK ==
  /\ mode \in [Keys -> Modes]
  /\ holders \in [Keys -> SUBSET Txs]
  /\ txLocks \in [Txs -> [Keys -> Modes]]
  /\ denied \in SUBSET (Txs \X Keys)

(* An entry that was never made and one that nobody holds answer alike.    *)
Init ==
  /\ mode = [k \in Keys |-> "NONE"]
  /\ holders = [k \in Keys |-> {}]
  /\ txLocks = [t \in Txs |-> [k \in Keys |-> "NONE"]]
  /\ denied = {}

(* Mutant: key and transaction change places.                              *)
GrantSwapped(t, k, m) ==
  /\ mode' = [mode EXCEPT ![k] = m]
  /\ holders' = [holders EXCEPT ![k] = @ \cup {k}]
  /\ txLocks' = [txLocks EXCEPT ![t][k] = m]
  /\ denied' = {}

Grant(t, k, m) ==
  /\ mode' = [mode EXCEPT ![k] = m]
  /\ holders' = [holders EXCEPT ![k] = @ \cup {t}]
  /\ txLocks' = [txLocks EXCEPT ![t][k] = m]
  /\ denied' = {}

Keep == UNCHANGED <<mode, holders, txLocks>> /\ denied' = {}

Deny(t, k) == UNCHANGED <<mode, holders, txLocks>> /\ denied' = {<<t, k>>}

AcquireRead(t, k) ==
  \/ txLocks[t][k] # "NONE" /\ Keep
  \/ /\ txLocks[t][k] = "NONE"
     /\ \/ mode[k] \in {"NONE", "READ"} /\ Grant(t, k, "READ")
        \/ mode[k] = "WRITE" /\ t \notin holders[k] /\ Deny(t, k)
        \/ mode[k] = "WRITE" /\ t \in holders[k] /\ Keep

(* Mutant: any holder of a read lock may make it a write lock.             *)
CanUpgradeShared(t, k) == mode[k] = "READ" /\ t \in holders[k]

(* Mutant: nobody may.                                                     *)
CanUpgradeNever(t, k) == FALSE

(* The only holder of a read lock may make it a write lock.                *)
CanUpgrade(t, k) == mode[k] = "READ" /\ holders[k] = {t}

AcquireWrite(t, k) ==
  \/ txLocks[t][k] = "WRITE" /\ Keep
  \/ /\ txLocks[t][k] # "WRITE"
     /\ \/ (mode[k] = "NONE" \/ CanUpgrade(t, k)) /\ Grant(t, k, "WRITE")
        \/ mode[k] = "READ" /\ ~CanUpgrade(t, k) /\ Deny(t, k)
        \/ mode[k] = "WRITE" /\ t \notin holders[k] /\ Deny(t, k)
        \/ mode[k] = "WRITE" /\ t \in holders[k] /\ Keep

(* Mutant: the mode stays.                                                 *)
LeaveMode(t, ks) ==
  /\ holders' = [k \in Keys |-> IF k \in ks THEN holders[k] \ {t} ELSE holders[k]]
  /\ UNCHANGED mode
  /\ denied' = {}

(* Taking t out of the entries of ks; the last one out resets the mode.    *)
Leave(t, ks) ==
  /\ holders' = [k \in Keys |-> IF k \in ks THEN holders[k] \ {t} ELSE holders[k]]
  /\ mode' = [k \in Keys |-> IF k \in ks /\ holders[k] \subseteq {t}
                             THEN "NONE" ELSE mode[k]]
  /\ denied' = {}

Release(t) ==
  /\ Leave(t, {k \in Keys : txLocks[t][k] # "NONE"})
  /\ txLocks' = [txLocks EXCEPT ![t] = [k \in Keys |-> "NONE"]]

ReleaseKey(t, k) ==
  /\ Leave(t, {k})
  /\ txLocks' = [txLocks EXCEPT ![t][k] = "NONE"]

Next ==
  \E t \in Txs :
    \/ Release(t)
    \/ \E k \in Keys : AcquireRead(t, k) \/ AcquireWrite(t, k) \/ ReleaseKey(t, k)

Spec == Init /\ [][Next]_vars

-----------------------------------------------------------------------------
(* Properties. *)

(* lock.go LockWrite, "Exclusive lock": nobody shares a write lock, also   *)
(* after upgrades and partial releases.                                    *)
Exclusive ==
  \A k \in Keys : mode[k] = "WRITE" => \E t \in Txs : holders[k] = {t}

(* The two tables agree: a transaction holds an entry, in the entry's mode, *)
(* exactly when its own table says so, and an entry nobody holds is free.  *)
TablesAgree ==
  \A k \in Keys :
    /\ holders[k] = {} <=> mode[k] = "NONE"
    /\ \A t \in Txs :
         /\ t \in holders[k] => txLocks[t][k] = mode[k]
         /\ t \notin holders[k] => txLocks[t][k] = "NONE"

(* A lock is refused only on account of another transaction.               *)
DeniedByOther ==
  \A t \in Txs, k \in Keys :
    <<t, k>> \in denied => \E u \in Txs \ {t} : u \in holders[k]

LockInv == TypeOK /\ TablesAgree /\ Exclusive /\ DeniedByOther
=============================================================================
