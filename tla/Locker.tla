------------------------------- MODULE Locker -------------------------------
(***************************************************************************)
(* The in-memory token locker: which transaction holds which token, the     *)
(* operations the selectors call and the background scan that collects the  *)
(* locks of finished transactions.                                          *)
(*                                                                          *)
(* Every operation runs in one critical section of a read-write mutex,      *)
(* except two.  Lock looks at the table under the read lock, lets go of it,  *)
(* and looks again under the write lock.  scan walks the table under the    *)
(* read lock, asking the vault for the status of one holder after the other, *)
(* lets go of it, and deletes what it found under the write lock.  While     *)
(* scan walks, readers may come and go but no one writes; between its two    *)
(* sections anything may happen.                                            *)
(*                                                                          *)
(* Time is abstract: stale says that the last access to the entry is older   *)
(* than the eviction timeout of locks held by valid transactions.           *)
(***************************************************************************)
EXTENDS FiniteSets

CONSTANTS
    Tokens,
    TxIds,
    Free,           \* holder of a token that is not in the table
    Collector,      \* TRUE when the background scan runs
    StatusMayFail   \* TRUE when the vault may fail to answer Status

VARIABLES
    locked,         \* token -> lock entry
    scan,           \* the collector: section, tokens still to visit, remove list
    status,         \* the vault's validation code of each transaction
    robbed          \* history: transactions that lost a lock while under way

ASSUME LockerAssumption ==
    Free \notin TxIds /\ Collector \in BOOLEAN /\ StatusMayFail \in BOOLEAN

NoEntry == [tx |-> Free, stale |-> FALSE]

IsLocked(k) == locked[k].tx # Free

Statuses == {"unknown", "busy", "valid", "invalid"}

\* What a call of Status may return.
StatusResults(t) == {status[t]} \cup (IF StatusMayFail THEN {"error"} ELSE {})

LockerInit ==
    /\ locked = [k \in Tokens |-> NoEntry]
    /\ scan = [section |-> "sleep", todo |-> {}, remove |-> {}]
    /\ status = [t \in TxIds |-> "unknown"]
    /\ robbed = {}

\* No writer can enter while scan holds the read lock.
WriteLockFree == scan.section # "walk"

-----------------------------------------------------------------------------
\* Lock, first section: give up at once, unless the caller may reclaim.
QuicklyRefused(k, reclaim) == IsLocked(k) /\ ~reclaim

\* Mistakes: a lock is taken over as long as its holder is not known to the
\* vault; the table is not looked at again under the write lock.
MayObtainUnknown(k, reclaim) ==
    IsLocked(k) => reclaim /\ StatusResults(locked[k].tx) \cap {"invalid", "unknown"} # {}
MayObtainUnchecked(k, reclaim) == TRUE

\* Lock, second section: a free token is taken; one whose holder the vault
\* reports invalid is taken over by a caller that may reclaim.
MayObtain(k, reclaim) ==
    IsLocked(k) => reclaim /\ "invalid" \in StatusResults(locked[k].tx)

MayBeRefused(k, reclaim) ==
    IsLocked(k) /\ (reclaim => \E s \in StatusResults(locked[k].tx) : s # "invalid")

LockEntry(k, t) == locked' = [locked EXCEPT ![k] = [tx |-> t, stale |-> FALSE]]

\* A refused attempt still counts as an access to the entry.
Refused(k) == locked' = [locked EXCEPT ![k].stale = FALSE]

\* UnlockIDs does not ask who holds the tokens.
UnlockIDs(ids) == locked' = [k \in Tokens |-> IF k \in ids THEN NoEntry ELSE locked[k]]

\* The transactions under way whose locks are among those of the tokens.
Losers(ids) ==
    {t \in TxIds : status[t] \notin {"valid", "invalid"} /\ \E k \in ids : locked[k].tx = t}

UnlockByTxID(t) ==
    locked' = [k \in Tokens |-> IF locked[k].tx = t THEN NoEntry ELSE locked[k]]

-----------------------------------------------------------------------------
\* The collector wakes up when the table is not empty.
ScanStart ==
    /\ Collector
    /\ scan.section = "sleep"
    /\ \E k \in Tokens : IsLocked(k)
    /\ scan' = [section |-> "walk", todo |-> {k \in Tokens : IsLocked(k)}, remove |-> {}]
    /\ UNCHANGED <<locked, status, robbed>>

\* Mistake: locks of valid transactions are left to their owners.
CollectsRejected(k, s) == s \in {"invalid", "error"}

\* What the collector does with an entry whose holder has status s.
Collects(k, s) ==
    \/ s \in {"invalid", "error"}
    \/ s = "valid" /\ locked[k].stale

ScanEntry(k) ==
    /\ scan.section = "walk"
    /\ k \in scan.todo
    /\ \E s \in StatusResults(locked[k].tx) :
          scan' = [scan EXCEPT !.todo = @ \ {k},
                               !.remove = IF Collects(k, s) THEN @ \cup {k} ELSE @]
    /\ UNCHANGED <<locked, status, robbed>>

ScanWalked ==
    /\ scan.section = "walk"
    /\ scan.todo = {}
    /\ scan' = [scan EXCEPT !.section = "remove"]
    /\ UNCHANGED <<locked, status, robbed>>

\* The remove list names tokens, not entries: whoever holds them now loses them.
ScanRemove ==
    /\ scan.section = "remove"
    /\ UnlockIDs(scan.remove)
    /\ robbed' = robbed \cup Losers(scan.remove)
    /\ scan' = [section |-> "sleep", todo |-> {}, remove |-> {}]
    /\ UNCHANGED status

Scan == ScanStart \/ (\E k \in Tokens : ScanEntry(k)) \/ ScanWalked \/ ScanRemove

\* Time passes on an entry of a valid transaction.
Age(k) ==
    /\ IsLocked(k)
    /\ ~locked[k].stale
    /\ status[locked[k].tx] = "valid"
    /\ locked' = [locked EXCEPT ![k].stale = TRUE]
    /\ UNCHANGED <<scan, status, robbed>>

LockerTypeOK ==
    /\ locked \in [Tokens -> [tx : TxIds \cup {Free}, stale : BOOLEAN]]
    /\ scan \in [section : {"sleep", "walk", "remove"}, todo : SUBSET Tokens,
                 remove : SUBSET Tokens]
    /\ status \in [TxIds -> Statuses]
    /\ robbed \subseteq TxIds
=============================================================================
