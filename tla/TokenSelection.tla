--------------------------- MODULE TokenSelection ---------------------------
(***************************************************************************)
(* Selectors and the transactions they select for, on top of the locker.    *)
(* There is one selector per transaction; all of them share the locker and   *)
(* read the vault of the node.  A selector iterates over a snapshot of the   *)
(* unspent tokens, locks those it wants one at a time until they cover the   *)
(* target, checks that the vault still has them, and returns them; or gives  *)
(* them back and tries again, a bounded number of times.                    *)
(*                                                                          *)
(* The life of a transaction after its selection is reduced to what the      *)
(* locker and the vault see of it: it is submitted (busy), becomes valid (the *)
(* vault loses the tokens it spends) or invalid, and may be released when a   *)
(* view fails, which includes a finality timeout on a busy transaction.      *)
(***************************************************************************)
EXTENDS Locker, Naturals, Functions

CONSTANTS
    Value,          \* token -> quantity
    Wanted,         \* tx -> tokens of the type and owner the selector filters by
    ByOwner,        \* transactions whose owner filter names no wallet
    Target,         \* tx -> quantity to cover
    NumRetry,       \* attempts of a selection
    MaxSelections   \* selections a transaction may ask for (bound)

VARIABLES
    sel,            \* tx -> the state of its selector
    picked,         \* tx -> tokens its successful selections returned
    released,       \* transactions Release ran for
    vault           \* tokens that are unspent in the vault

vars == <<locked, scan, status, robbed, sel, picked, released, vault>>

ASSUME SelectionAssumption ==
    /\ IsFiniteSet(Tokens)
    /\ Value \in [Tokens -> Nat]
    /\ Wanted \in [TxIds -> SUBSET Tokens]
    /\ ByOwner \subseteq TxIds
    /\ Target \in [TxIds -> Nat \ {0}]
    /\ NumRetry \in Nat \ {0}
    /\ MaxSelections \in Nat \ {0}

Labels == {"idle", "open", "next", "lock", "check", "unlock", "selected", "failed"}
Outcomes == {"none", "iterator", "concurrency", "locked", "insufficient"}

\* iter: snapshot tokens the iterator has not returned yet; current: the token
\* about to be locked; toBeSpent and missed: tokens locked and refused in this
\* attempt; attempt: the i of the loop; issue: the vault lacked a locked token.
Selector == [pc : Labels, iter : SUBSET Tokens, current : SUBSET Tokens,
             toBeSpent : SUBSET Tokens, missed : SUBSET Tokens, attempt : 0 .. NumRetry,
             issue : BOOLEAN, outcome : Outcomes, selections : 0 .. MaxSelections]

NewSelector == [pc |-> "idle", iter |-> {}, current |-> {}, toBeSpent |-> {}, missed |-> {},
                attempt |-> 0, issue |-> FALSE, outcome |-> "none", selections |-> 0]

Sum(S) == SumFunctionOnSet(Value, S)

Covers(t, S) == Target[t] <= Sum(S)

Init ==
    /\ LockerInit
    /\ sel = [t \in TxIds |-> NewSelector]
    /\ picked = [t \in TxIds |-> {}]
    /\ released = {}
    /\ vault = Tokens

\* A first attempt does not take over locks, unless it is also the last one.
Reclaims(t) == NumRetry = 1 \/ sel[t].attempt > 0

-----------------------------------------------------------------------------
\* Select, once for each action of the transaction that spends tokens.
Select(t) ==
    /\ sel[t].pc \in {"idle", "selected"}
    /\ status[t] = "unknown"
    /\ t \notin released
    /\ sel[t].selections < MaxSelections
    /\ sel' = [sel EXCEPT ![t].pc = "open", ![t].attempt = 0]
    /\ UNCHANGED <<locked, scan, status, robbed, picked, released, vault>>

\* What an attempt iterates over.  The index of a wallet holds its tokens of
\* the type; a filter without a wallet has to look at every unspent token.
Unspent(t) == IF t \in ByOwner THEN vault ELSE vault \cap Wanted[t]

\* Each attempt opens a new iterator over the unspent tokens.
OpenIterator(t) ==
    /\ sel[t].pc = "open"
    /\ sel' = [sel EXCEPT ![t].pc = "next", ![t].iter = Unspent(t),
                          ![t].toBeSpent = {}, ![t].missed = {}, ![t].issue = FALSE]
    /\ UNCHANGED <<locked, scan, status, robbed, picked, released, vault>>

\* The iterator returns a token and Lock looks at it under the read lock.
Advance(t, k) ==
    /\ sel[t].pc = "next"
    /\ k \in sel[t].iter \cap Wanted[t]
    /\ sel' = IF QuicklyRefused(k, Reclaims(t))
              THEN [sel EXCEPT ![t].iter = @ \ {k}, ![t].missed = @ \cup {k}]
              ELSE [sel EXCEPT ![t].iter = @ \ {k}, ![t].current = {k}, ![t].pc = "lock"]
    /\ UNCHANGED <<locked, scan, status, robbed, picked, released, vault>>

\* The iterator returns a token of another type or owner.
SkipOther(t, k) ==
    /\ sel[t].pc = "next"
    /\ k \in sel[t].iter \ Wanted[t]
    /\ sel' = [sel EXCEPT ![t].iter = @ \ {k}]
    /\ UNCHANGED <<locked, scan, status, robbed, picked, released, vault>>

\* The vault fails to open the iterator, or the iterator fails: the selection
\* ends, forgets its tokens and leaves their locks in place.
IteratorFails(t) ==
    /\ sel[t].pc \in {"open", "next"}
    /\ sel' = [sel EXCEPT ![t].pc = "failed", ![t].outcome = "iterator", ![t].toBeSpent = {}]
    /\ UNCHANGED <<locked, scan, status, robbed, picked, released, vault>>

\* Lock under the write lock; the loop ends as soon as the tokens suffice.
LockObtained(t, k) ==
    /\ sel[t].pc = "lock"
    /\ k \in sel[t].current
    /\ WriteLockFree
    /\ MayObtain(k, Reclaims(t))
    /\ LockEntry(k, t)
    /\ sel' = [sel EXCEPT ![t].toBeSpent = @ \cup {k}, ![t].current = {},
                          ![t].pc = IF Covers(t, sel[t].toBeSpent \cup {k}) THEN "check" ELSE "next"]
    /\ UNCHANGED <<scan, status, robbed, picked, released, vault>>

LockRefused(t, k) ==
    /\ sel[t].pc = "lock"
    /\ k \in sel[t].current
    /\ WriteLockFree
    /\ MayBeRefused(k, Reclaims(t))
    /\ Refused(k)
    /\ sel' = [sel EXCEPT ![t].missed = @ \cup {k}, ![t].current = {}, ![t].pc = "next"]
    /\ UNCHANGED <<scan, status, robbed, picked, released, vault>>

\* The snapshot is exhausted and the tokens do not suffice.
Exhausted(t) ==
    /\ sel[t].pc = "next"
    /\ sel[t].iter = {}
    /\ sel' = [sel EXCEPT ![t].pc = "unlock"]
    /\ UNCHANGED <<locked, scan, status, robbed, picked, released, vault>>

\* concurrencyCheck: does the vault still have every token just locked?
ConcurrencyCheck(t) ==
    /\ sel[t].pc = "check"
    /\ IF sel[t].toBeSpent \subseteq vault
       THEN /\ sel' = [sel EXCEPT ![t].pc = "selected", ![t].selections = @ + 1,
                                  ![t].toBeSpent = {}, ![t].outcome = "none"]
            /\ picked' = [picked EXCEPT ![t] = @ \cup sel[t].toBeSpent]
       ELSE /\ sel' = [sel EXCEPT ![t].pc = "unlock", ![t].issue = TRUE]
            /\ UNCHANGED picked
    /\ UNCHANGED <<locked, scan, status, robbed, released, vault>>

\* Mistake: tokens held by others do not count.
FailureOfLocked(t) ==
    IF sel[t].issue THEN "concurrency"
    ELSE IF Covers(t, sel[t].toBeSpent) THEN "locked"
    ELSE "insufficient"

\* How a selection that will not be retried fails.
FailureOf(t) ==
    IF sel[t].issue THEN "concurrency"
    ELSE IF Covers(t, sel[t].toBeSpent \cup sel[t].missed) THEN "locked"
    ELSE "insufficient"

\* The next attempt, or the end of the selection.
Retry(t, last) ==
    sel' = [sel EXCEPT ![t].attempt = @ + 1, ![t].toBeSpent = {},
                       ![t].pc = IF last THEN "failed" ELSE "open",
                       ![t].outcome = IF last THEN FailureOf(t) ELSE @]

\* UnlockIDs on behalf of a selector.  Whoever else holds one of the tokens loses
\* its lock.
Frees(t, ids) == UnlockIDs(ids) /\ robbed' = robbed \cup (Losers(ids) \ {t})

\* Mistakes: one attempt too many; attempts that never count; tokens forgotten;
\* tokens of others unlocked as well.
GiveBackOnceMore(t) ==
    /\ sel[t].pc = "unlock"
    /\ WriteLockFree
    /\ Frees(t, sel[t].toBeSpent)
    /\ Retry(t, sel[t].attempt + 1 > NumRetry)
    /\ UNCHANGED <<scan, status, picked, released, vault>>

GiveBackForever(t) ==
    /\ sel[t].pc = "unlock"
    /\ WriteLockFree
    /\ Frees(t, sel[t].toBeSpent)
    /\ sel' = [sel EXCEPT ![t].toBeSpent = {}, ![t].pc = "open"]
    /\ UNCHANGED <<scan, status, picked, released, vault>>

GiveBackNothing(t) ==
    /\ sel[t].pc = "unlock"
    /\ Retry(t, sel[t].attempt + 1 >= NumRetry)
    /\ UNCHANGED <<locked, scan, status, robbed, picked, released, vault>>

GiveBackAll(t) ==
    /\ sel[t].pc = "unlock"
    /\ WriteLockFree
    /\ Frees(t, sel[t].toBeSpent \cup sel[t].missed)
    /\ Retry(t, sel[t].attempt + 1 >= NumRetry)
    /\ UNCHANGED <<scan, status, picked, released, vault>>

\* Give the tokens of this attempt back, then retry or fail.
GiveBack(t) ==
    /\ sel[t].pc = "unlock"
    /\ WriteLockFree
    /\ Frees(t, sel[t].toBeSpent)
    /\ Retry(t, sel[t].attempt + 1 >= NumRetry)
    /\ UNCHANGED <<scan, status, picked, released, vault>>

-----------------------------------------------------------------------------
\* The transaction is endorsed and sent to ordering.
Submit(t) ==
    /\ sel[t].pc = "selected"
    /\ t \notin released
    /\ status[t] = "unknown"
    /\ status' = [status EXCEPT ![t] = "busy"]
    /\ UNCHANGED <<locked, scan, robbed, sel, picked, released, vault>>

\* The network commits it; the vault loses the tokens in the same step.
BecomesValid(t) ==
    /\ status[t] = "busy"
    /\ picked[t] \subseteq vault
    /\ status' = [status EXCEPT ![t] = "valid"]
    /\ vault' = vault \ picked[t]
    /\ UNCHANGED <<locked, scan, robbed, sel, picked, released>>

\* The network rejects it, because of a conflict or for any other reason.
BecomesInvalid(t) ==
    /\ status[t] = "busy"
    /\ status' = [status EXCEPT ![t] = "invalid"]
    /\ UNCHANGED <<locked, scan, robbed, sel, picked, released, vault>>

\* A view of the transaction fails and Release unlocks by transaction id.
Release(t) ==
    /\ sel[t].pc \in {"selected", "failed"}
    /\ status[t] # "valid"
    /\ t \notin released
    /\ WriteLockFree
    /\ UnlockByTxID(t)
    /\ released' = released \cup {t}
    /\ UNCHANGED <<scan, status, robbed, sel, picked, vault>>

-----------------------------------------------------------------------------
SelectorStep(t) ==
    \/ OpenIterator(t)
    \/ \E k \in Tokens : Advance(t, k) \/ SkipOther(t, k)
    \/ IteratorFails(t)
    \/ Exhausted(t)
    \/ ConcurrencyCheck(t)

LockingStep(t) ==
    \/ \E k \in Tokens : LockObtained(t, k) \/ LockRefused(t, k)
    \/ GiveBack(t)

LockerStep ==
    \/ Scan /\ UNCHANGED <<sel, picked, released, vault>>
    \/ \E k \in Tokens : Age(k) /\ UNCHANGED <<sel, picked, released, vault>>

Next ==
    \/ \E t \in TxIds : Select(t) \/ SelectorStep(t) \/ LockingStep(t)
    \/ \E t \in TxIds : Submit(t) \/ BecomesValid(t) \/ BecomesInvalid(t) \/ Release(t)
    \/ LockerStep

\* Goroutines are scheduled, and a writer that waits on the mutex keeps new
\* readers out, so that it enters even if scans never end.
Fairness ==
    /\ \A t \in TxIds : WF_vars(SelectorStep(t)) /\ SF_vars(LockingStep(t))
    /\ WF_vars(Scan /\ UNCHANGED <<sel, picked, released, vault>>)
    /\ \A k \in Tokens : WF_vars(Age(k) /\ UNCHANGED <<sel, picked, released, vault>>)

Spec == Init /\ [][Next]_vars
FairSpec == Spec /\ Fairness

-----------------------------------------------------------------------------
TypeOK ==
    /\ LockerTypeOK
    /\ sel \in [TxIds -> Selector]
    /\ picked \in [TxIds -> SUBSET Tokens]
    /\ released \subseteq TxIds
    /\ vault \subseteq Tokens

\* The transaction relies on the tokens it was given: it was not given up by
\* Release nor rejected by the network.
Relies(t) == t \notin released /\ status[t] # "invalid"

\* Two routines never get the same token, whatever the interleaving of their
\* locks, takeovers, retries and releases, and however long ago one of them
\* finished its selection.
Exclusive ==
    \A t, u \in TxIds : t # u /\ Relies(t) /\ Relies(u) => picked[t] \cap picked[u] = {}

\* What the collector leaves of that: two transactions get the same token only if
\* one of them lost a lock while it was under way.
ExclusiveUnlessRobbed ==
    \A t, u \in TxIds : t # u /\ Relies(t) /\ Relies(u) /\ picked[t] \cap picked[u] # {} =>
        t \in robbed \/ u \in robbed

\* UnlockIDs frees whatever it is told to.  What a selector is about to give back
\* is still locked for its own transaction, unless that was robbed before; so the
\* first robbery is never that of a selector.
GivesBackItsOwn ==
    \A t \in TxIds \ robbed : \A k \in sel[t].toBeSpent : locked[k].tx = t

\* A lock belongs to a transaction that was not released, for a token it picked or
\* is picking; the one way for a selection to leave a lock behind is an iterator
\* that fails.
NoOrphanLock ==
    \A k \in Tokens : IsLocked(k) =>
        LET t == locked[k].tx IN
        /\ t \notin released
        /\ k \in picked[t] \cup sel[t].toBeSpent \/ sel[t].outcome = "iterator"

\* Funds are only reported insufficient when they are: since the vault of the
\* model gains no token, they still are.
InsufficientIsHonest ==
    \A t \in TxIds : sel[t].outcome = "insufficient" => ~Covers(t, vault \cap Wanted[t])

\* A lock changes hands, or is dropped, only if its transaction is known to be
\* finished, was released, or gives back what it could not use; or if the token is
\* on a remove list of the collector, or a robbed selector gives it back.
NoLockIsStolen ==
    [][\A k \in Tokens : IsLocked(k) /\ locked'[k].tx # locked[k].tx =>
          LET t == locked[k].tx
              givesBack(u) == sel[u].pc = "unlock" /\ k \in sel[u].toBeSpent
          IN \/ status[t] \in {"valid", "invalid"}
             \/ t \in released'
             \/ givesBack(t)
             \/ scan.section = "remove" /\ k \in scan.remove
             \/ \E u \in robbed : givesBack(u)]_vars

\* Every selection ends, with tokens or with an error.
SelectionEnds ==
    \A t \in TxIds : sel[t].pc = "open" ~> sel[t].pc \in {"selected", "failed"}

\* A lock does not survive the end of its transaction for ever, although each
\* refused attempt renews the entry and nobody unlocks a committed transaction.
FinishedLocksAreCollected ==
    \A t \in TxIds : \A k \in Tokens :
        locked[k].tx = t /\ status[t] \in {"valid", "invalid"} ~> locked[k].tx # t
=============================================================================
