------------------------ MODULE TokenSelectionProofs ------------------------
(***************************************************************************)
(* Proofs about selectors that share a locker, for any number of tokens,     *)
(* transactions and attempts.                                              *)
(*                                                                          *)
(* Every theorem holds with the collector and without it.  With it Exclusive  *)
(* is false: the remove list of a scan outlives the locks it was made from     *)
(* (run collector_race).  What is proved is that the collector is the only     *)
(* source of that: a transaction that was never robbed keeps its locks, and    *)
(* nobody robs another one who was not robbed before.                        *)
(***************************************************************************)
EXTENDS TokenSelection, FoldTheorems, TLAPS

Working == {"open", "next", "lock", "check", "unlock"}

\* A selector at work serves a transaction that nobody has given up or
\* submitted, and has attempts and selections left.
WorkingOK ==
    \A t \in TxIds : sel[t].pc \in Working =>
        /\ t \notin released
        /\ status[t] = "unknown"
        /\ sel[t].attempt < NumRetry
        /\ sel[t].selections < MaxSelections

\* Only an attempt has tokens in its hand, and a failed iterator is the end.
NothingInHand ==
    \A t \in TxIds :
        /\ sel[t].pc \in {"idle", "open", "selected", "failed"} => sel[t].toBeSpent = {}
        /\ sel[t].outcome = "iterator" => sel[t].pc = "failed"

WInv == TypeOK /\ WorkingOK /\ NothingInHand

\* An attempt loses sight of no token: each token of the vault that the selector
\* wants is still to come, in its hand, locked, or was refused.
Accounted ==
    \A t \in TxIds :
        LET s == sel[t]
            left == vault \cap Wanted[t]
        IN /\ s.pc = "next" => left \subseteq s.iter \cup s.toBeSpent \cup s.missed
           /\ s.pc = "lock" => \E k \in Tokens : /\ s.current = {k}
                                                /\ left \subseteq s.iter \cup {k} \cup s.toBeSpent \cup s.missed
           /\ s.pc = "unlock" /\ ~s.issue => left \subseteq s.toBeSpent \cup s.missed

\* Under way: neither given up nor known to be finished.
Pending(t) == t \notin released /\ status[t] \in {"unknown", "busy"}

\* A transaction under way that nobody robbed holds the lock of each of its tokens,
\* of those it picked in earlier selections as well as of those of the current
\* attempt, ...
HoldsItsLocks ==
    \A t \in TxIds \ robbed : Pending(t) =>
        \A k \in picked[t] \cup sel[t].toBeSpent : locked[k].tx = t

\* ... and its attempts never take a token it has picked before, so that giving
\* their tokens back frees none of those.
PickedOnce == \A t \in TxIds \ robbed : picked[t] \cap sel[t].toBeSpent = {}

\* When the lock of a valid transaction is collected, the vault has lost the token,
\* which is what concurrencyCheck looks for.
SpentIsGone == \A t \in TxIds : status[t] = "valid" => picked[t] \cap vault = {}

IInv ==
    /\ TypeOK
    /\ WorkingOK
    /\ NothingInHand
    /\ HoldsItsLocks
    /\ PickedOnce
    /\ SpentIsGone
    /\ ExclusiveUnlessRobbed
    /\ NoOrphanLock

-----------------------------------------------------------------------------
\* The steps of the selector of a transaction, and of the transaction itself.
SelectorMoves(t) ==
    \/ Select(t) \/ OpenIterator(t) \/ IteratorFails(t) \/ Exhausted(t)
    \/ ConcurrencyCheck(t) \/ GiveBack(t)
    \/ \E k \in Tokens : Advance(t, k) \/ SkipOther(t, k) \/ LockObtained(t, k) \/ LockRefused(t, k)

TransactionMoves(t) == Submit(t) \/ BecomesValid(t) \/ BecomesInvalid(t) \/ Release(t)

\* There are no other steps, except those of the locker itself.
LEMMA Steps ==
    ASSUME Next
    PROVE  \/ \E t \in TxIds : SelectorMoves(t) \/ TransactionMoves(t)
           \/ LockerStep
  BY DEF Next, SelectorStep, LockingStep, SelectorMoves, TransactionMoves

\* The steps of the locker itself touch nothing but the locker.
LEMMA LockerStepFrame == LockerStep => UNCHANGED <<status, sel, picked, released, vault>>
  BY DEF LockerStep, Scan, ScanStart, ScanEntry, ScanWalked, ScanRemove, Age

\* Nobody selects and nothing is locked at first.
LEMMA InitialState == Init => IInv
  BY SelectionAssumption
     DEF Init, LockerInit, IInv, TypeOK, LockerTypeOK, Selector, NewSelector, Labels, Outcomes,
         WorkingOK, Working, NothingInHand, HoldsItsLocks, PickedOnce, SpentIsGone,
         ExclusiveUnlessRobbed, NoOrphanLock, IsLocked, NoEntry, Statuses

\* A selector is a record of its fields.
LEMMA SelectorFields ==
    ASSUME TypeOK, NEW t \in TxIds
    PROVE  /\ sel[t] \in Selector
           /\ sel[t].pc \in Labels
           /\ sel[t].iter \subseteq Tokens /\ sel[t].current \subseteq Tokens
           /\ sel[t].toBeSpent \subseteq Tokens /\ sel[t].missed \subseteq Tokens
           /\ sel[t].attempt \in 0 .. NumRetry
           /\ sel[t].outcome \in Outcomes
           /\ sel[t].selections \in 0 .. MaxSelections
  BY DEF TypeOK, Selector

\* What a step of its own makes of a selector is a selector.
LEMMA SelectorStepType ==
    ASSUME TypeOK, WorkingOK, NEW t \in TxIds, SelectorMoves(t)
    PROVE  sel' \in [TxIds -> Selector]
  <1> DEFINE Becomes(r) == sel' = [sel EXCEPT ![t] = r]
  <1>1. ASSUME NEW r \in Selector, Becomes(r)
        PROVE  sel' \in [TxIds -> Selector]
    BY <1>1 DEF TypeOK
  <1>2. CASE Select(t)
    <2> DEFINE r == [sel[t] EXCEPT !.pc = "open", !.attempt = 0]
    <2>1. Becomes(r)
      BY <1>2 DEF Select, TypeOK
    <2>2. 0 \in 0 .. NumRetry
      BY SelectionAssumption
    <2>3. r \in Selector
      BY <2>2, SelectorFields, ZenonT(60) DEF Selector, Labels
    <2> QED
      BY <1>1, <2>1, <2>3
  <1>3. CASE OpenIterator(t)
    <2> DEFINE r == [sel[t] EXCEPT !.pc = "next", !.iter = Unspent(t),
                                   !.toBeSpent = {}, !.missed = {}, !.issue = FALSE]
    <2>1. Becomes(r)
      BY <1>3 DEF OpenIterator, TypeOK
    <2>2. Unspent(t) \subseteq Tokens
      BY DEF Unspent, TypeOK
    <2>3. r \in Selector
      BY <2>2, SelectorFields, ZenonT(60) DEF Selector, Labels
    <2> QED
      BY <1>1, <2>1, <2>3
  <1>4. CASE IteratorFails(t)
    <2> DEFINE r == [sel[t] EXCEPT !.pc = "failed", !.outcome = "iterator", !.toBeSpent = {}]
    <2>1. Becomes(r)
      BY <1>4 DEF IteratorFails, TypeOK
    <2>2. r \in Selector
      BY SelectorFields, ZenonT(60) DEF Selector, Labels, Outcomes
    <2> QED
      BY <1>1, <2>1, <2>2
  <1>5. CASE Exhausted(t)
    <2> DEFINE r == [sel[t] EXCEPT !.pc = "unlock"]
    <2>1. Becomes(r)
      BY <1>5 DEF Exhausted, TypeOK
    <2>2. r \in Selector
      BY SelectorFields, ZenonT(60) DEF Selector, Labels
    <2> QED
      BY <1>1, <2>1, <2>2
  <1>6. CASE ConcurrencyCheck(t)
    <2> DEFINE r == [sel[t] EXCEPT !.pc = "selected", !.selections = @ + 1,
                                   !.toBeSpent = {}, !.outcome = "none"]
               s == [sel[t] EXCEPT !.pc = "unlock", !.issue = TRUE]
    <2>1. Becomes(r) \/ Becomes(s)
      BY <1>6 DEF ConcurrencyCheck, TypeOK
    <2>2. sel[t].selections + 1 \in 0 .. MaxSelections
      BY <1>6, SelectorFields, SelectionAssumption DEF ConcurrencyCheck, WorkingOK, Working
    <2>3. r \in Selector
      BY <2>2, SelectorFields, ZenonT(60) DEF Selector, Labels, Outcomes
    <2>4. s \in Selector
      BY SelectorFields, ZenonT(60) DEF Selector, Labels
    <2> HIDE DEF r, s
    <2> QED
      BY <1>1, <2>1, <2>3, <2>4
  <1>7. CASE GiveBack(t)
    <2> DEFINE last == sel[t].attempt + 1 >= NumRetry
               r == [sel[t] EXCEPT !.attempt = @ + 1, !.toBeSpent = {},
                                   !.pc = IF last THEN "failed" ELSE "open",
                                   !.outcome = IF last THEN FailureOf(t) ELSE @]
    <2>1. Becomes(r)
      BY <1>7 DEF GiveBack, Retry, TypeOK
    <2>2. sel[t].attempt + 1 \in 0 .. NumRetry
      BY <1>7, SelectorFields, SelectionAssumption DEF GiveBack, WorkingOK, Working
    <2>3. FailureOf(t) \in Outcomes
      BY DEF FailureOf, Outcomes
    <2>4. r \in Selector
      <3> DEFINE pc == IF last THEN "failed" ELSE "open"
                 outcome == IF last THEN FailureOf(t) ELSE sel[t].outcome
      <3>1. ASSUME NEW p \in Labels, NEW o \in Outcomes, NEW a \in 0 .. NumRetry
            PROVE  [sel[t] EXCEPT !.attempt = a, !.toBeSpent = {}, !.pc = p, !.outcome = o] \in Selector
        BY SelectorFields DEF Selector
      <3>2. pc \in Labels
        BY DEF Labels
      <3>3. outcome \in Outcomes
        BY <2>3, SelectorFields
      <3> HIDE DEF pc, outcome
      <3>4. [sel[t] EXCEPT !.attempt = sel[t].attempt + 1, !.toBeSpent = {}, !.pc = pc, !.outcome = outcome] \in Selector
        BY <2>2, <3>1, <3>2, <3>3
      <3> QED
        BY <3>4 DEF pc, outcome
    <2> QED
      BY <1>1, <2>1, <2>4
  <1>8. ASSUME NEW k \in Tokens, Advance(t, k)
        PROVE  sel' \in [TxIds -> Selector]
    <2> DEFINE r == [sel[t] EXCEPT !.iter = @ \ {k}, !.missed = @ \cup {k}]
               s == [sel[t] EXCEPT !.iter = @ \ {k}, !.current = {k}, !.pc = "lock"]
    <2>1. Becomes(r) \/ Becomes(s)
      BY <1>8 DEF Advance, TypeOK
    <2>2. r \in Selector
      BY SelectorFields DEF Selector
    <2>3. s \in Selector
      BY SelectorFields, ZenonT(60) DEF Selector, Labels
    <2> HIDE DEF r, s
    <2> QED
      BY <1>1, <2>1, <2>2, <2>3
  <1>9. ASSUME NEW k \in Tokens, SkipOther(t, k)
        PROVE  sel' \in [TxIds -> Selector]
    <2> DEFINE r == [sel[t] EXCEPT !.iter = @ \ {k}]
    <2>1. Becomes(r)
      BY <1>9 DEF SkipOther, TypeOK
    <2>2. r \in Selector
      BY SelectorFields DEF Selector
    <2> QED
      BY <1>1, <2>1, <2>2
  <1>10. ASSUME NEW k \in Tokens, LockObtained(t, k)
         PROVE  sel' \in [TxIds -> Selector]
    <2> DEFINE next == IF Covers(t, sel[t].toBeSpent \cup {k}) THEN "check" ELSE "next"
               r == [sel[t] EXCEPT !.toBeSpent = @ \cup {k}, !.current = {}, !.pc = next]
    <2>1. Becomes(r)
      BY <1>10 DEF LockObtained, TypeOK
    <2>2. r \in Selector
      BY SelectorFields, ZenonT(60) DEF Selector, Labels
    <2> QED
      BY <1>1, <2>1, <2>2
  <1>11. ASSUME NEW k \in Tokens, LockRefused(t, k)
         PROVE  sel' \in [TxIds -> Selector]
    <2> DEFINE r == [sel[t] EXCEPT !.missed = @ \cup {k}, !.current = {}, !.pc = "next"]
    <2>1. Becomes(r)
      BY <1>11 DEF LockRefused, TypeOK
    <2>2. r \in Selector
      BY SelectorFields, ZenonT(60) DEF Selector, Labels
    <2> QED
      BY <1>1, <2>1, <2>2
  <1> QED
    BY <1>2, <1>3, <1>4, <1>5, <1>6, <1>7, <1>8, <1>9, <1>10, <1>11 DEF SelectorMoves

\* Unlocking leaves a table of entries behind.
LEMMA EntriesType ==
    ASSUME NEW S, NEW E, NoEntry \in E, locked \in [Tokens -> E],
           locked' = [k \in Tokens |-> IF k \in S THEN NoEntry ELSE locked[k]]
    PROVE  locked' \in [Tokens -> E]
  OBVIOUS

\* Unlocking keeps the lock table a table of tokens and owners.
LEMMA UnlockType ==
    ASSUME LockerTypeOK, NEW S, UnlockIDs(S) \/ UnlockByTxID(S)
    PROVE  locked' \in [Tokens -> [tx : TxIds \cup {Free}, stale : BOOLEAN]]
  <1> DEFINE E == [tx : TxIds \cup {Free}, stale : BOOLEAN]
             H == {k \in Tokens : locked[k].tx = S}
  <1>1. NoEntry \in E
    BY DEF NoEntry
  <1>2. locked \in [Tokens -> E]
    BY DEF LockerTypeOK
  <1>3. \/ locked' = [k \in Tokens |-> IF k \in S THEN NoEntry ELSE locked[k]]
        \/ locked' = [k \in Tokens |-> IF k \in H THEN NoEntry ELSE locked[k]]
    BY DEF UnlockIDs, UnlockByTxID
  <1> HIDE DEF H, E
  <1>4. locked' \in [Tokens -> E]
    BY <1>1, <1>2, <1>3, EntriesType
  <1> QED
    BY <1>4 DEF E

\* So does an access to an entry, or the age of one.
LEMMA TouchType ==
    ASSUME NEW E, NEW l \in [Tokens -> [tx : E, stale : BOOLEAN]], NEW k \in Tokens, NEW b \in BOOLEAN
    PROVE  [l EXCEPT ![k].stale = b] \in [Tokens -> [tx : E, stale : BOOLEAN]]
  <1> DEFINE R == [tx : E, stale : BOOLEAN]
  <1>1. [l[k] EXCEPT !.stale = b] \in R
    OBVIOUS
  <1> HIDE DEF R
  <1>2. [l EXCEPT ![k] = [l[k] EXCEPT !.stale = b]] \in [Tokens -> R]
    BY <1>1 DEF R
  <1> QED
    BY <1>2 DEF R

\* Every action leaves every variable with its type.
LEMMA TypeStep ==
    ASSUME TypeOK, WorkingOK, [Next]_vars
    PROVE  TypeOK'
  <1>1. ASSUME NEW t \in TxIds, SelectorMoves(t)
        PROVE  TypeOK'
    <2>1. sel' \in [TxIds -> Selector]
      BY <1>1, SelectorStepType
    <2>2. locked' \in [Tokens -> [tx : TxIds \cup {Free}, stale : BOOLEAN]]
      <3>1. CASE UnlockIDs(sel[t].toBeSpent)
        BY <3>1, UnlockType DEF TypeOK
      <3>2. CASE \E k \in Tokens : LockEntry(k, t)
        BY <3>2 DEF LockEntry, TypeOK, LockerTypeOK
      <3>3. CASE \E k \in Tokens : Refused(k)
          <4>1. PICK k \in Tokens : locked' = [locked EXCEPT ![k].stale = FALSE]
            BY <3>3 DEF Refused
          <4>2. locked \in [Tokens -> [tx : TxIds \cup {Free}, stale : BOOLEAN]]
            BY DEF TypeOK, LockerTypeOK
          <4> QED
            BY <4>1, <4>2, TouchType
      <3>4. CASE UNCHANGED locked
        BY <3>4 DEF TypeOK, LockerTypeOK
      <3> QED
        BY <1>1, <3>1, <3>2, <3>3, <3>4
           DEF SelectorMoves, Select, OpenIterator, IteratorFails, Exhausted, ConcurrencyCheck, Advance, SkipOther,
               LockObtained, LockRefused, GiveBack, Frees
    <2>3. picked' \in [TxIds -> SUBSET Tokens]
      <3>1. CASE picked' = [picked EXCEPT ![t] = @ \cup sel[t].toBeSpent]
        BY <3>1, SelectorFields DEF TypeOK
      <3>2. CASE UNCHANGED picked
        BY <3>2 DEF TypeOK
      <3> QED
        BY <1>1, <3>1, <3>2
           DEF SelectorMoves, Select, OpenIterator, IteratorFails, Exhausted, ConcurrencyCheck, GiveBack,
               Advance, SkipOther, LockObtained, LockRefused
    <2>4. UNCHANGED <<scan, status, released, vault>> /\ robbed' \subseteq TxIds
      BY <1>1 DEF SelectorMoves, Select, OpenIterator, IteratorFails, Exhausted, ConcurrencyCheck, GiveBack,
                  Advance, SkipOther, LockObtained, LockRefused, Frees, Losers, TypeOK, LockerTypeOK
    <2> QED
      BY <2>1, <2>2, <2>3, <2>4 DEF TypeOK, LockerTypeOK
  <1>2. ASSUME NEW t \in TxIds, Submit(t) \/ BecomesValid(t) \/ BecomesInvalid(t)
        PROVE  TypeOK'
    BY <1>2 DEF Submit, BecomesValid, BecomesInvalid, Statuses, TypeOK, LockerTypeOK
  <1>3. ASSUME NEW t \in TxIds, Release(t)
        PROVE  TypeOK'
    <2>1. locked' \in [Tokens -> [tx : TxIds \cup {Free}, stale : BOOLEAN]]
      BY <1>3, UnlockType DEF Release, TypeOK
    <2> QED
      BY <1>3, <2>1 DEF Release, TypeOK, LockerTypeOK
  <1>4. CASE LockerStep
    <2> USE DEF LockerTypeOK
    <2>1. UNCHANGED <<status, sel, picked, released, vault>>
      BY <1>4, LockerStepFrame
    <2>2. locked' \in [Tokens -> [tx : TxIds \cup {Free}, stale : BOOLEAN]]
      <3>1. CASE ScanRemove
        BY <3>1, UnlockType DEF ScanRemove, TypeOK
      <3>2. ASSUME NEW k \in Tokens, Age(k)
            PROVE  locked' \in [Tokens -> [tx : TxIds \cup {Free}, stale : BOOLEAN]]
          BY <3>2, TouchType DEF Age, TypeOK, LockerTypeOK
      <3>3. CASE UNCHANGED locked
        BY <3>3 DEF TypeOK
      <3> QED
        BY <1>4, <3>1, <3>2, <3>3 DEF LockerStep, Scan, ScanStart, ScanEntry, ScanWalked
    <2>3. scan' \in [section : {"sleep", "walk", "remove"}, todo : SUBSET Tokens, remove : SUBSET Tokens]
      <3>1. CASE ScanStart \/ ScanWalked \/ ScanRemove
        BY <3>1 DEF ScanStart, ScanWalked, ScanRemove, TypeOK
      <3>2. ASSUME NEW k \in Tokens, ScanEntry(k)
            PROVE  scan' \in [section : {"sleep", "walk", "remove"}, todo : SUBSET Tokens, remove : SUBSET Tokens]
        <4>1. PICK r : /\ r \in {scan.remove, scan.remove \cup {k}}
                       /\ scan' = [scan EXCEPT !.todo = @ \ {k}, !.remove = r]
          BY <3>2 DEF ScanEntry
        <4>2. r \subseteq Tokens
          BY <4>1 DEF TypeOK
        <4> QED
          BY <4>1, <4>2 DEF TypeOK
      <3>3. CASE UNCHANGED scan
        BY <3>3 DEF TypeOK
      <3> QED
        BY <1>4, <3>1, <3>2, <3>3 DEF LockerStep, Scan, Age
    <2>4. robbed' \subseteq TxIds
      BY <1>4 DEF LockerStep, Scan, ScanStart, ScanEntry, ScanWalked, ScanRemove, Age, Losers, TypeOK
    <2> QED
      BY <2>1, <2>2, <2>3, <2>4 DEF TypeOK
  <1>5. CASE UNCHANGED vars
    BY <1>5 DEF vars, TypeOK, LockerTypeOK
  <1> QED
    BY <1>1, <1>2, <1>3, <1>4, <1>5, Steps DEF TransactionMoves

-----------------------------------------------------------------------------
\* What the steps of a selector change of the locks and of its own hand.

\* Nobody obtains a token of a transaction under way that was not robbed.
LEMMA ObtainedIsNotReliedOn ==
    ASSUME IInv, NEW t \in TxIds, NEW k \in Tokens, LockObtained(t, k)
    PROVE  \A u \in TxIds \ robbed : Pending(u) => k \notin picked[u] \cup sel[u].toBeSpent
  <1> SUFFICES ASSUME NEW u \in TxIds \ robbed, Pending(u), k \in picked[u] \cup sel[u].toBeSpent
               PROVE  FALSE
    OBVIOUS
  <1>1. locked[k].tx = u
    BY DEF IInv, HoldsItsLocks
  <1>2. "invalid" \in StatusResults(u)
    BY <1>1, LockerAssumption DEF LockObtained, MayObtain, IsLocked
  <1>3. status[u] = "invalid"
    BY <1>2 DEF StatusResults
  <1> QED
    BY <1>3 DEF Pending

\* The transaction of a selector at work is under way.
LEMMA WorkersArePending ==
    ASSUME IInv, NEW t \in TxIds, sel[t].pc \in Working
    PROVE  Pending(t)
  BY DEF IInv, WorkingOK, Pending

\* What a selector has in its hand is locked for its own transaction, unless that
\* was robbed.
LEMMA HandIsOwn ==
    ASSUME IInv, NEW t \in TxIds \ robbed, NEW k \in sel[t].toBeSpent
    PROVE  locked[k].tx = t
  <1>1. sel[t].pc \in Working
    BY SelectorFields DEF IInv, NothingInHand, Labels, Working
  <1> QED
    BY <1>1, WorkersArePending DEF IInv, HoldsItsLocks

\* Where each step leads its selector, and what is in its hand then.
LEMMA SelectorAfter ==
    ASSUME TypeOK, NEW t \in TxIds
    PROVE  LET s == sel[t]
               n == sel'[t]
               Keeps == n.attempt = s.attempt /\ n.selections = s.selections /\ n.outcome = s.outcome
           IN /\ Select(t) => /\ n.pc = "open" /\ n.toBeSpent = s.toBeSpent
                              /\ n.attempt = 0 /\ n.selections = s.selections /\ n.outcome = s.outcome
              /\ OpenIterator(t) => n.pc = "next" /\ n.toBeSpent = {} /\ Keeps
              /\ IteratorFails(t) => n.pc = "failed" /\ n.toBeSpent = {} /\ n.outcome = "iterator"
              /\ Exhausted(t) => n.pc = "unlock" /\ n.toBeSpent = s.toBeSpent /\ Keeps
              /\ ConcurrencyCheck(t) =>
                     \/ /\ n.pc = "selected" /\ n.toBeSpent = {} /\ n.outcome = "none"
                        /\ picked' = [picked EXCEPT ![t] = @ \cup s.toBeSpent]
                     \/ n.pc = "unlock" /\ n.toBeSpent = s.toBeSpent /\ Keeps /\ picked' = picked
              /\ GiveBack(t) => /\ n.toBeSpent = {}
                                /\ n.attempt = s.attempt + 1 /\ n.selections = s.selections
                                /\ n.pc = IF n.attempt >= NumRetry THEN "failed" ELSE "open"
                                /\ n.outcome = "iterator" => s.outcome = "iterator"
              /\ \A k \in Tokens :
                    /\ Advance(t, k) => n.pc \in {"next", "lock"} /\ n.toBeSpent = s.toBeSpent /\ Keeps
                    /\ SkipOther(t, k) => n.pc = "next" /\ n.toBeSpent = s.toBeSpent /\ Keeps
                    /\ LockObtained(t, k) => /\ n.pc \in {"check", "next"}
                                             /\ n.toBeSpent = s.toBeSpent \cup {k} /\ Keeps
                    /\ LockRefused(t, k) => n.pc = "next" /\ n.toBeSpent = s.toBeSpent /\ Keeps
  <1> DEFINE s == sel[t]
             n == sel'[t]
             Keeps == n.attempt = s.attempt /\ n.selections = s.selections /\ n.outcome = s.outcome
  <1> USE SelectorFields DEF TypeOK, Selector
  <1>1. Select(t) => /\ n.pc = "open" /\ n.toBeSpent = s.toBeSpent
                     /\ n.attempt = 0 /\ n.selections = s.selections /\ n.outcome = s.outcome
    BY DEF Select
  <1>2. OpenIterator(t) => n.pc = "next" /\ n.toBeSpent = {} /\ Keeps
    BY DEF OpenIterator
  <1>3. IteratorFails(t) => n.pc = "failed" /\ n.toBeSpent = {} /\ n.outcome = "iterator"
    BY DEF IteratorFails
  <1>4. Exhausted(t) => n.pc = "unlock" /\ n.toBeSpent = s.toBeSpent /\ Keeps
    BY DEF Exhausted
  <1>5. ConcurrencyCheck(t) =>
            \/ /\ n.pc = "selected" /\ n.toBeSpent = {} /\ n.outcome = "none"
               /\ picked' = [picked EXCEPT ![t] = @ \cup s.toBeSpent]
            \/ n.pc = "unlock" /\ n.toBeSpent = s.toBeSpent /\ Keeps /\ picked' = picked
    BY DEF ConcurrencyCheck
  <1>6. GiveBack(t) => /\ n.toBeSpent = {}
                       /\ n.attempt = s.attempt + 1 /\ n.selections = s.selections
                       /\ n.pc = IF n.attempt >= NumRetry THEN "failed" ELSE "open"
                       /\ n.outcome = "iterator" => s.outcome = "iterator"
    BY DEF GiveBack, Retry, FailureOf
  <1>7. ASSUME NEW k \in Tokens
        PROVE  /\ Advance(t, k) => n.pc \in {"next", "lock"} /\ n.toBeSpent = s.toBeSpent /\ Keeps
               /\ SkipOther(t, k) => n.pc = "next" /\ n.toBeSpent = s.toBeSpent /\ Keeps
    BY DEF Advance, SkipOther
  <1>8. ASSUME NEW k \in Tokens
        PROVE  /\ LockObtained(t, k) => /\ n.pc \in {"check", "next"}
                                        /\ n.toBeSpent = s.toBeSpent \cup {k} /\ Keeps
               /\ LockRefused(t, k) => n.pc = "next" /\ n.toBeSpent = s.toBeSpent /\ Keeps
    BY DEF LockObtained, LockRefused
  <1> HIDE DEF n, s, Keeps
  <1> QED
    BY <1>1, <1>2, <1>3, <1>4, <1>5, <1>6, <1>7, <1>8 DEF n, s, Keeps

\* The other selectors stay as they are, and so do statuses and releases.
LEMMA OneSelectorMoves ==
    ASSUME TypeOK, NEW t \in TxIds, SelectorMoves(t)
    PROVE  /\ \A u \in TxIds \ {t} : sel'[u] = sel[u] /\ picked'[u] = picked[u]
           /\ UNCHANGED <<scan, status, released, vault>>
           /\ robbed \subseteq robbed'
  <1>1. CASE ConcurrencyCheck(t)
    BY <1>1 DEF ConcurrencyCheck, TypeOK
  <1>2. CASE ~ConcurrencyCheck(t)
    BY <1>2 DEF SelectorMoves, Select, OpenIterator, IteratorFails, Exhausted, GiveBack, Retry,
                Advance, SkipOther, LockObtained, LockRefused, Frees, TypeOK
  <1> QED
    BY <1>1, <1>2

\* No step leaves a working state ill-formed, with or without the collector.
LEMMA WorkingStep ==
    ASSUME WInv, [Next]_vars
    PROVE  WorkingOK' /\ NothingInHand'
  <1> USE DEF WorkingOK, NothingInHand
  <1>1. ASSUME NEW t \in TxIds, SelectorMoves(t)
        PROVE  WorkingOK' /\ NothingInHand'
    <2>1. sel'[t].pc \in Working =>
              /\ t \notin released /\ status[t] = "unknown"
              /\ sel'[t].attempt < NumRetry /\ sel'[t].selections < MaxSelections
      <3>1. CASE Select(t)
        <4>1. sel'[t].attempt = 0 /\ sel'[t].selections = sel[t].selections
          BY <3>1, SelectorAfter DEF WInv
        <4>2. 0 < NumRetry
          BY SelectionAssumption
        <4> QED
          BY <3>1, <4>1, <4>2 DEF Select
      <3>2. CASE GiveBack(t)
        <4>1. sel[t].pc \in Working
          BY <3>2 DEF GiveBack, Working
        <4>2. /\ sel'[t].attempt = sel[t].attempt + 1 /\ sel'[t].selections = sel[t].selections
              /\ sel'[t].pc = IF sel'[t].attempt >= NumRetry THEN "failed" ELSE "open"
          BY <3>2, SelectorAfter DEF WInv
        <4>3. sel[t].attempt + 1 \in Int /\ NumRetry \in Int
          BY SelectorFields, SelectionAssumption DEF WInv
        <4> QED
          BY <4>1, <4>2, <4>3 DEF Working, WInv
      <3>3. CASE ~Select(t) /\ ~GiveBack(t)
        <4>1. sel[t].pc \in Working
          BY <1>1, <3>3 DEF SelectorMoves, OpenIterator, IteratorFails, Exhausted, ConcurrencyCheck,
                            Advance, SkipOther, LockObtained, LockRefused, Working
        <4> QED
          BY <1>1, <3>3, <4>1, SelectorAfter DEF SelectorMoves, Working, WInv
      <3> QED
        BY <3>1, <3>2, <3>3
    <2>2. /\ sel'[t].pc \in {"idle", "open", "selected", "failed"} => sel'[t].toBeSpent = {}
          /\ sel'[t].outcome = "iterator" => sel'[t].pc = "failed"
      <3>1. sel[t].pc # "failed"
        BY <1>1 DEF SelectorMoves, Select, OpenIterator, IteratorFails, Exhausted, ConcurrencyCheck, GiveBack,
                    Advance, SkipOther, LockObtained, LockRefused
      <3> QED
        BY <1>1, <3>1, SelectorAfter DEF SelectorMoves, Select, WInv
    <2> QED
      BY <1>1, <2>1, <2>2, OneSelectorMoves DEF WInv
  <1>2. ASSUME NEW t \in TxIds, TransactionMoves(t)
        PROVE  WorkingOK' /\ NothingInHand'
    BY <1>2 DEF TransactionMoves, Submit, BecomesValid, BecomesInvalid, Release, Working,
                WInv, TypeOK, LockerTypeOK
  <1>3. CASE LockerStep
    BY <1>3, LockerStepFrame DEF WInv
  <1>4. CASE UNCHANGED vars
    BY <1>4 DEF vars, WInv
  <1> QED
    BY <1>1, <1>2, <1>3, <1>4, Steps DEF WInv

\* Locks and picked tokens: the heart of the argument.
LEMMA LocksStep ==
    ASSUME IInv, [Next]_vars
    PROVE  HoldsItsLocks' /\ PickedOnce' /\ NoOrphanLock'
  <1> USE DEF IInv
  <1>1. ASSUME NEW t \in TxIds, SelectorMoves(t)
        PROVE  HoldsItsLocks' /\ PickedOnce' /\ NoOrphanLock'
    <2> USE OneSelectorMoves
    <2>1. \A u \in TxIds : Pending(u)' <=> Pending(u)
      BY <1>1 DEF Pending
    <2>2. CASE GiveBack(t)
      <3>1. /\ sel'[t].toBeSpent = {} /\ picked' = picked
            /\ sel'[t].outcome = "iterator" <=> sel[t].outcome = "iterator"
            /\ \A k \in Tokens : locked'[k] = IF k \in sel[t].toBeSpent THEN NoEntry ELSE locked[k]
            /\ robbed' = robbed \cup (Losers(sel[t].toBeSpent) \ {t})
        <4>1. sel[t].outcome # "iterator"
          BY <2>2 DEF GiveBack, NothingInHand
        <4> QED
          BY <2>2, <4>1, SelectorAfter DEF GiveBack, Frees, UnlockIDs
      <3>2. PickedOnce'
        BY <1>1, <3>1 DEF PickedOnce
      <3>3. ASSUME NEW u \in TxIds \ robbed', Pending(u), NEW k \in picked'[u] \cup sel'[u].toBeSpent
            PROVE  locked'[k].tx = u
        <4>1. u \notin robbed /\ k \in picked[u] \cup sel[u].toBeSpent /\ k \in Tokens
          BY <1>1, <3>1, <3>3, SelectorFields DEF TypeOK
        <4>2. locked[k].tx = u
          BY <3>3, <4>1 DEF HoldsItsLocks
        <4>3. CASE u = t
          BY <3>1, <3>3, <4>1, <4>2, <4>3 DEF PickedOnce
        <4>4. CASE u # t
          <5>1. u \notin Losers(sel[t].toBeSpent)
            BY <3>1, <3>3, <4>4
          <5>2. k \notin sel[t].toBeSpent
            BY <3>3, <4>2, <5>1 DEF Losers, Pending
          <5> QED
            BY <3>1, <4>1, <4>2, <5>2
        <4> QED
          BY <4>3, <4>4
      <3>4. HoldsItsLocks'
        BY <2>1, <3>3 DEF HoldsItsLocks
      <3>5. NoOrphanLock'
        BY <1>1, <3>1 DEF NoOrphanLock, IsLocked, NoEntry, TypeOK, LockerTypeOK
      <3> QED
        BY <3>2, <3>4, <3>5
    <2>3. ASSUME NEW k \in Tokens, LockObtained(t, k)
          PROVE  HoldsItsLocks' /\ PickedOnce' /\ NoOrphanLock'
      <3>1. /\ sel'[t].toBeSpent = sel[t].toBeSpent \cup {k} /\ picked' = picked
            /\ sel'[t].outcome = sel[t].outcome
            /\ locked' = [locked EXCEPT ![k] = [tx |-> t, stale |-> FALSE]]
            /\ robbed' = robbed
        BY <2>3, SelectorAfter DEF LockObtained, LockEntry
      <3>2. \A u \in TxIds \ robbed : Pending(u) => k \notin picked[u] \cup sel[u].toBeSpent
        BY <2>3, ObtainedIsNotReliedOn
      <3>3. Pending(t) /\ t \notin released
        BY <2>3, WorkersArePending DEF LockObtained, Working, Pending
      <3>4. PickedOnce'
        BY <1>1, <3>1, <3>2, <3>3 DEF PickedOnce
      <3>5. ASSUME NEW u \in TxIds \ robbed', Pending(u), NEW j \in picked'[u] \cup sel'[u].toBeSpent
            PROVE  locked'[j].tx = u
        <4>1. locked \in [Tokens -> [tx : TxIds \cup {Free}, stale : BOOLEAN]]
          BY DEF TypeOK, LockerTypeOK
        <4>2. j \in Tokens /\ ((u = t /\ j = k) \/ j \in picked[u] \cup sel[u].toBeSpent)
          BY <1>1, <2>3, <3>1, <3>5, SelectorFields DEF TypeOK
        <4>3. CASE j = k
          BY <3>1, <3>2, <3>5, <4>1, <4>2, <4>3
        <4>4. CASE j # k
          <5>1. locked'[j] = locked[j]
            BY <3>1, <4>1, <4>2, <4>4
          <5> QED
            BY <3>1, <3>5, <4>2, <4>4, <5>1 DEF HoldsItsLocks
        <4> QED
          BY <4>3, <4>4
      <3>6. HoldsItsLocks'
        BY <2>1, <3>5 DEF HoldsItsLocks
      <3>7. NoOrphanLock'
        <4>1. /\ locked'[k].tx = t
              /\ \A j \in Tokens \ {k} : locked'[j] = locked[j]
          BY <3>1 DEF TypeOK, LockerTypeOK
        <4>2. \A u \in TxIds : /\ sel[u].toBeSpent \subseteq sel'[u].toBeSpent
                               /\ sel'[u].outcome = sel[u].outcome
          BY <1>1, <3>1
        <4>3. k \in sel'[t].toBeSpent
          BY <3>1
        <4>4. \A j \in Tokens : locked'[j].tx # Free => locked'[j].tx \in TxIds
          BY <4>1 DEF TypeOK, LockerTypeOK
        <4> QED
          BY <1>1, <3>1, <3>3, <4>1, <4>2, <4>3, <4>4 DEF NoOrphanLock, IsLocked
      <3> QED
        BY <3>4, <3>6, <3>7
    <2>4. CASE ConcurrencyCheck(t)
      <3>1. /\ sel'[t].toBeSpent \in {{}, sel[t].toBeSpent}
            /\ picked'[t] \cup sel'[t].toBeSpent = picked[t] \cup sel[t].toBeSpent
            /\ picked'[t] \cap sel'[t].toBeSpent \subseteq picked[t] \cap sel[t].toBeSpent
            /\ sel[t].outcome # "iterator"
        <4>1. sel[t].outcome # "iterator"
          BY <2>4 DEF ConcurrencyCheck, NothingInHand
        <4> QED
          BY <2>4, <4>1, SelectorAfter DEF TypeOK
      <3>2. locked' = locked /\ robbed' = robbed
        BY <2>4 DEF ConcurrencyCheck
      <3>3. \A u \in TxIds : /\ picked'[u] \cup sel'[u].toBeSpent = picked[u] \cup sel[u].toBeSpent
                             /\ sel[u].outcome = "iterator" => sel'[u].outcome = "iterator"
        BY <1>1, <3>1
      <3>4. HoldsItsLocks'
        <4>1. ASSUME NEW u \in TxIds \ robbed, Pending(u), NEW k \in picked'[u] \cup sel'[u].toBeSpent
              PROVE  locked[k].tx = u
          <5>1. picked'[u] \cup sel'[u].toBeSpent = picked[u] \cup sel[u].toBeSpent
            BY <3>3, Zenon
          <5>2. k \in picked[u] \cup sel[u].toBeSpent
            BY <4>1, <5>1, Zenon
          <5> QED
            BY <4>1, <5>2 DEF HoldsItsLocks
        <4> QED
          BY <2>1, <3>2, <4>1 DEF HoldsItsLocks
      <3>5. PickedOnce'
        BY <1>1, <3>1, <3>2 DEF PickedOnce
      <3>6. NoOrphanLock'
        <4>1. ASSUME NEW k \in Tokens, IsLocked(k)
              PROVE  LET u == locked[k].tx IN
                     /\ u \notin released
                     /\ k \in picked'[u] \cup sel'[u].toBeSpent \/ sel'[u].outcome = "iterator"
          <5>1. PICK u \in TxIds : u = locked[k].tx
            BY <4>1 DEF IsLocked, TypeOK, LockerTypeOK
          <5>2. /\ u \notin released
                /\ k \in picked[u] \cup sel[u].toBeSpent \/ sel[u].outcome = "iterator"
            BY <4>1, <5>1 DEF NoOrphanLock
          <5>3. /\ picked'[u] \cup sel'[u].toBeSpent = picked[u] \cup sel[u].toBeSpent
                /\ sel[u].outcome = "iterator" => sel'[u].outcome = "iterator"
            BY <3>3, Zenon
          <5>4. k \in picked'[u] \cup sel'[u].toBeSpent \/ sel'[u].outcome = "iterator"
            BY <5>2, <5>3, Zenon
          <5> QED
            BY <5>1, <5>2, <5>4
        <4> QED
          BY <1>1, <3>2, <4>1 DEF NoOrphanLock, IsLocked
      <3> QED
        BY <3>4, <3>5, <3>6
    <2>5. CASE IteratorFails(t)
      <3>1. /\ sel'[t].toBeSpent = {} /\ sel'[t].outcome = "iterator"
            /\ picked' = picked /\ locked' = locked /\ robbed' = robbed
        BY <2>5, SelectorAfter DEF IteratorFails
      <3>2. \A u \in TxIds : sel'[u].toBeSpent \subseteq sel[u].toBeSpent
        BY <1>1, <3>1
      <3>3. HoldsItsLocks' /\ PickedOnce'
        BY <2>1, <3>1, <3>2 DEF HoldsItsLocks, PickedOnce
      <3>4. NoOrphanLock'
        BY <1>1, <3>1 DEF NoOrphanLock, IsLocked, TypeOK, LockerTypeOK
      <3> QED
        BY <3>3, <3>4
    <2>6. CASE /\ ~GiveBack(t) /\ ~ConcurrencyCheck(t) /\ ~IteratorFails(t)
               /\ \A k \in Tokens : ~LockObtained(t, k)
      <3>1. picked' = picked /\ robbed' = robbed /\ \A k \in Tokens : locked'[k].tx = locked[k].tx
        <4>1. CASE \E k \in Tokens : LockRefused(t, k)
          BY <4>1 DEF LockRefused, Refused, TypeOK, LockerTypeOK
        <4>2. CASE ~\E k \in Tokens : LockRefused(t, k)
          BY <1>1, <2>6, <4>2
             DEF SelectorMoves, Select, OpenIterator, Exhausted, Advance, SkipOther
        <4> QED
          BY <4>1, <4>2
      <3>2. sel'[t].toBeSpent = sel[t].toBeSpent /\ sel'[t].outcome = sel[t].outcome
        BY <1>1, <2>6, SelectorAfter DEF SelectorMoves, OpenIterator, NothingInHand
      <3>3. \A u \in TxIds : sel'[u].toBeSpent = sel[u].toBeSpent /\ sel'[u].outcome = sel[u].outcome
        BY <1>1, <3>2
      <3>4. HoldsItsLocks'
        BY <2>1, <3>1, <3>3, SelectorFields DEF HoldsItsLocks, TypeOK
      <3>5. PickedOnce'
        BY <3>1, <3>3 DEF PickedOnce
      <3>6. NoOrphanLock'
        BY <1>1, <3>1, <3>3 DEF NoOrphanLock, IsLocked, TypeOK, LockerTypeOK
      <3> QED
        BY <3>4, <3>5, <3>6
    <2> QED
      BY <2>2, <2>3, <2>4, <2>5, <2>6
  <1>2. ASSUME NEW t \in TxIds, Submit(t) \/ BecomesValid(t) \/ BecomesInvalid(t)
        PROVE  HoldsItsLocks' /\ PickedOnce' /\ NoOrphanLock'
    <2>1. UNCHANGED <<locked, robbed, sel, picked, released>>
      BY <1>2 DEF Submit, BecomesValid, BecomesInvalid
    <2>2. \A u \in TxIds : Pending(u)' => Pending(u)
      BY <1>2, <2>1 DEF Submit, BecomesValid, BecomesInvalid, Pending, TypeOK, LockerTypeOK
    <2> QED
      BY <2>1, <2>2 DEF HoldsItsLocks, PickedOnce, NoOrphanLock, IsLocked
  <1>3. ASSUME NEW t \in TxIds, Release(t)
        PROVE  HoldsItsLocks' /\ PickedOnce' /\ NoOrphanLock'
    <2>1. /\ UNCHANGED <<sel, picked, status, robbed>>
          /\ released' = released \cup {t}
          /\ locked' = [k \in Tokens |-> IF locked[k].tx = t THEN NoEntry ELSE locked[k]]
      BY <1>3 DEF Release, UnlockByTxID
    <2>2. \A u \in TxIds : Pending(u)' => Pending(u) /\ u # t
      BY <2>1 DEF Pending
    <2>3. HoldsItsLocks' /\ PickedOnce'
      BY <2>1, <2>2, SelectorFields DEF HoldsItsLocks, PickedOnce, TypeOK
    <2>4. NoOrphanLock'
      BY <2>1 DEF NoOrphanLock, IsLocked, NoEntry
    <2> QED
      BY <2>3, <2>4
  <1>4. CASE LockerStep
    <2>1. UNCHANGED <<status, sel, picked, released, vault>>
      BY <1>4, LockerStepFrame
    <2>2. \A u \in TxIds : Pending(u)' <=> Pending(u)
      BY <2>1 DEF Pending
    <2>3. CASE ScanRemove
      <3>1. /\ \A k \in Tokens : locked'[k] = IF k \in scan.remove THEN NoEntry ELSE locked[k]
            /\ robbed' = robbed \cup Losers(scan.remove)
        BY <2>3 DEF ScanRemove, UnlockIDs
      <3>2. ASSUME NEW u \in TxIds \ robbed', Pending(u), NEW k \in picked[u] \cup sel[u].toBeSpent
            PROVE  locked'[k].tx = u
        <4>1. u \notin robbed /\ k \in Tokens
          BY <3>1, <3>2, SelectorFields DEF TypeOK
        <4>2. locked[k].tx = u
          BY <3>2, <4>1 DEF HoldsItsLocks
        <4>3. k \notin scan.remove
          BY <3>1, <3>2, <4>2 DEF Losers, Pending
        <4> QED
          BY <3>1, <4>1, <4>2, <4>3
      <3>3. HoldsItsLocks' /\ PickedOnce'
        BY <2>1, <2>2, <3>1, <3>2 DEF HoldsItsLocks, PickedOnce
      <3>4. NoOrphanLock'
        BY <2>1, <3>1 DEF NoOrphanLock, IsLocked, NoEntry
      <3> QED
        BY <3>3, <3>4
    <2>4. CASE ~ScanRemove
      <3>1. robbed' = robbed /\ (locked' = locked \/ \E j \in Tokens : locked' = [locked EXCEPT ![j].stale = TRUE])
        BY <1>4, <2>4 DEF LockerStep, Scan, ScanStart, ScanEntry, ScanWalked, Age
      <3>2. \A j \in Tokens : locked'[j].tx = locked[j].tx
        BY <3>1 DEF TypeOK, LockerTypeOK
      <3> QED
        BY <2>1, <2>2, <3>1, <3>2, SelectorFields
           DEF HoldsItsLocks, PickedOnce, NoOrphanLock, IsLocked, TypeOK
    <2> QED
      BY <2>3, <2>4
  <1>5. CASE UNCHANGED vars
    BY <1>5 DEF vars, HoldsItsLocks, PickedOnce, NoOrphanLock, Pending, IsLocked
  <1> QED
    BY <1>1, <1>2, <1>3, <1>4, <1>5, Steps DEF TransactionMoves

\* What a selection returns is in the vault then, and so with no valid transaction,
\* and locked for no other transaction under way, unless one of them was robbed.
LEMMA PicksStep ==
    ASSUME IInv, [Next]_vars
    PROVE  SpentIsGone' /\ ExclusiveUnlessRobbed'
  <1> USE DEF IInv
  <1>1. ASSUME NEW t \in TxIds, ConcurrencyCheck(t), picked' # picked
        PROVE  SpentIsGone' /\ ExclusiveUnlessRobbed'
    <2>1. /\ sel[t].toBeSpent \subseteq vault
          /\ picked' = [picked EXCEPT ![t] = @ \cup sel[t].toBeSpent]
          /\ UNCHANGED <<status, robbed, released, vault>>
      BY <1>1 DEF ConcurrencyCheck
    <2>2. Pending(t) /\ status[t] = "unknown"
      BY <1>1, WorkersArePending DEF ConcurrencyCheck, WorkingOK, Working
    <2>3. /\ picked'[t] = picked[t] \cup sel[t].toBeSpent
          /\ \A u \in TxIds \ {t} : picked'[u] = picked[u]
      BY <2>1 DEF TypeOK
    <2>4. SpentIsGone'
      BY <2>1, <2>2, <2>3 DEF SpentIsGone
    <2>5. ASSUME NEW u \in TxIds \ {t}, Relies(u), t \notin robbed, u \notin robbed
          PROVE  sel[t].toBeSpent \cap picked[u] = {}
      <3>1. CASE status[u] = "valid"
        BY <2>1, <3>1 DEF SpentIsGone
      <3>2. CASE Pending(u)
        BY <2>2, <2>5, <3>2 DEF HoldsItsLocks
      <3> QED
        BY <2>5, <3>1, <3>2 DEF Relies, Pending, TypeOK, LockerTypeOK, Statuses
    <2>6. ExclusiveUnlessRobbed'
      <3> SUFFICES ASSUME NEW u \in TxIds, NEW v \in TxIds, u # v, Relies(u), Relies(v),
                          u \notin robbed, v \notin robbed
                   PROVE  picked'[u] \cap picked'[v] = {}
        BY <2>1 DEF ExclusiveUnlessRobbed, Relies
      <3>1. picked[u] \cap picked[v] = {}
        BY DEF ExclusiveUnlessRobbed
      <3>2. CASE u = t
        BY <2>3, <2>5, <3>1, <3>2
      <3>3. CASE v = t
        BY <2>3, <2>5, <3>1, <3>3
      <3>4. CASE u # t /\ v # t
        BY <2>3, <3>1, <3>4
      <3> QED
        BY <3>2, <3>3, <3>4
    <2> QED
      BY <2>4, <2>6
  <1>2. ASSUME picked' = picked, vault' \subseteq vault, robbed \subseteq robbed',
               \A u \in TxIds : Relies(u)' => Relies(u),
               \A u \in TxIds : status'[u] = "valid" => status[u] = "valid" \/ picked[u] \cap vault' = {}
        PROVE  SpentIsGone' /\ ExclusiveUnlessRobbed'
    BY <1>2 DEF SpentIsGone, ExclusiveUnlessRobbed
  <1>3. ASSUME NEW t \in TxIds, SelectorMoves(t), picked' = picked
        PROVE  SpentIsGone' /\ ExclusiveUnlessRobbed'
    BY <1>2, <1>3, OneSelectorMoves DEF Relies
  <1>4. ASSUME NEW t \in TxIds, SelectorMoves(t), picked' # picked
        PROVE  ConcurrencyCheck(t)
    BY <1>4 DEF SelectorMoves, Select, OpenIterator, IteratorFails, Exhausted, GiveBack,
                Advance, SkipOther, LockObtained, LockRefused
  <1>5. ASSUME NEW t \in TxIds, TransactionMoves(t)
        PROVE  SpentIsGone' /\ ExclusiveUnlessRobbed'
    <2>1. picked' = picked /\ vault' \subseteq vault /\ robbed' = robbed
      BY <1>5 DEF TransactionMoves, Submit, BecomesValid, BecomesInvalid, Release
    <2>2. \A u \in TxIds : Relies(u)' => Relies(u)
      BY <1>5 DEF TransactionMoves, Submit, BecomesValid, BecomesInvalid, Release, Relies, TypeOK, LockerTypeOK
    <2>3. \A u \in TxIds : status'[u] = "valid" => status[u] = "valid" \/ picked[u] \cap vault' = {}
      BY <1>5 DEF TransactionMoves, Submit, BecomesValid, BecomesInvalid, Release, TypeOK, LockerTypeOK
    <2> QED
      BY <1>2, <2>1, <2>2, <2>3
  <1>6. CASE LockerStep
    <2>1. robbed \subseteq robbed'
      BY <1>6 DEF LockerStep, Scan, ScanStart, ScanEntry, ScanWalked, ScanRemove, Age
    <2> QED
      BY <1>2, <1>6, <2>1, LockerStepFrame DEF Relies
  <1>7. CASE UNCHANGED vars
    BY <1>2, <1>7 DEF vars, Relies
  <1> QED
    BY <1>1, <1>3, <1>4, <1>5, <1>6, <1>7, Steps

-----------------------------------------------------------------------------
\* What a step of a selector does to what it has seen.
LEMMA AccountedStep ==
    ASSUME TypeOK, Accounted, [Next]_vars
    PROVE  Accounted'
  <1> DEFINE Sees(s, v, t) ==
                 LET left == v \cap Wanted[t]
                 IN /\ s.pc = "next" => left \subseteq s.iter \cup s.toBeSpent \cup s.missed
                    /\ s.pc = "lock" =>
                           \E k \in Tokens : /\ s.current = {k}
                                             /\ left \subseteq s.iter \cup {k} \cup s.toBeSpent \cup s.missed
                    /\ s.pc = "unlock" /\ ~s.issue => left \subseteq s.toBeSpent \cup s.missed
  <1>1. \A t \in TxIds : Sees(sel[t], vault, t)
    BY DEF Accounted
  <1>2. ASSUME NEW t \in TxIds, SelectorMoves(t)
        PROVE  Sees(sel'[t], vault, t)
    <2> USE SelectorFields DEF TypeOK
    <2>1. CASE Select(t) \/ IteratorFails(t) \/ GiveBack(t)
      <3>1. sel'[t].pc \in {"open", "failed"}
        BY <2>1, SelectorAfter DEF GiveBack
      <3> QED
        BY <3>1
    <2>2. CASE OpenIterator(t)
      <3>1. sel'[t].pc = "next" /\ sel'[t].iter = Unspent(t)
        BY <2>2 DEF OpenIterator, Selector
      <3> QED
        BY <3>1 DEF Unspent
    <2>3. CASE Exhausted(t)
      <3>1. /\ sel'[t].pc = "unlock" /\ sel[t].pc = "next" /\ sel[t].iter = {}
            /\ sel'[t].toBeSpent = sel[t].toBeSpent /\ sel'[t].missed = sel[t].missed
        BY <2>3 DEF Exhausted, Selector
      <3> QED
        BY <1>1, <3>1
    <2>4. CASE ConcurrencyCheck(t)
      <3>1. \/ sel'[t].pc = "selected"
            \/ sel'[t].pc = "unlock" /\ sel'[t].issue
        BY <2>4 DEF ConcurrencyCheck, Selector
      <3> QED
        BY <3>1
    <2>5. ASSUME NEW k \in Tokens, Advance(t, k)
          PROVE  Sees(sel'[t], vault, t)
      <3>1. /\ sel[t].pc = "next"
            /\ sel'[t].iter = sel[t].iter \ {k} /\ sel'[t].toBeSpent = sel[t].toBeSpent
            /\ \/ sel'[t].pc = "next" /\ sel'[t].missed = sel[t].missed \cup {k}
               \/ sel'[t].pc = "lock" /\ sel'[t].current = {k} /\ sel'[t].missed = sel[t].missed
        BY <2>5 DEF Advance, Selector
      <3> QED
        BY <1>1, <3>1
    <2>6. ASSUME NEW k \in Tokens, SkipOther(t, k)
          PROVE  Sees(sel'[t], vault, t)
      <3>1. /\ sel[t].pc = "next" /\ sel'[t].pc = "next" /\ k \notin Wanted[t]
            /\ sel'[t].iter = sel[t].iter \ {k} /\ sel'[t].toBeSpent = sel[t].toBeSpent
            /\ sel'[t].missed = sel[t].missed
        BY <2>6 DEF SkipOther, Selector
      <3> QED
        BY <1>1, <3>1
    <2>7. ASSUME NEW k \in Tokens, LockObtained(t, k)
          PROVE  Sees(sel'[t], vault, t)
      <3>1. /\ sel[t].pc = "lock" /\ k \in sel[t].current /\ sel'[t].pc \in {"check", "next"}
            /\ sel'[t].iter = sel[t].iter /\ sel'[t].toBeSpent = sel[t].toBeSpent \cup {k}
            /\ sel'[t].missed = sel[t].missed
        BY <2>7 DEF LockObtained, Selector
      <3> QED
        BY <1>1, <3>1
    <2>8. ASSUME NEW k \in Tokens, LockRefused(t, k)
          PROVE  Sees(sel'[t], vault, t)
      <3>1. /\ sel[t].pc = "lock" /\ k \in sel[t].current /\ sel'[t].pc = "next"
            /\ sel'[t].iter = sel[t].iter /\ sel'[t].toBeSpent = sel[t].toBeSpent
            /\ sel'[t].missed = sel[t].missed \cup {k}
        BY <2>8 DEF LockRefused, Selector
      <3> QED
        BY <1>1, <3>1
    <2> HIDE DEF Sees
    <2> QED
      BY <1>2, <2>1, <2>2, <2>3, <2>4, <2>5, <2>6, <2>7, <2>8 DEF SelectorMoves
  <1>3. ASSUME NEW t \in TxIds, SelectorMoves(t)
        PROVE  \A u \in TxIds : Sees(sel'[u], vault', u)
    <2> HIDE DEF Sees
    <2> QED
      BY <1>1, <1>2, <1>3, OneSelectorMoves
  <1>4. ASSUME UNCHANGED sel, vault' \subseteq vault
        PROVE  \A u \in TxIds : Sees(sel'[u], vault', u)
    <2>1. ASSUME NEW u \in TxIds
          PROVE  Sees(sel[u], vault', u)
      BY <1>1, <1>4
    <2> QED
      BY <1>4, <2>1
  <1>5. \A u \in TxIds : Sees(sel'[u], vault', u)
    <2> HIDE DEF Sees
    <2>1. ASSUME NEW t \in TxIds, TransactionMoves(t)
          PROVE  UNCHANGED sel /\ vault' \subseteq vault
      BY <2>1 DEF TransactionMoves, Submit, BecomesValid, BecomesInvalid, Release
    <2> QED
      BY <1>3, <1>4, <2>1, Steps, LockerStepFrame DEF vars
  <1> QED
    BY <1>5 DEF Accounted

\* Fewer tokens cover less.
LEMMA CoversLess ==
    ASSUME NEW t \in TxIds, NEW S \in SUBSET Tokens, NEW R \in SUBSET S, Covers(t, R)
    PROVE  Covers(t, S)
  <1>1. IsFiniteSet(S) /\ \A k \in S : Value[k] \in Nat
    BY SelectionAssumption, FS_Subset
  <1>2. IsFiniteSet(R) /\ \A k \in R : Value[k] \in Nat
    BY <1>1, FS_Subset
  <1>3. Sum(R) <= Sum(S)
    BY <1>1, SumMonotone DEF Sum
  <1>4. Sum(R) \in Nat /\ Sum(S) \in Nat /\ Target[t] \in Nat
    BY <1>1, <1>2, SumNat, SelectionAssumption DEF Sum
  <1> QED
    BY <1>3, <1>4 DEF Covers

\* A verdict of insufficient funds is honest, the old ones and a new one alike.
LEMMA HonestStep ==
    ASSUME TypeOK, Accounted, InsufficientIsHonest, [Next]_vars
    PROVE  InsufficientIsHonest'
  <1> SUFFICES ASSUME NEW t \in TxIds, sel'[t].outcome = "insufficient", Covers(t, vault' \cap Wanted[t])
               PROVE  FALSE
    BY DEF InsufficientIsHonest, Covers
  <1>1. vault' \subseteq vault /\ vault \subseteq Tokens
    BY Steps, LockerStepFrame, OneSelectorMoves
       DEF TransactionMoves, Submit, BecomesValid, BecomesInvalid, Release, vars, TypeOK
  <1>2. Covers(t, vault \cap Wanted[t])
    BY <1>1, CoversLess
  <1>3. sel[t].outcome # "insufficient"
    BY <1>2 DEF InsufficientIsHonest
  <1>4. SelectorMoves(t)
    BY <1>3, Steps, LockerStepFrame, OneSelectorMoves
       DEF TransactionMoves, Submit, BecomesValid, BecomesInvalid, Release, vars
  <1>5. GiveBack(t) /\ FailureOf(t) = "insufficient"
    <2> USE DEF TypeOK, Selector
    <2>1. Select(t) \/ OpenIterator(t) \/ Exhausted(t) => sel'[t].outcome = sel[t].outcome
      BY DEF Select, OpenIterator, Exhausted
    <2>2. IteratorFails(t) => sel'[t].outcome = "iterator"
      BY DEF IteratorFails
    <2>3. ConcurrencyCheck(t) => sel'[t].outcome \in {sel[t].outcome, "none"}
      BY DEF ConcurrencyCheck
    <2>4. \A k \in Tokens : Advance(t, k) \/ SkipOther(t, k) => sel'[t].outcome = sel[t].outcome
      BY DEF Advance, SkipOther
    <2>5. \A k \in Tokens : LockObtained(t, k) \/ LockRefused(t, k) => sel'[t].outcome = sel[t].outcome
      BY DEF LockObtained, LockRefused
    <2>6. GiveBack(t) => sel'[t].outcome \in {sel[t].outcome, FailureOf(t)}
      BY DEF GiveBack, Retry
    <2> QED
      BY <1>3, <1>4, <2>1, <2>2, <2>3, <2>4, <2>5, <2>6 DEF SelectorMoves
  <1>6. sel[t].pc = "unlock" /\ ~sel[t].issue /\ ~Covers(t, sel[t].toBeSpent \cup sel[t].missed)
    BY <1>5 DEF GiveBack, FailureOf
  <1>7. vault \cap Wanted[t] \subseteq sel[t].toBeSpent \cup sel[t].missed
    BY <1>6 DEF Accounted
  <1> QED
    BY <1>2, <1>6, <1>7, CoversLess, SelectorFields

\* The part of the invariant that needs no assumption on the collector.
LEMMA WInvHolds == Spec => []WInv
  <1>1. Init => WInv
    BY InitialState DEF IInv, WInv
  <1>2. WInv /\ [Next]_vars => WInv'
    BY TypeStep, WorkingStep DEF WInv
  <1> QED
    BY <1>1, <1>2, PTL DEF Spec

\* Variables keep their types: attempts and selections stay within their bounds.
THEOREM SelectionTypeOK == Spec => []TypeOK
  BY WInvHolds, PTL DEF WInv

\* The whole invariant.
LEMMA IInvHolds == Spec => []IInv
  <1>1. Init => IInv
    BY InitialState
  <1>2. ASSUME IInv, [Next]_vars
        PROVE  IInv'
    <2>1. WInv
      BY <1>2 DEF IInv, WInv
    <2>2. TypeOK' /\ WorkingOK' /\ NothingInHand'
      BY <1>2, <2>1, TypeStep, WorkingStep DEF WInv
    <2>3. HoldsItsLocks' /\ PickedOnce' /\ NoOrphanLock'
      BY <1>2, LocksStep
    <2>4. SpentIsGone' /\ ExclusiveUnlessRobbed'
      BY <1>2, PicksStep
    <2> QED
      BY <2>2, <2>3, <2>4 DEF IInv
  <1> QED
    BY <1>1, <1>2, PTL DEF Spec

\* A selection that reports insufficient funds is right: what the vault held of
\* the tokens it wants, those others had locked included, did not cover the target
\* (selector.selectByID). This does not depend on locks, with a collector or without.
THEOREM InsufficientFundsAreReal == Spec => []InsufficientIsHonest
  <1> DEFINE Inv == TypeOK /\ Accounted /\ InsufficientIsHonest
  <1>1. Init => Accounted /\ InsufficientIsHonest
    BY DEF Init, NewSelector, Accounted, InsufficientIsHonest
  <1>2. TypeOK /\ Accounted /\ InsufficientIsHonest /\ [Next]_vars => Accounted' /\ InsufficientIsHonest'
    BY AccountedStep, HonestStep
  <1> QED
    BY <1>1, <1>2, SelectionTypeOK, PTL DEF Spec

\* Two transactions are given one token only if one of them lost a lock while it was
\* under way, to the collector or to the give-back of a selector that had lost one
\* itself; however many selectors compete and however often they retry, fail or are
\* released (selector.selectByID, locker.Lock, UnlockIDs, UnlockByTxID, scan).
THEOREM TokensAreExclusive == Spec => []ExclusiveUnlessRobbed
  BY IInvHolds, PTL DEF IInv

\* A selector that was not robbed gives back its own locks and no other
\* (selector.selectByID, locker.UnlockIDs).
THEOREM SelectorsGiveBackTheirOwn == Spec => []GivesBackItsOwn
  <1>1. IInv => GivesBackItsOwn
    BY HandIsOwn DEF GivesBackItsOwn
  <1> QED
    BY <1>1, IInvHolds, PTL

\* A lock is that of a transaction that was not released, for a token it picked or is
\* about to; or of one whose iterator failed (selector.go:119), which the collector
\* only frees once that transaction is known to the vault.
THEOREM LocksHaveOwners == Spec => []NoOrphanLock
  BY IInvHolds, PTL DEF IInv

\* A step changes the holder of a lock only when the holder is finished, is being
\* released or gives back what it could not use, when the token is on the remove list
\* of the collector, or when a robbed selector gives it back.
THEOREM LocksAreNotStolen == Spec => NoLockIsStolen
  <1> DEFINE GivesBack(u, k) == sel[u].pc = "unlock" /\ k \in sel[u].toBeSpent
             Excused(k) == LET t == locked[k].tx IN
                           \/ status[t] \in {"valid", "invalid"}
                           \/ t \in released'
                           \/ GivesBack(t, k)
                           \/ scan.section = "remove" /\ k \in scan.remove
                           \/ \E u \in robbed : GivesBack(u, k)
             Justified == \A k \in Tokens : IsLocked(k) /\ locked'[k].tx # locked[k].tx => Excused(k)
  <1>1. IInv /\ [Next]_vars => Justified
    <2> SUFFICES ASSUME IInv, [Next]_vars, NEW k \in Tokens,
                        IsLocked(k), locked'[k].tx # locked[k].tx
                 PROVE  Excused(k)
      OBVIOUS
    <2> USE DEF IInv, TypeOK, LockerTypeOK
    <2>1. ASSUME NEW t \in TxIds, GiveBack(t)
          PROVE  GivesBack(t, k) /\ (t \in robbed \/ locked[k].tx = t)
      <3>1. sel[t].pc = "unlock" /\ k \in sel[t].toBeSpent
        BY <2>1 DEF GiveBack, Frees, UnlockIDs
      <3> QED
        BY <3>1, HandIsOwn
    <2>2. ASSUME NEW t \in TxIds, NEW j \in Tokens, LockObtained(t, j)
          PROVE  status[locked[k].tx] = "invalid"
      <3>1. j = k
        BY <2>2 DEF LockObtained, LockEntry
      <3> QED
        BY <2>2, <3>1 DEF LockObtained, MayObtain, StatusResults
    <2>3. ASSUME NEW t \in TxIds, Release(t)
          PROVE  locked[k].tx = t /\ t \in released'
      BY <2>3 DEF Release, UnlockByTxID
    <2>4. ASSUME ScanRemove
          PROVE  scan.section = "remove" /\ k \in scan.remove
      BY <2>4 DEF ScanRemove, UnlockIDs
    <2>5. CASE /\ ~\E t \in TxIds : GiveBack(t) \/ Release(t) \/ \E j \in Tokens : LockObtained(t, j)
               /\ ~ScanRemove
      <3>1. ASSUME NEW t \in TxIds, NEW j \in Tokens, LockRefused(t, j)
            PROVE  FALSE
        BY <3>1 DEF LockRefused, Refused
      <3>2. ASSUME NEW j \in Tokens, Age(j)
            PROVE  FALSE
        BY <3>2 DEF Age
      <3>3. UNCHANGED locked => FALSE
        OBVIOUS
      <3>4. ASSUME NEW t \in TxIds, SelectorMoves(t) \/ TransactionMoves(t)
            PROVE  UNCHANGED locked \/ \E j \in Tokens : LockRefused(t, j)
        BY <2>5, <3>4
           DEF SelectorMoves, TransactionMoves, Select, OpenIterator, IteratorFails, Exhausted,
               ConcurrencyCheck, Advance, SkipOther, Submit, BecomesValid, BecomesInvalid
      <3>5. LockerStep => UNCHANGED locked \/ \E j \in Tokens : Age(j)
        BY <2>5 DEF LockerStep, Scan, ScanStart, ScanEntry, ScanWalked
      <3>6. Next \/ UNCHANGED vars
        OBVIOUS
      <3> QED
        BY <3>1, <3>2, <3>3, <3>4, <3>5, <3>6, Steps DEF vars
    <2> QED
      BY <2>1, <2>2, <2>3, <2>4, <2>5
  <1> QED
    BY <1>1, IInvHolds, PTL DEF Spec, NoLockIsStolen
=============================================================================
