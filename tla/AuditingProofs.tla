---------------------------- MODULE AuditingProofs ----------------------------
(***************************************************************************)
(* Proofs about an auditor, for any requests, enrollment ids, limit and       *)
(* number of crashes: who holds the locks on enrollment ids, and what the      *)
(* records say of the outcome of a request.                                  *)
(***************************************************************************)
EXTENDS Auditing, FoldTheorems, SequenceTheorems, FiniteSetTheorems, TLAPS

\* Between the registration of its anchor and the first release, a view has an
\* entry in the table of locks, and nobody else has.
Holding == {"lock", "check", "append", "subscribe", "release", "refused"}

AnchorsOK == anchors = {t \in TxIds : view[t] \in Holding}

\* A view that waits for a mutex has not obtained the last one.
AcquiredOK ==
    \A t \in TxIds :
        /\ view[t] = "idle" => acquired[t] = 0
        /\ view[t] = "lock" => acquired[t] < Len(LockOrder[t])

LocksInv ==
    /\ view \in [TxIds -> Labels]
    /\ acquired \in [TxIds -> Nat]
    /\ AnchorsOK
    /\ AcquiredOK
    /\ LocksFollowViews

\* What a view is about to append is not there yet; what it has appended, and
\* what it signed, is.
Before == {"idle", "lock", "check", "append"}

AppendedOnce ==
    \A t \in TxIds : view[t] \in Before =>
        \A r \in Range(movements) \cup Range(transactions) : r.tx # t

AppendedBeforeSigned ==
    \A t \in TxIds : view[t] \in {"subscribe", "release"} \/ t \in approved =>
        \E r \in Range(transactions) : r.tx = t

\* An outcome is one, and whoever reports it knows it from the network.
OutcomesAreFinal ==
    /\ settled \cap rejected = {}
    /\ notices \subseteq settled \cup rejected
    /\ restore.toBeUpdated \subseteq settled \cup rejected

\* All records of a transaction have one status, which the network agrees with.
Agrees(r) ==
    /\ r.status = "Confirmed" => r.tx \in settled
    /\ r.status = "Deleted" => r.tx \in rejected

OneStatus ==
    \A r, x \in Range(movements) \cup Range(transactions) : r.tx = x.tx => r.status = x.status

\* A transaction with movements has transaction records as well.
NoLoneMovements ==
    \A m \in Range(movements) : \E r \in Range(transactions) : r.tx = m.tx

StatusInv ==
    /\ view \in [TxIds -> Labels]
    /\ movements \in Seq(MovementRecord)
    /\ transactions \in Seq(TransactionRecord)
    /\ "toBeUpdated" \in DOMAIN restore
    /\ AppendedOnce
    /\ AppendedBeforeSigned
    /\ OutcomesAreFinal
    /\ \A r \in Range(movements) \cup Range(transactions) : Agrees(r)
    /\ OneStatus
    /\ NoLoneMovements

-----------------------------------------------------------------------------
\* What a view holds, without a case distinction.
HoldsAll == {"check", "append", "subscribe", "release", "refused"}
HoldsNone == {"idle", "signed", "failed", "done"}

\* The locks of a view that holds them.
LEMMA HeldByView ==
    ASSUME NEW t \in TxIds
    PROVE  /\ view[t] = "lock" => HeldBy(t) = {LockOrder[t][i] : i \in 1 .. acquired[t]}
           /\ view[t] \in HoldsAll => HeldBy(t) = Range(LockOrder[t])
           /\ view[t] \in HoldsNone => HeldBy(t) = {}
  BY DEF HeldBy, HoldsAll, HoldsNone

\* The same in the next state.
LEMMA HeldByViewNext ==
    ASSUME NEW t \in TxIds
    PROVE  /\ view'[t] = "lock" => HeldBy(t)' = {LockOrder[t][i] : i \in 1 .. acquired'[t]}
           /\ view'[t] \in HoldsAll => HeldBy(t)' = Range(LockOrder[t])
           /\ view'[t] \in HoldsNone => HeldBy(t)' = {}
  BY DEF HeldBy, HoldsAll, HoldsNone

\* The enrollment ids of a request, counted.
LEMMA LockOrderRange ==
    ASSUME NEW t \in TxIds
    PROVE  /\ Len(LockOrder[t]) \in Nat
           /\ Range(LockOrder[t]) = {LockOrder[t][i] : i \in 1 .. Len(LockOrder[t])}
           /\ LockOrder[t] = << >> <=> Len(LockOrder[t]) = 0
           /\ LockOrder[t] = << >> => Range(LockOrder[t]) = {}
  <1>1. LockOrder[t] \in Seq(EnrollmentIDs)
    BY StreamsAssumption
  <1>2. 1 .. 0 = {}
    OBVIOUS
  <1> QED
    BY <1>1, <1>2 DEF Range

\* A step of one view that keeps what every view holds.
LEMMA KeepsLocks ==
    ASSUME LocksInv, NEW t \in TxIds, NEW l \in Labels, Goto(t, l),
           UNCHANGED <<locked, anchors, acquired>>,
           \/ view[t] \in HoldsAll /\ l \in HoldsAll
           \/ view[t] \in {"signed", "failed", "done"} /\ l \in {"signed", "failed", "done"}
    PROVE  LocksInv'
  <1>1. view' \in [TxIds -> Labels] /\ acquired' \in [TxIds -> Nat]
    BY DEF LocksInv, Goto
  <1>2. \A u \in TxIds : view'[u] = IF u = t THEN l ELSE view[u]
    BY DEF LocksInv, Goto
  <1>3. AnchorsOK'
    BY <1>2 DEF LocksInv, AnchorsOK, Holding, HoldsAll
  <1>4. AcquiredOK'
    BY <1>2 DEF LocksInv, AcquiredOK, HoldsAll
  <1>5. ASSUME NEW u \in TxIds
        PROVE  HeldBy(u)' = HeldBy(u)
    BY <1>2 DEF HeldBy, HoldsAll
  <1>6. LocksFollowViews'
    BY <1>5 DEF LocksInv, LocksFollowViews
  <1> QED
    BY <1>1, <1>3, <1>4, <1>6 DEF LocksInv

\* A release, the first or a later one, by the view of t.
LEMMA ReleasesLocks ==
    ASSUME LocksInv, NEW t \in TxIds, NEW l \in {"signed", "failed", "done"}, Goto(t, l),
           ReleaseLocks(t), UNCHANGED acquired,
           view[t] \in {"append", "release", "refused", "signed", "failed"}
    PROVE  LocksInv'
  <1>1. view' \in [TxIds -> Labels] /\ acquired' \in [TxIds -> Nat]
    BY DEF LocksInv, Goto, Labels
  <1>2. \A u \in TxIds : view'[u] = IF u = t THEN l ELSE view[u]
    BY DEF LocksInv, Goto
  <1>3. AnchorsOK'
    BY <1>2 DEF LocksInv, AnchorsOK, Holding, ReleaseLocks
  <1>4. AcquiredOK'
    BY <1>2 DEF LocksInv, AcquiredOK
  <1>5. ASSUME NEW u \in TxIds, u # t
        PROVE  HeldBy(u)' = HeldBy(u)
    BY <1>2, <1>5 DEF HeldBy
  <1>6. HeldBy(t)' = {}
    BY <1>2, HeldByViewNext DEF HoldsNone
  <1>7. locked' = locked \ HeldBy(t)
    <2>1. CASE view[t] \in HoldsAll
      <3>1. t \in anchors
        BY <2>1 DEF LocksInv, AnchorsOK, Holding, HoldsAll
      <3> QED
        BY <2>1, <3>1, HeldByView DEF ReleaseLocks
    <2>2. CASE view[t] \in {"signed", "failed"}
      <3>1. t \notin anchors
        BY <2>2 DEF LocksInv, AnchorsOK, Holding
      <3> QED
        BY <2>2, <3>1, HeldByView DEF ReleaseLocks, HoldsNone
    <2> QED
      BY <2>1, <2>2 DEF HoldsAll
  <1>8. LocksFollowViews'
    <2>1. ASSUME NEW e
          PROVE  e \in locked' <=> \E u \in TxIds : e \in HeldBy(u)'
      BY <1>5, <1>6, <1>7 DEF LocksInv, LocksFollowViews
    <2> QED
      BY <2>1, <1>5, <1>6 DEF LocksInv, LocksFollowViews
  <1> QED
    BY <1>1, <1>3, <1>4, <1>8 DEF LocksInv

\* No locks are held at first.
LEMMA LocksInit == Init => LocksInv
  BY HeldByView
     DEF Init, DBInit, LocksInv, Labels, AnchorsOK, Holding, AcquiredOK, LocksFollowViews, HoldsNone

\* An audit that starts holds no lock.
LEMMA AuditKeepsLocks ==
    ASSUME LocksInv, NEW t \in TxIds, Audit(t)
    PROVE  LocksInv'
  <1> DEFINE l == IF LockOrder[t] = << >> THEN "check" ELSE "lock"
  <1>1. view' \in [TxIds -> Labels] /\ acquired' \in [TxIds -> Nat]
    BY DEF LocksInv, Audit, Goto, Labels
  <1>2. \A u \in TxIds : view'[u] = IF u = t THEN l ELSE view[u]
    BY DEF LocksInv, Audit, Goto
  <1>3. view[t] = "idle" /\ acquired[t] = 0 /\ acquired' = acquired /\ locked' = locked
    BY DEF Audit, LocksInv, AcquiredOK
  <1>4. AnchorsOK'
    BY <1>2 DEF LocksInv, AnchorsOK, Holding, Audit, RegisterAnchor
  <1>5. AcquiredOK'
    BY <1>2, <1>3, LockOrderRange DEF LocksInv, AcquiredOK
  <1>6. ASSUME NEW u \in TxIds
        PROVE  HeldBy(u)' = HeldBy(u)
    <2>1. CASE u # t
      BY <1>2, <1>3, <2>1 DEF HeldBy
    <2>2. HeldBy(t) = {}
      BY <1>3, HeldByView DEF HoldsNone
    <2>3. view'[t] = l /\ acquired'[t] = 0
      BY <1>2, <1>3
    <2>4. HeldBy(t)' = {}
      <3>1. CASE LockOrder[t] = << >>
        <4>1. HeldBy(t)' = Range(LockOrder[t])
          BY <2>3, <3>1, HeldByViewNext DEF HoldsAll
        <4> QED
          BY <3>1, <4>1, LockOrderRange
      <3>2. CASE LockOrder[t] # << >>
        <4>1. HeldBy(t)' = {LockOrder[t][i] : i \in 1 .. acquired'[t]}
          BY <2>3, <3>2, HeldByViewNext
        <4> QED
          BY <2>3, <4>1
      <3> QED
        BY <3>1, <3>2
    <2> QED
      BY <2>1, <2>2, <2>4
  <1>7. LocksFollowViews'
    BY <1>3, <1>6 DEF LocksInv, LocksFollowViews
  <1> QED
    BY <1>1, <1>4, <1>5, <1>7 DEF LocksInv

\* A view acquires the lock it waits for.
LEMMA AcquireKeepsLocks ==
    ASSUME LocksInv, NEW t \in TxIds, AcquireNext(t)
    PROVE  LocksInv'
  <1> DEFINE n == acquired[t] + 1
             e == LockOrder[t][n]
  <1>1. /\ view[t] = "lock" /\ acquired[t] \in Nat /\ n <= Len(LockOrder[t])
        /\ e \notin locked /\ locked' = locked \cup {e} /\ anchors' = anchors
        /\ acquired' = [acquired EXCEPT ![t] = n]
        /\ IF n = Len(LockOrder[t]) THEN Goto(t, "check") ELSE view' = view
    BY LockOrderRange DEF AcquireNext, LockEID, LocksInv, AcquiredOK
  <1>2. view' \in [TxIds -> Labels] /\ acquired' \in [TxIds -> Nat]
    BY <1>1 DEF LocksInv, Goto, Labels
  <1>3. /\ \A u \in TxIds : acquired'[u] = IF u = t THEN n ELSE acquired[u]
        /\ \A u \in TxIds : u # t => view'[u] = view[u]
        /\ view'[t] = IF n = Len(LockOrder[t]) THEN "check" ELSE "lock"
    BY <1>1 DEF LocksInv, Goto
  <1> HIDE DEF e
  <1>4. AnchorsOK'
    BY <1>1, <1>3 DEF LocksInv, AnchorsOK, Holding
  <1>5. AcquiredOK'
    BY <1>1, <1>3, LockOrderRange DEF LocksInv, AcquiredOK
  <1>6. ASSUME NEW u \in TxIds, u # t
        PROVE  HeldBy(u)' = HeldBy(u)
    BY <1>3, <1>6 DEF HeldBy
  <1>7. HeldBy(t)' = HeldBy(t) \cup {e}
    <2>1. HeldBy(t) = {LockOrder[t][i] : i \in 1 .. acquired[t]}
      BY <1>1, HeldByView
    <2>2. HeldBy(t)' = {LockOrder[t][i] : i \in 1 .. n}
      <3>1. CASE n = Len(LockOrder[t])
        BY <1>3, <3>1, HeldByViewNext, LockOrderRange DEF HoldsAll
      <3>2. CASE n # Len(LockOrder[t])
        BY <1>3, <3>2, HeldByViewNext
      <3> QED
        BY <3>1, <3>2
    <2>3. 1 .. n = (1 .. acquired[t]) \cup {n}
      BY <1>1
    <2> QED
      BY <2>1, <2>2, <2>3 DEF e
  <1>8. \A u \in TxIds : HeldBy(u) \subseteq locked
    BY DEF LocksInv, LocksFollowViews
  <1>9. LocksFollowViews'
    <2>1. ASSUME NEW x
          PROVE  x \in locked' <=> \E u \in TxIds : x \in HeldBy(u)'
      BY <1>1, <1>6, <1>7 DEF LocksInv, LocksFollowViews
    <2>2. ASSUME NEW u \in TxIds, NEW v \in TxIds, u # v
          PROVE  HeldBy(u)' \cap HeldBy(v)' = {}
      BY <1>1, <1>6, <1>7, <1>8, <2>2 DEF LocksInv, LocksFollowViews
    <2> QED
      BY <2>1, <2>2 DEF LocksFollowViews
  <1> QED
    BY <1>2, <1>4, <1>5, <1>9 DEF LocksInv

\* A crash gives up all locks and all views together.
LEMMA CrashKeepsLocks ==
    ASSUME LocksInv, Crash
    PROVE  LocksInv'
  <1>1. /\ view' \in [TxIds -> Labels] /\ acquired' = acquired
        /\ \A u \in TxIds : view'[u] = IF view[u] = "idle" THEN "idle" ELSE "done"
    BY DEF LocksInv, Crash, Labels
  <1>2. \A u \in TxIds : HeldBy(u)' = {}
    BY <1>1, HeldByViewNext DEF HoldsNone
  <1>3. locked' = {} /\ anchors' = {}
    BY DEF Crash
  <1> QED
    BY <1>1, <1>2, <1>3 DEF LocksInv, AnchorsOK, Holding, AcquiredOK, LocksFollowViews

\* Every step keeps the locks with their views.
LEMMA LocksStep ==
    ASSUME LocksInv, [Next]_vars
    PROVE  LocksInv'
  <1>1. ASSUME UNCHANGED <<view, acquired, locked, anchors>>
        PROVE  LocksInv'
    BY <1>1, ZenonT(60) DEF LocksInv, AnchorsOK, AcquiredOK, LocksFollowViews, HeldBy
  <1>2. ASSUME NEW t \in TxIds, CheckLimits(t)
        PROVE  LocksInv'
    <2>1. CASE WithinLimit(t)
      BY <1>2, <2>1, KeepsLocks DEF CheckLimits, dbVars, Labels, HoldsAll
    <2>2. CASE ~WithinLimit(t)
      BY <1>2, <2>2, KeepsLocks DEF CheckLimits, dbVars, Labels, HoldsAll
    <2> QED
      BY <2>1, <2>2
  <1>3. ASSUME NEW t \in TxIds, AppendRecords(t)
        PROVE  LocksInv'
    <2>1. CASE HasSingleSenders(t)
      BY <1>3, <2>1, KeepsLocks DEF AppendRecords, Labels, HoldsAll
    <2>2. CASE ~HasSingleSenders(t)
      BY <1>3, <2>2, ReleasesLocks DEF AppendRecords
    <2> QED
      BY <2>1, <2>2
  <1>4. ASSUME NEW t \in TxIds, Subscribe(t)
        PROVE  LocksInv'
    BY <1>4, KeepsLocks DEF Subscribe, dbVars, Labels, HoldsAll
  <1>5. ASSUME NEW t \in TxIds, ReleaseAndSign(t)
        PROVE  LocksInv'
    BY <1>5, ReleasesLocks DEF ReleaseAndSign
  <1>6. ASSUME NEW t \in TxIds, DeferredRelease(t)
        PROVE  LocksInv'
    BY <1>6, ReleasesLocks DEF DeferredRelease
  <1>7. ASSUME NEW t \in TxIds, Settle(t) \/ Reject(t) \/ OnStatusChange(t)
        PROVE  LocksInv'
    BY <1>1, <1>7 DEF Settle, Reject, OnStatusChange, dbVars, viewVars
  <1>8. ASSUME RestoreStep
        PROVE  LocksInv'
    BY <1>1, <1>8
       DEF RestoreStep, RestoreRead, RestoreUpdate, RestoreSubscribe, RestoreNextPhase, dbVars, viewVars
  <1>9. CASE UNCHANGED vars
    BY <1>1, <1>9 DEF vars
  <1> QED
    BY <1>2, <1>3, <1>4, <1>5, <1>6, <1>7, <1>8, <1>9, AuditKeepsLocks, AcquireKeepsLocks,
       CrashKeepsLocks
       DEF Next, ViewStep

\* The mutexes of the enrollment ids are locked exactly by the views that are
\* between their Audit and their first release, and no two of these share one,
\* in spite of the second releases and of crashes.
THEOREM LocksAreOfViews == Spec => []LocksFollowViews
  <1>1. LocksInv => LocksFollowViews
    BY DEF LocksInv
  <1> QED
    BY <1>1, LocksInit, LocksStep, PTL DEF Spec

-----------------------------------------------------------------------------
\* What Append adds to the store: pending records of the request.
NewMovements(t) == SendMovements[t] \o ReceivedMovements[t]
NewTransactions(t) == Timestamped(TransactionRecords[t])

\* The clock of the database is a natural number.
LEMMA NowIsNat ==
    ASSUME transactions \in Seq(TransactionRecord)
    PROVE  Now \in Nat
  <1> DEFINE D == 1 .. Len(transactions)
             S == {r.tx : r \in Range(transactions)}
             f == [i \in D |-> transactions[i].tx]
  <1>1. Len(transactions) \in Nat /\ Range(transactions) = {transactions[i] : i \in D}
    BY DEF Range
  <1>2. IsFiniteSet(D)
    BY <1>1, FS_Interval
  <1>3. \A y \in S : \E i \in D : f[i] = y
    BY <1>1
  <1>4. IsFiniteSet(S)
    <2>1. f \in Surjection(D, S)
      BY <1>1, <1>3 DEF Surjection
    <2> HIDE DEF f, D, S
    <2> QED
      BY <1>2, <2>1, FS_Surjection
  <1> QED
    BY <1>4, FS_CardinalityType DEF Now

\* What an audit appends are pending movements of its transaction.
LEMMA NewMovementsAre ==
    ASSUME NEW t \in TxIds
    PROVE  /\ NewMovements(t) \in Seq(MovementRecord)
           /\ \A r \in Range(NewMovements(t)) : r.tx = t /\ r.status = "Pending"
  <1>1. SendMovements[t] \in Seq(MovementRecord) /\ ReceivedMovements[t] \in Seq(MovementRecord)
    BY RecordsAssumption
  <1>2. Range(NewMovements(t)) = Range(SendMovements[t]) \cup Range(ReceivedMovements[t])
    BY <1>1, RangeConcatenation DEF NewMovements
  <1>3. NewMovements(t) \in Seq(MovementRecord)
    BY <1>1 DEF NewMovements
  <1>4. Range(SendMovements[t]) \subseteq NetMovements(t) /\ Range(ReceivedMovements[t]) \subseteq NetMovements(t)
    BY RecordsAssumption
  <1>5. \A r \in NetMovements(t) : r.tx = t /\ r.status = "Pending"
    BY DEF NetMovements, Movement
  <1> QED
    BY <1>2, <1>3, <1>4, <1>5

\* What an audit appends are pending records of its transaction, one at least.
LEMMA NewTransactionsAre ==
    ASSUME NEW t \in TxIds, transactions \in Seq(TransactionRecord)
    PROVE  /\ NewTransactions(t) \in Seq(TransactionRecord)
           /\ \A r \in Range(NewTransactions(t)) : r.tx = t /\ r.status = "Pending"
           /\ HasSingleSenders(t) => \E r \in Range(NewTransactions(t)) : r.tx = t
  <1> DEFINE recs == TransactionRecords[t]
             n == Len(recs)
             new(i) == [recs[i] EXCEPT !.time = Now]
  <1>1. /\ recs \in Seq(TransactionRecord) /\ IsNew(t, recs)
        /\ HasSingleSenders(t) => recs # << >>
    BY RecordsAssumption
  <1>2. n \in Nat /\ DOMAIN recs = 1 .. n /\ \A i \in 1 .. n : recs[i] \in TransactionRecord
    BY <1>1
  <1>3. NewTransactions(t) = [i \in 1 .. n |-> new(i)]
    BY <1>2 DEF NewTransactions, Timestamped
  <1> HIDE DEF recs
  <1>4. ASSUME NEW i \in 1 .. n
        PROVE  new(i) \in TransactionRecord /\ new(i).tx = t /\ new(i).status = "Pending"
    BY <1>1, <1>2, NowIsNat DEF TransactionRecord, IsNew
  <1>5. NewTransactions(t) \in Seq(TransactionRecord)
    BY <1>2, <1>3, <1>4
  <1>6. Range(NewTransactions(t)) = {new(i) : i \in 1 .. n}
    BY <1>3 DEF Range
  <1>7. HasSingleSenders(t) => 1 \in 1 .. n
    BY <1>1, <1>2
  <1> HIDE DEF new
  <1> QED
    BY <1>4, <1>5, <1>6, <1>7

\* A store after SetStatus: the same records, those of t with the new status.
LEMMA StatusIsSet ==
    ASSUME NEW R, NEW store \in Seq(R), NEW t, NEW s,
           \A r \in R : [r EXCEPT !.status = s] \in R
    PROVE  /\ WithStatus(t, s, store) \in Seq(R)
           /\ Range(WithStatus(t, s, store)) =
                  {IF r.tx = t THEN [r EXCEPT !.status = s] ELSE r : r \in Range(store)}
  <1> DEFINE n == Len(store)
             new(i) == IF store[i].tx = t THEN [store[i] EXCEPT !.status = s] ELSE store[i]
  <1>1. n \in Nat /\ DOMAIN store = 1 .. n /\ \A i \in 1 .. n : store[i] \in R
    OBVIOUS
  <1>2. WithStatus(t, s, store) = [i \in 1 .. n |-> new(i)]
    BY <1>1 DEF WithStatus
  <1>3. \A i \in 1 .. n : new(i) \in R
    BY <1>1
  <1>4. Range(store) = {store[i] : i \in 1 .. n}
    BY <1>1 DEF Range
  <1>5. Range(WithStatus(t, s, store)) = {new(i) : i \in 1 .. n}
    BY <1>2 DEF Range
  <1>6. WithStatus(t, s, store) \in Seq(R)
    BY <1>1, <1>2, <1>3
  <1> QED
    BY <1>4, <1>5, <1>6

-----------------------------------------------------------------------------
Records == Range(movements) \cup Range(transactions)

\* The records are empty at first.
LEMMA StatusInit == Init => StatusInv
  <1>1. Range(<< >>) = {}
    BY DEF Range
  <1> QED
    BY <1>1
       DEF Init, DBInit, Network!Init, Idle, StatusInv, Labels, AppendedOnce, AppendedBeforeSigned,
           OutcomesAreFinal, OneStatus, NoLoneMovements

\* A step that adds no records, reports only outcomes and forgets none.
LEMMA KeepsStatus ==
    ASSUME StatusInv, UNCHANGED storeVars,
           view' \in [TxIds -> Labels],
           \A t \in TxIds : view'[t] \in Before => view[t] \in Before,
           \A t \in TxIds : view'[t] \in {"subscribe", "release"} \/ t \in approved' =>
               view[t] \in {"subscribe", "release"} \/ t \in approved,
           "toBeUpdated" \in DOMAIN restore',
           settled \subseteq settled', rejected \subseteq rejected',
           OutcomesAreFinal'
    PROVE  StatusInv'
  <1>1. movements' = movements /\ transactions' = transactions
    BY DEF storeVars
  <1>2. AppendedOnce'
    BY <1>1 DEF StatusInv, AppendedOnce
  <1>3. AppendedBeforeSigned'
    BY <1>1 DEF StatusInv, AppendedBeforeSigned
  <1>4. \A r \in Records' : Agrees(r)'
    BY <1>1 DEF StatusInv, Agrees, Records
  <1> QED
    BY <1>1, <1>2, <1>3, <1>4 DEF StatusInv, OneStatus, NoLoneMovements, Records

\* Append: the records are new, and all of them are pending.
LEMMA AppendKeepsStatus ==
    ASSUME StatusInv, NEW t \in TxIds, AppendRecords(t), HasSingleSenders(t)
    PROVE  StatusInv'
  <1>1. /\ view[t] = "append" /\ view' = [view EXCEPT ![t] = "subscribe"]
        /\ movements' = movements \o NewMovements(t)
        /\ transactions' = transactions \o NewTransactions(t)
        /\ UNCHANGED <<approved, settled, rejected, notices, restore>>
    BY DEF AppendRecords, AppendRequest, Commit, Goto, NewMovements, NewTransactions, networkVars,
           listenVars
  <1>2. /\ movements \in Seq(MovementRecord) /\ NewMovements(t) \in Seq(MovementRecord)
        /\ transactions \in Seq(TransactionRecord) /\ NewTransactions(t) \in Seq(TransactionRecord)
    BY NewMovementsAre, NewTransactionsAre DEF StatusInv
  <1>3. /\ movements' \in Seq(MovementRecord) /\ transactions' \in Seq(TransactionRecord)
        /\ Range(movements') = Range(movements) \cup Range(NewMovements(t))
        /\ Range(transactions') = Range(transactions) \cup Range(NewTransactions(t))
    BY <1>1, <1>2, RangeConcatenation
  <1>4. /\ \A r \in Range(NewMovements(t)) \cup Range(NewTransactions(t)) :
              r.tx = t /\ r.status = "Pending"
        /\ \E r \in Range(NewTransactions(t)) : r.tx = t
    BY <1>2, NewMovementsAre, NewTransactionsAre
  <1>5. \A r \in Records : r.tx # t
    BY <1>1 DEF StatusInv, AppendedOnce, Before, Records
  <1>6. view' \in [TxIds -> Labels] /\ \A u \in TxIds : view'[u] = IF u = t THEN "subscribe" ELSE view[u]
    BY <1>1 DEF StatusInv, Labels
  <1>7. AppendedOnce'
    BY <1>3, <1>4, <1>6 DEF StatusInv, AppendedOnce, Before
  <1>8. AppendedBeforeSigned'
    BY <1>1, <1>3, <1>4, <1>6 DEF StatusInv, AppendedBeforeSigned
  <1>9. OutcomesAreFinal'
    BY <1>1 DEF StatusInv, OutcomesAreFinal
  <1>10. \A r \in Records' : Agrees(r)'
    BY <1>1, <1>3, <1>4 DEF StatusInv, Agrees, Records
  <1>11. OneStatus'
    BY <1>3, <1>4, <1>5 DEF StatusInv, OneStatus, Records
  <1>12. NoLoneMovements'
    BY <1>3, <1>4 DEF StatusInv, NoLoneMovements
  <1> QED
    BY <1>1, <1>3, <1>6, <1>7, <1>8, <1>9, <1>10, <1>11, <1>12 DEF StatusInv, Records

\* SetStatus of a request whose outcome is known.
LEMMA SetStatusKeepsStatus ==
    ASSUME StatusInv, NEW t \in settled \cup rejected, SetStatus(t, Outcome(t)),
           UNCHANGED <<view, approved, settled, rejected>>,
           "toBeUpdated" \in DOMAIN restore',
           OutcomesAreFinal'
    PROVE  StatusInv'
  <1> DEFINE s == Outcome(t)
             new(r) == IF r.tx = t THEN [r EXCEPT !.status = s] ELSE r
  <1>1. s \in Statuses /\ (s = "Confirmed" => t \in settled) /\ (s = "Deleted" => t \in rejected)
    BY DEF Outcome, Statuses
  <1> HIDE DEF s
  <1>2. \A r \in MovementRecord : [r EXCEPT !.status = s] \in MovementRecord
    BY <1>1 DEF MovementRecord
  <1>3. \A r \in TransactionRecord : [r EXCEPT !.status = s] \in TransactionRecord
    BY <1>1 DEF TransactionRecord
  <1>4. /\ movements' \in Seq(MovementRecord)
        /\ Range(movements') = {new(r) : r \in Range(movements)}
    <2>1. movements \in Seq(MovementRecord) /\ movements' = WithStatus(t, s, movements)
      BY DEF StatusInv, SetStatus, s
    <2> QED
      BY <1>2, <2>1, StatusIsSet
  <1>5. /\ transactions' \in Seq(TransactionRecord)
        /\ Range(transactions') = {new(r) : r \in Range(transactions)}
    <2>1. transactions \in Seq(TransactionRecord) /\ transactions' = WithStatus(t, s, transactions)
      BY DEF StatusInv, SetStatus, s
    <2> QED
      BY <1>3, <2>1, StatusIsSet, SMTT(30)
  <1>6. Range(movements) \subseteq MovementRecord /\ Range(transactions) \subseteq TransactionRecord
    BY RangeOfSeq DEF StatusInv
  <1>7. ASSUME NEW r \in Records
        PROVE  new(r).tx = r.tx /\ new(r).status = IF r.tx = t THEN s ELSE r.status
    BY <1>6 DEF Records, MovementRecord, TransactionRecord
  <1>8. Records' = {new(r) : r \in Records}
    BY <1>4, <1>5 DEF Records
  <1> HIDE DEF new
  <1>9. AppendedOnce'
    BY <1>7, <1>8 DEF StatusInv, AppendedOnce, Records
  <1>10. AppendedBeforeSigned'
    BY <1>5, <1>7 DEF StatusInv, AppendedBeforeSigned, Records
  <1>11. \A r \in Records' : Agrees(r)'
    BY <1>1, <1>7, <1>8 DEF StatusInv, Agrees, Records
  <1>12. OneStatus'
    BY <1>7, <1>8 DEF StatusInv, OneStatus, Records
  <1>13. NoLoneMovements'
    BY <1>4, <1>5, <1>7 DEF StatusInv, NoLoneMovements, Records
  <1> QED
    BY <1>4, <1>5, <1>9, <1>10, <1>11, <1>12, <1>13 DEF StatusInv, Records

\* Every step keeps the records with the network.
LEMMA StatusStep ==
    ASSUME StatusInv, [Next]_vars
    PROVE  StatusInv'
  <1> USE DEF StatusInv, OutcomesAreFinal
  <1>1. ASSUME NEW t \in TxIds, Audit(t)
        PROVE  StatusInv'
    <2>1. view' \in [TxIds -> Labels] /\ view[t] = "idle" /\ view'[t] \in {"lock", "check"}
      BY <1>1 DEF Audit, Goto, Labels
    <2>2. \A u \in TxIds : u # t => view'[u] = view[u]
      BY <1>1 DEF Audit, Goto
    <2> QED
      BY <1>1, <2>1, <2>2, KeepsStatus DEF Audit, networkVars, listenVars, Before
  <1>2. ASSUME NEW t \in TxIds, AcquireNext(t)
        PROVE  StatusInv'
    <2>1. view' \in [TxIds -> Labels] /\ view[t] = "lock" /\ view'[t] \in {"lock", "check"}
      BY <1>2 DEF AcquireNext, Goto, Labels
    <2>2. \A u \in TxIds : u # t => view'[u] = view[u]
      BY <1>2 DEF AcquireNext, Goto
    <2> QED
      BY <1>2, <2>1, <2>2, KeepsStatus DEF AcquireNext, networkVars, listenVars, Before
  <1>3. ASSUME NEW t \in TxIds, CheckLimits(t)
        PROVE  StatusInv'
    <2>1. view' \in [TxIds -> Labels] /\ view[t] = "check" /\ view'[t] \in {"append", "refused"}
      BY <1>3 DEF CheckLimits, Goto, Labels
    <2>2. \A u \in TxIds : u # t => view'[u] = view[u]
      BY <1>3 DEF CheckLimits, Goto
    <2> QED
      BY <1>3, <2>1, <2>2, KeepsStatus DEF CheckLimits, networkVars, listenVars, dbVars, storeVars, Before
  <1>4. ASSUME NEW t \in TxIds, AppendRecords(t)
        PROVE  StatusInv'
    <2>1. CASE HasSingleSenders(t)
      BY <1>4, <2>1, AppendKeepsStatus
    <2>2. CASE ~HasSingleSenders(t)
      <3>1. view' \in [TxIds -> Labels] /\ view'[t] = "failed"
        BY <1>4, <2>2 DEF AppendRecords, Goto, Labels
      <3>2. \A u \in TxIds : u # t => view'[u] = view[u]
        BY <1>4, <2>2 DEF AppendRecords, Goto
      <3> QED
        BY <1>4, <2>2, <3>1, <3>2, KeepsStatus
           DEF AppendRecords, AppendRequest, Discard, networkVars, listenVars, Before
    <2> QED
      BY <2>1, <2>2
  <1>5. ASSUME NEW t \in TxIds, Subscribe(t)
        PROVE  StatusInv'
    <2>1. view' \in [TxIds -> Labels] /\ view[t] = "subscribe" /\ view'[t] = "release"
      BY <1>5 DEF Subscribe, Goto, Labels
    <2>2. \A u \in TxIds : u # t => view'[u] = view[u]
      BY <1>5 DEF Subscribe, Goto
    <2>3. notices' \subseteq settled \cup rejected
      BY <1>5 DEF Subscribe, SubscribeTo, IsFinal
    <2> QED
      BY <1>5, <2>1, <2>2, <2>3, KeepsStatus DEF Subscribe, networkVars, dbVars, storeVars, Before
  <1>6. ASSUME NEW t \in TxIds, ReleaseAndSign(t)
        PROVE  StatusInv'
    <2>1. view' \in [TxIds -> Labels] /\ view[t] = "release" /\ view'[t] = "signed"
      BY <1>6 DEF ReleaseAndSign, Goto, Labels
    <2>2. \A u \in TxIds : u # t => view'[u] = view[u]
      BY <1>6 DEF ReleaseAndSign, Goto
    <2> QED
      BY <1>6, <2>1, <2>2, KeepsStatus DEF ReleaseAndSign, networkVars, listenVars, Before
  <1>7. ASSUME NEW t \in TxIds, DeferredRelease(t)
        PROVE  StatusInv'
    <2>1. view' \in [TxIds -> Labels] /\ view'[t] = "done"
      BY <1>7 DEF DeferredRelease, Goto, Labels
    <2>2. \A u \in TxIds : u # t => view'[u] = view[u]
      BY <1>7 DEF DeferredRelease, Goto
    <2> QED
      BY <1>7, <2>1, <2>2, KeepsStatus DEF DeferredRelease, networkVars, listenVars, Before
  <1>8. ASSUME NEW t \in TxIds, Settle(t)
        PROVE  StatusInv'
    <2>1. settled' = settled \cup {t} /\ t \notin rejected
      BY <1>8 DEF Settle, Network!Settle
    <2> QED
      BY <1>8, <2>1, KeepsStatus DEF Settle, dbVars, storeVars, viewVars
  <1>9. ASSUME NEW t \in TxIds, Reject(t)
        PROVE  StatusInv'
    BY <1>9, KeepsStatus DEF Reject, dbVars, storeVars, viewVars
  <1>10. ASSUME NEW t \in TxIds, OnStatusChange(t)
         PROVE  StatusInv'
    BY <1>10, SetStatusKeepsStatus DEF OnStatusChange, viewVars, networkVars
  <1>11. ASSUME Crash
         PROVE  StatusInv'
    <2>1. /\ view' \in [TxIds -> Labels]
          /\ \A u \in TxIds : view'[u] = IF view[u] = "idle" THEN "idle" ELSE "done"
      BY <1>11 DEF Crash, Labels
    <2>2. "toBeUpdated" \in DOMAIN restore' /\ restore'.toBeUpdated = {}
      BY <1>11 DEF Crash, Idle
    <2> QED
      BY <1>11, <2>1, <2>2, KeepsStatus DEF Crash, networkVars, Before
  <1>12. ASSUME NEW t \in TxIds, RestoreRead(t)
         PROVE  StatusInv'
    <2>1. "toBeUpdated" \in DOMAIN restore' /\ restore'.toBeUpdated \subseteq settled \cup rejected
      BY <1>12 DEF RestoreRead, IsFinal
    <2> QED
      BY <1>12, <2>1, KeepsStatus DEF RestoreRead, dbVars, storeVars, viewVars, networkVars, listenVars
  <1>13. ASSUME NEW t \in TxIds, RestoreUpdate(t)
         PROVE  StatusInv'
    <2>1. "toBeUpdated" \in DOMAIN restore' /\ restore'.toBeUpdated \subseteq restore.toBeUpdated
      BY <1>13 DEF RestoreUpdate
    <2> QED
      BY <1>13, <2>1, SetStatusKeepsStatus DEF RestoreUpdate, viewVars, networkVars, listenVars
  <1>14. ASSUME NEW t \in TxIds, RestoreSubscribe(t)
         PROVE  StatusInv'
    <2>1. "toBeUpdated" \in DOMAIN restore' /\ restore'.toBeUpdated = restore.toBeUpdated
      BY <1>14 DEF RestoreSubscribe
    <2>2. notices' \subseteq settled \cup rejected
      BY <1>14 DEF RestoreSubscribe, SubscribeTo, IsFinal
    <2> QED
      BY <1>14, <2>1, <2>2, KeepsStatus DEF RestoreSubscribe, dbVars, storeVars, viewVars, networkVars
  <1>15. ASSUME RestoreNextPhase
         PROVE  StatusInv'
    <2>1. "toBeUpdated" \in DOMAIN restore' /\ restore'.toBeUpdated \subseteq restore.toBeUpdated
      BY <1>15 DEF RestoreNextPhase, Idle
    <2> QED
      BY <1>15, <2>1, KeepsStatus
         DEF RestoreNextPhase, dbVars, storeVars, viewVars, networkVars, listenVars
  <1>16. CASE UNCHANGED vars
    BY <1>16, KeepsStatus DEF vars, storeVars
  <1> QED
    BY <1>1, <1>2, <1>3, <1>4, <1>5, <1>6, <1>7, <1>8, <1>9, <1>10, <1>11, <1>12, <1>13, <1>14,
       <1>15, <1>16
       DEF Next, ViewStep, RestoreStep

\* The records of a request never say more than the network decided, never the
\* opposite, all say the same, and are there when the auditor has signed: however
\* listeners, restarts and reads of Restore interleave with the network.
THEOREM RecordsFollowNetwork == Spec => []StatusFollowsVault
  <1>1. ASSUME StatusInv
        PROVE  StatusFollowsVault
    <2>1. ASSUME NEW t \in TxIds
          PROVE  /\ "Confirmed" \in StatusesOf(t) => t \in settled
                 /\ "Deleted" \in StatusesOf(t) => t \in rejected
                 /\ t \in approved => StatusesOf(t) # {}
      BY <1>1 DEF StatusInv, StatusesOf, Agrees, AppendedBeforeSigned
    <2>2. ASSUME NEW r \in Range(movements) \cup Range(transactions)
          PROVE  StatusesOf(r.tx) = {r.status}
      <3>1. \A x \in Range(transactions) : x.tx = r.tx => x.status = r.status
        BY <1>1 DEF StatusInv, OneStatus
      <3>2. \E x \in Range(transactions) : x.tx = r.tx
        BY <1>1 DEF StatusInv, NoLoneMovements
      <3> QED
        BY <3>1, <3>2 DEF StatusesOf
    <2> QED
      BY <2>1, <2>2 DEF StatusFollowsVault
  <1> QED
    BY <1>1, StatusInit, StatusStep, PTL DEF Spec

-----------------------------------------------------------------------------
\* The payments of an enrollment id in a store, as PaymentsFilter selects them but for
\* their status, ...
Pays(e, typ, store) ==
    {j \in DOMAIN store : store[j].eid = e /\ store[j].type = typ /\ store[j].amount <= 0}

\* ... the last ones up to a place, those with at most w others behind them, ...
Window(e, typ, store, n, w) ==
    {j \in Pays(e, typ, store) :
        j <= n /\ Cardinality({k \in Pays(e, typ, store) : j < k /\ k <= n}) <= w}

\* ... and what those that are not deleted sum up to.
Live(store, S) == {j \in S : store[j].status # "Deleted"}

PaidIn(store, S) ==
    SumFunctionOnSet([j \in DOMAIN store |-> 0 - store[j].amount], Live(store, S))

\* A store is finite.
LEMMA StoreFacts ==
    ASSUME NEW store \in Seq(MovementRecord)
    PROVE  /\ Len(store) \in Nat /\ DOMAIN store = 1 .. Len(store) /\ IsFiniteSet(DOMAIN store)
           /\ \A i \in DOMAIN store : store[i] \in MovementRecord /\ store[i].amount \in Int
  <1>1. Len(store) \in Nat /\ DOMAIN store = 1 .. Len(store)
    OBVIOUS
  <1>2. IsFiniteSet(1 .. Len(store))
    BY <1>1, FS_Interval
  <1>3. \A i \in DOMAIN store : store[i] \in MovementRecord
    BY <1>1
  <1> QED
    BY <1>1, <1>2, <1>3 DEF MovementRecord

\* Payments are finitely many, and what is paid is a natural number.
LEMMA PaysFacts ==
    ASSUME NEW store \in Seq(MovementRecord), NEW e, NEW typ
    PROVE  /\ IsFiniteSet(Pays(e, typ, store))
           /\ \A j \in Pays(e, typ, store) : j \in DOMAIN store /\ 0 - store[j].amount \in Nat
           /\ \A n, w : Window(e, typ, store, n, w) \subseteq Pays(e, typ, store)
  <1>1. IsFiniteSet(DOMAIN store) /\ \A i \in DOMAIN store : store[i].amount \in Int
    BY StoreFacts
  <1>2. Pays(e, typ, store) \in SUBSET DOMAIN store
    BY DEF Pays
  <1>3. IsFiniteSet(Pays(e, typ, store))
    BY <1>1, <1>2, FS_Subset
  <1>4. \A j \in Pays(e, typ, store) : 0 - store[j].amount \in Nat
    BY <1>1 DEF Pays
  <1> QED
    BY <1>2, <1>3, <1>4 DEF Window

\* Less is paid by fewer payments.
LEMMA PaidLess ==
    ASSUME NEW p \in Seq(MovementRecord), NEW q \in Seq(MovementRecord), NEW e, NEW typ,
           NEW S \in SUBSET DOMAIN q, NEW T \in SUBSET Pays(e, typ, p),
           Live(q, S) \subseteq Live(p, T),
           \A j \in Live(q, S) : q[j].amount = p[j].amount
    PROVE  /\ PaidIn(q, S) \in Nat /\ PaidIn(p, T) \in Nat
           /\ PaidIn(q, S) <= PaidIn(p, T)
  <1> DEFINE f == [j \in DOMAIN q |-> 0 - q[j].amount]
             g == [j \in DOMAIN p |-> 0 - p[j].amount]
             R == Live(q, S)
             U == Live(p, T)
  <1>1. U \in SUBSET Pays(e, typ, p) /\ R \in SUBSET U /\ R \subseteq DOMAIN q
    BY DEF Live
  <1>2. IsFiniteSet(U)
    BY <1>1, PaysFacts, FS_Subset
  <1>3. \A j \in U : g[j] \in Nat
    BY <1>1, PaysFacts
  <1>4. \A j \in R : f[j] = g[j]
    BY <1>1, PaysFacts
  <1>5. PaidIn(q, S) = SumFunctionOnSet(f, R) /\ PaidIn(p, T) = SumFunctionOnSet(g, U)
    BY DEF PaidIn
  <1> HIDE DEF f, g, R, U
  <1>6. IsFiniteSet(R) /\ \A j \in R : g[j] \in Nat /\ g[j] \in Int
    BY <1>1, <1>2, <1>3, FS_Subset
  <1>7. SumFunctionOnSet(g, R) = SumFunctionOnSet(f, R)
    BY <1>4, <1>6, SumEqual
  <1>8. SumFunctionOnSet(g, R) <= SumFunctionOnSet(g, U)
    BY <1>1, <1>2, <1>3, SumMonotone
  <1>9. SumFunctionOnSet(g, R) \in Nat /\ SumFunctionOnSet(g, U) \in Nat
    BY <1>2, <1>3, <1>6, SumNat
  <1> QED
    BY <1>5, <1>7, <1>8, <1>9

\* What is paid is a number.
LEMMA PaidInType ==
    ASSUME NEW store \in Seq(MovementRecord), NEW e, NEW typ, NEW n, NEW w
    PROVE  PaidIn(store, Window(e, typ, store, n, w)) \in Nat
  <1> DEFINE S == Window(e, typ, store, n, w)
  <1>1. S \in SUBSET Pays(e, typ, store) /\ S \in SUBSET DOMAIN store
    BY DEF Window, Pays
  <1> HIDE DEF S
  <1>2. PaidIn(store, S) \in Nat
    BY <1>1, PaidLess
  <1> QED
    BY <1>2 DEF S

\* A subset of a finite set has no more elements than the set.
LEMMA FewerIsLess ==
    ASSUME NEW S, IsFiniteSet(S), NEW T \in SUBSET S
    PROVE  /\ IsFiniteSet(T) /\ Cardinality(T) \in Nat /\ Cardinality(S) \in Nat
           /\ Cardinality(T) <= Cardinality(S)
  BY FS_Subset, FS_CardinalityType

\* The payments the query of the audit view sums up are at least the last ones of the
\* store that are not deleted: the query cuts its answer after it dropped the others.
LEMMA LastAreQueried ==
    ASSUME movements \in Seq(MovementRecord), NEW e, NEW typ, NEW n \in Nat \ {0}
    PROVE  /\ Payments(e, typ, n) \in Nat
           /\ PaidIn(movements, Window(e, typ, movements, Len(movements), n - 1)) \in Nat
           /\ PaidIn(movements, Window(e, typ, movements, Len(movements), n - 1)) <= Payments(e, typ, n)
  <1> DEFINE D == DOMAIN movements
             p == PaymentsFilter(e, typ, n)
             P == Pays(e, typ, movements)
             M == {i \in D : SelectMovement(p, movements[i])}
             A == Answer(p)
             a == [i \in D |-> movements[i].amount]
             w == [i \in D |-> 0 - movements[i].amount]
             zero == [i \in D |-> 0]
             L == Live(movements, Window(e, typ, movements, Len(movements), n - 1))
  <1>1. IsFiniteSet(D) /\ D = 1 .. Len(movements) /\ Len(movements) \in Nat
    BY StoreFacts
  <1>2. ASSUME NEW i \in D
        PROVE  i \in M <=> i \in P /\ movements[i].status \in {"Pending", "Confirmed"}
    BY DEF SelectMovement, Matches, InDirection, Among, PaymentsFilter, Pays
  <1>3. IsFiniteSet(P) /\ \A i \in P : i \in D /\ w[i] \in Nat
    BY PaysFacts
  <1>4. M \in SUBSET P
    BY <1>2
  <1>5. A = {i \in M : Cardinality({j \in M : j > i}) < n}
    BY DEF Answer, PaymentsFilter
  <1>6. \A i \in D : movements[i].status \in Statuses
    BY StoreFacts DEF MovementRecord
  <1>7. L = {j \in P : /\ j <= Len(movements) /\ movements[j].status # "Deleted"
                       /\ Cardinality({k \in P : j < k /\ k <= Len(movements)}) <= n - 1}
    BY DEF Live, Window
  <1>8. ASSUME NEW j \in L
        PROVE  j \in A
    <2>1. j \in M
      BY <1>2, <1>3, <1>6, <1>7 DEF Statuses
    <2>2. {k \in M : k > j} \in SUBSET {k \in P : j < k /\ k <= Len(movements)}
      BY <1>1, <1>3, <1>4
    <2>3. IsFiniteSet({k \in P : j < k /\ k <= Len(movements)})
      BY <1>3, FS_Subset
    <2> HIDE DEF M, P
    <2>4. /\ Cardinality({k \in M : k > j}) \in Nat
          /\ Cardinality({k \in P : j < k /\ k <= Len(movements)}) \in Nat
          /\ Cardinality({k \in M : k > j}) <= Cardinality({k \in P : j < k /\ k <= Len(movements)})
      BY <2>2, <2>3, FewerIsLess
    <2>5. Cardinality({k \in P : j < k /\ k <= Len(movements)}) <= n - 1
      BY <1>7
    <2> QED
      BY <1>5, <2>1, <2>4, <2>5
  <1>9. /\ Payments(e, typ, n) = 0 - SumFunctionOnSet(a, A)
        /\ PaidIn(movements, Window(e, typ, movements, Len(movements), n - 1)) = SumFunctionOnSet(w, L)
    BY DEF Payments, SumOfAmounts, PaidIn
  <1>10. A \in SUBSET P
    BY <1>4, <1>5
  <1>11. ASSUME NEW i \in P
         PROVE  a[i] \in Int /\ zero[i] = 0 /\ zero[i] = a[i] + w[i]
    <2>1. i \in D
      BY <1>3
    <2>2. movements[i].amount \in Int
      BY <2>1, StoreFacts
    <2>3. a[i] = movements[i].amount /\ w[i] = 0 - movements[i].amount /\ zero[i] = 0
      BY <2>1
    <2> QED
      BY <2>2, <2>3
  <1> HIDE DEF D, p, P, M, A, a, w, zero, L
  <1>12. IsFiniteSet(A) /\ L \in SUBSET A
    BY <1>3, <1>8, <1>10, FS_Subset
  <1>13. \A i \in A : a[i] \in Int /\ w[i] \in Int /\ w[i] \in Nat /\ zero[i] = 0 /\ zero[i] = a[i] + w[i]
    BY <1>3, <1>10, <1>11
  <1>14. SumFunctionOnSet(zero, A) = SumFunctionOnSet(a, A) + SumFunctionOnSet(w, A)
    BY <1>12, <1>13, SumOfSums
  <1>15. SumFunctionOnSet(zero, A) = 0
    BY <1>12, <1>13, SumOfZeros
  <1>16. SumFunctionOnSet(a, A) \in Int /\ SumFunctionOnSet(w, A) \in Nat
    BY <1>12, <1>13, SumType, SumNat
  <1>17. Payments(e, typ, n) = SumFunctionOnSet(w, A)
    BY <1>9, <1>14, <1>15, <1>16
  <1>18. SumFunctionOnSet(w, L) <= SumFunctionOnSet(w, A)
    BY <1>12, <1>13, SumMonotone
  <1>19. SumFunctionOnSet(w, L) \in Nat
    <2>1. IsFiniteSet(L) /\ \A i \in L : w[i] \in Nat
      BY <1>12, <1>13, FS_Subset
    <2> QED
      BY <2>1, SumNat
  <1> QED
    BY <1>9, <1>16, <1>17, <1>18, <1>19

\* What records weigh, in one store after the other.
Weight(w, store) == SumFunctionOnSet([i \in DOMAIN store |-> w[store[i]]], DOMAIN store)

LEMMA WeightOfConcat ==
    ASSUME NEW R, NEW p \in Seq(R), NEW q \in Seq(R), NEW w, \A r \in R : w[r] \in Int
    PROVE  Weight(w, p \o q) = Weight(w, p) + Weight(w, q)
  <1> DEFINE m == Len(p)
             n == Len(q)
             f == [i \in DOMAIN p |-> w[p[i]]]
             g == [i \in DOMAIN q |-> w[q[i]]]
             h == [i \in DOMAIN (p \o q) |-> w[(p \o q)[i]]]
  <1>1. m \in Nat /\ n \in Nat /\ DOMAIN p = 1 .. m /\ DOMAIN q = 1 .. n
    OBVIOUS
  <1>2. DOMAIN (p \o q) = 1 .. (m + n)
    OBVIOUS
  <1>3. ASSUME NEW i \in 1 .. m
        PROVE  f[i] \in Int /\ h[i] = f[i]
    <2>1. i \in 1 .. (m + n)
      BY <1>1
    <2>2. (p \o q)[i] = p[i] /\ p[i] \in R
      BY <1>1
    <2>3. f[i] = w[p[i]]
      BY <1>1
    <2>4. h[i] = w[(p \o q)[i]]
      BY <1>2, <2>1
    <2> QED
      BY <2>2, <2>3, <2>4
  <1>4. ASSUME NEW i \in 1 .. n
        PROVE  g[i] \in Int /\ h[m + i] = g[i]
    <2>1. m + i \in 1 .. (m + n)
      BY <1>1
    <2>2. (p \o q)[m + i] = q[i] /\ q[i] \in R
      BY <1>1
    <2>3. g[i] = w[q[i]]
      BY <1>1
    <2>4. h[m + i] = w[(p \o q)[m + i]]
      BY <1>2, <2>1
    <2> QED
      BY <2>2, <2>3, <2>4
  <1>5. /\ Weight(w, p) = SumFunctionOnSet(f, 1 .. m)
        /\ Weight(w, q) = SumFunctionOnSet(g, 1 .. n)
        /\ Weight(w, p \o q) = SumFunctionOnSet(h, 1 .. (m + n))
    BY <1>1, <1>2 DEF Weight
  <1>6. m \in Nat /\ n \in Nat
    BY <1>1
  <1> HIDE DEF m, n, f, g, h
  <1>7. \A i \in 1 .. m : f[i] \in Int /\ h[i] = f[i]
    BY <1>3
  <1>8. \A i \in 1 .. n : g[i] \in Int /\ h[m + i] = g[i]
    BY <1>4
  <1>9. SumFunctionOnSet(h, 1 .. (m + n)) = SumFunctionOnSet(f, 1 .. m) + SumFunctionOnSet(g, 1 .. n)
    BY <1>6, <1>7, <1>8, SumOfConcat, SMTT(60)
  <1> QED
    BY <1>5, <1>9

\* The payments of a store to which others were appended.
LEMMA PaysTogether ==
    ASSUME NEW p \in Seq(MovementRecord), NEW s \in Seq(MovementRecord), NEW e, NEW typ
    PROVE  /\ \A i \in DOMAIN p : i \in DOMAIN (p \o s) /\ (p \o s)[i] = p[i]
           /\ \A i \in DOMAIN p : i \in Pays(e, typ, p \o s) <=> i \in Pays(e, typ, p)
           /\ \A i \in Pays(e, typ, p \o s) \ DOMAIN p :
                  /\ i > Len(p) /\ i - Len(p) \in Pays(e, typ, s)
                  /\ (p \o s)[i] = s[i - Len(p)]
           /\ \A i \in Pays(e, typ, p) : i \in DOMAIN p /\ i \in Nat /\ i <= Len(p)
           /\ \A i \in Pays(e, typ, p \o s) : i \in Nat /\ i <= Len(p \o s)
  <1>1. Len(p) \in Nat /\ Len(s) \in Nat /\ DOMAIN p = 1 .. Len(p) /\ DOMAIN s = 1 .. Len(s)
    OBVIOUS
  <1>2. Len(p \o s) = Len(p) + Len(s) /\ DOMAIN (p \o s) = 1 .. (Len(p) + Len(s))
    OBVIOUS
  <1>3. \A i \in 1 .. (Len(p) + Len(s)) : (p \o s)[i] = IF i <= Len(p) THEN p[i] ELSE s[i - Len(p)]
    OBVIOUS
  <1>4. \A i \in DOMAIN p : i \in DOMAIN (p \o s) /\ (p \o s)[i] = p[i]
    BY <1>1, <1>2, <1>3
  <1>5. \A i \in DOMAIN p : i \in Pays(e, typ, p \o s) <=> i \in Pays(e, typ, p)
    BY <1>4 DEF Pays
  <1>6. ASSUME NEW i \in Pays(e, typ, p \o s) \ DOMAIN p
        PROVE  /\ i > Len(p) /\ i - Len(p) \in Pays(e, typ, s)
               /\ (p \o s)[i] = s[i - Len(p)]
    <2>1. i \in 1 .. (Len(p) + Len(s)) /\ i \notin 1 .. Len(p)
      BY <1>1, <1>2 DEF Pays
    <2>2. i > Len(p) /\ i - Len(p) \in DOMAIN s /\ (p \o s)[i] = s[i - Len(p)]
      BY <1>1, <1>3, <2>1
    <2> QED
      BY <2>2 DEF Pays
  <1>7. /\ \A i \in Pays(e, typ, p) : i \in DOMAIN p /\ i \in Nat /\ i <= Len(p)
        /\ \A i \in Pays(e, typ, p \o s) : i \in Nat /\ i <= Len(p \o s)
    <2>1. Pays(e, typ, p) \subseteq 1 .. Len(p) /\ Pays(e, typ, p \o s) \subseteq 1 .. (Len(p) + Len(s))
      BY <1>1, <1>2 DEF Pays
    <2> QED
      BY <1>1, <1>2, <2>1
  <1> QED
    BY <1>4, <1>5, <1>6, <1>7

\* The window of an old payment stays as it was, and so does the window at the end when
\* no payment is appended.
LEMMA OldWindows ==
    ASSUME NEW p \in Seq(MovementRecord), NEW s \in Seq(MovementRecord), NEW e, NEW typ, NEW w, NEW x
    PROVE  /\ x \in Pays(e, typ, p) =>
                  PaidIn(p \o s, Window(e, typ, p \o s, x, w)) = PaidIn(p, Window(e, typ, p, x, w))
           /\ Pays(e, typ, s) = {} =>
                  PaidIn(p \o s, Window(e, typ, p \o s, Len(p \o s), w)) =
                      PaidIn(p, Window(e, typ, p, Len(p), w))
  <1> DEFINE q == p \o s
             P == Pays(e, typ, p)
             Q == Pays(e, typ, q)
  <1>1. q \in Seq(MovementRecord)
    OBVIOUS
  <1>2. /\ \A i \in DOMAIN p : i \in DOMAIN q /\ q[i] = p[i]
        /\ \A i \in DOMAIN p : i \in Q <=> i \in P
        /\ \A i \in Q \ DOMAIN p : i > Len(p) /\ i - Len(p) \in Pays(e, typ, s)
        /\ \A i \in P : i \in DOMAIN p /\ i \in Nat /\ i <= Len(p)
        /\ \A i \in Q : i \in Nat /\ i <= Len(q)
        /\ Len(p) \in Nat /\ Len(q) \in Nat
    BY PaysTogether
  <1> HIDE DEF q
  <1>3. ASSUME NEW m \in Nat, NEW n \in Nat, \A k : k \in Q /\ k <= n <=> k \in P /\ k <= m
        PROVE  PaidIn(q, Window(e, typ, q, n, w)) = PaidIn(p, Window(e, typ, p, m, w))
    <2> DEFINE S == Window(e, typ, q, n, w)
               T == Window(e, typ, p, m, w)
    <2>1. \A j : {k \in Q : j < k /\ k <= n} = {k \in P : j < k /\ k <= m}
      BY <1>3
    <2>2. S = T
      BY <1>3, <2>1 DEF Window
    <2>3. T \subseteq P
      BY DEF Window
    <2>4. Live(q, S) = Live(p, T) /\ Live(p, T) \subseteq P
      BY <1>2, <2>2, <2>3 DEF Live
    <2> DEFINE f == [j \in DOMAIN q |-> 0 - q[j].amount]
               g == [j \in DOMAIN p |-> 0 - p[j].amount]
               U == Live(p, T)
    <2>5. \A j \in U : f[j] = g[j]
      BY <1>2, <2>4
    <2>6. PaidIn(q, S) = SumFunctionOnSet(f, U) /\ PaidIn(p, T) = SumFunctionOnSet(g, U)
      BY <2>4 DEF PaidIn
    <2>7. IsFiniteSet(P) /\ \A j \in P : g[j] \in Nat
      BY PaysFacts
    <2> HIDE DEF f, g, U, S, T, P
    <2>8. IsFiniteSet(U) /\ \A j \in U : g[j] \in Int
      <3>1. U \in SUBSET P
        BY <2>4 DEF U
      <3> QED
        BY <2>7, <3>1, FS_Subset
    <2>9. SumFunctionOnSet(g, U) = SumFunctionOnSet(f, U)
      BY <2>5, <2>8, SumEqual
    <2> QED
      BY <2>6, <2>9 DEF S, T
  <1>4. ASSUME x \in P
        PROVE  PaidIn(q, Window(e, typ, q, x, w)) = PaidIn(p, Window(e, typ, p, x, w))
    <2>1. x \in Nat /\ x <= Len(p)
      BY <1>2, <1>4
    <2>2. ASSUME NEW k \in Q, k <= x
          PROVE  k \in P
      <3>1. ~(k > Len(p))
        BY <1>2, <2>1, <2>2
      <3> QED
        BY <1>2, <3>1
    <2>3. \A k \in P : k \in Q
      BY <1>2
    <2>4. \A k : k \in Q /\ k <= x <=> k \in P /\ k <= x
      BY <2>2, <2>3
    <2> QED
      BY <1>3, <2>1, <2>4
  <1>5. ASSUME Pays(e, typ, s) = {}
        PROVE  PaidIn(q, Window(e, typ, q, Len(q), w)) = PaidIn(p, Window(e, typ, p, Len(p), w))
    <2>1. \A k : k \in Q <=> k \in P
      BY <1>2, <1>5
    <2>2. \A k : k \in Q /\ k <= Len(q) <=> k \in P /\ k <= Len(p)
      BY <1>2, <2>1
    <2> QED
      BY <1>2, <1>3, <2>2
  <1> QED
    BY <1>4, <1>5 DEF q

\* The window of the one payment that was appended: itself, and the last ones before.
LEMMA NewWindow ==
    ASSUME NEW p \in Seq(MovementRecord), NEW s \in Seq(MovementRecord), NEW e, NEW typ,
           NEW w \in Nat \ {0}, NEW i \in Pays(e, typ, p \o s) \ DOMAIN p,
           \A j \in Pays(e, typ, p \o s) \ DOMAIN p : j = i
    PROVE  PaidIn(p \o s, Window(e, typ, p \o s, i, w)) <=
               PaidIn(p, Window(e, typ, p, Len(p), w - 1)) + (0 - (p \o s)[i].amount)
  <1> DEFINE q == p \o s
             P == Pays(e, typ, p)
             Q == Pays(e, typ, q)
             S == Window(e, typ, q, i, w)
             T == Window(e, typ, p, Len(p), w - 1)
             f == [j \in DOMAIN q |-> 0 - q[j].amount]
             g == [j \in DOMAIN p |-> 0 - p[j].amount]
             R == Live(q, S)
             U == Live(p, T)
  <1>1. q \in Seq(MovementRecord)
    OBVIOUS
  <1>2. /\ \A j \in DOMAIN p : j \in DOMAIN q /\ q[j] = p[j]
        /\ \A j \in DOMAIN p : j \in Q <=> j \in P
        /\ \A j \in P : j \in DOMAIN p /\ j \in Nat /\ j <= Len(p)
        /\ \A j \in Q : j \in Nat /\ j <= Len(q)
        /\ i > Len(p) /\ i \in Nat /\ Len(p) \in Nat /\ i \notin P
    BY PaysTogether
  <1>3. /\ IsFiniteSet(P) /\ \A j \in P : g[j] \in Nat /\ j \in DOMAIN p
        /\ \A j \in Q : f[j] \in Nat
    BY <1>1, PaysFacts
  <1>4. Q = P \cup {i}
    BY <1>2
  <1> HIDE DEF q
  <1>5. ASSUME NEW j \in S, j # i
        PROVE  j \in T
    <2> DEFINE A == {k \in Q : j < k /\ k <= i}
               B == {k \in P : j < k /\ k <= Len(p)}
    <2>1. j \in P /\ j < i /\ Cardinality(A) <= w
      <3>1. j \in Q /\ j <= i /\ Cardinality(A) <= w
        BY <1>5 DEF Window
      <3> HIDE DEF A
      <3> QED
        BY <1>2, <1>4, <1>5, <3>1
    <2>2. A = B \cup {i}
      <3>1. \A k \in P : k <= Len(p) /\ k <= i
        BY <1>2
      <3> HIDE DEF P, Q
      <3> QED
        BY <1>2, <1>4, <2>1, <3>1
    <2>3. B \in SUBSET P /\ i \notin B
      BY <1>2
    <2> HIDE DEF A, B
    <2>4. IsFiniteSet(B) /\ Cardinality(B) \in Nat
      BY <1>3, <2>3, FewerIsLess
    <2>5. Cardinality(B \cup {i}) = Cardinality(B) + 1
      BY <2>3, <2>4, FS_AddElement
    <2>6. Cardinality(B) <= w - 1
      BY <2>1, <2>2, <2>4, <2>5
    <2>7. j <= Len(p)
      BY <1>2, <2>1
    <2> QED
      BY <2>1, <2>6, <2>7 DEF B, Window
  <1>6. T \subseteq P
    BY DEF Window
  <1>7. U \in SUBSET P
    BY <1>6 DEF Live
  <1>8. R \subseteq U \cup {i}
    <2>1. ASSUME NEW j \in R, j # i
          PROVE  j \in U
      <3>1. j \in T /\ q[j].status # "Deleted"
        BY <1>5, <2>1 DEF Live
      <3>2. q[j] = p[j]
        BY <1>2, <1>6, <3>1
      <3> QED
        BY <3>1, <3>2 DEF Live
    <2> QED
      BY <2>1
  <1>9. \A j \in U : f[j] = g[j]
    BY <1>2, <1>3, <1>7
  <1>10. /\ PaidIn(q, S) = SumFunctionOnSet(f, R)
         /\ PaidIn(p, T) = SumFunctionOnSet(g, U)
    BY DEF PaidIn
  <1>11. f[i] \in Nat /\ f[i] = 0 - q[i].amount /\ i \notin U
    BY <1>2, <1>3, <1>4, <1>7, PaysFacts DEF Pays
  <1>12. \A j \in U \cup {i} : f[j] \in Nat
    BY <1>3, <1>4, <1>7
  <1> HIDE DEF P, Q, S, T, f, g, R, U
  <1>13. IsFiniteSet(U) /\ \A j \in U : g[j] \in Int
    BY <1>3, <1>7, FS_Subset
  <1>14. IsFiniteSet(U \cup {i}) /\ R \in SUBSET (U \cup {i})
    BY <1>8, <1>13, FS_AddElement
  <1>15. SumFunctionOnSet(f, R) <= SumFunctionOnSet(f, U \cup {i})
    BY <1>12, <1>14, SumMonotone
  <1>16. SumFunctionOnSet(f, U \cup {i}) = f[i] + SumFunctionOnSet(f, U)
    <2>1. \A j \in U \cup {i} : f[j] \in Int
      BY <1>12
    <2> QED
      BY <1>11, <1>13, <2>1, SumAdd
  <1>17. SumFunctionOnSet(g, U) = SumFunctionOnSet(f, U)
    BY <1>9, <1>13, SumEqual
  <1>18. SumFunctionOnSet(g, U) \in Int
    BY <1>13, SumType
  <1>19. SumFunctionOnSet(f, R) \in Int
    <2>1. IsFiniteSet(R) /\ \A j \in R : f[j] \in Int
      BY <1>12, <1>14, FS_Subset
    <2> QED
      BY <2>1, SumType
  <1>20. PaidIn(q, S) <= PaidIn(p, T) + (0 - q[i].amount)
    BY <1>10, <1>11, <1>15, <1>16, <1>17, <1>18, <1>19
  <1> QED
    BY <1>20 DEF q, S, T

\* A sequence has finitely many positions.
LEMMA SequenceIsFinite ==
    ASSUME NEW R, NEW s \in Seq(R)
    PROVE  IsFiniteSet(DOMAIN s)
  <1>1. Len(s) \in Nat /\ DOMAIN s = 1 .. Len(s)
    OBVIOUS
  <1>2. IsFiniteSet(1 .. Len(s))
    BY <1>1, FS_Interval
  <1> QED
    BY <1>1, <1>2

\* A request appends one payment of an enrollment id and type or none, and one only if
\* the id is locked and pays more than it gets.
LEMMA PaysOfRequest ==
    ASSUME NEW t \in TxIds, NEW e, NEW typ
    PROVE  /\ \A i, j \in Pays(e, typ, NewMovements(t)) : i = j
           /\ \A i \in Pays(e, typ, NewMovements(t)) :
                  /\ e \in Range(LockOrder[t])
                  /\ Diff(t, e, typ) \in Int /\ Diff(t, e, typ) < 0
                  /\ NewMovements(t)[i].amount = Diff(t, e, typ)
  <1> DEFINE s == SendMovements[t]
             r == ReceivedMovements[t]
  <1>1. /\ s \in Seq(MovementRecord) /\ IsInjective(s)
        /\ Range(s) = {m \in NetMovements(t) : m.amount < 0}
        /\ r \in Seq(MovementRecord)
        /\ Range(r) = {m \in NetMovements(t) : m.amount > 0}
    BY RecordsAssumption
  <1>2. NewMovements(t) = s \o r
    BY DEF NewMovements
  <1> HIDE DEF s, r
  <1>3. Pays(e, typ, r) = {}
    <2>1. ASSUME NEW i \in DOMAIN r
          PROVE  ~(r[i].amount <= 0)
      <3>1. r[i] \in Range(r)
        BY DEF Range
      <3>2. r[i].amount > 0 /\ r[i].amount \in Int
        BY <1>1, <3>1, StoreFacts
      <3> QED
        BY <3>2
    <2> QED
      BY <2>1 DEF Pays
  <1>4. ASSUME NEW i \in Pays(e, typ, NewMovements(t))
        PROVE  i \in Pays(e, typ, s) /\ i \in DOMAIN s /\ NewMovements(t)[i] = s[i]
    <2>1. i \in DOMAIN s
      BY <1>1, <1>2, <1>3, <1>4, PaysTogether
    <2> QED
      BY <1>1, <1>2, <1>4, <2>1, PaysTogether
  <1>5. ASSUME NEW i \in Pays(e, typ, s)
        PROVE  /\ s[i] = Movement(t, e, typ) /\ e \in Range(LockOrder[t])
               /\ s[i].amount = Diff(t, e, typ) /\ Diff(t, e, typ) \in Int /\ Diff(t, e, typ) < 0
    <2>1. i \in DOMAIN s /\ s[i].eid = e /\ s[i].type = typ
      BY DEF Pays
    <2>2. s[i] \in Range(s)
      BY <2>1 DEF Range
    <2>3. s[i] \in NetMovements(t) /\ s[i].amount < 0 /\ s[i].amount \in Int
      BY <1>1, <2>1, <2>2, StoreFacts
    <2>4. PICK f \in Range(LockOrder[t]), typ2 \in TypesIn(AuditOutputs[t]) : s[i] = Movement(t, f, typ2)
      BY <2>3 DEF NetMovements
    <2>5. s[i].eid = f /\ s[i].type = typ2 /\ s[i].amount = Diff(t, f, typ2)
      BY <2>4 DEF Movement
    <2> QED
      BY <2>1, <2>3, <2>4, <2>5
  <1>6. \A i, j \in Pays(e, typ, s) : i = j
    BY <1>1, <1>5 DEF IsInjective, Pays
  <1> QED
    BY <1>4, <1>5, <1>6

\* Who pays has inputs, of the type it pays with: the auditor looks at them.
LEMMA PaysFromInputs ==
    ASSUME NEW t \in TxIds, NEW e \in EnrollmentIDs, NEW typ,
           Diff(t, e, typ) \in Int, Diff(t, e, typ) < 0
    PROVE  /\ e \in Range(EnrollmentIDsOf(AuditInputs[t]))
           /\ typ \in Range(TokenTypesOf(AuditInputs[t]))
           /\ e \in Range(LockOrder[t])
  <1> DEFINE in == AuditInputs[t]
             out == AuditOutputs[t]
             S == {i \in DOMAIN in : in[i].eid = e /\ in[i].type = typ}
             R == {i \in DOMAIN out : out[i].eid = e /\ out[i].type = typ}
             f == [i \in DOMAIN in |-> in[i].quantity]
             g == [i \in DOMAIN out |-> out[i].quantity]
  <1>1. Diff(t, e, typ) = SumFunctionOnSet(g, R) - SumFunctionOnSet(f, S)
    BY DEF Diff, SumOf
  <1>2. out \in Seq(AuditItem)
    BY StreamsAssumption
  <1>3. IsFiniteSet(R) /\ \A i \in R : g[i] \in Nat
    <2>1. Len(out) \in Nat /\ DOMAIN out = 1 .. Len(out)
      BY <1>2
    <2>2. \A i \in DOMAIN out : out[i] \in AuditItem
      BY <1>2
    <2>3. \A i \in DOMAIN out : out[i].quantity \in Nat
      BY <2>2 DEF AuditItem
    <2>4. IsFiniteSet(DOMAIN out)
      BY <1>2, SequenceIsFinite
    <2>5. R \in SUBSET DOMAIN out
      OBVIOUS
    <2>6. IsFiniteSet(R)
      BY <2>1, <2>4, <2>5, FS_Subset
    <2> QED
      BY <2>3, <2>6
  <1>4. S # {} => e \in {in[i].eid : i \in DOMAIN in} /\ typ \in TypesIn(in)
    BY DEF TypesIn
  <1> HIDE DEF in, out, S, R, f, g
  <1>5. SumFunctionOnSet(g, R) \in Nat
    BY <1>3, SumNat
  <1>6. S # {}
    <2>1. SUFFICES ASSUME S = {} PROVE FALSE
      OBVIOUS
    <2>2. SumFunctionOnSet(f, S) = 0
      BY <2>1, SumOfNothing
    <2> QED
      BY <1>1, <1>5, <2>2
  <1>7. e # NoEID
    BY EnrollmentAssumption
  <1>8. e \in EIDsIn(AuditInputs[t])
    BY <1>4, <1>6, <1>7 DEF EIDsIn, in
  <1>9. typ \in TypesIn(AuditInputs[t])
    BY <1>4, <1>6 DEF in
  <1> QED
    BY <1>8, <1>9, StreamsAssumption

\* A payment and the last ones before it stay below the limit, and what a view is about
\* to append, with its locks held, does not change that.
PaidBelowLimit ==
    \A e \in EnrollmentIDs, typ \in TokenTypes : \A i \in Pays(e, typ, movements) :
        PaidIn(movements, Window(e, typ, movements, i, LastPayments)) < Limit

Checked ==
    \A t \in TxIds : view[t] = "append" =>
        \A e \in EnrollmentIDs, typ \in TokenTypes :
            Diff(t, e, typ) \in Int /\ Diff(t, e, typ) < 0 =>
                PaidIn(movements, Window(e, typ, movements, Len(movements), LastPayments - 1))
                    + (0 - Diff(t, e, typ)) < Limit

LimitInv == LocksInv /\ StatusInv /\ PaidBelowLimit /\ Checked

\* Nothing is paid at first.
LEMMA LimitInit == Init => LimitInv
  <1> SUFFICES ASSUME Init PROVE LimitInv
    OBVIOUS
  <1>1. movements = << >> /\ \A t \in TxIds : view[t] = "idle"
    BY DEF Init, DBInit
  <1>2. \A e, typ : Pays(e, typ, movements) = {}
    BY <1>1 DEF Pays
  <1>3. PaidBelowLimit
    BY <1>2 DEF PaidBelowLimit
  <1>4. Checked
    BY <1>1 DEF Checked
  <1> QED
    BY <1>3, <1>4, LocksInit, StatusInit DEF LimitInv

\* A step that appends nothing and lets nobody append.
LEMMA KeepsLimit ==
    ASSUME LimitInv, UNCHANGED movements,
           \A t \in TxIds : view'[t] = "append" => view[t] = "append"
    PROVE  PaidBelowLimit' /\ Checked'
  <1>1. PaidBelowLimit'
    BY DEF LimitInv, PaidBelowLimit
  <1>2. Checked'
    BY DEF LimitInv, Checked
  <1> QED
    BY <1>1, <1>2

\* The check of the payments, in terms of what is paid.
LEMMA CheckKeepsLimit ==
    ASSUME LimitInv, NEW t \in TxIds, CheckLimits(t)
    PROVE  PaidBelowLimit' /\ Checked'
  <1>1. movements' = movements /\ movements \in Seq(MovementRecord)
    BY DEF CheckLimits, dbVars, LimitInv, StatusInv
  <1>2. \A u \in TxIds : u # t => view'[u] = view[u]
    BY DEF CheckLimits, Goto
  <1>3. view'[t] = "append" => WithinLimit(t)
    BY DEF CheckLimits, Goto, LimitInv, StatusInv
  <1>4. ASSUME WithinLimit(t), NEW e \in EnrollmentIDs, NEW typ \in TokenTypes,
               Diff(t, e, typ) \in Int, Diff(t, e, typ) < 0
        PROVE  PaidIn(movements, Window(e, typ, movements, Len(movements), LastPayments - 1))
                   + (0 - Diff(t, e, typ)) < Limit
    <2>1. Payments(e, typ, LastPayments) + (0 - Diff(t, e, typ)) < Limit
      BY <1>4, PaysFromInputs DEF WithinLimit
    <2> DEFINE x == PaidIn(movements, Window(e, typ, movements, Len(movements), LastPayments - 1))
               y == Payments(e, typ, LastPayments)
    <2>2. LastPayments \in Nat \ {0} /\ Limit \in Nat
      BY AuditingAssumption
    <2>3. x \in Nat /\ y \in Nat /\ x <= y
      BY <1>1, <2>2, LastAreQueried
    <2> HIDE DEF x, y
    <2>4. x + (0 - Diff(t, e, typ)) < Limit
      BY <1>4, <2>1, <2>2, <2>3 DEF y
    <2> QED
      BY <2>4 DEF x
  <1>5. PaidBelowLimit'
    BY <1>1 DEF LimitInv, PaidBelowLimit
  <1>6. Checked'
    BY <1>1, <1>2, <1>3, <1>4 DEF LimitInv, Checked
  <1> QED
    BY <1>5, <1>6

\* Append: the request was checked, and whoever else was checked has other
\* enrollment ids.
LEMMA AppendKeepsLimit ==
    ASSUME LimitInv, NEW t \in TxIds, AppendRecords(t), HasSingleSenders(t)
    PROVE  PaidBelowLimit' /\ Checked'
  <1> DEFINE s == NewMovements(t)
  <1>1. movements' = movements \o s /\ view[t] = "append"
    BY DEF AppendRecords, AppendRequest, Commit, NewMovements
  <1>2. \A u \in TxIds : view'[u] = IF u = t THEN "subscribe" ELSE view[u]
    BY DEF AppendRecords, Goto, LimitInv, StatusInv
  <1>3. movements \in Seq(MovementRecord) /\ s \in Seq(MovementRecord)
    BY NewMovementsAre DEF LimitInv, StatusInv
  <1>4. LastPayments \in Nat \ {0} /\ Limit \in Nat
    BY AuditingAssumption
  <1>5. ASSUME NEW e \in EnrollmentIDs, NEW typ \in TokenTypes, NEW i \in Pays(e, typ, movements')
        PROVE  PaidIn(movements', Window(e, typ, movements', i, LastPayments)) < Limit
    <2>1. CASE i \in DOMAIN movements
      <3>1. i \in Pays(e, typ, movements)
        BY <1>1, <1>3, <1>5, <2>1, PaysTogether
      <3>2. PaidIn(movements \o s, Window(e, typ, movements \o s, i, LastPayments)) =
                PaidIn(movements, Window(e, typ, movements, i, LastPayments))
        <4> HIDE DEF s
        <4> QED
          BY <1>3, <3>1, OldWindows
      <3> QED
        BY <1>1, <3>1, <3>2 DEF LimitInv, PaidBelowLimit
    <2>2. CASE i \notin DOMAIN movements
      <3> DEFINE d == Diff(t, e, typ)
                 x == PaidIn(movements', Window(e, typ, movements', i, LastPayments))
                 y == PaidIn(movements, Window(e, typ, movements, Len(movements), LastPayments - 1))
      <3>1. /\ i - Len(movements) \in Pays(e, typ, s)
            /\ movements'[i] = s[i - Len(movements)]
        BY <1>1, <1>3, <1>5, <2>2, PaysTogether
      <3>2. d \in Int /\ d < 0 /\ movements'[i].amount = d
        BY <3>1, PaysOfRequest
      <3>3. ASSUME NEW j \in Pays(e, typ, movements') \ DOMAIN movements
            PROVE  j = i
        <4>1. j - Len(movements) \in Pays(e, typ, s)
          BY <1>1, <1>3, PaysTogether
        <4>2. j - Len(movements) = i - Len(movements)
          BY <3>1, <4>1, PaysOfRequest
        <4>3. i \in Nat /\ j \in Nat /\ Len(movements) \in Nat
          BY <1>1, <1>3, <1>5, PaysTogether
        <4> QED
          BY <4>2, <4>3
      <3>4. x <= y + (0 - d)
        BY <1>1, <1>3, <1>4, <1>5, <2>2, <3>2, <3>3, NewWindow
      <3>5. y + (0 - d) < Limit
        BY <1>1, <3>2 DEF LimitInv, Checked
      <3>6. x \in Nat /\ y \in Nat
        <4>1. movements' \in Seq(MovementRecord)
          BY <1>1, <1>3
        <4>2. \A n, w : /\ PaidIn(movements', Window(e, typ, movements', n, w)) \in Nat
                        /\ PaidIn(movements, Window(e, typ, movements, n, w)) \in Nat
          BY <1>3, <4>1, PaidInType
        <4> QED
          BY <4>2
      <3> HIDE DEF d, x, y
      <3>7. x < Limit
        BY <1>4, <3>2, <3>4, <3>5, <3>6
      <3> QED
        BY <3>7 DEF x
    <2> QED
      BY <2>1, <2>2
  <1>6. ASSUME NEW u \in TxIds, view'[u] = "append",
               NEW e \in EnrollmentIDs, NEW typ \in TokenTypes,
               Diff(u, e, typ) \in Int, Diff(u, e, typ) < 0
        PROVE  PaidIn(movements', Window(e, typ, movements', Len(movements'), LastPayments - 1))
                   + (0 - Diff(u, e, typ)) < Limit
    <2>1. u # t /\ view[u] = "append"
      BY <1>2, <1>6
    <2>2. HeldBy(u) = Range(LockOrder[u]) /\ HeldBy(t) = Range(LockOrder[t])
      BY <1>1, <2>1, HeldByView DEF HoldsAll
    <2>3. HeldBy(u) \cap HeldBy(t) = {}
      BY <2>1 DEF LimitInv, LocksInv, LocksFollowViews
    <2>4. e \in Range(LockOrder[u])
      BY <1>6, PaysFromInputs
    <2>5. Pays(e, typ, s) = {}
      BY <2>2, <2>3, <2>4, PaysOfRequest
    <2>6. PaidIn(movements', Window(e, typ, movements', Len(movements'), LastPayments - 1)) =
              PaidIn(movements, Window(e, typ, movements, Len(movements), LastPayments - 1))
      BY <1>1, <1>3, <2>5, OldWindows
    <2> QED
      BY <1>6, <2>1, <2>6 DEF LimitInv, Checked
  <1>7. PaidBelowLimit'
    BY <1>5 DEF PaidBelowLimit
  <1>8. Checked'
    BY <1>6 DEF Checked
  <1> QED
    BY <1>7, <1>8

\* SetStatus: a payment is forgotten when its request failed, and never comes back.
LEMMA SetStatusKeepsLimit ==
    ASSUME LimitInv, NEW t \in settled \cup rejected, SetStatus(t, Outcome(t)), UNCHANGED view
    PROVE  PaidBelowLimit' /\ Checked'
  <1> DEFINE s == Outcome(t)
  <1>1. movements \in Seq(MovementRecord) /\ movements' = WithStatus(t, s, movements)
    BY DEF SetStatus, LimitInv, StatusInv
  <1>2. s \in {"Confirmed", "Deleted"} /\ (s = "Confirmed" => t \in settled)
    BY DEF Outcome
  <1> HIDE DEF s
  <1>3. \A r \in MovementRecord : [r EXCEPT !.status = s] \in MovementRecord
    BY <1>2 DEF MovementRecord, Statuses
  <1>4. movements' \in Seq(MovementRecord)
    BY <1>1, <1>3, StatusIsSet
  <1>5. DOMAIN movements' = DOMAIN movements /\ Len(movements') = Len(movements)
    <2>1. DOMAIN movements' = DOMAIN movements
      BY <1>1 DEF WithStatus
    <2>2. /\ DOMAIN movements = 1 .. Len(movements) /\ Len(movements) \in Nat
          /\ DOMAIN movements' = 1 .. Len(movements') /\ Len(movements') \in Nat
      BY <1>1, <1>4, StoreFacts
    <2> QED
      BY <2>1, <2>2
  <1>6. ASSUME NEW i \in DOMAIN movements
        PROVE  /\ movements'[i].eid = movements[i].eid /\ movements'[i].type = movements[i].type
               /\ movements'[i].amount = movements[i].amount
               /\ movements[i].status = "Deleted" => movements'[i].status = "Deleted"
    <2> DEFINE r == movements[i]
               x == [r EXCEPT !.status = s]
    <2>1. r \in MovementRecord /\ r \in Range(movements)
      BY <1>1, StoreFacts DEF Range
    <2>2. movements'[i] = IF r.tx = t THEN x ELSE r
      BY <1>1 DEF WithStatus
    <2>3. r.tx = t => r.status # "Deleted" \/ s = "Deleted"
      BY <1>2, <2>1 DEF LimitInv, StatusInv, Agrees, OutcomesAreFinal
    <2> HIDE DEF r
    <2>4. x.eid = r.eid /\ x.type = r.type /\ x.amount = r.amount /\ x.status = s
      BY <2>1 DEF MovementRecord
    <2> HIDE DEF x
    <2> QED
      BY <2>2, <2>3, <2>4 DEF r
  <1>7. ASSUME NEW e, NEW typ
        PROVE  Pays(e, typ, movements') = Pays(e, typ, movements)
    BY <1>5, <1>6 DEF Pays
  <1>8. ASSUME NEW e, NEW typ, NEW n, NEW w
        PROVE  /\ PaidIn(movements', Window(e, typ, movements', n, w)) \in Nat
               /\ PaidIn(movements, Window(e, typ, movements, n, w)) \in Nat
               /\ PaidIn(movements', Window(e, typ, movements', n, w)) <=
                      PaidIn(movements, Window(e, typ, movements, n, w))
    <2> DEFINE S == Window(e, typ, movements', n, w)
               T == Window(e, typ, movements, n, w)
    <2>1. S = T
      BY <1>7 DEF Window
    <2>2. T \in SUBSET Pays(e, typ, movements) /\ T \in SUBSET DOMAIN movements
      BY DEF Window, Pays
    <2> HIDE DEF S, T
    <2>3. Live(movements', S) \subseteq Live(movements, T)
      BY <1>6, <2>1, <2>2 DEF Live
    <2>4. \A j \in Live(movements', S) : movements'[j].amount = movements[j].amount
      BY <1>6, <2>1, <2>2 DEF Live
    <2>5. S \in SUBSET DOMAIN movements'
      BY <1>5, <2>1, <2>2
    <2>6. /\ PaidIn(movements', S) \in Nat /\ PaidIn(movements, T) \in Nat
          /\ PaidIn(movements', S) <= PaidIn(movements, T)
      BY <1>1, <1>4, <2>2, <2>3, <2>4, <2>5, PaidLess, ZenonT(60)
    <2> QED
      BY <2>6 DEF S, T
  <1>9. PaidBelowLimit'
    <2>1. SUFFICES ASSUME NEW e \in EnrollmentIDs, NEW typ \in TokenTypes,
                          NEW i \in Pays(e, typ, movements')
                   PROVE  PaidIn(movements', Window(e, typ, movements', i, LastPayments)) < Limit
      BY DEF PaidBelowLimit
    <2>2. PaidIn(movements, Window(e, typ, movements, i, LastPayments)) < Limit
      BY <1>7 DEF LimitInv, PaidBelowLimit
    <2> QED
      BY <1>8, <2>2, AuditingAssumption
  <1>10. Checked'
    <2>1. SUFFICES ASSUME NEW u \in TxIds, view'[u] = "append",
                          NEW e \in EnrollmentIDs, NEW typ \in TokenTypes,
                          Diff(u, e, typ) \in Int, Diff(u, e, typ) < 0
                   PROVE  PaidIn(movements', Window(e, typ, movements', Len(movements'), LastPayments - 1))
                              + (0 - Diff(u, e, typ)) < Limit
      BY DEF Checked
    <2>2. PaidIn(movements, Window(e, typ, movements, Len(movements), LastPayments - 1))
              + (0 - Diff(u, e, typ)) < Limit
      BY <2>1 DEF LimitInv, Checked
    <2>3. Len(movements') = Len(movements) /\ Limit \in Nat
      BY <1>5, AuditingAssumption
    <2> QED
      BY <1>8, <2>1, <2>2, <2>3
  <1> QED
    BY <1>9, <1>10

\* Every step keeps the limit.
LEMMA LimitStep ==
    ASSUME LimitInv, [Next]_vars
    PROVE  LimitInv'
  <1>1. LocksInv' /\ StatusInv'
    BY LocksStep, StatusStep DEF LimitInv
  <1>2. /\ StatusInv /\ view \in [TxIds -> Labels]
    BY DEF LimitInv, StatusInv
  <1>3. ASSUME NEW t \in TxIds, NEW l, Goto(t, l), l # "append", UNCHANGED movements
        PROVE  PaidBelowLimit' /\ Checked'
    <2>1. \A u \in TxIds : view'[u] = "append" => view[u] = "append"
      BY <1>2, <1>3 DEF Goto
    <2> QED
      BY <1>3, <2>1, KeepsLimit
  <1>4. ASSUME UNCHANGED <<movements, view>>
        PROVE  PaidBelowLimit' /\ Checked'
    BY <1>4, KeepsLimit
  <1>5. ASSUME NEW t \in TxIds, Audit(t)
        PROVE  PaidBelowLimit' /\ Checked'
    BY <1>5, <1>3 DEF Audit, storeVars
  <1>6. ASSUME NEW t \in TxIds, AcquireNext(t)
        PROVE  PaidBelowLimit' /\ Checked'
    <2>1. UNCHANGED movements /\ (Goto(t, "check") \/ UNCHANGED view)
      BY <1>6 DEF AcquireNext, storeVars
    <2> QED
      BY <1>3, <1>4, <2>1
  <1>7. ASSUME NEW t \in TxIds, CheckLimits(t)
        PROVE  PaidBelowLimit' /\ Checked'
    BY <1>7, CheckKeepsLimit
  <1>8. ASSUME NEW t \in TxIds, AppendRecords(t)
        PROVE  PaidBelowLimit' /\ Checked'
    <2>1. CASE HasSingleSenders(t)
      BY <1>8, <2>1, AppendKeepsLimit
    <2>2. CASE ~HasSingleSenders(t)
      BY <1>3, <1>8, <2>2 DEF AppendRecords, AppendRequest, Discard, storeVars
    <2> QED
      BY <2>1, <2>2
  <1>9. ASSUME NEW t \in TxIds, Subscribe(t) \/ ReleaseAndSign(t) \/ DeferredRelease(t)
        PROVE  PaidBelowLimit' /\ Checked'
    BY <1>3, <1>9 DEF Subscribe, ReleaseAndSign, DeferredRelease, dbVars, storeVars
  <1>10. ASSUME NEW t \in TxIds, Settle(t) \/ Reject(t)
         PROVE  PaidBelowLimit' /\ Checked'
    BY <1>4, <1>10 DEF Settle, Reject, dbVars, viewVars
  <1>11. ASSUME NEW t \in TxIds, OnStatusChange(t)
         PROVE  PaidBelowLimit' /\ Checked'
    <2>1. t \in settled \cup rejected
      BY <1>2, <1>11 DEF OnStatusChange, StatusInv, OutcomesAreFinal
    <2> QED
      BY <1>11, <2>1, SetStatusKeepsLimit DEF OnStatusChange, viewVars
  <1>12. ASSUME Crash
         PROVE  PaidBelowLimit' /\ Checked'
    <2>1. UNCHANGED movements /\ \A u \in TxIds : view'[u] # "append"
      BY <1>12 DEF Crash, storeVars
    <2> QED
      BY <2>1, KeepsLimit
  <1>13. ASSUME NEW t \in TxIds, RestoreUpdate(t)
         PROVE  PaidBelowLimit' /\ Checked'
    <2>1. t \in settled \cup rejected
      BY <1>2, <1>13 DEF RestoreUpdate, StatusInv, OutcomesAreFinal
    <2> QED
      BY <1>13, <2>1, SetStatusKeepsLimit DEF RestoreUpdate, viewVars
  <1>14. ASSUME RestoreNextPhase \/ \E t \in TxIds : RestoreRead(t) \/ RestoreSubscribe(t)
         PROVE  PaidBelowLimit' /\ Checked'
    <2>1. UNCHANGED <<movements, view>>
      BY <1>14 DEF RestoreNextPhase, RestoreRead, RestoreSubscribe, dbVars, viewVars
    <2> QED
      BY <1>4, <2>1
  <1>15. ASSUME UNCHANGED vars
         PROVE  PaidBelowLimit' /\ Checked'
    BY <1>4, <1>15 DEF vars
  <1>16. PaidBelowLimit' /\ Checked'
    BY <1>5, <1>6, <1>7, <1>8, <1>9, <1>10, <1>11, <1>12, <1>13, <1>14, <1>15
       DEF Next, ViewStep, RestoreStep
  <1> QED
    BY <1>1, <1>16 DEF LimitInv

\* A payment of an enrollment id and the last payments before it, as many as the audit
\* views look at, stay below their limit as long as they are not deleted, for any number
\* of them, any requests and any interleaving of their audits with the network, crashes
\* and Restore.
THEOREM PaymentsStayBelowLimit == Spec => []LimitIsKept
  <1>1. LimitInv => LimitIsKept
    BY DEF LimitInv, PaidBelowLimit, LimitIsKept, PaidIn, Live, Window, Pays
  <1> QED
    BY <1>1, LimitInit, LimitStep, PTL DEF Spec

-----------------------------------------------------------------------------
\* The rest of the type invariant.
OthersOK ==
    /\ \A t \in TxIds : acquired[t] \in 0 .. Len(LockOrder[t])
    /\ approved \subseteq TxIds
    /\ unspent \cup spent \subseteq TokenIds
    /\ settled \subseteq approved
    /\ rejected \subseteq approved
    /\ listening \subseteq TxIds
    /\ notices \subseteq TxIds
    /\ restore \in RestoreType
    /\ crashes \in 0 .. MaxCrashes

AuditInv == LocksInv /\ StatusInv /\ OthersOK

\* It is all there is to the type invariant.
LEMMA TypesOfAudit ==
    ASSUME AuditInv
    PROVE  TypeOK
  <1>1. ASSUME NEW t \in TxIds, NEW e \in HeldBy(t)
        PROVE  e \in EnrollmentIDs
    <2>1. LockOrder[t] \in Seq(EnrollmentIDs) /\ Len(LockOrder[t]) \in Nat
      BY StreamsAssumption
    <2>2. \A i \in 1 .. Len(LockOrder[t]) : LockOrder[t][i] \in EnrollmentIDs
      BY <2>1
    <2>3. Range(LockOrder[t]) = {LockOrder[t][i] : i \in 1 .. Len(LockOrder[t])}
      BY LockOrderRange
    <2>4. acquired[t] \in 0 .. Len(LockOrder[t])
      BY DEF AuditInv, OthersOK
    <2>5. 1 .. acquired[t] \subseteq 1 .. Len(LockOrder[t])
      BY <2>1, <2>4
    <2>6. view[t] = "lock" \/ view[t] \in HoldsAll \/ view[t] \in HoldsNone
      BY DEF AuditInv, StatusInv, Labels, HoldsAll, HoldsNone
    <2>7. {LockOrder[t][i] : i \in 1 .. acquired[t]} \subseteq Range(LockOrder[t])
      BY <2>3, <2>5
    <2>8. HeldBy(t) \subseteq Range(LockOrder[t])
      BY <2>6, <2>7, HeldByView
    <2> QED
      BY <2>2, <2>3, <2>8
  <1>2. locked \subseteq EnrollmentIDs
    BY <1>1 DEF AuditInv, LocksInv, LocksFollowViews
  <1>3. anchors \subseteq TxIds
    BY DEF AuditInv, LocksInv, AnchorsOK
  <1> QED
    BY <1>2, <1>3 DEF AuditInv, StatusInv, OthersOK, TypeOK

\* The tokens a request creates and consumes.
LEMMA TokensOfRequest ==
    ASSUME NEW t \in TxIds
    PROVE  CreatedIds(t) \subseteq TokenIds /\ InputsOf(t) \subseteq TokenIds
  <1>1. ASSUME NEW j \in DOMAIN AuditOutputs[t]
        PROVE  <<t, j - 1>> \in TokenIds
    <2>1. AuditOutputs[t] \in Seq(AuditItem)
      BY StreamsAssumption
    <2>2. j \in Nat /\ j >= 1
      BY <2>1
    <2>3. j - 1 \in Nat
      BY <2>2
    <2> QED
      BY <2>3 DEF TokenIds
  <1>2. CreatedIds(t) \subseteq TokenIds
    BY <1>1 DEF CreatedIds
  <1>3. ASSUME NEW k \in DOMAIN Actions(t)
        PROVE  Range(Actions(t)[k].inputs) \subseteq TokenIds
    <2>1. Request[t] \in RequestType
      BY RequestAssumption
    <2>2. Request[t].issues \in Seq(IssueAction) /\ Request[t].transfers \in Seq(TransferAction)
      BY <2>1 DEF RequestType
    <2>3. IssueAction \subseteq Action /\ TransferAction \subseteq Action
      BY DEF IssueAction, TransferAction
    <2>4. Request[t].issues \in Seq(Action) /\ Request[t].transfers \in Seq(Action)
      BY <2>2, <2>3
    <2>5. Actions(t) \in Seq(Action)
      BY <2>4 DEF Actions
    <2>6. Actions(t)[k] \in Action
      BY <2>5
    <2>7. Actions(t)[k].inputs \in Seq(TokenIds)
      BY <2>6 DEF Action
    <2> QED
      BY <2>7, RangeOfSeq
  <1>4. InputsOf(t) \subseteq TokenIds
    BY <1>3 DEF InputsOf
  <1> QED
    BY <1>2, <1>4

\* Restore keeps its type whatever it moves between its sets.
LEMMA RestoreTypes ==
    ASSUME NEW r \in RestoreType, NEW p \in {"idle", "read", "update", "subscribe"},
           NEW S \in SUBSET TxIds, NEW u \in SUBSET TxIds, NEW q \in SUBSET TxIds
    PROVE  /\ r.todo \in SUBSET TxIds /\ r.toBeUpdated \in SUBSET TxIds /\ r.pendingTXs \in SUBSET TxIds
           /\ [r EXCEPT !.phase = p] \in RestoreType
           /\ [r EXCEPT !.phase = p, !.todo = S] \in RestoreType
           /\ [r EXCEPT !.todo = S, !.toBeUpdated = u] \in RestoreType
           /\ [r EXCEPT !.todo = S, !.pendingTXs = q] \in RestoreType
           /\ [r EXCEPT !.toBeUpdated = u] \in RestoreType
           /\ [r EXCEPT !.pendingTXs = q] \in RestoreType
  <1>1. r.todo \in SUBSET TxIds /\ r.toBeUpdated \in SUBSET TxIds /\ r.pendingTXs \in SUBSET TxIds
    BY DEF RestoreType
  <1>2. [r EXCEPT !.phase = p] \in RestoreType
    BY ZenonT(60) DEF RestoreType
  <1>3. [r EXCEPT !.phase = p, !.todo = S] \in RestoreType
    BY ZenonT(60) DEF RestoreType
  <1>4. [r EXCEPT !.todo = S, !.toBeUpdated = u] \in RestoreType
    BY ZenonT(60) DEF RestoreType
  <1>5. [r EXCEPT !.todo = S, !.pendingTXs = q] \in RestoreType
    BY ZenonT(60) DEF RestoreType
  <1>6. [r EXCEPT !.toBeUpdated = u] \in RestoreType
    BY ZenonT(60) DEF RestoreType
  <1>7. [r EXCEPT !.pendingTXs = q] \in RestoreType
    BY ZenonT(60) DEF RestoreType
  <1> QED
    BY <1>1, <1>2, <1>3, <1>4, <1>5, <1>6, <1>7

\* Nothing has happened at first.
LEMMA OthersInit == Init => OthersOK
  <1> SUFFICES ASSUME Init PROVE OthersOK
    OBVIOUS
  <1>1. \A t \in TxIds : acquired[t] \in 0 .. Len(LockOrder[t])
    BY LockOrderRange DEF Init
  <1>2. Idle \in RestoreType
    BY DEF Idle, RestoreType
  <1>3. 0 \in 0 .. MaxCrashes
    BY AuditingAssumption
  <1> QED
    BY <1>1, <1>2, <1>3 DEF Init, Network!Init, OthersOK

\* Every step keeps the rest of the type invariant.
LEMMA OthersStep ==
    ASSUME AuditInv, [Next]_vars
    PROVE  OthersOK'
  <1>1. OthersOK
    BY DEF AuditInv
  <1>2. ASSUME UNCHANGED <<acquired, approved, networkVars, listenVars, restore, crashes>>
        PROVE  OthersOK'
    BY <1>1, <1>2 DEF OthersOK, networkVars, listenVars
  <1>3. ASSUME NEW t \in TxIds, AcquireNext(t)
        PROVE  OthersOK'
    <2>1. view[t] = "lock" /\ acquired' = [acquired EXCEPT ![t] = @ + 1]
      BY <1>3 DEF AcquireNext
    <2>2. acquired \in [TxIds -> Nat] /\ acquired[t] < Len(LockOrder[t])
      BY <2>1 DEF AuditInv, LocksInv, AcquiredOK
    <2>3. Len(LockOrder[t]) \in Nat
      BY LockOrderRange
    <2>4. \A u \in TxIds : acquired'[u] = IF u = t THEN acquired[t] + 1 ELSE acquired[u]
      BY <2>1, <2>2
    <2>5. acquired[t] \in Nat
      BY <2>2
    <2>6. \A u \in TxIds : acquired'[u] \in 0 .. Len(LockOrder[u])
      BY <1>1, <2>2, <2>3, <2>4, <2>5 DEF OthersOK
    <2> QED
      BY <1>1, <1>3, <2>6 DEF AcquireNext, OthersOK, networkVars, listenVars
  <1>4. ASSUME NEW t \in TxIds, Audit(t) \/ CheckLimits(t) \/ AppendRecords(t) \/ DeferredRelease(t)
        PROVE  OthersOK'
    BY <1>2, <1>4 DEF Audit, CheckLimits, AppendRecords, DeferredRelease
  <1>5. ASSUME NEW t \in TxIds, SubscribeTo(t)
        PROVE  listening' \subseteq TxIds /\ notices' \subseteq TxIds
    BY <1>1, <1>5 DEF SubscribeTo, OthersOK
  <1>6. ASSUME NEW t \in TxIds, Subscribe(t)
        PROVE  OthersOK'
    BY <1>1, <1>5, <1>6 DEF Subscribe, OthersOK, networkVars
  <1>7. ASSUME NEW t \in TxIds, ReleaseAndSign(t)
        PROVE  OthersOK'
    BY <1>1, <1>7 DEF ReleaseAndSign, OthersOK, networkVars, listenVars
  <1>8. ASSUME NEW t \in TxIds, Settle(t)
        PROVE  OthersOK'
    <2>1. /\ t \in approved
          /\ unspent' = (unspent \ InputsOf(t)) \cup CreatedIds(t)
          /\ spent' = spent \cup InputsOf(t)
          /\ settled' = settled \cup {t}
      BY <1>8 DEF Settle, Network!Settle
    <2>2. unspent' \cup spent' \subseteq TokenIds
      BY <1>1, <2>1, TokensOfRequest DEF OthersOK
    <2> QED
      BY <1>1, <1>8, <2>1, <2>2 DEF Settle, OthersOK, viewVars
  <1>9. ASSUME NEW t \in TxIds, Reject(t)
        PROVE  OthersOK'
    BY <1>1, <1>9 DEF Reject, OthersOK, viewVars
  <1>10. ASSUME NEW t \in TxIds, OnStatusChange(t)
         PROVE  OthersOK'
    BY <1>1, <1>10 DEF OnStatusChange, OthersOK, viewVars, networkVars
  <1>11. ASSUME Crash
         PROVE  OthersOK'
    <2>1. PendingTXs \in SUBSET TxIds
      <3>1. Range(transactions) \in SUBSET TransactionRecord
        BY RangeOfSeq DEF AuditInv, StatusInv
      <3>2. \A r \in TransactionRecord : r.tx \in TxIds
        BY DEF TransactionRecord
      <3> QED
        BY <3>1, <3>2 DEF PendingTXs
    <2>2. Idle \in RestoreType
      BY DEF Idle, RestoreType
    <2>3. restore' \in RestoreType
      BY <1>11, <2>1, <2>2, RestoreTypes DEF Crash
    <2>4. crashes' \in 0 .. MaxCrashes
      BY <1>1, <1>11, AuditingAssumption DEF Crash, OthersOK
    <2> QED
      BY <1>1, <1>11, <2>3, <2>4 DEF Crash, OthersOK, networkVars
  <1>12. ASSUME UNCHANGED <<acquired, approved, networkVars, crashes>>, restore' \in RestoreType,
                listening' \subseteq TxIds, notices' \subseteq TxIds
         PROVE  OthersOK'
    BY <1>1, <1>12 DEF OthersOK, networkVars
  <1>13. /\ restore \in RestoreType /\ restore.todo \in SUBSET TxIds
         /\ restore.toBeUpdated \in SUBSET TxIds /\ restore.pendingTXs \in SUBSET TxIds
         /\ listening \subseteq TxIds /\ notices \subseteq TxIds
    BY <1>1 DEF OthersOK, RestoreType
  <1>14. ASSUME NEW t \in TxIds, RestoreRead(t)
         PROVE  OthersOK'
    <2>1. /\ restore.todo \ {t} \in SUBSET TxIds
          /\ restore.toBeUpdated \cup {t} \in SUBSET TxIds
          /\ restore.pendingTXs \cup {t} \in SUBSET TxIds
      BY <1>13
    <2> DEFINE S == restore.todo \ {t}
               u == restore.toBeUpdated \cup {t}
               q == restore.pendingTXs \cup {t}
    <2>2. \/ restore' = [restore EXCEPT !.todo = S, !.toBeUpdated = u]
          \/ restore' = [restore EXCEPT !.todo = S, !.pendingTXs = q]
      BY <1>14 DEF RestoreRead
    <2> HIDE DEF S, u, q
    <2>3. restore' \in RestoreType
      <3>1. S \in SUBSET TxIds /\ u \in SUBSET TxIds /\ q \in SUBSET TxIds
        BY <2>1 DEF S, u, q
      <3>2. /\ [restore EXCEPT !.todo = S, !.toBeUpdated = u] \in RestoreType
            /\ [restore EXCEPT !.todo = S, !.pendingTXs = q] \in RestoreType
        BY <1>13, <3>1, RestoreTypes, ZenonT(60)
      <3> QED
        BY <2>2, <3>2
    <2> QED
      BY <1>12, <1>13, <1>14, <2>3 DEF RestoreRead, viewVars, listenVars
  <1>15. ASSUME RestoreNextPhase
         PROVE  OthersOK'
    <2>1. Idle \in RestoreType
      BY DEF Idle, RestoreType
    <2>2. \/ restore' = [restore EXCEPT !.phase = "update"]
          \/ restore' = [restore EXCEPT !.phase = "subscribe"]
          \/ restore' = Idle
      BY <1>15 DEF RestoreNextPhase
    <2>3. restore' \in RestoreType
      BY <1>13, <2>1, <2>2, RestoreTypes
    <2> QED
      BY <1>12, <1>13, <1>15, <2>3 DEF RestoreNextPhase, viewVars, listenVars
  <1>16. ASSUME NEW t \in TxIds, RestoreUpdate(t)
         PROVE  OthersOK'
    <2>1. restore.toBeUpdated \ {t} \in SUBSET TxIds
      BY <1>13
    <2>2. restore' = [restore EXCEPT !.toBeUpdated = restore.toBeUpdated \ {t}]
      BY <1>16 DEF RestoreUpdate
    <2>3. restore' \in RestoreType
      BY <1>13, <2>1, <2>2, RestoreTypes
    <2> QED
      BY <1>12, <1>13, <1>16, <2>3 DEF RestoreUpdate, viewVars, listenVars
  <1>17. ASSUME NEW t \in TxIds, RestoreSubscribe(t)
         PROVE  OthersOK'
    <2>1. restore.pendingTXs \ {t} \in SUBSET TxIds
      BY <1>13
    <2>2. restore' = [restore EXCEPT !.pendingTXs = restore.pendingTXs \ {t}]
      BY <1>17 DEF RestoreSubscribe
    <2>3. restore' \in RestoreType
      BY <1>13, <2>1, <2>2, RestoreTypes
    <2>4. listening' \subseteq TxIds /\ notices' \subseteq TxIds
      BY <1>5, <1>17 DEF RestoreSubscribe
    <2> QED
      BY <1>12, <1>17, <2>3, <2>4 DEF RestoreSubscribe, viewVars
  <1>18. CASE UNCHANGED vars
    BY <1>2, <1>18 DEF vars, networkVars, listenVars
  <1> QED
    BY <1>3, <1>4, <1>6, <1>7, <1>8, <1>9, <1>10, <1>11, <1>14, <1>15, <1>16, <1>17, <1>18
       DEF Next, ViewStep, RestoreStep

\* The state of the auditor has its type: no view locks more than the enrollment
\* ids of its request, only signed requests settle or are rejected, and Restore
\* works on transactions it has records of.
THEOREM TypeCorrect == Spec => []TypeOK
  <1>1. Init => AuditInv
    BY LocksInit, StatusInit, OthersInit DEF AuditInv
  <1>2. AuditInv /\ [Next]_vars => AuditInv'
    BY LocksStep, StatusStep, OthersStep DEF AuditInv
  <1>3. AuditInv => TypeOK
    BY TypesOfAudit
  <1> QED
    BY <1>1, <1>2, <1>3, PTL DEF Spec

-----------------------------------------------------------------------------
\* What a movement record adds to the holdings of an enrollment id, when it is of one
\* of the transactions T, and what all records of a store do.
Counted(e, typ, T, r) == IF r.eid = e /\ r.type = typ /\ r.tx \in T THEN r.amount ELSE 0

CountedIn(e, typ, T, store) ==
    SumFunctionOnSet([i \in DOMAIN store |-> Counted(e, typ, T, store[i])], DOMAIN store)

\* It is an integer.
LEMMA CountedType ==
    ASSUME NEW store \in Seq(MovementRecord), NEW e, NEW typ, NEW T
    PROVE  /\ \A i \in DOMAIN store : Counted(e, typ, T, store[i]) \in Int
           /\ CountedIn(e, typ, T, store) \in Int
  <1> DEFINE D == DOMAIN store
             f == [i \in D |-> Counted(e, typ, T, store[i])]
  <1>1. \A i \in D : Counted(e, typ, T, store[i]) \in Int
    BY StoreFacts DEF Counted
  <1>2. IsFiniteSet(D) /\ \A i \in D : f[i] \in Int
    BY <1>1, StoreFacts
  <1>3. CountedIn(e, typ, T, store) = SumFunctionOnSet(f, D)
    BY DEF CountedIn
  <1> HIDE DEF f, D
  <1>4. SumFunctionOnSet(f, D) \in Int
    BY <1>2, SumType
  <1> QED
    BY <1>1, <1>3, <1>4 DEF D

\* What is appended adds what it counts itself.
LEMMA CountedTogether ==
    ASSUME NEW p \in Seq(MovementRecord), NEW q \in Seq(MovementRecord), NEW e, NEW typ, NEW T
    PROVE  CountedIn(e, typ, T, p \o q) = CountedIn(e, typ, T, p) + CountedIn(e, typ, T, q)
  <1> DEFINE w == [r \in MovementRecord |-> Counted(e, typ, T, r)]
  <1>1. \A r \in MovementRecord : w[r] \in Int
    BY DEF Counted, MovementRecord
  <1>2. ASSUME NEW s \in Seq(MovementRecord)
        PROVE  CountedIn(e, typ, T, s) = Weight(w, s)
    <2>1. \A i \in DOMAIN s : w[s[i]] = Counted(e, typ, T, s[i])
      BY StoreFacts
    <2> HIDE DEF w
    <2>2. [i \in DOMAIN s |-> w[s[i]]] = [i \in DOMAIN s |-> Counted(e, typ, T, s[i])]
      BY <2>1
    <2> QED
      BY <2>2 DEF CountedIn, Weight
  <1>3. p \o q \in Seq(MovementRecord)
    OBVIOUS
  <1>4. /\ CountedIn(e, typ, T, p) = Weight(w, p) /\ CountedIn(e, typ, T, q) = Weight(w, q)
        /\ CountedIn(e, typ, T, p \o q) = Weight(w, p \o q)
    BY <1>2, <1>3
  <1> HIDE DEF w
  <1>5. Weight(w, p \o q) = Weight(w, p) + Weight(w, q)
    BY <1>1, WeightOfConcat
  <1> QED
    BY <1>4, <1>5

\* One more transaction counts on its own.
LEMMA CountedWithOneMore ==
    ASSUME NEW store \in Seq(MovementRecord), NEW e, NEW typ, NEW T, NEW t, t \notin T
    PROVE  CountedIn(e, typ, T \cup {t}, store) =
               CountedIn(e, typ, T, store) + CountedIn(e, typ, {t}, store)
  <1> DEFINE D == DOMAIN store
             f == [i \in D |-> Counted(e, typ, T, store[i])]
             g == [i \in D |-> Counted(e, typ, {t}, store[i])]
             h == [i \in D |-> Counted(e, typ, T \cup {t}, store[i])]
  <1>1. IsFiniteSet(D)
    BY StoreFacts
  <1>2. ASSUME NEW i \in D
        PROVE  f[i] \in Int /\ g[i] \in Int /\ h[i] = f[i] + g[i]
    <2>1. store[i].amount \in Int
      BY StoreFacts
    <2> QED
      BY <2>1 DEF Counted
  <1>3. /\ CountedIn(e, typ, T, store) = SumFunctionOnSet(f, D)
        /\ CountedIn(e, typ, {t}, store) = SumFunctionOnSet(g, D)
        /\ CountedIn(e, typ, T \cup {t}, store) = SumFunctionOnSet(h, D)
    BY DEF CountedIn
  <1> HIDE DEF D, f, g, h
  <1>4. \A i \in D : f[i] \in Int /\ g[i] \in Int /\ h[i] = f[i] + g[i]
    BY <1>2
  <1>5. SumFunctionOnSet(h, D) = SumFunctionOnSet(f, D) + SumFunctionOnSet(g, D)
    BY <1>1, <1>4, SumOfSums
  <1> QED
    BY <1>3, <1>5

\* Transactions without records count nothing.
LEMMA CountedWithout ==
    ASSUME NEW store \in Seq(MovementRecord), NEW e, NEW typ, NEW T,
           \A i \in DOMAIN store : store[i].tx \notin T
    PROVE  CountedIn(e, typ, T, store) = 0
  <1> DEFINE D == DOMAIN store
             f == [i \in D |-> Counted(e, typ, T, store[i])]
  <1>1. IsFiniteSet(D)
    BY StoreFacts
  <1>2. \A i \in D : f[i] = 0
    BY DEF Counted
  <1>3. CountedIn(e, typ, T, store) = SumFunctionOnSet(f, D)
    BY DEF CountedIn
  <1> HIDE DEF D, f
  <1>4. SumFunctionOnSet(f, D) = 0
    BY <1>1, <1>2, SumOfZeros
  <1> QED
    BY <1>3, <1>4

\* The status of a record does not matter.
LEMMA CountedAnyway ==
    ASSUME NEW store \in Seq(MovementRecord), NEW e, NEW typ, NEW T, NEW t, NEW s
    PROVE  CountedIn(e, typ, T, WithStatus(t, s, store)) = CountedIn(e, typ, T, store)
  <1> DEFINE D == DOMAIN store
             new(i) == IF store[i].tx = t THEN [store[i] EXCEPT !.status = s] ELSE store[i]
  <1>1. DOMAIN WithStatus(t, s, store) = D /\ \A i \in D : WithStatus(t, s, store)[i] = new(i)
    BY DEF WithStatus
  <1>2. ASSUME NEW i \in D
        PROVE  Counted(e, typ, T, new(i)) = Counted(e, typ, T, store[i])
    <2> DEFINE r == store[i]
               x == [r EXCEPT !.status = s]
    <2>1. r \in MovementRecord
      BY StoreFacts
    <2> HIDE DEF r
    <2>2. x.eid = r.eid /\ x.type = r.type /\ x.tx = r.tx /\ x.amount = r.amount
      BY <2>1 DEF MovementRecord
    <2> HIDE DEF x
    <2>3. Counted(e, typ, T, x) = Counted(e, typ, T, r)
      BY <2>2 DEF Counted
    <2> QED
      BY <2>3 DEF r, x
  <1> HIDE DEF new
  <1>3. \A i \in D : Counted(e, typ, T, WithStatus(t, s, store)[i]) = Counted(e, typ, T, store[i])
    BY <1>1, <1>2
  <1>4. [i \in DOMAIN WithStatus(t, s, store) |-> Counted(e, typ, T, WithStatus(t, s, store)[i])]
            = [i \in D |-> Counted(e, typ, T, store[i])]
    BY <1>1, <1>3
  <1> QED
    BY <1>1, <1>4 DEF CountedIn

\* Of the net movements of a request, each once, the one of an enrollment id and a
\* type counts.
LEMMA CountedOnce ==
    ASSUME NEW t \in TxIds, NEW s \in Seq(MovementRecord), IsInjective(s),
           Range(s) \subseteq NetMovements(t), NEW e, NEW typ
    PROVE  CountedIn(e, typ, {t}, s) =
               IF Movement(t, e, typ) \in Range(s) THEN Diff(t, e, typ) ELSE 0
  <1> DEFINE D == DOMAIN s
             w == [i \in D |-> Counted(e, typ, {t}, s[i])]
             m == Movement(t, e, typ)
  <1>1. IsFiniteSet(D) /\ \A i \in D : Counted(e, typ, {t}, s[i]) \in Int
    BY StoreFacts, CountedType
  <1>2. m.tx = t /\ m.eid = e /\ m.type = typ /\ m.amount = Diff(t, e, typ)
    BY DEF Movement
  <1>3. ASSUME NEW i \in D, s[i] # m
        PROVE  w[i] = 0
    <2>1. s[i] \in Range(s)
      BY DEF Range
    <2>2. PICK f \in Range(LockOrder[t]), typ2 \in TypesIn(AuditOutputs[t]) : s[i] = Movement(t, f, typ2)
      BY <2>1 DEF NetMovements
    <2>3. s[i].eid = f /\ s[i].type = typ2
      BY <2>2 DEF Movement
    <2>4. ~(s[i].eid = e /\ s[i].type = typ)
      BY <1>3, <2>2, <2>3
    <2> QED
      BY <2>4 DEF Counted
  <1>4. ASSUME NEW i \in D, s[i] = m
        PROVE  w[i] = Diff(t, e, typ)
    BY <1>2, <1>4 DEF Counted
  <1>5. \A i, j \in D : s[i] = s[j] => i = j
    BY DEF IsInjective
  <1>6. \A i \in D : w[i] \in Int
    BY <1>1
  <1>7. CountedIn(e, typ, {t}, s) = SumFunctionOnSet(w, D)
    BY DEF CountedIn
  <1>8. Range(s) = {s[i] : i \in D}
    BY DEF Range
  <1> HIDE DEF D, w, m
  <1>9. CASE m \notin Range(s)
    <2>1. \A i \in D : w[i] = 0
      BY <1>3, <1>8, <1>9
    <2>2. SumFunctionOnSet(w, D) = 0
      BY <1>1, <2>1, SumOfZeros
    <2> QED
      BY <1>7, <1>9, <2>2 DEF m
  <1>10. CASE m \in Range(s)
    <2>1. PICK i \in D : s[i] = m
      BY <1>8, <1>10
    <2>2. \A j \in D \ {i} : w[j] = 0
      BY <1>3, <1>5, <2>1
    <2>3. IsFiniteSet(D \ {i})
      BY <1>1, FS_Subset
    <2>4. SumFunctionOnSet(w, D \ {i}) = 0
      BY <2>2, <2>3, SumOfZeros
    <2>5. SumFunctionOnSet(w, D) = w[i] + SumFunctionOnSet(w, D \ {i})
      BY <1>1, <1>6, SumTakes
    <2>6. SumFunctionOnSet(w, D) = w[i] /\ w[i] = Diff(t, e, typ)
      BY <1>4, <1>6, <2>1, <2>4, <2>5
    <2> QED
      BY <1>7, <1>10, <2>6 DEF m
  <1> QED
    BY <1>9, <1>10

\* Sums over a stream are natural numbers, and 0 for what is not in the stream.
LEMMA SumOfStream ==
    ASSUME NEW s \in Seq(AuditItem), NEW e, NEW typ
    PROVE  /\ SumOf(s, e, typ) \in Nat
           /\ e \notin {s[i].eid : i \in DOMAIN s} \/ typ \notin TypesIn(s) => SumOf(s, e, typ) = 0
  <1> DEFINE S == {i \in DOMAIN s : s[i].eid = e /\ s[i].type = typ}
             f == [i \in DOMAIN s |-> s[i].quantity]
  <1>1. IsFiniteSet(S)
    <2>1. IsFiniteSet(DOMAIN s)
      BY SequenceIsFinite
    <2>2. S \in SUBSET DOMAIN s
      OBVIOUS
    <2> HIDE DEF S
    <2> QED
      BY <2>1, <2>2, FS_Subset
  <1>2. \A i \in S : f[i] \in Nat
    <2>1. \A i \in DOMAIN s : s[i] \in AuditItem
      OBVIOUS
    <2> QED
      BY <2>1 DEF AuditItem
  <1>3. SumOf(s, e, typ) = SumFunctionOnSet(f, S)
    BY DEF SumOf
  <1>4. e \notin {s[i].eid : i \in DOMAIN s} \/ typ \notin TypesIn(s) => S = {}
    BY DEF TypesIn
  <1> HIDE DEF S, f
  <1>5. SumFunctionOnSet(f, S) \in Nat
    BY <1>1, <1>2, SumNat
  <1>6. S = {} => SumFunctionOnSet(f, S) = 0
    BY SumOfNothing
  <1> QED
    BY <1>3, <1>4, <1>5, <1>6

\* What a request appends says what it moves to and from every enrollment id, in
\* every type.
LEMMA CountedByRequest ==
    ASSUME NEW t \in TxIds, NEW e \in EnrollmentIDs, NEW typ
    PROVE  CountedIn(e, typ, {t}, NewMovements(t)) = Diff(t, e, typ)
  <1> DEFINE s == SendMovements[t]
             r == ReceivedMovements[t]
             m == Movement(t, e, typ)
             n == Diff(t, e, typ)
  <1>1. /\ s \in Seq(MovementRecord) /\ IsInjective(s)
        /\ r \in Seq(MovementRecord) /\ IsInjective(r)
        /\ Range(s) = {x \in NetMovements(t) : x.amount < 0}
        /\ Range(r) = {x \in NetMovements(t) : x.amount > 0}
    BY RecordsAssumption
  <1>2. CountedIn(e, typ, {t}, s) = IF m \in Range(s) THEN n ELSE 0
    <2>1. Range(s) \subseteq NetMovements(t)
      BY <1>1
    <2> QED
      BY <1>1, <2>1, CountedOnce
  <1>3. CountedIn(e, typ, {t}, r) = IF m \in Range(r) THEN n ELSE 0
    <2>1. Range(r) \subseteq NetMovements(t)
      BY <1>1
    <2> QED
      BY <1>1, <2>1, CountedOnce
  <1>4. CountedIn(e, typ, {t}, NewMovements(t)) =
            CountedIn(e, typ, {t}, s) + CountedIn(e, typ, {t}, r)
    BY <1>1, CountedTogether DEF NewMovements
  <1>5. AuditInputs[t] \in Seq(AuditItem) /\ AuditOutputs[t] \in Seq(AuditItem)
    BY StreamsAssumption
  <1>6. /\ SumOf(AuditInputs[t], e, typ) \in Nat /\ SumOf(AuditOutputs[t], e, typ) \in Nat
        /\ n = SumOf(AuditOutputs[t], e, typ) - SumOf(AuditInputs[t], e, typ)
    BY <1>5, SumOfStream DEF Diff
  <1>7. m.amount = n
    BY DEF Movement
  <1>8. CASE e \in Range(LockOrder[t]) /\ typ \in TypesIn(AuditOutputs[t])
    <2>1. m \in NetMovements(t)
      BY <1>8 DEF NetMovements
    <2>2. (m \in Range(s) <=> n < 0) /\ (m \in Range(r) <=> n > 0)
      BY <1>1, <1>7, <2>1
    <2> HIDE DEF s, r, m, n
    <2>3. n \in Int
      BY <1>6
    <2>4. CountedIn(e, typ, {t}, NewMovements(t)) = n
      BY <1>2, <1>3, <1>4, <2>2, <2>3
    <2> QED
      BY <2>4 DEF n
  <1>9. CASE e \notin Range(LockOrder[t]) \/ typ \notin TypesIn(AuditOutputs[t])
    <2>1. e # NoEID
      BY EnrollmentAssumption
    <2>2. \/ /\ e \notin {AuditInputs[t][i].eid : i \in DOMAIN AuditInputs[t]}
             /\ e \notin {AuditOutputs[t][i].eid : i \in DOMAIN AuditOutputs[t]}
          \/ typ \notin TypesIn(AuditInputs[t]) /\ typ \notin TypesIn(AuditOutputs[t])
      <3>1. CASE e \notin Range(LockOrder[t])
        BY <2>1, <3>1, StreamsAssumption DEF EIDsIn
      <3>2. CASE typ \notin TypesIn(AuditOutputs[t])
        BY <3>2, TypesAssumption
      <3> QED
        BY <1>9, <3>1, <3>2
    <2>3. SumOf(AuditInputs[t], e, typ) = 0 /\ SumOf(AuditOutputs[t], e, typ) = 0
      BY <1>5, <2>2, SumOfStream
    <2>4. n = 0
      BY <1>6, <2>3
    <2> HIDE DEF s, r, m, n
    <2>5. CountedIn(e, typ, {t}, NewMovements(t)) = n
      BY <1>2, <1>3, <1>4, <2>4
    <2> QED
      BY <2>5 DEF n
  <1> QED
    BY <1>8, <1>9

-----------------------------------------------------------------------------
\* The tokens there are, and what each of them adds to the holdings of an enrollment id.
CreatedTokens == UNION {CreatedIds(t) : t \in TxIds}

ItemOf(id) == AuditOutputs[id[1]][id[2] + 1]

Held(e, typ) ==
    [id \in CreatedTokens |-> IF ItemOf(id).eid = e /\ ItemOf(id).type = typ
                              THEN ItemOf(id).quantity ELSE 0]

\* A token is an output of its request.
LEMMA TokenIsItem ==
    ASSUME NEW t \in TxIds, NEW j \in DOMAIN AuditOutputs[t]
    PROVE  /\ ItemOf(<<t, j - 1>>) = AuditOutputs[t][j]
           /\ AuditOutputs[t][j] \in AuditItem
           /\ j \in Nat
  <1>1. AuditOutputs[t] \in Seq(AuditItem)
    BY StreamsAssumption
  <1>2. j \in Nat /\ (j - 1) + 1 = j /\ AuditOutputs[t][j] \in AuditItem
    BY <1>1
  <1> QED
    BY <1>2 DEF ItemOf

\* What it is worth is a natural number.
LEMMA TokensAreItems ==
    ASSUME NEW id \in CreatedTokens
    PROVE  ItemOf(id) \in AuditItem /\ \A e, typ : Held(e, typ)[id] \in Nat
  <1>1. PICK t \in TxIds : id \in CreatedIds(t)
    BY DEF CreatedTokens
  <1>2. PICK j \in DOMAIN AuditOutputs[t] : id = <<t, j - 1>>
    BY <1>1 DEF CreatedIds
  <1>3. ItemOf(id) \in AuditItem
    BY <1>2, TokenIsItem
  <1>4. ItemOf(id).quantity \in Nat
    BY <1>3 DEF AuditItem
  <1> QED
    BY <1>3, <1>4 DEF Held

\* The tokens a request creates are worth what its outputs say.
LEMMA CreatedIsOutput ==
    ASSUME NEW t \in TxIds, NEW e \in EnrollmentIDs, NEW typ
    PROVE  /\ CreatedIds(t) \subseteq CreatedTokens /\ IsFiniteSet(CreatedIds(t))
           /\ SumFunctionOnSet(Held(e, typ), CreatedIds(t)) = SumOf(AuditOutputs[t], e, typ)
  <1> DEFINE out == AuditOutputs[t]
             D == DOMAIN out
             K == {j \in D : out[j].eid # NoEID}
             S == {j \in D : out[j].eid = e /\ out[j].type = typ}
             m == [j \in D |-> <<t, j - 1>>]
             f == [j \in D |-> out[j].quantity]
             g == [j \in D |-> Held(e, typ)[m[j]]]
             C == CreatedIds(t)
             H == Held(e, typ)
  <1>1. C \subseteq CreatedTokens
    BY DEF CreatedTokens
  <1>2. out \in Seq(AuditItem)
    BY StreamsAssumption
  <1>3. IsFiniteSet(D)
    BY <1>2, SequenceIsFinite
  <1>4. \A j \in D : out[j] \in AuditItem /\ j \in Nat /\ ItemOf(m[j]) = out[j]
    BY TokenIsItem
  <1>5. C = {m[j] : j \in K}
    BY DEF CreatedIds
  <1>6. \A i, j \in K : m[i] = m[j] => i = j
    BY <1>4
  <1>7. e # NoEID
    BY EnrollmentAssumption
  <1>8. S \in SUBSET K /\ K \in SUBSET D
    BY <1>7
  <1>9. ASSUME NEW j \in K
        PROVE  /\ m[j] \in CreatedTokens /\ H[m[j]] \in Int /\ g[j] = H[m[j]]
               /\ g[j] = IF j \in S THEN f[j] ELSE 0
    <2>1. m[j] \in CreatedTokens
      BY <1>1, <1>5
    <2>2. H[m[j]] \in Nat
      BY <2>1, TokensAreItems
    <2>3. H[m[j]] = IF ItemOf(m[j]).eid = e /\ ItemOf(m[j]).type = typ
                    THEN ItemOf(m[j]).quantity ELSE 0
      BY <2>1 DEF Held
    <2>4. H[m[j]] = IF j \in S THEN f[j] ELSE 0
      BY <1>4, <2>3
    <2> QED
      BY <2>1, <2>2, <2>4
  <1>10. SumOf(AuditOutputs[t], e, typ) = SumFunctionOnSet(f, S)
    BY DEF SumOf
  <1> HIDE DEF out, D, K, S, m, f, g, C, H
  <1>11. IsFiniteSet(K) /\ IsFiniteSet(S)
    BY <1>3, <1>8, FS_Subset
  <1>12. /\ \A j \in K : m[j] \in C
         /\ \A id \in C : \E j \in K : id = m[j]
    BY <1>5
  <1>13. \A j \in K : H[m[j]] \in Int /\ g[j] = H[m[j]]
    BY <1>9
  <1>14. IsFiniteSet(C) /\ SumFunctionOnSet(H, C) = SumFunctionOnSet(g, K)
    BY <1>6, <1>11, <1>12, <1>13, SumOfImage, SMTT(60)
  <1>15. \A j \in K : g[j] \in Int
    BY <1>13
  <1>16. \A j \in K \ S : g[j] = 0
    BY <1>9
  <1>17. SumFunctionOnSet(g, K) = SumFunctionOnSet(g, S)
    BY <1>8, <1>11, <1>15, <1>16, SumOfPart
  <1>18. \A j \in S : g[j] \in Int /\ f[j] = g[j]
    BY <1>8, <1>9, <1>15
  <1>19. SumFunctionOnSet(g, S) = SumFunctionOnSet(f, S)
    BY <1>11, <1>18, SumEqual
  <1>20. SumFunctionOnSet(H, C) = SumOf(AuditOutputs[t], e, typ)
    BY <1>10, <1>14, <1>17, <1>19
  <1> QED
    BY <1>1, <1>14, <1>20 DEF C, H

\* What an enrollment id has on the ledger, what the auditor counted as inputs of the
\* requests that settled, and what left the ledger with them: less, when a request names
\* a token twice.
HeldOnLedger(e, typ) == SumFunctionOnSet(Held(e, typ), unspent)

NamedBy(e, typ) == [t \in TxIds |-> SumOf(AuditInputs[t], e, typ)]
GoneBy(e, typ) == [t \in TxIds |-> SumFunctionOnSet(Held(e, typ), InputsOf(t))]

Named(e, typ) == SumFunctionOnSet(NamedBy(e, typ), settled)
Gone(e, typ) == SumFunctionOnSet(GoneBy(e, typ), settled)

\* The ledger is finite, and what is consumed was created.
LedgerOK ==
    /\ IsFiniteSet(unspent) /\ unspent \subseteq CreatedTokens
    /\ IsFiniteSet(settled) /\ settled \subseteq TxIds
    /\ \A t \in settled : IsFiniteSet(InputsOf(t)) /\ InputsOf(t) \subseteq CreatedTokens

\* The sums over it are numbers.
LEMMA LedgerSums ==
    ASSUME LedgerOK, NEW e, NEW typ
    PROVE  /\ \A t \in settled : NamedBy(e, typ)[t] \in Nat /\ GoneBy(e, typ)[t] \in Nat
           /\ HeldOnLedger(e, typ) \in Nat /\ Named(e, typ) \in Nat /\ Gone(e, typ) \in Nat
  <1> DEFINE H == Held(e, typ)
             n == NamedBy(e, typ)
             g == GoneBy(e, typ)
  <1>1. \A id \in CreatedTokens : H[id] \in Nat
    BY TokensAreItems
  <1>2. ASSUME NEW t \in settled
        PROVE  n[t] \in Nat /\ g[t] \in Nat
    <2>1. t \in TxIds /\ AuditInputs[t] \in Seq(AuditItem)
      BY StreamsAssumption DEF LedgerOK
    <2>2. n[t] = SumOf(AuditInputs[t], e, typ) /\ g[t] = SumFunctionOnSet(H, InputsOf(t))
      BY <2>1 DEF NamedBy, GoneBy
    <2>3. IsFiniteSet(InputsOf(t)) /\ \A id \in InputsOf(t) : H[id] \in Nat
      BY <1>1 DEF LedgerOK
    <2> HIDE DEF H, n, g
    <2>4. SumFunctionOnSet(H, InputsOf(t)) \in Nat
      BY <2>3, SumNat
    <2> QED
      BY <2>1, <2>2, <2>4, SumOfStream
  <1>3. /\ HeldOnLedger(e, typ) = SumFunctionOnSet(H, unspent)
        /\ Named(e, typ) = SumFunctionOnSet(n, settled) /\ Gone(e, typ) = SumFunctionOnSet(g, settled)
    BY DEF HeldOnLedger, Named, Gone
  <1>4. IsFiniteSet(unspent) /\ IsFiniteSet(settled) /\ \A id \in unspent : H[id] \in Nat
    BY <1>1 DEF LedgerOK
  <1> HIDE DEF H, n, g
  <1>5. SumFunctionOnSet(H, unspent) \in Nat
    BY <1>4, SumNat
  <1>6. SumFunctionOnSet(n, settled) \in Nat /\ SumFunctionOnSet(g, settled) \in Nat
    <2>1. \A t \in settled : n[t] \in Nat
      BY <1>2
    <2>2. \A t \in settled : g[t] \in Nat
      BY <1>2
    <2> QED
      BY <1>4, <2>1, <2>2, SumNat
  <1> QED
    BY <1>2, <1>3, <1>5, <1>6 DEF n, g

\* The ledger stays finite.
LEMMA SettleKeepsLedger ==
    ASSUME LedgerOK, NEW t \in TxIds, Network!Settle(t)
    PROVE  LedgerOK' /\ t \notin settled /\ IsFiniteSet(CreatedIds(t))
  <1> DEFINE K == {j \in DOMAIN AuditOutputs[t] : AuditOutputs[t][j].eid # NoEID}
             m == [j \in K |-> <<t, j - 1>>]
             C == CreatedIds(t)
             I == InputsOf(t)
  <1>1. /\ I \in SUBSET unspent /\ unspent' = (unspent \ I) \cup C
        /\ t \notin settled /\ settled' = settled \cup {t}
    BY DEF Network!Settle
  <1>2. C \subseteq CreatedTokens
    BY DEF CreatedTokens
  <1>3. IsFiniteSet(DOMAIN AuditOutputs[t])
    BY StreamsAssumption, SequenceIsFinite
  <1>4. K \in SUBSET DOMAIN AuditOutputs[t]
    OBVIOUS
  <1>5. C = {m[j] : j \in K}
    BY DEF CreatedIds
  <1>6. m \in Surjection(K, C)
    BY <1>5 DEF Surjection
  <1> HIDE DEF K, m, C, I
  <1>7. IsFiniteSet(K)
    BY <1>3, <1>4, FS_Subset
  <1>8. IsFiniteSet(C)
    BY <1>6, <1>7, FS_Surjection
  <1>9. IsFiniteSet(unspent \ I) /\ IsFiniteSet(I)
    BY <1>1, FS_Subset DEF LedgerOK
  <1>10. IsFiniteSet((unspent \ I) \cup C)
    BY <1>8, <1>9, FS_Union
  <1>11. unspent' \subseteq CreatedTokens /\ I \subseteq CreatedTokens
    BY <1>1, <1>2 DEF LedgerOK
  <1>12. IsFiniteSet(settled \cup {t})
    BY FS_AddElement DEF LedgerOK
  <1>13. IsFiniteSet(unspent') /\ IsFiniteSet(settled') /\ settled' \subseteq TxIds
    BY <1>1, <1>10, <1>12 DEF LedgerOK
  <1>14. \A u \in settled' : IsFiniteSet(InputsOf(u)) /\ InputsOf(u) \subseteq CreatedTokens
    BY <1>1, <1>9, <1>11 DEF LedgerOK, I
  <1> QED
    BY <1>1, <1>8, <1>11, <1>13, <1>14 DEF LedgerOK, C

\* Settling adds the outputs of the request and takes what its inputs are worth, each
\* once; named is what they are worth as often as they are named.
LEMMA SettleMoves ==
    ASSUME LedgerOK, NEW t \in TxIds, Network!Settle(t), NEW e \in EnrollmentIDs, NEW typ
    PROVE  \E g \in Int :
               /\ SumOf(AuditInputs[t], e, typ) \in Int /\ SumOf(AuditOutputs[t], e, typ) \in Int
               /\ HeldOnLedger(e, typ)' = HeldOnLedger(e, typ) + SumOf(AuditOutputs[t], e, typ) - g
               /\ Gone(e, typ)' = Gone(e, typ) + g
               /\ Named(e, typ)' = Named(e, typ) + SumOf(AuditInputs[t], e, typ)
  <1> DEFINE H == Held(e, typ)
             I == InputsOf(t)
             C == CreatedIds(t)
             U == unspent
             n == NamedBy(e, typ)
             k == GoneBy(e, typ)
             g == SumFunctionOnSet(H, I)
             out == SumOf(AuditOutputs[t], e, typ)
             in == SumOf(AuditInputs[t], e, typ)
  <1>1. /\ I \in SUBSET U /\ C \cap U = {} /\ unspent' = (U \ I) \cup C
        /\ t \notin settled /\ settled' = settled \cup {t}
    BY DEF Network!Settle
  <1>2. C \subseteq CreatedTokens /\ IsFiniteSet(C) /\ SumFunctionOnSet(H, C) = out
    BY CreatedIsOutput
  <1>3. \A id \in CreatedTokens : H[id] \in Int
    BY TokensAreItems
  <1>4. /\ HeldOnLedger(e, typ) = SumFunctionOnSet(H, U)
        /\ HeldOnLedger(e, typ)' = SumFunctionOnSet(H, (U \ I) \cup C)
    BY <1>1 DEF HeldOnLedger
  <1>5. U \subseteq CreatedTokens /\ IsFiniteSet(U) /\ IsFiniteSet(settled)
    BY DEF LedgerOK
  <1>6. \A u \in settled : n[u] \in Int /\ k[u] \in Int
    BY LedgerSums
  <1>7. n[t] = in /\ k[t] = g
    BY DEF NamedBy, GoneBy
  <1>8. /\ Named(e, typ) = SumFunctionOnSet(n, settled) /\ Gone(e, typ) = SumFunctionOnSet(k, settled)
        /\ Named(e, typ)' = SumFunctionOnSet(n, settled \cup {t})
        /\ Gone(e, typ)' = SumFunctionOnSet(k, settled \cup {t})
    BY <1>1 DEF Named, Gone
  <1>9. in \in Nat
    BY StreamsAssumption, SumOfStream
  <1> HIDE DEF H, I, C, U, n, k, in, out
  <1>10. IsFiniteSet(I) /\ IsFiniteSet(U \ I)
    BY <1>1, <1>5, FS_Subset
  <1>11. /\ \A id \in U : H[id] \in Int
         /\ \A id \in I : H[id] \in Int
         /\ \A id \in C : H[id] \in Int
         /\ \A id \in (U \ I) \cup C : H[id] \in Int
         /\ (U \ I) \cap C = {}
    BY <1>1, <1>2, <1>3, <1>5
  <1>12. SumFunctionOnSet(H, U \ I) = SumFunctionOnSet(H, U) - SumFunctionOnSet(H, I)
    BY <1>1, <1>5, <1>11, SumMinus
  <1>13. SumFunctionOnSet(H, (U \ I) \cup C) = SumFunctionOnSet(H, U \ I) + SumFunctionOnSet(H, C)
    BY <1>2, <1>10, <1>11, SumUnion
  <1>14. SumFunctionOnSet(H, U) \in Int /\ g \in Int /\ out \in Int
    BY <1>2, <1>5, <1>10, <1>11, SumType
  <1>15. HeldOnLedger(e, typ)' = HeldOnLedger(e, typ) + out - g
    BY <1>2, <1>4, <1>12, <1>13, <1>14
  <1>16. /\ SumFunctionOnSet(n, settled \cup {t}) = n[t] + SumFunctionOnSet(n, settled)
         /\ SumFunctionOnSet(n, settled) \in Int
    <2>1. (\A u \in settled \cup {t} : n[u] \in Int) /\ (\A u \in settled : n[u] \in Int)
      BY <1>6, <1>7, <1>9
    <2> QED
      BY <1>1, <1>5, <2>1, SumAdd, SumType
  <1>17. /\ SumFunctionOnSet(k, settled \cup {t}) = k[t] + SumFunctionOnSet(k, settled)
         /\ SumFunctionOnSet(k, settled) \in Int
    <2>1. (\A u \in settled \cup {t} : k[u] \in Int) /\ (\A u \in settled : k[u] \in Int)
      BY <1>6, <1>7, <1>14
    <2> QED
      BY <1>1, <1>5, <2>1, SumAdd, SumType
  <1>18. Gone(e, typ)' = Gone(e, typ) + g /\ Named(e, typ)' = Named(e, typ) + in
    BY <1>7, <1>8, <1>9, <1>14, <1>16, <1>17
  <1> HIDE DEF g
  <1> QED
    BY <1>9, <1>14, <1>15, <1>18 DEF in, out

\* Every request with records counts in full, and those that settled account for the
\* unspent tokens.
AppendedInFull ==
    \A t \in TxIds : (\E r \in Range(transactions) : r.tx = t) =>
        \A e \in EnrollmentIDs, typ \in TokenTypes :
            CountedIn(e, typ, {t}, movements) = Diff(t, e, typ)

SettledIsHeld ==
    \A e \in EnrollmentIDs, typ \in TokenTypes :
        CountedIn(e, typ, settled, movements) + Named(e, typ) = HeldOnLedger(e, typ) + Gone(e, typ)

HoldingsInv ==
    /\ AuditInv
    /\ LedgerOK
    /\ AppendedInFull
    /\ SettledIsHeld

\* Nobody has anything at first.
LEMMA HoldingsInit == Init => HoldingsInv
  <1> SUFFICES ASSUME Init PROVE HoldingsInv
    OBVIOUS
  <1>1. /\ movements = << >> /\ transactions = << >>
        /\ unspent = {} /\ settled = {}
    BY DEF Init, DBInit, Network!Init
  <1>2. Range(transactions) = {} /\ DOMAIN movements = {}
    BY <1>1 DEF Range
  <1>3. AppendedInFull
    BY <1>2 DEF AppendedInFull
  <1>4. ASSUME NEW e, NEW typ
        PROVE  /\ CountedIn(e, typ, settled, movements) = 0 /\ HeldOnLedger(e, typ) = 0
               /\ Named(e, typ) = 0 /\ Gone(e, typ) = 0
    BY <1>1, <1>2, SumOfNothing DEF CountedIn, HeldOnLedger, Named, Gone
  <1>5. SettledIsHeld
    BY <1>4 DEF SettledIsHeld
  <1>6. LedgerOK
    BY <1>1, FS_EmptySet DEF LedgerOK
  <1>7. AuditInv
    BY LocksInit, StatusInit, OthersInit DEF AuditInv
  <1> QED
    BY <1>3, <1>5, <1>6, <1>7 DEF HoldingsInv

\* A step that changes neither the records nor the ledger.
LEMMA KeepsHoldings ==
    ASSUME HoldingsInv, UNCHANGED <<movements, transactions, unspent, settled>>
    PROVE  LedgerOK' /\ AppendedInFull' /\ SettledIsHeld'
  <1>1. AppendedInFull'
    BY DEF HoldingsInv, AppendedInFull
  <1>2. SettledIsHeld'
    BY DEF HoldingsInv, SettledIsHeld, HeldOnLedger, Named, Gone
  <1>3. LedgerOK'
    BY DEF HoldingsInv, LedgerOK
  <1> QED
    BY <1>1, <1>2, <1>3

\* A request that is about to be appended has no records, and is not settled.
LEMMA AppendedBeforeSettled ==
    ASSUME AuditInv, NEW t \in TxIds
    PROVE  /\ t \in settled => \E r \in Range(transactions) : r.tx = t
           /\ view[t] = "append" =>
                  t \notin settled /\ \A r \in Range(movements) \cup Range(transactions) : r.tx # t
  <1>1. t \in settled => t \in approved
    BY DEF AuditInv, OthersOK
  <1>2. t \in approved => \E r \in Range(transactions) : r.tx = t
    BY DEF AuditInv, StatusInv, AppendedBeforeSigned
  <1>3. view[t] = "append" => \A r \in Range(movements) \cup Range(transactions) : r.tx # t
    BY DEF AuditInv, StatusInv, AppendedOnce, Before
  <1> QED
    BY <1>1, <1>2, <1>3

\* Append: the request counts in full, and the others as before.
LEMMA AppendKeepsHoldings ==
    ASSUME HoldingsInv, NEW t \in TxIds, AppendRecords(t), HasSingleSenders(t)
    PROVE  LedgerOK' /\ AppendedInFull' /\ SettledIsHeld'
  <1>1. /\ view[t] = "append"
        /\ movements' = movements \o NewMovements(t)
        /\ transactions' = transactions \o NewTransactions(t)
        /\ UNCHANGED <<unspent, settled>>
    BY DEF AppendRecords, AppendRequest, Commit, NewMovements, NewTransactions, networkVars
  <1>2. AuditInv
    BY DEF HoldingsInv
  <1>3. /\ movements \in Seq(MovementRecord) /\ NewMovements(t) \in Seq(MovementRecord)
        /\ transactions \in Seq(TransactionRecord) /\ NewTransactions(t) \in Seq(TransactionRecord)
    BY <1>2, NewMovementsAre, NewTransactionsAre DEF AuditInv, StatusInv
  <1>4. t \notin settled /\ \A r \in Range(movements) \cup Range(transactions) : r.tx # t
    BY <1>1, <1>2, AppendedBeforeSettled
  <1>5. \A i \in DOMAIN movements : movements[i].tx # t
    BY <1>4 DEF Range
  <1>6. \A i \in DOMAIN NewMovements(t) : NewMovements(t)[i].tx = t
    BY NewMovementsAre DEF Range
  <1>7. ASSUME NEW e \in EnrollmentIDs, NEW typ \in TokenTypes, NEW T
        PROVE  CountedIn(e, typ, T, movements') =
                   CountedIn(e, typ, T, movements) + CountedIn(e, typ, T, NewMovements(t))
    BY <1>1, <1>3, CountedTogether
  <1>8. ASSUME NEW e \in EnrollmentIDs, NEW typ \in TokenTypes, NEW T, t \notin T
        PROVE  CountedIn(e, typ, T, movements') = CountedIn(e, typ, T, movements)
    <2>1. \A i \in DOMAIN NewMovements(t) : NewMovements(t)[i].tx \notin T
      BY <1>6, <1>8
    <2>2. CountedIn(e, typ, T, NewMovements(t)) = 0
      BY <1>3, <2>1, CountedWithout
    <2>3. CountedIn(e, typ, T, movements) \in Int
      BY <1>3, CountedType
    <2> QED
      BY <1>7, <2>2, <2>3
  <1>9. ASSUME NEW e \in EnrollmentIDs, NEW typ \in TokenTypes
        PROVE  CountedIn(e, typ, {t}, movements') = Diff(t, e, typ)
    <2>1. \A i \in DOMAIN movements : movements[i].tx \notin {t}
      BY <1>5
    <2>2. CountedIn(e, typ, {t}, movements) = 0
      BY <1>3, <2>1, CountedWithout
    <2>3. CountedIn(e, typ, {t}, NewMovements(t)) = Diff(t, e, typ)
      BY CountedByRequest
    <2>4. CountedIn(e, typ, {t}, NewMovements(t)) \in Int
      BY <1>3, CountedType
    <2>5. CountedIn(e, typ, {t}, movements') = 0 + CountedIn(e, typ, {t}, NewMovements(t))
      BY <1>7, <2>2
    <2> QED
      BY <2>3, <2>4, <2>5
  <1>10. Range(transactions') = Range(transactions) \cup Range(NewTransactions(t))
    BY <1>1, <1>3, RangeConcatenation
  <1>11. \A r \in Range(NewTransactions(t)) : r.tx = t
    BY <1>3, NewTransactionsAre
  <1>12. ASSUME NEW u \in TxIds, \E r \in Range(transactions') : r.tx = u,
                NEW e \in EnrollmentIDs, NEW typ \in TokenTypes
         PROVE  CountedIn(e, typ, {u}, movements') = Diff(u, e, typ)
    <2>1. CASE u = t
      BY <1>9, <2>1
    <2>2. CASE u # t
      <3>1. \E r \in Range(transactions) : r.tx = u
        BY <1>10, <1>11, <1>12, <2>2
      <3>2. CountedIn(e, typ, {u}, movements) = Diff(u, e, typ)
        BY <3>1 DEF HoldingsInv, AppendedInFull
      <3> QED
        BY <1>8, <2>2, <3>2
    <2> QED
      BY <2>1, <2>2
  <1>13. AppendedInFull'
    BY <1>12 DEF AppendedInFull
  <1>14. ASSUME NEW e \in EnrollmentIDs, NEW typ \in TokenTypes
         PROVE  CountedIn(e, typ, settled', movements') + Named(e, typ)'
                    = HeldOnLedger(e, typ)' + Gone(e, typ)'
    <2>1. CountedIn(e, typ, settled, movements') = CountedIn(e, typ, settled, movements)
      BY <1>4, <1>8
    <2>2. CountedIn(e, typ, settled, movements) + Named(e, typ) = HeldOnLedger(e, typ) + Gone(e, typ)
      BY DEF HoldingsInv, SettledIsHeld
    <2>3. /\ HeldOnLedger(e, typ)' = HeldOnLedger(e, typ)
          /\ Named(e, typ)' = Named(e, typ) /\ Gone(e, typ)' = Gone(e, typ)
      BY <1>1 DEF HeldOnLedger, Named, Gone
    <2> QED
      BY <1>1, <2>1, <2>2, <2>3
  <1>15. SettledIsHeld'
    BY <1>14 DEF SettledIsHeld
  <1>16. LedgerOK'
    BY <1>1 DEF HoldingsInv, LedgerOK
  <1> QED
    BY <1>13, <1>15, <1>16

\* SetStatus changes nobody's amounts.
LEMMA SetStatusKeepsHoldings ==
    ASSUME HoldingsInv, NEW t \in settled \cup rejected, SetStatus(t, Outcome(t)),
           UNCHANGED <<unspent, settled>>
    PROVE  LedgerOK' /\ AppendedInFull' /\ SettledIsHeld'
  <1> DEFINE s == Outcome(t)
  <1>1. /\ movements \in Seq(MovementRecord) /\ movements' = WithStatus(t, s, movements)
        /\ transactions \in Seq(TransactionRecord) /\ transactions' = WithStatus(t, s, transactions)
    BY DEF SetStatus, HoldingsInv, AuditInv, StatusInv
  <1>2. s \in Statuses
    BY DEF Outcome, Statuses
  <1> HIDE DEF s
  <1>3. \A e, typ, T : CountedIn(e, typ, T, movements') = CountedIn(e, typ, T, movements)
    BY <1>1, CountedAnyway
  <1>4. \A r \in TransactionRecord : [r EXCEPT !.status = s] \in TransactionRecord
    BY <1>2 DEF TransactionRecord
  <1>5. Range(transactions') = {IF r.tx = t THEN [r EXCEPT !.status = s] ELSE r : r \in Range(transactions)}
    <2>1. transactions \in Seq(TransactionRecord) /\ transactions' = WithStatus(t, s, transactions)
      BY <1>1
    <2>2. Range(WithStatus(t, s, transactions)) =
              {IF r.tx = t THEN [r EXCEPT !.status = s] ELSE r : r \in Range(transactions)}
      BY <1>4, <2>1, StatusIsSet, SMTT(90)
    <2> QED
      BY <2>1, <2>2
  <1>6. \A r \in Range(transactions) : r \in TransactionRecord
    BY <1>1, RangeOfSeq
  <1>7. \A r \in TransactionRecord : [r EXCEPT !.status = s].tx = r.tx
    BY DEF TransactionRecord
  <1>8. ASSUME NEW x \in Range(transactions')
        PROVE  \E r \in Range(transactions) : r.tx = x.tx
    BY <1>5, <1>6, <1>7
  <1>9. AppendedInFull'
    BY <1>3, <1>8 DEF HoldingsInv, AppendedInFull
  <1>10. SettledIsHeld'
    <2>1. \A e, typ : /\ HeldOnLedger(e, typ)' = HeldOnLedger(e, typ)
                      /\ Named(e, typ)' = Named(e, typ) /\ Gone(e, typ)' = Gone(e, typ)
      BY DEF HeldOnLedger, Named, Gone
    <2> QED
      BY <1>3, <2>1 DEF HoldingsInv, SettledIsHeld
  <1>11. LedgerOK'
    BY DEF HoldingsInv, LedgerOK
  <1> QED
    BY <1>9, <1>10, <1>11

\* Settling: the movements of the request, which it has in full, become tokens.
LEMMA SettleKeepsHoldings ==
    ASSUME HoldingsInv, NEW t \in TxIds, Settle(t)
    PROVE  LedgerOK' /\ AppendedInFull' /\ SettledIsHeld'
  <1>1. /\ Network!Settle(t) /\ UNCHANGED <<movements, transactions>>
        /\ t \notin settled /\ settled' = settled \cup {t} /\ t \in settled'
    BY DEF Settle, Network!Settle, dbVars
  <1>2. movements \in Seq(MovementRecord)
    BY DEF HoldingsInv, AuditInv, StatusInv
  <1>3. \E r \in Range(transactions) : r.tx = t
    <2>1. t \in approved
      BY DEF Settle
    <2> QED
      BY <2>1 DEF HoldingsInv, AuditInv, StatusInv, AppendedBeforeSigned
  <1>4. LedgerOK
    BY DEF HoldingsInv
  <1>5. ASSUME NEW e \in EnrollmentIDs, NEW typ \in TokenTypes
        PROVE  CountedIn(e, typ, settled', movements') + Named(e, typ)'
                   = HeldOnLedger(e, typ)' + Gone(e, typ)'
    <2>1. CountedIn(e, typ, settled \cup {t}, movements) =
              CountedIn(e, typ, settled, movements) + CountedIn(e, typ, {t}, movements)
      BY <1>1, <1>2, CountedWithOneMore
    <2>2. CountedIn(e, typ, {t}, movements) = Diff(t, e, typ)
      BY <1>3 DEF HoldingsInv, AppendedInFull
    <2>3. CountedIn(e, typ, settled, movements) + Named(e, typ) = HeldOnLedger(e, typ) + Gone(e, typ)
      BY DEF HoldingsInv, SettledIsHeld
    <2>4. PICK g \in Int :
              /\ SumOf(AuditInputs[t], e, typ) \in Int /\ SumOf(AuditOutputs[t], e, typ) \in Int
              /\ HeldOnLedger(e, typ)' = HeldOnLedger(e, typ) + SumOf(AuditOutputs[t], e, typ) - g
              /\ Gone(e, typ)' = Gone(e, typ) + g
              /\ Named(e, typ)' = Named(e, typ) + SumOf(AuditInputs[t], e, typ)
      BY <1>1, <1>4, SettleMoves
    <2>5. Diff(t, e, typ) = SumOf(AuditOutputs[t], e, typ) - SumOf(AuditInputs[t], e, typ)
      BY DEF Diff
    <2>6. CountedIn(e, typ, settled, movements) \in Int
      BY <1>2, CountedType
    <2>7. HeldOnLedger(e, typ) \in Int /\ Named(e, typ) \in Int /\ Gone(e, typ) \in Int
      BY <1>4, LedgerSums
    <2>8. CountedIn(e, typ, settled', movements') = CountedIn(e, typ, settled, movements)
              + (SumOf(AuditOutputs[t], e, typ) - SumOf(AuditInputs[t], e, typ))
      BY <1>1, <2>1, <2>2, <2>5
    <2> DEFINE c == CountedIn(e, typ, settled, movements)
               h == HeldOnLedger(e, typ)
               n == Named(e, typ)
               x == Gone(e, typ)
               in == SumOf(AuditInputs[t], e, typ)
               out == SumOf(AuditOutputs[t], e, typ)
    <2>9. /\ c \in Int /\ h \in Int /\ n \in Int /\ x \in Int /\ in \in Int /\ out \in Int
          /\ c + n = h + x
      BY <2>3, <2>4, <2>6, <2>7
    <2>10. /\ CountedIn(e, typ, settled', movements') = c + (out - in)
           /\ HeldOnLedger(e, typ)' = h + out - g
           /\ Gone(e, typ)' = x + g /\ Named(e, typ)' = n + in
      BY <2>4, <2>8
    <2> HIDE DEF c, h, n, x, in, out
    <2>11. (c + (out - in)) + (n + in) = (h + out - g) + (x + g)
      BY <2>9
    <2> QED
      BY <2>10, <2>11
  <1>6. SettledIsHeld'
    BY <1>5 DEF SettledIsHeld
  <1>7. AppendedInFull'
    BY <1>1 DEF HoldingsInv, AppendedInFull
  <1> QED
    BY <1>1, <1>4, <1>6, <1>7, SettleKeepsLedger

\* Every step keeps the records and the ledger in agreement.
LEMMA HoldingsStep ==
    ASSUME HoldingsInv, [Next]_vars
    PROVE  HoldingsInv'
  <1> DEFINE Goal == LedgerOK' /\ AppendedInFull' /\ SettledIsHeld'
  <1>1. AuditInv'
    BY LocksStep, StatusStep, OthersStep DEF HoldingsInv, AuditInv
  <1>2. notices \subseteq settled \cup rejected /\ restore.toBeUpdated \subseteq settled \cup rejected
    BY DEF HoldingsInv, AuditInv, StatusInv, OutcomesAreFinal
  <1>3. ASSUME UNCHANGED <<movements, transactions, unspent, settled>>
        PROVE  Goal
    BY <1>3, KeepsHoldings
  <1>4. ASSUME NEW t \in TxIds, AppendRecords(t)
        PROVE  Goal
    <2>1. CASE HasSingleSenders(t)
      BY <1>4, <2>1, AppendKeepsHoldings
    <2>2. CASE ~HasSingleSenders(t)
      BY <1>3, <1>4, <2>2 DEF AppendRecords, AppendRequest, Discard, storeVars, networkVars
    <2> QED
      BY <2>1, <2>2
  <1>5. ASSUME NEW t \in TxIds, Settle(t)
        PROVE  Goal
    BY <1>5, SettleKeepsHoldings
  <1>6. ASSUME NEW t \in TxIds, OnStatusChange(t)
        PROVE  Goal
    BY <1>2, <1>6, SetStatusKeepsHoldings DEF OnStatusChange, networkVars
  <1>7. ASSUME NEW t \in TxIds, RestoreUpdate(t)
        PROVE  Goal
    BY <1>2, <1>7, SetStatusKeepsHoldings DEF RestoreUpdate, networkVars
  <1>8. ASSUME NEW t \in TxIds,
               \/ Audit(t) \/ AcquireNext(t) \/ CheckLimits(t) \/ Subscribe(t) \/ ReleaseAndSign(t)
               \/ DeferredRelease(t) \/ Reject(t) \/ RestoreRead(t) \/ RestoreSubscribe(t)
        PROVE  Goal
    <2>1. UNCHANGED <<movements, transactions, unspent, settled>>
      BY <1>8
         DEF Audit, AcquireNext, CheckLimits, Subscribe, ReleaseAndSign, DeferredRelease, Reject,
             RestoreRead, RestoreSubscribe, dbVars, storeVars, networkVars
    <2> QED
      BY <1>3, <2>1
  <1>9. ASSUME Crash \/ RestoreNextPhase \/ UNCHANGED vars
        PROVE  Goal
    <2>1. UNCHANGED <<movements, transactions, unspent, settled>>
      BY <1>9 DEF Crash, RestoreNextPhase, vars, dbVars, storeVars, networkVars
    <2> QED
      BY <1>3, <2>1
  <1> HIDE DEF Goal
  <1>10. Goal
    BY <1>4, <1>5, <1>6, <1>7, <1>8, <1>9 DEF Next, ViewStep, RestoreStep
  <1> QED
    BY <1>1, <1>10 DEF HoldingsInv, Goal

\* When no record is pending, the records that count are those of settled requests.
LEMMA HoldingsAreCounted ==
    ASSUME HoldingsInv, \A t \in TxIds : "Pending" \notin StatusesOf(t), NEW e, NEW typ
    PROVE  Holdings(e, typ) = CountedIn(e, typ, settled, movements)
  <1> DEFINE p == HoldingsFilter(e, typ)
             D == DOMAIN movements
             S == {i \in D : SelectMovement(p, movements[i])}
             a == [i \in D |-> movements[i].amount]
             w == [i \in D |-> Counted(e, typ, settled, movements[i])]
  <1>1. movements \in Seq(MovementRecord) /\ StatusInv
    BY DEF HoldingsInv, AuditInv, StatusInv
  <1>2. ASSUME NEW i \in D
        PROVE  movements[i].status \in {"Pending", "Confirmed"} <=> movements[i].tx \in settled
    <2> DEFINE r == movements[i]
    <2>1. r \in Range(movements) /\ r \in MovementRecord
      BY <1>1, StoreFacts DEF Range
    <2>2. PICK x \in Range(transactions) : x.tx = r.tx
      BY <1>1, <2>1 DEF StatusInv, NoLoneMovements
    <2>3. x.status = r.status
      BY <1>1, <2>1, <2>2 DEF StatusInv, OneStatus
    <2>4. r.tx \in TxIds /\ r.status \in Statuses
      BY <2>1 DEF MovementRecord
    <2>5. r.status # "Pending"
      <3>1. r.status \in StatusesOf(r.tx)
        BY <2>2, <2>3 DEF StatusesOf
      <3> QED
        BY <2>4, <3>1
    <2>6. (r.status = "Confirmed" => r.tx \in settled) /\ (r.status = "Deleted" => r.tx \notin settled)
      BY <1>1, <2>1 DEF StatusInv, Agrees, OutcomesAreFinal
    <2> HIDE DEF r
    <2>7. r.status \in {"Pending", "Confirmed"} <=> r.tx \in settled
      BY <2>4, <2>5, <2>6 DEF Statuses
    <2> QED
      BY <2>7 DEF r
  <1>3. ASSUME NEW i \in D
        PROVE  i \in S <=> /\ movements[i].eid = e /\ movements[i].type = typ
                           /\ movements[i].status \in {"Pending", "Confirmed"}
    BY DEF SelectMovement, Matches, InDirection, Among, HoldingsFilter
  <1>4. ASSUME NEW i \in D
        PROVE  a[i] \in Int /\ w[i] \in Int /\ w[i] = IF i \in S THEN a[i] ELSE 0
    <2>1. movements[i].amount \in Int
      BY <1>1, StoreFacts
    <2>2. w[i] = Counted(e, typ, settled, movements[i]) /\ a[i] = movements[i].amount
      OBVIOUS
    <2> HIDE DEF S, w, a
    <2> QED
      BY <1>2, <1>3, <2>1, <2>2 DEF Counted
  <1>5. Holdings(e, typ) = SumFunctionOnSet(a, S)
    <2>1. Answer(p) = S
      BY DEF Answer, HoldingsFilter
    <2> QED
      BY <2>1 DEF Holdings, SumOfAmounts
  <1>6. CountedIn(e, typ, settled, movements) = SumFunctionOnSet(w, D)
    BY DEF CountedIn
  <1>7. IsFiniteSet(D) /\ S \in SUBSET D
    <2>1. IsFiniteSet(D)
      BY <1>1, StoreFacts
    <2> QED
      BY <2>1
  <1> HIDE DEF D, S, a, w
  <1>8. IsFiniteSet(S)
    BY <1>7, FS_Subset
  <1>9. \A i \in D : w[i] \in Int
    BY <1>4
  <1>10. \A i \in D \ S : w[i] = 0
    BY <1>4
  <1>11. SumFunctionOnSet(w, D) = SumFunctionOnSet(w, S)
    BY <1>7, <1>9, <1>10, SumOfPart
  <1>12. \A i \in S : a[i] \in Int /\ w[i] = a[i]
    BY <1>4, <1>7
  <1>13. SumFunctionOnSet(a, S) = SumFunctionOnSet(w, S)
    BY <1>8, <1>12, SumEqual
  <1> QED
    BY <1>5, <1>6, <1>11, <1>13

\* What some tokens are worth to an enrollment id, summed one way and the other.
Worth(e, typ, ids) ==
    SumFunction([id \in {i \in ids : AuditOutputs[i[1]][i[2] + 1].eid = e
                                         /\ AuditOutputs[i[1]][i[2] + 1].type = typ} |->
                    AuditOutputs[id[1]][id[2] + 1].quantity])

LEMMA HeldIsWorth ==
    ASSUME NEW U \in SUBSET CreatedTokens, IsFiniteSet(U), NEW e, NEW typ
    PROVE  SumFunctionOnSet(Held(e, typ), U) = Worth(e, typ, U)
  <1> DEFINE S == {i \in U : ItemOf(i).eid = e /\ ItemOf(i).type = typ}
             f == [id \in S |-> ItemOf(id).quantity]
             H == Held(e, typ)
  <1>1. Worth(e, typ, U) = SumFunctionOnSet(f, S)
    BY DEF Worth, SumFunction, ItemOf
  <1>2. \A id \in U : H[id] \in Int
    BY TokensAreItems
  <1>3. \A id \in U \ S : H[id] = 0
    BY DEF Held
  <1>4. \A id \in S : f[id] = H[id]
    BY DEF Held
  <1>5. S \in SUBSET U
    OBVIOUS
  <1> HIDE DEF S, f, H
  <1>6. IsFiniteSet(S)
    BY <1>5, FS_Subset
  <1>7. SumFunctionOnSet(H, U) = SumFunctionOnSet(H, S)
    BY <1>2, <1>3, <1>5, SumOfPart
  <1>8. \A id \in S : H[id] \in Int /\ f[id] = H[id]
    BY <1>2, <1>4, <1>5
  <1>9. SumFunctionOnSet(H, S) = SumFunctionOnSet(f, S)
    BY <1>6, <1>8, SumEqual
  <1> QED
    BY <1>1, <1>7, <1>9 DEF H

\* The sums of the property are those of the invariant.
LEMMA SettledIsWorth ==
    ASSUME LedgerOK, NEW e, NEW typ
    PROVE  /\ HeldOnLedger(e, typ) = Worth(e, typ, unspent)
           /\ Named(e, typ) = SumFunction([t \in settled |-> SumOf(AuditInputs[t], e, typ)])
           /\ Gone(e, typ) = SumFunction([t \in settled |-> Worth(e, typ, InputsOf(t))])
  <1> DEFINE n == NamedBy(e, typ)
             g == GoneBy(e, typ)
             m == [t \in settled |-> SumOf(AuditInputs[t], e, typ)]
             h == [t \in settled |-> Worth(e, typ, InputsOf(t))]
  <1>1. HeldOnLedger(e, typ) = Worth(e, typ, unspent)
    BY HeldIsWorth DEF LedgerOK, HeldOnLedger
  <1>2. IsFiniteSet(settled) /\ \A t \in settled : n[t] \in Int /\ g[t] \in Int
    BY LedgerSums DEF LedgerOK
  <1>3. \A t \in settled : m[t] = n[t]
    BY DEF LedgerOK, NamedBy
  <1>4. ASSUME NEW t \in settled
        PROVE  h[t] = g[t]
    <2>1. SumFunctionOnSet(Held(e, typ), InputsOf(t)) = Worth(e, typ, InputsOf(t))
      BY HeldIsWorth DEF LedgerOK
    <2>2. g[t] = SumFunctionOnSet(Held(e, typ), InputsOf(t))
      BY DEF LedgerOK, GoneBy
    <2> QED
      BY <2>1, <2>2
  <1>5. /\ SumFunction(m) = SumFunctionOnSet(m, settled) /\ SumFunction(h) = SumFunctionOnSet(h, settled)
        /\ Named(e, typ) = SumFunctionOnSet(n, settled) /\ Gone(e, typ) = SumFunctionOnSet(g, settled)
    BY DEF SumFunction, Named, Gone
  <1> HIDE DEF n, g, m, h
  <1>6. SumFunctionOnSet(n, settled) = SumFunctionOnSet(m, settled)
    <2>1. \A t \in settled : n[t] \in Int /\ m[t] = n[t]
      BY <1>2, <1>3
    <2> QED
      BY <1>2, <2>1, SumEqual
  <1>7. SumFunctionOnSet(g, settled) = SumFunctionOnSet(h, settled)
    <2>1. \A t \in settled : g[t] \in Int /\ h[t] = g[t]
      BY <1>2, <1>4
    <2> QED
      BY <1>2, <2>1, SumEqual
  <1> QED
    BY <1>1, <1>5, <1>6, <1>7 DEF m, h

\* When no record is pending, what the database of the auditor says an enrollment id
\* holds is what it has on the ledger, but for the tokens a request names more than once,
\* which the records count as often: no append, status or crash in between loses or
\* doubles a movement.
THEOREM RecordsMatchLedger == Spec => []HoldingsMatchLedger
  <1>1. ASSUME HoldingsInv
        PROVE  HoldingsMatchLedger
    <2>1. SUFFICES ASSUME \A t \in TxIds : "Pending" \notin StatusesOf(t),
                          NEW e \in EnrollmentIDs, NEW typ \in TokenTypes
                   PROVE  Holdings(e, typ)
                              + SumFunction([t \in settled |-> SumOf(AuditInputs[t], e, typ)])
                              = Worth(e, typ, unspent)
                                    + SumFunction([t \in settled |-> Worth(e, typ, InputsOf(t))])
      BY DEF HoldingsMatchLedger, Worth
    <2>2. Holdings(e, typ) = CountedIn(e, typ, settled, movements)
      BY <1>1, <2>1, HoldingsAreCounted
    <2>3. CountedIn(e, typ, settled, movements) + Named(e, typ) = HeldOnLedger(e, typ) + Gone(e, typ)
      BY <1>1 DEF HoldingsInv, SettledIsHeld
    <2>4. /\ HeldOnLedger(e, typ) = Worth(e, typ, unspent)
          /\ Named(e, typ) = SumFunction([t \in settled |-> SumOf(AuditInputs[t], e, typ)])
          /\ Gone(e, typ) = SumFunction([t \in settled |-> Worth(e, typ, InputsOf(t))])
      BY <1>1, SettledIsWorth DEF HoldingsInv
    <2> QED
      BY <2>2, <2>3, <2>4
  <1> QED
    BY <1>1, HoldingsInit, HoldingsStep, PTL DEF Spec
=============================================================================
