------------------------------- MODULE Auditing -------------------------------
(***************************************************************************)
(* An auditor at work.  One view per request locks the enrollment ids of the  *)
(* request, checks their payments against a limit, appends the records,       *)
(* listens for the outcome and signs; the network then settles or rejects the *)
(* request, the listener sets the status of its records.  The node may crash  *)
(* at any moment: what is in memory is lost and Restore looks at the records   *)
(* that are still pending.                                                   *)
(*                                                                          *)
(* settled and rejected are what the vault of the auditor has learnt from the *)
(* network, which is the ledger of TokenLedger.  Each request is sent to the  *)
(* auditor once.                                                             *)
(***************************************************************************)
EXTENDS TxDB

CONSTANTS
    Limit,          \* a payment and the last ones before it stay below it
    LastPayments,   \* how many of them the audit view looks at (10 in the code)
    Replays,        \* TRUE when subscribing reports an outcome already known
    MaxCrashes      \* crashes of the node (bound)

VARIABLES
    view,           \* the audit view of each request
    acquired,       \* mutexes it has locked so far
    approved,       \* requests the auditor signed
    unspent, spent, settled,
    rejected,
    listening,      \* requests with a listener
    notices,        \* outcomes on their way to a listener
    restore,        \* the restore procedure
    crashes

ASSUME AuditingAssumption ==
    /\ Limit \in Nat \ {0}
    /\ LastPayments \in Nat \ {0}
    /\ Replays \in BOOLEAN
    /\ MaxCrashes \in Nat

networkVars == <<unspent, spent, settled, rejected>>
listenVars == <<listening, notices>>
viewVars == <<view, acquired, approved>>
vars == <<movements, transactions, locked, anchors, view, acquired, approved, unspent, spent, settled,
          rejected, listening, notices, restore, crashes>>

CreatedIds(t) ==
    {<<t, i - 1>> : i \in {j \in DOMAIN AuditOutputs[t] : AuditOutputs[t][j].eid # NoEID}}

Network == INSTANCE TokenLedger WITH Created <- CreatedIds, Consumed <- InputsOf

Idle == [phase |-> "idle", todo |-> {}, toBeUpdated |-> {}, pendingTXs |-> {}]

Init ==
    /\ DBInit
    /\ Network!Init
    /\ rejected = {}
    /\ view = [t \in TxIds |-> "idle"]
    /\ acquired = [t \in TxIds |-> 0]
    /\ approved = {}
    /\ listening = {}
    /\ notices = {}
    /\ restore = Idle
    /\ crashes = 0

IsFinal(t) == t \in settled \cup rejected

\* Mistake: nobody thought of a rejection.
OutcomeIfValid(t) == IF t \in settled THEN "Confirmed" ELSE ""

Outcome(t) == IF t \in settled THEN "Confirmed" ELSE "Deleted"

\* Restore reads the store through a query executor, whose read lock keeps
\* every writer out.
StoreLockFree == restore.phase # "read"

Goto(t, label) == view' = [view EXCEPT ![t] = label]

-----------------------------------------------------------------------------
\* Audit, whose inputs must be tokens the vault of the auditor has.
Audit(t) ==
    /\ view[t] = "idle"
    /\ \A id \in InputsOf(t) : id[1] \in settled
    /\ RegisterAnchor(t)
    /\ Goto(t, IF LockOrder[t] = << >> THEN "check" ELSE "lock")
    /\ UNCHANGED <<storeVars, locked, acquired, approved, networkVars, listenVars, restore, crashes>>

AcquireNext(t) ==
    /\ view[t] = "lock"
    /\ LockEID(LockOrder[t][acquired[t] + 1])
    /\ acquired' = [acquired EXCEPT ![t] = @ + 1]
    /\ IF acquired[t] + 1 = Len(LockOrder[t]) THEN Goto(t, "check") ELSE UNCHANGED view
    /\ UNCHANGED <<storeVars, anchors, approved, networkVars, listenVars, restore, crashes>>

\* The cumulative payment limit, as the audit views of the repository check it.
WithinLimit(t) ==
    \A e \in Range(EnrollmentIDsOf(AuditInputs[t])), typ \in Range(TokenTypesOf(AuditInputs[t])) :
        LET diff == 0 - Diff(t, e, typ) IN diff > 0 => Payments(e, typ, LastPayments) + diff < Limit

CheckLimits(t) ==
    /\ view[t] = "check"
    /\ Goto(t, IF WithinLimit(t) THEN "append" ELSE "refused")
    /\ UNCHANGED <<dbVars, acquired, approved, networkVars, listenVars, restore, crashes>>

AppendRecords(t) ==
    /\ view[t] = "append"
    /\ StoreLockFree
    /\ AppendRequest(t)
    /\ IF HasSingleSenders(t)
       THEN Goto(t, "subscribe") /\ UNCHANGED <<locked, anchors>>
       ELSE Goto(t, "failed") /\ ReleaseLocks(t)
    /\ UNCHANGED <<acquired, approved, networkVars, listenVars, restore, crashes>>

\* Subscribing may report an outcome that is already known.
SubscribeTo(t) ==
    /\ listening' = listening \cup {t}
    /\ notices' = IF Replays /\ IsFinal(t) THEN notices \cup {t} ELSE notices

Subscribe(t) ==
    /\ view[t] = "subscribe"
    /\ SubscribeTo(t)
    /\ Goto(t, "release")
    /\ UNCHANGED <<dbVars, acquired, approved, networkVars, restore, crashes>>

\* Append releases the locks when it returns; then the view signs.
ReleaseAndSign(t) ==
    /\ view[t] = "release"
    /\ ReleaseLocks(t)
    /\ approved' = approved \cup {t}
    /\ Goto(t, "signed")
    /\ UNCHANGED <<storeVars, acquired, networkVars, listenVars, restore, crashes>>

\* The view releases what it acquired, whether or not Append did already.
DeferredRelease(t) ==
    /\ view[t] \in {"signed", "refused", "failed"}
    /\ ReleaseLocks(t)
    /\ Goto(t, "done")
    /\ UNCHANGED <<storeVars, acquired, approved, networkVars, listenVars, restore, crashes>>

-----------------------------------------------------------------------------
\* The network orders a signed request, and the vault learns of it.
Settle(t) ==
    /\ t \in approved \ rejected
    /\ Network!Settle(t)
    /\ notices' = notices \cup ({t} \cap listening)
    /\ UNCHANGED <<dbVars, viewVars, rejected, listening, restore, crashes>>

Reject(t) ==
    /\ t \in approved \ (settled \cup rejected)
    /\ rejected' = rejected \cup {t}
    /\ notices' = notices \cup ({t} \cap listening)
    /\ UNCHANGED <<dbVars, viewVars, unspent, spent, settled, listening, restore, crashes>>

\* The listener sets the status and unsubscribes.
OnStatusChange(t) ==
    /\ t \in notices
    /\ StoreLockFree
    /\ SetStatus(t, Outcome(t))
    /\ notices' = notices \ {t}
    /\ listening' = listening \ {t}
    /\ UNCHANGED <<locked, anchors, viewVars, networkVars, restore, crashes>>

-----------------------------------------------------------------------------
\* Restore walks over all transaction records and keeps the pending ones; the
\* query sets no end at which the walk would stop.
PendingTXs ==
    {r.tx : r \in {x \in Range(transactions) :
                      SelectTransaction(AllTransactions, x) /\ x.status = "Pending"}}

\* The node stops, starts again and restores its databases.
Crash ==
    /\ crashes < MaxCrashes
    /\ crashes' = crashes + 1
    /\ view' = [t \in TxIds |-> IF view[t] = "idle" THEN "idle" ELSE "done"]
    /\ locked' = {}
    /\ anchors' = {}
    /\ listening' = {}
    /\ notices' = {}
    /\ restore' = [Idle EXCEPT !.phase = "read",
                               !.todo = PendingTXs]
    /\ UNCHANGED <<storeVars, acquired, approved, networkVars>>

\* Mistake: a transaction the vault does not know is taken for a failed one.
RestoreReadEager(t) ==
    /\ restore.phase = "read"
    /\ t \in restore.todo
    /\ restore' = [restore EXCEPT !.todo = @ \ {t}, !.toBeUpdated = @ \cup {t}]
    /\ UNCHANGED <<dbVars, viewVars, networkVars, listenVars, crashes>>

\* The status of a pending transaction in the vault, if the vault answers.
RestoreRead(t) ==
    /\ restore.phase = "read"
    /\ t \in restore.todo
    /\ \/ IsFinal(t) /\ restore' = [restore EXCEPT !.todo = @ \ {t}, !.toBeUpdated = @ \cup {t}]
       \/ restore' = [restore EXCEPT !.todo = @ \ {t}, !.pendingTXs = @ \cup {t}]
    /\ UNCHANGED <<dbVars, viewVars, networkVars, listenVars, crashes>>

RestoreNextPhase ==
    /\ \/ /\ restore.phase = "read"
          /\ restore.todo = {}
          /\ restore' = [restore EXCEPT !.phase = "update"]
       \/ /\ restore.phase = "update"
          /\ restore.toBeUpdated = {}
          /\ restore' = [restore EXCEPT !.phase = "subscribe"]
       \/ /\ restore.phase = "subscribe"
          /\ restore.pendingTXs = {}
          /\ restore' = Idle
    /\ UNCHANGED <<dbVars, viewVars, networkVars, listenVars, crashes>>

RestoreUpdate(t) ==
    /\ restore.phase = "update"
    /\ t \in restore.toBeUpdated
    /\ SetStatus(t, Outcome(t))
    /\ restore' = [restore EXCEPT !.toBeUpdated = @ \ {t}]
    /\ UNCHANGED <<locked, anchors, viewVars, networkVars, listenVars, crashes>>

\* Mistake: pending transactions are left to the next restart.
RestoreSubscribeNone(t) ==
    /\ restore.phase = "subscribe"
    /\ t \in restore.pendingTXs
    /\ restore' = [restore EXCEPT !.pendingTXs = @ \ {t}]
    /\ UNCHANGED <<dbVars, viewVars, networkVars, listenVars, crashes>>

RestoreSubscribe(t) ==
    /\ restore.phase = "subscribe"
    /\ t \in restore.pendingTXs
    /\ SubscribeTo(t)
    /\ restore' = [restore EXCEPT !.pendingTXs = @ \ {t}]
    /\ UNCHANGED <<dbVars, viewVars, networkVars, crashes>>

-----------------------------------------------------------------------------
ViewStep(t) ==
    CheckLimits(t) \/ AppendRecords(t) \/ Subscribe(t) \/ ReleaseAndSign(t) \/ DeferredRelease(t)

RestoreStep ==
    \/ \E t \in TxIds : RestoreRead(t) \/ RestoreUpdate(t) \/ RestoreSubscribe(t)
    \/ RestoreNextPhase

Next ==
    \/ \E t \in TxIds : Audit(t) \/ AcquireNext(t) \/ ViewStep(t)
    \/ \E t \in TxIds : Settle(t) \/ Reject(t) \/ OnStatusChange(t)
    \/ RestoreStep
    \/ Crash

\* Goroutines run; a mutex that is free again and again is obtained; a listener
\* is called; Restore runs to its end.  Nothing forces the network to decide.
Fairness ==
    /\ \A t \in TxIds :
          SF_vars(AcquireNext(t)) /\ WF_vars(ViewStep(t)) /\ WF_vars(OnStatusChange(t))
    /\ WF_vars(RestoreStep)

Spec == Init /\ [][Next]_vars
FairSpec == Spec /\ Fairness

-----------------------------------------------------------------------------
RestoreType ==
    [phase : {"idle", "read", "update", "subscribe"}, todo : SUBSET TxIds,
     toBeUpdated : SUBSET TxIds, pendingTXs : SUBSET TxIds]

Labels == {"idle", "lock", "check", "append", "subscribe", "release", "signed", "refused",
           "failed", "done"}

TypeOK ==
    /\ movements \in Seq(MovementRecord)
    /\ transactions \in Seq(TransactionRecord)
    /\ locked \subseteq EnrollmentIDs
    /\ anchors \subseteq TxIds
    /\ view \in [TxIds -> Labels]
    /\ \A t \in TxIds : acquired[t] \in 0 .. Len(LockOrder[t])
    /\ approved \subseteq TxIds
    /\ unspent \cup spent \subseteq TokenIds
    /\ settled \subseteq approved
    /\ rejected \subseteq approved
    /\ listening \subseteq TxIds
    /\ notices \subseteq TxIds
    /\ restore \in RestoreType
    /\ crashes \in 0 .. MaxCrashes

\* Enrollment ids whose mutex the view of t holds.
HeldBy(t) ==
    CASE view[t] = "lock" -> {LockOrder[t][i] : i \in 1 .. acquired[t]}
      [] view[t] \in {"check", "append", "subscribe", "release", "refused"} -> Range(LockOrder[t])
      [] OTHER -> {}

\* A mutex is locked exactly while one view is between its Audit and the first
\* release after it, although Append and the view both release, and a view may
\* release long after others have locked the same enrollment ids.
LocksFollowViews ==
    /\ locked = UNION {HeldBy(t) : t \in TxIds}
    /\ \A t, u \in TxIds : t # u => HeldBy(t) \cap HeldBy(u) = {}

\* A payment and the last payments of the same enrollment id before it never reach
\* the limit, although the check of one request and the append of another
\* interleave and crashes lose the locks.  A payment that was deleted keeps its
\* place among the last ones and counts for nothing: without that place the window
\* would reach back to payments nobody added it to.  Nothing bounds the sum of them
\* all.
LimitIsKept ==
    LET payments(e, typ) ==
            {j \in DOMAIN movements :
                movements[j].eid = e /\ movements[j].type = typ /\ movements[j].amount <= 0}
        window(e, typ, i) ==
            {j \in payments(e, typ) :
                j <= i /\ Cardinality({k \in payments(e, typ) : j < k /\ k <= i}) <= LastPayments}
    IN \A e \in EnrollmentIDs, typ \in TokenTypes : \A i \in payments(e, typ) :
           SumFunctionOnSet([j \in DOMAIN movements |-> 0 - movements[j].amount],
                            {j \in window(e, typ, i) : movements[j].status # "Deleted"}) < Limit

\* When no record is pending, the holdings of an enrollment id are the unspent
\* tokens it has on the ledger.  A request that names a token twice is the
\* exception, which the equation counts exactly: the records charge its owner for
\* every time it is named, the ledger deletes the token once.  named is what the
\* auditor counted as inputs, gone what left the ledger.
HoldingsMatchLedger ==
    (\A t \in TxIds : "Pending" \notin StatusesOf(t)) =>
        \A e \in EnrollmentIDs, typ \in TokenTypes :
            LET token(id) == AuditOutputs[id[1]][id[2] + 1]
                worth(ids) == SumFunction([id \in {i \in ids : token(i).eid = e /\ token(i).type = typ} |->
                                              token(id).quantity])
                named == SumFunction([t \in settled |-> SumOf(AuditInputs[t], e, typ)])
                gone == SumFunction([t \in settled |-> worth(InputsOf(t))])
            IN Holdings(e, typ) + named = worth(unspent) + gone

\* The status of a record is never ahead of the network nor against it, a
\* transaction the auditor signed always has transaction records, and all records
\* of a transaction, of both kinds, have one status.
StatusFollowsVault ==
    /\ \A t \in TxIds :
          /\ "Confirmed" \in StatusesOf(t) => t \in settled
          /\ "Deleted" \in StatusesOf(t) => t \in rejected
          /\ t \in approved => StatusesOf(t) # {}
    /\ \A r \in Range(movements) \cup Range(transactions) : StatusesOf(r.tx) = {r.status}

\* The queries of the audit views and of the views of a wallet.
AuditedTransactions(from, to) == [AllTransactions EXCEPT !.from = from, !.to = to]
AcceptedTransactions(e, statuses) ==
    [AllTransactions EXCEPT !.sender = e, !.recipient = e, !.statuses = statuses]

SomeStatuses == {{}, {"Pending", "Confirmed"}, {"Deleted"}}
SomeMovements ==
    {p \in QueryMovementsParams :
        /\ Cardinality(p.enrollmentIDs) < 2 /\ p.tokenTypes = TokenTypes
        /\ p.txStatuses \in {{}, {"Pending", "Confirmed"}}}
SomeFilters ==
    UNION {{HoldingsFilter(e, typ)} \cup {PaymentsFilter(e, typ, n) : n \in 1 .. MaxNumber} :
               e \in EnrollmentIDs, typ \in TokenTypes}

\* To a query for movements, or for the transactions of a time, the two drivers
\* answer alike, although one filters, sorts and cuts and the other stops in the
\* middle of a slice; the sums of the filters are those of the answers.  To a query
\* that names an enrollment id as sender and recipient they do not answer alike:
\* badger does what the interface promises and returns the records of which it is
\* one or the other, memory returns exactly those of them that it sent.  (Evaluated
\* while no audit and no Restore is under way: a store that can be left behind by
\* the others can be left behind without them, and the queries look at it alone.)
DriversAgree ==
    locked = {} /\ restore = Idle =>
        /\ \A p \in SomeMovements : QueryMovements(p) = MemoryQueryMovements(p)
        /\ \A p \in SomeFilters :
              LET answer == QueryMovements(p)
              IN SumFunction([i \in DOMAIN answer |-> answer[i].amount]) = SumOfAmounts(p)
        /\ \A from, to \in 0 .. MaxNumber :
              LET p == AuditedTransactions(from, to)
              IN QueryTransactions(p) = MemoryQueryTransactions(p)
        /\ \A e \in EnrollmentIDs, statuses \in SomeStatuses :
              LET p == AcceptedTransactions(e, statuses)
              IN /\ QueryTransactions(p) = SelectSeq(transactions, LAMBDA r :
                        e \in {r.sender, r.recipient} /\ (statuses = {} \/ r.status \in statuses))
                 /\ MemoryQueryTransactions(p) =
                        SelectSeq(QueryTransactions(p), LAMBDA r : r.sender = e)

\* An audit that started to lock does not wait for ever.
AuditEnds == \A t \in TxIds : view[t] = "lock" ~> view[t] # "lock"

\* The outcome of a transaction reaches its records, crash or not.
OutcomeIsRecorded ==
    \A t \in TxIds : IsFinal(t) /\ "Pending" \in StatusesOf(t) ~> "Pending" \notin StatusesOf(t)
=============================================================================
