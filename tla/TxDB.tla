--------------------------------- MODULE TxDB ---------------------------------
(***************************************************************************)
(* The transaction database of an auditor: the movement and the transaction   *)
(* records of the requests it appended, the queries over them, and the locks  *)
(* on enrollment ids that let an auditor check a request and append it with   *)
(* nobody in between.                                                        *)
(*                                                                          *)
(* The records are those of the badger driver, durable, in the order of their *)
(* numbers; their time is the place of the request they belong to.  The       *)
(* queries are those of both drivers: memory answers from a slice, badger     *)
(* from an iterator, each with filters of its own.  Locks are in memory.  A   *)
(* mutex has no owner: the table only remembers which ids an anchor asked for.*)
(***************************************************************************)
EXTENDS AuditRecords

VARIABLES
    movements,      \* movement records, in the order of their numbers
    transactions,   \* transaction records, in the order of their numbers
    locked,         \* enrollment ids whose mutex is locked
    anchors         \* requests with an entry in the table of locks

storeVars == <<movements, transactions>>
dbVars == <<movements, transactions, locked, anchors>>

DBInit ==
    /\ movements = << >>
    /\ transactions = << >>
    /\ locked = {}
    /\ anchors = {}

\* The statuses of the transaction records of t, of which there should be one, or
\* none if t was not appended.
StatusesOf(t) == {r.status : r \in {x \in Range(transactions) : x.tx = t}}

Now == 1 + Cardinality({r.tx : r \in Range(transactions)})

\* An update of the store adds all its records, or it is discarded.
Commit(newMovements, newTransactions) ==
    /\ movements' = movements \o newMovements
    /\ transactions' = transactions \o newTransactions
Discard == UNCHANGED storeVars

Timestamped(recs) == [i \in DOMAIN recs |-> [recs[i] EXCEPT !.time = Now]]

\* Append of a request; the inputs of an action must have one sender.
AppendRequest(t) ==
    IF HasSingleSenders(t)
    THEN Commit(SendMovements[t] \o ReceivedMovements[t], Timestamped(TransactionRecords[t]))
    ELSE Discard

WithStatus(t, status, store) ==
    [i \in DOMAIN store |-> IF store[i].tx = t THEN [store[i] EXCEPT !.status = status] ELSE store[i]]

\* All the records of t change status; without records nothing changes.
SetStatus(t, status) ==
    /\ movements' = WithStatus(t, status, movements)
    /\ transactions' = WithStatus(t, status, transactions)

-----------------------------------------------------------------------------
\* Queries.  An empty set of ids, types, statuses or actions does not filter.
MaxNumber == 2      \* numbers of records and times in a query (bound)

QueryMovementsParams ==
    [enrollmentIDs : SUBSET EnrollmentIDs, tokenTypes : SUBSET TokenTypes,
     txStatuses : SUBSET Statuses, searchDirection : {"FromLast", "FromBeginning"},
     movementDirection : {"Sent", "Received", "All"}, numRecords : 0 .. MaxNumber]

\* A time of 0 and an enrollment id of NoEID stand for a field that is not set.
QueryTransactionsParams ==
    [sender : EnrollmentIDs \cup {NoEID}, recipient : EnrollmentIDs \cup {NoEID},
     from : 0 .. MaxNumber, to : 0 .. MaxNumber,
     actionTypes : SUBSET ActionTypes, statuses : SUBSET Statuses]

Among(x, S) == S = {} \/ x \in S

\* Without statuses, deleted records are left out.
Matches(p, r) ==
    /\ Among(r.eid, p.enrollmentIDs)
    /\ Among(r.type, p.tokenTypes)
    /\ IF p.txStatuses = {} THEN r.status # "Deleted" ELSE r.status \in p.txStatuses

InDirection(p, r) ==
    /\ p.movementDirection = "Sent" => r.amount <= 0
    /\ p.movementDirection = "Received" => r.amount >= 0

SelectMovement(p, r) == Matches(p, r) /\ InDirection(p, r)

Truncate(s, n) == IF n > 0 /\ Len(s) > n THEN SubSeq(s, 1, n) ELSE s

Ordered(p, s) == IF p.searchDirection = "FromLast" THEN Reverse(s) ELSE s

\* Mistake: badger cuts the answer before it sorts it.
QueryMovementsUnsorted(p) ==
    Ordered(p, Truncate(SelectSeq(movements, LAMBDA r : SelectMovement(p, r)), p.numRecords))

\* badger collects all that matches, sorts it, and cuts the answer.
QueryMovements(p) ==
    Truncate(Ordered(p, SelectSeq(movements, LAMBDA r : SelectMovement(p, r))), p.numRecords)

\* memory walks in the direction of the search and stops when it has enough.
MemoryQueryMovements(p) ==
    LET recs == Ordered(p, movements)
        res[i \in 0 .. Len(recs)] ==
            IF i = 0 THEN << >>
            ELSE LET found == res[i - 1]
                 IN IF /\ Matches(p, recs[i])
                       /\ ~(p.numRecords # 0 /\ Len(found) + 1 > p.numRecords)
                       /\ InDirection(p, recs[i])
                    THEN Append(found, recs[i]) ELSE found
    IN res[Len(recs)]

\* badger accepts a record when the sender or the recipient matches, and takes
\* the one that is not set for a match; a record after the end ends the search.
SelectTransaction(p, r) ==
    /\ r.time >= p.from
    /\ Among(r.action, p.actionTypes)
    /\ Among(r.status, p.statuses)
    /\ \/ p.sender \in {NoEID, r.sender}
       \/ p.recipient \in {NoEID, r.recipient}

InTime(p, s) ==
    LET late == {i \in DOMAIN s : p.to # 0 /\ s[i].time > p.to}
    IN IF late = {} THEN s ELSE SubSeq(s, 1, Min(late) - 1)

QueryTransactions(p) ==
    SelectSeq(InTime(p, transactions), LAMBDA r : SelectTransaction(p, r))

\* memory looks at the sender alone.
MemoryQueryTransactions(p) ==
    SelectSeq(transactions, LAMBDA r :
        /\ r.time >= p.from
        /\ p.to # 0 => r.time <= p.to
        /\ p.sender \in {NoEID, r.sender}
        /\ Among(r.action, p.actionTypes)
        /\ Among(r.status, p.statuses))

\* The parameters of a query that asks for everything.
AllTransactions ==
    [sender |-> NoEID, recipient |-> NoEID, from |-> 0, to |-> 0, actionTypes |-> {}, statuses |-> {}]

\* The sum over the answer of QueryMovements: of the records that match, the
\* query keeps the first ones in its direction.
Answer(p) ==
    LET matching == {i \in DOMAIN movements : SelectMovement(p, movements[i])}
        earlier(i) == {j \in matching : IF p.searchDirection = "FromLast" THEN j > i ELSE j < i}
    IN {i \in matching : p.numRecords = 0 \/ Cardinality(earlier(i)) < p.numRecords}

SumOfAmounts(p) ==
    SumFunctionOnSet([i \in DOMAIN movements |-> movements[i].amount], Answer(p))

\* PaymentsFilter, cut to the last n payments, and HoldingsFilter.
PaymentsFilter(e, typ, n) ==
    [enrollmentIDs |-> {e}, tokenTypes |-> {typ}, txStatuses |-> {"Pending", "Confirmed"},
     searchDirection |-> "FromLast", movementDirection |-> "Sent", numRecords |-> n]
HoldingsFilter(e, typ) ==
    [enrollmentIDs |-> {e}, tokenTypes |-> {typ}, txStatuses |-> {"Pending", "Confirmed"},
     searchDirection |-> "FromBeginning", movementDirection |-> "All", numRecords |-> 0]

Payments(e, typ, n) == 0 - SumOfAmounts(PaymentsFilter(e, typ, n))
Holdings(e, typ) == SumOfAmounts(HoldingsFilter(e, typ))

-----------------------------------------------------------------------------
\* AcquireLocks registers the anchor, then locks one mutex after the other.
RegisterAnchor(t) == anchors' = anchors \cup {t}

\* Mistake: somebody forgets to wait.
LockEIDNoWait(e) == locked' = locked \cup {e}

LockEID(e) ==
    /\ e \notin locked
    /\ locked' = locked \cup {e}

\* Mistakes: the anchor stays in the table; only the senders are unlocked.
ReleaseLocksAgain(t) ==
    /\ locked' = IF t \in anchors THEN locked \ Range(LockOrder[t]) ELSE locked
    /\ UNCHANGED anchors
ReleaseLocksOfSenders(t) ==
    /\ locked' = IF t \in anchors THEN locked \ Range(EnrollmentIDsOf(AuditInputs[t])) ELSE locked
    /\ anchors' = anchors \ {t}

\* A second release of an anchor does nothing.
ReleaseLocks(t) ==
    /\ locked' = IF t \in anchors THEN locked \ Range(LockOrder[t]) ELSE locked
    /\ anchors' = anchors \ {t}
=============================================================================
