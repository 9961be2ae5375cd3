----------------------------- MODULE AuditRecords -----------------------------
(***************************************************************************)
(* What an auditor extracts from a token request and what its transaction    *)
(* database derives from that: the streams of inputs and outputs, the         *)
(* enrollment ids to lock, the movement records and the transaction records. *)
(*                                                                          *)
(* An issue action has one output here, as the metadata of a request demands. *)
(***************************************************************************)
EXTENDS TokenRequest, Integers, SequencesExt

CONSTANTS
    EnrollmentIDs,
    EnrollmentID,   \* Parties -> EnrollmentIDs
    NoEID           \* enrollment id of a redeemed output

ASSUME EnrollmentAssumption ==
    /\ EnrollmentID \in [Parties -> EnrollmentIDs]
    /\ NoEID \notin EnrollmentIDs

EIDOf(output) == IF output.owner = NoOwner THEN NoEID ELSE EnrollmentID[output.owner]

\* Issues and transfers are numbered apart: the first of each has index 0.
ActionIndex(t, k) == (k - 1) - (IF k <= Len(Request[t].issues) THEN 0 ELSE Len(Request[t].issues))

Item(i, output) ==
    [action |-> i, eid |-> EIDOf(output), type |-> output.type, quantity |-> output.quantity]

AuditOutputs == [t \in TxIds |->
    FlattenSeq([k \in DOMAIN Actions(t) |->
        [j \in DOMAIN Actions(t)[k].outputs |-> Item(ActionIndex(t, k), Actions(t)[k].outputs[j])]])]

\* The request itself only names its inputs.
Inputs == [t \in TxIds |->
    FlattenSeq([k \in DOMAIN Request[t].transfers |->
        [j \in DOMAIN Request[t].transfers[k].inputs |->
            [action |-> k - 1, id |-> Request[t].transfers[k].inputs[j]]]])]

\* The auditor adds what it knows of each: owner, type and quantity.
AuditInputs == [t \in TxIds |->
    [i \in DOMAIN Inputs[t] |->
        LET id == Inputs[t][i].id
        IN [AuditOutputs[id[1]][id[2] + 1] EXCEPT !.action = Inputs[t][i].action]]]

ByAction(s, i) == SelectSeq(s, LAMBDA x : x.action = i)

SumOf(s, e, typ) ==
    SumFunctionOnSet([i \in DOMAIN s |-> s[i].quantity],
                     {i \in DOMAIN s : s[i].eid = e /\ s[i].type = typ})

Deduplicate(s) ==
    FoldLeft(LAMBDA res, x : IF Contains(res, x) THEN res ELSE Append(res, x), << >>, s)

TokenTypesOf(s) == Deduplicate([i \in DOMAIN s |-> s[i].type])

\* In the order of the stream, without the redeemed outputs.
EnrollmentIDsOf(s) ==
    Deduplicate(SelectSeq([i \in DOMAIN s |-> s[i].eid], LAMBDA e : e # NoEID))

\* The enrollment ids of a request, in the order in which they are locked.
LockOrder == [t \in TxIds |->
    Deduplicate(EnrollmentIDsOf(AuditInputs[t]) \o EnrollmentIDsOf(AuditOutputs[t]))]

-----------------------------------------------------------------------------
Statuses == {"Pending", "Confirmed", "Deleted"}
ActionTypes == {"issue", "transfer", "redeem"}

MovementRecord ==
    [tx : TxIds, eid : EnrollmentIDs, type : TokenTypes, amount : Int, status : Statuses]
TransactionRecord ==
    [tx : TxIds, sender : EnrollmentIDs \cup {NoEID}, recipient : EnrollmentIDs \cup {NoEID},
     type : TokenTypes, amount : Nat, action : ActionTypes, status : Statuses, time : Nat]

\* Mistake: the change a sender gets back is forgotten.
DiffNoChange(t, e, typ) ==
    LET sent == SumOf(AuditInputs[t], e, typ)
    IN IF sent > 0 THEN 0 - sent ELSE SumOf(AuditOutputs[t], e, typ)

\* What the request moves to (or, when negative, from) an enrollment id.
Diff(t, e, typ) == SumOf(AuditOutputs[t], e, typ) - SumOf(AuditInputs[t], e, typ)

\* Its net movement, as a record.
Movement(t, e, typ) ==
    [tx |-> t, eid |-> e, type |-> typ, amount |-> Diff(t, e, typ), status |-> "Pending"]

\* The balances of a request, by enrollment id and then by type.
Balances(t) ==
    LET types == TokenTypesOf(AuditOutputs[t])
    IN FlattenSeq([i \in DOMAIN LockOrder[t] |->
                      [j \in DOMAIN types |-> Movement(t, LockOrder[t][i], types[j])]])

\* Movement records are net: an id and a type have one or none.
SendMovements == [t \in TxIds |-> SelectSeq(Balances(t), LAMBDA m : m.amount < 0)]
ReceivedMovements == [t \in TxIds |-> SelectSeq(Balances(t), LAMBDA m : m.amount > 0)]

\* The inputs of an action belong to one enrollment id, or Append fails.
HasSingleSenders(t) ==
    \A i \in 0 .. Len(Actions(t)) :
        Len(EnrollmentIDsOf(ByAction(AuditInputs[t], i))) <= 1

\* The transaction records of one action, by recipient (redeemed outputs last)
\* and then by type.  The amount sums the outputs of the whole request.  The time is
\* set when the records are appended.
RecordsOfAction(t, i) ==
    LET senders == EnrollmentIDsOf(ByAction(AuditInputs[t], i))
        outs    == ByAction(AuditOutputs[t], i)
        types   == TokenTypesOf(outs)
        recipients == Append(EnrollmentIDsOf(outs), NoEID)
        kind(e) == IF senders = << >> THEN "issue" ELSE IF e = NoEID THEN "redeem" ELSE "transfer"
        record(e, typ) ==
            [tx |-> t, sender |-> IF senders = << >> THEN NoEID ELSE senders[1], recipient |-> e,
             type |-> typ, amount |-> SumOf(AuditOutputs[t], e, typ), action |-> kind(e),
             status |-> "Pending", time |-> 0]
    IN SelectSeq(FlattenSeq([k \in DOMAIN recipients |->
                                [j \in DOMAIN types |-> record(recipients[k], types[j])]]),
                 LAMBDA r : r.amount > 0)

TransactionRecords == [t \in TxIds |->
    FlattenSeq([i \in 1 .. Len(Actions(t)) |-> RecordsOfAction(t, i - 1)])]

\* What the sequences above are made of, for proofs, which cannot look into the
\* folds and the filters that compute them.  The streams are of items, and their
\* enrollment ids and types are those of the items; ...
AuditItem ==
    [action : Nat, eid : EnrollmentIDs \cup {NoEID}, type : TokenTypes, quantity : Nat]

EIDsIn(s) == {s[i].eid : i \in DOMAIN s} \ {NoEID}
TypesIn(s) == {s[i].type : i \in DOMAIN s}

ASSUME StreamsAssumption ==
    \A t \in TxIds :
        /\ AuditInputs[t] \in Seq(AuditItem)
        /\ AuditOutputs[t] \in Seq(AuditItem)
        /\ LockOrder[t] \in Seq(EnrollmentIDs)
        /\ Range(LockOrder[t]) = EIDsIn(AuditInputs[t]) \cup EIDsIn(AuditOutputs[t])
        /\ Range(EnrollmentIDsOf(AuditInputs[t])) = EIDsIn(AuditInputs[t])
        /\ Range(TokenTypesOf(AuditInputs[t])) = TypesIn(AuditInputs[t])

\* ... an action has outputs of the type of its inputs, as the validators of both
\* drivers demand; ...
ASSUME TypesAssumption ==
    \A t \in TxIds : TypesIn(AuditInputs[t]) \subseteq TypesIn(AuditOutputs[t])

\* ... movements are what the balances say, each once; and a request whose
\* transaction records can be derived has some.
IsNew(t, recs) == \A i \in DOMAIN recs : recs[i].tx = t /\ recs[i].status = "Pending"

NetMovements(t) ==
    {Movement(t, e, typ) : e \in Range(LockOrder[t]), typ \in TypesIn(AuditOutputs[t])}

ASSUME RecordsAssumption ==
    \A t \in TxIds :
        /\ SendMovements[t] \in Seq(MovementRecord) /\ IsInjective(SendMovements[t])
        /\ Range(SendMovements[t]) = {m \in NetMovements(t) : m.amount < 0}
        /\ ReceivedMovements[t] \in Seq(MovementRecord) /\ IsInjective(ReceivedMovements[t])
        /\ Range(ReceivedMovements[t]) = {m \in NetMovements(t) : m.amount > 0}
        /\ TransactionRecords[t] \in Seq(TransactionRecord) /\ IsNew(t, TransactionRecords[t])
        /\ HasSingleSenders(t) => TransactionRecords[t] # << >>
=============================================================================
