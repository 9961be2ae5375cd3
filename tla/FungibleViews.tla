----------------------------- MODULE FungibleViews -----------------------------
(***************************************************************************)
(* The views of the fungible token application: who does what in an issue, a   *)
(* transfer, a redemption and a swap, as programs over the steps of Ttx, and     *)
(* what has to hold when they run side by side, some of them fail and nodes       *)
(* restart.                                                                   *)
(*                                                                          *)
(* Where the code asks one party for several signatures in a row this is one      *)
(* exchange.  A party that refuses a transaction for reasons of its business       *)
(* gives up on its own (Timeout).                                              *)
(***************************************************************************)
EXTENDS Ttx

CONSTANT View           \* TxIds -> the kind of view that initiates it

-----------------------------------------------------------------------------
\* The views of the protocol.

RequestRecipientIdentityView == <<"ask identity", "identity">>
RespondRequestRecipientIdentityView == <<"tell identity">>
ExchangeRecipientIdentitiesView == <<"ask identity", "identity">>
RespondExchangeRecipientIdentitiesView == <<"tell identity">>

collectRemote == <<"ask action", "actions">>
receiveActionsView == <<"action">>
collectActionsResponderView == <<"send action">>

\* An issuer and a sender sign for themselves; the second sender of a swap is asked.
requestSignaturesOnIssues(t) == << >>
requestSignaturesOnTransfers(t) ==
    IF View[t] = "swap" THEN <<"ask signature", "signature">> ELSE << >>

startRemote == <<"ask audit">>
AuditingViewInitiator == startRemote \o <<"audited">>
\* The public parameters name an auditor, so every transaction is audited.
requestAudit == AuditingViewInitiator

\* Everybody once, the auditor always on its own account and last; issuers and
\* senders lead the list, so the node's own copy comes first.
distributionListCompressed(t) ==
    <<"me">> \o (IF Responder[t] # NoNode THEN <<"party">> ELSE << >>) \o <<"auditor">>

distributeTo(entry) ==
    CASE entry = "me"      -> <<"envelope", "records">>
      [] entry = "party"   -> <<"distribute", "acknowledged">>
      [] entry = "auditor" -> <<"distribute to auditor", "acknowledged by auditor">>

distributeEnv(t) ==
    FlattenSeq([i \in DOMAIN distributionListCompressed(t) |->
                   distributeTo(distributionListCompressed(t)[i])])

\* The chaincode approves what goes to Fabric; the custodian approves, and commits,
\* on an Orion network.
OnOrion(t) == NetworkOf[t] \in OrionNetworks

EndorseChaincodeView == <<"approval">>
RequestApprovalView == <<"ask approval", "approved">>
RequestApprovalResponderView == <<"approval request", "approval">>
BroadcastView == <<"ask broadcast", "committed">>
BroadcastResponderView == <<"broadcast request", "broadcast">>

RequestApproval(t) == IF OnOrion(t) THEN RequestApprovalView ELSE EndorseChaincodeView
BroadcastEnvelope(t) == IF OnOrion(t) THEN BroadcastView ELSE <<"broadcast">>

CollectEndorsements(t) ==
    <<"transient">> \o requestSignaturesOnIssues(t) \o requestSignaturesOnTransfers(t)
        \o requestAudit \o RequestApproval(t) \o distributeEnv(t)

FinalityView == <<"final">>
OrderingAndFinalityView(t) == BroadcastEnvelope(t) \o FinalityView

ReceiveTransaction == <<"receive">>

\* Mistake: the responder acknowledges before it has stored what it received.
AcceptEarly == <<"acknowledge", "transient", "envelope", "records">>

AcceptView == <<"transient", "envelope", "records", "acknowledge">>
EndorseView ==
    <<"sign", "transient">> \o ReceiveTransaction \o <<"envelope", "records", "acknowledge">>

waitEnvelope == ReceiveTransaction \o <<"transient", "envelope", "acknowledge">>
signAndSendBack == <<"approve">> \o waitEnvelope
AuditApproveView == <<"append">> \o signAndSendBack

-----------------------------------------------------------------------------
\* The initiators.

IssueCashView(t) ==
    RequestRecipientIdentityView \o <<"quota">> \o CollectEndorsements(t)
        \o <<"busy">> \o OrderingAndFinalityView(t)
TransferView(t) ==
    RequestRecipientIdentityView \o <<"select">> \o CollectEndorsements(t)
        \o <<"busy">> \o OrderingAndFinalityView(t)
\* The selector is called first, Transfer is given what it found.
TransferWithSelectorView(t) ==
    RequestRecipientIdentityView \o <<"select", "gather">> \o CollectEndorsements(t)
        \o <<"busy">> \o OrderingAndFinalityView(t)
RedeemView(t) ==
    <<"select">> \o CollectEndorsements(t) \o <<"busy">> \o OrderingAndFinalityView(t)
PrepareTransferView(t) ==
    RequestRecipientIdentityView \o <<"gather">> \o CollectEndorsements(t)
BroadcastPreparedTransferView(t) == OrderingAndFinalityView(t)
SwapInitiatorView(t) ==
    ExchangeRecipientIdentitiesView \o <<"select">> \o collectRemote
        \o CollectEndorsements(t) \o <<"busy">> \o OrderingAndFinalityView(t)

\* The responders.
AcceptCashView ==
    RespondRequestRecipientIdentityView \o ReceiveTransaction \o AcceptView
        \o <<"busy">> \o FinalityView
AcceptPreparedCashView ==
    RespondRequestRecipientIdentityView \o ReceiveTransaction \o AcceptView
SwapResponderView ==
    RespondExchangeRecipientIdentitiesView \o receiveActionsView \o <<"select">>
        \o collectActionsResponderView \o EndorseView \o <<"busy">> \o FinalityView
AuditView == <<"audit">> \o AuditApproveView

InitiatorProgram(t) ==
    CASE View[t] = "issue"    -> IssueCashView(t)
      [] View[t] = "transfer" -> TransferView(t)
      [] View[t] = "selector" -> TransferWithSelectorView(t)
      [] View[t] = "redeem"   -> RedeemView(t)
      [] View[t] = "prepared" -> PrepareTransferView(t) \o <<"prepared">>
                                     \o BroadcastPreparedTransferView(t)
      [] View[t] = "swap"     -> SwapInitiatorView(t)

ResponderProgram(t) ==
    CASE View[t] = "redeem"   -> << >>
      [] View[t] = "prepared" -> AcceptPreparedCashView
      [] View[t] = "swap"     -> SwapResponderView
      [] OTHER                -> AcceptCashView

OfCustodian(t, view) == IF OnOrion(t) THEN view ELSE << >>

Programs ==
    [t \in TxIds |-> [r \in Roles |->
        CASE r = "initiator" -> InitiatorProgram(t)
          [] r = "party"     -> ResponderProgram(t)
          [] r = "auditor"   -> AuditView
          [] r = "approver"  -> OfCustodian(t, RequestApprovalResponderView)
          [] r = "committer" -> OfCustodian(t, BroadcastResponderView)]]

-----------------------------------------------------------------------------
\* The nodes of those who issue, pay or are paid.
Involved(t) ==
    (UNION {NodesOf[IssuerOf(id)] : id \in {i \in CreatedIds(t) : IssuerOf(i) # NoIssuer}})
        \cup (UNION {NodesOf[TokenOf(id).owner] : id \in CreatedIds(t) \cup ConsumedIds(t)})

\* The views that hold the inputs of a transaction.
Payers(t) ==
    CASE View[t] = "issue" -> {}
      [] View[t] = "swap"  -> {"initiator", "party"}
      [] OTHER             -> {"initiator"}

\* A transaction is between the party that initiates it and the one it asks, each at
\* a node of its own, and they pay with what is theirs; the auditor's node does not
\* pay.
ASSUME ViewsAssumption ==
    /\ Program = Programs
    /\ View \in [TxIds -> {"issue", "transfer", "selector", "redeem", "prepared", "swap"}]
    /\ \A t \in TxIds : View[t] = "redeem" <=> Responder[t] = NoNode
    /\ \A t \in TxIds :
          Assemblers[t] = {Initiator[t]} \cup (IF View[t] = "swap" THEN {Responder[t]} ELSE {})
    /\ \A t \in TxIds : Involved(t) \subseteq Nodes
    /\ \A t \in TxIds \ InGenesis :
          /\ Involved(t) \subseteq {Initiator[t], Responder[t]}
          /\ \A r \in Payers(t) : NodeOf(t, r) # AuditorNode
          /\ \A id \in ConsumedIds(t) :
                \E r \in Payers(t) : NodesOf[TokenOf(id).owner] = {NodeOf(t, r)}

Init == TtxInit

Next == TtxNext

Spec == Init /\ [][Next]_ttxVars

\* Views, the network, the nodes and their listeners get on with their work, and a
\* view that cannot go on gives up sooner or later; but nobody has to start a
\* transaction or to broadcast what was prepared.
MayIdle(t, r) ==
    r = "initiator" /\ (todo[t][r] = Program[t][r] \/ At(t, r, "prepared"))

Progress ==
    \/ \E t \in TxIds, r \in Roles : Act(t, r) /\ ~MayIdle(t, r)
    \/ \E t \in TxIds, r \in Roles : GiveUp(t, r)
    \/ \E t \in TxIds : Order(t) /\ UNCHANGED <<viewVars, boundVars>>
    \/ \E n \in Nodes, k \in Networks : Process(n, k) /\ UNCHANGED <<viewVars, boundVars>>
    \/ \E db \in DBs, t \in TxIds : OnStatusChange(db, t) /\ UNCHANGED <<viewVars, boundVars>>

\* No step can be repeated for ever, the locker's collector included (it lists what
\* a transaction holds that is final, and frees it), so it makes no difference that
\* this is fairness to all of them together and not to each.
FairSpec == Spec /\ WF_ttxVars(Progress)

-----------------------------------------------------------------------------

TypeOK ==
    /\ VaultTypeOK
    /\ \A t \in TxIds, r \in Roles :
          LET done == Len(Program[t][r]) - Len(todo[t][r])
          IN todo[t][r] = SubSeq(Program[t][r], done + 1, Len(Program[t][r]))
    /\ failed \subseteq Views
    /\ locks \in [Nodes -> [Inputs -> TxIds \cup {Free}]]
    /\ collected \in [Nodes -> SUBSET Inputs]
    /\ robbed \subseteq TxIds
    /\ failures \in 0 .. MaxFailures
    /\ crashes \in 0 .. MaxCrashes

-----------------------------------------------------------------------------
\* What CheckTTXDBView compares: the records of a database, the vault of its node
\* and the ledger.  A mismatch is a transaction or a token with its kind.
LedgerStatus(t) == TxStatus(t)

RecordMismatch(n, db, t) ==
    CASE Status(n, t) = "Valid"   -> records[db][t] # "Confirmed"
      [] Status(n, t) = "Invalid" -> records[db][t] # "Deleted"
      [] Status(n, t) = "Busy"    -> records[db][t] # "Pending"
      [] OTHER                    -> TRUE

LedgerMismatch(n, db, t) ==
    CASE Status(n, t) = "Valid" -> LedgerStatus(t) # "Valid"
      [] Status(n, t) = "Invalid" ->
             LedgerStatus(t) \notin {"Invalid"} \cup
                 (IF records[db][t] = "Deleted" THEN {"Unknown"} ELSE {})
      [] OTHER -> LedgerStatus(t) # "Unknown"

CheckTTXDB(db) ==
    LET n == NodeOfDB(db)
        known == {t \in TxIds : records[db][t] # "none"}
    IN {<<"record", t>> : t \in {u \in known : RecordMismatch(n, db, u)}}
       \cup {<<"envelope", t>> : t \in known \ envelope[n]}
       \cup {<<"metadata", t>> : t \in known \ transient[n]}
       \cup {<<"ledger", t>> : t \in {u \in known : LedgerMismatch(n, db, u)}}
       \cup {<<"token", id>> : id \in {i \in UnspentTokens(n) : ~QueryTokens(NetworkOf[i[1]], {i})}}

\* From the moment a transaction can be ordered, every node involved in it has
\* stored the openings and the envelope it needs to process it and the records of
\* it, and so has the auditor, whatever failed or restarted meanwhile
\* (distributeEnv waits for the acknowledgements before anyone broadcasts).
EveryPartyKnows ==
    \A t \in TxIds : t \in submitted \/ Ordered(t) =>
        /\ \A n \in Involved(t) \cup {AuditorNode} : t \in transient[n] /\ t \in envelope[n]
        /\ \A db \in Involved(t) \cup {AuditDB} : records[db][t] # "none"

\* At any height a node keeps exactly the tokens of its parties that are unspent
\* on the ledger at that height and whose opening it was sent, listed by wallet and
\* by type as well, and knows which transaction spent those that are not; the
\* auditor has seen all there were (the processor of read/write sets, which skips
\* what it cannot open, and the queries of the vault).
VaultFollowsLedger ==
    /\ \A n \in Nodes :
          LET own == {id \in UnspentAt(n) : IsMine(n, id) /\ Opens(n, id)}
          IN /\ UnspentTokens(n) = own
             /\ \A p \in Parties : \A w \in WalletIdsOf(n, p), typ \in TokenTypes \cup {AnyType} :
                    ListTokens(n, w, typ) =
                        {id \in own : /\ w \in WalletIdsOf(n, TokenOf(id).owner)
                                      /\ typ \in {AnyType, TokenOf(id).type}}
             /\ \A id \in UNION {Created[t] : t \in ProcessedAt(n)} :
                    IsMine(n, id) => WhoDeletedTokens(store[n], id) =
                                         {u \in ProcessedAt(n) : id \in ConsumedIds(u)}
    /\ ListAuditTokens(store[AuditorNode], UNION {CreatedIds(t) : t \in ProcessedAt(AuditorNode)})

\* Whatever CheckTTXDBView reports passes on its own: a record disagrees with the
\* vault only while the outcome is on its way to the listener, the vault with the
\* ledger only while the node has not processed the transaction, a token with the
\* ledger only while the node has not heard of it being spent; and the auditor lacks
\* an envelope or openings only for what nobody has broadcast.
RecordsMatchVault ==
    \A db \in DBs : \A m \in CheckTTXDB(db) :
        LET n == NodeOfDB(db)
            unsent(t) == db = AuditDB /\ t \notin submitted /\ ~Ordered(t)
        IN CASE m[1] = "record" -> m[2] \in notices[db] \/ unsent(m[2])
             [] m[1] \in {"envelope", "metadata"} -> unsent(m[2])
             [] m[1] = "ledger" -> Status(n, m[2]) = "Busy" /\ Ordered(m[2])
             [] m[1] = "token" ->
                    \E t \in settled : m[2] \in ConsumedIds(t) /\ ~Processed(n, t)

\* Nobody's transaction is rejected out of the blue: when one is, it lost a token to
\* another, and one of the two lost its locks to a failure, a restart or the locker's
\* own collector, or never had any, because its tokens were given by their ids
\* (but for these, locks are kept until the outcome is known).
RejectionNeedsFailure ==
    \A t \in TxIds : Ordered(t) /\ t \notin settled =>
        \E u \in settled :
            /\ ConsumedIds(t) \cap ConsumedIds(u) # {}
            /\ \/ \E v \in failed : v[1] \in {t, u} /\ v[2] # "auditor"
               \/ {t, u} \cap robbed # {}
               \/ View[t] = "prepared" \/ View[u] = "prepared"

\* What was broadcast reaches the records of everyone involved, restarts
\* notwithstanding: sooner or later they all say what became of it, and go on saying
\* so (listeners, Restore).
OutcomeReachesEveryone ==
    <>[](\A t \in TxIds : t \in submitted \/ Ordered(t) =>
             \A db \in Involved(t) \cup {AuditDB} : records[db][t] = Outcome(t))

\* No view that initiates a transaction hangs: in the end each has ended, was never
\* started, or has only prepared its transaction, for every wait of it is answered,
\* times out, or is for an outcome that comes.
InitiatorEnds ==
    <>[](\A t \in TxIds : Running(t, "initiator") => At(t, "initiator", "prepared"))
=============================================================================
