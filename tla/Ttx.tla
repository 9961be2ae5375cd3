--------------------------------- MODULE Ttx ---------------------------------
(***************************************************************************)
(* The token transaction protocol.  A transaction is the work of several         *)
(* views, one per role: the initiator, who assembles it, collects what is        *)
(* needed and broadcasts it, the other party, and the auditor; on an Orion        *)
(* network the custodian has one view to approve the transaction and another to    *)
(* commit it, which do there what the initiator does itself on Fabric.  Each is a   *)
(* program, a sequence of steps (FungibleViews has the programs); todo holds      *)
(* what is left of it.                                                          *)
(*                                                                          *)
(* A session delivers reliably and in order, and each step that sends occurs     *)
(* once in a program, so a message has arrived when the step that sends it is no  *)
(* longer to do, whatever happened to the sender since (Sent).                   *)
(*                                                                          *)
(* A view fails when a step cannot succeed any more, and for reasons of its own:  *)
(* a timeout although the answer is on its way, a refusal, an error of a call.     *)
(* The latter are bounded by MaxFailures.  A view that fails releases the tokens   *)
(* its transaction holds at the node.                                           *)
(*                                                                          *)
(* The locker of a node frees the tokens of finished transactions in the           *)
(* background, in two steps: it makes a list, and later frees what is on it.  (Its  *)
(* parts are in Locker, and those of the selectors in TokenSelection; here a         *)
(* selection is one step.)                                                       *)
(***************************************************************************)
EXTENDS Custodian

CONSTANTS
    NoNode,
    Free,           \* holder of a token that is not locked
    TheCustodian,   \* the node of the custodian, which has no parties
    Initiator,      \* TxIds -> the node that assembles the transaction
    Responder,      \* TxIds -> the node of the other party, or NoNode
    Program,        \* Program[t][r]: the steps of each view
    EvictsValid,    \* whether the locker's eviction timeout passes: it keeps locks that long
    Quota,          \* how much an issuer may issue of each type
    MaxFailures,    \* failures of views for reasons of their own (bound)
    MaxCrashes      \* restarts of nodes (bound)

VARIABLES
    todo,           \* the steps a view still has to take
    failed,         \* views that failed
    locks,          \* which transaction holds a token at a node
    collected,      \* the list of tokens the locker of a node is about to free
    robbed,         \* history: transactions that lost a lock to it while under way
    failures, crashes

CustodianRoles == {"approver", "committer"}
Roles == {"initiator", "party", "auditor"} \cup CustodianRoles
Views == TxIds \X Roles

ASSUME TtxAssumption ==
    /\ NoNode \notin Nodes
    /\ Free \notin TxIds
    /\ EvictsValid \in BOOLEAN
    /\ TheCustodian \notin Nodes
    /\ AuditDB \notin Nodes
    /\ Initiator \in [TxIds -> Nodes]
    /\ Responder \in [TxIds -> Nodes \cup {NoNode}]
    /\ Quota \in [TokenTypes -> Nat]
    /\ MaxFailures \in Nat
    /\ MaxCrashes \in Nat

lockVars == <<locks, collected, robbed>>
viewVars == <<todo, failed, lockVars>>
boundVars == <<failures, crashes>>
ttxVars == <<vaultVars, viewVars, boundVars>>

NodeOf(t, r) ==
    CASE r = "initiator" -> Initiator[t]
      [] r = "party" -> Responder[t]
      [] r = "auditor" -> AuditorNode
      [] r \in CustodianRoles -> TheCustodian

\* What a receiving step of a role waits for: a step of another.
Awaited ==
    {<<"party", "tell identity", "initiator", "ask identity">>,
     <<"initiator", "identity", "party", "tell identity">>,
     <<"party", "action", "initiator", "ask action">>,
     <<"initiator", "actions", "party", "send action">>,
     <<"party", "sign", "initiator", "ask signature">>,
     <<"initiator", "signature", "party", "sign">>,
     <<"auditor", "audit", "initiator", "ask audit">>,
     <<"initiator", "audited", "auditor", "approve">>,
     <<"party", "receive", "initiator", "distribute">>,
     <<"initiator", "acknowledged", "party", "acknowledge">>,
     <<"auditor", "receive", "initiator", "distribute to auditor">>,
     <<"initiator", "acknowledged by auditor", "auditor", "acknowledge">>,
     <<"approver", "approval request", "initiator", "ask approval">>,
     <<"initiator", "approved", "approver", "approval">>,
     <<"committer", "broadcast request", "initiator", "ask broadcast">>,
     <<"initiator", "committed", "committer", "broadcast">>}

Started(t, r) == todo[t][r] # Program[t][r]
Ended(t, r) == todo[t][r] = << >> \/ <<t, r>> \in failed
Running(t, r) == Started(t, r) /\ ~Ended(t, r)

At(t, r, step) == ~Ended(t, r) /\ Head(todo[t][r]) = step
Advance(t, r) == todo' = [todo EXCEPT ![t][r] = Tail(@)]

Sent(t, r, step) == step \notin Range(todo[t][r])
MissingFor(t, r) ==
    {w \in Awaited : w[1] = r /\ w[2] = Head(todo[t][r]) /\ ~Sent(t, w[3], w[4])}
Arrived(t, r) == MissingFor(t, r) = {}

\* Mistake: a view waits for a message without a time limit.
WaitsForEver(t, r) == FALSE

\* The sender failed before it sent.
NeverArrives(t, r) == \E w \in MissingFor(t, r) : <<t, w[3]>> \in failed

-----------------------------------------------------------------------------
\* Selection of tokens.

InputsAt(t, n) == {id \in ConsumedIds(t) : IsMine(n, id)}

\* What can be locked.
Inputs == UNION {ConsumedIds(t) : t \in TxIds}

\* A lock counts until the vault reports its holder invalid.
HeldByOther(t, n, id) ==
    locks[n][id] \notin {t, Free} /\ Status(n, locks[n][id]) # "Invalid"

\* The selector goes through the tokens of a wallet that have the type asked for.
Listed(n, id) ==
    \E w \in WalletIdsOf(n, TokenOf(id).owner) : id \in ListTokens(n, w, TokenOf(id).type)

\* Mistake: the locks of others are not looked at.
SelectableIfMine(t, n) == \A id \in InputsAt(t, n) : Listed(n, id)

Selectable(t, n) == \A id \in InputsAt(t, n) : Listed(n, id) /\ ~HeldByOther(t, n, id)

\* The selector locks the inputs for the transaction.
Select(t, r) ==
    /\ At(t, r, "select")
    /\ Selectable(t, NodeOf(t, r))
    /\ locks' = [locks EXCEPT ![NodeOf(t, r)] =
                    [id \in Inputs |-> IF id \in InputsAt(t, NodeOf(t, r)) THEN t ELSE @[id]]]
    /\ Advance(t, r)
    /\ UNCHANGED <<vaultVars, failed, collected, robbed, boundVars>>

\* The locker lists tokens whose holder is rejected, or valid for long enough.
Collectable(n, id) ==
    /\ locks[n][id] # Free
    /\ Status(n, locks[n][id]) \in {"Invalid"} \cup (IF EvictsValid THEN {"Valid"} ELSE {})

ScanLists(n) ==
    /\ collected[n] = {}
    /\ \E ids \in SUBSET {id \in Inputs : Collectable(n, id)} :
          ids # {} /\ collected' = [collected EXCEPT ![n] = ids]
    /\ UNCHANGED <<vaultVars, todo, failed, locks, robbed, boundVars>>

\* It frees what it listed, whoever holds it by now.
ScanFrees(n) ==
    /\ collected[n] # {}
    /\ locks' = [locks EXCEPT ![n] = [id \in Inputs |-> IF id \in collected[n] THEN Free ELSE @[id]]]
    /\ robbed' = robbed \cup {t \in TxIds : /\ ~IsFinal(n, t)
                                           /\ \E id \in collected[n] : locks[n][id] = t}
    /\ collected' = [collected EXCEPT ![n] = {}]
    /\ UNCHANGED <<vaultVars, todo, failed, boundVars>>

\* Tokens given by their ids are loaded, not locked.
Loadable(t, n) == GetTokens(store[n], InputsAt(t, n))

Gather(t, r) ==
    /\ At(t, r, "gather")
    /\ Loadable(t, NodeOf(t, r))
    /\ Advance(t, r)
    /\ UNCHANGED <<vaultVars, failed, lockVars, boundVars>>

\* The issuer adds up what its history lists and what it is about to issue, type by
\* type.
TotalOf(ids, typ) ==
    MapThenSumSet(LAMBDA id : IF TokenOf(id).type = typ THEN TokenOf(id).quantity ELSE 0, ids)

WithinQuota(t) ==
    \A id \in CreatedIds(t) :
        LET typ == TokenOf(id).type
            history == HistoryTokens(Initiator[t], IssuerOf(id), typ)
        IN TotalOf(history, typ) + TotalOf(CreatedIds(t), typ) <= Quota[typ]

CheckQuota(t, r) ==
    /\ At(t, r, "quota")
    /\ WithinQuota(t)
    /\ Advance(t, r)
    /\ UNCHANGED <<vaultVars, failed, lockVars, boundVars>>

-----------------------------------------------------------------------------
\* Steps that only send or receive: requests for identities, actions and
\* signatures and the answers, the request for an audit and the auditor's
\* signature, the distribution of the transaction and the acknowledgements, requests
\* to the custodian and its answers.
Exchanges ==
    {"ask identity", "tell identity", "identity", "ask action", "action", "send action",
     "actions", "ask signature", "sign", "signature", "ask audit", "approve", "audited",
     "distribute", "receive", "acknowledge", "acknowledged", "distribute to auditor",
     "acknowledged by auditor", "ask approval", "approval request", "approved",
     "ask broadcast", "broadcast request", "committed"}

Exchange(t, r) ==
    /\ ~Ended(t, r)
    /\ Head(todo[t][r]) \in Exchanges
    /\ Arrived(t, r)
    /\ Advance(t, r)
    /\ UNCHANGED <<vaultVars, failed, lockVars, boundVars>>

storeTransient(t, r) ==
    /\ At(t, r, "transient")
    /\ transient' = [transient EXCEPT ![NodeOf(t, r)] = @ \cup {t}]
    /\ Advance(t, r)
    /\ UNCHANGED <<networkVars, height, envelope, store, recordVars, failed, lockVars,
                   boundVars>>

StoreEnvelope(t, r) ==
    /\ At(t, r, "envelope")
    /\ envelope' = [envelope EXCEPT ![NodeOf(t, r)] = @ \cup {t}]
    /\ Advance(t, r)
    /\ UNCHANGED <<networkVars, height, transient, store, recordVars, failed, lockVars,
                   boundVars>>

\* The records of the owners of the node, and those of the auditor.
StoreTransactionRecords(t, r) ==
    /\ At(t, r, "records")
    /\ AppendRecords(NodeOf(t, r), t)
    /\ Advance(t, r)
    /\ UNCHANGED <<networkVars, height, transient, envelope, store, failed, lockVars,
                   boundVars>>

AppendAuditRecords(t, r) ==
    /\ At(t, r, "append")
    /\ AppendRecords(AuditDB, t)
    /\ Advance(t, r)
    /\ UNCHANGED <<networkVars, height, transient, envelope, store, failed, lockVars,
                   boundVars>>

\* The auditor has seen every input; it waits for a transaction that is pending.
Audit(t, r) ==
    /\ At(t, r, "audit")
    /\ Arrived(t, r)
    /\ ListAuditTokens(store[AuditorNode], ConsumedIds(t))
    /\ Advance(t, r)
    /\ UNCHANGED <<vaultVars, failed, lockVars, boundVars>>

\* The chaincode, or the custodian, looks for the inputs on the ledger.
requestApproval(t, r) ==
    /\ At(t, r, "approval")
    /\ Approves(t)
    /\ Advance(t, r)
    /\ UNCHANGED <<vaultVars, failed, lockVars, boundVars>>

\* The sanity check of the views before they broadcast or wait.
CheckBusy(t, r) ==
    /\ At(t, r, "busy")
    /\ Status(NodeOf(t, r), t) = "Busy"
    /\ Advance(t, r)
    /\ UNCHANGED <<vaultVars, failed, lockVars, boundVars>>

Finality(t, r) ==
    /\ At(t, r, "final")
    /\ Status(NodeOf(t, r), t) = "Valid"
    /\ Advance(t, r)
    /\ UNCHANGED <<vaultVars, failed, lockVars, boundVars>>

-----------------------------------------------------------------------------
\* Failures.

\* What a transaction does when the view that holds it fails.
Release(t, r) ==
    /\ locks' = [n \in Nodes |-> [id \in Inputs |->
                    IF n = NodeOf(t, r) /\ locks[n][id] = t THEN Free ELSE locks[n][id]]]
    /\ UNCHANGED <<collected, robbed>>

Fail(t, r) ==
    /\ failed' = failed \cup {<<t, r>>}
    /\ Release(t, r)
    /\ UNCHANGED todo

\* The next step cannot be taken any more.
Hopeless(t, r) ==
    LET n == NodeOf(t, r)
    IN \/ NeverArrives(t, r)
       \/ At(t, r, "select") /\ ~Selectable(t, n)
       \/ At(t, r, "gather") /\ ~Loadable(t, n)
       \/ At(t, r, "quota") /\ ~WithinQuota(t)
       \/ At(t, r, "audit") /\ Arrived(t, r)
             /\ ~ListAuditTokens(store[n], ConsumedIds(t))
             /\ \A id \in ConsumedIds(t) : ~IsPending(n, id)
       \/ At(t, r, "approval") /\ ~Approves(t)
       \/ At(t, r, "busy") /\ Status(n, t) # "Busy"
       \/ At(t, r, "final") /\ Status(n, t) = "Invalid"

GiveUp(t, r) ==
    /\ Running(t, r)
    /\ Hopeless(t, r)
    /\ Fail(t, r)
    /\ UNCHANGED <<vaultVars, boundVars>>

\* Nobody limits the wait for finality, and a prepared transaction is not held
\* by a view.
Timeout(t, r) ==
    /\ failures < MaxFailures
    /\ Running(t, r)
    /\ Head(todo[t][r]) \notin {"final", "prepared"}
    /\ ~Hopeless(t, r)
    /\ Fail(t, r)
    /\ failures' = failures + 1
    /\ UNCHANGED <<vaultVars, crashes>>

\* A prepared transaction waits for the view that broadcasts it.
Resume(t, r) ==
    /\ At(t, r, "prepared")
    /\ Advance(t, r)
    /\ UNCHANGED <<vaultVars, failed, lockVars, boundVars>>

-----------------------------------------------------------------------------
\* Ordering: the orderer, or the database, takes the envelope, and whoever sent it may
\* get an error all the same.
Broadcast(t, r) ==
    /\ At(t, r, "broadcast")
    /\ submitted' = submitted \cup {t}
    /\ UNCHANGED <<ledgerVars, chain, height, transient, envelope, store, recordVars, crashes>>
    /\ \/ Advance(t, r) /\ UNCHANGED <<failed, lockVars, failures>>
       \/ failures < MaxFailures /\ Fail(t, r) /\ failures' = failures + 1

\* A node restarts: its views are gone, and the locks, with the list of those to be
\* freed, and the listeners with them.
Restart(n) ==
    /\ crashes < MaxCrashes
    /\ crashes' = crashes + 1
    /\ failed' = failed \cup {v \in Views : /\ NodeOf(v[1], v[2]) = n
                                            /\ Running(v[1], v[2])
                                            /\ ~At(v[1], v[2], "prepared")}
    /\ locks' = [m \in Nodes |-> IF m = n THEN [id \in Inputs |-> Free] ELSE locks[m]]
    /\ collected' = [m \in Nodes |-> IF m = n THEN {} ELSE collected[m]]
    /\ Restore(n)
    /\ UNCHANGED <<networkVars, height, transient, envelope, store, todo, robbed, failures>>

TtxInit ==
    /\ VaultInit
    /\ todo = [t \in TxIds |->
                  IF t \in InGenesis THEN [r \in Roles |-> << >>] ELSE Program[t]]
    /\ failed = {}
    /\ locks = [n \in Nodes |-> [id \in Inputs |-> Free]]
    /\ collected = [n \in Nodes |-> {}]
    /\ robbed = {}
    /\ failures = 0
    /\ crashes = 0

Act(t, r) ==
    \/ Select(t, r) \/ Gather(t, r) \/ CheckQuota(t, r)
    \/ Exchange(t, r)
    \/ storeTransient(t, r) \/ StoreEnvelope(t, r)
    \/ StoreTransactionRecords(t, r) \/ AppendAuditRecords(t, r)
    \/ Audit(t, r) \/ requestApproval(t, r)
    \/ CheckBusy(t, r) \/ Finality(t, r)
    \/ Resume(t, r) \/ Broadcast(t, r)

TtxNext ==
    \/ \E t \in TxIds : \E r \in {s \in Roles : ~Ended(t, s)} :
          Act(t, r) \/ GiveUp(t, r) \/ Timeout(t, r)
    \/ \E t \in TxIds : Order(t) /\ UNCHANGED <<viewVars, boundVars>>
    \/ \E n \in Nodes, k \in Networks : Process(n, k) /\ UNCHANGED <<viewVars, boundVars>>
    \/ \E db \in DBs, t \in TxIds : OnStatusChange(db, t) /\ UNCHANGED <<viewVars, boundVars>>
    \/ \E n \in Nodes : ScanLists(n) \/ ScanFrees(n)
    \/ \E n \in Nodes \cup {TheCustodian} : Restart(n)
=============================================================================
