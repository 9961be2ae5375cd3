----------------------------- MODULE ZkPipeline -----------------------------
(***************************************************************************)
(* A zkatdlog network: nodes assemble requests, the auditor checks them,   *)
(* every party is sent the metadata that concerns it, the chaincode        *)
(* validates against the ledger, and each node takes the tokens it finds   *)
(* an opening of into its vault.                                           *)
(*                                                                         *)
(* The steps of the protocol between parties (module Ttx), the way the     *)
(* chaincode writes (TokenChaincode) and the vault's own steps             *)
(* (TokenVault) are taken in one go here: what counts is which commitments *)
(* and openings reach whom.                                                *)
(***************************************************************************)
EXTENDS ZkRequest

CONSTANTS TxIds,
          Nodes, NodeOf,  \* NodeOf[w]: the node that holds wallet w
          AuditorNode,
          Initiator,      \* TxIds -> the node that runs the transaction
          Calls,          \* TxIds -> the calls of the token API it makes (bound)
          Seed            \* TxIds -> state of the random generator

\* A call is [kind, wallet, type, values, to, given]: to holds recipient
\* wallets, Nobody for a redeemed output; given the inputs the application
\* names, none to have them selected.
Kinds == {"issue", "transfer", "redeem", "driver"}

ASSUME PipelineAssumption ==
    /\ NodeOf \in [Wallets -> Nodes] /\ AuditorNode \in Nodes
    /\ Initiator \in [TxIds -> Nodes] /\ Seed \in [TxIds -> Nat]
    /\ \A t \in TxIds : \A k \in DOMAIN Calls[t] : Calls[t][k].kind \in Kinds

VARIABLES
    request,   \* TxIds -> the request assembled so far
    stage,     \* "new", "audited", "distributed", "accepted", "refused"
    why,       \* what refused it
    ledger,    \* token id -> token, the unspent ones
    ordered,   \* the transactions in the order of the ledger
    vault,     \* vault[n]: token id -> [token, info], unspent at node n
    height     \* height[n]: how many of them node n has processed

vars == <<request, stage, why, ledger, ordered, vault, height>>

NoReason == "none"

Init ==
    /\ request = [t \in TxIds |-> EmptyRequest]
    /\ stage = [t \in TxIds |-> "new"]
    /\ why = [t \in TxIds |-> NoReason]
    /\ ledger = << >>
    /\ ordered = << >>
    /\ vault = [n \in Nodes |-> << >>]
    /\ height = [n \in Nodes |-> 0]

CallsMade(t) == Len(request[t].issues) + Len(request[t].transfers)
Assembled(t) == CallsMade(t) = Len(Calls[t])

Refuse(t, reason) ==
    /\ stage' = [stage EXCEPT ![t] = "refused"]
    /\ why' = [why EXCEPT ![t] = reason]

-----------------------------------------------------------------------------
(* Assembly *)

IsOwned(token, w) == token.owner # Nobody /\ token.owner[1] = w

\* The pseudonym a wallet hands out for one output of one call.
Pseudonym(w, t, j) == IF w = Nobody THEN Nobody ELSE <<w, t, CallsMade(t), j>>

\* Tokens a selector may take: of the wallet and the type, and not locked for
\* a transaction under way.  Inputs the application names are not locked.
Locked == UNION {ToSet(InputIds(request[u])) :
                    u \in {t \in TxIds : stage[t] # "refused" /\ \A k \in DOMAIN Calls[t] : Calls[t][k].given = << >>}}
Selectable(c) ==
    LET v == vault[NodeOf[c.wallet]]
    IN {id \in DOMAIN v \ Locked : IsOwned(v[id].token, c.wallet) /\ v[id].info.type = c.type}

SumOf(v, ids) == FoldSet(LAMBDA id, s : s + v[id].info.value, 0, ids)

\* The selector stops at the token that makes the sum large enough.
Selections(c) ==
    LET v == vault[NodeOf[c.wallet]]  target == IntSum(c.values)
    IN {S \in SUBSET Selectable(c) :
           SumOf(v, S) >= target /\ \E last \in S : SumOf(v, S \ {last}) < target}

Inputs(c) == IF c.given # << >> THEN {c.given} ELSE {SetToSeq(S) : S \in Selections(c)}

\* The vault has all of the tokens, with their openings; or all of the outputs.
GetTokenInfoAndOutputs(n, ids) == ToSet(ids) \subseteq DOMAIN vault[n]
GetTokenOutputs(n, ids) == ToSet(ids) \subseteq DOMAIN vault[n]

\* What the call makes of the request, from these inputs.
Result(t, c, ids) ==
    LET owners == [j \in 1..Len(c.to) |-> Pseudonym(c.to[j], t, j)]
        v      == vault[NodeOf[c.wallet]]
        seed   == Seed[t] + 10 * CallsMade(t)
    IN CASE c.kind = "issue"  -> Issue(request[t], <<c.wallet>>, c.type, c.values[1], owners[1], seed)
         [] c.kind = "driver" -> DriverTransfer(request[t], v, ids, c.values, owners, seed)
         [] OTHER -> Transfer(request[t], v, ids, c.values, owners,
                              Pseudonym(c.wallet, t, Len(c.to) + 1), seed)

Assemble(t) ==
    /\ stage[t] = "new" /\ ~ Assembled(t)
    /\ LET c == Calls[t][CallsMade(t) + 1]
       IN \E ids \in IF c.kind = "issue" THEN {<< >>} ELSE Inputs(c) :
             /\ GetTokenInfoAndOutputs(NodeOf[c.wallet], ids)
             /\ \E r \in {Result(t, c, ids)} :
                   IF r = NoRequest
                   THEN Refuse(t, "call") /\ UNCHANGED request
                   ELSE request' = [request EXCEPT ![t] = r] /\ UNCHANGED <<stage, why>>
    /\ UNCHANGED <<ledger, ordered, vault, height>>

\* Inputs named by the application that the vault does not have.
AssembleFails(t) ==
    /\ stage[t] = "new" /\ ~ Assembled(t)
    /\ LET c == Calls[t][CallsMade(t) + 1]
       IN ~ GetTokenInfoAndOutputs(NodeOf[c.wallet], c.given)
    /\ Refuse(t, "input")
    /\ UNCHANGED <<request, ledger, ordered, vault, height>>

-----------------------------------------------------------------------------
(* The way to the ledger *)

\* The auditor sees all metadata, and loads the inputs from its own vault.
Loaded(t) == GetTokenOutputs(AuditorNode, InputIds(request[t]))

AuditCheck(t) == IsValid(request[t]) /\ AuditorCheck(request[t], vault[AuditorNode])

Audit(t) ==
    /\ stage[t] = "new" /\ Assembled(t) /\ Loaded(t)
    /\ IF AuditCheck(t)
       THEN stage' = [stage EXCEPT ![t] = "audited"] /\ UNCHANGED why
       ELSE Refuse(t, "audit")
    /\ UNCHANGED <<request, ledger, ordered, vault, height>>

\* Spent, or not there after the last retry.
AuditGivesUp(t) ==
    /\ stage[t] = "new" /\ Assembled(t) /\ ~ Loaded(t)
    /\ Refuse(t, "input")
    /\ UNCHANGED <<request, ledger, ordered, vault, height>>

\* Mistake: the receivers of an issue are left out.
distributionListIssuers(req) ==
    [i \in 1..Len(req.issueMeta) |-> req.issueMeta[i].issuer]
    \o SelectSeq(
        FlattenSeq([i \in 1..Len(req.transferMeta) |->
            req.transferMeta[i].senders
            \o [k \in 1..Len(req.transferMeta[i].outputs) |-> req.transferMeta[i].outputs[k].receiver]]),
        LAMBDA id : id # Nobody)

\* Issuer and receivers of each issue, then senders and receivers of each
\* transfer: a redeemed output has nobody to tell.
Receivers(m) == [k \in 1..Len(m.outputs) |-> m.outputs[k].receiver]
distributionList(req) ==
    SelectSeq(
        FlattenSeq([i \in 1..Len(req.issueMeta) |->
                       <<req.issueMeta[i].issuer>> \o Receivers(req.issueMeta[i])])
        \o FlattenSeq([i \in 1..Len(req.transferMeta) |->
                          req.transferMeta[i].senders \o Receivers(req.transferMeta[i])]),
        LAMBDA id : id # Nobody)

PartiesAt(t, n) == SelectSeq(distributionList(request[t]), LAMBDA id : NodeOf[id[1]] = n)
IsParty(t, n) == PartiesAt(t, n) # << >>

\* One entry per node, with the enrollment id of the first of its identities.
EIDAt(t, n) == GetEnrollmentID(PartiesAt(t, n)[1])

\* What a node holds of a distributed transaction: the initiator and the
\* auditor everything.
MetadataAt(t, n) ==
    IF n \in {Initiator[t], AuditorNode} THEN request[t] ELSE FilterBy(request[t], EIDAt(t, n))
Knows(t, n) ==
    stage[t] \in {"distributed", "accepted"} /\ (n \in {Initiator[t], AuditorNode} \/ IsParty(t, n))

\* Every party checks what it receives.
Distribute(t) ==
    /\ stage[t] = "audited"
    /\ IF \A n \in Nodes : IsParty(t, n) => IsValid(MetadataAt(t, n))
       THEN stage' = [stage EXCEPT ![t] = "distributed"] /\ UNCHANGED why
       ELSE Refuse(t, "recipient")
    /\ UNCHANGED <<request, ledger, ordered, vault, height>>

\* Outputs of a request by token id; a redeemed one is not a token.
NewIds(t) == {<<t, k>> : k \in {j \in DOMAIN OutputTokens(request[t]) :
                                   OutputTokens(request[t])[j].owner # Nobody}}
TokenAt(id) == OutputTokens(request[id[1]])[id[2]]

Without(f, ids) == [id \in DOMAIN f \ ids |-> f[id]]
Spent(t) == ToSet(InputIds(request[t]))

\* The chaincode at the transaction's place in the order.
Settle(t) ==
    /\ stage[t] = "distributed"
    /\ IF ~ InputsExist(request[t], ledger)
       THEN Refuse(t, "input") /\ UNCHANGED <<ledger, ordered>>
       ELSE IF ~ ValidatorAccepts(request[t], ledger)
       THEN Refuse(t, "validator") /\ UNCHANGED <<ledger, ordered>>
       ELSE /\ stage' = [stage EXCEPT ![t] = "accepted"]
            /\ ledger' = Without(ledger, Spent(t)) @@ [id \in NewIds(t) |-> TokenAt(id)]
            /\ ordered' = Append(ordered, t)
            /\ UNCHANGED why
    /\ UNCHANGED <<request, vault, height>>

\* A node takes the outputs it has the opening of and a wallet for, the
\* auditor every output; what is spent leaves the vault.
Mine(t, n) ==
    {id \in NewIds(t) : /\ TokenAt(id) \in KnownTokens(MetadataAt(t, n))
                        /\ \/ n = AuditorNode
                           \/ NodeOf[TokenAt(id).owner[1]] = n}

Deliver(n) ==
    /\ height[n] < Len(ordered)
    /\ LET t == ordered[height[n] + 1]
           new == IF Knows(t, n) THEN Mine(t, n) ELSE {}
       IN vault' = [vault EXCEPT ![n] =
              Without(@, Spent(t)) @@
              [id \in new |-> [token |-> TokenAt(id), info |-> GetInfo(MetadataAt(t, n), TokenAt(id))]]]
    /\ height' = [height EXCEPT ![n] = @ + 1]
    /\ UNCHANGED <<request, stage, why, ledger, ordered>>

Next ==
    \/ \E t \in TxIds :
          Assemble(t) \/ AssembleFails(t) \/ Audit(t) \/ AuditGivesUp(t) \/ Distribute(t) \/ Settle(t)
    \/ \E n \in Nodes : Deliver(n)

Spec == Init /\ [][Next]_vars

-----------------------------------------------------------------------------
(* Properties *)

\* A commitment tells its type and value here, as nobody can see in the code.
ValueOf(token, type) == IF token.data[1] = TypeHash[type] THEN token.data[2] ELSE 0
Total(tokens, type) == IntSum([k \in 1..Len(tokens) |-> ValueOf(tokens[k], type)])

AllOutputs(actions) == FlattenSeq([i \in 1..Len(actions) |-> actions[i].outputs])

\* The proofs keep the books: for every type the tokens on the ledger and
\* those redeemed add up to those issued, and every token on the ledger is of
\* some type and worth at most MaxTokenValue, although the chaincode never
\* sees a value and a caller of the driver may ask for outputs that do not
\* add up.
TokensAddUp ==
    /\ \A id \in DOMAIN ledger :
          /\ ledger[id].data[2] <= MaxTokenValue
          /\ \E type \in Types : ledger[id].data[1] = TypeHash[type]
    /\ \A type \in Types :
          FoldSet(LAMBDA id, s : s + ValueOf(ledger[id], type), 0, DOMAIN ledger)
          + IntSum([k \in 1..Len(ordered) |->
                Total(SelectSeq(OutputTokens(request[ordered[k]]), LAMBDA o : o.owner = Nobody), type)])
          = IntSum([k \in 1..Len(ordered) |-> Total(AllOutputs(request[ordered[k]].issues), type)])

\* What the token API assembles passes every check on its way: only a call to
\* the driver with outputs of its own, or an input that is gone, makes the
\* parties, the auditor or the validator refuse.
AssembledIsAccepted ==
    \A t \in TxIds :
        why[t] \in {"audit", "recipient", "validator"} => \E k \in DOMAIN Calls[t] : Calls[t][k].kind = "driver"

\* A token appears in the vault of the party it was issued or transferred to:
\* once the node of its owner has processed the transaction that created it,
\* an unspent token is there, with the opening of its commitment.
OwnersCanSpend ==
    \A n \in Nodes : \A k \in 1..height[n] : \A id \in NewIds(ordered[k]) :
        (id \in DOMAIN ledger /\ NodeOf[TokenAt(id).owner[1]] = n)
        => id \in DOMAIN vault[n] /\ Opens(vault[n][id].info, ledger[id])

\* Openings stay with those they concern: a node that neither runs nor audits
\* a transaction learns the opening of an output only when the output is of
\* one of its wallets, and the inputs of no transfer.
OpeningsStayPrivate ==
    \A t \in TxIds : \A n \in Nodes \ {Initiator[t], AuditorNode} :
        Knows(t, n) =>
            LET m == MetadataAt(t, n)
            IN /\ \A e \in ToSet(AllEntries(m)) \ {Absent} :
                     e.receiver # Nobody /\ NodeOf[e.receiver[1]] = n
               /\ \A i \in DOMAIN m.transferMeta : m.transferMeta[i].ids = << >>
=============================================================================
