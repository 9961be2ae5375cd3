---------------------------- MODULE TokenRequest ----------------------------
(***************************************************************************)
(* The data of the token SDK that reaches the ledger: token requests, the   *)
(* issue and transfer actions they carry, the outputs the actions create    *)
(* and the ledger keys the outputs live under.                              *)
(*                                                                          *)
(* A request is immutable once assembled and is anchored to one transaction *)
(* id, so the requests of a run are a constant function from transaction    *)
(* ids to requests.  Identities, types and metadata keys are opaque; an     *)
(* amount is a natural number; NoOwner is the empty owner of a redeemed     *)
(* output and NoIssuer marks an action that is a transfer.                  *)
(***************************************************************************)
EXTENDS Naturals, Sequences, FiniteSets, Functions

CONSTANTS
    TxIds,          \* the transaction ids of the run
    Request,        \* TxIds -> token requests
    Parties,        \* identities that own, issue or audit
    NoOwner,        \* owner of a redeemed output
    NoIssuer,       \* issuer of a transfer action
    TokenTypes,
    MetadataKeys    \* keys of action metadata

Output == [owner : Parties \cup {NoOwner}, type : TokenTypes, quantity : Nat]

\* A token is identified by the transaction that created it and the index of
\* the output in that transaction (token.ID).
TokenIds == TxIds \X Nat

Action == [issuer   : Parties \cup {NoIssuer},
           inputs   : Seq(TokenIds),
           outputs  : Seq(Output),
           metadata : SUBSET MetadataKeys]

IsIssue(a) == a.issuer # NoIssuer

\* An issue consumes nothing.
IssueAction == {a \in Action : IsIssue(a) /\ a.inputs = << >>}
TransferAction == {a \in Action : ~IsIssue(a)}

\* issues and transfers are separate in a request; signatures are those of the
\* auditors first, then of the issuers and of the owners of the inputs.
RequestType == [issues     : Seq(IssueAction),
                transfers  : Seq(TransferAction),
                signatures : Seq(Parties)]

ASSUME RequestAssumption == Request \in [TxIds -> RequestType]

ASSUME NoOwnerAssumption == NoOwner \notin Parties /\ NoIssuer \notin Parties

\* The order in which the validator returns the actions and the chaincode
\* writes them: every issue before every transfer.
Actions(t) == Request[t].issues \o Request[t].transfers

NumOutputs(a) == Len(a.outputs)

\* Only the outputs of transfers are looked at: an issue creates a token even
\* when its owner is empty.
IsRedeemAt(a, i) == ~IsIssue(a) /\ a.outputs[i].owner = NoOwner

\* The tokens an action creates: a redeemed output is not one.
CreatedOutputs(a) == {i \in 1 .. NumOutputs(a) : ~IsRedeemAt(a, i)}

Quantity(outs, S, typ) ==
    SumFunctionOnSet([i \in 1 .. Len(outs) |->
                         IF outs[i].type = typ THEN outs[i].quantity ELSE 0], S)

-----------------------------------------------------------------------------
\* Ledger keys (composite keys of the vault's key package): the kind of the
\* key, the attribute it is built from and, for tokens, the output index.

CreateTokenKey(id)                 == <<"token", id[1], id[2]>>
CreateSNKey(id)                    == <<"sn", id[1], id[2]>>
CreateTokenRequestKey(t)           == <<"token_request", t, 0>>
CreateIssueActionMetadataKey(m)    == <<"iam", m, 0>>
CreateTransferActionMetadataKey(m) == <<"tam", m, 0>>
SetupKey                           == <<"setup", "setup", 0>>

InputsOf(t) == UNION {Range(Actions(t)[k].inputs) : k \in DOMAIN Actions(t)}
=============================================================================
