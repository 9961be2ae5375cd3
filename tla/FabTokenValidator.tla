-------------------------- MODULE FabTokenValidator --------------------------
(***************************************************************************)
(* What a token request must satisfy before the translator writes it: the   *)
(* validator of the fabtoken driver, run by the chaincode on the committed  *)
(* state.                                                                  *)
(***************************************************************************)
EXTENDS Translator, Htlc, Quantities

CONSTANTS
    Issuers,        \* issuers of the public parameters; {} lets anyone issue
    Auditor,        \* auditor of the public parameters, or NoAuditor
    NoAuditor

ASSUME ValidatorAssumption ==
    /\ Issuers \subseteq Parties
    /\ Auditor \in Parties \cup {NoAuditor}
    /\ NoAuditor \notin Parties

\* The token under the key of an input.
TokenAt(id) == ledger[CreateTokenKey(id)].value

\* Every input of a transfer is read from the ledger and must be there.
RetrieveInputs(a) == \A id \in Range(a.inputs) : Exists(CreateTokenKey(id))

Inputs(a) == [j \in DOMAIN a.inputs |-> TokenAt(a.inputs[j])]

\* Signatures that come before those of the inputs of the k-th transfer.
SignaturesBefore(t, k) ==
    (IF Auditor = NoAuditor THEN 0 ELSE 1) + Len(Request[t].issues)
        + SumFunctionOnSet([l \in DOMAIN Request[t].transfers |->
                               Len(Request[t].transfers[l].inputs)], 1 .. (k - 1))

\* Who must have signed, in the order the validator consumes the signatures.
Signers(t) ==
    (IF Auditor = NoAuditor THEN << >> ELSE <<Auditor>>)
    \o [k \in DOMAIN Request[t].issues |-> Request[t].issues[k].issuer]
    \o FlattenSeq([k \in DOMAIN Request[t].transfers |->
            [j \in DOMAIN Request[t].transfers[k].inputs |->
                Inputs(Request[t].transfers[k])[j].owner]])

\* The j-th check takes the j-th signature, whichever it is; signatures left
\* over are ignored.
HasBeenSigned(t) ==
    /\ Len(Signers(t)) <= Len(Request[t].signatures)
    /\ \A i \in DOMAIN Signers(t) : Verifies(Signers(t)[i], Request[t].signatures[i])

VerifyIssue(a) ==
    /\ NumOutputs(a) # 0
    /\ \A i \in 1 .. NumOutputs(a) :
          IsQuantity(a.outputs[i].quantity) /\ a.outputs[i].quantity # 0
    /\ Issuers # {} => a.issuer \in Issuers
    /\ a.issuer \notin Scripts

\* Inputs and outputs have one type and the same sum; a sum that overflows
\* panics, and the chaincode turns the panic into an error.
TransferBalanceValidate(a) ==
    /\ NumOutputs(a) # 0
    /\ Len(a.inputs) # 0
    /\ LET ins == Inputs(a)
           typ == ins[1].type
           sum(tokens) == Sum([j \in DOMAIN tokens |-> tokens[j].quantity])
       IN /\ \A tok \in Range(ins \o a.outputs) : tok.type = typ /\ IsQuantity(tok.quantity)
          /\ sum(ins) # Panic
          /\ sum(ins) = sum(a.outputs)

VerifyTransfer(t, k) ==
    LET a == Request[t].transfers[k]
        n == SignaturesBefore(t, k)
    IN /\ TransferBalanceValidate(a)
       /\ TransferHTLCValidate(Inputs(a), a,
              SubSeq(Request[t].signatures, n + 1, n + Len(a.inputs)))

VerifyTokenRequest(t) ==
    /\ \A k \in DOMAIN Request[t].issues : VerifyIssue(Request[t].issues[k])
    /\ \A k \in DOMAIN Request[t].transfers : RetrieveInputs(Request[t].transfers[k])
    /\ HasBeenSigned(t)
    /\ \A k \in DOMAIN Request[t].transfers : VerifyTransfer(t, k)
=============================================================================
