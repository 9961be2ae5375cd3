----------------------------- MODULE ZkRequest ------------------------------
(***************************************************************************)
(* Token requests over the zkatdlog driver: how the token API assembles    *)
(* them (token/request.go, nogh/issuer.go, nogh/sender.go), how their      *)
(* metadata is filtered for a party (token/metadata.go) and how a party,   *)
(* the auditor and the validator check them.                               *)
(*                                                                         *)
(* An identity is a tuple that starts with its wallet.  A request is       *)
(* [issues, transfers, issueMeta, transferMeta]; the parallel arrays of    *)
(* its metadata are one sequence of entries [token, info, receiver], an    *)
(* entry that was filtered out is Absent.  The audit info of an identity   *)
(* is the identity: whoever asks for an identity registers its audit info. *)
(***************************************************************************)
EXTENDS ZkActions, FiniteSets

CONSTANTS Wallets,
          EnrollmentID, \* of each wallet
          Issuers,      \* the identities of PublicParams.Issuers
          NoRequest,    \* the error of a call
          Absent        \* a metadata entry that was filtered out

GetEnrollmentID(auditInfo) == EnrollmentID[auditInfo[1]]

EmptyRequest == [issues |-> << >>, transfers |-> << >>, issueMeta |-> << >>, transferMeta |-> << >>]

Entries(action, metadata) ==
    [k \in 1..Len(action.outputs) |->
        [token |-> action.outputs[k], info |-> metadata[k], receiver |-> action.outputs[k].owner]]

-----------------------------------------------------------------------------
(* Assembly *)

WithIssue(req, issuer, zk) ==
    IF zk = NoProof THEN NoRequest
    ELSE [req EXCEPT
             !.issues = Append(@, zk.action),
             !.issueMeta = Append(@, [issuer |-> issuer, outputs |-> Entries(zk.action, zk.metadata)])]

Issue(req, issuer, type, q, receiver, seed) ==
    IF q = 0 \/ q > MaxTokenValue \/ receiver = Nobody THEN NoRequest
    ELSE WithIssue(req, issuer, GenerateZKIssue(issuer, type, <<q>>, <<receiver>>, seed))

\* The tokens of a vault with these ids, in order: the token and its opening.
LoadTokens(vault, ids) == [k \in 1..Len(ids) |-> vault[ids[k]]]

IntSum(ns) == FoldLeft(LAMBDA a, b : a + b, 0, ns)

\* Inputs of more than one type leave the type empty, which is refused.
SameType(loaded) == \A k \in DOMAIN loaded : loaded[k].info.type = loaded[1].info.type

\* prepareTransfer: every value is at most MaxTokenValue, what is left of the
\* inputs goes to a new pseudonym of the sender.
Prepared(loaded, values, owners, pseudonym) ==
    LET inputSum  == IntSum([k \in 1..Len(loaded) |-> loaded[k].info.value])
        outputSum == IntSum(values)
    IN IF (\E k \in DOMAIN values : values[k] > MaxTokenValue) \/ inputSum < outputSum
          \/ ~ SameType(loaded)
       THEN NoRequest
       ELSE IF inputSum > outputSum
            THEN [values |-> Append(values, inputSum - outputSum), owners |-> Append(owners, pseudonym)]
            ELSE [values |-> values, owners |-> owners]

WithTransfer(req, ids, owners, zk) ==
    IF zk = NoProof THEN NoRequest
    ELSE [req EXCEPT
             !.transfers = Append(@, zk.action),
             !.transferMeta = Append(@, [ids |-> ids, senders |-> owners,
                                         outputs |-> Entries(zk.action, zk.metadata)])]

\* The transfer of the driver: inputs and openings from the vault, outputs as
\* the caller gives them.
DriverTransfer(req, vault, ids, values, owners, seed) ==
    LET loaded == LoadTokens(vault, ids)
        tokens == [k \in 1..Len(ids) |-> loaded[k].token]
    IN WithTransfer(req, ids, [k \in 1..Len(ids) |-> tokens[k].owner],
           GenerateZKTransfer(ids, tokens, [k \in 1..Len(ids) |-> loaded[k].info], values, owners, seed))

\* VerifyTransfer: the openings that are there, then the proof.
VerifyTransfer(action, entries) ==
    /\ \A k \in DOMAIN entries :
          entries[k] # Absent => Opens(entries[k].info, action.outputs[k])
    /\ TransferVerify(action.proof, action.commitments, Commitments(action.outputs))

\* VerifyIssue looks at the proof only.
VerifyIssue(action) == IssueVerify(action.proof, Commitments(action.outputs))

\* The last action of a request, checked by its sender.
Verified(req) ==
    IF req # NoRequest /\ VerifyTransfer(Last(req.transfers), Last(req.transferMeta).outputs)
    THEN req ELSE NoRequest

\* Request.Transfer and Request.Redeem
Transfer(req, vault, ids, values, owners, pseudonym, seed) ==
    LET p == Prepared(LoadTokens(vault, ids), values, owners, pseudonym)
    IN IF p = NoRequest \/ \E k \in DOMAIN values : values[k] = 0 /\ owners[k] # Nobody
       THEN NoRequest
       ELSE Verified(DriverTransfer(req, vault, ids, p.values, p.owners, seed))

-----------------------------------------------------------------------------
(* Metadata *)

\* Mistake: the entries of others are dropped, and those behind them move up.
FilterEntriesCompact(entries, eID) ==
    SelectSeq(entries, LAMBDA e : e.receiver # Nobody /\ GetEnrollmentID(e.receiver) = eID)

FilterEntries(entries, eID) ==
    [k \in 1..Len(entries) |->
        IF entries[k].receiver # Nobody /\ GetEnrollmentID(entries[k].receiver) = eID
        THEN entries[k] ELSE Absent]

\* Mistake: an entry of the enrollment id gives away the whole transfer.
FilterByAction(req, eID) ==
    [req EXCEPT
        !.issueMeta = [i \in 1..Len(@) |-> [@[i] EXCEPT !.outputs = FilterEntries(@, eID)]],
        !.transferMeta = [i \in 1..Len(@) |->
            IF \E k \in DOMAIN @[i].outputs : FilterEntries(@[i].outputs, eID)[k] # Absent
            THEN [@[i] EXCEPT !.ids = << >>]
            ELSE [ids |-> << >>, senders |-> << >>, outputs |-> FilterEntries(@[i].outputs, eID)]]]

\* FilterBy: the entries of one enrollment id; the inputs of a transfer never,
\* its senders only with an entry.
FilterBy(req, eID) ==
    [req EXCEPT
        !.issueMeta = [i \in 1..Len(@) |-> [@[i] EXCEPT !.outputs = FilterEntries(@, eID)]],
        !.transferMeta = [i \in 1..Len(@) |->
            LET outs == FilterEntries(@[i].outputs, eID)
            IN [ids |-> << >>, outputs |-> outs,
                senders |-> IF \E k \in DOMAIN outs : outs[k] # Absent THEN @[i].senders ELSE << >>]]]

\* Every entry of the metadata, issues first.
AllEntries(req) ==
    FlattenSeq([i \in 1..Len(req.issueMeta) |-> req.issueMeta[i].outputs])
    \o FlattenSeq([i \in 1..Len(req.transferMeta) |-> req.transferMeta[i].outputs])

\* The outputs of a request in the order the translator numbers them, and the
\* tokens it spends.
OutputTokens(req) ==
    FlattenSeq([i \in 1..Len(req.issues) |-> req.issues[i].outputs])
    \o FlattenSeq([i \in 1..Len(req.transfers) |-> req.transfers[i].outputs])
InputIds(req) == FlattenSeq([i \in 1..Len(req.transfers) |-> req.transfers[i].inputs])

\* Metadata.GetToken: the opening that goes with a serialized token.
KnownTokens(req) == {e.token : e \in ToSet(AllEntries(req)) \ {Absent}}
GetInfo(req, token) == (CHOOSE e \in ToSet(AllEntries(req)) \ {Absent} : e.token = token).info

-----------------------------------------------------------------------------
(* Checks *)

\* The shapes of an action and of its metadata go together.
MatchIssue(m, action) == Len(m.outputs) = 1 /\ Len(action.outputs) = 1
MatchTransfer(m, action) ==
    Len(m.outputs) = Len(action.outputs) /\ (m.ids # << >> => Len(m.senders) = Len(m.ids))

\* Request.Outputs: an entry that is there opens its output.
OutputsOpen(req) ==
    LET es == AllEntries(req)  outs == OutputTokens(req)
    IN \A k \in DOMAIN es : es[k] # Absent => Opens(es[k].info, outs[k])

IsValid(req) ==
    /\ Len(req.issues) = Len(req.issueMeta) /\ Len(req.transfers) = Len(req.transferMeta)
    /\ \A i \in DOMAIN req.issues : MatchIssue(req.issueMeta[i], req.issues[i])
    /\ \A i \in DOMAIN req.transfers : MatchTransfer(req.transferMeta[i], req.transfers[i])
    /\ OutputsOpen(req)
    /\ \A i \in DOMAIN req.issues : VerifyIssue(req.issues[i])
    /\ \A i \in DOMAIN req.transfers : VerifyTransfer(req.transfers[i], req.transferMeta[i].outputs)

\* The auditor opens every output, and the owner is who the metadata says.
InspectOutput(entry, token) ==
    entry # Absent /\ Opens(entry.info, token) /\ entry.receiver = token.owner

GetAuditInfoForIssues(req) ==
    \A i \in DOMAIN req.issues : \A k \in DOMAIN req.issues[i].outputs :
        req.issues[i].outputs[k].owner # Nobody

\* The inputs are those the auditor loaded from its vault.
GetAuditInfoForTransfers(req, vault) ==
    \A i \in DOMAIN req.transferMeta :
        LET m == req.transferMeta[i]
        IN Len(m.senders) = Len(m.ids) /\ \A k \in DOMAIN m.ids : vault[m.ids[k]].token.owner = m.senders[k]

AuditorCheck(req, vault) ==
    /\ GetAuditInfoForIssues(req) /\ GetAuditInfoForTransfers(req, vault)
    /\ \A k \in DOMAIN OutputTokens(req) : InspectOutput(AllEntries(req)[k], OutputTokens(req)[k])

\* Signatures are collected from the issuers, then from the senders.
IssueSigners(req) == [i \in 1..Len(req.issueMeta) |-> req.issueMeta[i].issuer]
TransferSigners(req) == FlattenSeq([i \in 1..Len(req.transferMeta) |-> req.transferMeta[i].senders])

InputsExist(req, ledger) == ToSet(InputIds(req)) \subseteq DOMAIN ledger

\* The chaincode's validator: the signatures come in the order of the actions,
\* each of the issuer or of the owner the ledger has, and every proof is
\* checked against the commitments of the ledger.
verifyIssues(req) ==
    \A i \in DOMAIN req.issues :
        /\ VerifyIssue(req.issues[i])
        /\ Issuers # {} => req.issues[i].issuer \in Issuers

TransferSignatureValidate(req, ledger) ==
    LET ids == InputIds(req)
    IN IssueSigners(req) \o TransferSigners(req)
       = [i \in 1..Len(req.issues) |-> req.issues[i].issuer] \o [k \in 1..Len(ids) |-> ledger[ids[k]].owner]

TransferZKProofValidate(action, ledger) ==
    TransferVerify(action.proof, [k \in 1..Len(action.inputs) |-> ledger[action.inputs[k]].data],
                   Commitments(action.outputs))

ValidatorAccepts(req, ledger) ==
    /\ verifyIssues(req)
    /\ TransferSignatureValidate(req, ledger)
    /\ \A i \in DOMAIN req.transfers : TransferZKProofValidate(req.transfers[i], ledger)
=============================================================================
