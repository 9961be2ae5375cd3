----------------------------- MODULE ZkActions ------------------------------
(***************************************************************************)
(* Issue and transfer actions of the zkatdlog driver (crypto/token,        *)
(* crypto/issue, crypto/transfer): commitments to the new tokens with      *)
(* their openings, the proof that goes with them and its verification.     *)
(*                                                                         *)
(* A token is [owner, data], data a commitment to its type and value.  Its *)
(* opening, the metadata, is [type, value, bf, owner, issuer].             *)
(***************************************************************************)
EXTENDS RangeProof

\* The empty identity: owner of a redeemed output, issuer of a transferred
\* token.
Nobody == << >>

MaxTokenValue == Base ^ Exponent - 1

-----------------------------------------------------------------------------
(* Tokens and their openings *)

Commit(w) == ComputePedersenCommitment(<<TypeHash[w.type], w.value, w.bf>>, PedParams)

\* GetTokensWithWitness: a fresh blinding factor for every value.
NewWitness(values, type, seed) ==
    [k \in 1..Len(values) |->
        [type |-> type, value |-> NewZrFromInt(values[k]), bf |-> Draw(seed, 300 + k)]]

\* GetTokenInTheClear refuses an opening of something else.
Opens(meta, token) == Commit(meta) = token.data

InTheClear(meta, token) == [type |-> meta.type, quantity |-> meta.value, owner |-> token.owner]

Commitments(tokens) == [k \in 1..Len(tokens) |-> tokens[k].data]
NewTokens(coms, owners) == [k \in 1..Len(coms) |-> [owner |-> owners[k], data |-> coms[k]]]
NewMetadata(witness, owners, issuer) ==
    [k \in 1..Len(witness) |->
        [type |-> witness[k].type, value |-> witness[k].value, bf |-> witness[k].bf,
         owner |-> owners[k], issuer |-> issuer]]

\* No proof without its range proof.
Proof(wf, range) == IF range = NoProof THEN NoProof ELSE [wf |-> wf, range |-> range]

Values(ws) == [k \in 1..Len(ws) |-> ws[k].value]
Factors(ws) == [k \in 1..Len(ws) |-> ws[k].bf]

-----------------------------------------------------------------------------
(* Well-formedness of a transfer: inputs and outputs have one type and the *)
(* same sum.                                                               *)

\* One Schnorr statement per token and one for their sum.
parseProof(tokens, values, bfs, type, sum, challenge) ==
    Append([k \in 1..Len(tokens) |->
               RecomputeCommitment(PedParams, <<type, values[k], bfs[k]>>, tokens[k], challenge)],
           RecomputeCommitment(PedParams,
               <<ModMul(type, NewZrFromInt(Len(tokens))), sum, ZrSum(bfs)>>, G1Sum(tokens), challenge))

TransferChallenge(comIn, comOut, inputs, outputs) ==
    HashToZr(Bytes(comIn) \o Bytes(comOut) \o Bytes(inputs) \o Bytes(outputs))

TransferWellFormedness(inW, outW, inputs, outputs, seed) ==
    LET rType == Draw(seed, 400)
        rSum  == Draw(seed, 401)
        rnd(ws, k) == [i \in 1..Len(ws) |-> Draw(seed, k + i)]
        com(v, b) == Append([i \in 1..Len(v) |->
                                ComputePedersenCommitment(<<rType, v[i], b[i]>>, PedParams)],
                            ComputePedersenCommitment(
                                <<ModMul(rType, NewZrFromInt(Len(v))), rSum, ZrSum(b)>>, PedParams))
        rInV == rnd(inW, 410)  rInB == rnd(inW, 420)
        rOutV == rnd(outW, 430)  rOutB == rnd(outW, 440)
        c == TransferChallenge(com(rInV, rInB), com(rOutV, rOutB), inputs, outputs)
        one(w, r) == SchnorrProve(<<w>>, <<r>>, c)[1]
    IN [challenge |-> c,
        inValues  |-> SchnorrProve(Values(inW), rInV, c),
        inBF      |-> SchnorrProve(Factors(inW), rInB, c),
        outValues |-> SchnorrProve(Values(outW), rOutV, c),
        outBF     |-> SchnorrProve(Factors(outW), rOutB, c),
        type      |-> one(TypeHash[inW[1].type], rType),
        sum       |-> one(ZrSum(Values(inW)), rSum)]

VerifyTransferWellFormedness(wf, inputs, outputs) ==
    /\ Len(wf.inValues) = Len(inputs) /\ Len(wf.inBF) = Len(inputs)
    /\ Len(wf.outValues) = Len(outputs) /\ Len(wf.outBF) = Len(outputs)
    /\ TransferChallenge(
           parseProof(inputs, wf.inValues, wf.inBF, wf.type, wf.sum, wf.challenge),
           parseProof(outputs, wf.outValues, wf.outBF, wf.type, wf.sum, wf.challenge),
           inputs, outputs) = wf.challenge

\* A single input handed to a single output needs no range proof.
OwnershipTransfer(inputs, outputs) == Len(inputs) = 1 /\ Len(outputs) = 1

TransferProve(inW, outW, inputs, outputs, seed) ==
    Proof(TransferWellFormedness(inW, outW, inputs, outputs, seed),
          IF OwnershipTransfer(inputs, outputs) THEN << >> ELSE RangeProve(outW, outputs, seed))

\* Mistake: the proof that inputs and outputs add up is not looked at.
TransferVerifyRange(proof, inputs, outputs) ==
    ~ OwnershipTransfer(inputs, outputs) => RangeVerify(proof.range, outputs)

TransferVerify(proof, inputs, outputs) ==
    /\ VerifyTransferWellFormedness(proof.wf, inputs, outputs)
    /\ ~ OwnershipTransfer(inputs, outputs) => RangeVerify(proof.range, outputs)

-----------------------------------------------------------------------------
(* Well-formedness of an issue: the type is in the clear, each token commits *)
(* to it.                                                                  *)

IssueChallenge(coms, tokens) == HashToZr(Bytes(coms) \o Bytes(tokens))

IssueWellFormedness(witness, tokens, seed) ==
    LET rVal == [k \in 1..Len(tokens) |-> Draw(seed, 510 + k)]
        rBF  == [k \in 1..Len(tokens) |-> Draw(seed, 520 + k)]
        coms == [k \in 1..Len(tokens) |->
                    ComputePedersenCommitment(<<0, rVal[k], rBF[k]>>, PedParams)]
        c == IssueChallenge(coms, tokens)
    IN [challenge |-> c, type |-> witness[1].type,
        values |-> SchnorrProve(Values(witness), rVal, c),
        bf     |-> SchnorrProve(Factors(witness), rBF, c)]

VerifyIssueWellFormedness(wf, tokens) ==
    LET type == ModMul(wf.challenge, TypeHash[wf.type])
    IN /\ Len(wf.values) = Len(tokens) /\ Len(wf.bf) = Len(tokens)
       /\ IssueChallenge([k \in 1..Len(tokens) |->
              RecomputeCommitment(PedParams, <<type, wf.values[k], wf.bf[k]>>, tokens[k], wf.challenge)],
              tokens) = wf.challenge

IssueProve(witness, tokens, seed) ==
    Proof(IssueWellFormedness(witness, tokens, seed), RangeProve(witness, tokens, seed))

IssueVerify(proof, tokens) ==
    VerifyIssueWellFormedness(proof.wf, tokens) /\ RangeVerify(proof.range, tokens)

-----------------------------------------------------------------------------
(* The actions: [issuer or inputs, outputs, proof] with the openings of    *)
(* their outputs, or NoProof.                                              *)

IssueAction(issuer, outputs, metadata, proof) ==
    IF proof = NoProof THEN NoProof
    ELSE [action |-> [issuer |-> issuer, outputs |-> outputs, proof |-> proof], metadata |-> metadata]

GenerateZKIssue(issuer, type, values, owners, seed) ==
    LET w    == NewWitness(values, type, seed)
        coms == [k \in 1..Len(w) |-> Commit(w[k])]
    IN IssueAction(issuer, NewTokens(coms, owners), NewMetadata(w, owners, issuer), IssueProve(w, coms, seed))

TransferAction(ids, inputs, outputs, metadata, proof) ==
    IF proof = NoProof THEN NoProof
    ELSE [action |-> [inputs |-> ids, commitments |-> inputs, outputs |-> outputs, proof |-> proof],
          metadata |-> metadata]

\* The inputs come with the openings the vault keeps of them.
GenerateZKTransfer(ids, tokens, openings, values, owners, seed) ==
    LET type == openings[1].type
        w    == NewWitness(values, type, seed)
        coms == [k \in 1..Len(w) |-> Commit(w[k])]
    IN IF \E k \in DOMAIN openings : openings[k].type # type THEN NoProof
       ELSE TransferAction(ids, Commitments(tokens), NewTokens(coms, owners), NewMetadata(w, owners, Nobody),
                           TransferProve(openings, w, Commitments(tokens), coms, seed))
=============================================================================
