----------------------------- MODULE RangeProof -----------------------------
(***************************************************************************)
(* Range proofs of the zkatdlog driver (crypto/range, crypto/sigproof and  *)
(* crypto/pssign).  A value is split into digits in the given base, every  *)
(* digit is committed to, each commitment is shown to hold a number the    *)
(* public parameters carry a Pointcheval-Sanders signature of, and an      *)
(* equality proof ties the digits to the token.                            *)
(***************************************************************************)
EXTENDS Pedersen

CONSTANTS Base,     \* RangeProofParams.SignedValues holds 0..Base-1
          Exponent, \* number of digits
          SK,       \* the three secret keys the signatures were made with
          NoProof   \* the error of a prover

ASSUME RangeAssumption ==
    /\ Base \in Nat /\ Base > 1 /\ Exponent \in Nat /\ Exponent > 0
    /\ Base ^ Exponent < Order
    /\ SK \in [1..3 -> 1..(Order - 1)]

\* The generator Q of G2 has discrete logarithm 1: a public key is its secret.
Q  == 1
PK == SK

-----------------------------------------------------------------------------
(* Pointcheval-Sanders signatures *)

hashMessages(v) == HashToZr(<<v>>)

\* Sign drops the result of its multiplication by a random number: R is the
\* generator of the curve itself.
Sign(v) ==
    [R |-> GenG1,
     S |-> G1Sum(<<G1Mul(GenG1, SK[1]), G1Mul(GenG1, ModMul(SK[2], v)),
                   G1Mul(GenG1, ModMul(SK[3], hashMessages(v)))>>)]

SignedValues == [v \in 0..(Base - 1) |-> Sign(v)]

Randomize(sig, r) == [R |-> G1Mul(sig.R, r), S |-> G1Mul(sig.S, r)]

\* obfuscateSignature: a fresh randomisation, and PedGen^bf added to its S.
Obfuscate(sig, bf) == [sig EXCEPT !.S = G1Add(@, G1Mul(PedGen, bf))]

-----------------------------------------------------------------------------
(* Membership proofs *)

MembershipChallenge(comToValue, com, sig) ==
    HashToZr(Bytes(SubSeq(PedParams, 1, 2) \o <<comToValue, com.value, PedGen>>)
             \o PK \o <<Q>> \o Bytes(<<com.sig, sig.R, sig.S>>))

MembershipProve(value, bf, commitment, seed) ==
    LET rnd(k) == Draw(seed, k)
        sig  == Randomize(SignedValues[value], rnd(1))
        obf  == Obfuscate(sig, rnd(2))
        hash == hashMessages(value)
        t    == ModAdd(ModMul(PK[2], rnd(3)), ModMul(PK[3], rnd(4)))
        com  == [sig   |-> Pairing2(t, sig.R, Q, G1Mul(PedGen, rnd(5))),
                 value |-> ComputePedersenCommitment(<<rnd(3), rnd(6)>>, SubSeq(PedParams, 1, 2))]
        c    == MembershipChallenge(commitment, com, obf)
        resp == SchnorrProve(<<value, bf, hash, rnd(2)>>, <<rnd(3), rnd(6), rnd(4), rnd(5)>>, c)
    IN [challenge |-> c, sig |-> obf, value |-> resp[1], comBF |-> resp[2],
        hash |-> resp[3], sigBF |-> resp[4], commitment |-> commitment]

\* POKVerifier.recomputeCommitment
RecomputeSignature(p) ==
    LET t == ModAdd(ModMul(PK[2], p.value), ModMul(PK[3], p.hash))
        c == p.challenge
    IN G1Sub(Pairing2(t, p.sig.R, Q, G1Mul(PedGen, p.sigBF)),
             Pairing2(Q, G1Mul(p.sig.S, c), Order - PK[1], G1Mul(p.sig.R, c)))

\* The challenge is recomputed over the commitment the proof carries, the
\* statement is the commitment of the verifier.
MembershipVerify(p, comToValue) ==
    LET com == [sig   |-> RecomputeSignature(p),
                value |-> RecomputeCommitment(SubSeq(PedParams, 1, 2), <<p.value, p.comBF>>,
                                              comToValue, p.challenge)]
    IN MembershipChallenge(p.commitment, com, p.sig) = p.challenge

-----------------------------------------------------------------------------
(* Digits *)

\* preProcess: digits from the top, the remainder passed down, the first one
\* taken from the value itself.
Digits(v) ==
    LET remainder[i \in 0..(Exponent - 1)] ==
            IF i = 0 THEN v ELSE remainder[i - 1] % (Base ^ (Exponent - i))
    IN [d \in 1..Exponent |->
            IF d = 1 THEN v % Base
            ELSE remainder[Exponent - d] \div (Base ^ (d - 1))]

\* \prod com_i^(Base^i), and the same sum over blinding factors
WeightedCommitment(coms) == G1Sum([d \in 1..Len(coms) |-> G1Mul(coms[d], NewZrFromInt(Base ^ (d - 1)))])
WeightedFactor(bfs) == ZrSum([d \in 1..Len(bfs) |-> ModMul(bfs[d], NewZrFromInt(Base ^ (d - 1)))])

RangeChallenge(tokens, comTokens, comValues, coms) ==
    HashToZr(Bytes(<<PedGen>> \o tokens \o comTokens \o comValues \o PedParams)
             \o <<Q>> \o PK \o Bytes(FlattenSeq(coms)))

\* A witness opens a token: its type, its value and its blinding factor.
RangeProve(witness, tokens, seed) ==
    IF \E k \in DOMAIN witness : witness[k].value >= Base ^ Exponent
    THEN NoProof
    ELSE
    LET N     == Len(witness)
        digits == [k \in 1..N |-> Digits(witness[k].value)]
        bf    == [k \in 1..N |-> [d \in 1..Exponent |-> Draw(seed, 20 * k + d)]]
        coms  == [k \in 1..N |-> [d \in 1..Exponent |->
                     ComputePedersenCommitment(<<digits[k][d], bf[k][d]>>, SubSeq(PedParams, 1, 2))]]
        rType == Draw(seed, 200)
        rVal  == [k \in 1..N |-> Draw(seed, 210 + k)]
        rCom  == [k \in 1..N |-> Draw(seed, 220 + k)]
        rTok  == [k \in 1..N |-> Draw(seed, 230 + k)]
        comTokens == [k \in 1..N |-> ComputePedersenCommitment(<<rType, rVal[k], rTok[k]>>, PedParams)]
        comValues == [k \in 1..N |-> ComputePedersenCommitment(<<rVal[k], rCom[k]>>, SubSeq(PedParams, 1, 2))]
        c == RangeChallenge(tokens, comTokens, comValues, coms)
    IN [challenge  |-> c,
        membership |-> [k \in 1..N |-> [d \in 1..Exponent |->
                           MembershipProve(digits[k][d], bf[k][d], coms[k][d], seed + 7 * k + d)]],
        coms   |-> coms,
        type   |-> ModAdd(ModMul(c, TypeHash[witness[1].type]), rType),
        value  |-> SchnorrProve([k \in 1..N |-> witness[k].value], rVal, c),
        tokBF  |-> SchnorrProve([k \in 1..N |-> witness[k].bf], rTok, c),
        comBF  |-> SchnorrProve([k \in 1..N |-> WeightedFactor(bf[k])], rCom, c)]

RangeVerify(p, tokens) ==
    LET N == Len(tokens)
        comTokens == [k \in 1..N |-> RecomputeCommitment(PedParams,
                         <<p.type, p.value[k], p.tokBF[k]>>, tokens[k], p.challenge)]
        comValues == [k \in 1..N |-> RecomputeCommitment(SubSeq(PedParams, 1, 2),
                         <<p.value[k], p.comBF[k]>>, WeightedCommitment(p.coms[k]), p.challenge)]
    IN /\ Len(p.membership) = N
       /\ \A k \in 1..N :
             /\ Len(p.coms[k]) = Len(p.membership[k])
             /\ \A d \in DOMAIN p.membership[k] : MembershipVerify(p.membership[k][d], p.coms[k][d])
       /\ Len(p.value) = N /\ Len(p.tokBF) = N /\ Len(p.comBF) = N
       /\ \A k \in 1..N : Len(p.coms[k]) = Exponent
       /\ RangeChallenge(tokens, comTokens, comValues, p.coms) = p.challenge
=============================================================================
