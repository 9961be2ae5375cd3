------------------------------ MODULE Pedersen ------------------------------
(***************************************************************************)
(* The arithmetic under the zkatdlog driver: the field Zr, the groups of   *)
(* the pairing (the curve library is external) and the Schnorr helpers of  *)
(* crypto/common.                                                          *)
(*                                                                         *)
(* A point of G1 is the tuple of its coefficients over five generators     *)
(* nobody knows a relation of: the three Pedersen parameters, PedGen and   *)
(* the generator of the curve.  A point of G2 is its discrete logarithm,   *)
(* so that the pairing of a with P is a.P.  HashToZr is a fixed polynomial *)
(* hash of the transcript, and random draws are a fixed sequence.          *)
(***************************************************************************)
EXTENDS Integers, Sequences, SequencesExt

CONSTANTS Order,  \* the prime order of the groups, small enough for 32 bits
          Types,  \* token types
          TypeHash \* HashToZr of a token type, one number per type

ASSUME OrderAssumption == Order \in Nat /\ Order > 2 /\ Order * Order < 2147483647
ASSUME TypeHashAssumption ==
    /\ TypeHash \in [Types -> 1..(Order - 1)]
    /\ \A t, u \in Types : TypeHash[t] = TypeHash[u] => t = u

Zr == 0..(Order - 1)

ModAdd(a, b) == (a + b) % Order
ModMul(a, b) == (a * b) % Order
NewZrFromInt(i) == i % Order

ZrSum(zs) == FoldLeft(ModAdd, 0, zs)

-----------------------------------------------------------------------------
(* Groups *)

G1Zero == <<0, 0, 0, 0, 0>>
PedParams == << <<1, 0, 0, 0, 0>>, <<0, 1, 0, 0, 0>>, <<0, 0, 1, 0, 0>> >>
PedGen == <<0, 0, 0, 1, 0>>
GenG1  == <<0, 0, 0, 0, 1>>

G1Add(P, R) == << ModAdd(P[1], R[1]), ModAdd(P[2], R[2]), ModAdd(P[3], R[3]),
                  ModAdd(P[4], R[4]), ModAdd(P[5], R[5]) >>
G1Mul(P, z) == << ModMul(P[1], z), ModMul(P[2], z), ModMul(P[3], z),
                  ModMul(P[4], z), ModMul(P[5], z) >>
G1Sub(P, R) == G1Add(P, G1Mul(R, Order - 1))
G1Sum(Ps) == FoldLeft(G1Add, G1Zero, Ps)

\* e(a, P) for the discrete logarithm a of a point of G2: bilinear, and the
\* sum of two pairings is their product in Gt.
Pairing2(a, P, b, R) == G1Add(G1Mul(P, a), G1Mul(R, b))

\* The hash of a transcript, a sequence of numbers.
HashToZr(raw) == FoldLeft(LAMBDA h, x : (h * 31 + x + 7) % Order, 5, raw)

\* The bytes of a point stand in a transcript as one number.
G1Bytes(P) == (P[1] + 7 * P[2] + 49 * P[3] + 343 * P[4] + 2401 * P[5]) % Order
Bytes(Ps) == [i \in DOMAIN Ps |-> G1Bytes(Ps[i])]

\* The k-th number drawn from the generator in state "seed".
Draw(seed, k) == 1 + ((seed * 1009 + k * k * 211 + k * 57 + 13) % (Order - 1))

-----------------------------------------------------------------------------
(* crypto/common/schnorr.go *)

\* One response per witness: p_i = r_i + c * w_i.
SchnorrProve(witness, randomness, challenge) ==
    [i \in 1..Len(witness) |-> ModAdd(ModMul(challenge, witness[i]), randomness[i])]

ComputePedersenCommitment(opening, base) ==
    G1Sum([i \in 1..Len(base) |-> G1Mul(base[i], opening[i])])

\* The randomness a proof commits to, recomputed from its responses.
RecomputeCommitment(base, proof, statement, challenge) ==
    G1Sub(G1Sum([i \in 1..Len(proof) |-> G1Mul(base[i], proof[i])]),
          G1Mul(statement, challenge))
=============================================================================
