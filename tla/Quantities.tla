------------------------------ MODULE Quantities ------------------------------
(***************************************************************************)
(* Quantities of tokens: natural numbers of at most Precision bits.  When the   *)
(* precision is the size of a machine word they are machine words, and a sum     *)
(* wraps around; otherwise they are big integers.  Either way a sum that does    *)
(* not fit panics.                                                            *)
(***************************************************************************)
EXTENDS Integers, SequencesExt

CONSTANTS
    Precision,      \* in bits
    WordSize        \* of a machine word, 64 in the program

ASSUME PrecisionAssumption ==
    /\ Precision \in Nat \ {0}
    /\ WordSize \in Nat \ {0}

Panic == -1

\* ToQuantity refuses what has more bits than the precision.
IsQuantity(q) == q \in 0 .. (2 ^ Precision - 1)

BigAdd(q, b) == IF IsQuantity(q + b) THEN q + b ELSE Panic

\* Mistake: nobody notices that the sum wrapped around.
UInt64AddWraps(q, b) == (q + b) % (2 ^ WordSize)

UInt64Add(q, b) ==
    LET sum == (q + b) % (2 ^ WordSize) IN IF sum < q THEN Panic ELSE sum

Add(q, b) ==
    CASE q = Panic -> Panic
      [] q # Panic /\ Precision = WordSize -> UInt64Add(q, b)
      [] q # Panic /\ Precision # WordSize -> BigAdd(q, b)

NewZeroQuantity == 0

Sum(quantities) == FoldLeft(Add, NewZeroQuantity, quantities)
=============================================================================
