-------------------------- MODULE MCTokenSelection --------------------------
(***************************************************************************)
(* Transactions that compete for two tokens worth 1 each.                   *)
(***************************************************************************)
EXTENDS TokenSelection, TLC

CONSTANTS k1, k2, t1, t2, t3

MCValue == [k \in Tokens |-> 1]
AllWanted == [t \in TxIds |-> Tokens]

\* The third transaction may only spend the first token.
MCWanted == [AllWanted EXCEPT ![t3] = {k1}]

\* Two transactions need both tokens, the third is content with one.
MCTarget == t1 :> 2 @@ t2 :> 2 @@ t3 :> 1
TargetOne == [t \in TxIds |-> 1]
TargetMixed == [t \in TxIds |-> IF t = t1 THEN 2 ELSE 1]
=============================================================================
