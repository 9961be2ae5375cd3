----------------------------- MODULE TokenLedger -----------------------------
(***************************************************************************)
(* What the ledger promises its users, with no chaincode, read set or       *)
(* version in sight: transactions settle one at a time and at most once     *)
(* each, a transaction consumes tokens that are unspent at that moment and  *)
(* creates tokens that never existed before, and nothing else ever happens   *)
(* to a token.                                                              *)
(***************************************************************************)
CONSTANTS
    TxIds,
    Created(_),     \* tokens a transaction creates
    Consumed(_)     \* tokens it consumes

VARIABLES
    unspent,        \* tokens that can be consumed
    spent,          \* tokens that were consumed
    settled         \* transactions that took effect

ledgerVars == <<unspent, spent, settled>>

Init ==
    /\ unspent = {}
    /\ spent = {}
    /\ settled = {}

Settle(t) ==
    /\ t \notin settled
    /\ Consumed(t) \subseteq unspent
    /\ Created(t) \cap (unspent \cup spent) = {}
    /\ unspent' = (unspent \ Consumed(t)) \cup Created(t)
    /\ spent' = spent \cup Consumed(t)
    /\ settled' = settled \cup {t}

Next == \E t \in TxIds : Settle(t)

Spec == Init /\ [][Next]_ledgerVars
=============================================================================
