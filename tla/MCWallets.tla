------------------------------ MODULE MCWallets ------------------------------
(***************************************************************************)
(* A node of two token management systems, one with pseudonyms and issuers    *)
(* and one with certificates only.  Dave's certificate is configured as an       *)
(* issuer; while the node runs alice may be registered as an owner of the one    *)
(* system and dave of the other.                                             *)
(***************************************************************************)
EXTENDS Wallets

CONSTANTS owners, issuers, cash, alice, dave, c1

MCFits == owners :> {alice} @@ issuers :> {dave} @@ cash :> {dave}
MCConfigured == owners :> << >> @@ issuers :> <<dave>> @@ cash :> << >>
MCDefault == owners :> None @@ issuers :> dave @@ cash :> None
MCKeyOrder == <<alice, dave>>
=============================================================================
