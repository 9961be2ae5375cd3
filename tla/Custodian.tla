------------------------------- MODULE Custodian -------------------------------
(***************************************************************************)
(* What is asked of a network beyond the transactions themselves.  On a Fabric  *)
(* network the peers answer.  An Orion database is reached through one node only,  *)
(* the custodian: the other nodes send it their requests, and it answers from the  *)
(* committed state of the database.  An error instead of an answer is FALSE.       *)
(***************************************************************************)
EXTENDS TokenVault

\* The value of the key of a token.
HasState(id) == id \in unspent

\* The approval of a transaction: it is validated on the committed state and
\* translated, which fails when an input is gone.
Approves(t) == \A id \in ConsumedIds(t) : HasState(id)

\* All of the tokens or an error: the chaincode on Fabric, the custodian on Orion.
ChaincodeTokens(ids) == \A id \in ids : HasState(id)
RequestQueryTokens(ids) == \A id \in ids : HasState(id)
QueryTokens(k, ids) ==
    IF k \in OrionNetworks THEN RequestQueryTokens(ids) ELSE ChaincodeTokens(ids)

\* Without graph hiding a token is spent when its key has no value.
ChaincodeSpentTokens(ids) == {id \in ids : ~HasState(id)}
RequestSpentTokens(ids) == {id \in ids : ~HasState(id)}
AreTokensSpent(k, ids) ==
    IF k \in OrionNetworks THEN RequestSpentTokens(ids) ELSE ChaincodeSpentTokens(ids)

\* A database that does not know the transaction is an error, which whoever asks
\* takes for unknown.
TxStatus(t) ==
    CASE t \notin Range(chain[NetworkOf[t]]) -> "Unknown"
      [] t \in settled                       -> "Valid"
      [] OTHER                               -> "Invalid"
=============================================================================
