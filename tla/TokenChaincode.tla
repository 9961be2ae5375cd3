--------------------------- MODULE TokenChaincode ---------------------------
(***************************************************************************)
(* The token chaincode on Fabric.  ProcessRequest simulates a request on    *)
(* the committed state: it validates it, lets the translator write it and   *)
(* yields an endorsement, the versions the simulation read.  The ordering   *)
(* service delivers endorsed transactions in any order, possibly long after *)
(* the simulation and possibly more than once, and the peers apply one only *)
(* if every key it read still has the version it had then.                  *)
(*                                                                          *)
(* The chaincode alone cannot stop a double spend, since two simulations    *)
(* never see each other; the reads it makes are what lets the commit do it. *)
(* The peer's own rejection of a repeated transaction id is not assumed.    *)
(***************************************************************************)
EXTENDS FabTokenValidator

VARIABLE endorsed   \* transactions endorsed so far: [tx, reads]

vars == <<ledger, height, endorsed>>

\* Instantiating the chaincode writes the public parameters.
Init ==
    /\ ledger = [key \in {SetupKey} |-> [version |-> 1, value |-> NoToken]]
    /\ height = 1
    /\ endorsed = {}

\* Mistake: the read set only has the inputs.
EndorsementOfInputs(t) == [tx |-> t, reads |-> [key \in SpentKeys(t) |-> GetState(key)]]

Endorsement(t) == [tx |-> t, reads |-> [key \in ReadKeys(t) |-> GetState(key)]]

ProcessRequest(t) ==
    /\ VerifyTokenRequest(t)
    /\ Write(t)
    /\ endorsed' = endorsed \cup {Endorsement(t)}
    /\ UNCHANGED <<ledger, height>>

\* The multi-version check of the peers: nothing read has changed since.
ReadsAreCurrent(e) == \A key \in DOMAIN e.reads : GetState(key) = e.reads[key]

\* Applying the write set: all writes take the height of the transaction.
Apply(t) ==
    ledger' = [key \in (DOMAIN ledger \ DeletedKeys(t)) \cup SetKeys(t) |->
                  IF key \in SetKeys(t)
                  THEN [version |-> height + 1, value |-> WrittenValue(t, key)]
                  ELSE ledger[key]]

Commit(e) ==
    /\ ReadsAreCurrent(e)
    /\ Apply(e.tx)
    /\ height' = height + 1
    /\ UNCHANGED endorsed

Next ==
    \/ \E t \in TxIds : ProcessRequest(t)
    \/ \E e \in endorsed : Commit(e)

Spec == Init /\ [][Next]_vars

-----------------------------------------------------------------------------
\* Transactions that took effect: their request is on the ledger.
Committed == {t \in TxIds : CreateTokenRequestKey(t) \in DOMAIN ledger}

TokenId(key) == <<key[2], key[3]>>
CreatedIds(t) == {TokenId(key) : key \in TokenWrites(t)}

\* A token that can still be spent, and one that was, as the ledger shows them.
UnspentIn(keys) ==
    {id \in {TokenId(key) : key \in {k \in keys : k[1] = "token"}} :
        GraphHiding => CreateSNKey(id) \notin keys}
Unspent == UnspentIn(DOMAIN ledger)
Spent == UNION {InputsOf(t) : t \in Committed}

Entry == [version : Nat \ {0}, value : Output \cup {NoToken}]

EndorsementType(e) ==
    /\ e.tx \in TxIds
    /\ e = [tx |-> e.tx, reads |-> e.reads]
    /\ e.reads \in [ReadKeys(e.tx) -> Nat]

TypeOK ==
    /\ ledger \in [DOMAIN ledger -> Entry]
    /\ height \in Nat \ {0}
    /\ \A e \in endorsed : EndorsementType(e)

\* No token is an input of two transactions that took effect, whatever the
\* order in which they were simulated, delivered or delivered again: the reads
\* of checkTransfer make the commit of the second one fail.
NoDoubleSpend ==
    \A t, u \in Committed : t # u => InputsOf(t) \cap InputsOf(u) = {}

\* The keys on the ledger are exactly what the transactions that took effect
\* set, less what they deleted: a spent token is never there again, an output
\* of such a transaction never fails to be there before it is spent.
LedgerIsHistory ==
    DOMAIN ledger = ({SetupKey} \cup (UNION {SetKeys(t) : t \in Committed}))
                        \ (UNION {DeletedKeys(t) : t \in Committed})

\* A metadata key (the hash of an HTLC, for one) belongs to one transaction.
MetadataHasOneOwner ==
    \A t, u \in Committed : t # u => MetadataWrites(t) \cap MetadataWrites(u) = {}

\* Value enters by issues and leaves by redeems, with one exception, which the
\* equation counts exactly: a request that names a token twice.  Neither the
\* validator nor the translator rejects it; the validator adds the token to the
\* inputs once for every time it is named, the ledger deletes it once.  named is
\* what the validator counted as inputs, spent what left the ledger, and when no
\* input is named twice they are equal and what is held is what was issued less
\* what was redeemed: no output is lost under the key of another, none counts
\* twice, whatever the order of simulations, commits and repeated deliveries.
SupplyConserved ==
    \A typ \in TokenTypes :
        LET worth(tok) == IF tok.type = typ THEN tok.quantity ELSE 0
            origin(id) == WrittenValue(id[1], CreateTokenKey(id))
            held == SumFunction([id \in Unspent |-> worth(TokenAt(id))])
            issued(t) == SumFunction([k \in DOMAIN Request[t].issues |->
                LET outs == Request[t].issues[k].outputs IN Quantity(outs, DOMAIN outs, typ)])
            redeemed(t) == SumFunction([k \in DOMAIN Request[t].transfers |->
                LET a == Request[t].transfers[k]
                IN Quantity(a.outputs, DOMAIN a.outputs \ CreatedOutputs(a), typ)])
            named(t) == SumFunction([k \in DOMAIN Request[t].transfers |->
                LET ins == Request[t].transfers[k].inputs
                IN SumFunction([j \in DOMAIN ins |-> worth(origin(ins[j]))])])
            spent(t) == SumFunction([id \in InputsOf(t) |-> worth(origin(id))])
        IN held + SumFunction([t \in Committed |-> redeemed(t) + spent(t)])
             = SumFunction([t \in Committed |-> issued(t) + named(t)])

\* The preimage of a hash is on the ledger only if a token locked under the hash
\* was claimed, and it is there once its recipient has got hold of such a token:
\* nobody claims in silence, which is what the other leg of a swap waits for, and
\* nobody is exposed by a reclaim.  What is worth nothing may be claimed in
\* silence, next to a token that is taken back: the script of the first input
\* decides for all of them.
PreimageFollowsClaim ==
    \A h \in Hashes :
        LET token(id) == WrittenValue(id[1], CreateTokenKey(id))
            script(id) == Script[token(id).owner]
            isLocked(id) == token(id).owner \in Scripts /\ script(id).hash = h
            transfers == UNION {Range(Request[t].transfers) : t \in Committed}
            isRevealed == CreateTransferActionMetadataKey(ClaimKey(h)) \in DOMAIN ledger
        IN /\ isRevealed => \E a \in transfers : \E id \in Range(a.inputs) :
                 /\ isLocked(id) /\ token(a.inputs[1]).owner \in Scripts
                 /\ a.outputs[1].owner = script(a.inputs[1]).recipient
           /\ \A a \in transfers : \A id \in Range(a.inputs) :
                 /\ isLocked(id) /\ token(id).quantity # 0
                 /\ a.outputs[1].owner = script(id).recipient
                 /\ script(id).recipient # script(id).sender
                 => isRevealed

\* A transaction delivered twice takes effect once, and a token the chaincode
\* reports as spent once it existed is reported so for ever, although a second
\* simulation of the transaction that created it may still be in flight.
SpentForever ==
    [][/\ \A t \in Committed :
             ledger'[CreateTokenRequestKey(t)] = ledger[CreateTokenRequestKey(t)]
       /\ \A t \in Committed : \A id \in CreatedIds(t) :
             AreTokensSpent(id) => AreTokensSpent(id)']_vars

\* The chaincode, its stale simulations and the peers' checks implement the
\* ledger of TokenLedger.
Abstract == INSTANCE TokenLedger WITH
                Created  <- CreatedIds,
                Consumed <- InputsOf,
                unspent  <- Unspent,
                spent    <- Spent,
                settled  <- Committed

ImplementsTokenLedger == Abstract!Spec
=============================================================================
