------------------------------- MODULE HtlcSwap -------------------------------
(***************************************************************************)
(* The life of hash time-locked tokens at two nodes that share two networks.   *)
(* A lock gives a token to a script whose deadline is counted from the moment   *)
(* the lock is assembled.  Until the deadline the validators accept a claim by  *)
(* the recipient, which puts the preimage of the hash on the ledger; after it   *)
(* they accept a reclaim by the sender.  They ask their clock when they endorse; *)
(* the transaction is ordered later.                                          *)
(*                                                                          *)
(* FastExchange swaps a token of the initiator for one of the responder: two     *)
(* locks under the same hash with the same offset, the initiator claims, the     *)
(* responder finds the preimage on the ledger and claims in turn.  Nothing       *)
(* reclaims on its own: ReclaimAll, like the views to lock, scan and claim a     *)
(* single token, is started by the application, at any time.                     *)
(*                                                                          *)
(* A script belongs to the wallets of both parties, so both vaults list its      *)
(* token, but only the party that spends it takes part in the transaction: at     *)
(* the other one the token stays until the application has it deleted.           *)
(*                                                                          *)
(* One clock for every node and validator.                                     *)
(***************************************************************************)
EXTENDS Custodian, Htlc

CONSTANTS
    Initiator, Responder,   \* the nodes of the two parties
    By,                     \* TxIds -> the node that assembles the transaction
    Lock1, Lock2,           \* the locks of the exchange
    ReclamationDeadline,    \* offset of the deadlines
    MaxClock,               \* the last instant (bound)
    PromptResponder         \* time waits for the responder to scan and claim

VARIABLES
    clock,
    deadline,       \* of each script
    initiator,      \* what the view of the initiator does next
    responder,      \* what that of the responder does next
    assembled,      \* transactions under way to the endorsers
    preImages,      \* hashes whose preimage a node has
    claimedAt       \* when a preimage first appeared on a ledger

Never == MaxClock + 1
SwapNodes == {Initiator, Responder}

\* A script is in a wallet of its own kind for its sender and in another for its
\* recipient.
senderWallet(w) == <<"htlc.sender", w>>
recipientWallet(w) == <<"htlc.recipient", w>>

ScriptOwnership(s) ==
    {<<nw[1], senderWallet(nw[2])>> : nw \in WalletsOf[Script[s].sender]}
        \cup {<<nw[1], recipientWallet(nw[2])>> : nw \in WalletsOf[Script[s].recipient]}

ASSUME SwapAssumption ==
    /\ \A s \in Scripts : WalletsOf[s] = ScriptOwnership(s)
    /\ SwapNodes \subseteq Nodes \ {AuditorNode}
    /\ By \in [TxIds -> Nodes]
    /\ \A t \in TxIds : Assemblers[t] = {By[t]}
    /\ \A s \in Scripts : EnrollmentID[s] = EnrollmentID[Script[s].recipient]
    /\ {Lock1, Lock2} \subseteq TxIds
    /\ ReclamationDeadline \in Nat \ {0}
    /\ MaxClock \in Nat
    /\ PromptResponder \in BOOLEAN

swapVars == <<clock, deadline, initiator, responder, assembled, preImages, claimedAt>>
allVars == <<vaultVars, swapVars>>

ScriptTokens == {id \in UNION {CreatedIds(t) : t \in TxIds} : TokenOf(id).owner \in Scripts}
ScriptAt(id) == TokenOf(id).owner

ByScript(t) == {id \in CreatedIds(t) : id \in ScriptTokens}
IsLock(t) == ByScript(t) # {}
Claims ==
    [t \in TxIds |->
        {h \in Hashes : \E a \in Range(Request[t].transfers) : ClaimKey(h) \in a.metadata}]
ClaimedBy(t) == Claims[t]
IsClaim(t) == ClaimedBy(t) # {}
IsReclaim(t) == ~IsClaim(t) /\ ConsumedIds(t) # {} /\ ConsumedIds(t) \subseteq ScriptTokens

\* A view assembles one kind of request: a lock has one token, under a script of
\* its own, and spends none of another script.
ASSUME LocksAssumption ==
    /\ \A i, j \in ScriptTokens : i[1] = j[1] \/ ScriptAt(i) = ScriptAt(j) => i = j
    /\ \A t \in TxIds : IsLock(t) => ~IsClaim(t) /\ ConsumedIds(t) \cap ScriptTokens = {}
    /\ \A t \in InGenesis : ~IsLock(t) /\ ~IsClaim(t)

\* The locks of the exchange, each for the other node, share a hash that was
\* sampled for the first of them and that no other lock uses.
ASSUME ExchangeAssumption ==
    /\ Initiator # Responder /\ Lock1 # Lock2
    /\ \A i \in ScriptTokens :
          /\ i[1] = Lock1 => NodesOf[Script[ScriptAt(i)].recipient] = {Responder}
          /\ i[1] = Lock2 => NodesOf[Script[ScriptAt(i)].recipient] = {Initiator}
    /\ \A i, j \in ScriptTokens : i[1] = Lock1 =>
          (Script[ScriptAt(j)].hash = Script[ScriptAt(i)].hash <=> j[1] \in {Lock1, Lock2})

\* The hash of the exchange.
Hash1 == CHOOSE h \in Hashes : \E id \in ByScript(Lock1) : Script[ScriptAt(id)].hash = h

-----------------------------------------------------------------------------
\* The tokens of scripts the wallets of a node list on a network.
WalletIdsAt == [n \in Nodes |-> UNION {WalletIdsOf(n, p) : p \in Parties \ Scripts}]

filterIterator(n, k, walletIDs) ==
    {id \in UNION {ListTokens(n, w, AnyType) : w \in walletIDs} :
        id \in ScriptTokens /\ NetworkOf[id[1]] = k}

sentBy(n, k) == filterIterator(n, k, {senderWallet(w) : w \in WalletIdsAt[n]})
receivedBy(n, k) == filterIterator(n, k, {recipientWallet(w) : w \in WalletIdsAt[n]})

SelectExpired(ids) == {id \in ids : deadline[ScriptAt(id)] < clock}
SelectNonExpired(ids) == {id \in ids : deadline[ScriptAt(id)] > clock}

ListTokensAsSender(n, k) == SelectNonExpired(sentBy(n, k))
ListExpired(n, k) == SelectExpired(sentBy(n, k))
ListExpiredReceivedTokens(n, k) == SelectExpired(receivedBy(n, k))

\* The preimage of h is tried on each.
Filter(ids, h) == {id \in ids : Script[ScriptAt(id)].hash = h}
ListByPreImage(n, k, h) == Filter(receivedBy(n, k), h)

-----------------------------------------------------------------------------
\* Assembly.  The inputs come from the vault of the node.
Assemble(n, t) ==
    /\ By[t] = n
    /\ t \notin assembled \cup submitted /\ ~Ordered(t)
    /\ GetTokens(store[n], ConsumedIds(t))
    /\ assembled' = assembled \cup {t}

\* The deadline is counted from now.  Without a hash one is sampled, and the node
\* keeps the preimage.
recipientAsScript(n, s, sampled) ==
    /\ deadline' = [deadline EXCEPT ![s] = clock + ReclamationDeadline]
    /\ preImages' = IF sampled THEN [preImages EXCEPT ![n] = @ \cup {Script[s].hash}]
                    ELSE preImages

\* The second lock of an exchange reuses the hash of the first.
Lock(n, t) ==
    /\ IsLock(t)
    /\ Assemble(n, t)
    /\ \E id \in ByScript(t) : recipientAsScript(n, ScriptAt(id), t # Lock2)

\* A claim of the only token that matches the preimage of h.
Claim(n, t, h) ==
    /\ ClaimedBy(t) = {h}
    /\ ListByPreImage(n, NetworkOf[t], h) = ConsumedIds(t)
    /\ Assemble(n, t)

\* One transaction takes back all that expired.
ReclaimAllView(n, t) ==
    /\ IsReclaim(t)
    /\ ListExpired(n, NetworkOf[t]) = ConsumedIds(t)
    /\ Assemble(n, t)
    /\ UNCHANGED <<vaultVars, clock, deadline, initiator, responder, preImages, claimedAt>>

\* Two nodes either exchange or lock on their own (a bound: the tokens involved are
\* not the same, and the two together are too much to check).
LockView(n, t) ==
    /\ initiator = "idle"
    /\ t \notin {Lock1, Lock2}
    /\ Lock(n, t)
    /\ UNCHANGED <<vaultVars, clock, initiator, responder, claimedAt>>

\* The preimage comes from the application: the node scanned for it, or the
\* sender, whose LockView returned it, handed it over.  That of the exchange is
\* never handed over.
ClaimView(n, t) ==
    /\ \E h \in preImages[n] \cup ((UNION Range(preImages)) \ {Hash1}) : Claim(n, t, h)
    /\ UNCHANGED <<vaultVars, clock, deadline, initiator, responder, preImages, claimedAt>>

\* Mistake: a claim that is only endorsed gives the preimage away.
OnItsWay(k) ==
    UNION {ClaimedBy(t) : t \in Range(chain[k]) \cup {u \in submitted : NetworkOf[u] = k}}

\* Fabric: the metadata of the ordered transactions, whether they took effect or not.
LookupTransferMetadataKey(k) == UNION {ClaimedBy(t) : t \in Range(chain[k])}

\* Orion: the metadata that took effect.
LookupKey(k) == UNION {ClaimedBy(t) : t \in Range(chain[k]) \cap settled}

\* The preimages that are found on a ledger.
OnLedger(k) == IF k \in OrionNetworks THEN LookupKey(k) ELSE LookupTransferMetadataKey(k)

ScanForPreImage(n, k, h) ==
    /\ h \in OnLedger(k) \ preImages[n]
    /\ preImages' = [preImages EXCEPT ![n] = @ \cup {h}]

ScanView(n, k, h) ==
    /\ ScanForPreImage(n, k, h)
    /\ UNCHANGED <<vaultVars, clock, deadline, initiator, responder, assembled, claimedAt>>

-----------------------------------------------------------------------------
\* Endorsement.

\* Until the deadline only a signature with the preimage counts, afterwards only
\* that of the sender.
Verify(s, t) == IF clock < deadline[s] THEN IsClaim(t) ELSE ~IsClaim(t)

ValidTransfer(t, a) ==
    LET ins == [j \in DOMAIN a.inputs |-> TokenOf(a.inputs[j])]
        op == IF \E j \in OwnedByScript(ins) : clock < deadline[ins[j].owner]
              THEN "claim" ELSE "reclaim"
    IN /\ \A j \in OwnedByScript(ins) : Verify(ins[j].owner, t)
       /\ OwnedByScript(ins) # {} => SpendsScript(ins, a, op)
       /\ \A j \in OwnedByScript(a.outputs) : clock <= deadline[a.outputs[j].owner]
       /\ MetadataIsAccountedFor(ins, a, op)

\* The recipient of a lock has a view that waits for it.
Accepts(t) ==
    CASE t = Lock1 -> responder = "accept"
      [] t = Lock2 -> initiator = "accept"
      [] OTHER -> \A id \in ByScript(t) : clock <= deadline[ScriptAt(id)]

\* Who stores the transaction before it is broadcast: the node that assembles it,
\* the auditor and the receivers; the receiver of a script is its recipient.
Receivers(t) ==
    {IF TokenOf(id).owner \in Scripts THEN Script[TokenOf(id).owner].recipient
                                      ELSE TokenOf(id).owner : id \in CreatedIds(t)}
Distribution(t) == {By[t], AuditorNode} \cup UNION {NodesOf[p] : p \in Receivers(t)}

\* A view whose endorsements fail never gets here: what it assembled stays
\* assembled, and nobody acts on it.
CollectEndorsements(t) ==
    /\ t \in assembled
    /\ IsLock(t) => Accepts(t)
    /\ Approves(t)
    /\ \A k \in DOMAIN Request[t].transfers : ValidTransfer(t, Request[t].transfers[k])
    /\ assembled' = assembled \ {t}
    /\ submitted' = submitted \cup {t}
    /\ transient' = [n \in Nodes |-> IF n \in Distribution(t) THEN transient[n] \cup {t} ELSE transient[n]]
    /\ envelope' = [n \in Nodes |-> IF n \in Distribution(t) THEN envelope[n] \cup {t} ELSE envelope[n]]
    /\ responder' = IF t = Lock1 THEN "finality" ELSE responder
    /\ initiator' = IF t = Lock2 THEN "finality" ELSE initiator
    /\ UNCHANGED <<ledgerVars, chain, height, store, recordVars,
                   clock, deadline, preImages, claimedAt>>

OrderTransaction(t) ==
    /\ Order(t)
    /\ claimedAt' = [h \in Hashes |->
          IF h \in ClaimedBy(t) /\ claimedAt[h] = Never THEN clock ELSE claimedAt[h]]
    /\ UNCHANGED <<clock, deadline, initiator, responder, assembled, preImages>>

ProcessTransaction(n, k) ==
    /\ Process(n, k)
    /\ UNCHANGED swapVars

-----------------------------------------------------------------------------
\* FastExchange: identities and terms are agreed on, then the initiator locks.

InitiatorLocks ==
    /\ initiator = "lock"
    /\ Lock(Initiator, Lock1)
    /\ initiator' = "await"
    /\ UNCHANGED <<vaultVars, clock, responder, claimedAt>>

\* The lock is final: the initiator becomes the responder of the second leg.
InitiatorAccepts ==
    /\ initiator = "await"
    /\ Status(Initiator, Lock1) = "Valid"
    /\ initiator' = "accept"
    /\ UNCHANGED <<vaultVars, clock, deadline, responder, assembled, preImages, claimedAt>>

InitiatorClaims(t) ==
    /\ initiator = "finality"
    /\ Status(Initiator, Lock2) = "Valid"
    /\ NetworkOf[t] = NetworkOf[Lock2]
    /\ Claim(Initiator, t, Hash1)
    /\ initiator' = "done"
    /\ UNCHANGED <<vaultVars, clock, deadline, responder, preImages, claimedAt>>

\* Mistake: the responder does not wait for the lock of the initiator.
ResponderLocksEarly ==
    /\ responder = "finality"
    /\ Lock(Responder, Lock2)
    /\ responder' = "await"
    /\ UNCHANGED <<vaultVars, clock, initiator, claimedAt>>

ResponderLocks ==
    /\ responder = "finality"
    /\ Status(Responder, Lock1) = "Valid"
    /\ Lock(Responder, Lock2)
    /\ responder' = "await"
    /\ UNCHANGED <<vaultVars, clock, initiator, claimedAt>>

\* The scan ends with the preimage or, after its timeout, with an error.
ResponderScans ==
    /\ responder = "await"
    /\ Status(Responder, Lock2) = "Valid"
    /\ \/ /\ \E id \in ByScript(Lock1) :
                ScanForPreImage(Responder, NetworkOf[Lock2], Script[ScriptAt(id)].hash)
          /\ responder' = "claim"
       \/ /\ responder' = "failed"
          /\ UNCHANGED preImages
    /\ UNCHANGED <<vaultVars, clock, deadline, initiator, assembled, claimedAt>>

ResponderClaims(t) ==
    /\ responder = "claim"
    /\ NetworkOf[t] = NetworkOf[Lock1]
    /\ Claim(Responder, t, Hash1)
    /\ responder' = "done"
    /\ UNCHANGED <<vaultVars, clock, deadline, initiator, preImages, claimedAt>>

-----------------------------------------------------------------------------
\* Deleting tokens that are spent: the network is asked which ones are.  (Without
\* one nothing changes.)
DeleteTokens(n, ids) ==
    /\ ids # {}
    /\ store' = [store EXCEPT ![n] = DeleteFabTokens(n, @, ids, "application")]
    /\ UNCHANGED <<networkVars, height, transient, envelope, recordVars, swapVars>>

\* Mistake: everything listed is deleted.
deleteAll(n, k, ids) == DeleteTokens(n, ids)

deleteTokens(n, k, ids) == DeleteTokens(n, AreTokensSpent(k, ids))

DeleteExpiredReceivedTokens(n, k) == deleteTokens(n, k, ListExpiredReceivedTokens(n, k))
DeleteClaimedSentTokens(n, k) == deleteTokens(n, k, ListTokensAsSender(n, k))
PruneInvalidUnspentTokens(n, k) ==
    deleteTokens(n, k, {id \in UnspentTokens(n) : NetworkOf[id[1]] = k})

-----------------------------------------------------------------------------
\* Time.  Scanning for a preimage that is on the ledger and claiming with it are
\* urgent for a prompt responder, from the assembly of the claim to its order.
Urgent ==
    /\ Hash1 \in OnLedger(NetworkOf[Lock2])
    /\ Status(Responder, Lock1) = "Valid"
    /\ ByScript(Lock1) \subseteq unspent
    /\ \E t \in TxIds :
          /\ By[t] = Responder /\ ClaimedBy(t) = {Hash1}
          /\ \/ t \in submitted
             \/ /\ ~Ordered(t)
                /\ \A id \in ByScript(Lock1) : clock < deadline[ScriptAt(id)]

Tick ==
    /\ clock < MaxClock
    /\ PromptResponder => ~Urgent
    /\ clock' = clock + 1
    /\ UNCHANGED <<vaultVars, deadline, initiator, responder, assembled, preImages, claimedAt>>

Init ==
    /\ VaultInit
    /\ clock = 0
    /\ deadline = [s \in Scripts |-> 0]
    /\ initiator \in {"lock", "idle"}
    /\ responder = "accept"
    /\ assembled = {}
    /\ preImages = [n \in Nodes |-> {}]
    /\ claimedAt = [h \in Hashes |-> Never]

FastExchange ==
    \/ InitiatorLocks
    \/ InitiatorAccepts
    \/ \E t \in TxIds : InitiatorClaims(t)
    \/ ResponderLocks
    \/ ResponderScans
    \/ \E t \in TxIds : ResponderClaims(t)

Next ==
    \/ FastExchange
    \/ \E n \in SwapNodes : \E t \in {u \in TxIds : By[u] = n} :
          LockView(n, t) \/ ClaimView(n, t) \/ ReclaimAllView(n, t)
    \/ \E n \in SwapNodes, k \in Networks :
          \/ \E h \in Hashes : ScanView(n, k, h)
          \/ DeleteExpiredReceivedTokens(n, k)
          \/ DeleteClaimedSentTokens(n, k)
          \/ PruneInvalidUnspentTokens(n, k)
          \/ ProcessTransaction(n, k)
    \/ \E t \in TxIds : CollectEndorsements(t) \/ OrderTransaction(t)
    \/ Tick

Spec == Init /\ [][Next]_allVars

-----------------------------------------------------------------------------
TypeOK ==
    /\ VaultTypeOK
    /\ clock \in 0 .. MaxClock
    /\ deadline \in [Scripts -> 0 .. MaxClock + ReclamationDeadline]
    /\ initiator \in {"lock", "idle", "await", "accept", "finality", "done"}
    /\ responder \in {"accept", "finality", "await", "claim", "failed", "done"}
    /\ assembled \subseteq TxIds
    /\ preImages \in [Nodes -> SUBSET Hashes]
    /\ claimedAt \in [Hashes -> 0 .. Never]

SpentBy(id, t) == t \in settled /\ id \in ConsumedIds(t)
Claimed(id) == \E t \in TxIds : SpentBy(id, t) /\ IsClaim(t)
Reclaimed(id) == \E t \in TxIds : SpentBy(id, t) /\ IsReclaim(t)

\* Whoever is first or late, nobody takes the token of the initiator and gets the
\* own one back: a claim of the first token needs the preimage from the ledger
\* before its deadline, no later than the deadline of the second, and before that
\* one the validators refuse the reclaim that would compete with the claim.
InitiatorNeverLoses ==
    \A i, j \in ScriptTokens :
        i[1] = Lock1 /\ Claimed(i) /\ j[1] = Lock2 => ~Reclaimed(j)

\* The responder, although it scans and claims promptly, is not so safe, since the
\* deadline of its token is the later one: it loses to a claim that is ordered
\* after the deadline of the token of the initiator, but to no other.
ResponderLosesOnlyToALateClaim ==
    \A i, j \in ScriptTokens :
        /\ i[1] = Lock1 /\ Reclaimed(i)
        /\ j[1] = Lock2 /\ Claimed(j)
        => claimedAt[Script[ScriptAt(j)].hash] \in deadline[ScriptAt(i)] .. MaxClock

\* Whatever the application has deleted, a vault keeps every unspent token of its
\* wallets that it took note of and could open, scripts of both roles included.
VaultKeepsUnspent ==
    \A n \in SwapNodes : \A id \in unspent :
        (/\ IsMine(n, id) /\ Opens(n, id)
         /\ Processed(n, id[1]) /\ id[1] \in transient[n]) => id \in UnspentTokens(n)
=============================================================================
