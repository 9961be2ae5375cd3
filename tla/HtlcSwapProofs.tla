---------------------------- MODULE HtlcSwapProofs ----------------------------
(***************************************************************************)
(* Two nodes that lock, claim, reclaim and delete: what their vaults keep, and  *)
(* why the initiator of an exchange never loses both tokens.                  *)
(***************************************************************************)
EXTENDS HtlcSwap, VaultProofs

\* A transaction is under way to the endorsers, then to the network, then
\* ordered, and never begins anew.
StagesOK == \A t \in assembled : t \in TxIds /\ t \notin submitted /\ ~Ordered(t)

\* A node stores transient data and envelopes together.
KnowledgeOK == transient \in [Nodes -> SUBSET TxIds] /\ envelope = transient

SwapInv == VaultInv /\ StagesOK /\ KnowledgeOK

-----------------------------------------------------------------------------
\* The steps of the views assemble a transaction or wait, ...
Assembles == \E n \in SwapNodes, t \in TxIds : Assemble(n, t)

ViewStep ==
    /\ UNCHANGED vaultVars
    /\ assembled' = assembled \/ Assembles

\* ... and an application deletes tokens that are spent.
DeleteStep ==
    \E n \in SwapNodes, k \in Networks : \E ids :
        DeleteTokens(n, AreTokensSpent(k, ids))

\* Every step is one of these.
LEMMA Steps ==
    ASSUME Next
    PROVE  \/ ViewStep \/ DeleteStep
           \/ \E n \in SwapNodes, k \in Networks : ProcessTransaction(n, k)
           \/ \E t \in TxIds : CollectEndorsements(t) \/ OrderTransaction(t)
  <1>1. ASSUME FastExchange PROVE ViewStep
    <2>1. Lock1 \in TxIds /\ Lock2 \in TxIds
      BY SwapAssumption
    <2>2. Initiator \in SwapNodes /\ Responder \in SwapNodes
      BY DEF SwapNodes
    <2>3. ASSUME InitiatorLocks PROVE ViewStep
      BY <2>1, <2>2, <2>3 DEF InitiatorLocks, Lock, ViewStep, Assembles
    <2>4. ASSUME ResponderLocks PROVE ViewStep
      BY <2>1, <2>2, <2>4 DEF ResponderLocks, Lock, ViewStep, Assembles
    <2>5. ASSUME InitiatorAccepts \/ ResponderScans PROVE ViewStep
      BY <2>5 DEF InitiatorAccepts, ResponderScans, ViewStep
    <2>6. ASSUME NEW t \in TxIds, InitiatorClaims(t) \/ ResponderClaims(t) PROVE ViewStep
      BY <2>2, <2>6 DEF InitiatorClaims, ResponderClaims, Claim, ViewStep, Assembles
    <2> QED
      BY <1>1, <2>3, <2>4, <2>5, <2>6 DEF FastExchange
  <1>2. ASSUME NEW n \in SwapNodes, NEW t \in TxIds,
               LockView(n, t) \/ ClaimView(n, t) \/ ReclaimAllView(n, t)
        PROVE  ViewStep
    BY <1>2 DEF LockView, Lock, ClaimView, Claim, ReclaimAllView, ViewStep, Assembles
  <1>3. ASSUME NEW n \in SwapNodes, NEW k \in Networks, NEW h \in Hashes, ScanView(n, k, h)
        PROVE  ViewStep
    BY <1>3 DEF ScanView, ViewStep
  <1>4. ASSUME NEW n \in SwapNodes, NEW k \in Networks,
               \/ DeleteExpiredReceivedTokens(n, k)
               \/ DeleteClaimedSentTokens(n, k)
               \/ PruneInvalidUnspentTokens(n, k)
        PROVE  DeleteStep
    BY <1>4 DEF DeleteStep, deleteTokens, DeleteExpiredReceivedTokens, DeleteClaimedSentTokens,
                PruneInvalidUnspentTokens
  <1>5. ASSUME Tick PROVE ViewStep
    BY <1>5 DEF Tick, ViewStep
  <1> QED
    BY <1>1, <1>2, <1>3, <1>4, <1>5 DEF Next

\* The network is asked what is spent.
LEMMA SpentIsSpent == \A k, ids : AreTokensSpent(k, ids) \cap unspent = {}
  BY DEF AreTokensSpent, RequestSpentTokens, ChaincodeSpentTokens, HasState

\* The start.
LEMMA InitSwap == Init => SwapInv
  <1> SUFFICES ASSUME Init PROVE SwapInv
    OBVIOUS
  <1>1. VaultInit /\ assembled = {}
    BY DEF Init
  <1>2. transient = [n \in Nodes |-> InGenesis] /\ envelope = [n \in Nodes |-> InGenesis]
    BY <1>1 DEF VaultInit
  <1>3. InGenesis \subseteq TxIds
    BY VaultAssumption DEF InGenesis, Range
  <1> QED
    BY <1>1, <1>2, <1>3, InitVault DEF SwapInv, StagesOK, KnowledgeOK

\* What a view does alone touches neither networks nor stores.
LEMMA ViewKeepsSwap == ASSUME SwapInv, ViewStep PROVE SwapInv'
  <1>1. VaultInv'
    BY UnchangedKeepsVault DEF SwapInv, ViewStep
  <1>2. UNCHANGED <<submitted, chain, transient, envelope>>
    BY DEF ViewStep, vaultVars, networkVars
  <1>3. StagesOK' /\ KnowledgeOK'
    BY <1>2 DEF SwapInv, ViewStep, Assembles, Assemble, StagesOK, KnowledgeOK, Ordered
  <1> QED
    BY <1>1, <1>3 DEF SwapInv

\* Nodes learn of a transaction before it is ordered, so none has processed it.
LEMMA EndorsementKeepsSwap ==
    ASSUME SwapInv, NEW t \in TxIds, CollectEndorsements(t)
    PROVE  SwapInv'
  <1>1. /\ t \in assembled
        /\ assembled' = assembled \ {t}
        /\ submitted' = submitted \cup {t}
        /\ transient' = [n \in Nodes |-> IF n \in Distribution(t) THEN transient[n] \cup {t} ELSE transient[n]]
        /\ envelope' = [n \in Nodes |-> IF n \in Distribution(t) THEN envelope[n] \cup {t} ELSE envelope[n]]
        /\ UNCHANGED <<unspent, spent, settled, chain, height, store>>
    BY DEF CollectEndorsements, ledgerVars
  <1>2. t \notin submitted /\ ~Ordered(t)
    BY <1>1 DEF SwapInv, StagesOK
  <1>3. NetworkInv'
    BY <1>1, <1>2 DEF SwapInv, VaultInv, NetworkInv, ChainsOK, LedgerOK, OrderedOnce, Ordered,
                      CreatedIds, ConsumedIds
  <1>4. StoreOK'
    BY <1>1 DEF SwapInv, VaultInv, StoreOK, StoreOutput
  <1>5. KeepsOwn'
    <2> SUFFICES ASSUME NEW n \in Nodes, NEW id \in unspent,
                        Keeps(n, id), Processed(n, id[1]), Known(n, id[1])'
                 PROVE  CreateFabTokenKey(id) \in store[n]
      BY <1>1 DEF KeepsOwn, Known, Keeps, IsMine, Opens, Processed
    <2>1. id[1] \in TxIds
      BY DEF SwapInv, VaultInv, NetworkInv, LedgerOK
    <2>2. id[1] # t
      BY <1>2, <2>1, ProcessedIsOrdered DEF SwapInv, VaultInv
    <2>3. Known(n, id[1])
      BY <1>1, <2>2 DEF Known
    <2> QED
      BY <2>3 DEF SwapInv, VaultInv, KeepsOwn
  <1>6. StagesOK'
    BY <1>1, <1>2 DEF SwapInv, StagesOK, Ordered
  <1>7. KnowledgeOK'
    BY <1>1 DEF SwapInv, KnowledgeOK
  <1> QED
    BY <1>3, <1>4, <1>5, <1>6, <1>7 DEF SwapInv, VaultInv

\* A transaction that is ordered leaves those that are submitted.
LEMMA OrderKeepsSwap ==
    ASSUME SwapInv, NEW t \in TxIds, OrderTransaction(t)
    PROVE  SwapInv'
  <1>1. Order(t) /\ UNCHANGED <<assembled, transient, envelope>> /\ submitted' = submitted \ {t}
    BY DEF OrderTransaction, Order
  <1>2. VaultInv'
    BY <1>1, OrderKeepsVault DEF SwapInv
  <1>3. t \in submitted
    BY DEF OrderTransaction, Order
  <1>4. \A u \in TxIds : Ordered(u)' <=> Ordered(u) \/ u = t
    BY <1>1, OrderEffect DEF SwapInv, VaultInv
  <1>5. StagesOK' /\ KnowledgeOK'
    BY <1>1, <1>3, <1>4 DEF SwapInv, StagesOK, KnowledgeOK
  <1> QED
    BY <1>2, <1>5 DEF SwapInv

\* Every step keeps the invariant.
LEMMA SwapStep == ASSUME SwapInv, [Next]_allVars PROVE SwapInv'
  <1>1. ASSUME UNCHANGED allVars PROVE SwapInv'
    BY <1>1, ViewKeepsSwap DEF allVars, swapVars, ViewStep
  <1>2. ASSUME DeleteStep PROVE SwapInv'
    <2> DEFINE DeletesSpent(n, ids) ==
                 /\ ids \cap unspent = {}
                 /\ store' = [store EXCEPT ![n] = DeleteFabTokens(n, store[n], ids, "application")]
                 /\ UNCHANGED <<networkVars, height, transient, envelope, assembled>>
    <2>1. PICK n \in SwapNodes : \E ids : DeletesSpent(n, ids)
      BY <1>2, SpentIsSpent DEF DeleteStep, DeleteTokens, swapVars
    <2>2. PICK ids : DeletesSpent(n, ids)
      BY <2>1
    <2>3. n \in Nodes
      BY SwapAssumption
    <2>4. VaultInv'
      BY <2>2, <2>3, DeletingKeepsVault DEF SwapInv
    <2>5. StagesOK' /\ KnowledgeOK'
      BY <2>2 DEF SwapInv, StagesOK, KnowledgeOK, networkVars, Ordered
    <2> QED
      BY <2>4, <2>5 DEF SwapInv
  <1>3. ASSUME NEW n \in SwapNodes, NEW k \in Networks, ProcessTransaction(n, k) PROVE SwapInv'
    <2>1. n \in Nodes
      BY SwapAssumption
    <2>2. Process(n, k) /\ UNCHANGED <<networkVars, transient, envelope, assembled>>
      BY <1>3 DEF ProcessTransaction, Process, swapVars
    <2>3. VaultInv'
      BY <2>1, <2>2, ProcessKeepsVault DEF SwapInv
    <2>4. StagesOK' /\ KnowledgeOK'
      BY <2>2 DEF SwapInv, StagesOK, KnowledgeOK, networkVars, Ordered
    <2> QED
      BY <2>3, <2>4 DEF SwapInv
  <1> QED
    BY <1>1, <1>2, <1>3, Steps, ViewKeepsSwap, EndorsementKeepsSwap, OrderKeepsSwap

\* The invariant of the vaults and of the stages of a transaction.
LEMMA SwapInductive == Spec => []SwapInv
  <1>1. SwapInv /\ [Next]_allVars => SwapInv'
    BY SwapStep
  <1> QED
    BY <1>1, InitSwap, PTL DEF Spec

\* Whatever the application deletes, a vault keeps the unspent tokens of its
\* wallets (Vault.DeleteTokens, OwnerWallet.deleteTokens): what it deletes was
\* reported spent, and a token is spent for ever.
THEOREM VaultsKeepUnspent == Spec => []VaultKeepsUnspent
  <1>1. ASSUME SwapInv PROVE VaultKeepsUnspent
    <2> SUFFICES ASSUME NEW n \in SwapNodes, NEW id \in unspent,
                        Keeps(n, id), Processed(n, id[1]), id[1] \in transient[n]
                 PROVE  id \in UnspentTokens(n)
      BY DEF VaultKeepsUnspent, Keeps
    <2>1. n \in Nodes
      BY SwapAssumption
    <2>2. Known(n, id[1])
      BY <1>1 DEF SwapInv, KnowledgeOK, Known
    <2>3. CreateFabTokenKey(id) \in store[n]
      BY <1>1, <2>1, <2>2 DEF SwapInv, VaultInv, KeepsOwn
    <2>4. CreateFabTokenKey(id) \in GetStateRangeScanIterator(store[n], <<"token">>)
      BY <2>3 DEF GetStateRangeScanIterator, CreateFabTokenKey
    <2>5. GetTokenIdFromKey(CreateFabTokenKey(id)) = id
      BY DEF GetTokenIdFromKey, CreateFabTokenKey
    <2> QED
      BY <2>4, <2>5 DEF UnspentTokens, UnspentTokensIterator
  <1> QED
    BY <1>1, SwapInductive, PTL

-----------------------------------------------------------------------------
\* Types.
TypesInv ==
    /\ records \in [DBs -> [TxIds -> {"none", "Pending", "Confirmed", "Deleted"}]]
    /\ listening \in [DBs -> SUBSET TxIds]
    /\ notices \in [DBs -> SUBSET TxIds]
    /\ clock \in 0 .. MaxClock
    /\ deadline \in [Scripts -> 0 .. MaxClock + ReclamationDeadline]
    /\ initiator \in {"lock", "idle", "await", "accept", "finality", "done"}
    /\ responder \in {"accept", "finality", "await", "claim", "failed", "done"}
    /\ assembled \subseteq TxIds
    /\ preImages \in [Nodes -> SUBSET Hashes]
    /\ claimedAt \in [Hashes -> 0 .. Never]

\* What is found on a ledger was claimed by an ordered transaction.
LEMMA FoundOnLedger ==
    ASSUME VaultInv, NEW k \in Networks, NEW h \in OnLedger(k)
    PROVE  h \in Hashes /\ \E t \in TxIds : Ordered(t) /\ h \in ClaimedBy(t)
  <1>1. \A t \in Range(chain[k]) : t \in TxIds /\ NetworkOf[t] = k
    BY VaultTypes
  <1>2. PICK t \in Range(chain[k]) : h \in ClaimedBy(t)
    BY DEF OnLedger, LookupKey, LookupTransferMetadataKey
  <1>3. ClaimedBy(t) \subseteq Hashes
    BY <1>1 DEF ClaimedBy, Claims
  <1> QED
    BY <1>1, <1>2, <1>3 DEF Ordered

\* A scan finds preimages of hashes.
LEMMA ScanTypes ==
    ASSUME VaultInv, TypesInv, NEW n, NEW k \in Networks, NEW h, ScanForPreImage(n, k, h)
    PROVE  preImages' \in [Nodes -> SUBSET Hashes]
  BY FoundOnLedger DEF ScanForPreImage, TypesInv

\* A lock sets a deadline within reach of the clock.
LEMMA LockTypes ==
    ASSUME TypesInv, NEW n, NEW t \in TxIds, Lock(n, t)
    PROVE  /\ deadline' \in [Scripts -> 0 .. MaxClock + ReclamationDeadline]
           /\ preImages' \in [Nodes -> SUBSET Hashes]
           /\ assembled' \subseteq TxIds
  <1>1. PICK id \in ByScript(t) : recipientAsScript(n, ScriptAt(id), t # Lock2)
    BY DEF Lock
  <1>2. ScriptAt(id) \in Scripts
    BY DEF ByScript, ScriptTokens, ScriptAt
  <1>3. Script[ScriptAt(id)].hash \in Hashes
    BY <1>2, HtlcAssumption
  <1>4. clock + ReclamationDeadline \in 0 .. MaxClock + ReclamationDeadline
    BY SwapAssumption DEF TypesInv
  <1>5. deadline' \in [Scripts -> 0 .. MaxClock + ReclamationDeadline]
    BY <1>1, <1>4 DEF recipientAsScript, TypesInv
  <1>6. preImages' \in [Nodes -> SUBSET Hashes]
    BY <1>1, <1>3 DEF recipientAsScript, TypesInv
  <1> QED
    BY <1>5, <1>6 DEF Lock, Assemble, TypesInv

\* Types at the start.
LEMMA InitTypes == Init => TypesInv
  BY SwapAssumption, VaultAssumption DEF Init, VaultInit, TypesInv, InGenesis, Range, Never

\* Types after each step.
LEMMA TypesStep == ASSUME SwapInv, TypesInv, [Next]_allVars PROVE TypesInv'
  <1>1. VaultInv /\ Lock1 \in TxIds /\ Lock2 \in TxIds
    BY SwapAssumption DEF SwapInv
  <1> DEFINE Records == UNCHANGED <<records, listening, notices>>
  <1>2. UNCHANGED vaultVars => Records
    BY DEF vaultVars, recordVars
  <1>3. ASSUME NEW n, NEW t \in TxIds, Assemble(n, t) PROVE assembled' \subseteq TxIds
    BY <1>3 DEF Assemble, TypesInv
  <1>4. ASSUME FastExchange PROVE TypesInv'
    <2>1. ASSUME InitiatorLocks PROVE TypesInv'
      BY <1>1, <1>2, <2>1, LockTypes DEF InitiatorLocks, TypesInv
    <2>2. ASSUME InitiatorAccepts PROVE TypesInv'
      BY <1>2, <2>2 DEF InitiatorAccepts, TypesInv
    <2>3. ASSUME NEW t \in TxIds, InitiatorClaims(t) PROVE TypesInv'
      BY <1>2, <1>3, <2>3 DEF InitiatorClaims, Claim, TypesInv
    <2>4. ASSUME ResponderLocks PROVE TypesInv'
      BY <1>1, <1>2, <2>4, LockTypes DEF ResponderLocks, TypesInv
    <2>5. ASSUME ResponderScans PROVE TypesInv'
      <3>1. NetworkOf[Lock2] \in Networks
        BY <1>1, VaultAssumption
      <3>2. preImages' \in [Nodes -> SUBSET Hashes]
        BY <1>1, <2>5, <3>1, ScanTypes DEF ResponderScans, TypesInv
      <3> QED
        BY <1>2, <2>5, <3>2 DEF ResponderScans, TypesInv
    <2>6. ASSUME NEW t \in TxIds, ResponderClaims(t) PROVE TypesInv'
      BY <1>2, <1>3, <2>6 DEF ResponderClaims, Claim, TypesInv
    <2> QED
      BY <1>4, <2>1, <2>2, <2>3, <2>4, <2>5, <2>6 DEF FastExchange
  <1>5. ASSUME NEW n, NEW t \in TxIds, LockView(n, t) PROVE TypesInv'
    BY <1>2, <1>5, LockTypes DEF LockView, TypesInv
  <1>6. ASSUME NEW n, NEW t \in TxIds, ClaimView(n, t) \/ ReclaimAllView(n, t) PROVE TypesInv'
    BY <1>2, <1>3, <1>6 DEF ClaimView, Claim, ReclaimAllView, TypesInv
  <1>7. ASSUME NEW n, NEW k \in Networks, NEW h, ScanView(n, k, h) PROVE TypesInv'
    BY <1>1, <1>2, <1>7, ScanTypes DEF ScanView, TypesInv
  <1>8. ASSUME NEW n, NEW ids, DeleteTokens(n, ids) PROVE TypesInv'
    BY <1>8 DEF DeleteTokens, recordVars, swapVars, TypesInv
  <1>9. ASSUME NEW n \in Nodes, NEW k \in Networks, ProcessTransaction(n, k) PROVE TypesInv'
    <2>1. height[n][k] + 1 \in DOMAIN chain[k]
      BY <1>1, <1>9 DEF ProcessTransaction, Process, VaultInv, NetworkInv, ChainsOK
    <2>2. chain[k][height[n][k] + 1] \in TxIds
      <3>1. chain[k][height[n][k] + 1] \in Range(chain[k])
        BY <2>1 DEF Range
      <3> QED
        BY <1>1, <3>1, VaultTypes
    <2>3. PICK t \in TxIds : notices' = [db \in DBs |-> IF NodeOfDB(db) = n /\ t \in listening[db]
                                           THEN notices[db] \cup {t} ELSE notices[db]]
      BY <1>9, <2>2 DEF ProcessTransaction, Process
    <2> QED
      BY <1>9, <2>3 DEF ProcessTransaction, Process, swapVars, TypesInv
  <1>10. ASSUME NEW t \in TxIds, CollectEndorsements(t) PROVE TypesInv'
    BY <1>10 DEF CollectEndorsements, recordVars, TypesInv
  <1>11. ASSUME NEW t \in TxIds, OrderTransaction(t) PROVE TypesInv'
    BY <1>11, SwapAssumption DEF OrderTransaction, Order, recordVars, TypesInv, Never
  <1>12. ASSUME Tick PROVE TypesInv'
    BY <1>2, <1>12, SwapAssumption DEF Tick, TypesInv
  <1>13. ASSUME UNCHANGED allVars PROVE TypesInv'
    BY <1>2, <1>13 DEF allVars, swapVars, TypesInv
  <1>14. SwapNodes \subseteq Nodes
    BY SwapAssumption
  <1> QED
    BY <1>4, <1>5, <1>6, <1>7, <1>8, <1>9, <1>10, <1>11, <1>12, <1>13, <1>14
       DEF Next, deleteTokens, DeleteExpiredReceivedTokens, DeleteClaimedSentTokens,
           PruneInvalidUnspentTokens

\* Every variable that the vaults do not account for keeps its type.
LEMMA TypesInductive == Spec => []TypesInv
  <1>1. SwapInv /\ TypesInv /\ [Next]_allVars => TypesInv'
    BY TypesStep
  <1> QED
    BY <1>1, InitTypes, SwapInductive, PTL DEF Spec

\* Every reachable state is well typed: nodes are never ahead of the chains, and
\* their stores list only tokens that were created on a network.
THEOREM SwapTypeOK == Spec => []TypeOK
  <1>1. ASSUME SwapInv, TypesInv PROVE TypeOK
    <2>1. VaultTypeOK
      BY <1>1, VaultTypes DEF SwapInv, KnowledgeOK, TypesInv, VaultTypeOK
    <2> QED
      BY <1>1, <2>1 DEF TypesInv, TypeOK
  <1> QED
    BY <1>1, SwapInductive, TypesInductive, PTL

-----------------------------------------------------------------------------
\* An exchange of the token i that the initiator locks for the token j of the
\* responder.
Exchange(i, j) ==
    i \in ScriptTokens /\ i[1] = Lock1 /\ j \in ScriptTokens /\ j[1] = Lock2

Sent(t) == t \in submitted \/ Ordered(t)
Started(t) == t \in assembled \/ Sent(t)
HashOf(id) == Script[ScriptAt(id)].hash
RecipientOf(id) == Script[ScriptAt(id)].recipient
DeadlineOf(id) == deadline[ScriptAt(id)]

\* A claim is assembled with one preimage, from tokens for its node on its network.
ClaimsListed ==
    \A t \in TxIds : Started(t) /\ IsClaim(t) =>
        /\ By[t] \in SwapNodes
        /\ \E h \in Hashes : /\ ClaimedBy(t) = {h}
                            /\ \A id \in ConsumedIds(t) :
                                  /\ id \in ScriptTokens /\ NetworkOf[id[1]] = NetworkOf[t]
                                  /\ HashOf(id) = h /\ By[t] \in NodesOf[RecipientOf(id)]

\* The initiator has put the preimage of the exchange on a ledger.
Revealed ==
    \E t \in TxIds : Ordered(t) /\ Hash1 \in ClaimedBy(t) /\ By[t] = Initiator

\* Nobody else knows it before.
Secret ==
    /\ Hash1 \in preImages[Responder] \/ responder = "claim" => Revealed
    /\ \A t \in TxIds : Started(t) /\ Hash1 \in ClaimedBy(t) /\ By[t] # Initiator => Revealed

\* The second lock has the later deadline.
DeadlinesInOrder(i, j) ==
    /\ Started(Lock1) => DeadlineOf(i) <= clock + ReclamationDeadline
    /\ Started(Lock2) => Started(Lock1) /\ DeadlineOf(i) <= DeadlineOf(j)

\* A claim of the initiator that was endorsed spends j, ...
InitiatorSpends(j) ==
    \A t \in TxIds : Sent(t) /\ Hash1 \in ClaimedBy(t) /\ By[t] = Initiator =>
        Lock2 \in settled /\ ConsumedIds(t) = {j}

\* ... so that j is gone once the preimage is known, by this or another claim, ...
GoneOnceRevealed(j) == Revealed => Lock2 \in settled /\ j \notin unspent

\* ... since it is too early for a reclaim of j, ...
ReclaimSent(id) == \E t \in TxIds : Sent(t) /\ IsReclaim(t) /\ id \in ConsumedIds(t)
ReclaimsAreLate(id) == ReclaimSent(id) => id[1] \in settled /\ DeadlineOf(id) <= clock

\* ... and will be too late when a claim of i has been endorsed.
NothingLost(i, j) ==
    \A t \in TxIds : Sent(t) /\ IsClaim(t) /\ i \in ConsumedIds(t) => Revealed /\ ~ReclaimSent(j)

ExchangeInv(i, j) ==
    /\ ClaimsListed
    /\ Secret
    /\ DeadlinesInOrder(i, j)
    /\ InitiatorSpends(j)
    /\ GoneOnceRevealed(j)
    /\ ReclaimsAreLate(i) /\ ReclaimsAreLate(j)
    /\ NothingLost(i, j)

-----------------------------------------------------------------------------
\* The tokens of an exchange.
LEMMA Terms ==
    ASSUME NEW i, NEW j, Exchange(i, j)
    PROVE  /\ Hash1 \in Hashes /\ HashOf(i) = Hash1 /\ HashOf(j) = Hash1
           /\ \A id \in ScriptTokens : HashOf(id) = Hash1 => id \in {i, j}
           /\ \A id \in ScriptTokens : ScriptAt(id) = ScriptAt(i) \/ id[1] = Lock1 => id = i
           /\ \A id \in ScriptTokens : ScriptAt(id) = ScriptAt(j) \/ id[1] = Lock2 => id = j
           /\ NodesOf[RecipientOf(i)] = {Responder} /\ NodesOf[RecipientOf(j)] = {Initiator}
           /\ Initiator # Responder /\ Lock1 # Lock2 /\ i # j
           /\ IsLock(Lock1) /\ IsLock(Lock2)
           /\ ScriptAt(i) \in Scripts /\ ScriptAt(j) \in Scripts
  <1>1. i \in ScriptTokens /\ i[1] = Lock1 /\ j \in ScriptTokens /\ j[1] = Lock2
    BY DEF Exchange
  <1>2. i \in ByScript(Lock1) /\ j \in ByScript(Lock2)
    BY <1>1, CreatedBy DEF ByScript, ScriptTokens
  <1>3. ScriptAt(i) \in Scripts /\ ScriptAt(j) \in Scripts
    BY <1>1 DEF ScriptTokens, ScriptAt
  <1>4. \A x, y \in ScriptTokens : x[1] = y[1] \/ ScriptAt(x) = ScriptAt(y) => x = y
    BY LocksAssumption
  <1>5. \A x, y \in ScriptTokens : x[1] = Lock1 => (HashOf(y) = HashOf(x) <=> y[1] \in {Lock1, Lock2})
    BY ExchangeAssumption DEF HashOf
  <1>6. HashOf(i) \in Hashes /\ HashOf(j) = HashOf(i)
    BY <1>1, <1>3, <1>5, HtlcAssumption DEF HashOf
  <1>7. \A x \in ByScript(Lock1) : x = i
    BY <1>1, <1>4, CreatedBy, SwapAssumption DEF ByScript
  <1>8. Hash1 = HashOf(i)
    BY <1>2, <1>6, <1>7 DEF Hash1, HashOf
  <1>9. Initiator # Responder /\ Lock1 # Lock2
    BY ExchangeAssumption
  <1>10. NodesOf[RecipientOf(i)] = {Responder} /\ NodesOf[RecipientOf(j)] = {Initiator}
    BY <1>1, ExchangeAssumption DEF RecipientOf
  <1>11. IsLock(Lock1) /\ IsLock(Lock2)
    BY <1>2 DEF IsLock
  <1> QED
    BY <1>1, <1>3, <1>4, <1>5, <1>6, <1>8, <1>9, <1>10, <1>11

\* A vault lists a token in the wallet of a recipient only if the script says so.
LEMMA ListedForRecipient ==
    ASSUME VaultInv, NEW n \in Nodes, NEW k, NEW h, NEW id \in ListByPreImage(n, k, h)
    PROVE  /\ id \in ScriptTokens /\ NetworkOf[id[1]] = k
           /\ HashOf(id) = h /\ n \in NodesOf[RecipientOf(id)]
  <1>1. id \in ScriptTokens /\ NetworkOf[id[1]] = k /\ HashOf(id) = h
    BY DEF ListByPreImage, Filter, receivedBy, filterIterator, HashOf
  <1>2. PICK w : id \in ListTokens(n, recipientWallet(w), AnyType)
    BY DEF ListByPreImage, Filter, receivedBy, filterIterator
  <1>3. PICK key \in store[n] : key[1] = "etoken" /\ key[2] = recipientWallet(w) /\ key[4] = id
    BY <1>2 DEF ListTokens, UnspentTokensIteratorBy, GetStateRangeScanIterator,
                GetTokenIdFromExtendedKey
  <1>4. PICK x : key \in StoreOutput(n, x)
    BY <1>3 DEF VaultInv, StoreOK
  <1>5. PICK v \in WalletIdsOf(n, TokenOf(x).owner) :
            key = CreateExtendedFabTokenKey(v, TokenOf(x).type, x)
    BY <1>3, <1>4 DEF StoreOutput, StoreFabToken, StoreAuditToken, StoreIssuedHistoryToken,
                      CreateFabTokenKey, CreateTokenMineKey, CreateExtendedFabTokenKey,
                      CreateAuditTokenKey, CreateIssuedHistoryTokenKey
  <1>6. x = id /\ v = recipientWallet(w)
    BY <1>3, <1>5 DEF CreateExtendedFabTokenKey
  <1> DEFINE s == ScriptAt(id)
  <1>7. s \in Scripts /\ RecipientOf(id) \in Parties
    BY <1>1, HtlcAssumption DEF ScriptTokens, ScriptAt, RecipientOf
  <1>8. PICK nw \in ScriptOwnership(s) : nw[1] = n /\ nw[2] = recipientWallet(w)
    BY <1>5, <1>6, <1>7, SwapAssumption DEF WalletIdsOf, ScriptAt
  <1>9. PICK x0 \in WalletsOf[RecipientOf(id)] : x0[1] = n
    BY <1>8 DEF ScriptOwnership, senderWallet, recipientWallet, RecipientOf
  <1>10. n \in NodesOf[RecipientOf(id)]
    BY <1>7, <1>9 DEF NodesOf
  <1> QED
    BY <1>1, <1>10

-----------------------------------------------------------------------------
\* The steps as the exchange sees them.  (None of them decides on a token, unless
\* it orders a transaction.)
Still ==
    /\ UNCHANGED <<unspent, spent, settled, submitted, chain, claimedAt>>
    /\ \A n \in Nodes, t \in TxIds : Processed(n, t) => Processed(n, t)'
ScansNoMore == responder' = "claim" => responder = "claim"

LockStep(n, t) ==
    /\ IsLock(t) /\ Assemble(n, t)
    /\ \E id \in ByScript(t) : recipientAsScript(n, ScriptAt(id), t # Lock2)
    /\ t = Lock1 => n = Initiator
    /\ t = Lock2 => Processed(Responder, Lock1) /\ Lock1 \in settled
    /\ Still /\ ScansNoMore /\ UNCHANGED clock

ClaimStep(n, t, h) ==
    /\ Claim(n, t, h)
    /\ h = Hash1 /\ n # Initiator => Hash1 \in preImages[Responder] \/ responder = "claim"
    /\ Still /\ ScansNoMore /\ UNCHANGED <<clock, deadline, preImages>>

ReclaimStep(n, t) ==
    /\ IsReclaim(t) /\ Assemble(n, t)
    /\ Still /\ ScansNoMore /\ UNCHANGED <<clock, deadline, preImages>>

LearnStep(n, k, h) ==
    /\ ScanForPreImage(n, k, h)
    /\ responder' = "claim" => responder = "claim" \/ h = Hash1
    /\ Still /\ UNCHANGED <<clock, deadline, assembled>>

IdleStep ==
    /\ clock' = clock \/ Tick
    /\ Still /\ ScansNoMore /\ UNCHANGED <<deadline, preImages, assembled>>

\* A transaction the vault reports valid took effect.
LEMMA ValidIsSettled ==
    \A n, t : Status(n, t) = "Valid" <=> Processed(n, t) /\ t \in settled
  BY DEF Status

\* Every step is one of these, or endorses, or orders.
LEMMA ExchangeSteps ==
    ASSUME NEW i, NEW j, SwapInv, Exchange(i, j), [Next]_allVars
    PROVE  \/ \E n \in SwapNodes, t \in TxIds :
                 LockStep(n, t) \/ ReclaimStep(n, t) \/ \E h : ClaimStep(n, t, h)
           \/ \E n \in SwapNodes, k \in Networks : \E h : LearnStep(n, k, h)
           \/ IdleStep
           \/ \E t \in TxIds : CollectEndorsements(t) \/ OrderTransaction(t)
  <1>1. UNCHANGED <<vaultVars, claimedAt>> => Still
    BY DEF vaultVars, networkVars, Still, Processed
  <1>3. Lock1 \in TxIds /\ Lock2 \in TxIds /\ Lock1 # Lock2 /\ Initiator # Responder
    BY SwapAssumption, ExchangeAssumption
  <1>4. SwapNodes = {Initiator, Responder}
    BY DEF SwapNodes
  <1>5. ASSUME InitiatorLocks PROVE LockStep(Initiator, Lock1)
    BY <1>1, <1>3, <1>5 DEF InitiatorLocks, Lock, LockStep, ScansNoMore
  <1>6. ASSUME ResponderLocks PROVE LockStep(Responder, Lock2)
    BY <1>1, <1>3, <1>6, ValidIsSettled DEF ResponderLocks, Lock, LockStep, ScansNoMore
  <1>7. ASSUME InitiatorAccepts PROVE IdleStep
    BY <1>1, <1>7 DEF InitiatorAccepts, IdleStep, ScansNoMore
  <1>8. ASSUME NEW t \in TxIds, InitiatorClaims(t) PROVE ClaimStep(Initiator, t, Hash1)
    BY <1>1, <1>8 DEF InitiatorClaims, ClaimStep, ScansNoMore
  <1>9. ASSUME NEW t \in TxIds, ResponderClaims(t) PROVE ClaimStep(Responder, t, Hash1)
    BY <1>1, <1>9 DEF ResponderClaims, ClaimStep, ScansNoMore
  <1>10. ASSUME ResponderScans
         PROVE  IdleStep \/ \E k \in Networks : \E h : LearnStep(Responder, k, h)
    <2>1. CASE responder' = "failed" /\ UNCHANGED preImages
      BY <1>1, <1>10, <2>1 DEF ResponderScans, IdleStep, ScansNoMore
    <2>2. ASSUME NEW id \in ByScript(Lock1),
                 ScanForPreImage(Responder, NetworkOf[Lock2], Script[ScriptAt(id)].hash)
          PROVE  LearnStep(Responder, NetworkOf[Lock2], Hash1)
      <3>1. id = i
        BY <1>3, Terms, CreatedBy DEF ByScript
      <3>2. Script[ScriptAt(id)].hash = Hash1
        BY <3>1, Terms DEF HashOf
      <3> QED
        BY <1>1, <1>10, <2>2, <3>2 DEF ResponderScans, LearnStep
    <2>3. NetworkOf[Lock2] \in Networks
      BY <1>3, VaultAssumption
    <2> QED
      BY <1>10, <2>1, <2>2, <2>3 DEF ResponderScans
  <1>11. ASSUME NEW n \in SwapNodes, NEW t \in TxIds, LockView(n, t) PROVE LockStep(n, t)
    BY <1>1, <1>11 DEF LockView, Lock, LockStep, ScansNoMore
  <1>12. ASSUME NEW n \in SwapNodes, NEW t \in TxIds, ClaimView(n, t)
         PROVE  \E h : ClaimStep(n, t, h)
    <2> DEFINE others == (UNION Range(preImages)) \ {Hash1}
    <2>2. PICK h \in preImages[n] \cup others : Claim(n, t, h)
      BY <1>12 DEF ClaimView
    <2>1. h \in preImages[n] \/ h # Hash1
      OBVIOUS
    <2> QED
      BY <1>1, <1>4, <1>12, <2>1, <2>2 DEF ClaimView, ClaimStep, ScansNoMore
  <1>13. ASSUME NEW n \in SwapNodes, NEW t \in TxIds, ReclaimAllView(n, t) PROVE ReclaimStep(n, t)
    BY <1>1, <1>13 DEF ReclaimAllView, ReclaimStep, ScansNoMore
  <1>14. ASSUME NEW n \in SwapNodes, NEW k \in Networks, NEW h, ScanView(n, k, h)
         PROVE  LearnStep(n, k, h)
    BY <1>1, <1>14 DEF ScanView, LearnStep
  <1>15. ASSUME NEW n, NEW ids, DeleteTokens(n, ids) PROVE IdleStep
    BY <1>15 DEF DeleteTokens, networkVars, swapVars, IdleStep, Still, ScansNoMore, Processed
  <1>16. ASSUME NEW n \in SwapNodes, NEW k \in Networks, ProcessTransaction(n, k) PROVE IdleStep
    <2>1. Process(n, k) /\ n \in Nodes /\ NetworkInv
      BY <1>16, SwapAssumption DEF ProcessTransaction, SwapInv, VaultInv
    <2>2. \A m \in Nodes, u \in TxIds : Processed(m, u) => Processed(m, u)'
      BY <2>1, ProcessEffect
    <2> QED
      BY <1>16, <2>2 DEF ProcessTransaction, Process, networkVars, swapVars, IdleStep, Still, ScansNoMore
  <1>17. ASSUME Tick PROVE IdleStep
    BY <1>1, <1>17 DEF Tick, IdleStep, ScansNoMore
  <1>18. ASSUME UNCHANGED allVars PROVE IdleStep
    BY <1>1, <1>18 DEF allVars, swapVars, IdleStep, ScansNoMore
  <1>19. ASSUME FastExchange
         PROVE  \/ \E n \in SwapNodes, t \in TxIds : LockStep(n, t) \/ \E h : ClaimStep(n, t, h)
                \/ \E n \in SwapNodes, k \in Networks : \E h : LearnStep(n, k, h)
                \/ IdleStep
    BY <1>3, <1>4, <1>5, <1>6, <1>7, <1>8, <1>9, <1>10, <1>19 DEF FastExchange
  <1>20. ASSUME Next, ~FastExchange, ~Tick,
                ~\E t \in TxIds : CollectEndorsements(t) \/ OrderTransaction(t)
         PROVE  \/ \E n \in SwapNodes, t \in TxIds :
                      LockStep(n, t) \/ ReclaimStep(n, t) \/ \E h : ClaimStep(n, t, h)
                \/ \E n \in SwapNodes, k \in Networks : \E h : LearnStep(n, k, h)
                \/ IdleStep
    <2>1. CASE \E n \in SwapNodes : \E t \in TxIds : LockView(n, t) \/ ClaimView(n, t) \/ ReclaimAllView(n, t)
      BY <1>11, <1>12, <1>13, <2>1
    <2>2. CASE \E n \in SwapNodes, k \in Networks :
                  \/ \E h \in Hashes : ScanView(n, k, h)
                  \/ DeleteExpiredReceivedTokens(n, k)
                  \/ DeleteClaimedSentTokens(n, k)
                  \/ PruneInvalidUnspentTokens(n, k)
                  \/ ProcessTransaction(n, k)
      BY <1>14, <1>15, <1>16, <2>2 DEF deleteTokens, DeleteExpiredReceivedTokens,
         DeleteClaimedSentTokens, PruneInvalidUnspentTokens
    <2> QED
      BY <1>20, <2>1, <2>2 DEF Next
  <1> QED
    BY <1>17, <1>18, <1>19, <1>20

-----------------------------------------------------------------------------
\* Most of the invariant speaks of what was endorsed.
LEMMA StillKeeps ==
    ASSUME NEW i, NEW j, ExchangeInv(i, j), Still
    PROVE  /\ \A t : (Sent(t)' <=> Sent(t)) /\ (Ordered(t)' <=> Ordered(t))
           /\ Revealed' <=> Revealed
           /\ (ReclaimSent(i)' <=> ReclaimSent(i)) /\ (ReclaimSent(j)' <=> ReclaimSent(j))
           /\ settled' = settled
           /\ InitiatorSpends(j)' /\ GoneOnceRevealed(j)' /\ NothingLost(i, j)'
  <1>1. \A t : (Sent(t)' <=> Sent(t)) /\ (Ordered(t)' <=> Ordered(t))
    BY DEF Still, Sent, Ordered
  <1>2. (Revealed' <=> Revealed) /\ \A id : (ReclaimSent(id)' <=> ReclaimSent(id))
    BY <1>1 DEF Revealed, ReclaimSent
  <1>3. settled' = settled /\ unspent' = unspent
    BY DEF Still
  <1> QED
    BY <1>1, <1>2, <1>3 DEF ExchangeInv, InitiatorSpends, GoneOnceRevealed, NothingLost

\* Time passes.
LEMMA IdleKeeps ==
    ASSUME NEW i, NEW j, TypesInv, Exchange(i, j), ExchangeInv(i, j), IdleStep
    PROVE  ExchangeInv(i, j)'
  <1>1. Still /\ clock <= clock' /\ clock' \in Nat /\ clock \in Nat
    BY SwapAssumption DEF IdleStep, Tick, TypesInv
  <1>2. UNCHANGED <<deadline, preImages, assembled>> /\ ScansNoMore
    BY DEF IdleStep
  <1>3. \A t : (Started(t)' <=> Started(t))
    BY <1>1, <1>2, StillKeeps DEF Started
  <1>4. DeadlineOf(i)' = DeadlineOf(i) /\ DeadlineOf(j)' = DeadlineOf(j)
    BY <1>2 DEF DeadlineOf
  <1>5. DeadlineOf(i) \in Nat /\ DeadlineOf(j) \in Nat /\ ReclamationDeadline \in Nat
    BY Terms, SwapAssumption DEF TypesInv, DeadlineOf
  <1>6. ClaimsListed'
    BY <1>3 DEF ExchangeInv, ClaimsListed
  <1>7. Secret'
    BY <1>1, <1>2, <1>3, StillKeeps DEF ExchangeInv, Secret, ScansNoMore
  <1>8. DeadlinesInOrder(i, j)'
    BY <1>1, <1>3, <1>4, <1>5 DEF ExchangeInv, DeadlinesInOrder
  <1>9. ReclaimsAreLate(i)' /\ ReclaimsAreLate(j)'
    BY <1>1, <1>4, <1>5, StillKeeps DEF ExchangeInv, ReclaimsAreLate
  <1> QED
    BY <1>1, <1>6, <1>7, <1>8, <1>9, StillKeeps DEF ExchangeInv

\* A scan finds the preimage of the exchange only where a claim revealed it.
LEMMA LearnKeeps ==
    ASSUME NEW i, NEW j, SwapInv, TypesInv, Exchange(i, j), ExchangeInv(i, j),
           NEW n \in SwapNodes, NEW k \in Networks, NEW h, LearnStep(n, k, h)
    PROVE  ExchangeInv(i, j)'
  <1>1. Still /\ UNCHANGED <<clock, deadline, assembled>>
    BY DEF LearnStep
  <1>2. h \in OnLedger(k) /\ preImages' = [preImages EXCEPT ![n] = @ \cup {h}]
    BY DEF LearnStep, ScanForPreImage
  <1>3. \A t : (Started(t)' <=> Started(t))
    BY <1>1, StillKeeps DEF Started
  <1>4. h = Hash1 => Revealed
    <2> SUFFICES ASSUME h = Hash1 PROVE Revealed
      OBVIOUS
    <2>1. PICK t \in TxIds : Ordered(t) /\ h \in ClaimedBy(t)
      BY <1>2, FoundOnLedger DEF SwapInv
    <2>2. CASE By[t] = Initiator
      BY <2>1, <2>2 DEF Revealed
    <2>3. CASE By[t] # Initiator
      BY <2>1, <2>3 DEF ExchangeInv, Secret, Started, Sent
    <2> QED
      BY <2>2, <2>3
  <1>5. Secret'
    <2>1. preImages'[Responder] \subseteq preImages[Responder] \cup {h}
      BY <1>2, SwapAssumption DEF TypesInv, SwapNodes
    <2> QED
      BY <1>1, <1>3, <1>4, <2>1, StillKeeps DEF ExchangeInv, Secret, LearnStep
  <1>6. ClaimsListed'
    BY <1>3 DEF ExchangeInv, ClaimsListed
  <1>7. DeadlinesInOrder(i, j)' /\ ReclaimsAreLate(i)' /\ ReclaimsAreLate(j)'
    BY <1>1, <1>3, StillKeeps DEF ExchangeInv, DeadlinesInOrder, ReclaimsAreLate, DeadlineOf
  <1> QED
    BY <1>1, <1>5, <1>6, <1>7, StillKeeps DEF ExchangeInv

-----------------------------------------------------------------------------
\* Assembly.
LEMMA AssembleStarts ==
    ASSUME NEW n, NEW t, Assemble(n, t), Still
    PROVE  ~Started(t) /\ By[t] = n /\ \A u : (Started(u)' <=> Started(u) \/ u = t)
  BY DEF Assemble, Still, Started, Sent, Ordered

\* A reclaim that is assembled decides nothing yet.
LEMMA ReclaimKeeps ==
    ASSUME NEW i, NEW j, TypesInv, Exchange(i, j), ExchangeInv(i, j),
           NEW n \in SwapNodes, NEW t \in TxIds, ReclaimStep(n, t)
    PROVE  ExchangeInv(i, j)'
  <1>1. Still /\ ScansNoMore /\ UNCHANGED <<clock, deadline, preImages>>
    BY DEF ReclaimStep
  <1>2. \A u : (Started(u)' <=> Started(u) \/ u = t)
    BY AssembleStarts DEF ReclaimStep
  <1>3. ~IsClaim(t) /\ t # Lock1 /\ t # Lock2
    BY Terms, LocksAssumption DEF ReclaimStep, IsReclaim
  <1>4. ClaimsListed' /\ Secret'
    BY <1>1, <1>2, <1>3, StillKeeps DEF ExchangeInv, ClaimsListed, Secret, ScansNoMore, IsClaim
  <1>5. DeadlinesInOrder(i, j)' /\ ReclaimsAreLate(i)' /\ ReclaimsAreLate(j)'
    BY <1>1, <1>2, <1>3, StillKeeps DEF ExchangeInv, DeadlinesInOrder, ReclaimsAreLate, DeadlineOf
  <1> QED
    BY <1>1, <1>4, <1>5, StillKeeps DEF ExchangeInv

\* A claim is made of what the wallet of its recipient lists.
LEMMA ClaimKeeps ==
    ASSUME NEW i, NEW j, SwapInv, TypesInv, Exchange(i, j), ExchangeInv(i, j),
           NEW n \in SwapNodes, NEW t \in TxIds, NEW h, ClaimStep(n, t, h)
    PROVE  ExchangeInv(i, j)'
  <1>1. Still /\ ScansNoMore /\ UNCHANGED <<clock, deadline, preImages>>
    BY DEF ClaimStep
  <1>2. By[t] = n /\ \A u : (Started(u)' <=> Started(u) \/ u = t)
    BY AssembleStarts DEF ClaimStep, Claim
  <1>3. ClaimedBy(t) = {h} /\ ListByPreImage(n, NetworkOf[t], h) = ConsumedIds(t)
    BY DEF ClaimStep, Claim
  <1>4. h \in Hashes
    BY <1>3 DEF ClaimedBy, Claims
  <1>5. IsClaim(t) /\ t # Lock1 /\ t # Lock2
    BY <1>3, Terms, LocksAssumption DEF IsClaim
  <1>6. \A id \in ConsumedIds(t) :
           /\ id \in ScriptTokens /\ NetworkOf[id[1]] = NetworkOf[t]
           /\ HashOf(id) = h /\ n \in NodesOf[RecipientOf(id)]
    <2>1. n \in Nodes
      BY SwapAssumption
    <2> DEFINE k == NetworkOf[t]
    <2>2. ConsumedIds(t) = ListByPreImage(n, k, h)
      BY <1>3
    <2> HIDE DEF k
    <2>3. \A id \in ConsumedIds(t) :
             id \in ScriptTokens /\ NetworkOf[id[1]] = k /\ HashOf(id) = h /\ n \in NodesOf[RecipientOf(id)]
      BY <2>1, <2>2, ListedForRecipient DEF SwapInv
    <2> QED
      BY <2>3 DEF k
  <1>7. ClaimsListed'
    BY <1>2, <1>3, <1>4, <1>6 DEF ExchangeInv, ClaimsListed
  <1>8. Hash1 \in ClaimedBy(t) /\ By[t] # Initiator => Revealed
    BY <1>2, <1>3 DEF ClaimStep, ExchangeInv, Secret
  <1>9. Secret'
    BY <1>1, <1>2, <1>8, StillKeeps DEF ExchangeInv, Secret, ScansNoMore
  <1>10. DeadlinesInOrder(i, j)' /\ ReclaimsAreLate(i)' /\ ReclaimsAreLate(j)'
    BY <1>1, <1>2, <1>5, StillKeeps DEF ExchangeInv, DeadlinesInOrder, ReclaimsAreLate, DeadlineOf
  <1> QED
    BY <1>1, <1>7, <1>9, <1>10, StillKeeps DEF ExchangeInv

\* A lock of the exchange sets its own deadline and no other.
LEMMA LockSets ==
    ASSUME NEW i, NEW j, TypesInv, Exchange(i, j), NEW n, NEW t \in TxIds, LockStep(n, t)
    PROVE  /\ DeadlineOf(i)' = IF t = Lock1 THEN clock + ReclamationDeadline ELSE DeadlineOf(i)
           /\ DeadlineOf(j)' = IF t = Lock2 THEN clock + ReclamationDeadline ELSE DeadlineOf(j)
  <1>1. PICK id \in ByScript(t) : recipientAsScript(n, ScriptAt(id), t # Lock2)
    BY DEF LockStep
  <1>2. id \in ScriptTokens /\ id[1] = t
    BY CreatedBy DEF ByScript
  <1> DEFINE s == ScriptAt(id)
  <1>3. deadline' = [deadline EXCEPT ![s] = clock + ReclamationDeadline]
    BY <1>1 DEF recipientAsScript
  <1>4. /\ s = ScriptAt(i) <=> t = Lock1
        /\ s = ScriptAt(j) <=> t = Lock2
    BY <1>2, Terms DEF Exchange
  <1>5. /\ ScriptAt(i) \in Scripts /\ ScriptAt(j) \in Scripts
        /\ deadline \in [Scripts -> 0 .. MaxClock + ReclamationDeadline]
    BY Terms DEF TypesInv
  <1> HIDE DEF s
  <1> QED
    BY <1>3, <1>4, <1>5 DEF DeadlineOf

\* The second deadline is set after the first, and only the first lock samples the hash.
LEMMA LockKeeps ==
    ASSUME NEW i, NEW j, SwapInv, TypesInv, Exchange(i, j), ExchangeInv(i, j),
           NEW n \in SwapNodes, NEW t \in TxIds, LockStep(n, t)
    PROVE  ExchangeInv(i, j)'
  <1>1. Still /\ ScansNoMore /\ UNCHANGED clock
    BY DEF LockStep
  <1>2. ~Started(t) /\ \A u : (Started(u)' <=> Started(u) \/ u = t)
    BY AssembleStarts DEF LockStep
  <1>3. ~IsClaim(t)
    BY LocksAssumption DEF LockStep
  <1>4. PICK id \in ByScript(t) : recipientAsScript(n, ScriptAt(id), t # Lock2)
    BY DEF LockStep
  <1>5. id \in ScriptTokens /\ id[1] = t
    BY CreatedBy DEF ByScript
  <1>7. preImages' = IF t # Lock2 THEN [preImages EXCEPT ![n] = @ \cup {HashOf(id)}] ELSE preImages
    BY <1>4 DEF recipientAsScript, HashOf
  <1>8. \A u \in settled : Started(u)
    BY DEF SwapInv, VaultInv, NetworkInv, LedgerOK, Started, Sent
  <1>9. clock + ReclamationDeadline \in Nat /\ DeadlineOf(i) \in Nat /\ DeadlineOf(j) \in Nat
    BY Terms, SwapAssumption DEF TypesInv, DeadlineOf
  <1>10. Hash1 \in preImages'[Responder] => Hash1 \in preImages[Responder]
    <2>1. HashOf(id) = Hash1 => t \in {Lock1, Lock2}
      BY <1>5, Terms DEF Exchange
    <2>2. t = Lock1 => n # Responder
      BY Terms DEF LockStep
    <2>3. preImages \in [Nodes -> SUBSET Hashes] /\ Responder \in Nodes
      BY SwapAssumption DEF TypesInv, SwapNodes
    <2> QED
      BY <1>7, <2>1, <2>2, <2>3
  <1>11. ClaimsListed' /\ Secret'
    BY <1>1, <1>2, <1>3, <1>10, StillKeeps DEF ExchangeInv, ClaimsListed, Secret, ScansNoMore, IsClaim
  <1>12. /\ DeadlineOf(i)' = IF t = Lock1 THEN clock + ReclamationDeadline ELSE DeadlineOf(i)
         /\ DeadlineOf(j)' = IF t = Lock2 THEN clock + ReclamationDeadline ELSE DeadlineOf(j)
    BY LockSets
  <1>13. Lock1 # Lock2 /\ (t = Lock2 => Started(Lock1))
    BY <1>8, Terms DEF LockStep
  <1>14. DeadlinesInOrder(i, j)'
    BY <1>1, <1>2, <1>9, <1>12, <1>13 DEF ExchangeInv, DeadlinesInOrder
  <1>15. ReclaimsAreLate(i)' /\ ReclaimsAreLate(j)'
    BY <1>1, <1>2, <1>8, <1>12, StillKeeps DEF ExchangeInv, ReclaimsAreLate, Exchange
  <1> QED
    BY <1>1, <1>11, <1>14, <1>15, StillKeeps DEF ExchangeInv

-----------------------------------------------------------------------------
\* What the endorsers look at.
Endorsed(t) == \A k \in DOMAIN Request[t].transfers : ValidTransfer(t, Request[t].transfers[k])

\* Inputs are those of transfers.
LEMMA InputsOfTransfers ==
    ASSUME NEW t \in TxIds
    PROVE  \A id : id \in ConsumedIds(t)
              <=> \E k \in DOMAIN Request[t].transfers : id \in Range(Request[t].transfers[k].inputs)
  <1> DEFINE iss == Request[t].issues
             trs == Request[t].transfers
  <1>1. iss \in Seq(IssueAction) /\ trs \in Seq(TransferAction)
    BY RequestAssumption DEF RequestType
  <1>2. Actions(t) = iss \o trs
    BY DEF Actions
  <1>3. \A a \in IssueAction : Range(a.inputs) = {}
    BY DEF IssueAction, Range
  <1>4. \A id : id \in ConsumedIds(t)
              <=> \E k \in DOMAIN (iss \o trs) : id \in Range((iss \o trs)[k].inputs)
    BY <1>2 DEF ConsumedIds, Consumed, InputsOf
  <1> HIDE DEF iss, trs
  <1>5. \A k \in DOMAIN (iss \o trs) :
           \/ (iss \o trs)[k] \in IssueAction
           \/ k - Len(iss) \in DOMAIN trs /\ (iss \o trs)[k] = trs[k - Len(iss)]
    BY <1>1
  <1>6. \A k \in DOMAIN trs :
           k + Len(iss) \in DOMAIN (iss \o trs) /\ (iss \o trs)[k + Len(iss)] = trs[k]
    BY <1>1
  <1>7. \A id : id \in ConsumedIds(t) <=> \E k \in DOMAIN trs : id \in Range(trs[k].inputs)
    BY <1>3, <1>4, <1>5, <1>6
  <1> QED
    BY <1>7 DEF trs

\* Whether a claim or a reclaim counts is asked for every script.
LEMMA ScriptsAreVerified ==
    ASSUME NEW t \in TxIds, Endorsed(t), NEW id \in ConsumedIds(t), id \in ScriptTokens
    PROVE  Verify(ScriptAt(id), t)
  <1>1. PICK k \in DOMAIN Request[t].transfers : id \in Range(Request[t].transfers[k].inputs)
    BY InputsOfTransfers
  <1> DEFINE a == Request[t].transfers[k]
  <1>2. PICK x \in DOMAIN a.inputs : a.inputs[x] = id
    BY <1>1 DEF Range
  <1> DEFINE ins == [y \in DOMAIN a.inputs |-> TokenOf(a.inputs[y])]
  <1>3. ins[x] = TokenOf(id) /\ x \in DOMAIN ins
    BY <1>2
  <1>4. x \in OwnedByScript(ins)
    BY <1>3 DEF OwnedByScript, ScriptTokens
  <1>5. \A y \in OwnedByScript(ins) : Verify(ins[y].owner, t)
    BY DEF Endorsed, ValidTransfer
  <1> QED
    BY <1>3, <1>4, <1>5 DEF ScriptAt

\* A preimage is accepted only with a token it unlocks.
LEMMA ClaimsSpend ==
    ASSUME NEW t \in TxIds, Endorsed(t), NEW h \in ClaimedBy(t)
    PROVE  ConsumedIds(t) # {}
  <1>1. PICK a \in Range(Request[t].transfers) : ClaimKey(h) \in a.metadata
    BY DEF ClaimedBy, Claims
  <1>2. PICK k \in DOMAIN Request[t].transfers : a = Request[t].transfers[k]
    BY DEF Range
  <1> DEFINE ins == [y \in DOMAIN a.inputs |-> TokenOf(a.inputs[y])]
  <1>3. PICK op : a.metadata = LocksAndClaims(ins, a, op)
    BY <1>2 DEF Endorsed, ValidTransfer, MetadataIsAccountedFor
  <1>4. HashesOf(ins) # {}
    BY <1>1, <1>3 DEF LocksAndClaims, LockKey, ClaimKey
  <1>5. PICK y : y \in DOMAIN a.inputs
    BY <1>4 DEF HashesOf, OwnedByScript
  <1>6. a.inputs[y] \in Range(a.inputs)
    BY <1>5 DEF Range
  <1>7. a.inputs[y] \in ConsumedIds(t)
    BY <1>2, <1>6, InputsOfTransfers
  <1> QED
    BY <1>7

\* Endorsement: the state is asked whether the tokens are there, the clock whether
\* a claim or a reclaim counts.
LEMMA EndorsementKeeps ==
    ASSUME NEW i, NEW j, SwapInv, TypesInv, Exchange(i, j), ExchangeInv(i, j),
           NEW t \in TxIds, CollectEndorsements(t)
    PROVE  ExchangeInv(i, j)'
  <1>1. /\ UNCHANGED <<unspent, settled, chain, clock, deadline, preImages>>
        /\ t \in assembled /\ assembled' = assembled \ {t} /\ submitted' = submitted \cup {t}
        /\ responder' = "claim" => responder = "claim"
    BY DEF CollectEndorsements, ledgerVars
  <1>2. Endorsed(t) /\ ConsumedIds(t) \subseteq unspent
    BY DEF CollectEndorsements, Endorsed, Approves, HasState
  <1>3. /\ \A u : Ordered(u)' <=> Ordered(u)
        /\ \A u : Sent(u)' <=> Sent(u) \/ u = t
        /\ \A u : Started(u)' <=> Started(u)
        /\ Started(t)
    BY <1>1 DEF Ordered, Sent, Started
  <1>4. Revealed' <=> Revealed
    BY <1>3 DEF Revealed
  <1>5. /\ \A u \in settled : Started(u)
        /\ \A id \in unspent : id[1] \in settled
    BY DEF SwapInv, VaultInv, NetworkInv, LedgerOK, Started, Sent
  <1>6. /\ DeadlineOf(i)' = DeadlineOf(i) /\ DeadlineOf(j)' = DeadlineOf(j)
        /\ DeadlineOf(i) \in Nat /\ DeadlineOf(j) \in Nat /\ clock \in Nat
    BY <1>1, Terms, SwapAssumption DEF TypesInv, DeadlineOf
  <1>7. i \in ScriptTokens /\ j \in ScriptTokens /\ j[1] = Lock2
    BY DEF Exchange
  <1>8. \A id \in ConsumedIds(t) : id \in ScriptTokens =>
           IF clock < DeadlineOf(id) THEN IsClaim(t) ELSE ~IsClaim(t)
    BY <1>2, ScriptsAreVerified DEF Verify, DeadlineOf
  <1>9. ClaimsListed' /\ Secret' /\ DeadlinesInOrder(i, j)'
    BY <1>1, <1>3, <1>4, <1>6 DEF ExchangeInv, ClaimsListed, Secret, DeadlinesInOrder
  <1>10. InitiatorSpends(j)'
    <2> SUFFICES ASSUME Hash1 \in ClaimedBy(t), By[t] = Initiator
                 PROVE  Lock2 \in settled /\ ConsumedIds(t) = {j}
      BY <1>1, <1>3 DEF ExchangeInv, InitiatorSpends
    <2>1. \A id \in ConsumedIds(t) :
             id \in ScriptTokens /\ HashOf(id) = Hash1 /\ Initiator \in NodesOf[RecipientOf(id)]
      BY <1>3 DEF ExchangeInv, ClaimsListed, IsClaim
    <2>2. ConsumedIds(t) \subseteq {j}
      BY <2>1, Terms
    <2>3. ConsumedIds(t) # {}
      BY <1>2, ClaimsSpend
    <2> QED
      BY <1>2, <1>5, <1>7, <2>2, <2>3
  <1>11. GoneOnceRevealed(j)'
    BY <1>1, <1>4 DEF ExchangeInv, GoneOnceRevealed
  <1>12. \A id : ReclaimSent(id)' <=> ReclaimSent(id) \/ (IsReclaim(t) /\ id \in ConsumedIds(t))
    BY <1>3 DEF ReclaimSent
  <1>13. ReclaimsAreLate(i)' /\ ReclaimsAreLate(j)'
    <2>1. \A id \in {i, j} :
             IsReclaim(t) /\ id \in ConsumedIds(t) => id[1] \in settled /\ DeadlineOf(id) <= clock
      BY <1>2, <1>5, <1>6, <1>7, <1>8 DEF IsReclaim
    <2> QED
      BY <1>1, <1>6, <1>12, <2>1 DEF ExchangeInv, ReclaimsAreLate
  <1>14. NothingLost(i, j)'
    <2> SUFFICES ASSUME NEW u \in TxIds, Sent(u)', IsClaim(u), i \in ConsumedIds(u)
                 PROVE  Revealed /\ ~ReclaimSent(j)'
      BY <1>4 DEF NothingLost
    <2>1. CASE u = t
      <3>1. By[t] \in NodesOf[RecipientOf(i)] /\ ClaimedBy(t) = {HashOf(i)}
        BY <1>3, <2>1 DEF ExchangeInv, ClaimsListed
      <3>2. Hash1 \in ClaimedBy(t) /\ By[t] # Initiator
        BY <3>1, Terms
      <3>3. Revealed
        BY <1>3, <3>2 DEF ExchangeInv, Secret
      <3>4. clock < DeadlineOf(i)
        BY <1>7, <1>8, <2>1
      <3>5. DeadlineOf(i) <= DeadlineOf(j)
        BY <1>5, <3>3 DEF ExchangeInv, GoneOnceRevealed, DeadlinesInOrder
      <3>6. ~ReclaimSent(j)
        BY <1>6, <3>4, <3>5 DEF ExchangeInv, ReclaimsAreLate
      <3> QED
        BY <1>12, <2>1, <3>3, <3>6 DEF IsReclaim
    <2>2. CASE u # t
      BY <1>2, <1>3, <1>12, <2>2 DEF ExchangeInv, NothingLost, GoneOnceRevealed
    <2> QED
      BY <2>1, <2>2
  <1> QED
    BY <1>9, <1>10, <1>11, <1>13, <1>14 DEF ExchangeInv

\* Order: the claim of the initiator takes j, unless another transaction did.
LEMMA OrderKeeps ==
    ASSUME NEW i, NEW j, SwapInv, Exchange(i, j), ExchangeInv(i, j),
           NEW t \in TxIds, OrderTransaction(t)
    PROVE  ExchangeInv(i, j)'
  <1>1. /\ ~Ordered(t)
        /\ \A u \in TxIds : Ordered(u)' <=> Ordered(u) \/ u = t
        /\ \A id \in unspent' : id \in unspent \/ id[1] = t
        /\ \A id \in unspent : id \in unspent' <=> ~(id \in ConsumedIds(t) /\ t \in settled')
        /\ settled' = IF ConsumedIds(t) \subseteq unspent THEN settled \cup {t} ELSE settled
    BY OrderEffect DEF SwapInv, VaultInv, OrderTransaction
  <1>2. /\ t \in submitted /\ submitted' = submitted \ {t}
        /\ UNCHANGED <<clock, deadline, responder, assembled, preImages>>
    BY DEF OrderTransaction, Order
  <1>3. /\ \A u \in TxIds : Sent(u)' <=> Sent(u)
        /\ \A u \in TxIds : Started(u)' <=> Started(u)
        /\ Sent(t)
    BY <1>1, <1>2 DEF Sent, Started
  <1>4. Revealed' <=> Revealed \/ (Hash1 \in ClaimedBy(t) /\ By[t] = Initiator)
    BY <1>1 DEF Revealed
  <1>5. \A id : ReclaimSent(id)' <=> ReclaimSent(id)
    BY <1>3 DEF ReclaimSent
  <1>6. Lock1 \in TxIds /\ Lock2 \in TxIds /\ settled \subseteq settled' /\ j[1] = Lock2
    BY <1>1, SwapAssumption DEF Exchange
  <1>7. ClaimsListed' /\ Secret'
    BY <1>2, <1>3, <1>4 DEF ExchangeInv, ClaimsListed, Secret
  <1>8. DeadlinesInOrder(i, j)' /\ ReclaimsAreLate(i)' /\ ReclaimsAreLate(j)'
    BY <1>2, <1>3, <1>5, <1>6 DEF ExchangeInv, DeadlinesInOrder, ReclaimsAreLate, DeadlineOf
  <1>9. InitiatorSpends(j)'
    BY <1>3, <1>6 DEF ExchangeInv, InitiatorSpends
  <1>10. GoneOnceRevealed(j)'
    <2> SUFFICES ASSUME Revealed' PROVE Lock2 \in settled' /\ j \notin unspent'
      BY DEF GoneOnceRevealed
    <2>1. Lock2 \in settled /\ (j \notin unspent \/ ConsumedIds(t) = {j})
      BY <1>3, <1>4 DEF ExchangeInv, GoneOnceRevealed, InitiatorSpends
    <2>2. Lock2 # t
      BY <1>1, <2>1 DEF SwapInv, VaultInv, NetworkInv, LedgerOK
    <2>3. j \in unspent' => j \in unspent /\ ConsumedIds(t) = {j}
      BY <1>1, <1>6, <2>1, <2>2
    <2>4. j \in unspent /\ ConsumedIds(t) = {j} => j \notin unspent'
      BY <1>1
    <2> QED
      BY <1>6, <2>1, <2>3, <2>4
  <1>11. NothingLost(i, j)'
    BY <1>3, <1>4, <1>5 DEF ExchangeInv, NothingLost
  <1> QED
    BY <1>7, <1>8, <1>9, <1>10, <1>11 DEF ExchangeInv

-----------------------------------------------------------------------------
\* The invariant, for every exchange that the requests of the run contain.
ExchangesOK == \A i, j \in ScriptTokens : Exchange(i, j) => ExchangeInv(i, j)

\* Nothing is under way at the start but issues.
LEMMA InitStarted ==
    ASSUME Init, NEW t \in TxIds, Started(t)
    PROVE  ~IsLock(t) /\ ~IsClaim(t) /\ ConsumedIds(t) = {}
  <1>1. assembled = {} /\ submitted = {} /\ chain = Genesis
    BY DEF Init, VaultInit
  <1>2. t \in InGenesis
    BY <1>1, VaultAssumption DEF Started, Sent, Ordered, InGenesis
  <1>3. InputsOf(t) = {}
    BY <1>2, VaultAssumption DEF InGenesis
  <1> QED
    BY <1>2, <1>3, LocksAssumption DEF ConsumedIds, Consumed

\* No exchange has begun.
LEMMA InitExchange == Init => ExchangesOK
  <1> SUFFICES ASSUME Init, NEW i \in ScriptTokens, NEW j \in ScriptTokens, Exchange(i, j)
               PROVE  ExchangeInv(i, j)
    BY DEF ExchangesOK
  <1>1. assembled = {} /\ submitted = {} /\ chain = Genesis /\ responder = "accept"
        /\ preImages = [n \in Nodes |-> {}]
    BY DEF Init, VaultInit
  <1>3. \A t \in TxIds : Started(t) => ~IsLock(t) /\ ~IsClaim(t) /\ ConsumedIds(t) = {}
    BY InitStarted
  <1>4. \A t \in TxIds : ~(Started(t) /\ Hash1 \in ClaimedBy(t))
    BY <1>3 DEF IsClaim
  <1>5. ~Revealed
    BY <1>4 DEF Revealed, Started, Sent
  <1>6. ~Started(Lock1) /\ ~Started(Lock2)
    BY <1>3, Terms, SwapAssumption
  <1>7. ~ReclaimSent(i) /\ ~ReclaimSent(j)
    BY <1>3 DEF ReclaimSent, Started
  <1>8. Responder \in Nodes
    BY SwapAssumption DEF SwapNodes
  <1>9. Secret
    BY <1>1, <1>4, <1>8 DEF Secret
  <1> QED
    BY <1>3, <1>4, <1>5, <1>6, <1>7, <1>9 DEF ExchangeInv, ClaimsListed, DeadlinesInOrder,
       InitiatorSpends, GoneOnceRevealed, ReclaimsAreLate, NothingLost, Started

\* Every step keeps it.
LEMMA ExchangeStep ==
    ASSUME SwapInv, TypesInv, ExchangesOK, [Next]_allVars
    PROVE  ExchangesOK'
  <1> SUFFICES ASSUME NEW i \in ScriptTokens, NEW j \in ScriptTokens, Exchange(i, j)
               PROVE  ExchangeInv(i, j)'
    BY DEF ExchangesOK
  <1>1. ExchangeInv(i, j)
    BY DEF ExchangesOK
  <1> QED
    BY <1>1, ExchangeSteps, LockKeeps, ClaimKeeps, ReclaimKeeps, LearnKeeps, IdleKeeps,
       EndorsementKeeps, OrderKeeps

\* The invariant of the exchange.
LEMMA ExchangeInductive == Spec => []ExchangesOK
  <1>1. SwapInv /\ TypesInv /\ ExchangesOK /\ [Next]_allVars => ExchangesOK'
    BY ExchangeStep
  <1> QED
    BY <1>1, InitExchange, SwapInductive, TypesInductive, PTL DEF Spec

\* Nobody takes the token of the initiator and gets the own one back: whoever
\* claims the first token has the preimage from a claim of the second that came
\* before every reclaim of it (the views of FastExchange, ClaimView and
\* ReclaimAllView, and the clock of the validators).
THEOREM InitiatorIsSafe == Spec => []InitiatorNeverLoses
  <1>1. ASSUME SwapInv, ExchangesOK PROVE InitiatorNeverLoses
    <2> SUFFICES ASSUME NEW i \in ScriptTokens, NEW j \in ScriptTokens,
                        i[1] = Lock1, j[1] = Lock2, Claimed(i), Reclaimed(j)
                 PROVE  FALSE
      BY DEF InitiatorNeverLoses
    <2>1. ExchangeInv(i, j)
      BY <1>1 DEF ExchangesOK, Exchange
    <2>2. \A t \in settled : Sent(t)
      BY <1>1 DEF SwapInv, VaultInv, NetworkInv, LedgerOK, Sent
    <2>3. ReclaimSent(j)
      BY <2>2 DEF Reclaimed, SpentBy, ReclaimSent
    <2>4. PICK t \in TxIds : Sent(t) /\ IsClaim(t) /\ i \in ConsumedIds(t)
      BY <2>2 DEF Claimed, SpentBy
    <2> QED
      BY <2>1, <2>3, <2>4 DEF ExchangeInv, NothingLost
  <1> QED
    BY <1>1, SwapInductive, ExchangeInductive, PTL

-----------------------------------------------------------------------------
\* The responder, who is prompt and has a claim to make.
Prompt == PromptResponder /\ \E t \in TxIds : By[t] = Responder /\ ClaimedBy(t) = {Hash1}

\* Nothing but a claim or a reclaim spends a token of a script.
OnlyClaimsAndReclaims ==
    \A t \in TxIds : Started(t) /\ ConsumedIds(t) \cap ScriptTokens # {} => IsClaim(t) \/ IsReclaim(t)

\* A token that is spent was spent by one transaction.
SpentBySettled == \A id \in spent : \E t \in settled : id \in ConsumedIds(t)
SpentOnce == \A t, u \in settled : t # u => ConsumedIds(t) \cap ConsumedIds(u) = {}

ClaimsAreDated ==
    claimedAt[Hash1] # Never <=> \E t \in TxIds : Ordered(t) /\ Hash1 \in ClaimedBy(t)

SecondLockWaits == Started(Lock2) => Processed(Responder, Lock1) /\ Lock1 \in settled

\* A claim of the responder spends i, and once it is ordered i is gone.
ResponderSpends(i) ==
    \A t \in TxIds : Sent(t) /\ Hash1 \in ClaimedBy(t) /\ By[t] = Responder => ConsumedIds(t) = {i}

GoneOnceClaimed(i) ==
    \A t \in TxIds : Ordered(t) /\ Hash1 \in ClaimedBy(t) /\ By[t] = Responder => i \notin unspent

\* A preimage that appears before the deadline of i was in a claim that took
\* effect, and leads to a claim of i before that deadline.
ClaimedInTime(i) ==
    claimedAt[Hash1] # Never /\ claimedAt[Hash1] < DeadlineOf(i) =>
        /\ \E t \in settled : Hash1 \in ClaimedBy(t) /\ NetworkOf[t] = NetworkOf[Lock2]
        /\ Claimed(i) \/ clock < DeadlineOf(i)

PromptInv(i) ==
    /\ OnlyClaimsAndReclaims
    /\ SpentBySettled /\ SpentOnce
    /\ ClaimsAreDated
    /\ SecondLockWaits
    /\ ResponderSpends(i)
    /\ GoneOnceClaimed(i)
    /\ ClaimedInTime(i)

\* A preimage on a ledger is one the initiator put there.
LEMMA DatedIsRevealed ==
    ASSUME NEW i, NEW j, ExchangeInv(i, j), ClaimsAreDated, claimedAt[Hash1] # Never
    PROVE  Revealed /\ Lock2 \in settled
  BY DEF ClaimsAreDated, ExchangeInv, Secret, Revealed, Started, Sent, GoneOnceRevealed

\* As long as it is too early for reclaims, a token of the exchange that was created
\* and not claimed is unspent.
LEMMA UnspentTillClaimed ==
    ASSUME NEW i, NEW j, SwapInv, TypesInv, Exchange(i, j), ExchangeInv(i, j),
           OnlyClaimsAndReclaims, SpentBySettled,
           NEW id \in {i, j}, id[1] \in settled, clock < DeadlineOf(id)
    PROVE  id \in unspent \/ Claimed(id)
  <1>1. id \in ScriptTokens
    BY DEF Exchange
  <1>2. id \in CreatedIds(id[1])
    BY <1>1, CreatedBy DEF ScriptTokens
  <1>3. id \in unspent \cup spent /\ settled \subseteq TxIds /\ \A t \in settled : Sent(t)
    BY <1>2 DEF SwapInv, VaultInv, NetworkInv, LedgerOK, Sent
  <1>4. DeadlineOf(id) \in Nat /\ clock \in Nat
    BY Terms, SwapAssumption DEF TypesInv, DeadlineOf
  <1>5. ASSUME NEW t \in settled, id \in ConsumedIds(t) PROVE IsClaim(t)
    <2>1. Sent(t) /\ t \in TxIds
      BY <1>3
    <2>2. IsReclaim(t) => ReclaimSent(id)
      BY <1>5, <2>1 DEF ReclaimSent
    <2>3. ~ReclaimSent(id)
      BY <1>4 DEF ExchangeInv, ReclaimsAreLate
    <2> QED
      BY <1>1, <1>5, <2>1, <2>2, <2>3 DEF OnlyClaimsAndReclaims, Started
  <1>6. CASE id \in spent
    BY <1>3, <1>5, <1>6 DEF SpentBySettled, Claimed, SpentBy
  <1> QED
    BY <1>3, <1>6

\* Time does not pass the deadline of i over a preimage that can be claimed with.
LEMMA TimeWaits ==
    ASSUME NEW i, NEW j, Prompt, SwapInv, TypesInv, Exchange(i, j), ExchangeInv(i, j), PromptInv(i),
           claimedAt[Hash1] # Never, claimedAt[Hash1] < DeadlineOf(i), ~Claimed(i)
    PROVE  ~Tick
  <1>1. clock < DeadlineOf(i)
    BY DEF PromptInv, ClaimedInTime
  <1>2. Revealed /\ Lock2 \in settled
    BY DatedIsRevealed DEF PromptInv
  <1>3. \A t \in settled : t \in TxIds /\ Ordered(t)
    BY DEF SwapInv, VaultInv, NetworkInv, LedgerOK
  <1>4. Processed(Responder, Lock1) /\ Lock1 \in settled
    BY <1>2, <1>3 DEF PromptInv, SecondLockWaits, Started, Sent
  <1>5. i \in unspent
    BY <1>1, <1>4, UnspentTillClaimed DEF PromptInv, Exchange
  <1>6. \A id \in ByScript(Lock1) : id = i
    BY Terms, CreatedBy, SwapAssumption DEF ByScript
  <1>7. Hash1 \in OnLedger(NetworkOf[Lock2])
    <2>1. PICK t \in settled : Hash1 \in ClaimedBy(t) /\ NetworkOf[t] = NetworkOf[Lock2]
      BY DEF PromptInv, ClaimedInTime
    <2>2. t \in Range(chain[NetworkOf[Lock2]])
      BY <1>3, <2>1 DEF Ordered
    <2> QED
      BY <2>1, <2>2 DEF OnLedger, LookupKey, LookupTransferMetadataKey
  <1>8. PICK t \in TxIds : By[t] = Responder /\ ClaimedBy(t) = {Hash1}
    BY DEF Prompt
  <1>9. ~Ordered(t)
    BY <1>5, <1>8 DEF PromptInv, GoneOnceClaimed
  <1>10. Status(Responder, Lock1) = "Valid"
    BY <1>4, ValidIsSettled
  <1>11. ByScript(Lock1) \subseteq unspent /\ \A id \in ByScript(Lock1) : clock < deadline[ScriptAt(id)]
    BY <1>1, <1>5, <1>6 DEF DeadlineOf
  <1>12. Urgent
    BY <1>7, <1>8, <1>9, <1>10, <1>11 DEF Urgent
  <1> QED
    BY <1>12 DEF Tick, Prompt

\* The steps that order nothing and endorse nothing.
LEMMA StillIsPrompt ==
    ASSUME NEW i, PromptInv(i), Still,
           \A t : Started(t)' => Started(t) \/ ConsumedIds(t) \cap ScriptTokens = {}
                                           \/ IsClaim(t) \/ IsReclaim(t),
           Started(Lock2)' => Started(Lock2) \/ (Processed(Responder, Lock1) /\ Lock1 \in settled),
           ClaimedInTime(i)'
    PROVE  PromptInv(i)'
  <1>1. /\ UNCHANGED <<unspent, spent, settled, claimedAt>>
        /\ \A t : (Sent(t)' <=> Sent(t)) /\ (Ordered(t)' <=> Ordered(t))
    BY DEF Still, Sent, Ordered
  <1>2. Processed(Responder, Lock1) => Processed(Responder, Lock1)'
    BY SwapAssumption DEF Still, SwapNodes
  <1>3. OnlyClaimsAndReclaims'
    BY DEF PromptInv, OnlyClaimsAndReclaims
  <1>4. SpentBySettled' /\ SpentOnce' /\ GoneOnceClaimed(i)' /\ ResponderSpends(i)'
    BY <1>1 DEF PromptInv, SpentBySettled, SpentOnce, GoneOnceClaimed, ResponderSpends
  <1>5. ClaimsAreDated'
    BY <1>1 DEF PromptInv, ClaimsAreDated
  <1>6. SecondLockWaits'
    BY <1>1, <1>2 DEF PromptInv, SecondLockWaits
  <1> QED
    BY <1>3, <1>4, <1>5, <1>6 DEF PromptInv

\* Locks come before every preimage.
LEMMA LockIsPrompt ==
    ASSUME NEW i, NEW j, SwapInv, TypesInv, Exchange(i, j), ExchangeInv(i, j), PromptInv(i),
           NEW n, NEW t \in TxIds, LockStep(n, t)
    PROVE  PromptInv(i)'
  <1>1. Still /\ UNCHANGED clock
    BY DEF LockStep
  <1>2. ~Started(t) /\ \A u : (Started(u)' <=> Started(u) \/ u = t)
    BY AssembleStarts DEF LockStep
  <1>3. ConsumedIds(t) \cap ScriptTokens = {}
    BY LocksAssumption DEF LockStep
  <1>4. Lock2 \in settled => Started(Lock1)
    BY DEF SwapInv, VaultInv, NetworkInv, LedgerOK, ExchangeInv, DeadlinesInOrder, Started, Sent
  <1>5. claimedAt[Hash1] # Never => t # Lock1
    BY <1>2, <1>4, DatedIsRevealed DEF PromptInv
  <1>6. ClaimedInTime(i)'
    <2>1. claimedAt' = claimedAt /\ settled' = settled
      BY <1>1 DEF Still
    <2>2. Claimed(i)' <=> Claimed(i)
      BY <2>1 DEF Claimed, SpentBy
    <2>3. t # Lock1 => DeadlineOf(i)' = DeadlineOf(i)
      BY LockSets
    <2> QED
      BY <1>1, <1>5, <2>1, <2>2, <2>3 DEF PromptInv, ClaimedInTime
  <1>7. Started(Lock2)' => Started(Lock2) \/ (Processed(Responder, Lock1) /\ Lock1 \in settled)
    BY <1>2 DEF LockStep
  <1> QED
    BY <1>1, <1>2, <1>3, <1>6, <1>7, StillIsPrompt

\* A claim or a reclaim is assembled.
LEMMA AssemblyIsPrompt ==
    ASSUME NEW i, NEW j, Exchange(i, j), PromptInv(i), NEW n, NEW t \in TxIds, NEW h,
           ReclaimStep(n, t) \/ ClaimStep(n, t, h)
    PROVE  PromptInv(i)'
  <1>1. Still /\ UNCHANGED <<clock, deadline>> /\ Assemble(n, t) /\ (IsClaim(t) \/ IsReclaim(t))
    BY DEF ReclaimStep, ClaimStep, Claim, IsClaim
  <1>2. \A u : (Started(u)' <=> Started(u) \/ u = t)
    BY <1>1, AssembleStarts
  <1>3. t # Lock2
    BY <1>1, Terms, LocksAssumption DEF IsReclaim
  <1>4. ClaimedInTime(i)'
    BY <1>1 DEF Still, PromptInv, ClaimedInTime, Claimed, SpentBy, DeadlineOf
  <1> QED
    BY <1>1, <1>2, <1>3, <1>4, StillIsPrompt

\* A preimage is learned.
LEMMA LearningIsPrompt ==
    ASSUME NEW i, PromptInv(i), NEW n, NEW k, NEW h, LearnStep(n, k, h)
    PROVE  PromptInv(i)'
  <1>1. Still /\ UNCHANGED <<clock, deadline, assembled>>
    BY DEF LearnStep
  <1>2. \A t : Started(t)' => Started(t)
    BY <1>1 DEF Still, Started, Sent, Ordered
  <1>3. ClaimedInTime(i)'
    BY <1>1 DEF Still, PromptInv, ClaimedInTime, Claimed, SpentBy, DeadlineOf
  <1> QED
    BY <1>1, <1>2, <1>3, StillIsPrompt

\* Time passes, unless it has to wait.
LEMMA IdlingIsPrompt ==
    ASSUME NEW i, NEW j, Prompt, SwapInv, TypesInv, Exchange(i, j), ExchangeInv(i, j), PromptInv(i),
           IdleStep
    PROVE  PromptInv(i)'
  <1>1. Still /\ UNCHANGED <<deadline, assembled>> /\ (clock' = clock \/ Tick)
    BY DEF IdleStep
  <1>2. \A t : Started(t)' => Started(t)
    BY <1>1 DEF Still, Started, Sent, Ordered
  <1>3. UNCHANGED <<claimedAt, settled>> /\ DeadlineOf(i)' = DeadlineOf(i) /\ (Claimed(i)' <=> Claimed(i))
    BY <1>1 DEF Still, DeadlineOf, Claimed, SpentBy
  <1>4. ClaimedInTime(i)'
    BY <1>1, <1>3, TimeWaits DEF PromptInv, ClaimedInTime
  <1> QED
    BY <1>1, <1>2, <1>4, StillIsPrompt

\* A claim of the responder that is endorsed spends i.
LEMMA EndorsementIsPrompt ==
    ASSUME NEW i, NEW j, SwapInv, TypesInv, Exchange(i, j), ExchangeInv(i, j), PromptInv(i),
           NEW t \in TxIds, CollectEndorsements(t)
    PROVE  PromptInv(i)'
  <1>1. /\ UNCHANGED <<unspent, spent, settled, chain, height, clock, deadline, claimedAt>>
        /\ t \in assembled /\ assembled' = assembled \ {t} /\ submitted' = submitted \cup {t}
    BY DEF CollectEndorsements, ledgerVars
  <1>2. Endorsed(t)
    BY DEF CollectEndorsements, Endorsed
  <1>3. /\ \A u : Ordered(u)' <=> Ordered(u)
        /\ \A u : Sent(u)' <=> Sent(u) \/ u = t
        /\ \A u : Started(u)' <=> Started(u)
        /\ Started(t)
    BY <1>1 DEF Ordered, Sent, Started
  <1>4. ResponderSpends(i)'
    <2> SUFFICES ASSUME Hash1 \in ClaimedBy(t), By[t] = Responder PROVE ConsumedIds(t) = {i}
      BY <1>3 DEF PromptInv, ResponderSpends
    <2>1. \A id \in ConsumedIds(t) :
             id \in ScriptTokens /\ HashOf(id) = Hash1 /\ Responder \in NodesOf[RecipientOf(id)]
      BY <1>3 DEF ExchangeInv, ClaimsListed, IsClaim
    <2>2. ConsumedIds(t) \subseteq {i}
      BY <2>1, Terms
    <2> QED
      BY <1>2, <2>2, ClaimsSpend
  <1>5. /\ OnlyClaimsAndReclaims' /\ SpentBySettled' /\ SpentOnce'
        /\ ClaimsAreDated' /\ GoneOnceClaimed(i)'
    BY <1>1, <1>3 DEF PromptInv, OnlyClaimsAndReclaims, SpentBySettled, SpentOnce, ClaimsAreDated,
                      GoneOnceClaimed
  <1>6. SecondLockWaits'
    BY <1>1, <1>3 DEF PromptInv, SecondLockWaits, Processed
  <1>7. ClaimedInTime(i)'
    BY <1>1 DEF PromptInv, ClaimedInTime, Claimed, SpentBy, DeadlineOf
  <1> QED
    BY <1>4, <1>5, <1>6, <1>7 DEF PromptInv

\* The first claim to be ordered is the initiator's; if it is in time, it takes effect,
\* since j cannot have been reclaimed before.
LEMMA OrderIsPrompt ==
    ASSUME NEW i, NEW j, SwapInv, TypesInv, Exchange(i, j), ExchangeInv(i, j), PromptInv(i),
           NEW t \in TxIds, OrderTransaction(t)
    PROVE  PromptInv(i)'
  <1>1. /\ ~Ordered(t)
        /\ \A u \in TxIds : Ordered(u)' <=> Ordered(u) \/ u = t
        /\ \A n \in Nodes, u \in TxIds : Processed(n, u)' <=> Processed(n, u)
        /\ \A id \in unspent' : id \in unspent \/ id[1] = t
        /\ \A id \in unspent : id \in unspent' <=> ~(id \in ConsumedIds(t) /\ t \in settled')
        /\ settled' = IF ConsumedIds(t) \subseteq unspent THEN settled \cup {t} ELSE settled
    BY OrderEffect DEF SwapInv, VaultInv, OrderTransaction
  <1>2. /\ t \in submitted /\ submitted' = submitted \ {t}
        /\ UNCHANGED <<clock, deadline, assembled>>
        /\ claimedAt' = [h \in Hashes |->
              IF h \in ClaimedBy(t) /\ claimedAt[h] = Never THEN clock ELSE claimedAt[h]]
    BY DEF OrderTransaction, Order
  <1>3. /\ \A u \in TxIds : Sent(u)' <=> Sent(u)
        /\ \A u \in TxIds : Started(u)' <=> Started(u)
        /\ Sent(t)
    BY <1>1, <1>2 DEF Sent, Started
  <1>4. /\ Lock1 \in TxIds /\ Lock2 \in TxIds /\ Responder \in Nodes
        /\ settled \subseteq settled' /\ i[1] = Lock1 /\ j[1] = Lock2
    BY <1>1, SwapAssumption DEF Exchange, SwapNodes
  <1>5. OnlyClaimsAndReclaims'
    BY <1>3 DEF PromptInv, OnlyClaimsAndReclaims
  <1>6. SpentBySettled' /\ SpentOnce'
    <2>1. SpentOnce'
      <3>1. \A u \in settled : ConsumedIds(u) \cap unspent = {}
        BY DEF SwapInv, VaultInv, NetworkInv, LedgerOK
      <3> QED
        BY <1>1, <3>1 DEF PromptInv, SpentOnce
    <2>2. CASE ConsumedIds(t) \subseteq unspent
      <3>1. spent' = spent \cup ConsumedIds(t) /\ t \in settled'
        BY <1>1, <2>2 DEF OrderTransaction, Order, Network!Settle
      <3> QED
        BY <1>4, <2>1, <3>1 DEF PromptInv, SpentBySettled
    <2>3. CASE ~(ConsumedIds(t) \subseteq unspent)
      <3>1. spent' = spent
        BY <2>3 DEF OrderTransaction, Order, ledgerVars
      <3> QED
        BY <1>4, <2>1, <3>1 DEF PromptInv, SpentBySettled
    <2> QED
      BY <2>2, <2>3
  <1>7. /\ Hash1 \in Hashes /\ clock # Never
        /\ claimedAt'[Hash1] = IF Hash1 \in ClaimedBy(t) /\ claimedAt[Hash1] = Never THEN clock
                                                                             ELSE claimedAt[Hash1]
    BY <1>2, Terms, SwapAssumption DEF TypesInv, Never
  <1>8. ClaimsAreDated'
    <2>1. (claimedAt[Hash1] # Never)' <=> claimedAt[Hash1] # Never \/ Hash1 \in ClaimedBy(t)
      BY <1>7 DEF Never
    <2> QED
      BY <1>1, <2>1 DEF PromptInv, ClaimsAreDated
  <1>9. SecondLockWaits'
    BY <1>1, <1>3, <1>4 DEF PromptInv, SecondLockWaits
  <1>10. ResponderSpends(i)'
    BY <1>3 DEF PromptInv, ResponderSpends
  <1>11. GoneOnceClaimed(i)'
    <2> SUFFICES ASSUME NEW u \in TxIds, Ordered(u)', Hash1 \in ClaimedBy(u), By[u] = Responder
                 PROVE  i \notin unspent'
      BY DEF GoneOnceClaimed
    <2>1. Sent(u) /\ ConsumedIds(u) = {i}
      BY <1>1, <1>3 DEF PromptInv, ResponderSpends, Sent
    <2>2. Revealed
      BY <2>1, Terms DEF ExchangeInv, Secret, Started
    <2>3. Lock1 \in settled
      BY <2>2 DEF PromptInv, SecondLockWaits, ExchangeInv, GoneOnceRevealed, Started, Sent,
                  SwapInv, VaultInv, NetworkInv, LedgerOK
    <2>4. t # Lock1
      BY <1>1, <2>3 DEF SwapInv, VaultInv, NetworkInv, LedgerOK
    <2>5. i \in unspent' => i \in unspent
      BY <1>1, <1>4, <2>4
    <2>6. CASE u = t
      BY <1>1, <2>1, <2>5, <2>6
    <2>7. CASE u # t
      BY <1>1, <2>5, <2>7 DEF PromptInv, GoneOnceClaimed
    <2> QED
      BY <2>6, <2>7
  <1>12. ClaimedInTime(i)'
    <2>1. DeadlineOf(i)' = DeadlineOf(i) /\ clock' = clock
      BY <1>2 DEF DeadlineOf
    <2>2. Claimed(i) => Claimed(i)'
      BY <1>4 DEF Claimed, SpentBy
    <2>3. CASE claimedAt[Hash1] # Never
      <3>1. claimedAt'[Hash1] = claimedAt[Hash1]
        BY <1>7, <2>3
      <3> QED
        BY <1>4, <2>1, <2>2, <2>3, <3>1 DEF PromptInv, ClaimedInTime
    <2>4. CASE claimedAt[Hash1] = Never /\ Hash1 \in ClaimedBy(t)
      <3> SUFFICES ASSUME clock < DeadlineOf(i)
                   PROVE  t \in settled' /\ NetworkOf[t] = NetworkOf[Lock2]
        BY <1>7, <2>1, <2>4 DEF ClaimedInTime
      <3>1. By[t] = Initiator
        BY <1>3, <2>4 DEF PromptInv, ClaimsAreDated, ExchangeInv, Secret, Revealed, Started
      <3>2. Lock2 \in settled /\ ConsumedIds(t) = {j}
        BY <1>3, <2>4, <3>1 DEF ExchangeInv, InitiatorSpends
      <3>3. NetworkOf[Lock2] = NetworkOf[t]
        BY <1>3, <1>4, <2>4, <3>2 DEF ExchangeInv, ClaimsListed, Started, IsClaim
      <3>4. DeadlineOf(i) <= DeadlineOf(j)
        BY <3>2 DEF ExchangeInv, DeadlinesInOrder, Started, Sent, SwapInv, VaultInv, NetworkInv, LedgerOK
      <3>5. clock < DeadlineOf(j)
        BY <3>4, Terms, SwapAssumption DEF TypesInv, DeadlineOf
      <3>6. ~Claimed(j)
        <4> SUFFICES ASSUME NEW u \in TxIds, SpentBy(j, u), IsClaim(u) PROVE FALSE
          BY DEF Claimed
        <4>1. Ordered(u) /\ j \in ConsumedIds(u)
          BY DEF SpentBy, SwapInv, VaultInv, NetworkInv, LedgerOK
        <4>2. Hash1 \in ClaimedBy(u)
          BY <4>1, Terms DEF ExchangeInv, ClaimsListed, Started, Sent
        <4> QED
          BY <2>4, <4>1, <4>2 DEF PromptInv, ClaimsAreDated
      <3>7. j \in unspent
        BY <1>4, <3>2, <3>5, <3>6, UnspentTillClaimed DEF PromptInv
      <3> QED
        BY <1>1, <3>2, <3>3, <3>7
    <2>5. CASE claimedAt[Hash1] = Never /\ Hash1 \notin ClaimedBy(t)
      BY <1>7, <2>5 DEF ClaimedInTime, Never
    <2> QED
      BY <2>3, <2>4, <2>5
  <1> QED
    BY <1>5, <1>6, <1>8, <1>9, <1>10, <1>11, <1>12 DEF PromptInv

PromptOK == \A i, j \in ScriptTokens : Exchange(i, j) => PromptInv(i)

\* Nothing has been claimed.
LEMMA InitPrompt == Init => PromptOK
  <1> SUFFICES ASSUME Init, NEW i \in ScriptTokens, NEW j \in ScriptTokens, Exchange(i, j)
               PROVE  PromptInv(i)
    BY DEF PromptOK
  <1>1. \A t \in TxIds : Started(t) => ~IsLock(t) /\ ~IsClaim(t) /\ ConsumedIds(t) = {}
    BY InitStarted
  <1>2. spent = {} /\ claimedAt[Hash1] = Never
    BY Terms DEF Init, VaultInit
  <1>3. \A t \in TxIds : ~(Started(t) /\ Hash1 \in ClaimedBy(t))
    BY <1>1 DEF IsClaim
  <1>4. \A t \in TxIds : (Ordered(t) => Started(t)) /\ (Sent(t) => Started(t))
    BY DEF Started, Sent
  <1>5. ~Started(Lock2)
    BY <1>1, Terms, SwapAssumption
  <1>6. SpentOnce
    <2>1. \A t \in settled : t \in TxIds /\ Ordered(t)
      BY InitSwap DEF SwapInv, VaultInv, NetworkInv, LedgerOK
    <2> QED
      BY <1>1, <1>4, <2>1 DEF SpentOnce
  <1> QED
    BY <1>1, <1>2, <1>3, <1>4, <1>5, <1>6 DEF PromptInv, OnlyClaimsAndReclaims, SpentBySettled,
       ClaimsAreDated, SecondLockWaits, ResponderSpends, GoneOnceClaimed, ClaimedInTime

\* Every step keeps it, if the responder is prompt.
LEMMA PromptStep ==
    ASSUME Prompt, SwapInv, TypesInv, ExchangesOK, PromptOK, [Next]_allVars
    PROVE  PromptOK'
  <1> SUFFICES ASSUME NEW i \in ScriptTokens, NEW j \in ScriptTokens, Exchange(i, j)
               PROVE  PromptInv(i)'
    BY DEF PromptOK
  <1>1. ExchangeInv(i, j) /\ PromptInv(i)
    BY DEF ExchangesOK, PromptOK
  <1> QED
    BY <1>1, ExchangeSteps, LockIsPrompt, AssemblyIsPrompt, LearningIsPrompt, IdlingIsPrompt,
       EndorsementIsPrompt, OrderIsPrompt

\* A responder who scans and claims without delay gives its token away for nothing
\* only if the initiator's claim is ordered after the deadline of the first token:
\* before that, time waits until the responder has claimed it.
THEOREM ResponderIsAlmostSafe ==
    ASSUME Prompt
    PROVE  Spec => []ResponderLosesOnlyToALateClaim
  <1>1. SwapInv /\ TypesInv /\ ExchangesOK /\ PromptOK /\ [Next]_allVars => PromptOK'
    BY PromptStep
  <1>2. ASSUME SwapInv, TypesInv, ExchangesOK, PromptOK PROVE ResponderLosesOnlyToALateClaim
    <2> SUFFICES ASSUME NEW i \in ScriptTokens, NEW j \in ScriptTokens,
                        i[1] = Lock1, j[1] = Lock2, Reclaimed(i), Claimed(j)
                 PROVE  claimedAt[HashOf(j)] \in DeadlineOf(i) .. MaxClock
      BY DEF ResponderLosesOnlyToALateClaim, HashOf, DeadlineOf
    <2>1. Exchange(i, j)
      BY DEF Exchange
    <2>2. ExchangeInv(i, j) /\ PromptInv(i)
      BY <1>2, <2>1 DEF ExchangesOK, PromptOK
    <2>3. \A t \in settled : Ordered(t) /\ Sent(t)
      BY <1>2 DEF SwapInv, VaultInv, NetworkInv, LedgerOK, Sent
    <2>4. claimedAt[Hash1] # Never
      <3>1. PICK t \in TxIds : SpentBy(j, t) /\ IsClaim(t)
        BY DEF Claimed
      <3>2. Hash1 \in ClaimedBy(t)
        BY <2>1, <2>2, <2>3, <3>1, Terms DEF ExchangeInv, ClaimsListed, Started, SpentBy
      <3> QED
        BY <2>2, <2>3, <3>1, <3>2 DEF PromptInv, ClaimsAreDated, SpentBy
    <2>5. DeadlineOf(i) <= clock
      BY <2>2, <2>3 DEF Reclaimed, SpentBy, ReclaimSent, ExchangeInv, ReclaimsAreLate
    <2>6. ~Claimed(i)
      BY <2>2 DEF Claimed, Reclaimed, SpentBy, IsReclaim, PromptInv, SpentOnce
    <2>7. /\ claimedAt[Hash1] \in 0 .. Never /\ DeadlineOf(i) \in Nat /\ clock \in Nat
          /\ MaxClock \in Nat
      BY <1>2, <2>1, Terms, SwapAssumption DEF TypesInv, DeadlineOf
    <2>8. ~(claimedAt[Hash1] < DeadlineOf(i))
      BY <2>2, <2>4, <2>5, <2>6, <2>7 DEF PromptInv, ClaimedInTime
    <2>9. HashOf(j) = Hash1
      BY <2>1, Terms
    <2> QED
      BY <2>4, <2>7, <2>8, <2>9 DEF Never
  <1> QED
    BY <1>1, <1>2, InitPrompt, SwapInductive, TypesInductive, ExchangeInductive, PTL DEF Spec
=============================================================================
