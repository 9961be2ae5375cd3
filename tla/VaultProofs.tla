------------------------------ MODULE VaultProofs ------------------------------
(***************************************************************************)
(* What every run of a network and of the vaults that follow it relies on: a   *)
(* token is unspent or spent from the moment its transaction takes effect, a    *)
(* transaction takes effect when it is ordered, and the store of a node holds    *)
(* keys of tokens that exist (VaultInv).  Then what holds where every node         *)
(* knows in time what concerns it (Informed): the chains are a history without     *)
(* double spending (ChainInv), and a store has exactly what the transactions it   *)
(* saw leave (Exact).                                                         *)
(***************************************************************************)
EXTENDS TokenVault, SequenceTheorems, TLAPS

\* The order of the networks, and how far the nodes are.
ChainsOK ==
    /\ submitted \in SUBSET TxIds
    /\ chain \in [Networks -> Seq(TxIds)]
    /\ \A k \in Networks : \A t \in Range(chain[k]) : NetworkOf[t] = k
    /\ height \in [Nodes -> [Networks -> Nat]]
    /\ \A n \in Nodes, k \in Networks : height[n][k] <= Len(chain[k])

\* What took effect was ordered, and accounts for all tokens.
LedgerOK ==
    /\ settled \in SUBSET TxIds
    /\ \A t \in settled : Ordered(t)
    /\ \A id \in unspent \cup spent : id[1] \in settled /\ id \in CreatedIds(id[1])
    /\ unspent \cap spent = {}
    /\ \A t \in settled : CreatedIds(t) \subseteq unspent \cup spent /\ ConsumedIds(t) \subseteq spent

\* A transaction is ordered once.
OrderedOnce == \A t \in submitted : ~Ordered(t)

NetworkInv == ChainsOK /\ LedgerOK /\ OrderedOnce

\* The keys in the store of a node are those of tokens that exist, and marks of
\* deleted ones.
StoreOK ==
    /\ store = [n \in Nodes |-> store[n]]
    /\ \A n \in Nodes : \A key \in store[n] :
          \/ \E id \in unspent \cup spent : key \in StoreOutput(n, id)
          \/ key[1] = "deltoken"

\* What a node keeps of the outputs: its own, when it has the opening.
Keeps(n, id) == IsMine(n, id) /\ Opens(n, id)

\* A node that knew a transaction when it processed it keeps its own tokens while
\* they are unspent.
KeepsOwn ==
    \A n \in Nodes : \A id \in unspent :
        Keeps(n, id) /\ Processed(n, id[1]) /\ Known(n, id[1]) => CreateFabTokenKey(id) \in store[n]

VaultInv == NetworkInv /\ StoreOK /\ KeepsOwn

-----------------------------------------------------------------------------
\* A token says which transaction created it.
LEMMA CreatedBy == \A t \in TxIds : \A id \in CreatedIds(t) : id[1] = t
  BY DEF CreatedIds, Created

\* The openings a node has are of outputs of the transaction; the auditor has all.
LEMMA Metadata ==
    ASSUME NEW n \in Nodes, NEW t \in TxIds
    PROVE  /\ MetadataAt[n][t] = {id \in CreatedIds(t) : Opens(n, id)}
           /\ n = AuditorNode => MetadataAt[n][t] = CreatedIds(t)
  <1> DEFINE filtered == FilterBy(FilteredBy(n, t), t)
  <1>1. filtered \subseteq CreatedIds(t)
    BY DEF FilterBy, CreatedIds
  <1>2. MetadataAt[n][t] = IF n \in Assemblers[t] \cup {AuditorNode} THEN CreatedIds(t) ELSE filtered
    BY DEF MetadataAt, CreatedIds
  <1> HIDE DEF filtered
  <1>3. \A id \in CreatedIds(t) : Opens(n, id) <=> id \in MetadataAt[n][t]
    BY CreatedBy DEF Opens
  <1> QED
    BY <1>1, <1>2, <1>3

\* Appending to a chain.
LEMMA Appended ==
    ASSUME NEW S, NEW s \in Seq(S), NEW x \in S
    PROVE  /\ Append(s, x) \in Seq(S)
           /\ Len(Append(s, x)) = Len(s) + 1
           /\ \A i \in 1 .. Len(s) : Append(s, x)[i] = s[i]
           /\ Range(Append(s, x)) = Range(s) \cup {x}
  <1>1. /\ Append(s, x) \in Seq(S)
        /\ Len(Append(s, x)) = Len(s) + 1
        /\ \A i \in 1 .. Len(s) : Append(s, x)[i] = s[i]
        /\ Append(s, x)[Len(s) + 1] = x
    OBVIOUS
  <1>2. Len(s) \in Nat /\ DOMAIN s = 1 .. Len(s) /\ DOMAIN Append(s, x) = 1 .. (Len(s) + 1)
    OBVIOUS
  <1>3. \A i \in 1 .. (Len(s) + 1) : i \in 1 .. Len(s) \/ i = Len(s) + 1
    BY <1>2
  <1> QED
    BY <1>1, <1>2, <1>3 DEF Range

\* What ordering a transaction changes.
LEMMA OrderEffect ==
    ASSUME NetworkInv, NEW t \in TxIds, Order(t)
    PROVE  /\ NetworkInv'
           /\ ~Ordered(t)
           /\ \A u \in TxIds : Ordered(u)' <=> Ordered(u) \/ u = t
           /\ \A n \in Nodes, u \in TxIds : Processed(n, u)' <=> Processed(n, u)
           /\ unspent \cup spent \subseteq unspent' \cup spent'
           /\ \A id \in unspent' : id \in unspent \/ id[1] = t
           /\ \A id \in unspent : id \in unspent' <=> ~(id \in ConsumedIds(t) /\ t \in settled')
           /\ settled' = IF ConsumedIds(t) \subseteq unspent THEN settled \cup {t} ELSE settled
  <1> DEFINE k == NetworkOf[t]
             takes == ConsumedIds(t) \subseteq unspent
  <1>1. k \in Networks /\ NetworkOf \in [TxIds -> Networks]
    BY VaultAssumption
  <1>2. /\ t \in submitted
        /\ submitted' = submitted \ {t}
        /\ chain' = [chain EXCEPT ![k] = Append(@, t)]
        /\ height' = height
    BY DEF Order
  <1>3. /\ takes => /\ t \notin settled
                    /\ CreatedIds(t) \cap (unspent \cup spent) = {}
                    /\ unspent' = (unspent \ ConsumedIds(t)) \cup CreatedIds(t)
                    /\ spent' = spent \cup ConsumedIds(t)
                    /\ settled' = settled \cup {t}
        /\ ~takes => UNCHANGED <<unspent, spent, settled>>
    BY DEF Order, Network!Settle, ledgerVars
  <1>4. chain \in [Networks -> Seq(TxIds)]
    BY DEF NetworkInv, ChainsOK
  <1>5. /\ chain' \in [Networks -> Seq(TxIds)]
        /\ \A j \in Networks : j # k => chain'[j] = chain[j]
        /\ Range(chain'[k]) = Range(chain[k]) \cup {t}
        /\ Len(chain'[k]) = Len(chain[k]) + 1
        /\ \A i \in 1 .. Len(chain[k]) : chain'[k][i] = chain[k][i]
    <2>1. chain[k] \in Seq(TxIds) /\ chain'[k] = Append(chain[k], t)
      BY <1>1, <1>2, <1>4
    <2>2. /\ Append(chain[k], t) \in Seq(TxIds)
          /\ Len(Append(chain[k], t)) = Len(chain[k]) + 1
          /\ \A i \in 1 .. Len(chain[k]) : Append(chain[k], t)[i] = chain[k][i]
          /\ Range(Append(chain[k], t)) = Range(chain[k]) \cup {t}
      BY <2>1, Appended
    <2> QED
      BY <1>1, <1>2, <1>4, <2>1, <2>2
  <1>6. \A u \in TxIds : Ordered(u)' <=> Ordered(u) \/ u = t
    BY <1>1, <1>5 DEF Ordered
  <1>7. ~Ordered(t)
    BY <1>2 DEF NetworkInv, OrderedOnce
  <1>8. ChainsOK'
    <2>1. \A j \in Networks : \A u \in Range(chain'[j]) : NetworkOf[u] = j
      BY <1>1, <1>5 DEF NetworkInv, ChainsOK
    <2>2. \A j \in Networks : Len(chain[j]) \in Nat /\ Len(chain[j]) <= Len(chain'[j])
      <3> TAKE j \in Networks
      <3>1. Len(chain[j]) \in Nat
        BY <1>4
      <3>2. Len(chain'[j]) = IF j = k THEN Len(chain[j]) + 1 ELSE Len(chain[j])
        BY <1>5
      <3> QED
        BY <3>1, <3>2
    <2>3. \A n \in Nodes, j \in Networks : height[n][j] <= Len(chain'[j])
      <3> TAKE n \in Nodes, j \in Networks
      <3>1. height[n][j] \in Nat /\ height[n][j] <= Len(chain[j])
        BY DEF NetworkInv, ChainsOK
      <3>2. Len(chain'[j]) \in Nat
        BY <1>5
      <3> QED
        BY <2>2, <3>1, <3>2
    <2> QED
      BY <1>2, <1>5, <2>1, <2>3 DEF NetworkInv, ChainsOK
  <1>9. OrderedOnce'
    BY <1>2, <1>6 DEF NetworkInv, OrderedOnce, ChainsOK
  <1>10. settled' = IF takes THEN settled \cup {t} ELSE settled
    BY <1>3
  <1>11. /\ settled \in SUBSET TxIds
         /\ \A u \in settled : Ordered(u)
         /\ \A id \in unspent \cup spent : id[1] \in settled /\ id \in CreatedIds(id[1])
         /\ unspent \cap spent = {}
         /\ \A u \in settled : CreatedIds(u) \subseteq unspent \cup spent /\ ConsumedIds(u) \subseteq spent
    BY DEF NetworkInv, LedgerOK
  <1>12. LedgerOK'
    <2>1. CASE takes
      <3>1. settled' \in SUBSET TxIds /\ \A u \in settled' : Ordered(u)'
        BY <1>6, <1>10, <1>11, <2>1
      <3>2. unspent' \cup spent' = unspent \cup spent \cup CreatedIds(t)
        BY <1>3, <2>1
      <3>3. \A id \in CreatedIds(t) : id[1] = t
        BY CreatedBy
      <3>4. \A id \in unspent' \cup spent' : id[1] \in settled' /\ id \in CreatedIds(id[1])
        BY <1>10, <1>11, <2>1, <3>2, <3>3
      <3>5. unspent' \cap spent' = {}
        BY <1>3, <1>11, <2>1
      <3>6. \A u \in settled' : CreatedIds(u) \subseteq unspent' \cup spent' /\ ConsumedIds(u) \subseteq spent'
        BY <1>3, <1>11, <2>1, <3>2
      <3> QED
        BY <3>1, <3>4, <3>5, <3>6 DEF LedgerOK, CreatedIds, ConsumedIds
    <2>2. CASE ~takes
      <3>1. \A u \in settled' : Ordered(u)'
        BY <1>3, <1>6, <1>11, <2>2
      <3> QED
        BY <1>3, <1>11, <2>2, <3>1 DEF LedgerOK, CreatedIds, ConsumedIds
    <2> QED
      BY <2>1, <2>2
  <1>13. \A n \in Nodes, u \in TxIds : Processed(n, u)' <=> Processed(n, u)
    <2> TAKE n \in Nodes, u \in TxIds
    <2> DEFINE j == NetworkOf[u]
    <2>1. j \in Networks
      BY <1>1
    <2>2. height[n][j] \in Nat /\ Len(chain[j]) \in Nat /\ height[n][j] <= Len(chain[j])
      BY <1>4, <2>1 DEF NetworkInv, ChainsOK
    <2>3. \A i \in 1 .. height[n][j] : chain'[j][i] = chain[j][i]
      <3> TAKE i \in 1 .. height[n][j]
      <3>1. i \in 1 .. Len(chain[j])
        BY <2>2
      <3>2. CASE j = k
        BY <1>5, <3>1, <3>2
      <3>3. CASE j # k
        BY <1>5, <2>1, <3>3
      <3> QED
        BY <3>2, <3>3
    <2> QED
      BY <1>2, <2>3 DEF Processed
  <1>14. /\ unspent \cup spent \subseteq unspent' \cup spent'
         /\ \A id \in unspent' : id \in unspent \/ id[1] = t
         /\ \A id \in unspent : id \in unspent' <=> ~(id \in ConsumedIds(t) /\ t \in settled')
    <2>1. CASE takes
      BY <1>3, <2>1, CreatedBy
    <2>2. CASE ~takes
      BY <1>3, <1>7, <1>11, <2>2
    <2> QED
      BY <2>1, <2>2
  <1> QED
    BY <1>6, <1>7, <1>8, <1>9, <1>10, <1>12, <1>13, <1>14 DEF NetworkInv

\* A node that takes note of a transaction looks at one that was ordered.
LEMMA ProcessEffect ==
    ASSUME NetworkInv, NEW n \in Nodes, NEW k \in Networks, Process(n, k)
    PROVE  /\ NetworkInv'
           /\ \E t \in TxIds :
                 /\ t = chain[k][height[n][k] + 1]
                 /\ Ordered(t) /\ NetworkOf[t] = k
                 /\ store' = IF Relevant(n, t)
                             THEN [store EXCEPT ![n] = TokenRequestKeys(n, t, store[n])] ELSE store
                 /\ Processed(n, t)'
                 /\ \A u \in TxIds : Processed(n, u)' => Processed(n, u) \/ u = t
                 /\ \A m \in Nodes \ {n}, u \in TxIds : Processed(m, u)' <=> Processed(m, u)
                 /\ \A u \in TxIds : Processed(n, u) => Processed(n, u)'
  <1>1. /\ chain \in [Networks -> Seq(TxIds)]
        /\ height \in [Nodes -> [Networks -> Nat]]
        /\ \A j \in Networks : \A u \in Range(chain[j]) : NetworkOf[u] = j
    BY DEF NetworkInv, ChainsOK
  <1>2. PICK h, t : /\ h = height[n][k] /\ t = chain[k][h + 1]
                    /\ h < Len(chain[k])
                    /\ store' = IF Relevant(n, t)
                                THEN [store EXCEPT ![n] = TokenRequestKeys(n, t, store[n])] ELSE store
                    /\ height' = [height EXCEPT ![n][k] = @ + 1]
                    /\ UNCHANGED networkVars
    BY DEF Process, processTokenRequest
  <1>3. h \in Nat /\ Len(chain[k]) \in Nat /\ h + 1 \in 1 .. Len(chain[k])
    BY <1>1, <1>2
  <1>4. t \in TxIds /\ t \in Range(chain[k])
    BY <1>1, <1>2, <1>3 DEF Range
  <1>5. NetworkOf[t] = k
    BY <1>1, <1>4
  <1>6. /\ height' \in [Nodes -> [Networks -> Nat]]
        /\ height'[n][k] = h + 1
        /\ \A j \in Networks : j # k => height'[n][j] = height[n][j]
        /\ \A m \in Nodes \ {n}, j \in Networks : height'[m][j] = height[m][j]
    BY <1>1, <1>2, <1>3
  <1>7. UNCHANGED <<unspent, spent, settled, submitted, chain>>
    BY <1>2 DEF networkVars
  <1>8. NetworkInv'
    <2>1. \A m \in Nodes, j \in Networks : height'[m][j] <= Len(chain'[j])
      <3> TAKE m \in Nodes, j \in Networks
      <3>1. CASE m = n /\ j = k
        BY <1>2, <1>3, <1>6, <1>7, <3>1
      <3>2. CASE ~(m = n /\ j = k)
        BY <1>6, <1>7, <3>2 DEF NetworkInv, ChainsOK
      <3> QED
        BY <3>1, <3>2
    <2>2. ChainsOK'
      BY <1>6, <1>7, <2>1 DEF NetworkInv, ChainsOK
    <2>3. LedgerOK' /\ OrderedOnce'
      BY <1>7 DEF NetworkInv, LedgerOK, OrderedOnce, Ordered, CreatedIds, ConsumedIds
    <2> QED
      BY <2>2, <2>3 DEF NetworkInv
  <1>9. Processed(n, t)'
    BY <1>2, <1>3, <1>5, <1>6, <1>7 DEF Processed
  <1>10. ASSUME NEW u \in TxIds
         PROVE  /\ Processed(n, u)' => Processed(n, u) \/ u = t
                /\ Processed(n, u) => Processed(n, u)'
    <2>1. CASE NetworkOf[u] = k
      <3>1. \A i \in 1 .. (h + 1) : i \in 1 .. h \/ i = h + 1
        BY <1>3
      <3>2. \A i \in 1 .. h : i \in 1 .. (h + 1)
        BY <1>3
      <3> QED
        BY <1>2, <1>6, <1>7, <2>1, <3>1, <3>2 DEF Processed
    <2>2. CASE NetworkOf[u] # k
      <3>1. NetworkOf[u] \in Networks
        BY VaultAssumption
      <3> QED
        BY <1>6, <1>7, <2>2, <3>1 DEF Processed
    <2> QED
      BY <2>1, <2>2
  <1>11. \A m \in Nodes \ {n}, u \in TxIds : Processed(m, u)' <=> Processed(m, u)
    <2> TAKE m \in Nodes \ {n}, u \in TxIds
    <2>1. NetworkOf[u] \in Networks
      BY VaultAssumption
    <2> QED
      BY <1>6, <1>7, <2>1 DEF Processed
  <1>12. Ordered(t)
    BY <1>4, <1>5 DEF Ordered
  <1> QED
    BY <1>2, <1>4, <1>5, <1>8, <1>9, <1>10, <1>11, <1>12

-----------------------------------------------------------------------------
\* What deleting tokens leaves in a store.
LEMMA Deletes ==
    ASSUME NEW n, NEW keys, NEW ids, NEW who
    PROVE  /\ \A key \in DeleteFabTokens(n, keys, ids, who) : key \in keys \/ key[1] = "deltoken"
           /\ \A id : CreateFabTokenKey(id) \in keys /\ id \notin ids
                         => CreateFabTokenKey(id) \in DeleteFabTokens(n, keys, ids, who)
  <1>1. ASSUME NEW id, CreateFabTokenKey(id) \in keys, NEW other \in ids, id # other,
               CreateFabTokenKey(id) \in DeleteFabToken(keys, other, TokenOf(other).type,
                                                        WalletIdsOf(n, TokenOf(other).owner))
        PROVE  FALSE
    <2>1. CreateFabTokenKey(id)[1] = "token" /\ CreateFabTokenKey(id)[2] = id
      BY DEF CreateFabTokenKey
    <2>2. CreateFabTokenKey(other)[2] = other
      BY DEF CreateFabTokenKey
    <2>3. \A w, typ : CreateExtendedFabTokenKey(w, typ, other)[1] = "etoken"
      BY DEF CreateExtendedFabTokenKey
    <2>4. \A key \in GetStateRangeScanIterator(keys, <<"deltoken", other>>) : key[1] = "deltoken"
      BY DEF GetStateRangeScanIterator
    <2> QED
      BY <1>1, <2>1, <2>2, <2>3, <2>4 DEF DeleteFabToken
  <1>2. \A id : CreateDeletedTokenKey(id, who)[1] = "deltoken"
    BY DEF CreateDeletedTokenKey
  <1>3. \A key \in DeleteFabTokens(n, keys, ids, who) :
            key \in keys \/ \E id \in ids : key = CreateDeletedTokenKey(id, who)
    BY DEF DeleteFabTokens
  <1>4. ASSUME NEW id, CreateFabTokenKey(id) \in keys, id \notin ids
        PROVE  CreateFabTokenKey(id) \in DeleteFabTokens(n, keys, ids, who)
    BY <1>1, <1>4 DEF DeleteFabTokens
  <1> QED
    BY <1>2, <1>3, <1>4

\* A token that is a node's own has its key among what the node stores of it.
LEMMA StoresOwn ==
    ASSUME NEW n, NEW id, IsMine(n, id)
    PROVE  CreateFabTokenKey(id) \in StoreOutput(n, id)
  BY DEF StoreOutput, StoreFabToken

\* The store, when tokens are deleted and when those of a transaction are added.
LEMMA StoreAfter ==
    ASSUME StoreOK, NEW n \in Nodes, NEW ids, NEW who, NEW more,
           store' = [store EXCEPT ![n] = DeleteFabTokens(n, store[n], ids, who) \cup more],
           unspent \cup spent \subseteq unspent' \cup spent',
           \A key \in more : \E id \in unspent' \cup spent' : key \in StoreOutput(n, id)
    PROVE  StoreOK'
  <1>1. \A m \in Nodes : store'[m] = IF m = n THEN DeleteFabTokens(n, store[n], ids, who) \cup more
                                              ELSE store[m]
    BY DEF StoreOK
  <1>2. \A m \in Nodes : \A key \in store'[m] :
            (\E id \in unspent' \cup spent' : key \in StoreOutput(m, id)) \/ key[1] = "deltoken"
    BY <1>1, Deletes DEF StoreOK
  <1>3. store' = [m \in Nodes |-> store'[m]]
    BY DEF StoreOK
  <1> QED
    BY <1>2, <1>3 DEF StoreOK, StoreOutput

-----------------------------------------------------------------------------
\* The vaults at the start.
LEMMA InitVault == VaultInit => VaultInv
  <1> SUFFICES ASSUME VaultInit PROVE VaultInv
    OBVIOUS
  <1>1. /\ unspent = UNION {CreatedIds(t) : t \in InGenesis} /\ spent = {} /\ settled = InGenesis
        /\ submitted = {} /\ chain = Genesis
        /\ height = [n \in Nodes |-> [k \in Networks |-> Len(Genesis[k])]]
        /\ store = [n \in Nodes |-> UNION {StoreOutputs(n, t) : t \in InGenesis}]
    BY DEF VaultInit
  <1>2. /\ Genesis \in [Networks -> Seq(TxIds)]
        /\ \A k \in Networks : \A t \in Range(Genesis[k]) : NetworkOf[t] = k /\ InputsOf(t) = {}
    BY VaultAssumption
  <1>3. \A k \in Networks : Range(Genesis[k]) \subseteq TxIds /\ Len(Genesis[k]) \in Nat
    BY <1>2 DEF Range
  <1>4. \A t \in InGenesis : /\ t \in TxIds /\ t \in Range(Genesis[NetworkOf[t]])
                             /\ ConsumedIds(t) = {}
    BY <1>2, <1>3 DEF InGenesis, ConsumedIds, Consumed
  <1>5. ChainsOK
    <2>1. \A k \in Networks : Len(Genesis[k]) <= Len(Genesis[k])
      BY <1>3
    <2>2. \A n \in Nodes : height[n] = [k \in Networks |-> Len(Genesis[k])]
      BY <1>1
    <2>3. \A n \in Nodes, k \in Networks : height[n][k] <= Len(chain[k])
      BY <1>1, <2>1, <2>2
    <2>4. height \in [Nodes -> [Networks -> Nat]]
      BY <1>1, <1>3
    <2> QED
      BY <1>1, <1>2, <2>3, <2>4 DEF ChainsOK
  <1>6. LedgerOK
    <2>1. \A id \in unspent : id[1] \in InGenesis /\ id \in CreatedIds(id[1])
      BY <1>1, <1>4, CreatedBy
    <2> QED
      BY <1>1, <1>4, <2>1 DEF LedgerOK, Ordered
  <1>7. OrderedOnce
    BY <1>1 DEF OrderedOnce
  <1>8. StoreOK
    <2>1. \A n \in Nodes : \A key \in store[n] : \E id \in unspent : key \in StoreOutput(n, id)
      BY <1>1, <1>4, Metadata DEF StoreOutputs
    <2> QED
      BY <1>1, <2>1 DEF StoreOK
  <1>9. KeepsOwn
    <2> SUFFICES ASSUME NEW n \in Nodes, NEW id \in unspent, Keeps(n, id)
                 PROVE  CreateFabTokenKey(id) \in store[n]
      BY DEF KeepsOwn
    <2>1. PICK t \in InGenesis : id \in CreatedIds(t)
      BY <1>1
    <2>2. CreateFabTokenKey(id) \in StoreOutputs(n, t)
      BY <1>4, <2>1, StoresOwn, Metadata DEF StoreOutputs, Keeps
    <2> QED
      BY <1>1, <2>2
  <1> QED
    BY <1>5, <1>6, <1>7, <1>8, <1>9 DEF VaultInv, NetworkInv

\* A node has processed only what was ordered.
LEMMA ProcessedIsOrdered ==
    ASSUME NetworkInv, NEW n \in Nodes, NEW t \in TxIds, Processed(n, t)
    PROVE  Ordered(t)
  <1> DEFINE k == NetworkOf[t]
  <1>1. k \in Networks
    BY VaultAssumption
  <1>2. height[n][k] \in Nat /\ chain[k] \in Seq(TxIds) /\ height[n][k] <= Len(chain[k])
    BY <1>1 DEF NetworkInv, ChainsOK
  <1>3. PICK i \in 1 .. height[n][k] : chain[k][i] = t
    BY DEF Processed
  <1>4. Len(chain[k]) \in Nat /\ DOMAIN chain[k] = 1 .. Len(chain[k])
    BY <1>2
  <1>5. i \in DOMAIN chain[k]
    BY <1>2, <1>3, <1>4
  <1> QED
    BY <1>3, <1>5 DEF Ordered, Range

\* Ordering a transaction does not touch the vaults.
LEMMA OrderKeepsVault == ASSUME VaultInv, NEW t \in TxIds, Order(t) PROVE VaultInv'
  <1>1. /\ NetworkInv' /\ ~Ordered(t)
        /\ \A n \in Nodes, u \in TxIds : Processed(n, u)' <=> Processed(n, u)
        /\ unspent \cup spent \subseteq unspent' \cup spent'
        /\ \A id \in unspent' : id \in unspent \/ id[1] = t
    BY OrderEffect DEF VaultInv
  <1>2. UNCHANGED <<transient, envelope, store>>
    BY DEF Order
  <1>3. StoreOK'
    BY <1>1, <1>2 DEF VaultInv, StoreOK, StoreOutput
  <1>4. KeepsOwn'
    <2> SUFFICES ASSUME NEW n \in Nodes, NEW id \in unspent',
                        Keeps(n, id), Processed(n, id[1])', Known(n, id[1])
                 PROVE  CreateFabTokenKey(id) \in store[n]
      BY <1>2 DEF KeepsOwn, Known, Keeps, IsMine, Opens
    <2>1. id[1] \in TxIds
      BY <1>1 DEF NetworkInv, LedgerOK
    <2>2. Processed(n, id[1])
      BY <1>1, <2>1
    <2>3. id \in unspent
      BY <1>1, <2>1, <2>2, ProcessedIsOrdered DEF VaultInv
    <2> QED
      BY <2>2, <2>3 DEF VaultInv, KeepsOwn
  <1> QED
    BY <1>1, <1>3, <1>4 DEF VaultInv

\* A node that processes a transaction deletes what it consumed, which is spent,
\* and stores what it created.
LEMMA ProcessKeepsVault ==
    ASSUME VaultInv, NEW n \in Nodes, NEW k \in Networks, Process(n, k)
    PROVE  VaultInv'
  <1>1. NetworkInv'
    BY ProcessEffect DEF VaultInv
  <1>2. PICK t \in TxIds :
           /\ Ordered(t)
           /\ store' = IF Relevant(n, t)
                       THEN [store EXCEPT ![n] = TokenRequestKeys(n, t, store[n])] ELSE store
           /\ \A u \in TxIds : Processed(n, u)' => Processed(n, u) \/ u = t
           /\ \A m \in Nodes \ {n}, u \in TxIds : Processed(m, u)' <=> Processed(m, u)
    BY ProcessEffect DEF VaultInv
  <1>3. UNCHANGED <<unspent, spent, settled, transient, envelope>>
    BY DEF Process, networkVars
  <1>4. LedgerOK /\ StoreOK /\ KeepsOwn
    BY DEF VaultInv, NetworkInv
  <1>5. \A m \in Nodes : store[m] = store'[m] \/ m = n
    BY <1>2, <1>4 DEF StoreOK
  <1>6. CASE Relevant(n, t)
    <2>1. t \in settled
      BY <1>6 DEF Relevant
    <2>2. store' = [store EXCEPT ![n] =
                        DeleteFabTokens(n, store[n], ConsumedIds(t), t) \cup StoreOutputs(n, t)]
      BY <1>2, <1>6 DEF TokenRequestKeys
    <2>3. \A key \in StoreOutputs(n, t) : \E id \in unspent \cup spent : key \in StoreOutput(n, id)
      BY <1>4, <2>1, Metadata DEF LedgerOK, StoreOutputs
    <2>4. StoreOK'
      BY <1>3, <1>4, <2>2, <2>3, StoreAfter
    <2>5. store'[n] = DeleteFabTokens(n, store[n], ConsumedIds(t), t) \cup StoreOutputs(n, t)
      BY <1>4, <2>2 DEF StoreOK
    <2>6. ASSUME NEW id \in unspent, Keeps(n, id), Processed(n, id[1])', Known(n, id[1])
          PROVE  CreateFabTokenKey(id) \in store'[n]
      <3>1. id[1] \in TxIds /\ id \in CreatedIds(id[1]) /\ id \notin ConsumedIds(t)
        BY <1>4, <2>1 DEF LedgerOK
      <3>2. CASE id[1] = t
        BY <2>5, <2>6, <3>1, <3>2, StoresOwn, Metadata DEF StoreOutputs, Keeps
      <3>3. CASE id[1] # t
        <4>1. CreateFabTokenKey(id) \in store[n]
          BY <1>2, <1>4, <2>6, <3>1, <3>3 DEF KeepsOwn
        <4> QED
          BY <2>5, <3>1, <4>1, Deletes
      <3> QED
        BY <3>2, <3>3
    <2>7. ASSUME NEW m \in Nodes \ {n}, NEW id \in unspent,
                 Keeps(m, id), Processed(m, id[1])', Known(m, id[1])
          PROVE  CreateFabTokenKey(id) \in store'[m]
      <3>1. id[1] \in TxIds
        BY <1>4 DEF LedgerOK
      <3>2. Processed(m, id[1])
        BY <1>2, <2>7, <3>1
      <3> QED
        BY <1>4, <1>5, <2>7, <3>2 DEF KeepsOwn
    <2>8. KeepsOwn'
      BY <1>3, <2>6, <2>7 DEF KeepsOwn, Known, Keeps, IsMine, Opens
    <2> QED
      BY <1>1, <2>4, <2>8 DEF VaultInv
  <1>7. CASE ~Relevant(n, t)
    <2>1. store' = store
      BY <1>2, <1>7
    <2>2. StoreOK'
      BY <1>3, <1>4, <2>1 DEF StoreOK, StoreOutput
    <2>3. ASSUME NEW m \in Nodes, NEW id \in unspent,
                 Keeps(m, id), Processed(m, id[1])', Known(m, id[1])
          PROVE  CreateFabTokenKey(id) \in store[m]
      <3>1. id[1] \in TxIds /\ id[1] \in settled
        BY <1>4 DEF LedgerOK
      <3>2. Processed(m, id[1])
        BY <1>2, <1>7, <2>3, <3>1 DEF Relevant
      <3> QED
        BY <1>4, <2>3, <3>2 DEF KeepsOwn
    <2>4. KeepsOwn'
      BY <1>3, <2>1, <2>3 DEF KeepsOwn, Known, Keeps, IsMine, Opens
    <2> QED
      BY <1>1, <2>2, <2>4 DEF VaultInv
  <1> QED
    BY <1>6, <1>7

\* Deleting tokens that are spent.
LEMMA DeletingKeepsVault ==
    ASSUME VaultInv, NEW n \in Nodes, NEW ids, ids \cap unspent = {}, NEW who,
           store' = [store EXCEPT ![n] = DeleteFabTokens(n, store[n], ids, who)],
           UNCHANGED <<networkVars, height, transient, envelope>>
    PROVE  VaultInv'
  <1>1. UNCHANGED <<unspent, spent, settled, submitted, chain, height, transient, envelope>>
    BY DEF networkVars
  <1>2. NetworkInv'
    BY <1>1 DEF VaultInv, NetworkInv, ChainsOK, LedgerOK, OrderedOnce, Ordered, CreatedIds, ConsumedIds
  <1>3. StoreOK'
    <2> DEFINE more == {}
    <2>1. store' = [store EXCEPT ![n] = DeleteFabTokens(n, store[n], ids, who) \cup more]
      OBVIOUS
    <2>2. StoreOK /\ unspent \cup spent \subseteq unspent' \cup spent'
      BY <1>1 DEF VaultInv
    <2>3. \A key \in more : \E id \in unspent' \cup spent' : key \in StoreOutput(n, id)
      OBVIOUS
    <2> HIDE DEF more
    <2> QED
      BY <2>1, <2>2, <2>3, StoreAfter
  <1>4. \A m \in Nodes : store'[m] = IF m = n THEN DeleteFabTokens(n, store[n], ids, who) ELSE store[m]
    BY DEF VaultInv, StoreOK
  <1>5. KeepsOwn'
    <2> SUFFICES ASSUME NEW m \in Nodes, NEW id \in unspent,
                        Keeps(m, id), Processed(m, id[1]), Known(m, id[1])
                 PROVE  CreateFabTokenKey(id) \in store'[m]
      BY <1>1 DEF KeepsOwn, Known, Keeps, IsMine, Opens, Processed
    <2>1. CreateFabTokenKey(id) \in store[m] /\ id \notin ids
      BY DEF VaultInv, KeepsOwn
    <2> QED
      BY <1>4, <2>1, Deletes
  <1> QED
    BY <1>2, <1>3, <1>5 DEF VaultInv

\* Steps that leave the vaults alone.
LEMMA UnchangedKeepsVault == ASSUME VaultInv, UNCHANGED vaultVars PROVE VaultInv'
  <1>1. UNCHANGED <<unspent, spent, settled, submitted, chain, height, transient, envelope, store>>
    BY DEF vaultVars, networkVars
  <1>2. NetworkInv'
    BY <1>1 DEF VaultInv, NetworkInv, ChainsOK, LedgerOK, OrderedOnce, Ordered, CreatedIds, ConsumedIds
  <1>3. StoreOK' /\ KeepsOwn'
    BY <1>1 DEF VaultInv, StoreOK, StoreOutput, KeepsOwn, Known, Keeps, IsMine, Opens, Processed
  <1> QED
    BY <1>2, <1>3 DEF VaultInv

-----------------------------------------------------------------------------
\* The types of the networks and vaults follow.
LEMMA KeysNameTokens ==
    ASSUME VaultInv, NEW n \in Nodes
    PROVE  UnspentTokens(n) \cup ListHistoryIssuedTokens(store[n]) \subseteq unspent \cup spent
  <1>1. ASSUME NEW id, NEW key \in StoreOutput(n, id), key[1] \in {"token", "issued"}
        PROVE  key[2] = id
    BY <1>1 DEF StoreOutput, StoreFabToken, StoreAuditToken, StoreIssuedHistoryToken, CreateFabTokenKey,
                CreateTokenMineKey, CreateExtendedFabTokenKey, CreateAuditTokenKey,
                CreateIssuedHistoryTokenKey
  <1>2. ASSUME NEW key \in store[n], key[1] \in {"token", "issued"}
        PROVE  key[2] \in unspent \cup spent
    <2>1. PICK id \in unspent \cup spent : key \in StoreOutput(n, id)
      BY <1>2 DEF VaultInv, StoreOK
    <2> QED
      BY <1>1, <1>2, <2>1
  <1>3. \A key \in GetStateRangeScanIterator(store[n], <<"token">>) : key \in store[n] /\ key[1] = "token"
    BY DEF GetStateRangeScanIterator
  <1>4. \A key \in GetStateRangeScanIterator(store[n], <<"issued">>) : key \in store[n] /\ key[1] = "issued"
    BY DEF GetStateRangeScanIterator
  <1> QED
    BY <1>2, <1>3, <1>4 DEF UnspentTokens, UnspentTokensIterator, ListHistoryIssuedTokens,
                            GetTokenIdFromKey

\* The invariant implies the types of everything a vault keeps.
LEMMA VaultTypes ==
    ASSUME VaultInv
    PROVE  /\ unspent \cup spent \subseteq UNION {CreatedIds(t) : t \in TxIds}
           /\ settled \subseteq TxIds /\ submitted \subseteq TxIds
           /\ \A k \in Networks : Range(chain[k]) \subseteq {t \in TxIds : NetworkOf[t] = k}
           /\ \A n \in Nodes, k \in Networks : height[n][k] \in 0 .. Len(chain[k])
           /\ \A n \in Nodes : UnspentTokens(n) \cup ListHistoryIssuedTokens(store[n])
                                   \subseteq unspent \cup spent
  <1>1. ChainsOK /\ LedgerOK
    BY DEF VaultInv, NetworkInv
  <1>2. \A k \in Networks : Range(chain[k]) \subseteq TxIds /\ Len(chain[k]) \in Nat
    BY <1>1 DEF ChainsOK, Range
  <1>3. \A n \in Nodes, k \in Networks : height[n][k] \in Nat /\ height[n][k] <= Len(chain[k])
    BY <1>1 DEF ChainsOK
  <1> QED
    BY <1>1, <1>2, <1>3, KeysNameTokens DEF ChainsOK, LedgerOK
-----------------------------------------------------------------------------
\* What took effect consumes tokens that were created before it on the same chain,
\* and no token twice; what is spent was consumed by something that took effect.
ChainInv ==
    /\ \A k \in Networks : IsInjective(chain[k])
    /\ \A k \in Networks : \A i \in DOMAIN chain[k] : chain[k][i] \in settled =>
          \A id \in ConsumedIds(chain[k][i]) : \E j \in 1 .. (i - 1) : chain[k][j] = id[1]
    /\ \A t, u \in settled : t # u => ConsumedIds(t) \cap ConsumedIds(u) = {}
    /\ \A id \in spent : \E t \in settled : id \in ConsumedIds(t)

LEMMA OrderKeepsChain == ASSUME NetworkInv, ChainInv, NEW t \in TxIds, Order(t) PROVE ChainInv'
  <1> DEFINE k == NetworkOf[t]
             m == Len(chain[k])
  <1>1. /\ k \in Networks /\ chain \in [Networks -> Seq(TxIds)]
        /\ chain' = [chain EXCEPT ![k] = Append(@, t)]
        /\ ~Ordered(t)
    BY VaultAssumption, OrderEffect DEF NetworkInv, ChainsOK, Order
  <1>2. \/ ConsumedIds(t) \subseteq unspent /\ settled' = settled \cup {t}
        \/ settled' = settled
    BY DEF Order, Network!Settle, ledgerVars
  <1>3. chain[k] \in Seq(TxIds) /\ m \in Nat /\ t \notin Range(chain[k])
    BY <1>1 DEF Ordered
  <1>4. \A j \in Networks \ {k} : chain'[j] = chain[j]
    BY <1>1
  <1>5. /\ chain'[k] \in Seq(TxIds) /\ Len(chain'[k]) = m + 1 /\ chain'[k][m + 1] = t
        /\ \A i \in 1 .. m : chain'[k][i] = chain[k][i]
        /\ DOMAIN chain'[k] = 1 .. (m + 1)
    <2>1. chain'[k] = Append(chain[k], t)
      BY <1>1
    <2>2. Append(chain[k], t)[m + 1] = t
      BY <1>3
    <2>3. \A i \in 1 .. m : Append(chain[k], t)[i] = chain[k][i]
      BY <1>3, Appended
    <2>4. Append(chain[k], t) \in Seq(TxIds) /\ Len(Append(chain[k], t)) = m + 1
      BY <1>3, Appended
    <2>5. DOMAIN Append(chain[k], t) = 1 .. (m + 1)
      BY <2>4
    <2> QED
      BY <2>1, <2>2, <2>3, <2>4, <2>5
  <1>6. \A j \in Networks : \A i \in DOMAIN chain[j] : chain[j][i] # t
    <2> TAKE j \in Networks
    <2>1. CASE j = k
      BY <1>3, <2>1 DEF Range
    <2>2. CASE j # k
      BY <2>2 DEF NetworkInv, ChainsOK, Range
    <2> QED
      BY <2>1, <2>2
  <1>7. DOMAIN chain[k] = 1 .. m
    BY <1>3
  <1>8. ASSUME ConsumedIds(t) \subseteq unspent, NEW id \in ConsumedIds(t)
        PROVE  \E j \in 1 .. m : chain[k][j] = id[1]
    <2>1. id[1] \in settled /\ id[1] \in TxIds /\ Ordered(id[1])
      BY <1>8 DEF NetworkInv, LedgerOK
    <2>2. NetworkOf[id[1]] = k
      BY <1>8, <2>1, ChainAssumption DEF ConsumedIds, Consumed
    <2> QED
      BY <1>7, <2>1, <2>2 DEF Ordered, Range
  <1>9. ASSUME NEW j \in Networks PROVE IsInjective(chain'[j])
    <2>1. CASE j = k
      <3>1. \A a, b \in 1 .. m : chain[k][a] = chain[k][b] => a = b
        BY <1>1, <1>7 DEF ChainInv, IsInjective
      <3>2. \A a \in 1 .. (m + 1) : a \in 1 .. m \/ a = m + 1
        BY <1>3
      <3>3. \A a \in 1 .. m : chain[k][a] # t
        BY <1>6, <1>7, <1>1
      <3>4. \A a, b \in 1 .. (m + 1) : chain'[k][a] = chain'[k][b] => a = b
        BY <1>5, <3>1, <3>2, <3>3
      <3> QED
        BY <1>5, <2>1, <3>4 DEF IsInjective
    <2>2. CASE j # k
      BY <1>4, <2>2 DEF ChainInv
    <2> QED
      BY <2>1, <2>2
  <1>10. ASSUME NEW j \in Networks, NEW i \in DOMAIN chain'[j], chain'[j][i] \in settled',
                NEW id \in ConsumedIds(chain'[j][i])
         PROVE  \E h \in 1 .. (i - 1) : chain'[j][h] = id[1]
    <2>1. CASE j # k
      <3>1. chain'[j] = chain[j] /\ chain[j][i] # t
        BY <1>4, <1>6, <1>10, <2>1
      <3>2. chain[j][i] \in settled
        BY <1>2, <1>10, <3>1
      <3> QED
        BY <1>10, <3>1, <3>2 DEF ChainInv
    <2>2. CASE j = k /\ i = m + 1
      <3>1. chain'[j][i] = t /\ t \notin settled
        BY <1>1, <1>5, <2>2 DEF NetworkInv, LedgerOK
      <3>2. ConsumedIds(t) \subseteq unspent
        BY <1>2, <1>10, <3>1
      <3>3. PICK h \in 1 .. m : chain[k][h] = id[1]
        BY <1>8, <1>10, <3>1, <3>2
      <3>4. m = i - 1
        BY <1>3, <2>2
      <3> QED
        BY <1>5, <2>2, <3>3, <3>4
    <2>3. CASE j = k /\ i # m + 1
      <3>1. i \in 1 .. m /\ i \in DOMAIN chain[k]
        BY <1>3, <1>5, <1>7, <1>10, <2>3, SMTT(30)
      <3>2. chain'[j][i] = chain[k][i] /\ chain[k][i] # t
        BY <1>1, <1>5, <1>6, <2>3, <3>1
      <3>3. chain[k][i] \in settled
        BY <1>2, <1>10, <3>2
      <3>4. PICK h \in 1 .. (i - 1) : chain[k][h] = id[1]
        BY <1>1, <1>10, <3>1, <3>2, <3>3, SMTT(30) DEF ChainInv
      <3>5. h \in 1 .. m
        BY <1>3, <3>1
      <3> QED
        BY <1>5, <2>3, <3>4, <3>5
    <2> QED
      BY <2>1, <2>2, <2>3
  <1>11. ASSUME NEW a \in settled', NEW b \in settled', a # b
         PROVE  ConsumedIds(a) \cap ConsumedIds(b) = {}
    <2>1. \A u \in settled : ConsumedIds(u) \subseteq spent
      BY DEF NetworkInv, LedgerOK
    <2>2. unspent \cap spent = {}
      BY DEF NetworkInv, LedgerOK
    <2> QED
      BY <1>2, <1>11, <2>1, <2>2 DEF ChainInv
  <1>12. \A u : ConsumedIds(u)' = ConsumedIds(u)
    BY DEF ConsumedIds
  <1>13. ASSUME NEW id \in spent' PROVE \E u \in settled' : id \in ConsumedIds(u)
    <2>1. \/ settled' = settled \cup {t} /\ spent' = spent \cup ConsumedIds(t)
          \/ settled' = settled /\ spent' = spent
      BY DEF Order, Network!Settle, ledgerVars
    <2> QED
      BY <1>13, <2>1 DEF ChainInv
  <1> QED
    BY <1>9, <1>10, <1>11, <1>12, <1>13 DEF ChainInv

LEMMA UnchangedKeepsChain == ASSUME ChainInv, UNCHANGED <<spent, settled, chain>> PROVE ChainInv'
  BY DEF ChainInv, ConsumedIds

LEMMA InitChain == VaultInit => ChainInv
  <1> SUFFICES ASSUME VaultInit PROVE ChainInv
    OBVIOUS
  <1>1. chain = Genesis /\ settled = InGenesis /\ spent = {}
    BY DEF VaultInit
  <1>2. \A t \in InGenesis : ConsumedIds(t) = {}
    <2>1. \A k \in Networks : Range(Genesis[k]) \subseteq TxIds
      BY VaultAssumption DEF Range
    <2> QED
      BY <2>1, VaultAssumption DEF InGenesis, ConsumedIds, Consumed
  <1> QED
    BY <1>1, <1>2, ChainAssumption DEF ChainInv

-----------------------------------------------------------------------------
\* A node sees a transaction once, and after those it spends from.
LEMMA SeenInOrder ==
    ASSUME NetworkInv, ChainInv, NEW n \in Nodes, NEW k \in Networks, Process(n, k),
           NEW t, t = chain[k][height[n][k] + 1]
    PROVE  /\ ~Processed(n, t)
           /\ t \in settled => \A id \in ConsumedIds(t) : Processed(n, id[1])
  <1> DEFINE h == height[n][k]
             s == chain[k]
  <1>1. s \in Seq(TxIds) /\ h \in Nat /\ h < Len(s) /\ Len(s) \in Nat
    BY DEF Process, NetworkInv, ChainsOK
  <1>2. DOMAIN s = 1 .. Len(s) /\ h + 1 \in DOMAIN s /\ t \in Range(s)
    BY <1>1 DEF Range
  <1>3. NetworkOf[t] = k
    BY <1>2 DEF NetworkInv, ChainsOK
  <1>4. \A i \in 1 .. h : i \in DOMAIN s /\ i # h + 1
    BY <1>1, <1>2
  <1>5. \A i \in 1 .. h : s[i] # t
    BY <1>2, <1>4 DEF ChainInv, IsInjective
  <1>6. ASSUME t \in settled, NEW id \in ConsumedIds(t) PROVE Processed(n, id[1])
    <2>1. PICK j \in 1 .. ((h + 1) - 1) : s[j] = id[1]
      BY <1>2, <1>6 DEF ChainInv
    <2>2. j \in 1 .. h
      BY <1>1
    <2>3. id[1] \in Range(s)
      BY <1>4, <2>1, <2>2 DEF Range
    <2>4. NetworkOf[id[1]] = k
      BY <2>3 DEF NetworkInv, ChainsOK
    <2> QED
      BY <2>1, <2>2, <2>4 DEF Processed
  <1> QED
    BY <1>3, <1>5, <1>6 DEF Processed

\* What a node has seen contains what it is spent from.
LEMMA SeenWithParents ==
    ASSUME NetworkInv, ChainInv, NEW n \in Nodes, NEW t \in settled, Processed(n, t),
           NEW id \in ConsumedIds(t)
    PROVE  Processed(n, id[1])
  <1> DEFINE k == NetworkOf[t]
             h == height[n][k]
             s == chain[k]
  <1>1. t \in TxIds /\ k \in Networks
    BY VaultAssumption DEF NetworkInv, LedgerOK
  <1>2. s \in Seq(TxIds) /\ h \in Nat /\ h <= Len(s) /\ Len(s) \in Nat
    BY <1>1 DEF NetworkInv, ChainsOK
  <1>3. DOMAIN s = 1 .. Len(s)
    BY <1>2
  <1>4. PICK i \in 1 .. h : s[i] = t
    BY DEF Processed
  <1>5. i \in DOMAIN s
    BY <1>2, <1>3
  <1>6. PICK j \in 1 .. (i - 1) : s[j] = id[1]
    BY <1>1, <1>4, <1>5 DEF ChainInv
  <1>7. j \in 1 .. h /\ j \in DOMAIN s
    BY <1>2, <1>3, <1>4
  <1>8. id[1] \in Range(s)
    BY <1>6, <1>7 DEF Range
  <1>9. NetworkOf[id[1]] = k
    BY <1>1, <1>8 DEF NetworkInv, ChainsOK
  <1> QED
    BY <1>6, <1>7, <1>9 DEF Processed

\* What a node has processed and what took effect of it.
LEMMA ProcessedAre ==
    ASSUME NetworkInv, NEW n \in Nodes
    PROVE  ProcessedAt(n) = {t \in settled : Processed(n, t)}
  <1>1. ASSUME NEW k \in Networks
        PROVE  Range(SubSeq(chain[k], 1, height[n][k])) = {chain[k][i] : i \in 1 .. height[n][k]}
    <2> DEFINE h == height[n][k]
               s == chain[k]
               p == SubSeq(s, 1, h)
    <2>1. s \in Seq(TxIds) /\ h \in Nat /\ h <= Len(s) /\ Len(s) \in Nat
      BY DEF NetworkInv, ChainsOK
    <2>2. DOMAIN p = 1 .. h /\ \A i \in 1 .. h : p[i] = s[i]
      BY <2>1
    <2> QED
      BY <2>2 DEF Range
  <1>2. ASSUME NEW t \in settled
        PROVE  Processed(n, t) <=> \E k \in Networks : t \in Range(SubSeq(chain[k], 1, height[n][k]))
    <2>1. t \in TxIds /\ NetworkOf[t] \in Networks
      BY VaultAssumption DEF NetworkInv, LedgerOK
    <2>2. \A k \in Networks : \A i \in 1 .. height[n][k] : NetworkOf[chain[k][i]] = k
      <3> TAKE k \in Networks
      <3>1. chain[k] \in Seq(TxIds) /\ height[n][k] \in Nat /\ height[n][k] <= Len(chain[k]) /\ Len(chain[k]) \in Nat
        BY DEF NetworkInv, ChainsOK
      <3>2. \A i \in 1 .. height[n][k] : i \in DOMAIN chain[k]
        BY <3>1
      <3> QED
        BY <3>2 DEF NetworkInv, ChainsOK, Range
    <2> QED
      BY <1>1, <2>1, <2>2 DEF Processed
  <1> QED
    BY <1>2 DEF ProcessedAt

-----------------------------------------------------------------------------
\* A key as the vault writes them.
Shaped(key) ==
    \/ \E id : \/ key = CreateFabTokenKey(id) \/ key = CreateTokenMineKey(id)
               \/ key = CreateAuditTokenKey(id) \/ key = CreateIssuedHistoryTokenKey(id)
    \/ \E w, typ, id : key = CreateExtendedFabTokenKey(w, typ, id)
    \/ \E id, who : key = CreateDeletedTokenKey(id, who)

\* What the range scans find.
LEMMA Scans ==
    ASSUME NEW keys, \A key \in keys : Shaped(key)
    PROVE  /\ \A id : id \in UnspentTokensIterator(keys) <=> CreateFabTokenKey(id) \in keys
           /\ \A id, who : who \in WhoDeletedTokens(keys, id) <=> CreateDeletedTokenKey(id, who) \in keys
           /\ \A w, typ, id : id \in UnspentTokensIteratorBy(keys, w, typ) <=>
                 \E ty : /\ CreateExtendedFabTokenKey(w, ty, id) \in keys
                         /\ typ = AnyType \/ ty = typ
  <1> DEFINE P(a) == <<a>>
             Q(a, b) == <<a, b>>
             R(a, b, c) == <<a, b, c>>
  <1>1. \A a : DOMAIN P(a) = 1 .. 1 /\ P(a)[1] = a
    OBVIOUS
  <1>2. \A a, b : DOMAIN Q(a, b) = 1 .. 2 /\ Q(a, b)[1] = a /\ Q(a, b)[2] = b
    OBVIOUS
  <1>3. \A a, b, c : DOMAIN R(a, b, c) = 1 .. 3 /\ R(a, b, c)[1] = a /\ R(a, b, c)[2] = b /\ R(a, b, c)[3] = c
    OBVIOUS
  <1>4. 1 .. 1 = {1} /\ 1 .. 2 = {1, 2} /\ 1 .. 3 = {1, 2, 3} /\ 1 .. 4 = {1, 2, 3, 4}
    OBVIOUS
  <1>5. \A id : LET key == CreateFabTokenKey(id)
                IN DOMAIN key = 1 .. 2 /\ key[1] = "token" /\ key[2] = id
    BY DEF CreateFabTokenKey
  <1>6. \A w, typ, id : LET key == CreateExtendedFabTokenKey(w, typ, id)
                        IN DOMAIN key = 1 .. 4 /\ key[1] = "etoken" /\ key[2] = w /\ key[3] = typ /\ key[4] = id
    BY DEF CreateExtendedFabTokenKey
  <1>7. \A id, who : LET key == CreateDeletedTokenKey(id, who)
                     IN DOMAIN key = 1 .. 3 /\ key[1] = "deltoken" /\ key[2] = id /\ key[3] = who
    BY DEF CreateDeletedTokenKey
  <1>8. \A id : /\ CreateTokenMineKey(id)[1] = "mine" /\ CreateAuditTokenKey(id)[1] = "audittoken"
                /\ CreateIssuedHistoryTokenKey(id)[1] = "issued"
    BY DEF CreateTokenMineKey, CreateAuditTokenKey, CreateIssuedHistoryTokenKey
  <1> HIDE DEF P, Q, R
  <1>9. \A key \in keys : key[1] = "token" => \E id : key = CreateFabTokenKey(id)
    BY <1>5, <1>6, <1>7, <1>8 DEF Shaped
  <1>10. \A key \in keys : key[1] = "etoken" => \E w, typ, id : key = CreateExtendedFabTokenKey(w, typ, id)
    BY <1>5, <1>6, <1>7, <1>8 DEF Shaped
  <1>11. \A key \in keys : key[1] = "deltoken" => \E id, who : key = CreateDeletedTokenKey(id, who)
    BY <1>5, <1>6, <1>7, <1>8 DEF Shaped
  <1>12. ASSUME NEW id
         PROVE  id \in UnspentTokensIterator(keys) <=> CreateFabTokenKey(id) \in keys
    <2>1. \A key \in GetStateRangeScanIterator(keys, P("token")) : key \in keys /\ key[1] = "token"
      BY <1>1, <1>4 DEF GetStateRangeScanIterator
    <2>2. CreateFabTokenKey(id) \in keys =>
              CreateFabTokenKey(id) \in GetStateRangeScanIterator(keys, P("token"))
      BY <1>1, <1>4, <1>5 DEF GetStateRangeScanIterator
    <2>3. UnspentTokensIterator(keys) = {key[2] : key \in GetStateRangeScanIterator(keys, P("token"))}
      BY DEF UnspentTokensIterator, GetTokenIdFromKey, P
    <2> QED
      BY <1>5, <1>9, <2>1, <2>2, <2>3
  <1>13. ASSUME NEW id, NEW who
         PROVE  who \in WhoDeletedTokens(keys, id) <=> CreateDeletedTokenKey(id, who) \in keys
    <2>1. \A key \in GetStateRangeScanIterator(keys, Q("deltoken", id)) :
              key \in keys /\ key[1] = "deltoken" /\ key[2] = id
      BY <1>2, <1>4 DEF GetStateRangeScanIterator
    <2>2. CreateDeletedTokenKey(id, who) \in keys =>
              CreateDeletedTokenKey(id, who) \in GetStateRangeScanIterator(keys, Q("deltoken", id))
      BY <1>2, <1>4, <1>7 DEF GetStateRangeScanIterator
    <2>3. WhoDeletedTokens(keys, id) = {key[3] : key \in GetStateRangeScanIterator(keys, Q("deltoken", id))}
      BY DEF WhoDeletedTokens, Q
    <2> QED
      BY <1>7, <1>11, <2>1, <2>2, <2>3
  <1>14. ASSUME NEW w, NEW typ, NEW id
         PROVE  id \in UnspentTokensIteratorBy(keys, w, typ) <=>
                 \E ty : /\ CreateExtendedFabTokenKey(w, ty, id) \in keys
                         /\ typ = AnyType \/ ty = typ
    <2>1. CASE typ = AnyType
      <3>1. \A key \in GetStateRangeScanIterator(keys, Q("etoken", w)) :
                key \in keys /\ key[1] = "etoken" /\ key[2] = w
        BY <1>2, <1>4 DEF GetStateRangeScanIterator
      <3>2. \A ty : CreateExtendedFabTokenKey(w, ty, id) \in keys =>
                CreateExtendedFabTokenKey(w, ty, id) \in GetStateRangeScanIterator(keys, Q("etoken", w))
        BY <1>2, <1>4, <1>6 DEF GetStateRangeScanIterator
      <3>3. UnspentTokensIteratorBy(keys, w, typ) = {key[4] : key \in GetStateRangeScanIterator(keys, Q("etoken", w))}
        BY <2>1 DEF UnspentTokensIteratorBy, GetTokenIdFromExtendedKey, Q
      <3> QED
        BY <1>6, <1>10, <2>1, <3>1, <3>2, <3>3
    <2>2. CASE typ # AnyType
      <3>1. \A key \in GetStateRangeScanIterator(keys, R("etoken", w, typ)) :
                key \in keys /\ key[1] = "etoken" /\ key[2] = w /\ key[3] = typ
        BY <1>3, <1>4 DEF GetStateRangeScanIterator
      <3>2. CreateExtendedFabTokenKey(w, typ, id) \in keys =>
                CreateExtendedFabTokenKey(w, typ, id) \in GetStateRangeScanIterator(keys, R("etoken", w, typ))
        BY <1>3, <1>4, <1>6 DEF GetStateRangeScanIterator
      <3>3. UnspentTokensIteratorBy(keys, w, typ) = {key[4] : key \in GetStateRangeScanIterator(keys, R("etoken", w, typ))}
        BY <2>2 DEF UnspentTokensIteratorBy, GetTokenIdFromExtendedKey, R
      <3> QED
        BY <1>6, <1>10, <2>2, <3>1, <3>2, <3>3
    <2> QED
      BY <2>1, <2>2
  <1> QED
    BY <1>12, <1>13, <1>14

\* What is left of each kind of key when tokens are deleted.
KeysLeft(left, n, keys, ids, t) ==
    /\ \A key \in left : Shaped(key)
    /\ \A id : CreateFabTokenKey(id) \in left <=> CreateFabTokenKey(id) \in keys /\ id \notin ids
    /\ \A w, typ, id : CreateExtendedFabTokenKey(w, typ, id) \in left <=>
          /\ CreateExtendedFabTokenKey(w, typ, id) \in keys
          /\ ~(/\ id \in ids /\ CreateFabTokenKey(id) \in keys
               /\ typ = TokenOf(id).type /\ w \in WalletIdsOf(n, TokenOf(id).owner))
    /\ \A id, who : CreateDeletedTokenKey(id, who) \in left <=>
          IF id \in ids THEN who = t ELSE CreateDeletedTokenKey(id, who) \in keys
    /\ \A id : CreateAuditTokenKey(id) \in left <=> CreateAuditTokenKey(id) \in keys

\* Deleting tokens leaves these keys and no others.
LEMMA DeletesExactly ==
    ASSUME NEW n, NEW keys, \A key \in keys : Shaped(key), NEW ids, NEW t
    PROVE  KeysLeft(DeleteFabTokens(n, keys, ids, t), n, keys, ids, t)
  <1> DEFINE left == DeleteFabTokens(n, keys, ids, t)
             scan(id) == GetStateRangeScanIterator(keys, <<"deltoken", id>>)
             gone(id) == DeleteFabToken(keys, id, TokenOf(id).type, WalletIdsOf(n, TokenOf(id).owner))
  <1>1. \A id, who, key : key = CreateDeletedTokenKey(id, who) => key[1] = "deltoken" /\ key[2] = id /\ key[3] = who
    BY DEF CreateDeletedTokenKey
  <1>2. ASSUME NEW id, NEW key
        PROVE  key \in scan(id) <=> key \in keys /\ \E who : key = CreateDeletedTokenKey(id, who)
    <2> DEFINE start == <<"deltoken", id>>
    <2>1. DOMAIN start = {1, 2} /\ start[1] = "deltoken" /\ start[2] = id
      <3>1. DOMAIN start = 1 .. 2 /\ 1 .. 2 = {1, 2}
        OBVIOUS
      <3> QED
        BY <3>1
    <2> HIDE DEF start
    <2>2. key \in GetStateRangeScanIterator(keys, start) <=>
              key \in keys /\ 1 \in DOMAIN key /\ 2 \in DOMAIN key /\ key[1] = "deltoken" /\ key[2] = id
      BY <2>1 DEF GetStateRangeScanIterator
    <2>3. \A who : 1 \in DOMAIN CreateDeletedTokenKey(id, who) /\ 2 \in DOMAIN CreateDeletedTokenKey(id, who)
      <3> TAKE who
      <3>1. DOMAIN CreateDeletedTokenKey(id, who) = 1 .. 3 /\ 1 \in 1 .. 3 /\ 2 \in 1 .. 3
        BY DEF CreateDeletedTokenKey
      <3> QED
        BY <3>1
    <2>4. key \in keys /\ key[1] = "deltoken" => \E i, who : key = CreateDeletedTokenKey(i, who)
      <3>1. \A i : /\ CreateTokenMineKey(i)[1] # "deltoken" /\ CreateAuditTokenKey(i)[1] # "deltoken"
                   /\ CreateIssuedHistoryTokenKey(i)[1] # "deltoken" /\ CreateFabTokenKey(i)[1] # "deltoken"
        BY DEF CreateTokenMineKey, CreateAuditTokenKey, CreateIssuedHistoryTokenKey, CreateFabTokenKey
      <3>2. \A w, typ, i : CreateExtendedFabTokenKey(w, typ, i)[1] # "deltoken"
        BY DEF CreateExtendedFabTokenKey
      <3> QED
        BY <3>1, <3>2 DEF Shaped
    <2> QED
      BY <1>1, <2>2, <2>3, <2>4 DEF start
  <1> HIDE DEF scan
  <1>3. \A id, key : key \in gone(id) <=>
           \/ key = CreateFabTokenKey(id)
           \/ CreateFabTokenKey(id) \in keys
              /\ \E w \in WalletIdsOf(n, TokenOf(id).owner) : key = CreateExtendedFabTokenKey(w, TokenOf(id).type, id)
           \/ key \in scan(id)
    BY DEF DeleteFabToken, scan
  <1>4. \A key : key \in left <=>
           \/ key \in keys /\ \A id \in ids : key \notin gone(id)
           \/ \E id \in ids : key = CreateDeletedTokenKey(id, t)
    BY DEF DeleteFabTokens
  <1> HIDE DEF left, gone
  <1>5. \A id, who, i : CreateFabTokenKey(i) # CreateDeletedTokenKey(id, who) /\ CreateAuditTokenKey(i) # CreateDeletedTokenKey(id, who)
    BY DEF CreateFabTokenKey, CreateDeletedTokenKey, CreateAuditTokenKey
  <1>6. \A w, typ, id, i, who : /\ CreateExtendedFabTokenKey(w, typ, id) # CreateDeletedTokenKey(i, who)
                                /\ CreateExtendedFabTokenKey(w, typ, id) # CreateFabTokenKey(i)
                                /\ CreateExtendedFabTokenKey(w, typ, id) # CreateAuditTokenKey(i)
    BY DEF CreateExtendedFabTokenKey, CreateFabTokenKey, CreateDeletedTokenKey, CreateAuditTokenKey
  <1>7. \A i, j : CreateFabTokenKey(i) = CreateFabTokenKey(j) => i = j
    BY DEF CreateFabTokenKey
  <1>8. \A i, j : CreateFabTokenKey(i) # CreateAuditTokenKey(j)
    BY DEF CreateFabTokenKey, CreateAuditTokenKey
  <1>9. \A w, typ, id, v, ty, i :
            CreateExtendedFabTokenKey(w, typ, id) = CreateExtendedFabTokenKey(v, ty, i) => w = v /\ typ = ty /\ id = i
    BY DEF CreateExtendedFabTokenKey
  <1>10. \A key \in left : Shaped(key)
    BY <1>4 DEF Shaped
  <1>11. ASSUME NEW id
         PROVE  CreateFabTokenKey(id) \in left <=> CreateFabTokenKey(id) \in keys /\ id \notin ids
    <2> DEFINE key == CreateFabTokenKey(id)
    <2>1. \A i : key \notin scan(i)
      BY <1>2, <1>5
    <2>2. \A i, w : key # CreateExtendedFabTokenKey(w, TokenOf(i).type, i)
      BY <1>6
    <2>3. \A i : key = CreateFabTokenKey(i) <=> i = id
      BY <1>7
    <2>4. \A i : key # CreateDeletedTokenKey(i, t)
      BY <1>5
    <2> HIDE DEF key
    <2>5. \A i : key \in gone(i) <=> i = id
      BY <1>3, <2>1, <2>2, <2>3
    <2> QED
      BY <1>4, <2>4, <2>5 DEF key
  <1>12. ASSUME NEW w, NEW typ, NEW id
         PROVE  CreateExtendedFabTokenKey(w, typ, id) \in left <=>
                    /\ CreateExtendedFabTokenKey(w, typ, id) \in keys
                    /\ ~(/\ id \in ids /\ CreateFabTokenKey(id) \in keys
                         /\ typ = TokenOf(id).type /\ w \in WalletIdsOf(n, TokenOf(id).owner))
    <2>1. \A i : CreateExtendedFabTokenKey(w, typ, id) \in gone(i) <=>
             i = id /\ CreateFabTokenKey(id) \in keys
                    /\ typ = TokenOf(id).type /\ w \in WalletIdsOf(n, TokenOf(id).owner)
      BY <1>2, <1>3, <1>6, <1>9
    <2> QED
      BY <1>4, <1>6, <2>1
  <1>13. ASSUME NEW id, NEW who
         PROVE  CreateDeletedTokenKey(id, who) \in left <=>
                    IF id \in ids THEN who = t ELSE CreateDeletedTokenKey(id, who) \in keys
    <2>1. \A i : CreateDeletedTokenKey(id, who) \in gone(i) <=> i = id /\ CreateDeletedTokenKey(id, who) \in keys
      BY <1>1, <1>2, <1>3, <1>5, <1>6
    <2>2. \A i : CreateDeletedTokenKey(id, who) = CreateDeletedTokenKey(i, t) <=> i = id /\ who = t
      BY <1>1
    <2> QED
      BY <1>4, <2>1, <2>2
  <1>14. ASSUME NEW id PROVE CreateAuditTokenKey(id) \in left <=> CreateAuditTokenKey(id) \in keys
    BY <1>2, <1>3, <1>4, <1>5, <1>6, <1>8
  <1>15. KeysLeft(left, n, keys, ids, t)
    BY <1>10, <1>11, <1>12, <1>13, <1>14 DEF KeysLeft
  <1> QED
    BY <1>15 DEF left

\* What the outputs of a transaction add.
LEMMA StoresExactly ==
    ASSUME NEW n \in Nodes, NEW t \in TxIds
    PROVE  LET new == StoreOutputs(n, t)
           IN /\ \A key \in new : Shaped(key)
              /\ \A id : CreateFabTokenKey(id) \in new <=> id \in CreatedIds(t) /\ Keeps(n, id)
              /\ \A w, typ, id : CreateExtendedFabTokenKey(w, typ, id) \in new <=>
                    /\ id \in CreatedIds(t) /\ Keeps(n, id)
                    /\ typ = TokenOf(id).type /\ w \in WalletIdsOf(n, TokenOf(id).owner)
              /\ \A id, who : CreateDeletedTokenKey(id, who) \notin new
              /\ n = AuditorNode => \A id \in CreatedIds(t) : CreateAuditTokenKey(id) \in new
  <1>1. ASSUME NEW key, NEW id
        PROVE  key \in StoreOutput(n, id) <=>
                  \/ IsMine(n, id) /\ \/ key = CreateTokenMineKey(id) \/ key = CreateFabTokenKey(id)
                                      \/ \E w \in WalletIdsOf(n, TokenOf(id).owner) :
                                             key = CreateExtendedFabTokenKey(w, TokenOf(id).type, id)
                  \/ n = AuditorNode /\ key = CreateAuditTokenKey(id)
                  \/ Issued(n, id) /\ key = CreateIssuedHistoryTokenKey(id)
    BY DEF StoreOutput, StoreFabToken, StoreAuditToken, StoreIssuedHistoryToken, AmIAnAuditor
  <1>2. \A key : key \in StoreOutputs(n, t) <=>
                      \E id \in CreatedIds(t) : Opens(n, id) /\ key \in StoreOutput(n, id)
    BY Metadata DEF StoreOutputs
  <1>3. \A i, j : CreateFabTokenKey(i) = CreateFabTokenKey(j) => i = j
    BY DEF CreateFabTokenKey
  <1>4. \A i, j : /\ CreateFabTokenKey(i) # CreateAuditTokenKey(j) /\ CreateFabTokenKey(i) # CreateTokenMineKey(j)
                  /\ CreateFabTokenKey(i) # CreateIssuedHistoryTokenKey(j)
    BY DEF CreateFabTokenKey, CreateAuditTokenKey, CreateTokenMineKey, CreateIssuedHistoryTokenKey
  <1>5. \A w, typ, id, j : /\ CreateExtendedFabTokenKey(w, typ, id) # CreateFabTokenKey(j)
                           /\ CreateExtendedFabTokenKey(w, typ, id) # CreateAuditTokenKey(j)
                           /\ CreateExtendedFabTokenKey(w, typ, id) # CreateTokenMineKey(j)
                           /\ CreateExtendedFabTokenKey(w, typ, id) # CreateIssuedHistoryTokenKey(j)
    BY DEF CreateExtendedFabTokenKey, CreateFabTokenKey, CreateAuditTokenKey, CreateTokenMineKey, CreateIssuedHistoryTokenKey
  <1>6. \A w, typ, id, v, ty, i :
            CreateExtendedFabTokenKey(w, typ, id) = CreateExtendedFabTokenKey(v, ty, i) => w = v /\ typ = ty /\ id = i
    BY DEF CreateExtendedFabTokenKey
  <1>7. \A i, who, j : /\ CreateDeletedTokenKey(i, who) # CreateFabTokenKey(j)
                       /\ CreateDeletedTokenKey(i, who) # CreateAuditTokenKey(j)
                       /\ CreateDeletedTokenKey(i, who) # CreateTokenMineKey(j)
                       /\ CreateDeletedTokenKey(i, who) # CreateIssuedHistoryTokenKey(j)
    BY DEF CreateDeletedTokenKey, CreateFabTokenKey, CreateAuditTokenKey, CreateTokenMineKey, CreateIssuedHistoryTokenKey
  <1>8. \A i, who, w, typ, id : CreateDeletedTokenKey(i, who) # CreateExtendedFabTokenKey(w, typ, id)
    BY DEF CreateDeletedTokenKey, CreateExtendedFabTokenKey
  <1>9. \A key \in StoreOutputs(n, t) : Shaped(key)
    BY <1>1, <1>2 DEF Shaped
  <1>10. \A id : CreateFabTokenKey(id) \in StoreOutputs(n, t) <=> id \in CreatedIds(t) /\ Keeps(n, id)
    BY <1>1, <1>2, <1>3, <1>4, <1>5 DEF Keeps
  <1>11. ASSUME NEW w, NEW typ, NEW id
         PROVE  CreateExtendedFabTokenKey(w, typ, id) \in StoreOutputs(n, t) <=>
                    /\ id \in CreatedIds(t) /\ Keeps(n, id)
                    /\ typ = TokenOf(id).type /\ w \in WalletIdsOf(n, TokenOf(id).owner)
    <2> DEFINE key == CreateExtendedFabTokenKey(w, typ, id)
    <2>1. \A i : /\ key # CreateTokenMineKey(i) /\ key # CreateFabTokenKey(i)
                 /\ key # CreateAuditTokenKey(i) /\ key # CreateIssuedHistoryTokenKey(i)
      BY <1>5
    <2>2. \A v, i : key = CreateExtendedFabTokenKey(v, TokenOf(i).type, i)
                        <=> v = w /\ i = id /\ typ = TokenOf(i).type
      BY <1>6
    <2> HIDE DEF key
    <2>3. \A i : key \in StoreOutput(n, i) <=>
                    /\ i = id /\ IsMine(n, id)
                    /\ typ = TokenOf(id).type /\ w \in WalletIdsOf(n, TokenOf(id).owner)
      <3> TAKE i
      <3> DEFINE mine == IsMine(n, i)
                 ws == WalletIdsOf(n, TokenOf(i).owner)
                 ty == TokenOf(i).type
      <3>1. key \in StoreOutput(n, i) <=>
                \/ mine /\ \/ key = CreateTokenMineKey(i) \/ key = CreateFabTokenKey(i)
                           \/ \E v \in ws : key = CreateExtendedFabTokenKey(v, ty, i)
                \/ n = AuditorNode /\ key = CreateAuditTokenKey(i)
                \/ Issued(n, i) /\ key = CreateIssuedHistoryTokenKey(i)
        BY <1>1
      <3>2. \A v : key = CreateExtendedFabTokenKey(v, ty, i) <=> v = w /\ i = id /\ typ = ty
        BY <2>2
      <3> HIDE DEF mine, ws, ty
      <3>3. key \in StoreOutput(n, i) <=> mine /\ w \in ws /\ i = id /\ typ = ty
        BY <2>1, <3>1, <3>2
      <3> QED
        BY <3>3 DEF mine, ws, ty
    <2> QED
      BY <1>2, <2>3 DEF key, Keeps
  <1>12. \A id, who : CreateDeletedTokenKey(id, who) \notin StoreOutputs(n, t)
    BY <1>1, <1>2, <1>7, <1>8
  <1>13. n = AuditorNode => \A id \in CreatedIds(t) : CreateAuditTokenKey(id) \in StoreOutputs(n, t)
    BY <1>1, Metadata DEF StoreOutputs
  <1> QED
    BY <1>9, <1>10, <1>11, <1>12, <1>13

-----------------------------------------------------------------------------
\* Tokens that are unspent after some transactions.
LeftBy(seen) == (UNION {CreatedIds(t) : t \in seen}) \ UNION {ConsumedIds(t) : t \in seen}

\* The store of a node that has seen some transactions take effect, key by key: the
\* tokens of its parties that they leave, each with the keys of its wallets; who
\* deleted the others; and at the node of the auditor everything there was.
Exact(n, keys, seen) ==
    /\ \A key \in keys : Shaped(key)
    /\ \A id : CreateFabTokenKey(id) \in keys <=> id \in LeftBy(seen) /\ Keeps(n, id)
    /\ \A w, typ, id : CreateExtendedFabTokenKey(w, typ, id) \in keys <=>
          /\ id \in LeftBy(seen) /\ Keeps(n, id)
          /\ typ = TokenOf(id).type /\ w \in WalletIdsOf(n, TokenOf(id).owner)
    /\ \A id, u : CreateDeletedTokenKey(id, u) \in keys => u \in seen /\ id \in ConsumedIds(u)
    /\ \A u \in seen : \A id \in ConsumedIds(u) :
          IsMine(n, id) => CreateDeletedTokenKey(id, u) \in keys
    /\ n = AuditorNode => \A u \in seen : \A id \in CreatedIds(u) : CreateAuditTokenKey(id) \in keys

TokensOK(n) == Exact(n, store[n], ProcessedAt(n))

StoresExact == \A n \in Nodes : TokensOK(n)

\* Taking note of one more transaction.
LEMMA OneMore ==
    ASSUME NEW n \in Nodes, NEW keys, NEW seen, Exact(n, keys, seen), seen \subseteq TxIds,
           NEW t \in TxIds, t \notin seen,
           \A u \in seen \cup {t} : \A id \in ConsumedIds(u) : id[1] \in seen,
           \A u \in seen : ConsumedIds(u) \cap ConsumedIds(t) = {}
    PROVE  /\ Exact(n, TokenRequestKeys(n, t, keys), seen \cup {t})
           /\ (n # AuditorNode /\ \A id \in CreatedIds(t) \cup ConsumedIds(t) : ~IsMine(n, id))
                 => Exact(n, keys, seen \cup {t})
  <1> DEFINE more == seen \cup {t}
             gone == DeleteFabTokens(n, keys, ConsumedIds(t), t)
             new == StoreOutputs(n, t)
  <1>1. \A id \in CreatedIds(t) : id[1] = t
    BY CreatedBy
  <1>2. LeftBy(more) = (LeftBy(seen) \ ConsumedIds(t)) \cup CreatedIds(t)
    <2>1. \A id \in CreatedIds(t) : \A u \in more : id \notin ConsumedIds(u)
      BY <1>1
    <2>2. UNION {CreatedIds(u) : u \in more} = (UNION {CreatedIds(u) : u \in seen}) \cup CreatedIds(t)
      OBVIOUS
    <2>3. UNION {ConsumedIds(u) : u \in more} = (UNION {ConsumedIds(u) : u \in seen}) \cup ConsumedIds(t)
      OBVIOUS
    <2>4. CreatedIds(t) \cap UNION {ConsumedIds(u) : u \in more} = {}
      BY <2>1
    <2> QED
      BY <2>2, <2>3, <2>4 DEF LeftBy
  <1>3. \A key \in keys : Shaped(key)
    BY DEF Exact
  <1>4. /\ \A key \in gone : Shaped(key)
        /\ \A id : CreateFabTokenKey(id) \in gone <=> CreateFabTokenKey(id) \in keys /\ id \notin ConsumedIds(t)
        /\ \A w, typ, id : CreateExtendedFabTokenKey(w, typ, id) \in gone <=>
              /\ CreateExtendedFabTokenKey(w, typ, id) \in keys
              /\ ~(/\ id \in ConsumedIds(t) /\ CreateFabTokenKey(id) \in keys
                   /\ typ = TokenOf(id).type /\ w \in WalletIdsOf(n, TokenOf(id).owner))
        /\ \A id, who : CreateDeletedTokenKey(id, who) \in gone <=>
              IF id \in ConsumedIds(t) THEN who = t ELSE CreateDeletedTokenKey(id, who) \in keys
        /\ \A id : CreateAuditTokenKey(id) \in gone <=> CreateAuditTokenKey(id) \in keys
    <2>1. KeysLeft(gone, n, keys, ConsumedIds(t), t)
      BY <1>3, DeletesExactly
    <2> HIDE DEF gone
    <2> QED
      BY <2>1 DEF KeysLeft
  <1>5. /\ \A key \in new : Shaped(key)
        /\ \A id : CreateFabTokenKey(id) \in new <=> id \in CreatedIds(t) /\ Keeps(n, id)
        /\ \A w, typ, id : CreateExtendedFabTokenKey(w, typ, id) \in new <=>
              /\ id \in CreatedIds(t) /\ Keeps(n, id)
              /\ typ = TokenOf(id).type /\ w \in WalletIdsOf(n, TokenOf(id).owner)
        /\ \A id, who : CreateDeletedTokenKey(id, who) \notin new
        /\ n = AuditorNode => \A id \in CreatedIds(t) : CreateAuditTokenKey(id) \in new
    BY StoresExactly
  <1>6. TokenRequestKeys(n, t, keys) = gone \cup new
    BY DEF TokenRequestKeys
  <1>7. /\ \A id : CreateFabTokenKey(id) \in keys <=> id \in LeftBy(seen) /\ Keeps(n, id)
        /\ \A w, typ, id : CreateExtendedFabTokenKey(w, typ, id) \in keys <=>
              /\ id \in LeftBy(seen) /\ Keeps(n, id)
              /\ typ = TokenOf(id).type /\ w \in WalletIdsOf(n, TokenOf(id).owner)
        /\ \A id, u : CreateDeletedTokenKey(id, u) \in keys => u \in seen /\ id \in ConsumedIds(u)
        /\ \A u \in seen : \A id \in ConsumedIds(u) :
              IsMine(n, id) => CreateDeletedTokenKey(id, u) \in keys
        /\ n = AuditorNode => \A u \in seen : \A id \in CreatedIds(u) : CreateAuditTokenKey(id) \in keys
    BY DEF Exact
  <1> HIDE DEF gone, new
  <1>8. Exact(n, gone \cup new, more)
    <2>1. \A key \in gone \cup new : Shaped(key)
      BY <1>4, <1>5
    <2>2. ASSUME NEW id
          PROVE  CreateFabTokenKey(id) \in gone \cup new <=> id \in LeftBy(more) /\ Keeps(n, id)
      BY <1>2, <1>4, <1>5, <1>7
    <2>3. ASSUME NEW w, NEW typ, NEW id
          PROVE  CreateExtendedFabTokenKey(w, typ, id) \in gone \cup new <=>
                    /\ id \in LeftBy(more) /\ Keeps(n, id)
                    /\ typ = TokenOf(id).type /\ w \in WalletIdsOf(n, TokenOf(id).owner)
      <3> DEFINE fits == typ = TokenOf(id).type /\ w \in WalletIdsOf(n, TokenOf(id).owner)
                 key == CreateExtendedFabTokenKey(w, typ, id)
      <3>1. key \in keys <=> id \in LeftBy(seen) /\ Keeps(n, id) /\ fits
        BY <1>7
      <3>2. key \in gone <=> key \in keys /\ ~(id \in ConsumedIds(t) /\ CreateFabTokenKey(id) \in keys /\ fits)
        BY <1>4
      <3>3. key \in new <=> id \in CreatedIds(t) /\ Keeps(n, id) /\ fits
        BY <1>5
      <3> HIDE DEF fits, key
      <3>4. key \in gone \cup new <=> id \in LeftBy(more) /\ Keeps(n, id) /\ fits
        BY <1>2, <1>7, <3>1, <3>2, <3>3
      <3> QED
        BY <3>4 DEF fits, key
    <2>4. ASSUME NEW id, NEW u, CreateDeletedTokenKey(id, u) \in gone \cup new
          PROVE  u \in more /\ id \in ConsumedIds(u)
      BY <1>4, <1>5, <1>7, <2>4
    <2>5. ASSUME NEW u \in more, NEW id \in ConsumedIds(u), IsMine(n, id)
          PROVE  CreateDeletedTokenKey(id, u) \in gone \cup new
      <3>1. CASE id \in ConsumedIds(t)
        BY <1>4, <2>5, <3>1
      <3>2. CASE id \notin ConsumedIds(t)
        BY <1>4, <1>7, <2>5, <3>2
      <3> QED
        BY <3>1, <3>2
    <2>6. n = AuditorNode => \A u \in more : \A id \in CreatedIds(u) : CreateAuditTokenKey(id) \in gone \cup new
      BY <1>4, <1>5, <1>7
    <2> QED
      BY <2>1, <2>2, <2>3, <2>4, <2>5, <2>6 DEF Exact
  <1>9. ASSUME n # AuditorNode, \A id \in CreatedIds(t) \cup ConsumedIds(t) : ~IsMine(n, id)
        PROVE  Exact(n, keys, more)
    <2>1. \A id : id \in LeftBy(more) /\ Keeps(n, id) <=> id \in LeftBy(seen) /\ Keeps(n, id)
      BY <1>2, <1>9 DEF Keeps
    <2>2. \A w, typ, id : CreateExtendedFabTokenKey(w, typ, id) \in keys <=>
              /\ id \in LeftBy(more) /\ Keeps(n, id)
              /\ typ = TokenOf(id).type /\ w \in WalletIdsOf(n, TokenOf(id).owner)
      BY <1>7, <2>1
    <2>3. \A u \in more : \A id \in ConsumedIds(u) : IsMine(n, id) => CreateDeletedTokenKey(id, u) \in keys
      BY <1>7, <1>9
    <2> QED
      BY <1>3, <1>7, <1>9, <2>1, <2>2, <2>3 DEF Exact
  <1> QED
    BY <1>6, <1>8, <1>9

\* Whoever is concerned by a transaction that took effect knows it.
Informed ==
    \A n \in Nodes, t \in settled :
        n = AuditorNode \/ (\E id \in CreatedIds(t) \cup ConsumedIds(t) : IsMine(n, id)) => Known(n, t)

\* The store says what the queries answer.
LEMMA ExactAnswers ==
    ASSUME NetworkInv, ChainInv, NEW n \in Nodes, TokensOK(n)
    PROVE  LET own == {id \in UnspentAt(n) : Keeps(n, id)}
           IN /\ UnspentTokens(n) = own
              /\ \A w, typ : ListTokens(n, w, typ) =
                    {id \in own : /\ w \in WalletIdsOf(n, TokenOf(id).owner)
                                  /\ typ \in {AnyType, TokenOf(id).type}}
              /\ \A id : IsMine(n, id) => WhoDeletedTokens(store[n], id) =
                                             {u \in ProcessedAt(n) : id \in ConsumedIds(u)}
              /\ n = AuditorNode =>
                    ListAuditTokens(store[n], UNION {CreatedIds(t) : t \in ProcessedAt(n)})
  <1> DEFINE own == {id \in UnspentAt(n) : Keeps(n, id)}
             keys == store[n]
  <1>0. Exact(n, keys, ProcessedAt(n)) /\ UnspentAt(n) = LeftBy(ProcessedAt(n))
    BY DEF TokensOK, UnspentAt, LeftBy
  <1>1. \A key \in keys : Shaped(key)
    BY <1>0 DEF Exact
  <1>2. /\ \A id : id \in UnspentTokensIterator(keys) <=> CreateFabTokenKey(id) \in keys
        /\ \A id, who : who \in WhoDeletedTokens(keys, id) <=> CreateDeletedTokenKey(id, who) \in keys
        /\ \A w, typ, id : id \in UnspentTokensIteratorBy(keys, w, typ) <=>
                 \E ty : /\ CreateExtendedFabTokenKey(w, ty, id) \in keys
                         /\ typ = AnyType \/ ty = typ
    BY <1>1, Scans
  <1>3. UnspentTokens(n) = own
    <2>1. \A id : id \in UnspentTokens(n) <=> id \in own
      BY <1>0, <1>2 DEF UnspentTokens, Exact
    <2> QED
      BY <2>1 DEF UnspentTokens, UnspentTokensIterator
  <1>4. ASSUME NEW w, NEW typ
        PROVE  ListTokens(n, w, typ) =
                    {id \in own : /\ w \in WalletIdsOf(n, TokenOf(id).owner)
                                  /\ typ \in {AnyType, TokenOf(id).type}}
    <2>1. \A id : id \in ListTokens(n, w, typ) <=>
                    /\ id \in own /\ w \in WalletIdsOf(n, TokenOf(id).owner)
                    /\ typ \in {AnyType, TokenOf(id).type}
      <3> TAKE id
      <3> DEFINE at == w \in WalletIdsOf(n, TokenOf(id).owner)
                 type == TokenOf(id).type
      <3>1. id \in ListTokens(n, w, typ) <=>
                \E ty : CreateExtendedFabTokenKey(w, ty, id) \in keys /\ (typ = AnyType \/ ty = typ)
        BY <1>2 DEF ListTokens
      <3>2. \A ty : CreateExtendedFabTokenKey(w, ty, id) \in keys <=> id \in own /\ ty = type /\ at
        BY <1>0 DEF Exact
      <3> HIDE DEF at, type, own, keys
      <3>3. id \in ListTokens(n, w, typ) <=> id \in own /\ at /\ (typ = AnyType \/ type = typ)
        BY <3>1, <3>2
      <3> QED
        BY <3>3 DEF at, type
    <2> QED
      BY <2>1 DEF ListTokens, UnspentTokensIteratorBy
  <1>5. ASSUME NEW id, IsMine(n, id)
        PROVE  WhoDeletedTokens(keys, id) = {u \in ProcessedAt(n) : id \in ConsumedIds(u)}
    <2>1. \A u : u \in WhoDeletedTokens(keys, id) <=> u \in ProcessedAt(n) /\ id \in ConsumedIds(u)
      BY <1>0, <1>2, <1>5 DEF Exact
    <2> QED
      BY <2>1 DEF WhoDeletedTokens
  <1>6. n = AuditorNode => ListAuditTokens(keys, UNION {CreatedIds(t) : t \in ProcessedAt(n)})
    BY <1>0 DEF Exact, ListAuditTokens
  <1> QED
    BY <1>3, <1>4, <1>5, <1>6

\* Steps that the nodes do not see.
LEMMA SameStores ==
    ASSUME StoresExact, UNCHANGED store, \A n \in Nodes : ProcessedAt(n)' = ProcessedAt(n)
    PROVE  StoresExact'
  <1> SUFFICES ASSUME NEW n \in Nodes PROVE TokensOK(n)'
    BY DEF StoresExact
  <1> QED
    <2>1. Exact(n, store[n], ProcessedAt(n)) /\ store' = store /\ ProcessedAt(n)' = ProcessedAt(n)
      BY DEF StoresExact, TokensOK
    <2> QED
      BY <2>1 DEF TokensOK

Seen == \A n \in Nodes : ProcessedAt(n) = {t \in settled : Processed(n, t)}

LEMMA ProcessedHere == NetworkInv => Seen
  BY ProcessedAre DEF Seen

LEMMA OrderKeepsStores ==
    ASSUME NetworkInv, StoresExact, NEW t \in TxIds, Order(t)
    PROVE  StoresExact'
  <1>1. /\ NetworkInv' /\ ~Ordered(t)
        /\ \A n \in Nodes, u \in TxIds : Processed(n, u)' <=> Processed(n, u)
    BY OrderEffect
  <1>2. settled' = settled \cup {t} \/ settled' = settled
    BY DEF Order, Network!Settle, ledgerVars
  <1>3. NetworkInv'
    BY <1>1
  <1>4. Seen /\ Seen'
    BY <1>3, ProcessedHere, PTL
  <1>5. ASSUME NEW n \in Nodes PROVE ProcessedAt(n)' = ProcessedAt(n)
    <2>1. ProcessedAt(n) = {u \in settled : Processed(n, u)}
      BY <1>4 DEF Seen
    <2>2. ProcessedAt(n)' = {u \in settled' : Processed(n, u)'}
      BY <1>4 DEF Seen
    <2>3. ~Processed(n, t)
      BY <1>1, ProcessedIsOrdered
    <2>4. settled \subseteq TxIds
      BY DEF NetworkInv, LedgerOK
    <2> QED
      BY <1>1, <1>2, <2>1, <2>2, <2>3, <2>4
  <1>6. UNCHANGED store
    BY DEF Order
  <1> QED
    BY <1>5, <1>6, SameStores

LEMMA ProcessKeepsStores ==
    ASSUME NetworkInv, StoreOK, ChainInv, StoresExact, Informed,
           NEW n \in Nodes, NEW k \in Networks, Process(n, k)
    PROVE  StoresExact'
  <1>1. NetworkInv'
    BY ProcessEffect
  <1>2. PICK t \in TxIds :
           /\ t = chain[k][height[n][k] + 1]
           /\ store' = IF Relevant(n, t)
                       THEN [store EXCEPT ![n] = TokenRequestKeys(n, t, store[n])] ELSE store
           /\ Processed(n, t)'
           /\ \A u \in TxIds : Processed(n, u)' => Processed(n, u) \/ u = t
           /\ \A m \in Nodes \ {n}, u \in TxIds : Processed(m, u)' <=> Processed(m, u)
           /\ \A u \in TxIds : Processed(n, u) => Processed(n, u)'
    BY ProcessEffect
  <1>3. Seen /\ Seen'
    BY <1>1, ProcessedHere, PTL
  <1>4. settled' = settled /\ settled \subseteq TxIds
    BY DEF Process, networkVars, NetworkInv, LedgerOK
  <1>5. \A m \in Nodes \ {n} : ProcessedAt(m)' = ProcessedAt(m)
    BY <1>2, <1>3, <1>4 DEF Seen
  <1>6. ProcessedAt(n)' = ProcessedAt(n) \cup ({t} \cap settled)
    BY <1>2, <1>3, <1>4 DEF Seen
  <1>7. CASE t \notin settled
    <2>1. UNCHANGED store
      BY <1>2, <1>7 DEF Relevant
    <2>2. \A m \in Nodes : ProcessedAt(m)' = ProcessedAt(m)
      BY <1>5, <1>6, <1>7
    <2> QED
      BY <2>1, <2>2, SameStores
  <1>8. CASE t \in settled
    <2> DEFINE keys == store[n]
               seen == ProcessedAt(n)
    <2>1. seen = {u \in settled : Processed(n, u)} /\ seen \subseteq TxIds
      BY <1>3, <1>4 DEF Seen
    <2>2. t \notin seen /\ \A id \in ConsumedIds(t) : Processed(n, id[1])
      BY <1>2, <1>8, <2>1, SeenInOrder
    <2>3. \A u \in seen : \A id \in ConsumedIds(u) : Processed(n, id[1])
      BY <2>1, SeenWithParents
    <2>4. \A u \in settled : \A id \in ConsumedIds(u) : id[1] \in settled
      BY DEF NetworkInv, LedgerOK
    <2>5. \A u \in seen \cup {t} : \A id \in ConsumedIds(u) : id[1] \in seen
      BY <1>8, <2>1, <2>2, <2>3, <2>4
    <2>6. \A u \in seen : ConsumedIds(u) \cap ConsumedIds(t) = {}
      BY <1>8, <2>1, <2>2 DEF ChainInv
    <2>7. Exact(n, keys, seen)
      BY DEF StoresExact, TokensOK
    <2> HIDE DEF keys, seen
    <2>8. /\ Exact(n, TokenRequestKeys(n, t, keys), seen \cup {t})
          /\ (n # AuditorNode /\ \A id \in CreatedIds(t) \cup ConsumedIds(t) : ~IsMine(n, id))
                 => Exact(n, keys, seen \cup {t})
      BY <2>1, <2>2, <2>5, <2>6, <2>7, OneMore
    <2>9. ProcessedAt(n)' = seen \cup {t}
      BY <1>6, <1>8 DEF seen
    <2>10. Exact(n, store'[n], seen \cup {t})
      <3>1. CASE Known(n, t)
        <4>1. store'[n] = TokenRequestKeys(n, t, keys)
          BY <1>2, <1>8, <3>1 DEF Relevant, keys, StoreOK
        <4> QED
          BY <2>8, <4>1
      <3>2. CASE ~Known(n, t)
        <4>1. store'[n] = keys
          BY <1>2, <3>2 DEF Relevant, keys
        <4>2. n # AuditorNode /\ \A id \in CreatedIds(t) \cup ConsumedIds(t) : ~IsMine(n, id)
          BY <1>8, <3>2 DEF Informed
        <4> QED
          BY <2>8, <4>1, <4>2
      <3> QED
        BY <3>1, <3>2
    <2>11. \A m \in Nodes \ {n} : store'[m] = store[m]
      BY <1>2
    <2>12. ASSUME NEW m \in Nodes PROVE TokensOK(m)'
      <3>1. Exact(m, store'[m], ProcessedAt(m)')
        BY <1>5, <2>9, <2>10, <2>11 DEF StoresExact, TokensOK
      <3> QED
        BY <3>1 DEF TokensOK, Exact, LeftBy, Keeps, IsMine, Opens, TokenOf, WalletIdsOf, CreatedIds, ConsumedIds
    <2> QED
      BY <2>12 DEF StoresExact
  <1> QED
    BY <1>7, <1>8

LEMMA InitStores == VaultInit => StoresExact
  <1> SUFFICES ASSUME VaultInit, NEW n \in Nodes PROVE TokensOK(n)
    BY DEF StoresExact
  <1>1. /\ chain = Genesis /\ settled = InGenesis
        /\ height = [m \in Nodes |-> [k \in Networks |-> Len(Genesis[k])]]
        /\ store = [m \in Nodes |-> UNION {StoreOutputs(m, t) : t \in InGenesis}]
    BY DEF VaultInit
  <1>2. \A k \in Networks : Genesis[k] \in Seq(TxIds)
    BY VaultAssumption
  <1>3. \A t \in InGenesis : \E k \in Networks : t \in Range(Genesis[k])
    BY DEF InGenesis
  <1>4. ASSUME NEW t \in InGenesis PROVE Processed(n, t) /\ t \in TxIds /\ ConsumedIds(t) = {}
    <2>1. PICK k \in Networks : t \in Range(Genesis[k])
      BY <1>3
    <2>2. PICK i \in DOMAIN Genesis[k] : Genesis[k][i] = t
      BY <2>1 DEF Range
    <2>3. NetworkOf[t] = k /\ InputsOf(t) = {}
      BY <2>1, VaultAssumption
    <2>4. i \in 1 .. Len(Genesis[k]) /\ t \in TxIds
      BY <1>2, <2>2
    <2>5. height[n][k] = Len(Genesis[k])
      BY <1>1
    <2> QED
      BY <1>1, <2>2, <2>3, <2>4, <2>5 DEF Processed, ConsumedIds, Consumed
  <1>5. NetworkInv
    BY InitVault DEF VaultInv
  <1>6. ProcessedAt(n) = InGenesis
    BY <1>1, <1>4, <1>5, ProcessedAre
  <1>7. LeftBy(InGenesis) = UNION {CreatedIds(t) : t \in InGenesis}
    BY <1>4 DEF LeftBy
  <1> DEFINE keys == UNION {StoreOutputs(n, t) : t \in InGenesis}
  <1>8. ASSUME NEW t \in InGenesis
        PROVE  /\ \A key \in StoreOutputs(n, t) : Shaped(key)
               /\ \A id : CreateFabTokenKey(id) \in StoreOutputs(n, t) <=> id \in CreatedIds(t) /\ Keeps(n, id)
               /\ \A w, typ, id : CreateExtendedFabTokenKey(w, typ, id) \in StoreOutputs(n, t) <=>
                     /\ id \in CreatedIds(t) /\ Keeps(n, id)
                     /\ typ = TokenOf(id).type /\ w \in WalletIdsOf(n, TokenOf(id).owner)
               /\ \A id, who : CreateDeletedTokenKey(id, who) \notin StoreOutputs(n, t)
               /\ n = AuditorNode => \A id \in CreatedIds(t) : CreateAuditTokenKey(id) \in StoreOutputs(n, t)
    BY <1>4, StoresExactly
  <1>9. \A key : key \in keys <=> \E t \in InGenesis : key \in StoreOutputs(n, t)
    OBVIOUS
  <1> HIDE DEF keys
  <1>10. \A id : id \in LeftBy(InGenesis) <=> \E t \in InGenesis : id \in CreatedIds(t)
    BY <1>7
  <1>11. Exact(n, keys, InGenesis)
    <2>1. \A key \in keys : Shaped(key)
      BY <1>8, <1>9
    <2>2. \A id : CreateFabTokenKey(id) \in keys <=> id \in LeftBy(InGenesis) /\ Keeps(n, id)
      BY <1>8, <1>9, <1>10
    <2>3. ASSUME NEW w, NEW typ, NEW id
          PROVE  CreateExtendedFabTokenKey(w, typ, id) \in keys <=>
                    /\ id \in LeftBy(InGenesis) /\ Keeps(n, id)
                    /\ typ = TokenOf(id).type /\ w \in WalletIdsOf(n, TokenOf(id).owner)
      <3> DEFINE fits == typ = TokenOf(id).type /\ w \in WalletIdsOf(n, TokenOf(id).owner)
                 key == CreateExtendedFabTokenKey(w, typ, id)
      <3>1. \A t \in InGenesis : key \in StoreOutputs(n, t) <=> id \in CreatedIds(t) /\ Keeps(n, id) /\ fits
        BY <1>8
      <3> HIDE DEF fits, key
      <3>2. key \in keys <=> id \in LeftBy(InGenesis) /\ Keeps(n, id) /\ fits
        BY <1>9, <1>10, <3>1
      <3> QED
        BY <3>2 DEF fits, key
    <2>4. \A id, u : CreateDeletedTokenKey(id, u) \notin keys
      BY <1>8, <1>9
    <2>5. \A u \in InGenesis : ConsumedIds(u) = {}
      BY <1>4
    <2>6. n = AuditorNode => \A u \in InGenesis : \A id \in CreatedIds(u) : CreateAuditTokenKey(id) \in keys
      BY <1>8, <1>9
    <2> QED
      BY <2>1, <2>2, <2>3, <2>4, <2>5, <2>6 DEF Exact
  <1> QED
    BY <1>1, <1>6, <1>11 DEF TokensOK, keys
=============================================================================
