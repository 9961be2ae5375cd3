------------------------ MODULE TokenChaincodeProofs ------------------------
(***************************************************************************)
(* Proofs about the token chaincode, for any set of requests, any history   *)
(* of stale and repeated deliveries, with token keys or serial numbers.     *)
(*                                                                          *)
(* The first part is about the ledger: what is on it is the outcome of the  *)
(* transactions that took effect.  The second part is about what validation *)
(* guarantees for ever after.                                               *)
(*                                                                          *)
(* The supply of a type is conserved.  The argument follows a request: the  *)
(* validator compares sums that are exact, since a sum that does not fit     *)
(* panics (SumsAreExact, ValidMeansBalanced); a balanced request adds to     *)
(* the worth of the ledger what it issues less what it redeems, because the  *)
(* translator gives every output a key of its own (KeysDiffer, NetEffect);   *)
(* and a commit, however late, applies the effect of the request that was    *)
(* validated, because a token never changes value (SupplyInv).               *)
(*                                                                          *)
(* Claims are public.  What the validator found out about the scripts of a    *)
(* request outlives the state it looked at, since a token never changes        *)
(* (ScriptsOK); that the script of the first input decides for every token      *)
(* that is worth something follows from the sums being equal (OnlyTheFirst).   *)
(***************************************************************************)
EXTENDS TokenChaincode, FoldTheorems, TLAPS

(***************************************************************************)
(* What an endorsement in flight still knows: when it was simulated its     *)
(* request, outputs and metadata were not on the ledger and its inputs were *)
(* unspent.  Delivered while its reads are current, all of it still holds.  *)
(***************************************************************************)
EndorsementOK(e) ==
    /\ \A key \in TokenWrites(e.tx) \cup MetadataWrites(e.tx) \cup {CreateTokenRequestKey(e.tx)} :
          e.reads[key] = 0
    /\ \A key \in SpentKeys(e.tx) : e.reads[key] # 0 <=> ~GraphHiding
    /\ GraphHiding => \A id \in InputsOf(e.tx) : CreateTokenKey(id) \in DOMAIN ledger

\* A spent token was created by a transaction that took effect.
SpentWereCreated ==
    \A t \in Committed : \A id \in InputsOf(t) :
        id[1] \in Committed /\ CreateTokenKey(id) \in TokenWrites(id[1])

IInv ==
    /\ TypeOK
    /\ \A e \in endorsed : EndorsementOK(e)
    /\ LedgerIsHistory
    /\ SpentWereCreated
    /\ NoDoubleSpend
    /\ MetadataHasOneOwner

-----------------------------------------------------------------------------
\* Keys of different kinds, and request keys of different transactions, differ.
LEMMA KeyKinds ==
    ASSUME NEW t \in TxIds
    PROVE  /\ CreateTokenRequestKey(t)[1] = "token_request"
           /\ CreateTokenRequestKey(t)[2] = t
           /\ \A key \in TokenWrites(t) : key[1] = "token" /\ key[2] = t
           /\ \A key \in MetadataWrites(t) : key[1] \in {"iam", "tam"}
           /\ \A key \in SpentKeys(t) : key[1] = IF GraphHiding THEN "sn" ELSE "token"
           /\ SetupKey[1] = "setup"
  BY DEF CreateTokenRequestKey, TokenWrites, OutputKeys, OutputKey, CreateTokenKey,
         MetadataWrites, MetadataKeysOf, CreateIssueActionMetadataKey,
         CreateTransferActionMetadataKey, SpentKeys, GetInputs, CreateSNKey, SetupKey

\* The keys of the inputs of a request are the keys of its tokens.
LEMMA InputKeys ==
    ASSUME NEW t \in TxIds
    PROVE  SpentKeys(t) = {IF GraphHiding THEN CreateSNKey(id) ELSE CreateTokenKey(id) :
                               id \in InputsOf(t)}
  BY DEF SpentKeys, GetInputs, InputsOf

\* A request reads every key it sets and every key it spends.
LEMMA ReadsCoverWrites ==
    ASSUME NEW t \in TxIds
    PROVE  SetKeys(t) \cup SpentKeys(t) \subseteq ReadKeys(t)
  BY DEF SetKeys, SpentKeys, ReadKeys, ActionReads, TokenWrites, MetadataWrites

\* A key reads as version 0 iff it is not on the ledger.
LEMMA VersionZero ==
    ASSUME TypeOK, NEW key
    PROVE  /\ GetState(key) \in Nat
           /\ GetState(key) = 0 <=> key \notin DOMAIN ledger
  BY DEF TypeOK, Entry, GetState

\* A request is a sequence of well-formed actions.
LEMMA ActionsType ==
    ASSUME NEW t \in TxIds
    PROVE  Actions(t) \in Seq(Action)
  <1>1. Request[t] \in RequestType
    BY RequestAssumption
  <1>2. Request[t].issues \in Seq(IssueAction) /\ Request[t].transfers \in Seq(TransferAction)
    BY <1>1 DEF RequestType
  <1>3. IssueAction \subseteq Action /\ TransferAction \subseteq Action
    BY DEF IssueAction, TransferAction
  <1>4. Request[t].issues \in Seq(Action) /\ Request[t].transfers \in Seq(Action)
    BY <1>2, <1>3
  <1> QED
    BY <1>4 DEF Actions

\* The k-th element of a concatenation.
LEMMA ConcatElement ==
    ASSUME NEW S, NEW r \in Seq(S), NEW s \in Seq(S), NEW k \in DOMAIN (r \o s)
    PROVE  \/ k \in DOMAIN r /\ (r \o s)[k] = r[k]
           \/ \E l \in DOMAIN s : (r \o s)[k] = s[l]
  <1>1. Len(r) \in Nat /\ Len(s) \in Nat /\ k \in 1 .. (Len(r) + Len(s))
    OBVIOUS
  <1>2. CASE k <= Len(r)
    BY <1>1, <1>2
  <1>3. CASE ~(k <= Len(r))
    <2>1. k - Len(r) \in 1 .. Len(s)
      BY <1>1, <1>3
    <2>2. (r \o s)[k] = s[k - Len(r)]
      BY <1>1, <1>3
    <2> QED
      BY <2>1, <2>2
  <1> QED
    BY <1>2, <1>3

\* Only a transfer consumes tokens.
LEMMA SpendersAreTransfers ==
    ASSUME NEW t \in TxIds, NEW k \in DOMAIN Actions(t), Actions(t)[k].inputs # << >>
    PROVE  /\ ~IsIssue(Actions(t)[k])
           /\ \E l \in DOMAIN Request[t].transfers : Actions(t)[k] = Request[t].transfers[l]
  <1> DEFINE is == Request[t].issues
             ts == Request[t].transfers
  <1>1. is \in Seq(IssueAction) /\ ts \in Seq(TransferAction)
    BY RequestAssumption DEF RequestType
  <1>2. is \in Seq(Action) /\ ts \in Seq(Action)
    BY <1>1 DEF IssueAction, TransferAction
  <1>3. Actions(t) = is \o ts
    BY DEF Actions
  <1>4. CASE k \in DOMAIN is /\ Actions(t)[k] = is[k]
    BY <1>1, <1>4 DEF IssueAction
  <1>5. CASE \E l \in DOMAIN ts : Actions(t)[k] = ts[l]
    BY <1>1, <1>5 DEF TransferAction
  <1>6. \/ k \in DOMAIN is /\ Actions(t)[k] = is[k]
        \/ \E l \in DOMAIN ts : Actions(t)[k] = ts[l]
    <2> HIDE DEF is, ts
    <2> QED
      BY <1>2, <1>3, ConcatElement
  <1> QED
    BY <1>4, <1>5, <1>6

\* The value a request writes under a key is an output or no token at all.
LEMMA WrittenValueType ==
    ASSUME NEW t \in TxIds, NEW key
    PROVE  WrittenValue(t, key) \in Output \cup {NoToken}
  <1>1. CASE key \notin TokenWrites(t)
    BY <1>1 DEF WrittenValue
  <1>2. CASE key \in TokenWrites(t)
    <2>1. PICK k \in DOMAIN Actions(t) : \E i \in CreatedOutputs(Actions(t)[k]) :
                                             key = OutputKey(t, k, i)
      BY <1>2 DEF TokenWrites, OutputKeys
    <2>2. PICK i \in CreatedOutputs(Actions(t)[k]) : key = OutputKey(t, k, i)
      BY <2>1
    <2>3. <<k, i>> \in CreatedBy(t) /\ OutputKey(t, <<k, i>>[1], <<k, i>>[2]) = key
      BY <2>2 DEF CreatedBy
    <2> DEFINE w == CHOOSE w \in CreatedBy(t) : OutputKey(t, w[1], w[2]) = key
    <2>4. w \in CreatedBy(t)
      BY <2>3
    <2>5. w[1] \in DOMAIN Actions(t) /\ w[2] \in 1 .. NumOutputs(Actions(t)[w[1]])
      BY <2>4 DEF CreatedBy, CreatedOutputs
    <2>6. Actions(t)[w[1]] \in Action
      BY <2>5, ActionsType
    <2>7. Actions(t)[w[1]].outputs \in Seq(Output)
      BY <2>6 DEF Action
    <2>8. Actions(t)[w[1]].outputs[w[2]] \in Output
      BY <2>5, <2>7 DEF NumOutputs
    <2> QED
      BY <1>2, <2>8 DEF WrittenValue
  <1> QED
    BY <1>1, <1>2

-----------------------------------------------------------------------------
\* Nothing is endorsed, committed or spent when the chaincode is instantiated.
LEMMA InitInv == Init => IInv
  <1> SUFFICES ASSUME Init PROVE IInv
    OBVIOUS
  <1>1. DOMAIN ledger = {SetupKey} /\ endorsed = {} /\ height = 1
    BY DEF Init
  <1>2. Committed = {}
    BY <1>1 DEF Committed, CreateTokenRequestKey, SetupKey
  <1>3. TypeOK
    BY <1>1 DEF Init, TypeOK, Entry
  <1> QED
    BY <1>1, <1>2, <1>3 DEF IInv, LedgerIsHistory, SpentWereCreated, NoDoubleSpend,
       MetadataHasOneOwner

\* Simulating a request changes nothing on the ledger and endorses only a
\* request whose outputs are new and whose inputs are unspent.
LEMMA ProcessRequestInv ==
    ASSUME IInv, NEW t \in TxIds, ProcessRequest(t)
    PROVE  IInv'
  <1> DEFINE e == Endorsement(t)
  <1>1. UNCHANGED ledger /\ UNCHANGED height /\ endorsed' = endorsed \cup {e}
    BY DEF ProcessRequest
  <1>2. UNCHANGED Committed
    BY <1>1 DEF Committed
  <1>3. e.tx = t /\ e.reads = [key \in ReadKeys(t) |-> GetState(key)]
    BY DEF Endorsement
  <1>4. EndorsementType(e)
    BY <1>3, VersionZero DEF EndorsementType, IInv, Endorsement
  <1>5. EndorsementOK(e)
    <2>1. \A k \in DOMAIN Actions(t) : CheckAction(t, k) /\ MetadataIsFree(Actions(t)[k])
      BY DEF ProcessRequest, Write
    <2>2. ~Exists(CreateTokenRequestKey(t))
      BY DEF ProcessRequest, Write, CommitTokenRequest
    <2>3. \A key \in TokenWrites(t) : ~Exists(key)
      BY <2>1 DEF TokenWrites, CheckAction, CheckIssue, CheckTransfer, CheckTokensDoNotExist
    <2>4. \A key \in MetadataWrites(t) : ~Exists(key)
      BY <2>1 DEF MetadataWrites, MetadataIsFree
    <2>5. ASSUME NEW k \in DOMAIN Actions(t), Actions(t)[k].inputs # << >>
          PROVE  /\ ~IsIssue(Actions(t)[k])
                 /\ \E l \in DOMAIN Request[t].transfers : Actions(t)[k] = Request[t].transfers[l]
      BY <2>5, SpendersAreTransfers
    <2>6. \A key \in SpentKeys(t) : Exists(key) <=> ~GraphHiding
      <3> SUFFICES ASSUME NEW k \in DOMAIN Actions(t), NEW key \in GetInputs(Actions(t)[k])
                   PROVE  Exists(key) <=> ~GraphHiding
        BY DEF SpentKeys
      <3>1. ~IsIssue(Actions(t)[k])
        BY <2>5 DEF GetInputs, Range
      <3> QED
        BY <2>1, <3>1 DEF CheckAction, CheckTransfer
    <2>7. \A id \in InputsOf(t) : CreateTokenKey(id) \in DOMAIN ledger
      <3> SUFFICES ASSUME NEW k \in DOMAIN Actions(t), NEW id \in Range(Actions(t)[k].inputs)
                   PROVE  CreateTokenKey(id) \in DOMAIN ledger
        BY DEF InputsOf
      <3>1. PICK l \in DOMAIN Request[t].transfers : Actions(t)[k] = Request[t].transfers[l]
        BY <2>5 DEF Range
      <3>2. RetrieveInputs(Actions(t)[k])
        BY <3>1 DEF ProcessRequest, VerifyTokenRequest
      <3>3. Exists(CreateTokenKey(id))
        BY <3>2 DEF RetrieveInputs
      <3> QED
        BY <3>3, VersionZero DEF IInv, Exists
    <2>8. \A key \in SetKeys(t) \cup SpentKeys(t) : e.reads[key] = GetState(key)
      BY <1>3, ReadsCoverWrites
    <2>9. CreateTokenRequestKey(t) \in SetKeys(t) /\ TokenWrites(t) \subseteq SetKeys(t)
            /\ MetadataWrites(t) \subseteq SetKeys(t)
      BY DEF SetKeys
    <2> QED
      BY <1>3, <2>2, <2>3, <2>4, <2>6, <2>7, <2>8, <2>9 DEF EndorsementOK, Exists
  <1>6. TypeOK'
    BY <1>1, <1>4 DEF IInv, TypeOK, EndorsementType
  <1>7. \A f \in endorsed' : EndorsementOK(f)'
    BY <1>1, <1>5 DEF IInv, EndorsementOK
  <1> QED
    BY <1>1, <1>2, <1>6, <1>7 DEF IInv, LedgerIsHistory, SpentWereCreated, NoDoubleSpend,
       MetadataHasOneOwner

\* Delivering an endorsement whose reads are current: it did not take effect
\* before, everything it sets is new and everything it spends was unspent.
LEMMA CommitFacts ==
    ASSUME IInv, NEW e \in endorsed, Commit(e)
    PROVE  /\ e.tx \in TxIds \ Committed
           /\ SetKeys(e.tx) \cap DOMAIN ledger = {}
           /\ \A id \in InputsOf(e.tx) : CreateTokenKey(id) \in DOMAIN ledger
           /\ ~GraphHiding => SpentKeys(e.tx) \subseteq DOMAIN ledger
           /\ DOMAIN ledger' = (DOMAIN ledger \ DeletedKeys(e.tx)) \cup SetKeys(e.tx)
           /\ Committed' = Committed \cup {e.tx}
  <1> DEFINE t == e.tx
  <1>1. EndorsementOK(e) /\ EndorsementType(e) /\ TypeOK
    BY DEF IInv, TypeOK
  <1>2. t \in TxIds
    BY <1>1 DEF EndorsementType
  <1>3. \A key \in SetKeys(t) \cup SpentKeys(t) : GetState(key) = e.reads[key]
    BY <1>1, <1>2, ReadsCoverWrites DEF Commit, ReadsAreCurrent, EndorsementType
  <1>4. SetKeys(t) \cap DOMAIN ledger = {}
    <2> SUFFICES ASSUME NEW key \in SetKeys(t) PROVE key \notin DOMAIN ledger
      OBVIOUS
    <2>1. e.reads[key] = 0
      BY <1>1 DEF EndorsementOK, SetKeys
    <2> QED
      BY <1>1, <1>3, <2>1, VersionZero
  <1>5. t \notin Committed
    BY <1>4 DEF Committed, SetKeys
  <1>6. ~GraphHiding => SpentKeys(t) \subseteq DOMAIN ledger
    BY <1>1, <1>3, VersionZero DEF EndorsementOK
  <1>7. \A id \in InputsOf(t) : CreateTokenKey(id) \in DOMAIN ledger
    BY <1>1, <1>2, <1>6, InputKeys DEF EndorsementOK
  <1>8. DOMAIN ledger' = (DOMAIN ledger \ DeletedKeys(t)) \cup SetKeys(t)
    BY DEF Commit, Apply
  <1>9. Committed' = Committed \cup {t}
    <2>1. \A u \in TxIds : CreateTokenRequestKey(u) \notin DeletedKeys(t)
      BY <1>2, KeyKinds DEF DeletedKeys
    <2>2. \A u \in TxIds : CreateTokenRequestKey(u) \in SetKeys(t) <=> u = t
      BY <1>2, KeyKinds DEF SetKeys
    <2> QED
      BY <1>2, <1>8, <2>1, <2>2 DEF Committed
  <1> QED
    BY <1>2, <1>4, <1>5, <1>6, <1>7, <1>8, <1>9

\* Where a token key on the ledger comes from.
LEMMA TokenOrigin ==
    ASSUME IInv, NEW id \in TokenIds, CreateTokenKey(id) \in DOMAIN ledger
    PROVE  id[1] \in Committed /\ CreateTokenKey(id) \in TokenWrites(id[1])
  <1> DEFINE key == CreateTokenKey(id)
  <1>1. key[1] = "token" /\ key[2] = id[1]
    BY DEF CreateTokenKey
  <1>2. PICK u \in Committed : key \in SetKeys(u)
    BY <1>1, SetupKey[1] = "setup" DEF IInv, LedgerIsHistory, SetupKey
  <1>3. u \in TxIds
    BY DEF Committed
  <1>4. key \in TokenWrites(u)
    BY <1>1, <1>2, <1>3, KeyKinds DEF SetKeys
  <1> QED
    BY <1>1, <1>3, <1>4, KeyKinds

\* The inputs of a request are token identifiers.
LEMMA InputsAreTokens ==
    ASSUME NEW t \in TxIds
    PROVE  InputsOf(t) \subseteq TokenIds
  <1> SUFFICES ASSUME NEW k \in DOMAIN Actions(t), NEW id \in Range(Actions(t)[k].inputs)
               PROVE  id \in TokenIds
    BY DEF InputsOf
  <1>1. Actions(t)[k] \in Action
    BY ActionsType
  <1>2. Actions(t)[k].inputs \in Seq(TokenIds)
    BY <1>1 DEF Action
  <1> QED
    BY <1>2 DEF Range

\* What a transaction sets, no transaction that took effect ever deleted, nor
\* does it delete it itself.
LEMMA NothingComesBack ==
    ASSUME IInv, NEW e \in endorsed, Commit(e), NEW u \in Committed \cup {e.tx}
    PROVE  SetKeys(e.tx) \cap DeletedKeys(u) = {}
  <1> DEFINE t == e.tx
  <1>1. t \in TxIds \ Committed /\ u \in TxIds
    BY CommitFacts DEF Committed
  <1>2. SUFFICES ASSUME ~GraphHiding, NEW id \in InputsOf(u), CreateTokenKey(id) \in SetKeys(t)
                 PROVE  FALSE
    BY <1>1, InputKeys DEF DeletedKeys
  <1>3. CreateTokenKey(id) \in TokenWrites(t)
    BY <1>1, <1>2, KeyKinds DEF SetKeys, CreateTokenKey
  <1>4. id[1] = t
    BY <1>1, <1>3, KeyKinds DEF CreateTokenKey
  <1>5. CASE u = t
    BY <1>2, <1>5, CommitFacts
  <1>6. CASE u \in Committed
    BY <1>1, <1>2, <1>4, <1>6 DEF IInv, SpentWereCreated
  <1> QED
    BY <1>5, <1>6

\* Committing an endorsement keeps the invariant: what it read still holds.
LEMMA CommitInv ==
    ASSUME IInv, NEW e \in endorsed, Commit(e)
    PROVE  IInv'
  <1> DEFINE t == e.tx
  <1>1. /\ t \in TxIds \ Committed
        /\ SetKeys(t) \cap DOMAIN ledger = {}
        /\ \A id \in InputsOf(t) : CreateTokenKey(id) \in DOMAIN ledger
        /\ ~GraphHiding => SpentKeys(t) \subseteq DOMAIN ledger
        /\ DOMAIN ledger' = (DOMAIN ledger \ DeletedKeys(t)) \cup SetKeys(t)
        /\ Committed' = Committed \cup {t}
    BY CommitFacts
  <1>2. TypeOK'
    <2>1. height' \in Nat \ {0} /\ endorsed' = endorsed
      BY DEF Commit, IInv, TypeOK
    <2>2. ASSUME NEW key \in DOMAIN ledger'
          PROVE  ledger'[key] \in Entry
      <3>1. CASE key \in SetKeys(t)
        <4>1. ledger'[key] = [version |-> height + 1, value |-> WrittenValue(t, key)]
          BY <2>2, <3>1 DEF Commit, Apply
        <4>2. WrittenValue(t, key) \in Output \cup {NoToken}
          BY <1>1, WrittenValueType
        <4> QED
          BY <4>1, <4>2 DEF Entry, IInv, TypeOK
      <3>2. CASE key \notin SetKeys(t)
        BY <1>1, <2>2, <3>2 DEF Commit, Apply, IInv, TypeOK
      <3> QED
        BY <3>1, <3>2
    <2>3. ledger' \in [DOMAIN ledger' -> Entry]
      BY <2>2 DEF Commit, Apply
    <2>4. \A f \in endorsed : EndorsementType(f)
      BY DEF IInv, TypeOK
    <2> QED
      BY <2>1, <2>3, <2>4 DEF TypeOK, EndorsementType
  <1>3. \A f \in endorsed' : EndorsementOK(f)'
    <2> SUFFICES ASSUME NEW f \in endorsed PROVE EndorsementOK(f)'
      BY DEF Commit
    <2>1. EndorsementOK(f)
      BY DEF IInv
    <2>2. GraphHiding => DOMAIN ledger \subseteq DOMAIN ledger'
      BY <1>1 DEF DeletedKeys
    <2> QED
      BY <2>1, <2>2 DEF EndorsementOK
  <1>4. LedgerIsHistory'
    <2> DEFINE Set == {SetupKey} \cup (UNION {SetKeys(u) : u \in Committed})
               Del == UNION {DeletedKeys(u) : u \in Committed}
    <2>1. DOMAIN ledger = Set \ Del
      BY DEF IInv, LedgerIsHistory
    <2>2. SetKeys(t) \cap (Del \cup DeletedKeys(t)) = {}
      BY NothingComesBack
    <2>3. DOMAIN ledger' = (Set \cup SetKeys(t)) \ (Del \cup DeletedKeys(t))
      BY <1>1, <2>1, <2>2
    <2> QED
      BY <1>1, <2>3 DEF LedgerIsHistory
  <1>5. SpentWereCreated'
    <2> SUFFICES ASSUME NEW u \in Committed \cup {t}, NEW id \in InputsOf(u)
                 PROVE  id[1] \in Committed \cup {t} /\ CreateTokenKey(id) \in TokenWrites(id[1])
      BY <1>1 DEF SpentWereCreated
    <2>1. CASE u \in Committed
      BY <2>1 DEF IInv, SpentWereCreated
    <2>2. CASE u = t
      BY <1>1, <2>2, InputsAreTokens, TokenOrigin
    <2> QED
      BY <2>1, <2>2
  <1>6. \A u \in Committed : InputsOf(u) \cap InputsOf(t) = {}
    <2> SUFFICES ASSUME NEW u \in Committed, NEW id \in InputsOf(u), id \in InputsOf(t)
                 PROVE  FALSE
      OBVIOUS
    <2>1. u \in TxIds
      BY DEF Committed
    <2>2. CASE GraphHiding
      <3>1. CreateSNKey(id) \in SetKeys(t)
        BY <1>1, <2>2, InputKeys DEF SetKeys
      <3>2. CreateSNKey(id) \in SetKeys(u)
        BY <2>1, <2>2, InputKeys DEF SetKeys
      <3>3. CreateSNKey(id) \in DOMAIN ledger
        BY <2>2, <3>2 DEF IInv, LedgerIsHistory, DeletedKeys
      <3> QED
        BY <1>1, <3>1, <3>3
    <2>3. CASE ~GraphHiding
      <3>1. CreateTokenKey(id) \in DeletedKeys(u)
        BY <2>1, <2>3, InputKeys DEF DeletedKeys
      <3>2. CreateTokenKey(id) \notin DOMAIN ledger
        BY <3>1 DEF IInv, LedgerIsHistory
      <3> QED
        BY <1>1, <3>2
    <2> QED
      BY <2>2, <2>3
  <1>7. \A u \in Committed : MetadataWrites(u) \cap MetadataWrites(t) = {}
    <2> SUFFICES ASSUME NEW u \in Committed, NEW key \in MetadataWrites(u), key \in MetadataWrites(t)
                 PROVE  FALSE
      OBVIOUS
    <2>1. \A v \in TxIds : key \notin DeletedKeys(v)
      BY <1>1, KeyKinds DEF DeletedKeys
    <2>2. key \in SetKeys(u) /\ \A v \in Committed : key \notin DeletedKeys(v)
      BY <2>1 DEF SetKeys, Committed
    <2>3. key \in DOMAIN ledger
      BY <2>2 DEF IInv, LedgerIsHistory
    <2> QED
      BY <1>1, <2>3 DEF SetKeys
  <1> QED
    BY <1>1, <1>2, <1>3, <1>4, <1>5, <1>6, <1>7 DEF IInv, NoDoubleSpend, MetadataHasOneOwner

\* A stuttering step keeps the invariant.
LEMMA StutterInv == IInv /\ UNCHANGED vars => IInv'
  <1> SUFFICES ASSUME IInv, UNCHANGED vars PROVE IInv'
    OBVIOUS
  <1>1. UNCHANGED ledger /\ UNCHANGED height /\ UNCHANGED endorsed
    BY DEF vars
  <1>2. UNCHANGED Committed
    BY <1>1 DEF Committed
  <1>3. TypeOK'
    BY <1>1 DEF IInv, TypeOK, EndorsementType
  <1>4. (\A e \in endorsed : EndorsementOK(e))'
    BY <1>1 DEF IInv, EndorsementOK
  <1> QED
    BY <1>1, <1>2, <1>3, <1>4 DEF IInv, LedgerIsHistory, SpentWereCreated, NoDoubleSpend,
       MetadataHasOneOwner

\* IInv is inductive.
THEOREM InductiveInvariant == Spec => []IInv
  <1>1. IInv /\ [Next]_vars => IInv'
    BY ProcessRequestInv, CommitInv, StutterInv DEF Next
  <1> QED
    BY InitInv, <1>1, PTL DEF Spec

\* The state of the chaincode and of every endorsement is well formed.
THEOREM TypeCorrect == Spec => []TypeOK
  <1>1. IInv => TypeOK
    BY DEF IInv
  <1> QED
    BY InductiveInvariant, <1>1, PTL

\* No token is consumed by two transactions that took effect (the reads of
\* checkTransfer together with the commit-time check of what was read).
THEOREM NoDoubleSpendHolds == Spec => []NoDoubleSpend
  <1>1. IInv => NoDoubleSpend
    BY DEF IInv
  <1> QED
    BY InductiveInvariant, <1>1, PTL

\* The ledger holds exactly what the committed transactions set and did not
\* delete (commitIssueAction, commitTransferAction, CommitTokenRequest).
THEOREM LedgerIsHistoryHolds == Spec => []LedgerIsHistory
  <1>1. IInv => LedgerIsHistory
    BY DEF IInv
  <1> QED
    BY InductiveInvariant, <1>1, PTL

\* A metadata key is written by one transaction only (the occupancy checks of
\* the translator).
THEOREM MetadataHasOneOwnerHolds == Spec => []MetadataHasOneOwner
  <1>1. IInv => MetadataHasOneOwner
    BY DEF IInv
  <1> QED
    BY InductiveInvariant, <1>1, PTL

-----------------------------------------------------------------------------
\* A committed transaction's request key keeps its version, and what was
\* spent is never reported unspent again.
THEOREM SpentForeverHolds == Spec => SpentForever
  <1> DEFINE A == /\ \A t \in Committed :
                        ledger'[CreateTokenRequestKey(t)] = ledger[CreateTokenRequestKey(t)]
                  /\ \A t \in Committed : \A id \in CreatedIds(t) :
                        AreTokensSpent(id) => AreTokensSpent(id)'
  <1>1. ASSUME IInv, NEW e \in endorsed, Commit(e)
        PROVE  A
    <2> DEFINE t == e.tx
    <2>1. \A u \in Committed : CreateTokenRequestKey(u) \in DOMAIN ledger /\ u \in TxIds
      BY DEF Committed
    <2>2. \A key \in DOMAIN ledger : key \notin SetKeys(t)
      BY <1>1, CommitFacts
    <2>3. \A u \in Committed : CreateTokenRequestKey(u) \in DOMAIN ledger'
      BY <1>1, <2>1, CommitFacts DEF Committed
    <2>4. \A u \in Committed :
             ledger'[CreateTokenRequestKey(u)] = ledger[CreateTokenRequestKey(u)]
      BY <1>1, <2>1, <2>2, <2>3, CommitFacts DEF Commit, Apply
    <2>5. ASSUME NEW u \in Committed, NEW id \in CreatedIds(u), AreTokensSpent(id)
          PROVE  AreTokensSpent(id)'
      <3>1. TypeOK /\ TypeOK'
        BY <1>1, CommitInv DEF IInv
      <3>2. CASE GraphHiding
        <4>1. CreateSNKey(id) \in DOMAIN ledger
          BY <2>5, <3>1, <3>2, VersionZero DEF AreTokensSpent, Exists
        <4>2. CreateSNKey(id) \in DOMAIN ledger'
          BY <1>1, <3>2, <4>1, CommitFacts DEF DeletedKeys
        <4> QED
          BY <3>1, <3>2, <4>2 DEF AreTokensSpent, Exists, GetState, TypeOK, Entry
      <3>3. CASE ~GraphHiding
        <4>1. CreateTokenKey(id) \notin DOMAIN ledger
          BY <2>5, <3>1, <3>3, VersionZero DEF AreTokensSpent, Exists
        <4>2. u \in TxIds /\ t \in TxIds /\ u # t
          BY <1>1, <2>1, CommitFacts
        <4>3. PICK key \in TokenWrites(u) : id = TokenId(key)
          BY <2>5 DEF CreatedIds
        <4>4. id[1] = u
          BY <4>2, <4>3, KeyKinds DEF TokenId
        <4>5. CreateTokenKey(id) \notin SetKeys(t)
          BY <4>2, <4>4, KeyKinds DEF SetKeys, CreateTokenKey
        <4>6. CreateTokenKey(id) \notin DOMAIN ledger'
          BY <1>1, <4>1, <4>5, CommitFacts
        <4> QED
          BY <3>3, <4>6 DEF AreTokensSpent, Exists, GetState
      <3> QED
        BY <3>2, <3>3
    <2> QED
      BY <2>4, <2>5
  <1>2. ASSUME IInv, NEW t \in TxIds, ProcessRequest(t)
        PROVE  A
    BY <1>2 DEF ProcessRequest, AreTokensSpent, Exists, GetState
  <1>3. IInv /\ [Next]_vars => [A]_vars
    BY <1>1, <1>2 DEF Next
  <1> QED
    BY InductiveInvariant, <1>3, PTL DEF Spec, SpentForever

-----------------------------------------------------------------------------
\* A set of keys in which every token key is the key of its token, and the
\* tokens it leaves unspent.
TokenKeysOnly(keys) == \A key \in keys : key[1] = "token" => key = CreateTokenKey(TokenId(key))

\* A token is unspent when its key is there and, with hidden graphs, its serial
\* number is not.
LEMMA UnspentChar ==
    ASSUME NEW keys, TokenKeysOnly(keys), NEW a, NEW n
    PROVE  <<a, n>> \in UnspentIn(keys) <=>
               /\ CreateTokenKey(<<a, n>>) \in keys
               /\ GraphHiding => CreateSNKey(<<a, n>>) \notin keys
  <1>1. CreateTokenKey(<<a, n>>)[1] = "token" /\ TokenId(CreateTokenKey(<<a, n>>)) = <<a, n>>
    BY DEF CreateTokenKey, TokenId
  <1>2. \A key \in keys : key[1] = "token" /\ TokenId(key) = <<a, n>>
                             => key = CreateTokenKey(<<a, n>>)
    BY DEF TokenKeysOnly
  <1> QED
    BY <1>1, <1>2 DEF UnspentIn

\* An unspent token is a pair.
LEMMA UnspentArePairs ==
    ASSUME NEW keys, NEW id \in UnspentIn(keys)
    PROVE  id = <<id[1], id[2]>>
  BY DEF UnspentIn, TokenId

\* The token keys a request sets are those of the tokens it creates.
LEMMA WrittenAreTokenKeys ==
    ASSUME NEW t \in TxIds
    PROVE  /\ TokenKeysOnly(SetKeys(t))
           /\ \A id \in CreatedIds(t) :
                 id = <<id[1], id[2]>> /\ id[1] = t /\ CreateTokenKey(id) \in TokenWrites(t)
           /\ \A a, n : CreateTokenKey(<<a, n>>) \in SetKeys(t) => <<a, n>> \in CreatedIds(t)
  <1>1. \A key \in TokenWrites(t) : key = CreateTokenKey(TokenId(key)) /\ TokenId(key)[1] = t
    BY DEF TokenWrites, OutputKeys, OutputKey, CreateTokenKey, TokenId
  <1>2. \A key \in SetKeys(t) : key[1] = "token" => key \in TokenWrites(t)
    BY KeyKinds DEF SetKeys
  <1>3. \A a, n : CreateTokenKey(<<a, n>>)[1] = "token" /\ TokenId(CreateTokenKey(<<a, n>>)) = <<a, n>>
    BY DEF CreateTokenKey, TokenId
  <1>4. \A id \in CreatedIds(t) : id = <<id[1], id[2]>> /\ id[1] = t /\ CreateTokenKey(id) \in TokenWrites(t)
    BY <1>1 DEF CreatedIds, TokenId
  <1>5. \A a, n : CreateTokenKey(<<a, n>>) \in SetKeys(t) => <<a, n>> \in CreatedIds(t)
    BY <1>2, <1>3 DEF CreatedIds
  <1> QED
    BY <1>1, <1>2, <1>4, <1>5 DEF TokenKeysOnly

\* Every token key of the ledger is the key of a token.
LEMMA LedgerTokenKeys ==
    ASSUME IInv
    PROVE  TokenKeysOnly(DOMAIN ledger)
  <1> SUFFICES ASSUME NEW key \in DOMAIN ledger, key[1] = "token"
               PROVE  key = CreateTokenKey(TokenId(key))
    BY DEF TokenKeysOnly
  <1>1. PICK u \in Committed : key \in SetKeys(u)
    BY DEF IInv, LedgerIsHistory, SetupKey
  <1> QED
    BY <1>1, WrittenAreTokenKeys DEF Committed, TokenKeysOnly

\* A commit is a settlement of the abstract ledger.
LEMMA CommitSettles ==
    ASSUME IInv, NEW e \in endorsed, Commit(e)
    PROVE  Abstract!Settle(e.tx)
  <1> DEFINE t == e.tx
             D == DOMAIN ledger
  <1>1. /\ t \in TxIds \ Committed
        /\ SetKeys(t) \cap D = {}
        /\ \A id \in InputsOf(t) : CreateTokenKey(id) \in D
        /\ DOMAIN ledger' = (D \ DeletedKeys(t)) \cup SetKeys(t)
        /\ Committed' = Committed \cup {t}
    BY CommitFacts
  <1>2. TokenKeysOnly(D) /\ TokenKeysOnly(SetKeys(t)) /\ TokenKeysOnly(DOMAIN ledger')
    BY <1>1, LedgerTokenKeys, WrittenAreTokenKeys DEF TokenKeysOnly
  <1>3. \A id \in InputsOf(t) : id = <<id[1], id[2]>>
    BY <1>1, InputsAreTokens DEF TokenIds
  <1>4. InputsOf(t) \subseteq Unspent
    <2> SUFFICES ASSUME NEW id \in InputsOf(t) PROVE id \in UnspentIn(D)
      BY DEF Unspent
    <2>1. GraphHiding => CreateSNKey(id) \in SetKeys(t)
      BY <1>1, InputKeys DEF SetKeys
    <2>2. <<id[1], id[2]>> \in UnspentIn(D)
      BY <1>1, <1>2, <1>3, <2>1, UnspentChar
    <2> QED
      BY <1>3, <2>2
  <1>5. CreatedIds(t) \cap (Unspent \cup Spent) = {}
    <2> SUFFICES ASSUME NEW id \in CreatedIds(t) PROVE id \notin Unspent /\ id \notin Spent
      OBVIOUS
    <2>1. id = <<id[1], id[2]>> /\ id[1] = t /\ CreateTokenKey(id) \in SetKeys(t)
      BY <1>1, WrittenAreTokenKeys DEF SetKeys
    <2>2. id \notin UnspentIn(D)
      BY <1>1, <1>2, <2>1, UnspentChar
    <2>3. \A u \in Committed : id \notin InputsOf(u)
      BY <1>1, <2>1 DEF IInv, SpentWereCreated
    <2> QED
      BY <2>2, <2>3 DEF Unspent, Spent
  <1>6. Unspent' = (Unspent \ InputsOf(t)) \cup CreatedIds(t)
    <2>1. \A id \in Unspent' \cup Unspent \cup CreatedIds(t) : id = <<id[1], id[2]>>
      BY <1>1, UnspentArePairs, WrittenAreTokenKeys DEF Unspent
    <2>2. ASSUME NEW a, NEW n
          PROVE  <<a, n>> \in Unspent' <=> <<a, n>> \in (Unspent \ InputsOf(t)) \cup CreatedIds(t)
      <3> DEFINE id == <<a, n>>
                 tk == CreateTokenKey(id)
                 sn == CreateSNKey(id)
      <3>1. /\ id \in Unspent' <=> tk \in DOMAIN ledger' /\ (GraphHiding => sn \notin DOMAIN ledger')
            /\ id \in Unspent <=> tk \in D /\ (GraphHiding => sn \notin D)
        BY <1>2, UnspentChar DEF Unspent
      <3>2. tk \in SetKeys(t) <=> id \in CreatedIds(t)
        BY <1>1, WrittenAreTokenKeys DEF SetKeys
      <3>3. tk \in DeletedKeys(t) <=> ~GraphHiding /\ id \in InputsOf(t)
        <4>1. \A i \in InputsOf(t) : CreateTokenKey(i) = tk => i = id
          BY <1>3 DEF CreateTokenKey
        <4> QED
          BY <1>1, <4>1, InputKeys DEF DeletedKeys
      <3>4. GraphHiding => (sn \in SetKeys(t) <=> id \in InputsOf(t))
        <4>1. \A i \in InputsOf(t) : CreateSNKey(i) = sn => i = id
          BY <1>3 DEF CreateSNKey
        <4>2. sn[1] = "sn"
          BY DEF CreateSNKey
        <4>3. GraphHiding => (sn \in SetKeys(t) <=> sn \in SpentKeys(t))
          BY <1>1, <4>2, KeyKinds DEF SetKeys
        <4> QED
          BY <1>1, <4>1, <4>3, InputKeys
      <3>5. GraphHiding => DeletedKeys(t) = {}
        BY DEF DeletedKeys
      <3>6. id \in CreatedIds(t) => id \notin InputsOf(t) /\ (GraphHiding => sn \notin D)
        <4>1. id \in CreatedIds(t) => id \notin InputsOf(t)
          BY <1>4, <1>5
        <4>2. ASSUME id \in CreatedIds(t), GraphHiding, sn \in D PROVE FALSE
          <5>1. id[1] = t
            BY <1>1, <4>2, WrittenAreTokenKeys
          <5>2. sn[1] = "sn" /\ sn[2] = a /\ sn[3] = n
            BY DEF CreateSNKey
          <5>3. PICK u \in Committed : sn \in SetKeys(u)
            BY <4>2, <5>2 DEF IInv, LedgerIsHistory, SetupKey
          <5>4. u \in TxIds /\ sn \in SpentKeys(u)
            BY <5>2, <5>3, KeyKinds DEF SetKeys, Committed
          <5>5. PICK i \in InputsOf(u) : sn = CreateSNKey(i)
            BY <4>2, <5>4, InputKeys
          <5>6. i = id
            BY <5>4, <5>5, InputsAreTokens DEF CreateSNKey, TokenIds
          <5> QED
            BY <1>1, <5>1, <5>5, <5>6 DEF IInv, SpentWereCreated
        <4> QED
          BY <4>1, <4>2
      <3>7. tk \in DOMAIN ledger' <=> (tk \in D /\ tk \notin DeletedKeys(t)) \/ tk \in SetKeys(t)
        BY <1>1
      <3>8. GraphHiding => (sn \in DOMAIN ledger' <=> sn \in D \/ sn \in SetKeys(t))
        BY <1>1, <3>5
      <3>9. id \in Unspent' <=> (id \in Unspent /\ id \notin InputsOf(t)) \/ id \in CreatedIds(t)
        <4> HIDE DEF id, tk, sn
        <4> QED
          BY <3>1, <3>2, <3>3, <3>4, <3>6, <3>7, <3>8
      <3> QED
        BY <3>9
    <2> QED
      BY <2>1, <2>2
  <1>7. Spent' = Spent \cup InputsOf(t)
    BY <1>1 DEF Spent
  <1> QED
    BY <1>1, <1>4, <1>5, <1>6, <1>7 DEF Abstract!Settle

\* The token chaincode implements the abstract ledger.
THEOREM ChaincodeImplementsTokenLedger == Spec => ImplementsTokenLedger
  <1>1. Init => Abstract!Init
    <2> SUFFICES ASSUME Init PROVE Unspent = {} /\ Spent = {} /\ Committed = {}
      BY DEF Abstract!Init
    <2>1. DOMAIN ledger = {SetupKey}
      BY DEF Init
    <2>2. Committed = {}
      BY <2>1 DEF Committed, CreateTokenRequestKey, SetupKey
    <2> QED
      BY <2>1, <2>2 DEF Unspent, UnspentIn, Spent, SetupKey
  <1>2. IInv /\ [Next]_vars => [Abstract!Next]_(Abstract!ledgerVars)
    <2>1. ASSUME IInv, NEW e \in endorsed, Commit(e) PROVE Abstract!Next
      BY <2>1, CommitSettles, CommitFacts DEF Abstract!Next
    <2>2. ASSUME UNCHANGED ledger PROVE UNCHANGED Abstract!ledgerVars
      BY <2>2 DEF Abstract!ledgerVars, Unspent, Spent, Committed
    <2>3. ASSUME NEW t \in TxIds, ProcessRequest(t) PROVE UNCHANGED ledger
      BY <2>3 DEF ProcessRequest
    <2> QED
      BY <2>1, <2>2, <2>3 DEF Next, vars
  <1> QED
    BY InductiveInvariant, <1>1, <1>2, PTL DEF Spec, ImplementsTokenLedger, Abstract!Spec

-----------------------------------------------------------------------------
\* Quantities add up, or panic.

\* Powers of two are positive: 2 ^ n counts the subsets of 1 .. n.
LEMMA PowersOfTwo == \A n \in Nat : 2 ^ n \in Nat \ {0}
  <1> TAKE n \in Nat
  <1>1. IsFiniteSet(1 .. n) /\ Cardinality(1 .. n) = n
    BY FS_Interval
  <1>2. IsFiniteSet(SUBSET (1 .. n)) /\ Cardinality(SUBSET (1 .. n)) = 2 ^ n
    BY <1>1, FS_SUBSET
  <1>3. SUBSET (1 .. n) # {}
    OBVIOUS
  <1> QED
    BY <1>2, <1>3, FS_CardinalityType, FS_EmptySet

\* A sum of two words wraps at most once, and then it is less than either.
LEMMA WrapsOnce ==
    ASSUME NEW p \in Nat \ {0}, NEW q \in 0 .. (p - 1), NEW b \in 0 .. (p - 1)
    PROVE  \/ q + b < p /\ (q + b) % p = q + b
           \/ q + b >= p /\ (q + b) % p < q
  <1>1. ASSUME NEW n \in Nat, n < p + p
        PROVE  n % p = IF n < p THEN n ELSE n - p
    BY <1>1
  <1> DEFINE n == q + b
  <1>2. n \in Nat /\ n < p + p
    OBVIOUS
  <1>3. n % p = IF n < p THEN n ELSE n - p
    <2> HIDE DEF n
    <2> QED
      BY <1>1, <1>2
  <1>4. CASE n < p
    BY <1>3, <1>4
  <1>5. CASE ~(n < p)
    <2>1. n - p < q /\ n >= p
      BY <1>5
    <2> QED
      BY <1>3, <1>5, <2>1
  <1> QED
    BY <1>4, <1>5

\* Adding two quantities is addition, or a panic (uint64Quantity.Add, bigQuantity.Add).
LEMMA AddIsExact ==
    ASSUME NEW q \in Int, IsQuantity(q), NEW b \in Int, IsQuantity(b)
    PROVE  \/ Add(q, b) = Panic
           \/ Add(q, b) = q + b /\ IsQuantity(q + b)
  <1> DEFINE p == 2 ^ Precision
  <1>1. p \in Nat \ {0}
    BY PowersOfTwo, PrecisionAssumption
  <1>2. q \in 0 .. (p - 1) /\ b \in 0 .. (p - 1)
    BY DEF IsQuantity
  <1>3. \/ q + b < p /\ (q + b) % p = q + b /\ q + b \in 0 .. (p - 1) /\ ~(q + b < q)
        \/ (q + b) % p < q
    <2> HIDE DEF p
    <2>1. q + b < p => q + b \in 0 .. (p - 1) /\ ~(q + b < q)
      BY <1>1, <1>2
    <2> QED
      BY <1>1, <1>2, <2>1, WrapsOnce
  <1>4. q # Panic
    <2> HIDE DEF p
    <2> QED
      BY <1>1, <1>2 DEF Panic
  <1>5. CASE Precision = WordSize
    <2>1. Add(q, b) = IF (q + b) % p < q THEN Panic ELSE (q + b) % p
      BY <1>4, <1>5 DEF Add, UInt64Add
    <2> QED
      BY <1>3, <2>1 DEF IsQuantity
  <1>6. CASE Precision # WordSize
    BY <1>4, <1>6 DEF Add, BigAdd
  <1> QED
    BY <1>5, <1>6

\* A set of numbers has a greatest element.
LEMMA Greatest ==
    ASSUME NEW S \in SUBSET Int, IsFiniteSet(S)
    PROVE  \A T \in SUBSET S : T # {} => Max(T) \in T
  <1> DEFINE HasMax(T) == T # {} => \E x \in T : \A y \in T : x >= y
             P == {T \in SUBSET S : HasMax(T)}
  <1>1. ASSUME NEW T \in SUBSET S, \A x \in T : T \ {x} \in P
        PROVE  T \in P
    <2>1. CASE T = {}
      BY <2>1
    <2>2. CASE T # {}
      <3>1. PICK x \in T : TRUE
        BY <2>2
      <3>2. CASE T \ {x} = {}
        <4>1. \A y \in T : x >= y
          BY <3>2
        <4> QED
          BY <4>1
      <3>3. CASE T \ {x} # {}
        <4>1. PICK z \in T \ {x} : \A y \in T \ {x} : z >= y
          BY <1>1, <3>3
        <4>2. CASE x >= z
          <5>1. \A y \in T : x >= y
            BY <4>1, <4>2
          <5> QED
            BY <5>1
        <4>3. CASE ~(x >= z)
          <5>1. \A y \in T : z >= y
            BY <4>1, <4>3
          <5> QED
            BY <4>1, <5>1
        <4> QED
          BY <4>2, <4>3
      <3> QED
        BY <3>2, <3>3
    <2> QED
      BY <2>1, <2>2
  <1> HIDE DEF P
  <1>2. SUBSET S \subseteq P
    BY <1>1, SetInduction
  <1> QED
    BY <1>2 DEF P, Max

\* Adding quantities up, in whatever order, yields their sum or panics.
LEMMA AddsUp ==
    ASSUME NEW D, IsFiniteSet(D), NEW q, \A i \in D : q[i] \in Nat /\ IsQuantity(q[i]),
           NEW c, Chooses(c, D), NEW f,
           \A T \in SUBSET D : f[T] = IF T = {} THEN 0 ELSE Add(f[T \ {c[T]}], q[c[T]])
    PROVE  f[D] = Panic \/ f[D] = SumFunctionOnSet(q, D)
  <1> DEFINE Good(T) == \/ f[T] = Panic
                        \/ f[T] = SumFunctionOnSet(q, T) /\ IsQuantity(f[T])
             P == {T \in SUBSET D : Good(T)}
  <1>1. ASSUME NEW T \in SUBSET D, \A x \in T : T \ {x} \in P
        PROVE  T \in P
    <2>1. CASE T = {}
      <3>1. f[T] = 0
        BY <2>1
      <3>2. 2 ^ Precision \in Nat \ {0}
        BY PowersOfTwo, PrecisionAssumption
      <3>3. IsQuantity(f[T])
        BY <3>1, <3>2 DEF IsQuantity
      <3> QED
        BY <2>1, <3>1, <3>3, SumOfNothing
    <2>2. CASE T # {}
      <3> DEFINE x == c[T]
                 n == f[T \ {x}]
                 m == SumFunctionOnSet(q, T \ {x})
      <3>1. x \in T /\ IsFiniteSet(T) /\ IsFiniteSet(T \ {x})
        BY <2>2, FS_Subset DEF Chooses
      <3>2. f[T] = Add(n, q[x])
        BY <2>2
      <3>3. n = Panic \/ (n = m /\ IsQuantity(n))
        BY <1>1, <3>1
      <3>4. SumFunctionOnSet(q, T) = q[x] + m
        BY <3>1, SumTakes
      <3>5. q[x] \in Int /\ IsQuantity(q[x]) /\ m \in Int
        BY <3>1, SumType
      <3> HIDE DEF x, n, m
      <3>6. CASE n = Panic
        BY <3>2, <3>6 DEF Add
      <3>7. CASE n = m /\ IsQuantity(n)
        BY <3>2, <3>4, <3>5, <3>7, AddIsExact
      <3> QED
        BY <3>3, <3>6, <3>7
    <2> QED
      BY <2>1, <2>2
  <1> HIDE DEF P
  <1>2. D \in P
    BY <1>1, SetInduction
  <1> QED
    BY <1>2 DEF P

\* A sum of quantities that does not panic is their sum.
LEMMA SumsAreExact ==
    ASSUME NEW q \in Seq(Nat), \A i \in DOMAIN q : IsQuantity(q[i]), Sum(q) # Panic
    PROVE  Sum(q) = SumFunctionOnSet(q, DOMAIN q)
  <1> DEFINE D == DOMAIN q
             B == {n \in Nat : IsQuantity(n)} \cup {Panic}
             c == [T \in SUBSET D |-> Max(T)]
             F == [p \in D \X B |-> Add(p[2], q[p[1]])]
             Rec(f) == [s \in SUBSET D |-> IF s = {} THEN NewZeroQuantity
                                           ELSE Add(f[s \ {Max(s)}], q[Max(s)])]
             iter == CHOOSE f : f = Rec(f)
  <1>1. D = 1 .. Len(q) /\ IsFiniteSet(D) /\ D \in SUBSET Int /\ \A i \in D : q[i] \in Nat
    BY FS_Interval
  <1>2. Chooses(c, D)
    BY <1>1, Greatest DEF Chooses
  <1>3. NewZeroQuantity \in B
    <2>1. 2 ^ Precision \in Nat \ {0}
      BY PowersOfTwo, PrecisionAssumption
    <2> QED
      BY <2>1 DEF NewZeroQuantity, IsQuantity
  <1>4. ASSUME NEW b \in B, NEW i \in D
        PROVE  Add(b, q[i]) \in B
    <2>1. CASE b = Panic
      BY <2>1 DEF Add
    <2>2. CASE b # Panic
      <3>1. b \in Nat /\ IsQuantity(b) /\ q[i] \in Nat /\ IsQuantity(q[i])
        BY <1>1, <2>2
      <3> QED
        BY <3>1, AddIsExact
    <2> QED
      BY <2>1, <2>2
  <1>5. F \in [D \X B -> B] /\ \A i \in D : \A b \in B : F[<<i, b>>] = Add(b, q[i])
    BY <1>4
  <1>6. \A T \in SUBSET D : c[T] = Max(T)
    OBVIOUS
  <1>7. PICK f \in [SUBSET D -> B] : IsFold(f, D, c, F, NewZeroQuantity)
    <2> HIDE DEF D, B, c, F
    <2> QED
      BY <1>1, <1>2, <1>3, <1>5, FoldExists, Zenon
  <1>8. f = Rec(f)
    <2>1. ASSUME NEW T \in SUBSET D
          PROVE  f[T] = IF T = {} THEN NewZeroQuantity ELSE Add(f[T \ {Max(T)}], q[Max(T)])
      <3>1. T # {} => Max(T) \in D /\ f[T \ {Max(T)}] \in B
        BY <1>1, Greatest
      <3> HIDE DEF D, B, c, F
      <3> QED
        BY <1>5, <1>6, <1>7, <3>1 DEF IsFold
    <2> QED
      BY <2>1
  <1>9. iter = Rec(iter)
    BY <1>8
  <1>10. Sum(q) = iter[D]
    BY DEF Sum, FoldLeft, MapThenFoldSet
  <1>11. \A T \in SUBSET D : iter[T] = IF T = {} THEN 0 ELSE Add(iter[T \ {c[T]}], q[c[T]])
    <2> HIDE DEF iter
    <2> QED
      BY <1>9, <1>6 DEF NewZeroQuantity
  <1>12. iter[D] = Panic \/ iter[D] = SumFunctionOnSet(q, D)
    <2>1. IsFiniteSet(D) /\ \A i \in D : q[i] \in Nat /\ IsQuantity(q[i])
      BY <1>1
    <2> HIDE DEF D, c, iter
    <2> QED
      BY <1>2, <1>11, <2>1, AddsUp
  <1> QED
    BY <1>10, <1>12
-----------------------------------------------------------------------------
\* What tokens are worth.

\* The output a token stands for: the ledger never says otherwise.
Origin(id) == WrittenValue(id[1], CreateTokenKey(id))

Worth(typ) == [id \in TokenIds |-> IF Origin(id).type = typ THEN Origin(id).quantity ELSE 0]

\* An action consumes what it creates and what it redeems.
Balanced(t) ==
    \A l \in DOMAIN Request[t].transfers : \A typ \in TokenTypes :
        LET a == Request[t].transfers[l]
        IN SumFunctionOnSet([j \in DOMAIN a.inputs |-> Worth(typ)[a.inputs[j]]], DOMAIN a.inputs)
             = Quantity(a.outputs, DOMAIN a.outputs, typ)

\* Amounts of a type in a sequence of outputs.
LEMMA QuantityType ==
    ASSUME NEW outs \in Seq(Output), NEW S \in SUBSET DOMAIN outs, NEW typ
    PROVE  /\ IsFiniteSet(S)
           /\ Quantity(outs, S, typ) \in Nat
           /\ Quantity(outs, DOMAIN outs, typ) = Quantity(outs, S, typ) + Quantity(outs, DOMAIN outs \ S, typ)
  <1> DEFINE D == DOMAIN outs
             q == [i \in 1 .. Len(outs) |-> IF outs[i].type = typ THEN outs[i].quantity ELSE 0]
             m == Quantity(outs, S, typ)
             n == Quantity(outs, D \ S, typ)
  <1>1. D = 1 .. Len(outs) /\ IsFiniteSet(D)
    BY FS_Interval
  <1>2. \A i \in D : outs[i] \in Output
    OBVIOUS
  <1>3. \A i \in D : q[i] \in Nat
    BY <1>1, <1>2 DEF Output
  <1>4. IsFiniteSet(S) /\ IsFiniteSet(D \ S)
    BY <1>1, FS_Subset
  <1>5. /\ m = SumFunctionOnSet(q, S) /\ n = SumFunctionOnSet(q, D \ S)
        /\ Quantity(outs, D, typ) = SumFunctionOnSet(q, D)
    BY DEF Quantity
  <1> HIDE DEF D, q, m, n
  <1>6. m \in Nat /\ n \in Nat
    BY <1>3, <1>4, <1>5, SumNat DEF D
  <1>7. n = SumFunctionOnSet(q, D) - m /\ SumFunctionOnSet(q, D) \in Nat
    BY <1>1, <1>3, <1>5, SumMinus, SumNat DEF D
  <1>8. Quantity(outs, D, typ) = m + n
    BY <1>5, <1>6, <1>7
  <1> QED
    BY <1>4, <1>6, <1>8 DEF D, m, n

-----------------------------------------------------------------------------
\* The indices of the tokens a request creates.

\* The counter of an action starts after the outputs of all actions before it.
LEMMA CounterType ==
    ASSUME NEW t \in TxIds, NEW k \in DOMAIN Actions(t)
    PROVE  /\ Counter(t, k) \in Nat
           /\ NumOutputs(Actions(t)[k]) \in Nat
           /\ \A l \in DOMAIN Actions(t) :
                 k < l => Counter(t, k) + NumOutputs(Actions(t)[k]) <= Counter(t, l)
  <1> DEFINE D == DOMAIN Actions(t)
             f == [j \in DOMAIN Actions(t) |-> NumOutputs(Actions(t)[j])]
  <1>1. D = 1 .. Len(Actions(t)) /\ Len(Actions(t)) \in Nat
    BY ActionsType
  <1>2. \A j \in D : f[j] = NumOutputs(Actions(t)[j]) /\ f[j] \in Nat
    BY ActionsType DEF Action, NumOutputs
  <1>3. \A j \in D : Counter(t, j) = SumFunctionOnSet(f, 1 .. (j - 1))
    BY DEF Counter
  <1>4. \A j \in D : 1 .. (j - 1) \subseteq D /\ 1 .. j \subseteq D /\ j \in Int
    BY <1>1
  <1>5. \A j \in D : IsFiniteSet(1 .. (j - 1)) /\ IsFiniteSet(1 .. j)
    BY <1>4, FS_Interval
  <1> HIDE DEF D, f
  <1>6. k \in D
    BY DEF D
  <1>7. Counter(t, k) \in Nat
    BY <1>2, <1>3, <1>4, <1>5, <1>6, SumNat
  <1>8. ASSUME NEW l \in D, k < l
        PROVE  Counter(t, k) + f[k] <= Counter(t, l)
    <2> DEFINE A == 1 .. (k - 1)
               B == 1 .. (l - 1)
    <2>1. A \cup {k} \subseteq B /\ k \notin A /\ A \cup {k} \subseteq D /\ B \subseteq D
      <3>1. k \in Int /\ l \in Int /\ 1 <= k /\ k <= l - 1
        BY <1>1, <1>6, <1>8
      <3>2. A \cup {k} \subseteq B /\ k \notin A
        BY <3>1
      <3>3. B \subseteq D
        BY <1>4, <1>8
      <3> QED
        BY <3>2, <3>3
    <2>2. IsFiniteSet(A) /\ IsFiniteSet(B)
      BY <1>5, <1>6, <1>8
    <2>3. Counter(t, k) = SumFunctionOnSet(f, A) /\ Counter(t, l) = SumFunctionOnSet(f, B)
      BY <1>3, <1>6, <1>8
    <2> HIDE DEF A, B
    <2>4. SumFunctionOnSet(f, A \cup {k}) = f[k] + SumFunctionOnSet(f, A)
      <3>1. \A j \in A \cup {k} : f[j] \in Int
        BY <1>2, <2>1
      <3> QED
        BY <2>1, <2>2, <3>1, SumAdd
    <2>5. SumFunctionOnSet(f, A \cup {k}) <= SumFunctionOnSet(f, B)
      BY <1>2, <2>1, <2>2, SumMonotone
    <2>6. f[k] \in Nat /\ SumFunctionOnSet(f, A) \in Nat
      BY <1>2, <1>6, <1>7, <2>3
    <2> QED
      BY <2>3, <2>4, <2>5, <2>6
  <1> QED
    BY <1>2, <1>6, <1>7, <1>8 DEF D

\* Two outputs of a request never have the same key.
LEMMA KeysDiffer ==
    ASSUME NEW t \in TxIds, NEW k \in DOMAIN Actions(t), NEW l \in DOMAIN Actions(t),
           NEW i \in CreatedOutputs(Actions(t)[k]), NEW j \in CreatedOutputs(Actions(t)[l]),
           OutputKey(t, k, i) = OutputKey(t, l, j)
    PROVE  k = l /\ i = j
  <1> DEFINE m == Counter(t, k)
             n == Counter(t, l)
             a == NumOutputs(Actions(t)[k])
             b == NumOutputs(Actions(t)[l])
  <1>1. m \in Nat /\ n \in Nat /\ a \in Nat /\ b \in Nat
    BY CounterType
  <1>2. i \in 1 .. a /\ j \in 1 .. b
    BY DEF CreatedOutputs
  <1>3. m + (i - 1) = n + (j - 1)
    BY DEF OutputKey, CreateTokenKey
  <1>4. k \in Int /\ l \in Int
    BY ActionsType
  <1>5. (k < l => m + a <= n) /\ (l < k => n + b <= m)
    BY CounterType
  <1> HIDE DEF m, n, a, b
  <1>6. k = l
    BY <1>1, <1>2, <1>3, <1>4, <1>5
  <1>7. m = n
    BY <1>6 DEF m, n
  <1> QED
    BY <1>1, <1>2, <1>3, <1>6, <1>7

\* The key of an output holds that output.
LEMMA WrittenOutput ==
    ASSUME NEW t \in TxIds, NEW k \in DOMAIN Actions(t), NEW i \in CreatedOutputs(Actions(t)[k])
    PROVE  WrittenValue(t, OutputKey(t, k, i)) = Actions(t)[k].outputs[i]
  <1> DEFINE key == OutputKey(t, k, i)
             w == CHOOSE w \in CreatedBy(t) : OutputKey(t, w[1], w[2]) = key
  <1>1. key \in TokenWrites(t)
    BY DEF TokenWrites, OutputKeys
  <1>2. <<k, i>> \in CreatedBy(t) /\ OutputKey(t, <<k, i>>[1], <<k, i>>[2]) = key
    BY DEF CreatedBy
  <1>3. w \in CreatedBy(t) /\ OutputKey(t, w[1], w[2]) = key
    BY <1>2
  <1>4. w[1] \in DOMAIN Actions(t) /\ w[2] \in CreatedOutputs(Actions(t)[w[1]])
    BY <1>3 DEF CreatedBy
  <1>5. w[1] = k /\ w[2] = i
    <2> HIDE DEF w
    <2> QED
      BY <1>3, <1>4, KeysDiffer
  <1> QED
    BY <1>1, <1>5 DEF WrittenValue
-----------------------------------------------------------------------------
\* What a request does to the supply of a type.

Issued(t, typ) ==
    SumFunction([k \in DOMAIN Request[t].issues |->
        LET outs == Request[t].issues[k].outputs IN Quantity(outs, DOMAIN outs, typ)])

Redeemed(t, typ) ==
    SumFunction([k \in DOMAIN Request[t].transfers |->
        LET a == Request[t].transfers[k]
        IN Quantity(a.outputs, DOMAIN a.outputs \ CreatedOutputs(a), typ)])

WorthOf(tok, typ) == IF tok.type = typ THEN tok.quantity ELSE 0

\* What a request names as its inputs, a token as often as it is named, and
\* what it takes from the ledger, each token once.
Named(t, typ) ==
    SumFunction([k \in DOMAIN Request[t].transfers |->
        LET ins == Request[t].transfers[k].inputs
        IN SumFunction([j \in DOMAIN ins |-> WorthOf(Origin(ins[j]), typ)])])

Consumed(t, typ) == SumFunction([id \in InputsOf(t) |-> WorthOf(Origin(id), typ)])

\* What an action creates, and what it consumes.
CreatedWorth(a, typ) == Quantity(a.outputs, CreatedOutputs(a), typ)

ConsumedWorth(a, typ) ==
    SumFunctionOnSet([j \in DOMAIN a.inputs |-> Worth(typ)[a.inputs[j]]], DOMAIN a.inputs)

\* The fields of an action; everything an issue outputs is created.
LEMMA ActionFields ==
    ASSUME NEW a \in Action
    PROVE  /\ a.outputs \in Seq(Output) /\ a.inputs \in Seq(TokenIds)
           /\ NumOutputs(a) = Len(a.outputs)
           /\ CreatedOutputs(a) \subseteq DOMAIN a.outputs
           /\ IsIssue(a) => CreatedOutputs(a) = DOMAIN a.outputs
  BY DEF Action, NumOutputs, CreatedOutputs, IsRedeemAt

\* A token that was never written has no value, all others are outputs.
LEMMA OriginType ==
    ASSUME NEW id \in TokenIds
    PROVE  Origin(id).quantity \in Nat
  <1>1. id[1] \in TxIds
    BY DEF TokenIds
  <1>2. Origin(id) \in Output \cup {NoToken}
    BY <1>1, WrittenValueType DEF Origin
  <1>3. CASE Origin(id) \in Output
    BY <1>3 DEF Output
  <1>4. CASE Origin(id) = NoToken
    <2>1. NoToken.quantity = 0
      BY Zenon DEF NoToken
    <2> QED
      BY <1>4, <2>1
  <1> QED
    BY <1>2, <1>3, <1>4

\* Tokens are worth a natural number.
LEMMA WorthType ==
    ASSUME NEW typ
    PROVE  \A id \in TokenIds : Worth(typ)[id] \in Nat
  BY OriginType DEF Worth

\* The elements of a concatenation are those of both sequences.
LEMMA ElementsOfConcat ==
    ASSUME NEW S, NEW r \in Seq(S), NEW s \in Seq(S)
    PROVE  /\ \A i \in DOMAIN r : r[i] \in Range(r \o s)
           /\ \A i \in DOMAIN s : s[i] \in Range(r \o s)
  <1>1. Len(r) \in Nat /\ Len(s) \in Nat /\ DOMAIN (r \o s) = 1 .. (Len(r) + Len(s))
    OBVIOUS
  <1>2. ASSUME NEW i \in DOMAIN r PROVE i \in DOMAIN (r \o s) /\ (r \o s)[i] = r[i]
    OBVIOUS
  <1>3. ASSUME NEW i \in DOMAIN s
        PROVE  Len(r) + i \in DOMAIN (r \o s) /\ (r \o s)[Len(r) + i] = s[i]
    BY <1>1
  <1> QED
    BY <1>2, <1>3 DEF Range

\* The tokens a request creates are worth what its actions create.
LEMMA WorthOfCreated ==
    ASSUME NEW t \in TxIds, NEW typ, NEW f,
           \A k \in DOMAIN Actions(t) : f[k] = CreatedWorth(Actions(t)[k], typ)
    PROVE  /\ IsFiniteSet(CreatedIds(t)) /\ CreatedIds(t) \subseteq TokenIds
           /\ SumFunctionOnSet(Worth(typ), CreatedIds(t)) = SumFunctionOnSet(f, DOMAIN Actions(t))
  <1> DEFINE D == DOMAIN Actions(t)
             Made(k) == {TokenId(key) : key \in OutputKeys(t, k)}
             S == [k \in D |-> Made(k)]
  <1>1. IsFiniteSet(D) /\ \A k \in D : Actions(t)[k] \in Action
    <2>1. Actions(t) \in Seq(Action)
      BY ActionsType
    <2>2. D = 1 .. Len(Actions(t)) /\ Len(Actions(t)) \in Nat
      BY <2>1
    <2> QED
      BY <2>1, <2>2, FS_Interval
  <1>2. ASSUME NEW k \in D
        PROVE  /\ Made(k) \subseteq TokenIds /\ IsFiniteSet(Made(k))
               /\ SumFunctionOnSet(Worth(typ), Made(k)) = f[k]
    <2> DEFINE a == Actions(t)[k]
               C == CreatedOutputs(a)
               m == [i \in C |-> TokenId(OutputKey(t, k, i))]
               q == [i \in 1 .. Len(a.outputs) |-> IF a.outputs[i].type = typ THEN a.outputs[i].quantity ELSE 0]
    <2>1. a \in Action
      BY <1>1
    <2>2. C \subseteq DOMAIN a.outputs /\ a.outputs \in Seq(Output) /\ DOMAIN a.outputs = 1 .. Len(a.outputs)
      BY <2>1, ActionFields
    <2>3. ASSUME NEW i \in C
          PROVE  /\ m[i] \in TokenIds /\ CreateTokenKey(m[i]) = OutputKey(t, k, i)
                 /\ Worth(typ)[m[i]] = q[i] /\ q[i] \in Nat
      <3>1. Counter(t, k) + (i - 1) \in Nat
        BY <2>2, CounterType
      <3>2. m[i] = <<t, Counter(t, k) + (i - 1)>>
        BY DEF TokenId, OutputKey, CreateTokenKey
      <3>3. m[i] \in TokenIds /\ CreateTokenKey(m[i]) = OutputKey(t, k, i)
        BY <3>1, <3>2 DEF TokenIds, OutputKey
      <3>4. Origin(m[i]) = a.outputs[i]
        BY <3>2, <3>3, WrittenOutput DEF Origin
      <3>5. a.outputs[i] \in Output /\ i \in 1 .. Len(a.outputs)
        BY <2>2
      <3> QED
        BY <3>3, <3>4, <3>5 DEF Worth, Output
    <2>4. \A i, j \in C : m[i] = m[j] => i = j
      <3>1. \A i, j \in C : m[i] = m[j] => OutputKey(t, k, i) = OutputKey(t, k, j)
        <4> HIDE DEF C, m
        <4> QED
          BY <2>3
      <3> QED
        BY <3>1, KeysDiffer
    <2>5. (\A i \in C : m[i] \in Made(k)) /\ (\A id \in Made(k) : \E i \in C : id = m[i])
      BY DEF OutputKeys
    <2>6. IsFiniteSet(C)
      BY <2>2, QuantityType
    <2>7. f[k] = SumFunctionOnSet(q, C)
      BY DEF CreatedWorth, Quantity
    <2> HIDE DEF C, m, q, Made
    <2>8. Made(k) \subseteq TokenIds
      BY <2>3, <2>5
    <2>9. \A i \in C : Worth(typ)[m[i]] \in Int /\ q[i] = Worth(typ)[m[i]]
      BY <2>3
    <2>10. IsFiniteSet(Made(k)) /\ SumFunctionOnSet(Worth(typ), Made(k)) = SumFunctionOnSet(q, C)
      <3> DEFINE R == Made(k)
                 W == Worth(typ)
      <3>1. \A i \in C : m[i] \in R
        BY <2>5
      <3>2. \A id \in R : \E i \in C : id = m[i]
        BY <2>5
      <3>3. \A i \in C : W[m[i]] \in Int /\ q[i] = W[m[i]]
        BY <2>9
      <3> HIDE DEF R, W
      <3>4. IsFiniteSet(R) /\ SumFunctionOnSet(W, R) = SumFunctionOnSet(q, C)
        BY <2>4, <2>6, <3>1, <3>2, <3>3, SumOfImage
      <3> QED
        BY <3>4 DEF R, W
    <2> QED
      BY <2>7, <2>8, <2>10
  <1>3. ASSUME NEW k \in D, NEW l \in D, k # l
        PROVE  Made(k) \cap Made(l) = {}
    <2> SUFFICES ASSUME NEW i \in CreatedOutputs(Actions(t)[k]), NEW j \in CreatedOutputs(Actions(t)[l]),
                        TokenId(OutputKey(t, k, i)) = TokenId(OutputKey(t, l, j))
                 PROVE  FALSE
      BY DEF OutputKeys
    <2>1. OutputKey(t, k, i) = OutputKey(t, l, j)
      BY DEF TokenId, OutputKey, CreateTokenKey
    <2> QED
      BY <1>3, <2>1, KeysDiffer
  <1>4. (\A k \in D : Made(k) \subseteq CreatedIds(t)) /\ (\A id \in CreatedIds(t) : \E k \in D : id \in Made(k))
    BY DEF CreatedIds, TokenWrites
  <1>5. \A k \in D : S[k] = Made(k)
    OBVIOUS
  <1> HIDE DEF D, Made, S
  <1>6. CreatedIds(t) \subseteq TokenIds
    BY <1>2, <1>4
  <1>7. \A k \in D : IsFiniteSet(S[k]) /\ f[k] = SumFunctionOnSet(Worth(typ), S[k])
    BY <1>2, <1>5
  <1>8. \A k, l \in D : k # l => S[k] \cap S[l] = {}
    BY <1>3, <1>5
  <1>9. (\A k \in D : S[k] \subseteq CreatedIds(t)) /\ (\A id \in CreatedIds(t) : \E k \in D : id \in S[k])
    BY <1>4, <1>5
  <1>10. \A k \in D : \A id \in S[k] : Worth(typ)[id] \in Int
    BY <1>6, <1>9, WorthType
  <1>11. /\ IsFiniteSet(CreatedIds(t))
         /\ SumFunctionOnSet(Worth(typ), CreatedIds(t)) = SumFunctionOnSet(f, D)
    <2> DEFINE R == CreatedIds(t)
               W == Worth(typ)
    <2>1. IsPartition(D, S, R)
      BY <1>1, <1>7, <1>8, <1>9 DEF IsPartition
    <2>2. \A k \in D : f[k] = SumFunctionOnSet(W, S[k])
      BY <1>7
    <2>3. \A id \in R : W[id] \in Int
      BY <1>6, WorthType
    <2> HIDE DEF R, W
    <2>4. IsFiniteSet(R) /\ SumFunctionOnSet(W, R) = SumFunctionOnSet(f, D)
      BY <2>1, <2>2, <2>3, SumOfUnion
    <2> QED
      BY <2>4 DEF R, W
  <1> QED
    BY <1>6, <1>11 DEF D

\* A request has finitely many inputs, and takes from the ledger what they are
\* worth, each counted once.
LEMMA ConsumedIsWorth ==
    ASSUME NEW t \in TxIds, NEW typ
    PROVE  /\ IsFiniteSet(InputsOf(t)) /\ InputsOf(t) \subseteq TokenIds
           /\ Consumed(t, typ) = SumFunctionOnSet(Worth(typ), InputsOf(t))
           /\ Consumed(t, typ) \in Nat
  <1> DEFINE D == DOMAIN Actions(t)
             In(k) == Range(Actions(t)[k].inputs)
             I == InputsOf(t)
             W == Worth(typ)
             f == [id \in I |-> WorthOf(Origin(id), typ)]
  <1>1. IsFiniteSet(D) /\ \A k \in D : Actions(t)[k] \in Action
    <2>1. Actions(t) \in Seq(Action)
      BY ActionsType
    <2>2. D = 1 .. Len(Actions(t)) /\ Len(Actions(t)) \in Nat
      BY <2>1
    <2> QED
      BY <2>1, <2>2, FS_Interval
  <1>2. ASSUME NEW k \in D PROVE IsFiniteSet(In(k)) /\ In(k) \subseteq TokenIds
    <2> DEFINE m == Actions(t)[k].inputs
               C == DOMAIN m
    <2>1. m \in Seq(TokenIds)
      BY <1>1, ActionFields
    <2>2. C = 1 .. Len(m) /\ Len(m) \in Nat
      BY <2>1
    <2>3. In(k) = {m[j] : j \in C}
      BY DEF Range
    <2>4. \A j \in C : m[j] \in TokenIds
      BY <2>1
    <2> HIDE DEF m, C
    <2>5. IsFiniteSet(C)
      BY <2>2, FS_Interval
    <2>6. IsFiniteSet({m[j] : j \in C})
      BY <2>5, FiniteImage
    <2> QED
      BY <2>3, <2>4, <2>6
  <1>3. I = UNION {In(k) : k \in D}
    BY DEF InputsOf
  <1> HIDE DEF D, In
  <1>4. IsFiniteSet({In(k) : k \in D})
    <2> DEFINE g == [k \in D |-> In(k)]
    <2>1. {In(k) : k \in D} = {g[k] : k \in D}
      OBVIOUS
    <2> HIDE DEF g
    <2> QED
      BY <1>1, <2>1, FiniteImage
  <1>5. \A T \in {In(k) : k \in D} : IsFiniteSet(T)
    BY <1>2
  <1>6. IsFiniteSet(I)
    <2> DEFINE M == {In(k) : k \in D}
    <2>1. IsFiniteSet(M) /\ (\A T \in M : IsFiniteSet(T)) /\ I = UNION M
      BY <1>3, <1>4, <1>5
    <2> HIDE DEF M, I
    <2> QED
      BY <2>1, FS_UNION
  <1>7. I \subseteq TokenIds
    BY <1>2, <1>3
  <1>8. \A id \in I : W[id] \in Int /\ f[id] = W[id] /\ W[id] \in Nat
    <2>1. \A id \in I : W[id] \in Nat
      BY <1>7, OriginType DEF Worth
    <2>2. \A id \in I : f[id] = W[id]
      BY <1>7 DEF Worth, WorthOf
    <2> QED
      BY <2>1, <2>2
  <1>9. Consumed(t, typ) = SumFunctionOnSet(f, I)
    BY DEF Consumed, SumFunction
  <1> HIDE DEF W, f
  <1>10. SumFunctionOnSet(W, I) = SumFunctionOnSet(f, I)
    BY <1>6, <1>8, SumEqual
  <1>11. SumFunctionOnSet(W, I) \in Nat
    BY <1>6, <1>8, SumNat
  <1> QED
    BY <1>6, <1>7, <1>9, <1>10, <1>11 DEF W, I

\* The requests of a run and their actions.
LEMMA RequestFields ==
    ASSUME NEW t \in TxIds
    PROVE  /\ Request[t].issues \in Seq(IssueAction)
           /\ Request[t].transfers \in Seq(TransferAction)
           /\ \A k \in DOMAIN Request[t].issues :
                 /\ Request[t].issues[k] \in Action /\ Request[t].issues[k].inputs = << >>
                 /\ IsIssue(Request[t].issues[k])
           /\ \A l \in DOMAIN Request[t].transfers : Request[t].transfers[l] \in Action
  <1>1. Request[t] \in RequestType
    BY RequestAssumption
  <1>2. Request[t].issues \in Seq(IssueAction) /\ Request[t].transfers \in Seq(TransferAction)
    BY <1>1 DEF RequestType
  <1> QED
    BY <1>2 DEF IssueAction, TransferAction

\* The sums behind Issued and Redeemed are of natural numbers, hence the totals.
LEMMA SupplyType ==
    ASSUME NEW t \in TxIds, NEW typ
    PROVE  Issued(t, typ) \in Nat /\ Redeemed(t, typ) \in Nat
  <1> DEFINE is == Request[t].issues
             ts == Request[t].transfers
             fi == [k \in DOMAIN is |-> LET outs == is[k].outputs IN Quantity(outs, DOMAIN outs, typ)]
             fr == [l \in DOMAIN ts |-> LET a == ts[l]
                        IN Quantity(a.outputs, DOMAIN a.outputs \ CreatedOutputs(a), typ)]
  <1>1. IsFiniteSet(DOMAIN is) /\ IsFiniteSet(DOMAIN ts)
    <2>1. Len(is) \in Nat /\ DOMAIN is = 1 .. Len(is) /\ Len(ts) \in Nat /\ DOMAIN ts = 1 .. Len(ts)
      BY RequestFields
    <2> QED
      <3> HIDE DEF is, ts
      <3>1. IsFiniteSet(1 .. Len(is)) /\ IsFiniteSet(1 .. Len(ts))
        BY <2>1, FS_Interval
      <3> QED
        BY <2>1, <3>1
  <1>2. \A k \in DOMAIN is : fi[k] \in Nat
    <2> SUFFICES ASSUME NEW k \in DOMAIN is PROVE Quantity(is[k].outputs, DOMAIN is[k].outputs, typ) \in Nat
      OBVIOUS
    <2>1. is[k].outputs \in Seq(Output)
      BY RequestFields, ActionFields
    <2> QED
      BY <2>1, QuantityType
  <1>3. \A l \in DOMAIN ts : fr[l] \in Nat
    <2> SUFFICES ASSUME NEW l \in DOMAIN ts
                 PROVE Quantity(ts[l].outputs, DOMAIN ts[l].outputs \ CreatedOutputs(ts[l]), typ) \in Nat
      OBVIOUS
    <2>1. ts[l].outputs \in Seq(Output)
      BY RequestFields, ActionFields
    <2> QED
      BY <2>1, QuantityType
  <1>4. Issued(t, typ) = SumFunctionOnSet(fi, DOMAIN is) /\ Redeemed(t, typ) = SumFunctionOnSet(fr, DOMAIN ts)
    BY DEF Issued, Redeemed, SumFunction
  <1> HIDE DEF is, ts, fi, fr
  <1> QED
    BY <1>1, <1>2, <1>3, <1>4, SumNat

\* What the transfers of a request name is what they consume.
LEMMA NamedIsConsumed ==
    ASSUME NEW t \in TxIds, NEW typ
    PROVE  LET ts == Request[t].transfers
               taken == [l \in DOMAIN ts |-> ConsumedWorth(ts[l], typ)]
           IN /\ Named(t, typ) = SumFunctionOnSet(taken, DOMAIN ts)
              /\ \A l \in DOMAIN ts : taken[l] \in Nat
              /\ Named(t, typ) \in Nat
  <1> DEFINE ts == Request[t].transfers
             taken == [l \in DOMAIN ts |-> ConsumedWorth(ts[l], typ)]
             named(l) == SumFunction([j \in DOMAIN ts[l].inputs |-> WorthOf(Origin(ts[l].inputs[j]), typ)])
  <1>1. ASSUME NEW l \in DOMAIN ts
        PROVE  named(l) = taken[l] /\ taken[l] \in Nat
    <2> DEFINE ins == ts[l].inputs
               D == DOMAIN ins
               f == [j \in D |-> WorthOf(Origin(ins[j]), typ)]
               w == [j \in D |-> Worth(typ)[ins[j]]]
    <2>1. ins \in Seq(TokenIds)
      BY RequestFields, ActionFields
    <2>2. D = 1 .. Len(ins) /\ Len(ins) \in Nat /\ \A j \in D : ins[j] \in TokenIds
      BY <2>1
    <2>3. f = w
      BY <2>2 DEF Worth, WorthOf
    <2>4. \A j \in D : w[j] \in Nat
      BY <2>2, WorthType
    <2>5. named(l) = SumFunctionOnSet(f, D) /\ taken[l] = SumFunctionOnSet(w, D)
      BY DEF SumFunction, ConsumedWorth
    <2> HIDE DEF ins, D, f, w, taken, named
    <2>6. IsFiniteSet(D)
      BY <2>2, FS_Interval
    <2>7. SumFunctionOnSet(w, D) \in Nat
      BY <2>4, <2>6, SumNat
    <2> QED
      BY <2>3, <2>5, <2>7
  <1>2. Named(t, typ) = SumFunctionOnSet([l \in DOMAIN ts |-> named(l)], DOMAIN ts)
    BY DEF Named, SumFunction
  <1>3. [l \in DOMAIN ts |-> named(l)] = taken
    <2> HIDE DEF named
    <2>1. taken = [l \in DOMAIN ts |-> taken[l]]
      OBVIOUS
    <2> HIDE DEF taken, ts
    <2> QED
      BY <1>1, <2>1
  <1>4. IsFiniteSet(DOMAIN ts)
    <2>1. Len(ts) \in Nat /\ DOMAIN ts = 1 .. Len(ts)
      BY RequestFields
    <2> HIDE DEF ts
    <2> QED
      BY <2>1, FS_Interval
  <1> HIDE DEF named, taken, ts
  <1>5. SumFunctionOnSet(taken, DOMAIN ts) \in Nat
    BY <1>1, <1>4, SumNat
  <1> QED
    BY <1>1, <1>2, <1>3, <1>5 DEF taken, ts

\* A request whose transfers are balanced creates what it names and issues, less
\* what it redeems.
LEMMA NetEffect ==
    ASSUME NEW t \in TxIds, NEW typ \in TokenTypes, Balanced(t)
    PROVE  SumFunctionOnSet(Worth(typ), CreatedIds(t)) + Redeemed(t, typ) =
               Named(t, typ) + Issued(t, typ)
  <1> DEFINE is == Request[t].issues
             ts == Request[t].transfers
             m == Len(is)
             n == Len(ts)
             created == [k \in DOMAIN Actions(t) |-> CreatedWorth(Actions(t)[k], typ)]
             issued == [k \in DOMAIN is |->
                           LET outs == is[k].outputs IN Quantity(outs, DOMAIN outs, typ)]
             sent == [l \in DOMAIN ts |-> CreatedWorth(ts[l], typ)]
             taken == [l \in DOMAIN ts |-> ConsumedWorth(ts[l], typ)]
             lost == [l \in DOMAIN ts |-> LET a == ts[l]
                         IN Quantity(a.outputs, DOMAIN a.outputs \ CreatedOutputs(a), typ)]
  <1>1. /\ m \in Nat /\ n \in Nat /\ DOMAIN is = 1 .. m /\ DOMAIN ts = 1 .. n
        /\ DOMAIN Actions(t) = 1 .. (m + n)
        /\ \A k \in 1 .. m : Actions(t)[k] = is[k]
        /\ \A l \in 1 .. n : Actions(t)[m + l] = ts[l]
    <2>1. is \in Seq(Action) /\ ts \in Seq(Action)
      <3>1. is \in Seq(IssueAction) /\ ts \in Seq(TransferAction)
        BY RequestFields
      <3>2. IssueAction \subseteq Action /\ TransferAction \subseteq Action
        BY DEF IssueAction, TransferAction
      <3> HIDE DEF is, ts
      <3> QED
        BY <3>1, <3>2
    <2>2. Actions(t) = is \o ts
      BY DEF Actions
    <2> HIDE DEF is, ts
    <2>3. m \in Nat /\ n \in Nat /\ DOMAIN is = 1 .. m /\ DOMAIN ts = 1 .. n
      BY <2>1
    <2>4. DOMAIN (is \o ts) = 1 .. (m + n)
      BY <2>1
    <2>5. \A k \in 1 .. m : (is \o ts)[k] = is[k]
      BY <2>1
    <2>6. ASSUME NEW l \in 1 .. n PROVE (is \o ts)[m + l] = ts[l]
      <3>1. m + l \in 1 .. (m + n) /\ ~(m + l <= m) /\ (m + l) - m = l
        BY <2>3
      <3> QED
        BY <2>1, <3>1
    <2> QED
      BY <2>2, <2>3, <2>4, <2>5, <2>6
  <1>2. ASSUME NEW k \in 1 .. m
        PROVE  issued[k] \in Int /\ created[k] = issued[k]
    <2>1. is[k] \in Action /\ IsIssue(is[k])
      BY <1>1, RequestFields
    <2>2. CreatedOutputs(is[k]) = DOMAIN is[k].outputs /\ is[k].outputs \in Seq(Output)
      BY <2>1, ActionFields
    <2>3. k \in DOMAIN is /\ k \in DOMAIN Actions(t) /\ Actions(t)[k] = is[k]
      <3> HIDE DEF is, ts, m, n
      <3>1. k \in 1 .. (m + n)
        BY <1>1
      <3> QED
        BY <1>1, <3>1
    <2>4. issued[k] = Quantity(is[k].outputs, DOMAIN is[k].outputs, typ)
      BY <2>3
    <2>5. issued[k] \in Nat
      <3> DEFINE outs == is[k].outputs
      <3>1. outs \in Seq(Output) /\ issued[k] = Quantity(outs, DOMAIN outs, typ)
        BY <2>2, <2>4
      <3> HIDE DEF outs, issued
      <3>2. Quantity(outs, DOMAIN outs, typ) \in Nat
        BY <3>1, QuantityType
      <3> QED
        BY <3>1, <3>2
    <2>6. created[k] = issued[k]
      BY <2>2, <2>3, <2>4 DEF CreatedWorth
    <2> HIDE DEF issued, created, is
    <2> QED
      BY <2>5, <2>6
  <1>3. ASSUME NEW l \in 1 .. n
        PROVE  /\ sent[l] \in Int /\ created[m + l] = sent[l] /\ taken[l] \in Int
               /\ lost[l] \in Int /\ taken[l] = sent[l] + lost[l]
    <2>1. ts[l] \in Action /\ l \in DOMAIN ts
      BY <1>1, RequestFields
    <2>2. CreatedOutputs(ts[l]) \subseteq DOMAIN ts[l].outputs /\ ts[l].outputs \in Seq(Output)
      BY <2>1, ActionFields
    <2>3. m + l \in DOMAIN Actions(t) /\ Actions(t)[m + l] = ts[l]
      <3> HIDE DEF is, ts, m, n
      <3>1. m + l \in 1 .. (m + n)
        BY <1>1
      <3> QED
        BY <1>1, <3>1
    <2>4. taken[l] = Quantity(ts[l].outputs, DOMAIN ts[l].outputs, typ)
      BY <2>1 DEF Balanced, ConsumedWorth
    <2>5. sent[l] = Quantity(ts[l].outputs, CreatedOutputs(ts[l]), typ)
      BY <2>1 DEF CreatedWorth
    <2>6. lost[l] = Quantity(ts[l].outputs, DOMAIN ts[l].outputs \ CreatedOutputs(ts[l]), typ)
      BY <2>1
    <2>7. created[m + l] = sent[l]
      BY <2>1, <2>3
    <2> HIDE DEF sent, taken, lost, created, ts, m
    <2> DEFINE outs == ts[l].outputs
               S == CreatedOutputs(ts[l])
    <2>10. outs \in Seq(Output) /\ S \in SUBSET DOMAIN outs /\ DOMAIN outs \ S \in SUBSET DOMAIN outs
      BY <2>2
    <2>11. /\ taken[l] = Quantity(outs, DOMAIN outs, typ) /\ sent[l] = Quantity(outs, S, typ)
           /\ lost[l] = Quantity(outs, DOMAIN outs \ S, typ)
      BY <2>4, <2>5, <2>6
    <2> HIDE DEF outs, S
    <2>8. sent[l] \in Nat /\ taken[l] = sent[l] + lost[l]
      BY <2>10, <2>11, QuantityType
    <2>9. lost[l] \in Nat
      BY <2>10, <2>11, QuantityType, ZenonT(60)
    <2> QED
      BY <2>7, <2>8, <2>9
  <1>4. Issued(t, typ) = SumFunctionOnSet(issued, 1 .. m)
    BY <1>1 DEF Issued, SumFunction
  <1>5. Redeemed(t, typ) = SumFunctionOnSet(lost, 1 .. n)
    BY <1>1 DEF Redeemed, SumFunction
  <1>6. SumFunctionOnSet(Worth(typ), CreatedIds(t)) = SumFunctionOnSet(created, 1 .. (m + n))
    <2>1. \A k \in DOMAIN Actions(t) : created[k] = CreatedWorth(Actions(t)[k], typ)
      OBVIOUS
    <2> HIDE DEF created, is, ts
    <2> QED
      BY <1>1, <2>1, WorthOfCreated
  <1>7. Named(t, typ) = SumFunctionOnSet(taken, 1 .. n)
    BY <1>1, NamedIsConsumed
  <1> HIDE DEF is, ts, m, n, created, issued, sent, taken, lost
  <1>8. SumFunctionOnSet(created, 1 .. (m + n)) =
            SumFunctionOnSet(issued, 1 .. m) + SumFunctionOnSet(sent, 1 .. n)
    <2>1. \A k \in 1 .. m : issued[k] \in Int /\ created[k] = issued[k]
      BY <1>2
    <2>2. \A l \in 1 .. n : sent[l] \in Int /\ created[m + l] = sent[l]
      BY <1>3
    <2> QED
      <3>1. m \in Nat /\ n \in Nat
        BY <1>1
      <3> QED
        BY <2>1, <2>2, <3>1, SumOfConcat, SMTT(30)
  <1>9. IsFiniteSet(1 .. m) /\ IsFiniteSet(1 .. n)
    BY <1>1, FS_Interval
  <1>10. SumFunctionOnSet(taken, 1 .. n) = SumFunctionOnSet(sent, 1 .. n) + SumFunctionOnSet(lost, 1 .. n)
    <2>1. IsFiniteSet(1 .. n)
      BY <1>9
    <2>2. \A l \in 1 .. n : sent[l] \in Int /\ lost[l] \in Int /\ taken[l] = sent[l] + lost[l]
      BY <1>3
    <2> QED
      BY <2>1, <2>2, SumOfSums
  <1>11. SumFunctionOnSet(sent, 1 .. n) \in Int /\ SumFunctionOnSet(lost, 1 .. n) \in Int
    BY <1>3, <1>9, SumType
  <1>12. SumFunctionOnSet(issued, 1 .. m) \in Int
    BY <1>2, <1>9, SumType
  <1> QED
    BY <1>4, <1>5, <1>6, <1>7, <1>8, <1>10, <1>11, <1>12

-----------------------------------------------------------------------------
\* What validation establishes.

\* The ledger holds the outputs the requests wrote.
ValuesAreWritten ==
    \A key \in DOMAIN ledger : key[1] = "token" => ledger[key].value = WrittenValue(key[2], key)

\* The validator reads from the ledger what its inputs are worth, and accepts
\* only transfers of equal sums: its sums are exact, since a sum that wrapped
\* or overflowed panics.
LEMMA ValidMeansBalanced ==
    ASSUME TypeOK, ValuesAreWritten, NEW t \in TxIds, VerifyTokenRequest(t)
    PROVE  Balanced(t)
  <1> SUFFICES ASSUME NEW l \in DOMAIN Request[t].transfers, NEW typ \in TokenTypes
               PROVE  LET a == Request[t].transfers[l]
                      IN SumFunctionOnSet([j \in DOMAIN a.inputs |-> Worth(typ)[a.inputs[j]]],
                                          DOMAIN a.inputs)
                           = Quantity(a.outputs, DOMAIN a.outputs, typ)
    BY DEF Balanced
  <1> DEFINE a == Request[t].transfers[l]
             ins == Inputs(a)
             outs == a.outputs
             type == ins[1].type
             have == [j \in DOMAIN ins |-> ins[j].quantity]
             want == [j \in DOMAIN outs |-> outs[j].quantity]
             worth == [j \in DOMAIN a.inputs |-> Worth(typ)[a.inputs[j]]]
             made == [i \in 1 .. Len(outs) |-> IF outs[i].type = typ THEN outs[i].quantity ELSE 0]
             D == DOMAIN a.inputs
             E == DOMAIN outs
  <1>1. a \in Action
    BY RequestFields
  <1>2. a.inputs \in Seq(TokenIds) /\ outs \in Seq(Output)
    BY <1>1, ActionFields
  <1>3. D = 1 .. Len(a.inputs) /\ Len(a.inputs) \in Nat /\ E = 1 .. Len(outs) /\ Len(outs) \in Nat
    BY <1>2
  <1>4. TransferBalanceValidate(a) /\ RetrieveInputs(a)
    BY DEF VerifyTokenRequest, VerifyTransfer
  <1>5. DOMAIN ins = D /\ \A j \in D : ins[j] = TokenAt(a.inputs[j])
    BY DEF Inputs
  <1>6. ASSUME NEW j \in D
        PROVE  /\ ins[j] = Origin(a.inputs[j]) /\ a.inputs[j] \in TokenIds
               /\ ins[j].quantity \in Nat
    <2> DEFINE id == a.inputs[j]
               key == CreateTokenKey(id)
    <2>1. id \in TokenIds /\ id \in Range(a.inputs)
      BY <1>2 DEF Range
    <2>2. key \in DOMAIN ledger
      BY <1>4, <2>1, VersionZero DEF RetrieveInputs, Exists
    <2>3. key[1] = "token" /\ key[2] = id[1]
      BY DEF CreateTokenKey
    <2>4. ins[j] = ledger[key].value
      BY <1>5 DEF TokenAt
    <2>5. ins[j] = Origin(id)
      BY <2>2, <2>3, <2>4 DEF ValuesAreWritten, Origin
    <2>6. Origin(id).quantity \in Nat
      BY <2>1, OriginType
    <2> QED
      BY <2>1, <2>5, <2>6
  <1>7. /\ Len(outs) # 0 /\ Len(a.inputs) # 0
        /\ \A tok \in Range(ins \o outs) : tok.type = type /\ IsQuantity(tok.quantity)
        /\ Sum(have) # Panic
        /\ Sum(have) = Sum(want)
    BY <1>4 DEF TransferBalanceValidate, NumOutputs
  <1>8. /\ \A j \in D : ins[j].type = type /\ IsQuantity(ins[j].quantity)
        /\ \A i \in E : outs[i].type = type /\ IsQuantity(outs[i].quantity)
    <2> DEFINE A == {ins[j] : j \in D} \cup {outs[i] : i \in E}
    <2>1. ins \in Seq(A) /\ outs \in Seq(A)
      <3>1. ins = [j \in 1 .. Len(a.inputs) |-> ins[j]] /\ \A j \in 1 .. Len(a.inputs) : ins[j] \in A
        BY <1>3 DEF Inputs
      <3>2. outs = [i \in 1 .. Len(outs) |-> outs[i]] /\ \A i \in 1 .. Len(outs) : outs[i] \in A
        <4> HIDE DEF a
        <4> QED
          BY <1>2, <1>3
      <3> HIDE DEF A, ins, outs
      <3> QED
        BY <1>3, <3>1, <3>2, SMTT(30)
    <2> HIDE DEF A, ins, outs
    <2>2. (\A j \in DOMAIN ins : ins[j] \in Range(ins \o outs)) /\ (\A i \in E : outs[i] \in Range(ins \o outs))
      BY <2>1, ElementsOfConcat DEF E
    <2> QED
      BY <1>5, <1>7, <2>2
  <1>9. have \in Seq(Nat) /\ want \in Seq(Nat) /\ DOMAIN have = D /\ DOMAIN want = E
    <2>1. \A j \in D : have[j] \in Nat
      BY <1>5, <1>6
    <2>2. \A i \in E : want[i] \in Nat
      <3> HIDE DEF a
      <3>1. \A i \in E : outs[i] \in Output
        BY <1>2, <1>3
      <3> QED
        BY <3>1 DEF Output
    <2>3. have = [j \in 1 .. Len(a.inputs) |-> have[j]] /\ want = [i \in 1 .. Len(outs) |-> want[i]]
      BY <1>3, <1>5
    <2>4. DOMAIN have = D /\ DOMAIN want = E
      BY <1>5
    <2> HIDE DEF have, want
    <2> QED
      <3> DEFINE N == Len(a.inputs)
                 M == Len(outs)
      <3>1. D = 1 .. N /\ E = 1 .. M /\ N \in Nat /\ M \in Nat
        BY <1>3
      <3>2. have = [j \in 1 .. N |-> have[j]] /\ want = [i \in 1 .. M |-> want[i]]
        BY <2>3
      <3> HIDE DEF D, E, N, M
      <3>3. (\A j \in 1 .. N : have[j] \in Nat) /\ (\A i \in 1 .. M : want[i] \in Nat)
        BY <2>1, <2>2, <3>1
      <3>4. have \in Seq(Nat)
        BY <3>1, <3>2, <3>3
      <3>5. want \in Seq(Nat)
        BY <3>1, <3>2, <3>3
      <3> QED
        BY <2>4, <3>4, <3>5
  <1>10. /\ \A j \in D : have[j] = ins[j].quantity
         /\ \A i \in E : want[i] = outs[i].quantity
    BY <1>5
  <1>11. SumFunctionOnSet(have, D) = SumFunctionOnSet(want, E)
    <2>1. (\A j \in DOMAIN have : IsQuantity(have[j])) /\ (\A i \in DOMAIN want : IsQuantity(want[i]))
      BY <1>8, <1>9, <1>10
    <2> HIDE DEF have, want, D, E
    <2>2. Sum(have) = SumFunctionOnSet(have, DOMAIN have)
      BY <1>7, <1>9, <2>1, SumsAreExact
    <2>3. Sum(want) = SumFunctionOnSet(want, DOMAIN want)
      BY <1>7, <1>9, <2>1, SumsAreExact
    <2> QED
      BY <1>7, <1>9, <2>2, <2>3
  <1>12. \A j \in D : worth[j] = IF type = typ THEN have[j] ELSE 0
    BY <1>6, <1>8, <1>10 DEF Worth
  <1>13. \A i \in E : made[i] = IF type = typ THEN want[i] ELSE 0
    BY <1>3, <1>8, <1>10
  <1>14. Quantity(outs, E, typ) = SumFunctionOnSet(made, E)
    BY DEF Quantity
  <1>15. IsFiniteSet(D) /\ IsFiniteSet(E)
    <2> DEFINE m == Len(a.inputs)
               n == Len(outs)
    <2>1. D = 1 .. m /\ m \in Nat /\ E = 1 .. n /\ n \in Nat
      BY <1>3
    <2> HIDE DEF m, n, D, E
    <2> QED
      BY <2>1, FS_Interval
  <1>16. (\A j \in D : have[j] \in Int) /\ (\A i \in E : want[i] \in Int)
    <2> HIDE DEF have, want, D, E
    <2> QED
      BY <1>9
  <1> HIDE DEF have, want, worth, made, type
  <1>17. SumFunctionOnSet(worth, D) = SumFunctionOnSet(made, E)
    <2> HIDE DEF D, E
    <2>1. CASE type = typ
      <3>1. SumFunctionOnSet(worth, D) = SumFunctionOnSet(have, D)
        BY <1>12, <1>15, <1>16, <2>1, SumEqual
      <3>2. SumFunctionOnSet(made, E) = SumFunctionOnSet(want, E)
        BY <1>13, <1>15, <1>16, <2>1, SumEqual
      <3> QED
        BY <1>11, <3>1, <3>2
    <2>2. CASE type # typ
      BY <1>12, <1>13, <1>15, <2>2, SumOfZeros
    <2> QED
      BY <2>1, <2>2
  <1> QED
    BY <1>14, <1>17 DEF worth

-----------------------------------------------------------------------------
\* The invariant of the supply.

\* What comes with a transaction, and what goes.
ComesBy(typ) == [t \in TxIds |-> Issued(t, typ) + Named(t, typ)]

GoesBy(typ) == [t \in TxIds |-> Redeemed(t, typ) + Consumed(t, typ)]

\* What the unspent tokens are worth and what went is what came.
WorthIsIssued ==
    /\ IsFiniteSet(Committed) /\ IsFiniteSet(Unspent) /\ Unspent \subseteq TokenIds
    /\ \A typ \in TokenTypes :
          SumFunctionOnSet(Worth(typ), Unspent) + SumFunctionOnSet(GoesBy(typ), Committed)
              = SumFunctionOnSet(ComesBy(typ), Committed)

\* An endorsement outlives the state it was made on: that its request is
\* balanced does not depend on the state, since a token never changes value.
SupplyInv ==
    /\ ValuesAreWritten
    /\ \A e \in endorsed : Balanced(e.tx)
    /\ WorthIsIssued

\* Settling a transaction with which R[t] goes and S[t] comes.
LEMMA SettlementKeepsSums ==
    ASSUME NEW U, NEW I \in SUBSET U, NEW C, NEW K, NEW t, NEW W, NEW R, NEW S,
           IsFiniteSet(U), IsFiniteSet(C), IsFiniteSet(K), C \cap U = {}, t \notin K,
           \A id \in U : W[id] \in Int, \A id \in C : W[id] \in Int,
           \A u \in K \cup {t} : R[u] \in Int, \A u \in K \cup {t} : S[u] \in Int,
           SumFunctionOnSet(W, C) + R[t] = SumFunctionOnSet(W, I) + S[t],
           SumFunctionOnSet(W, U) + SumFunctionOnSet(R, K) = SumFunctionOnSet(S, K)
    PROVE  SumFunctionOnSet(W, (U \ I) \cup C) + SumFunctionOnSet(R, K \cup {t})
               = SumFunctionOnSet(S, K \cup {t})
  <1> DEFINE V == U \ I
             a == SumFunctionOnSet(W, U)
             b == SumFunctionOnSet(W, I)
             c == SumFunctionOnSet(W, C)
             d == SumFunctionOnSet(R, K)
             e == SumFunctionOnSet(S, K)
  <1>1. IsFiniteSet(V) /\ IsFiniteSet(I) /\ V \cap C = {} /\ \A id \in V \cup C : W[id] \in Int
    BY FS_Subset
  <1>2. SumFunctionOnSet(W, V) = a - b
    BY SumMinus
  <1>3. a \in Int /\ c \in Int
    BY SumType
  <1>4. b \in Int
    BY <1>1, SumType
  <1>5. d \in Int /\ e \in Int
    BY SumType
  <1>6. SumFunctionOnSet(R, K \cup {t}) = R[t] + d
    BY SumAdd
  <1>7. SumFunctionOnSet(S, K \cup {t}) = S[t] + e
    BY SumAdd
  <1>8. SumFunctionOnSet(W, V \cup C) = SumFunctionOnSet(W, V) + c
    <2> HIDE DEF V
    <2> QED
      BY <1>1, SumUnion
  <1>9. R[t] \in Int /\ S[t] \in Int /\ c + R[t] = b + S[t] /\ a + d = e
    OBVIOUS
  <1> HIDE DEF a, b, c, d, e
  <1>10. SumFunctionOnSet(W, V \cup C) = (a - b) + c
    BY <1>2, <1>8
  <1>11. ((a - b) + c) + (R[t] + d) = S[t] + e
    BY <1>3, <1>4, <1>5, <1>9
  <1> QED
    BY <1>6, <1>7, <1>10, <1>11

\* What comes and what goes are integers.
LEMMA FlowType ==
    ASSUME NEW typ
    PROVE  \A t \in TxIds : ComesBy(typ)[t] \in Int /\ GoesBy(typ)[t] \in Int
  <1> SUFFICES ASSUME NEW t \in TxIds
               PROVE  Issued(t, typ) + Named(t, typ) \in Int /\ Redeemed(t, typ) + Consumed(t, typ) \in Int
    BY DEF ComesBy, GoesBy
  <1>1. Issued(t, typ) \in Nat /\ Redeemed(t, typ) \in Nat
    BY SupplyType
  <1>2. Named(t, typ) \in Nat
    BY NamedIsConsumed
  <1>3. Consumed(t, typ) \in Nat
    BY ConsumedIsWorth
  <1> QED
    BY <1>1, <1>2, <1>3

\* Nothing was issued yet.
LEMMA InitSupply == Init => SupplyInv
  <1> SUFFICES ASSUME Init PROVE SupplyInv
    OBVIOUS
  <1>1. DOMAIN ledger = {SetupKey} /\ endorsed = {}
    BY DEF Init
  <1>2. Committed = {} /\ Unspent = {}
    BY <1>1 DEF Committed, CreateTokenRequestKey, SetupKey, Unspent, UnspentIn
  <1>3. ValuesAreWritten
    BY <1>1 DEF ValuesAreWritten, SetupKey
  <1>4. \A typ \in TokenTypes :
          SumFunctionOnSet(Worth(typ), {}) + SumFunctionOnSet(GoesBy(typ), {})
              = SumFunctionOnSet(ComesBy(typ), {})
    BY SumOfNothing
  <1>5. IsFiniteSet({})
    BY FS_EmptySet
  <1> QED
    BY <1>1, <1>2, <1>3, <1>4, <1>5 DEF SupplyInv, WorthIsIssued

\* A simulation only endorses a balanced request.
LEMMA ProcessRequestSupply ==
    ASSUME IInv, SupplyInv, NEW t \in TxIds, ProcessRequest(t)
    PROVE  SupplyInv'
  <1>1. UNCHANGED ledger /\ endorsed' = endorsed \cup {Endorsement(t)}
    BY DEF ProcessRequest
  <1>2. Balanced(t)
    BY ValidMeansBalanced DEF ProcessRequest, IInv, SupplyInv
  <1>3. Endorsement(t).tx = t
    BY DEF Endorsement
  <1>4. \A e \in endorsed' : Balanced(e.tx)
    BY <1>1, <1>2, <1>3 DEF SupplyInv
  <1>5. UNCHANGED Committed /\ UNCHANGED Unspent
    BY <1>1 DEF Committed, Unspent
  <1>6. ValuesAreWritten'
    BY <1>1 DEF SupplyInv, ValuesAreWritten
  <1>7. WorthIsIssued'
    BY <1>5 DEF SupplyInv, WorthIsIssued
  <1> QED
    BY <1>4, <1>6, <1>7 DEF SupplyInv

\* A commit writes the outputs of a balanced request and deletes its inputs.
LEMMA CommitSupply ==
    ASSUME IInv, SupplyInv, NEW e \in endorsed, Commit(e)
    PROVE  SupplyInv'
  <1> DEFINE t == e.tx
  <1>1. /\ t \in TxIds /\ t \notin Committed
        /\ DOMAIN ledger' = (DOMAIN ledger \ DeletedKeys(t)) \cup SetKeys(t)
        /\ Committed' = Committed \cup {t}
    BY CommitFacts
  <1>2. ValuesAreWritten'
    <2> SUFFICES ASSUME NEW key \in DOMAIN ledger', key[1] = "token"
                 PROVE  ledger'[key].value = WrittenValue(key[2], key)
      BY DEF ValuesAreWritten
    <2>1. CASE key \in SetKeys(t)
      <3>1. ledger'[key] = [version |-> height + 1, value |-> WrittenValue(t, key)]
        BY <1>1, <2>1 DEF Commit, Apply
      <3>2. key[2] = t
        BY <1>1, <2>1, KeyKinds DEF SetKeys
      <3> QED
        BY <3>1, <3>2
    <2>2. CASE key \notin SetKeys(t)
      <3>1. ledger'[key] = ledger[key] /\ key \in DOMAIN ledger
        BY <1>1, <2>2 DEF Commit, Apply
      <3> QED
        BY <3>1 DEF SupplyInv, ValuesAreWritten
    <2> QED
      BY <2>1, <2>2
  <1>3. \A f \in endorsed' : Balanced(f.tx)
    BY DEF Commit, SupplyInv
  <1>4. /\ InputsOf(t) \subseteq Unspent /\ CreatedIds(t) \cap Unspent = {}
        /\ Unspent' = (Unspent \ InputsOf(t)) \cup CreatedIds(t)
    BY CommitSettles DEF Abstract!Settle
  <1>5. Balanced(t)
    BY DEF SupplyInv
  <1>6. IsFiniteSet(CreatedIds(t)) /\ CreatedIds(t) \subseteq TokenIds
    <2> DEFINE f == [k \in DOMAIN Actions(t) |-> CreatedWorth(Actions(t)[k], "")]
    <2>1. \A k \in DOMAIN Actions(t) : f[k] = CreatedWorth(Actions(t)[k], "")
      OBVIOUS
    <2> HIDE DEF f
    <2> QED
      BY <1>1, <2>1, WorthOfCreated
  <1>7. IsFiniteSet(Committed) /\ IsFiniteSet(Unspent) /\ Unspent \subseteq TokenIds
    BY DEF SupplyInv, WorthIsIssued
  <1>8. ASSUME NEW typ \in TokenTypes
        PROVE  SumFunctionOnSet(Worth(typ), Unspent') + SumFunctionOnSet(GoesBy(typ), Committed')
                   = SumFunctionOnSet(ComesBy(typ), Committed')
    <2> DEFINE U == Unspent
               C == CreatedIds(t)
               I == InputsOf(t)
               K == Committed
               W == Worth(typ)
               R == GoesBy(typ)
               S == ComesBy(typ)
    <2>1. IsFiniteSet(U) /\ IsFiniteSet(C) /\ IsFiniteSet(K) /\ C \cap U = {} /\ t \notin K /\ I \in SUBSET U
      BY <1>1, <1>4, <1>6, <1>7
    <2>2. (\A id \in U : W[id] \in Int) /\ (\A id \in C : W[id] \in Int)
      BY <1>6, <1>7, WorthType
    <2>3. K \cup {t} \subseteq TxIds
      BY <1>1 DEF Committed
    <2>4. (\A u \in K \cup {t} : R[u] \in Int) /\ (\A u \in K \cup {t} : S[u] \in Int)
      BY <2>3, FlowType
    <2>5. SumFunctionOnSet(W, C) + R[t] = SumFunctionOnSet(W, I) + S[t]
      <3> DEFINE c == SumFunctionOnSet(W, C)
                 i == SumFunctionOnSet(W, I)
      <3>1. c + Redeemed(t, typ) = Named(t, typ) + Issued(t, typ)
        BY <1>1, <1>5, NetEffect
      <3>2. i = Consumed(t, typ) /\ i \in Nat
        BY <1>1, ConsumedIsWorth
      <3>3. R[t] = Redeemed(t, typ) + Consumed(t, typ) /\ S[t] = Issued(t, typ) + Named(t, typ)
        BY <1>1 DEF GoesBy, ComesBy
      <3>4. Redeemed(t, typ) \in Nat /\ Issued(t, typ) \in Nat /\ Named(t, typ) \in Nat
        BY <1>1, SupplyType, NamedIsConsumed
      <3>5. c \in Int
        BY <2>1, <2>2, SumType
      <3> HIDE DEF c, i, R, S, W, C, I
      <3>6. c + R[t] = i + S[t]
        BY <3>1, <3>2, <3>3, <3>4, <3>5
      <3> QED
        BY <3>6 DEF c, i
    <2>6. SumFunctionOnSet(W, U) + SumFunctionOnSet(R, K) = SumFunctionOnSet(S, K)
      BY DEF SupplyInv, WorthIsIssued
    <2>7. Unspent' = (U \ I) \cup C /\ Committed' = K \cup {t}
      BY <1>1, <1>4
    <2> HIDE DEF U, C, I, K, W, R, S, t
    <2>8. SumFunctionOnSet(W, (U \ I) \cup C) + SumFunctionOnSet(R, K \cup {t})
              = SumFunctionOnSet(S, K \cup {t})
      BY <2>1, <2>2, <2>4, <2>5, <2>6, SettlementKeepsSums
    <2> QED
      BY <2>7, <2>8 DEF W, R, S
  <1>9. IsFiniteSet(Committed') /\ IsFiniteSet(Unspent') /\ Unspent' \subseteq TokenIds
    <2>1. IsFiniteSet(Committed \cup {t})
      BY <1>7, FS_AddElement
    <2>2. IsFiniteSet(Unspent \ InputsOf(t))
      BY <1>7, FS_Subset
    <2>3. IsFiniteSet((Unspent \ InputsOf(t)) \cup CreatedIds(t))
      BY <1>6, <2>2, FS_Union
    <2> QED
      BY <1>1, <1>4, <1>6, <1>7, <2>1, <2>3
  <1>10. WorthIsIssued'
    BY <1>8, <1>9 DEF WorthIsIssued
  <1> QED
    BY <1>2, <1>3, <1>10 DEF SupplyInv

\* A stuttering step keeps it.
LEMMA StutterSupply == SupplyInv /\ UNCHANGED vars => SupplyInv'
  <1> SUFFICES ASSUME SupplyInv, UNCHANGED vars PROVE SupplyInv'
    OBVIOUS
  <1>1. UNCHANGED ledger /\ UNCHANGED endorsed
    BY DEF vars
  <1>2. UNCHANGED Committed /\ UNCHANGED Unspent
    BY <1>1 DEF Committed, Unspent
  <1>3. ValuesAreWritten' /\ (\A e \in endorsed : Balanced(e.tx))'
    BY <1>1 DEF SupplyInv, ValuesAreWritten
  <1>4. WorthIsIssued'
    BY <1>2 DEF SupplyInv, WorthIsIssued
  <1> QED
    BY <1>3, <1>4 DEF SupplyInv

\* A token on the ledger is worth what it was created with, every endorsed
\* request is balanced, and the worth of the unspent tokens is accounted for.
THEOREM SupplyInductive == Spec => []SupplyInv
  <1>1. IInv /\ SupplyInv /\ [Next]_vars => SupplyInv'
    BY ProcessRequestSupply, CommitSupply, StutterSupply DEF Next
  <1> QED
    BY InductiveInvariant, InitSupply, <1>1, PTL DEF Spec

\* Whatever requests there are and in whatever order they are simulated, ordered
\* and delivered, the unspent tokens of a type, what was redeemed and what was
\* consumed add up to what was issued and what the requests named as inputs, with
\* quantities of any precision (validator and translator together).
THEOREM SupplyConservedHolds == Spec => []SupplyConserved
  <1>1. IInv /\ SupplyInv => SupplyConserved
    <2> SUFFICES ASSUME IInv, SupplyInv, NEW typ \in TokenTypes
                 PROVE  SumFunction([id \in Unspent |-> WorthOf(TokenAt(id), typ)])
                            + SumFunction([t \in Committed |-> Redeemed(t, typ) + Consumed(t, typ)])
                          = SumFunction([t \in Committed |-> Issued(t, typ) + Named(t, typ)])
      BY DEF SupplyConserved, Issued, Redeemed, Consumed, Named, WorthOf, Origin
    <2> DEFINE U == Unspent
               K == Committed
               W == Worth(typ)
               R == GoesBy(typ)
               S == ComesBy(typ)
               held == [id \in U |-> WorthOf(TokenAt(id), typ)]
               gone == [t \in K |-> Redeemed(t, typ) + Consumed(t, typ)]
               come == [t \in K |-> Issued(t, typ) + Named(t, typ)]
    <2>1. /\ SumFunction(held) = SumFunctionOnSet(held, U)
          /\ SumFunction(gone) = SumFunctionOnSet(gone, K)
          /\ SumFunction(come) = SumFunctionOnSet(come, K)
      BY DEF SumFunction
    <2>2. IsFiniteSet(U) /\ IsFiniteSet(K) /\ U \subseteq TokenIds /\ K \subseteq TxIds
      BY DEF SupplyInv, WorthIsIssued, Committed
    <2>3. ASSUME NEW id \in U PROVE TokenAt(id) = Origin(id)
      <3>1. id = <<id[1], id[2]>>
        BY <2>2 DEF TokenIds
      <3>2. CreateTokenKey(id) \in DOMAIN ledger
        BY <3>1, LedgerTokenKeys, UnspentChar DEF Unspent
      <3> QED
        BY <3>2 DEF SupplyInv, ValuesAreWritten, CreateTokenKey, TokenAt, Origin
    <2>4. \A id \in U : held[id] = W[id]
      BY <2>2, <2>3 DEF Worth, WorthOf
    <2>5. \A id \in U : W[id] \in Int
      BY <2>2, WorthType
    <2>6. (\A t \in K : R[t] \in Int /\ gone[t] = R[t]) /\ (\A t \in K : S[t] \in Int /\ come[t] = S[t])
      <3>1. \A t \in K : R[t] \in Int /\ S[t] \in Int
        BY <2>2, FlowType
      <3>2. \A t \in K : gone[t] = R[t] /\ come[t] = S[t]
        BY <2>2 DEF GoesBy, ComesBy
      <3> QED
        BY <3>1, <3>2
    <2>7. SumFunctionOnSet(W, U) + SumFunctionOnSet(R, K) = SumFunctionOnSet(S, K)
      BY DEF SupplyInv, WorthIsIssued
    <2> HIDE DEF U, K, W, R, S, held, gone, come
    <2>8. SumFunctionOnSet(held, U) = SumFunctionOnSet(W, U)
      BY <2>2, <2>4, <2>5, SumEqual
    <2>9. SumFunctionOnSet(gone, K) = SumFunctionOnSet(R, K)
      BY <2>2, <2>6, SumEqual
    <2>10. SumFunctionOnSet(come, K) = SumFunctionOnSet(S, K)
      BY <2>2, <2>6, SumEqual
    <2>11. SumFunction(held) + SumFunction(gone) = SumFunction(come)
      BY <2>1, <2>7, <2>8, <2>9, <2>10
    <2> QED
      BY <2>11 DEF held, gone, come, U, K
  <1> QED
    BY InductiveInvariant, SupplyInductive, <1>1, PTL

-----------------------------------------------------------------------------
\* Claims.

\* The inputs of an action, as the tokens they are.
Origins(a) == [j \in DOMAIN a.inputs |-> Origin(a.inputs[j])]

\* What validation says of the scripts in a request.
ScriptsOK(t) ==
    \A l \in DOMAIN Request[t].transfers :
        LET a == Request[t].transfers[l]
            ins == Origins(a)
        IN /\ \A j \in DOMAIN a.inputs : ins[j].type = ins[1].type
           /\ \E op \in {"claim", "reclaim"} :
                 /\ OwnedByScript(ins) # {} => SpendsScript(ins, a, op)
                 /\ MetadataIsAccountedFor(ins, a, op)

\* It holds of what is endorsed and of what took effect, which is balanced too.
ClaimInv ==
    /\ \A e \in endorsed : ScriptsOK(e.tx)
    /\ \A t \in Committed : ScriptsOK(t) /\ Balanced(t)

-----------------------------------------------------------------------------
\* The inputs the validator reads are the tokens that were written.
LEMMA InputsAreOrigins ==
    ASSUME TypeOK, ValuesAreWritten, NEW a \in Action, RetrieveInputs(a)
    PROVE  Inputs(a) = Origins(a)
  <1> SUFFICES ASSUME NEW j \in DOMAIN a.inputs PROVE TokenAt(a.inputs[j]) = Origin(a.inputs[j])
    BY DEF Inputs, Origins
  <1> DEFINE id == a.inputs[j]
             key == CreateTokenKey(id)
  <1>1. a.inputs[j] \in Range(a.inputs)
    BY DEF Range
  <1>2. key \in DOMAIN ledger
    BY <1>1, VersionZero DEF RetrieveInputs, Exists
  <1>3. key[1] = "token" /\ key[2] = id[1]
    BY DEF CreateTokenKey
  <1> QED
    BY <1>2, <1>3 DEF ValuesAreWritten, Origin, TokenAt

\* What validation establishes does not depend on the state.
LEMMA ValidMeansScriptsOK ==
    ASSUME TypeOK, ValuesAreWritten, NEW t \in TxIds, VerifyTokenRequest(t)
    PROVE  ScriptsOK(t)
  <1> SUFFICES ASSUME NEW l \in DOMAIN Request[t].transfers
               PROVE  LET a == Request[t].transfers[l]
                          ins == Origins(a)
                      IN /\ \A j \in DOMAIN a.inputs : ins[j].type = ins[1].type
                         /\ \E op \in {"claim", "reclaim"} :
                               /\ OwnedByScript(ins) # {} => SpendsScript(ins, a, op)
                               /\ MetadataIsAccountedFor(ins, a, op)
    BY DEF ScriptsOK
  <1> DEFINE a == Request[t].transfers[l]
             ins == Inputs(a)
  <1>1. a \in Action
    BY RequestFields
  <1>2. RetrieveInputs(a) /\ TransferBalanceValidate(a) /\ VerifyTransfer(t, l)
    BY DEF VerifyTokenRequest, VerifyTransfer
  <1>3. ins = Origins(a)
    <2> HIDE DEF a
    <2> QED
      BY <1>1, <1>2, InputsAreOrigins
  <1>4. \A tok \in Range(ins \o a.outputs) : tok.type = ins[1].type
    BY <1>2 DEF TransferBalanceValidate
  <1>5. \A j \in DOMAIN a.inputs : ins[j] \in Range(ins \o a.outputs)
    <2> DEFINE A == {ins[j] : j \in DOMAIN a.inputs} \cup Output
    <2>1. a.inputs \in Seq(TokenIds) /\ a.outputs \in Seq(Output)
      BY <1>1, ActionFields
    <2>2. ins = [j \in 1 .. Len(a.inputs) |-> ins[j]] /\ Len(a.inputs) \in Nat
      BY <2>1 DEF Inputs
    <2>3. \A j \in 1 .. Len(a.inputs) : ins[j] \in A
      BY <2>1
    <2>4. Output \subseteq A /\ DOMAIN ins = DOMAIN a.inputs
      BY DEF Inputs
    <2> HIDE DEF A, ins, a
    <2>5. ins \in Seq(A)
      BY <2>2, <2>3
    <2>6. a.outputs \in Seq(A)
      BY <2>1, <2>4
    <2> QED
      BY <2>4, <2>5, <2>6, ElementsOfConcat
  <1>6. \E op \in {"claim", "reclaim"} :
            /\ OwnedByScript(ins) # {} => SpendsScript(ins, a, op)
            /\ MetadataIsAccountedFor(ins, a, op)
    BY <1>2 DEF VerifyTransfer, TransferHTLCValidate
  <1> QED
    BY <1>3, <1>4, <1>5, <1>6

\* An action that spends a script hands on one token, and all it consumes is in
\* the first input.
LEMMA OnlyTheFirst ==
    ASSUME NEW t \in TxIds, ScriptsOK(t), Balanced(t), NEW l \in DOMAIN Request[t].transfers,
           NEW j \in DOMAIN Request[t].transfers[l].inputs,
           OwnedByScript(Origins(Request[t].transfers[l])) # {},
           Origin(Request[t].transfers[l].inputs[j]).quantity # 0
    PROVE  j = 1
  <1> DEFINE a == Request[t].transfers[l]
             ins == Origins(a)
             typ == ins[1].type
             D == DOMAIN a.inputs
             E == DOMAIN a.outputs
             worth == [i \in D |-> Worth(typ)[a.inputs[i]]]
             made == [i \in 1 .. Len(a.outputs) |->
                          IF a.outputs[i].type = typ THEN a.outputs[i].quantity ELSE 0]
  <1>1. a.inputs \in Seq(TokenIds) /\ a.outputs \in Seq(Output) /\ NumOutputs(a) = Len(a.outputs)
    BY RequestFields, ActionFields
  <1>2. SUFFICES ASSUME j # 1 PROVE FALSE
    OBVIOUS
  <1>3. D = 1 .. Len(a.inputs) /\ Len(a.inputs) \in Nat /\ 1 \in D
    BY <1>1, <1>2
  <1>4. \A i \in D : a.inputs[i] \in TokenIds /\ ins[i] = Origin(a.inputs[i]) /\ ins[i].type = typ
    <2>1. \A i \in D : ins[i].type = typ
      BY DEF ScriptsOK
    <2>2. \A i \in D : a.inputs[i] \in TokenIds
      BY <1>1, <1>3
    <2>3. \A i \in D : ins[i] = Origin(a.inputs[i])
      BY DEF Origins
    <2> QED
      BY <2>1, <2>2, <2>3
  <1>5. \E op \in {"claim", "reclaim"} : SpendsScript(ins, a, op)
    BY DEF ScriptsOK
  <1>6. Len(a.outputs) = 1 /\ a.outputs[1].type = typ /\ a.outputs[1].quantity = ins[1].quantity
    BY <1>1, <1>5 DEF SpendsScript
  <1>7. E = {1} /\ typ \in TokenTypes /\ ins[1].quantity \in Nat
    <2>1. E = 1 .. 1 /\ a.outputs[1] \in Output
      BY <1>1, <1>6
    <2> QED
      BY <1>6, <2>1 DEF Output
  <1>8. SumFunctionOnSet(worth, D) = SumFunctionOnSet(made, {1})
    <2>1. SumFunctionOnSet(worth, D) = Quantity(a.outputs, E, typ)
      BY <1>7 DEF Balanced
    <2>2. Quantity(a.outputs, E, typ) = SumFunctionOnSet(made, E)
      BY DEF Quantity
    <2> QED
      BY <1>7, <2>1, <2>2
  <1>9. \A i \in D : worth[i] = ins[i].quantity /\ worth[i] \in Nat
    BY <1>4, OriginType DEF Worth
  <1>10. made[1] = ins[1].quantity
    <2>1. 1 \in 1 .. Len(a.outputs)
      BY <1>6
    <2>2. made[1] = IF a.outputs[1].type = typ THEN a.outputs[1].quantity ELSE 0
      BY <2>1
    <2> HIDE DEF made, ins, typ
    <2> QED
      BY <1>6, <2>2
  <1>11. worth[j] # 0 /\ j \in D
    BY <1>4, <1>9
  <1>12. IsFiniteSet(D)
    <2> DEFINE n == Len(a.inputs)
    <2>1. D = 1 .. n /\ n \in Nat
      BY <1>3
    <2> HIDE DEF n, D
    <2> QED
      BY <2>1, FS_Interval
  <1> DEFINE q == ins[1].quantity
  <1>13. worth[1] = q /\ made[1] = q /\ q \in Nat
    BY <1>3, <1>7, <1>9, <1>10
  <1> HIDE DEF worth, made, D, q
  <1>14. SumFunctionOnSet(made, {1}) = q
    <2>1. IsFiniteSet({}) /\ 1 \notin {} /\ {} \cup {1} = {1} /\ \A i \in {} \cup {1} : made[i] \in Int
      BY <1>13, FS_EmptySet
    <2>2. SumFunctionOnSet(made, {} \cup {1}) = made[1] + SumFunctionOnSet(made, {})
      BY <2>1, SumAdd
    <2> QED
      BY <1>13, <2>1, <2>2, SumOfNothing
  <1>15. SumFunctionOnSet(worth, {1, j}) = q + worth[j]
    <2>1. IsFiniteSet({}) /\ IsFiniteSet({1}) /\ \A i \in {1, j} : worth[i] \in Int
      BY <1>3, <1>9, <1>11, FS_EmptySet, FS_AddElement
    <2>2. SumFunctionOnSet(worth, {} \cup {1}) = worth[1] + SumFunctionOnSet(worth, {})
      BY <2>1, SumAdd
    <2>3. SumFunctionOnSet(worth, {1} \cup {j}) = worth[j] + SumFunctionOnSet(worth, {1})
      BY <1>2, <2>1, SumAdd
    <2>4. {} \cup {1} = {1} /\ {1} \cup {j} = {1, j}
      OBVIOUS
    <2>5. worth[j] \in Nat
      BY <1>9, <1>11
    <2>6. SumFunctionOnSet(worth, {1}) = q
      BY <1>13, <2>2, <2>4, SumOfNothing
    <2>7. SumFunctionOnSet(worth, {1, j}) = worth[j] + q
      BY <2>3, <2>4, <2>6
    <2> QED
      BY <1>13, <2>5, <2>7
  <1>16. SumFunctionOnSet(worth, {1, j}) <= SumFunctionOnSet(worth, D)
    <2>1. {1, j} \in SUBSET D
      BY <1>3, <1>11
    <2> QED
      BY <1>9, <1>12, <2>1, SumMonotone
  <1> QED
    BY <1>8, <1>9, <1>11, <1>13, <1>14, <1>15, <1>16
-----------------------------------------------------------------------------
\* Nothing is endorsed or committed at first.
LEMMA InitClaims == Init => ClaimInv
  <1> SUFFICES ASSUME Init PROVE ClaimInv
    OBVIOUS
  <1>1. DOMAIN ledger = {SetupKey} /\ endorsed = {}
    BY DEF Init
  <1>2. Committed = {}
    BY <1>1 DEF Committed, CreateTokenRequestKey, SetupKey
  <1> QED
    BY <1>1, <1>2 DEF ClaimInv

\* A simulation endorses what it validated; a commit makes it take effect.
LEMMA ClaimStep ==
    ASSUME IInv, SupplyInv, ClaimInv, [Next]_vars
    PROVE  ClaimInv'
  <1>1. ASSUME NEW t \in TxIds, ProcessRequest(t)
        PROVE  ClaimInv'
    <2>1. UNCHANGED ledger /\ endorsed' = endorsed \cup {Endorsement(t)}
      BY <1>1 DEF ProcessRequest
    <2>2. Endorsement(t).tx = t
      BY DEF Endorsement
    <2>3. ScriptsOK(t)
      BY <1>1, ValidMeansScriptsOK DEF ProcessRequest, IInv, SupplyInv
    <2>4. UNCHANGED Committed
      BY <2>1 DEF Committed
    <2> QED
      BY <2>1, <2>2, <2>3, <2>4 DEF ClaimInv
  <1>2. ASSUME NEW e \in endorsed, Commit(e)
        PROVE  ClaimInv'
    <2>1. Committed' = Committed \cup {e.tx} /\ UNCHANGED endorsed
      BY <1>2, CommitFacts DEF Commit
    <2>2. ScriptsOK(e.tx) /\ Balanced(e.tx)
      BY <1>2 DEF ClaimInv, SupplyInv
    <2> QED
      BY <2>1, <2>2 DEF ClaimInv
  <1>3. ASSUME UNCHANGED vars
        PROVE  ClaimInv'
    <2>1. UNCHANGED endorsed /\ UNCHANGED Committed
      BY <1>3 DEF vars, Committed
    <2> QED
      BY <2>1 DEF ClaimInv
  <1> QED
    BY <1>1, <1>2, <1>3 DEF Next

\* The metadata of a transfer that took effect is on the ledger, and all
\* transfer metadata on the ledger is of such transfers.
LEMMA MetadataOnLedger ==
    ASSUME IInv, NEW m
    PROVE  CreateTransferActionMetadataKey(m) \in DOMAIN ledger <=>
               \E t \in Committed : \E l \in DOMAIN Request[t].transfers : m \in Request[t].transfers[l].metadata
  <1> DEFINE key == CreateTransferActionMetadataKey(m)
  <1>1. key[1] = "tam" /\ key[2] = m
    BY DEF CreateTransferActionMetadataKey
  <1>2. ASSUME NEW t \in TxIds
        PROVE  key \in SetKeys(t) <=> \E k \in DOMAIN Actions(t) : key \in MetadataKeysOf(Actions(t)[k])
    <2>1. key \notin TokenWrites(t) /\ key # CreateTokenRequestKey(t) /\ key \notin SpentKeys(t)
      BY <1>1, KeyKinds
    <2> QED
      BY <2>1 DEF SetKeys, MetadataWrites
  <1>3. ASSUME NEW a \in Action
        PROVE  key \in MetadataKeysOf(a) <=> ~IsIssue(a) /\ m \in a.metadata
    BY <1>1 DEF MetadataKeysOf, CreateTransferActionMetadataKey, CreateIssueActionMetadataKey
  <1>4. ASSUME NEW t \in TxIds
        PROVE  key \in SetKeys(t) <=>
                   \E l \in DOMAIN Request[t].transfers : m \in Request[t].transfers[l].metadata
    <2> DEFINE is == Request[t].issues
               ts == Request[t].transfers
    <2>1. \A k \in DOMAIN Actions(t) : Actions(t)[k] \in Action
      BY ActionsType
    <2>2. /\ \A k \in DOMAIN is : IsIssue(is[k])
          /\ \A l \in DOMAIN ts : ~IsIssue(ts[l])
      <3>1. is \in Seq(IssueAction) /\ ts \in Seq(TransferAction)
        BY RequestFields
      <3> HIDE DEF is, ts
      <3> QED
        BY <3>1 DEF IssueAction, TransferAction
    <2>3. is \in Seq(Action) /\ ts \in Seq(Action) /\ Actions(t) = is \o ts
      <3>1. is \in Seq(IssueAction) /\ ts \in Seq(TransferAction)
        BY RequestFields
      <3>2. IssueAction \subseteq Action /\ TransferAction \subseteq Action
        BY DEF IssueAction, TransferAction
      <3>3. Actions(t) = is \o ts
        BY DEF Actions
      <3> HIDE DEF is, ts
      <3> QED
        BY <3>1, <3>2, <3>3
    <2>4. \A k \in DOMAIN Actions(t) :
              \/ k \in DOMAIN is /\ Actions(t)[k] = is[k]
              \/ \E l \in DOMAIN ts : Actions(t)[k] = ts[l]
      <3> HIDE DEF is, ts
      <3> QED
        BY <2>3, ConcatElement
    <2>5. \A l \in DOMAIN ts : \E k \in DOMAIN Actions(t) : Actions(t)[k] = ts[l]
      <3> HIDE DEF is, ts
      <3> TAKE l \in DOMAIN ts
      <3>1. Len(is) \in Nat /\ Len(ts) \in Nat /\ l \in 1 .. Len(ts)
        BY <2>3
      <3>2. Len(is) + l \in DOMAIN (is \o ts) /\ (is \o ts)[Len(is) + l] = ts[l]
        BY <2>3, <3>1
      <3> QED
        BY <2>3, <3>2
    <2> HIDE DEF is, ts
    <2> QED
      BY <1>2, <1>3, <2>1, <2>2, <2>4, <2>5 DEF ts
  <1>5. \A t \in TxIds : key \notin DeletedKeys(t)
    BY <1>1, KeyKinds DEF DeletedKeys
  <1>6. key # SetupKey
    BY <1>1 DEF SetupKey
  <1>7. Committed \subseteq TxIds
    BY DEF Committed
  <1>8. key \in DOMAIN ledger <=> \E t \in Committed : key \in SetKeys(t)
    BY <1>5, <1>6, <1>7 DEF IInv, LedgerIsHistory
  <1> QED
    BY <1>4, <1>7, <1>8

\* A transfer that claims: what its metadata reveals.
LEMMA RevealedByClaim ==
    ASSUME NEW ins, NEW a, NEW op \in {"claim", "reclaim"}, NEW h, MetadataIsAccountedFor(ins, a, op)
    PROVE  ClaimKey(h) \in a.metadata <=> op = "claim" /\ h \in HashesOf(ins)
  <1>1. \A g : LockKey(g) # ClaimKey(h) /\ (ClaimKey(g) = ClaimKey(h) <=> g = h)
    BY DEF LockKey, ClaimKey
  <1> QED
    BY <1>1 DEF MetadataIsAccountedFor, LocksAndClaims

\* Who claims a token of a script, in whatever history, reveals the preimage on
\* the ledger, and a preimage is only revealed by a claim (the validation of the
\* scripts and of their metadata, and the metadata keys of the translator).
THEOREM PreimageFollowsClaimHolds == Spec => []PreimageFollowsClaim
  <1>1. ClaimInv /\ IInv => PreimageFollowsClaim
    <2> SUFFICES ASSUME ClaimInv, IInv, NEW h \in Hashes
                 PROVE  /\ CreateTransferActionMetadataKey(ClaimKey(h)) \in DOMAIN ledger =>
                              \E t \in Committed : \E a \in Range(Request[t].transfers) : \E id \in Range(a.inputs) :
                                 /\ Origin(id).owner \in Scripts /\ Script[Origin(id).owner].hash = h
                                 /\ Origin(a.inputs[1]).owner \in Scripts
                                 /\ a.outputs[1].owner = Script[Origin(a.inputs[1]).owner].recipient
                        /\ \A t \in Committed : \A a \in Range(Request[t].transfers) : \A id \in Range(a.inputs) :
                              /\ Origin(id).owner \in Scripts /\ Script[Origin(id).owner].hash = h
                              /\ Origin(id).quantity # 0
                              /\ a.outputs[1].owner = Script[Origin(id).owner].recipient
                              /\ Script[Origin(id).owner].recipient # Script[Origin(id).owner].sender
                              => CreateTransferActionMetadataKey(ClaimKey(h)) \in DOMAIN ledger
      BY DEF PreimageFollowsClaim, Origin
    <2>1. Committed \subseteq TxIds
      BY DEF Committed
    <2>2. ASSUME CreateTransferActionMetadataKey(ClaimKey(h)) \in DOMAIN ledger
          PROVE  \E t \in Committed : \E a \in Range(Request[t].transfers) : \E id \in Range(a.inputs) :
                    /\ Origin(id).owner \in Scripts /\ Script[Origin(id).owner].hash = h
                    /\ Origin(a.inputs[1]).owner \in Scripts
                    /\ a.outputs[1].owner = Script[Origin(a.inputs[1]).owner].recipient
      <3>1. PICK t \in Committed : \E l \in DOMAIN Request[t].transfers :
                                       ClaimKey(h) \in Request[t].transfers[l].metadata
        BY <2>2, MetadataOnLedger
      <3>2. PICK l \in DOMAIN Request[t].transfers : ClaimKey(h) \in Request[t].transfers[l].metadata
        BY <3>1
      <3> DEFINE a == Request[t].transfers[l]
                 ins == Origins(a)
      <3>3. PICK op \in {"claim", "reclaim"} :
                /\ OwnedByScript(ins) # {} => SpendsScript(ins, a, op)
                /\ MetadataIsAccountedFor(ins, a, op)
        BY DEF ClaimInv, ScriptsOK
      <3>4. op = "claim" /\ h \in HashesOf(ins)
        BY <3>2, <3>3, RevealedByClaim
      <3>5. PICK j \in OwnedByScript(ins) : h = Script[ins[j].owner].hash
        BY <3>4 DEF HashesOf
      <3>6. j \in DOMAIN a.inputs /\ ins[j].owner \in Scripts /\ ins[j] = Origin(a.inputs[j])
        BY <3>5 DEF OwnedByScript, Origins
      <3>7. VerifyOwner(ins, a, "claim")
        BY <3>3, <3>4, <3>5 DEF SpendsScript
      <3>8. ins[1] = Origin(a.inputs[1])
        <4>1. a.inputs \in Seq(TokenIds)
          BY <2>1, RequestFields, ActionFields
        <4>2. 1 \in DOMAIN a.inputs
          <5> HIDE DEF a
          <5> QED
            BY <3>6, <4>1
        <4> QED
          BY <4>2 DEF Origins
      <3>9. a \in Range(Request[t].transfers) /\ a.inputs[j] \in Range(a.inputs)
        BY <3>6 DEF Range
      <3> QED
        BY <3>5, <3>6, <3>7, <3>8, <3>9 DEF VerifyOwner
    <2>3. ASSUME NEW t \in Committed, NEW a \in Range(Request[t].transfers), NEW id \in Range(a.inputs),
                 Origin(id).owner \in Scripts, Script[Origin(id).owner].hash = h,
                 Origin(id).quantity # 0,
                 a.outputs[1].owner = Script[Origin(id).owner].recipient,
                 Script[Origin(id).owner].recipient # Script[Origin(id).owner].sender
          PROVE  CreateTransferActionMetadataKey(ClaimKey(h)) \in DOMAIN ledger
      <3>1. PICK l \in DOMAIN Request[t].transfers : a = Request[t].transfers[l]
        BY DEF Range
      <3>2. PICK j \in DOMAIN a.inputs : id = a.inputs[j]
        BY DEF Range
      <3> DEFINE ins == Origins(a)
      <3>3. ins[j] = Origin(id) /\ j \in OwnedByScript(ins)
        BY <2>3, <3>2 DEF Origins, OwnedByScript
      <3>4. ScriptsOK(t) /\ Balanced(t)
        BY DEF ClaimInv
      <3>5. j = 1
        BY <2>1, <2>3, <3>1, <3>2, <3>3, <3>4, OnlyTheFirst
      <3>6. PICK op \in {"claim", "reclaim"} :
                /\ OwnedByScript(ins) # {} => SpendsScript(ins, a, op)
                /\ MetadataIsAccountedFor(ins, a, op)
        BY <3>1, <3>4 DEF ScriptsOK
      <3>7. op = "claim"
        BY <2>3, <3>3, <3>5, <3>6 DEF SpendsScript, VerifyOwner
      <3>8. ClaimKey(h) \in a.metadata
        <4>1. h \in HashesOf(ins)
          BY <2>3, <3>3 DEF HashesOf
        <4> QED
          BY <3>6, <3>7, <4>1, RevealedByClaim
      <3> QED
        BY <3>1, <3>8, MetadataOnLedger
    <2> QED
      BY <2>2, <2>3
  <1>2. IInv /\ SupplyInv /\ ClaimInv /\ [Next]_vars => ClaimInv'
    BY ClaimStep
  <1> QED
    BY InductiveInvariant, SupplyInductive, InitClaims, <1>1, <1>2, PTL DEF Spec
=============================================================================
