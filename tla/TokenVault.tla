------------------------------ MODULE TokenVault ------------------------------
(***************************************************************************)
(* What a node keeps about the tokens of its parties, and how it learns of   *)
(* transactions.  A network orders what is broadcast, transaction by           *)
(* transaction, and decides on each as TokenLedger says; a node processes the  *)
(* ordered transactions one after the other, each at its own pace.  It looks    *)
(* into a transaction only if it stored the transient data (the openings of     *)
(* the outputs) and, on Fabric, the envelope before; otherwise the tokens of its parties    *)
(* stay as they were.  Nor does it know all the openings: whoever assembles a    *)
(* transaction and the auditor have them all, another node is sent those of one   *)
(* enrollment id, and skips the outputs it cannot open.                           *)
(*                                                                          *)
(* A node has databases of transaction records, one of its owners and, at the  *)
(* node of the auditor, one of the auditor.  They follow the outcome through    *)
(* listeners, which a restart loses and Restore puts back.  (The steps of       *)
(* Restore and what may happen between them are in Auditing; here it is one     *)
(* step.)                                                                    *)
(*                                                                          *)
(* Everything that reaches a disk survives a restart: transient data,          *)
(* envelopes, tokens, records.                                               *)
(***************************************************************************)
EXTENDS TokenRequest, VaultStore, SequencesExt

CONSTANTS
    Networks,
    NetworkOf,      \* TxIds -> Networks
    OrionNetworks,  \* networks of the Orion driver, the others are Fabric
    Nodes,
    WalletsOf,      \* Parties -> pairs of a node and a wallet of it that has the party's identity
    EnrollmentID,   \* of each party; of a script, that of its recipient
    AuditorNode,
    Assemblers,     \* TxIds -> the nodes that put the transaction together
    Genesis         \* for each network, the issues that are settled and known at the start

VARIABLES
    unspent, spent, settled,
    submitted,      \* transactions broadcast and not yet ordered
    chain,          \* ordered transactions of each network
    height,         \* how many of them a node has processed
    transient,      \* transactions whose transient data a node stores
    envelope,       \* transactions whose envelope it stores
    store,          \* keys of the tokens it keeps
    records,        \* status of each transaction in each database
    listening,      \* transactions a database has a listener for
    notices         \* outcomes on their way to a listener

ASSUME VaultAssumption ==
    /\ NetworkOf \in [TxIds -> Networks]
    /\ OrionNetworks \subseteq Networks
    /\ DOMAIN WalletsOf = Parties
    /\ \A p \in Parties : \A nw \in WalletsOf[p] : nw[1] \in Nodes
    /\ DOMAIN EnrollmentID = Parties
    /\ AuditorNode \in Nodes
    /\ Assemblers \in [TxIds -> SUBSET Nodes]
    /\ Genesis \in [Networks -> Seq(TxIds)]
    /\ \A k \in Networks : \A t \in Range(Genesis[k]) : NetworkOf[t] = k /\ InputsOf(t) = {}

\* A token lives on one network.
ASSUME ChainAssumption ==
    /\ \A k \in Networks : IsInjective(Genesis[k])
    /\ \A t \in TxIds : \A id \in InputsOf(t) : id[1] \in TxIds => NetworkOf[id[1]] = NetworkOf[t]

ledgerVars == <<unspent, spent, settled>>
networkVars == <<unspent, spent, settled, submitted, chain>>
recordVars == <<records, listening, notices>>
vaultVars == <<networkVars, height, transient, envelope, store, recordVars>>

-----------------------------------------------------------------------------
\* Tokens.

OutputsOf(t) ==
    FlattenSeq([k \in DOMAIN Actions(t) |->
        [j \in DOMAIN Actions(t)[k].outputs |->
            [output |-> Actions(t)[k].outputs[j], issuer |-> Actions(t)[k].issuer]]])

Outputs == [t \in TxIds |-> OutputsOf(t)]

Created ==
    [t \in TxIds |-> {<<t, i - 1>> : i \in {j \in DOMAIN Outputs[t] :
                                              Outputs[t][j].output.owner # NoOwner}}]
Consumed == [t \in TxIds |-> InputsOf(t)]

CreatedIds(t) == Created[t]
ConsumedIds(t) == Consumed[t]

TokenOf(id) == Outputs[id[1]][id[2] + 1].output
IssuerOf(id) == Outputs[id[1]][id[2] + 1].issuer

\* Who the node acts for: a token is its own if wallets of it recognise the
\* owner, an issuer is its own in the same way.
WalletIdsOf(n, p) == {nw[2] : nw \in {x \in WalletsOf[p] : x[1] = n}}
NodesOf == [p \in Parties |-> {nw[1] : nw \in WalletsOf[p]}]

IsMine(n, id) == n \in NodesOf[TokenOf(id).owner]
Issued(n, id) == IssuerOf(id) # NoIssuer /\ n \in NodesOf[IssuerOf(id)]
AmIAnAuditor(n) == n = AuditorNode

-----------------------------------------------------------------------------
\* Openings.

\* Whom a transaction is sent to: action by action, who signs for it, then who gets
\* the outputs.
distributionList(t) ==
    SelectSeq(
        FlattenSeq([k \in DOMAIN Actions(t) |->
            LET a == Actions(t)[k]
            IN (IF a.issuer # NoIssuer THEN <<a.issuer>> ELSE << >>)
               \o [j \in DOMAIN a.inputs |-> TokenOf(a.inputs[j]).owner]
               \o [j \in DOMAIN a.outputs |-> a.outputs[j].owner]]),
        LAMBDA p : p # NoOwner)

\* A node gets one copy, filtered by the enrollment id of the first of its parties.
FilteredBy(n, t) ==
    LET here == SelectSeq(distributionList(t), LAMBDA p : n \in NodesOf[p])
    IN {EnrollmentID[here[i]] : i \in DOMAIN here \cap {1}}

\* The outputs whose openings a node has.
FilterBy(eIDs, t) == {id \in Created[t] : EnrollmentID[TokenOf(id).owner] \in eIDs}
MetadataAt ==
    [n \in Nodes |-> [t \in TxIds |->
        IF n \in Assemblers[t] \cup {AuditorNode} THEN Created[t]
                                                 ELSE FilterBy(FilteredBy(n, t), t)]]
Opens(n, id) == id \in MetadataAt[n][id[1]]

Network == INSTANCE TokenLedger WITH Created <- CreatedIds, Consumed <- ConsumedIds

-----------------------------------------------------------------------------
\* Databases of transaction records: one of the owners of each node, and one of
\* the auditor.
AuditDB == "audit db"
DBs == Nodes \cup {AuditDB}
NodeOfDB(db) == IF db = AuditDB THEN AuditorNode ELSE db

Ordered(t) == t \in Range(chain[NetworkOf[t]])

Processed(n, t) ==
    \E i \in 1 .. height[n][NetworkOf[t]] : chain[NetworkOf[t]][i] = t

\* The status of a transaction in the vault of a node.
Status(n, t) ==
    CASE Processed(n, t) -> IF t \in settled THEN "Valid" ELSE "Invalid"
      [] ~Processed(n, t) /\ t \in envelope[n] -> "Busy"
      [] OTHER -> "Unknown"

Outcome(t) == IF t \in settled THEN "Confirmed" ELSE "Deleted"

IsFinal(n, t) == Status(n, t) \in {"Valid", "Invalid"}

\* Mistake: nobody listens.
AppendOnly(db, t) ==
    /\ records' = [records EXCEPT ![db][t] = "Pending"]
    /\ UNCHANGED <<listening, notices>>

\* Append: the records, then a listener for the outcome.
AppendRecords(db, t) ==
    /\ records' = [records EXCEPT ![db][t] = "Pending"]
    /\ listening' = [listening EXCEPT ![db] = @ \cup {t}]
    /\ UNCHANGED notices

\* The listener sets the status and unsubscribes.
OnStatusChange(db, t) ==
    /\ t \in notices[db]
    /\ records' = [records EXCEPT ![db][t] = IF @ = "none" THEN @ ELSE Outcome(t)]
    /\ notices' = [notices EXCEPT ![db] = @ \ {t}]
    /\ listening' = [listening EXCEPT ![db] = @ \ {t}]
    /\ UNCHANGED <<networkVars, height, transient, envelope, store>>

\* Mistake: what the vault does not report valid is taken for rejected.
RestoreDeletesPending(n) ==
    LET restored(db) == NodeOfDB(db) = n
        pending(db) == {t \in TxIds : records[db][t] = "Pending"}
    IN /\ records' = [db \in DBs |-> [t \in TxIds |->
              IF restored(db) /\ t \in pending(db)
              THEN IF Status(n, t) = "Valid" THEN "Confirmed" ELSE "Deleted"
              ELSE records[db][t]]]
       /\ listening' = [db \in DBs |-> IF restored(db) THEN {} ELSE listening[db]]
       /\ notices' = [db \in DBs |-> IF restored(db) THEN {} ELSE notices[db]]

\* A restart of the node: listeners and notices are gone, and for each pending
\* transaction the vault is asked for its status; those it does not know the
\* outcome of get a listener again.
Restore(n) ==
    LET restored(db) == NodeOfDB(db) = n
        pending(db) == {t \in TxIds : records[db][t] = "Pending"}
    IN /\ records' = [db \in DBs |-> [t \in TxIds |->
              IF restored(db) /\ t \in pending(db) /\ IsFinal(n, t) THEN Outcome(t)
                                                                    ELSE records[db][t]]]
       /\ listening' = [db \in DBs |->
              IF restored(db) THEN {t \in pending(db) : ~IsFinal(n, t)} ELSE listening[db]]
       /\ notices' = [db \in DBs |-> IF restored(db) THEN {} ELSE notices[db]]

-----------------------------------------------------------------------------
\* What a node and its wallets answer from the store.

UnspentTokens(n) == UnspentTokensIterator(store[n])
ListTokens(n, w, typ) == UnspentTokensIteratorBy(store[n], w, typ)

\* An issuer lists what it issued itself.
HistoryTokens(n, issuer, typ) ==
    {id \in ListHistoryIssuedTokens(store[n]) :
        typ \in {AnyType, TokenOf(id).type} /\ IssuerOf(id) = issuer}

IsPending(n, id) == Status(n, id[1]) = "Busy"

-----------------------------------------------------------------------------
\* The ordering service.

\* The next transaction of its network takes effect if its inputs are unspent.
Order(t) ==
    /\ t \in submitted
    /\ submitted' = submitted \ {t}
    /\ chain' = [chain EXCEPT ![NetworkOf[t]] = Append(@, t)]
    /\ IF ConsumedIds(t) \subseteq unspent THEN Network!Settle(t) ELSE UNCHANGED ledgerVars
    /\ UNCHANGED <<height, transient, envelope, store, recordVars>>

-----------------------------------------------------------------------------
\* The processor of read/write sets.

\* Tokens are deleted whether the node has them or not, and who deleted them is
\* written down.  No two tokens share a key.
DeleteFabTokens(n, keys, ids, deletedBy) ==
    (keys \ UNION {DeleteFabToken(keys, id, TokenOf(id).type, WalletIdsOf(n, TokenOf(id).owner)) :
                       id \in ids})
        \cup {CreateDeletedTokenKey(id, deletedBy) : id \in ids}

\* What the node keeps of an output.
StoreOutput(n, id) ==
    (IF IsMine(n, id)
     THEN StoreFabToken(id, TokenOf(id).type, WalletIdsOf(n, TokenOf(id).owner)) ELSE {})
        \cup (IF AmIAnAuditor(n) THEN StoreAuditToken(id) ELSE {})
        \cup (IF Issued(n, id) THEN StoreIssuedHistoryToken(id) ELSE {})

\* An output without its opening is skipped.
StoreOutputs(n, t) == UNION {StoreOutput(n, id) : id \in MetadataAt[n][t]}

TokenRequestKeys(n, t, keys) ==
    DeleteFabTokens(n, keys, ConsumedIds(t), t) \cup StoreOutputs(n, t)

processTokenRequest(n, t) == store' = [store EXCEPT ![n] = TokenRequestKeys(n, t, @)]

\* The processor of the Fabric driver wants the envelope as well.
Known(n, t) == t \in transient[n] /\ (NetworkOf[t] \in OrionNetworks \/ t \in envelope[n])

\* Mistake: the tokens of a rejected transaction are stored as well.
TakesEffectAt(n, t) == t \in transient[n]

\* A node looks into transactions that took effect and that it knows.
Relevant(n, t) == t \in settled /\ Known(n, t)

\* The next ordered transaction of a network reaches the vault of a node, which
\* tells the listeners.
Process(n, k) ==
    /\ height[n][k] < Len(chain[k])
    /\ LET t == chain[k][height[n][k] + 1]
       IN /\ IF Relevant(n, t) THEN processTokenRequest(n, t) ELSE UNCHANGED store
          /\ notices' = [db \in DBs |-> IF NodeOfDB(db) = n /\ t \in listening[db]
                                        THEN notices[db] \cup {t} ELSE notices[db]]
    /\ height' = [height EXCEPT ![n][k] = @ + 1]
    /\ UNCHANGED <<networkVars, transient, envelope, records, listening>>

-----------------------------------------------------------------------------
\* The start: the issues of Genesis took effect and everyone knows.
InGenesis == UNION {Range(Genesis[k]) : k \in Networks}

VaultInit ==
    /\ unspent = UNION {CreatedIds(t) : t \in InGenesis}
    /\ spent = {}
    /\ settled = InGenesis
    /\ submitted = {}
    /\ chain = Genesis
    /\ height = [n \in Nodes |-> [k \in Networks |-> Len(Genesis[k])]]
    /\ transient = [n \in Nodes |-> InGenesis]
    /\ envelope = [n \in Nodes |-> InGenesis]
    /\ store = [n \in Nodes |-> UNION {StoreOutputs(n, t) : t \in InGenesis}]
    /\ records = [db \in DBs |-> [t \in TxIds |-> IF t \in InGenesis THEN "Confirmed" ELSE "none"]]
    /\ listening = [db \in DBs |-> {}]
    /\ notices = [db \in DBs |-> {}]

VaultTypeOK ==
    /\ unspent \cup spent \subseteq UNION {CreatedIds(t) : t \in TxIds}
    /\ settled \subseteq TxIds
    /\ submitted \subseteq TxIds
    /\ \A k \in Networks : Range(chain[k]) \subseteq {t \in TxIds : NetworkOf[t] = k}
    /\ \A n \in Nodes, k \in Networks : height[n][k] \in 0 .. Len(chain[k])
    /\ transient \in [Nodes -> SUBSET TxIds]
    /\ envelope \in [Nodes -> SUBSET TxIds]
    /\ \A n \in Nodes : UnspentTokens(n) \cup ListHistoryIssuedTokens(store[n])
                           \subseteq unspent \cup spent
    /\ records \in [DBs -> [TxIds -> {"none", "Pending", "Confirmed", "Deleted"}]]
    /\ listening \in [DBs -> SUBSET TxIds]
    /\ notices \in [DBs -> SUBSET TxIds]

-----------------------------------------------------------------------------
\* Tokens that are unspent after the transactions a node has processed.
ProcessedAt(n) == (UNION {Range(SubSeq(chain[k], 1, height[n][k])) : k \in Networks}) \cap settled
UnspentAt(n) ==
    (UNION {CreatedIds(t) : t \in ProcessedAt(n)}) \ UNION {ConsumedIds(t) : t \in ProcessedAt(n)}
=============================================================================
