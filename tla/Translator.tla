----------------------------- MODULE Translator -----------------------------
(***************************************************************************)
(* The translator turns the actions of a verified request into reads and    *)
(* writes of the ledger.  ledger is the committed state of one namespace:   *)
(* a key that is in its domain holds a version (the height of the           *)
(* transaction that wrote it) and a value; a key outside has never been     *)
(* written or has been deleted, and reads as the empty value.               *)
(*                                                                          *)
(* Every read of a simulation sees the committed state, never the writes    *)
(* the same simulation made before: that is what the chaincode stub returns. *)
(***************************************************************************)
EXTENDS TokenRequest

CONSTANT
    GraphHiding     \* TRUE when inputs are serial numbers, not token keys: the
                    \* translator supports both, the drivers only use FALSE

VARIABLES
    ledger,         \* committed keys -> [version, value]
    height          \* version of the last committed transaction

ASSUME GraphHidingAssumption == GraphHiding \in BOOLEAN

\* The value of a key that holds no token.
NoToken == [owner |-> NoOwner, type |-> "", quantity |-> 0]

GetState(key) == IF key \in DOMAIN ledger THEN ledger[key].version ELSE 0

Exists(key) == GetState(key) # 0

\* Mistake: a redeemed output consumes no index.
CounterOfCreated(t, k) ==
    SumFunctionOnSet([j \in DOMAIN Actions(t) |-> Cardinality(CreatedOutputs(Actions(t)[j]))],
                     1 .. (k - 1))

\* The translator's counter when it writes the k-th action of the request:
\* every output consumes an index, the redeemed ones too.
Counter(t, k) ==
    SumFunctionOnSet([j \in DOMAIN Actions(t) |-> NumOutputs(Actions(t)[j])], 1 .. (k - 1))

OutputKey(t, k, i) == CreateTokenKey(<<t, Counter(t, k) + (i - 1)>>)

OutputKeys(t, k) == {OutputKey(t, k, i) : i \in CreatedOutputs(Actions(t)[k])}

\* What the action names as its inputs: token keys, or serial numbers.
GetInputs(a) ==
    {IF GraphHiding THEN CreateSNKey(id) ELSE CreateTokenKey(id) : id \in Range(a.inputs)}

MetadataKeysOf(a) ==
    IF IsIssue(a) THEN {CreateIssueActionMetadataKey(m) : m \in a.metadata}
                  ELSE {CreateTransferActionMetadataKey(m) : m \in a.metadata}

CheckTokensDoNotExist(t, k) == \A key \in OutputKeys(t, k) : ~Exists(key)

CheckIssue(t, k) == CheckTokensDoNotExist(t, k)

\* A spent input is a missing token, or a serial number already there.
CheckTransfer(t, k) ==
    /\ \A key \in GetInputs(Actions(t)[k]) : Exists(key) <=> ~GraphHiding
    /\ CheckTokensDoNotExist(t, k)

CheckAction(t, k) ==
    IF IsIssue(Actions(t)[k]) THEN CheckIssue(t, k) ELSE CheckTransfer(t, k)

\* Mistake: the inputs are deleted without having been read.
ActionReadsNoInputs(t, k) == OutputKeys(t, k) \cup MetadataKeysOf(Actions(t)[k])

\* Reads made to check an action and to write its metadata.
ActionReads(t, k) ==
    GetInputs(Actions(t)[k]) \cup OutputKeys(t, k) \cup MetadataKeysOf(Actions(t)[k])

\* Mistakes: a transfer overwrites metadata; a request overwrites a request.
MetadataIsFreeOfIssues(a) == IsIssue(a) => \A key \in MetadataKeysOf(a) : ~Exists(key)
CommitTokenRequestAlways(t) == TRUE

MetadataIsFree(a) == \A key \in MetadataKeysOf(a) : ~Exists(key)

CommitTokenRequest(t) == ~Exists(CreateTokenRequestKey(t))

\* Mistake: spent tokens stay on the ledger.
DeletedKeysNone(t) == {}

\* spendTokens: a token key is deleted, a serial number is added.
SpentKeys(t) == UNION {GetInputs(Actions(t)[k]) : k \in DOMAIN Actions(t)}
DeletedKeys(t) == IF GraphHiding THEN {} ELSE SpentKeys(t)

\* The keys a request sets: outputs, metadata, serial numbers, the request.
TokenWrites(t) == UNION {OutputKeys(t, k) : k \in DOMAIN Actions(t)}
MetadataWrites(t) == UNION {MetadataKeysOf(Actions(t)[k]) : k \in DOMAIN Actions(t)}
SetKeys(t) ==
    TokenWrites(t) \cup MetadataWrites(t) \cup {CreateTokenRequestKey(t)}
        \cup (IF GraphHiding THEN SpentKeys(t) ELSE {})

CreatedBy(t) ==
    UNION {{k} \X CreatedOutputs(Actions(t)[k]) : k \in DOMAIN Actions(t)}

\* The output written under a token key of the request.
WrittenValue(t, key) ==
    IF key \in TokenWrites(t)
    THEN LET w == CHOOSE w \in CreatedBy(t) : OutputKey(t, w[1], w[2]) = key
         IN Actions(t)[w[1]].outputs[w[2]]
    ELSE NoToken

\* Write each action in turn, then the request itself; any error aborts the
\* simulation and nothing reaches the ledger.
Write(t) ==
    /\ \A k \in DOMAIN Actions(t) : CheckAction(t, k) /\ MetadataIsFree(Actions(t)[k])
    /\ CommitTokenRequest(t)

\* Mistake: the request is put on the ledger without having been read.
ReadKeysNoRequest(t) == UNION {ActionReads(t, k) : k \in DOMAIN Actions(t)}

ReadKeys(t) ==
    {CreateTokenRequestKey(t)} \cup (UNION {ActionReads(t, k) : k \in DOMAIN Actions(t)})

\* The query behind the pruning of a vault and the finality of an input.
AreTokensSpent(id) ==
    IF GraphHiding THEN Exists(CreateSNKey(id)) ELSE ~Exists(CreateTokenKey(id))
=============================================================================
