# A verification project for the Fabric Token SDK

TLA+ models of the core of the token SDK, the TLC runs that check them, and the
TLAPS proofs of what matters most. Paths are relative to the repository's root;
all modules are in this directory. `PROJECT.json` maps every definition to the
lines it models and lists runs, mutants, hazards, findings and theorems.

## 1. The system

A client assembles a *token request* (issues and transfers) from tokens a
selector locked, collects the signatures of owners and issuers, lets an auditor
check and sign, and distributes the transaction to everybody involved. The token
chaincode (on Fabric) or the custodian of the database (on Orion) validates the
request and the translator turns it into reads and writes of the ledger; the
network orders it; the vaults of the nodes and the databases of owners and
auditors learn the outcome.

| part | state it keeps | operations | talks to | hard behaviour | what makes it correct |
|---|---|---|---|---|---|
| translator, keys (`token/services/vault`) | the read/write set of one simulation, an output counter | `Write`, `CommitTokenRequest`, `AreTokensSpent` | ledger through the stub | simulations do not see each other or their own writes | every key that decides is read; outputs never share a key |
| token chaincode (`network/fabric/tcc`) | the validator, once initialised | `ProcessRequest`, queries | validator, translator | stale endorsements, late and repeated delivery | no double spend, value conserved |
| fabtoken validator (`core/fabtoken`, `core/common`) | a cursor over the signatures | `VerifyTokenRequest` | ledger | signatures are taken by position | signed by auditor, issuers, owners; balanced |
| zkatdlog driver (`core/zkatdlog`) | public parameters | issue, transfer, audit, validate, open | token API, validator | what each party may see, sums modulo the group order | hidden tokens add up, openings reach their owners and nobody else |
| HTLC (`core/interop/htlc`, `services/interop/htlc`) | wallets of scripts | lock, claim, reclaim, scan, delete, the exchange | validator, both networks, vault | deadlines, late ordering, a hash used twice | nobody loses both tokens; deletions keep what is unspent |
| token locker (`services/selector/inmemory`) | table of locks | `Lock`, `UnlockIDs`, `UnlockByTxID`, collector | vault status | operations in two critical sections | a token is locked for one transaction |
| token selector (`services/selector`) | one selection | `Select`, retries | locker, vault | stale snapshot, partial failure, retries | exclusive, locks given back, ends |
| request streams (`token/request.go`, `stream.go`) | none | `AuditInputs`, `AuditOutputs` | vault of the auditor | numbering of actions and outputs | sums agree with the ledger |
| transaction database (`services/ttxdb`) | movement and transaction records, statuses, locks on enrollment ids | `Append`, `SetStatus`, filters, `AcquireLocks`, `ReleaseLocks` | store driver | lock order, check then append, two drivers | limits hold, records add up |
| auditor (`services/auditor`, `ttx/auditor.go`) | listeners | `Audit`, `Append`, `Release`, `OnStatusChange`, `Restore` | database, network | crashes, late outcomes, double release | status follows the vault |
| owner (`services/owner`) | listeners | as the auditor, no locks | database, network | as the auditor | as the auditor |
| ttx protocol (`services/ttx`) | transaction, envelope | collect endorsements, distribute, accept, finality | every party | timeouts, late answers, restarts | everybody who needs a transaction has it before it is ordered |
| network drivers, token processor (`services/network`, `services/vault`) | token store of a vault | processing of a read/write set, pruning, approval on Orion | vault, custodian | lagging and restarted nodes | vault and ledger agree |
| identities, wallets (`core/identity`, `services/ttx/recipients.go`) | registered identities, wallets, prepared pseudonyms | lookup, creation, registration, recipient views | key-value store, signature service | a restart between two writes, a goroutine beside the callers | what was handed out stays known |
| certifier, nfttx, SDK wiring, tokengen | see `PROJECT.json` | | | | not modelled |

## 2. The modules

    TokenRequest -- Translator --+
       |                         +-- FabTokenValidator -- TokenChaincode -- TokenChaincodeProofs
       +---------- Htlc ---------+                           | implements TokenLedger
       |            |       Quantities                       |
       |            +--------------------+                   v
       +-- TokenVault -- Custodian -- HtlcSwap         TokenLedger (abstract)
       |   (VaultStore)      |                          ^ the network of TokenVault and of Auditing
       |     |               +-- Ttx -- FungibleViews
       |     +-- VaultProofs -- HtlcSwapProofs (of HtlcSwap), FungibleProofs (of FungibleViews)
       +-- AuditRecords -- TxDB -- Auditing -- AuditingProofs
    Locker -- TokenSelection -- TokenSelectionProofs
    Pedersen -- RangeProof -- ZkActions -- ZkRequest -- ZkPipeline
    Wallets -- WalletsProofs
    FoldTheorems, used by TokenSelectionProofs, TokenChaincodeProofs and AuditingProofs

*The ledger.*

* **TokenRequest**: requests, actions, outputs and ledger keys. A request is a
  constant of the run; identities, types and metadata keys are opaque values.
* **Translator**: `ledger` maps a committed key to its version and value, a key
  outside its domain reads as empty. The operators are the checks and the
  read and write sets of `Write` and `CommitTokenRequest` in the order of the code.
* **Htlc**: scripts and what the validator demands of their transfers.
  **Quantities**: sums of both widths, with the panic that ends one that overflows.
* **FabTokenValidator**: `VerifyTokenRequest` on the committed state, with the
  signatures consumed by position.
* **TokenChaincode**: `ProcessRequest` simulates a request and adds an
  endorsement (the versions it read) to `endorsed`; `Commit` is what a peer does
  with an ordered transaction: nothing if a version changed, else the write set
  with a new version. Endorsements are never withdrawn, so delivery may be late,
  out of order, repeated or never.
* **TokenLedger**: the abstract specification: transactions settle at most once,
  consume unspent tokens and create new ones. It is what the chaincode implements
  and what the other models take the network for.

*One node.*

* **Locker**: `Lock` in its two sections, the unlocks, and the collector (`scan`)
  with its walk under the read lock and its removal under the write lock.
  **TokenSelection**: the loop of `selectByID` step by step, for one selector per
  transaction, by wallet or by owner, and the life of the transaction as the
  locker sees it. `robbed` is history: who lost a lock while under way.
* **AuditRecords**: what an auditor extracts from a request and what the database
  derives from it. **TxDB**: records, statuses, the queries of the badger and the
  memory driver, and the locks on enrollment ids. **Auditing**: the audit view,
  the listener, the crash and `Restore`.
* **VaultStore**: the keys of the vault, what storing and deleting a token writes,
  and the queries of the query engine. **TokenVault**: the ordered chain of each
  network, nodes that process it at their own pace with the transient data and
  envelopes they stored, and the owner and auditor databases with their listeners.
  Which openings the transient data of a node contain, `MetadataAt`, follows from
  whom `distributeEnv` sends what: those who assembled the transaction and the
  auditor have all, another node those of one enrollment id. `Restore` is one step
  here; its status query, update and subscription are steps of **Auditing**.
* **Wallets**: registration and loading of identities, the lookup of a wallet by
  name or identity, its creation, the goroutine that prepares pseudonyms, every
  write to the store as a step, and a restart between any two.

*Several nodes.*

* **Custodian**: approval, broadcast and queries, asked of the peers on Fabric and
  of one node on Orion.
* **Ttx**: the steps of the views of a transaction, and the locker of a node with
  its collector (`ScanLists`, `ScanFrees`; a selection is one step, unlike in
  **TokenSelection**); **FungibleViews** has the
  programs, one per role (initiator, responder, auditor, the custodian's two),
  of issue, transfer, redeem, swap and prepared transfer.
* **HtlcSwap**: locks, claims, reclaims, scans and deletions at two nodes over two
  networks with a clock, and the fast exchange.
* **Pedersen**, **RangeProof**, **ZkActions**, **ZkRequest**: the zkatdlog driver
  from the field arithmetic up to token requests, their metadata and its filter.
  **ZkPipeline**: a network of nodes that assemble, audit, distribute, validate
  and take tokens into their vaults.

An action is a handler with all it does; its guard is the code's conditions and
early returns. Definitions whose comment begins with "Mistake" are not part of
any model: each is the wrong version of the definition that follows it, and a
property that must fail when the two are exchanged (`mutants` in `PROJECT.json`).

## 3. The runs

| run | bounds | distinct states | what it shows |
|---|---|---|---|
| `chaincode` | 13 requests, one of which names a token twice, 2 levels of spending, 1 hash, words of 2 bits | 5,300 | `NoDoubleSpend`, `LedgerIsHistory`, `MetadataHasOneOwner`, `SupplyConserved`, `PreimageFollowsClaim`, `SpentForever`, refinement of `TokenLedger` |
| `selection` | 3 transactions, 2 tokens, 2 attempts, 1 selection each, collector | 3,803,244 | `ExclusiveUnlessRobbed`, `GivesBackItsOwn`, `NoOrphanLock`, `InsufficientIsHonest`, `NoLockIsStolen` |
| `collector` | 2 transactions, one needs 2 tokens and the other either of them, collector, a vault that may fail | 103,709 | `SelectionEnds`, `FinishedLocksAreCollected` |
| `collector_race` | 3 transactions, 2 tokens, collector | | `Exclusive` is violated (finding 1) |
| `auditing` | 4 requests, 3 enrollment ids, limit 5 over the last payment, 1 crash | 30,547 | `LocksFollowViews`, `LimitIsKept`, `HoldingsMatchLedger`, `StatusFollowsVault`, `DriversAgree`, `AuditEnds`, `OutcomeIsRecorded` |
| `audit_deadlock` | 3 requests, opposite lock orders | | `AuditEnds` is violated (finding 2) |
| `fungible` | Fabric; a transfer and a swap compete for a token; collectors that free the tokens of rejected transactions; 1 failure, 1 restart | 584,862 | `EveryPartyKnows`, `VaultFollowsLedger`, `RecordsMatchVault`, `RejectionNeedsFailure` |
| `fungible_live` | Orion; an issue and a prepared transfer; 1 restart | 68,926 | `OutcomeReachesEveryone`, `InitiatorEnds` |
| `swap` | an Orion and a Fabric network; 2 locks of an exchange or 2 of their own, with claims and reclaims; clock up to 3, deadlines 1 after the lock | 252,074 | `InitiatorNeverLoses`, `ResponderLosesOnlyToALateClaim`, `VaultKeepsUnspent` |
| `wallets` | 2 token management systems, a role of pseudonyms and two of certificates, 1 caller, 1 prepared and 2 drawn pseudonyms, 2 restarts | 1,398,849 | `PromisesSurvive` |
| `zk_pipeline` | 6 requests at 4 nodes, 2 types, values below 4 in base 2 | 26,432 | `TokensAddUp`, `AssembledIsAccepted`, `OwnersCanSpend`, `OpeningsStayPrivate` |
| `two_wallets` | an issue, and a transfer to two wallets of one node | | `OwnersCanSpend` is violated (finding 3) |

The run of a component also checks its type invariant.

*Why the bounds are enough.* The chaincode decides per key: one token contested by
two transactions, one redeemed output before a created one, one metadata key
claimed twice and a chain of two spends exercise every conjunct of its checks; the
proofs remove the bound. A selection conflict needs two transactions that want
both tokens, so that each may hold one, and a third to profit from a lock lost by
mistake. Each makes one selection; that a later selection of the same transaction
does no harm to the first is covered by the proofs alone. An audit conflict needs
two requests of the same enrollment id and a third that settles what they spend;
with a window of one payment, where the code has ten, the third payment is beyond
it; a second crash restarts the same restore from a state the first can also
produce. In the ttx runs two transactions compete, which is what the locks and the
lagging vaults are about; a second failure or restart hits a view that the first
could have hit as well. A party has a second wallet at its node, since lists are
per wallet; its node was not sent the opening of one of its tokens. `EvictsValid`
is FALSE: the collectors keep the locks of valid transactions, whose tokens are
spent, so that nobody selects them again. (With TRUE the run has 1.4 million
states and takes several minutes; it passed as well.) The swap has every pair of a
claim and a reclaim of one token, before, at and after the deadline: with
deadlines one tick after the lock, three ticks let the second lock come a tick
after the first and leave one beyond its deadline. Two pseudonyms of one wallet
are one prepared and one derived on demand; a second restart comes after one that
found a half-written identity. Two digits in base 2 have a carry and an overflow.

Bounds with a name: `MaxSelections`, `NumRetry` (a parameter of the code),
`MaxCrashes`, `MaxFailures`, `MaxClock`, `MaxDrawn`, `CacheSize` (a parameter of
the code), `MaxRestarts`, `MaxNumber`. `Next` of the chaincode needs none, since a
request already on the ledger is not written again.

Deadlock checking is off in all runs: histories end when there is nothing left
to process, transactions to settle or selections to make.

Remarks on what the properties assume; each is described where it is stated.

* `InsufficientIsHonest` speaks of tokens that are in the vault throughout: the
  vault of `TokenSelection` loses tokens but gains none.
* `SupplyConserved` and `HoldingsMatchLedger` have a term for requests that name a
  token twice. Neither the validator nor the translator rejects them: the sum of
  the inputs (`validator_transfer.go:80`) and the records of the auditor count the
  token each time, the ledger deletes it once. The tokens of a request usually come
  from a selector, which locks a token once. Without such a request the two terms
  are equal, and the equations say that nothing is lost or gained.
* `LimitIsKept` says of any payment what the audit view checked: together with the
  last ten before it, it stays below the limit (`views/auditor.go:109`). The sum of
  all payments has no bound.
* `NoOrphanLock` names one exception: a selection whose iterator fails returns
  without giving anything back (`selector.go:119-122`). Its locks stay until the
  transaction is released, or finished and collected.
* `ExclusiveUnlessRobbed`, `NoLockIsStolen` and `RejectionNeedsFailure` excuse
  those whose lock the collector freed by its outdated list: that is finding 1, and
  they say that nothing else goes wrong.
* `VaultFollowsLedger` speaks of the tokens whose openings a node was sent. That
  these are not all of its tokens is finding 3.
* `HoldingsMatchLedger` is conditional: holdings agree with the ledger when no
  record is pending, not before the listener caught up.
* `OutcomeIsRecorded` is checked with `Replays = TRUE`: subscribing reports an
  outcome that is already known. That is a demand on the network driver; with
  FALSE, an outcome that arrives between the status query of `Restore` (or the
  append) and the subscription is never recorded.
* `DriversAgree` compares what the drivers answer to the queries the views make.
  They agree on movements, whatever the direction and the cut, and on transactions
  by time. They do not agree on the transactions of an enrollment id: the interface
  (`ttxdb/driver/driver.go:158-165`) says that a record is returned if its sender or
  its recipient matches; badger does so, and memory looks at the sender alone
  (`memory.go:123`) and has no code for `RecipientWallet`. The property says of each
  what it returns, exactly. A user of the memory driver does not see the
  transactions in which an enrollment id only receives.
* `RecordsMatchVault` evaluates what `CheckTTXDBView` compares; an unknown
  transaction is an error of both drivers, which that view takes for "Unknown".
* `ResponderLosesOnlyToALateClaim` is checked with a prompt responder: time waits
  for it to scan and to claim. The initiator needs no such help, because its own
  deadline comes first.
* `OwnersCanSpend` holds with one wallet per node; finding 3 is the other case.

**Fairness.** `TokenSelection`: weak fairness of each selector (a goroutine that
can run does), strong fairness of the steps that need the write lock (a waiting
writer keeps new readers of a Go `RWMutex` out, so that it gets in although scans
go on for ever), weak fairness of the collector and of time. `Auditing`: weak
fairness of each step of a view, of the listener and of `Restore`, strong
fairness of locking a mutex (Go's mutex does not starve). `FungibleViews`: weak
fairness of all progress taken together; that suffices because no step repeats
for ever, so whatever can go on eventually does. Nothing forces a request to be
sent, a prepared transaction to be broadcast, a network to decide or a node to
crash. The safety runs other than `auditing` use `Spec`, without fairness.

## 4. Findings

1. *A lock can be freed under its holder* (`collector_race`). The collector's
   remove list names tokens, not entries. If the token of an invalid transaction
   is taken over after the walk, the removal frees the new holder's lock.
2. *Audits can wait for each other for ever* (`audit_deadlock`). Enrollment ids
   are locked in the order of the request, senders first.
3. *A node with two wallets misses a token* (`two_wallets`). The metadata of a
   transaction is filtered by one enrollment id per node
   (`services/ttx/endorse.go:471`, `token/request.go:919`), so the openings of
   tokens for a second wallet never arrive, and `docs/services.md:45` says that
   tokens appear in the vault of whoever owns them. The fabtoken models have the
   same filter (`FilteredBy` and `FilterBy` of `TokenVault`), and the processor
   skips what it cannot open (`fabric/processor.go:255-263`).

## 5. The proofs

TLAPS proves the theorems below for every assignment of the constants that
satisfies the named assumptions of the modules; each assumption is evaluated by
the runs. Every inductive invariant was checked by TLC before it was proved.

| theorem | what it says | inductive invariant |
|---|---|---|
| `TokenChaincodeProofs`: `TypeCorrect`, `NoDoubleSpendHolds`, `LedgerIsHistoryHolds`, `MetadataHasOneOwnerHolds`, `SpentForeverHolds` | what is on the ledger is the outcome of the transactions that took effect, and no token is spent twice | `IInv`, proved by `InductiveInvariant` |
| `ChaincodeImplementsTokenLedger` | every step of the chaincode settles one transaction of `TokenLedger` or is a stutter | `IInv` |
| `SupplyConservedHolds` | value enters by issues and leaves by redeems, per type; what repeated inputs add is accounted for | `SupplyInv`, proved by `SupplyInductive` |
| `PreimageFollowsClaimHolds` | claims are public, reclaims reveal nothing | `SupplyInv`, `ClaimInv` |
| `TokenSelectionProofs`: `SelectionTypeOK`, `InsufficientFundsAreReal` | types; a shortage that is reported is one | `WInv`, `Accounted` |
| `TokensAreExclusive`, `SelectorsGiveBackTheirOwn`, `LocksHaveOwners`, `LocksAreNotStolen` | locks exclude, and are given back by those who took them, but for what the collector's list does | `IInv` |
| `AuditingProofs`: `LocksAreOfViews` | enrollment ids are locked by views that are at work, and by one each | `LocksInv` |
| `RecordsFollowNetwork` | statuses of records agree with the network's, across crashes | `StatusInv` |
| `TypeCorrect` | types | `AuditInv` |
| `PaymentsStayBelowLimit` | a payment and the last ones before it stay below the limit that audits check | `LimitInv` |
| `RecordsMatchLedger` | with nothing pending, recorded holdings are the unspent tokens on the ledger, less what was charged twice | `HoldingsInv` |
| `HtlcSwapProofs`: `VaultsKeepUnspent`, `SwapTypeOK` | an application deletes nothing that is unspent; types | `SwapInv` (with `VaultInv` of `VaultProofs`), `TypesInv` |
| `InitiatorIsSafe` | the initiator of an exchange never loses both tokens | `ExchangeInv` |
| `ResponderIsAlmostSafe` | a prompt responder loses only to a claim ordered after the first deadline | `PromptInv` |
| `FungibleProofs`: `FungibleTypeOK`, `EveryPartyKnowsHolds` | types; everybody who needs a transaction has it before it can be ordered | `KnowInv` (with `VaultInv`), proved by `KnowInductive` |
| `VaultFollowsLedgerHolds` | a vault has exactly the unspent tokens of its parties that it has the openings of, as of what its node processed | `FollowInv` |
| `RecordsMatchVaultHolds` | records, vault and ledger disagree only while something is on its way | `RecordsOK`, `FollowInv` |
| `RejectionNeedsFailureHolds` | who is rejected lost a token to another, and one of the two failed, did not lock, or was robbed by the collector | `RaceInv`, `FollowInv` |
| `WalletsProofs`: `PromisesAreKept` | a node stands by the identities it handed out, across restarts | `WInv` of that module |

*The chaincode.* A commit proves one thing only: that what the simulation read
has not changed. `EndorsementOK` therefore says, for each endorsement, what
follows from its versions alone, whatever was committed since: it read every key
that it writes or deletes, and found the inputs present and the outputs absent.
With `LedgerIsHistory` (a key is present iff a transaction that took effect wrote
it and none deleted it) and `SpentWereCreated` this is inductive. `CommitFacts`
draws the consequence at the moment of a commit; the five properties and the
refinement follow from it. Signatures, balances and scripts are not used: double
spending is excluded by the translator alone. Both values of `GraphHiding`
are covered. The assumptions are those on the shape of constants:
`RequestAssumption`, `NoOwnerAssumption`, `GraphHidingAssumption`,
`ValidatorAssumption`, `HtlcAssumption`, `PrecisionAssumption`.

*Supply.* Four facts meet. The validator's sums are exact, because a sum that
does not fit panics (`SumsAreExact`; for every precision, by `WrapsOnce`). The
translator numbers the outputs of a request, so no two share a key
(`KeysDiffer`), and what a request creates is worth what its outputs add up to
(`WorthOfCreated`). The tokens it names as inputs were on the ledger when the
validator added them up (`Named`), and it spends the same tokens, each once
(`Consumed`); the difference is a term of the equation. And a token never changes
its value (`ValuesAreWritten`), so that the balance found by a stale simulation
still holds when it is committed. `SupplyInv` says the last of these together
with the balance of everything endorsed; `NetEffect` and `SettlementKeepsSums`
carry the sum over a commit.

*Claims.* What the validator found out about the scripts of a request outlives
the state it looked at, for the same reason. The script of the first input
decides whether a transfer claims or reclaims; that it decides for all inputs
that are worth something follows from the equality of sums, as a transfer with a
script among its inputs has a single output (`OnlyTheFirst`). An attempt to prove
an earlier form of `PreimageFollowsClaim`, which said the same of every script
token, showed that it was false beyond the bounds of the run: a token of
quantity zero may travel with one that is reclaimed and end with its recipient in
silence, and with sender and recipient equal a claim cannot be told from a
reclaim. The property now names both exceptions.

*The selector.* A transaction relies on its tokens until it is finished or
released. `HoldsItsLocks`: it has the lock of every token it picked in an earlier
selection and of every token of the current attempt. `PickedOnce`: the two sets
are disjoint, so that giving back the second frees none of the first. With
`NoOrphanLock` this is inductive, since `Lock` and the unlocks leave the entries
of other unfinished transactions alone. The collector does not (finding 1): when
it frees a token of a transaction under way, this one is `robbed` from then on,
and both parts speak of the others only. A robbed selector does not know and gives
back tokens that may be another's by then, which is robbed as well; but the first
robbery is always the collector's (`GivesBackItsOwn`). What the collector rightly
frees are tokens of a valid transaction, and these have left the vault
(`SpentIsGone`), so that whoever locks them again finds them missing. `Accounted`,
which does not depend on locks, says that an attempt loses sight of no token:
whatever is in the vault and wanted is still to come, in hand, or was refused.
Once the iterator is exhausted and the selector gives up, those in hand and those
refused do not cover the target, hence neither does the vault.

*The auditor.* `LocksInv` ties the registered anchors to the views between their
`Audit` and their first release (`AnchorsOK`), and each locked enrollment id to
one of them. It is needed because a release by anchor names no owner: that the
second release of a view finds nothing has to be part of the invariant.
`StatusInv` lets a pending record lag behind the network and never contradict
it, in whatever order the listener, `Restore` and `Append` write, with a crash
between any two; `AppendedOnce` and `OneStatus` keep the records of a request
together. `LimitInv` explains why a check that reads the store and an append much
later do not race: what a view checked still holds while it has the locks of its
enrollment ids (`Checked`), since another append moves only the ids it has locked
itself (`LocksInv`), and the network changes statuses without adding payments:
nothing comes back from `Deleted` (`StatusInv`). The window of a payment (`Window`)
is part of what the query returned when the payment was checked, as the query skips
what was deleted (`LastAreQueried`); an append leaves the windows of earlier
payments as they are (`OldWindows`) and adds those that end in it (`NewWindow`).
`HoldingsInv` compares sums: the
movements of a request with records add up to its balance, for every id and type
(`AppendedInFull`), and those of the settled ones to the unspent tokens
(`SettledIsHeld`), when what left the ledger is exchanged for what was named. When
a request settles, the sum over its outputs joins the tokens and the tokens it
spends leave them; its balance is the first less the sum over its inputs.

Streams, lock order and records are computed from a request with filters and folds,
which the provers cannot look into. The proofs use of them what three assumptions
say, and the run evaluates on its requests: `StreamsAssumption` (the streams are of
items; filters and deduplication keep exactly the ids and types that occur),
`RecordsAssumption` (there is one movement for each balance that is not zero) and
`TypesAssumption`. The last is about requests: the types of the inputs are among
those of the outputs, as the validators demand (for fabtoken
`validator_transfer.go:69-96`). Without it movements would not add up, as types are
taken from the outputs alone (`ttxdb/db.go:343`).

*The vaults.* `VaultInv` is about a network and every node that follows it: what
took effect was ordered once and accounts for all tokens (`NetworkInv`), a store
has only keys of tokens that exist (`StoreOK`), and a node that knew a transaction
when it processed it keeps its own tokens of it while they are unspent
(`KeepsOwn`), if it was sent the opening. One lemma per operation (order, process,
delete) carries it; they are stated for `TokenVault`, so that they serve every
module over it. That deletions are safe although the node may lag rests on one
fact: what is reported spent now was spent by an ordered transaction and never
comes back (`DeletingKeepsVault`). For `VaultsKeepUnspent` a transaction has to be
known before it is processed, which is what distributing it before broadcasting is
for (`StagesOK`). `VaultAssumption` asks that the start consists of issues.

*The exchange.* Two clocks race, that of the validators when they endorse and the
order of the transactions later, and no single state shows who wins.
`ExchangeInv`, for the token i of the initiator and j of the responder, relates
them. The preimage leaves the initiator only in a claim (`Secret`); a claim of the
initiator spends j (`InitiatorSpends`), so j is gone once the preimage is on a
ledger, by that claim or by a reclaim that came first (`GoneOnceRevealed`).
Reclaims are endorsed at or after the deadline, claims before it
(`ReclaimsAreLate`), and the deadline of i is not the later one
(`DeadlinesInOrder`). So when a claim of i is endorsed, none of the reclaims of j
has been, and none will be because j is gone (`NothingLost`). The responder has
no such guard: `PromptInv` shows that before the deadline of i no reclaim of
either token was endorsed, so that the first claim ordered takes effect, the
preimage is found, and a prompt responder (`Prompt`: time waits, and there is a
claim among the requests) claims i in time (`TimeWaits`). `LocksAssumption` and
`ExchangeAssumption` say what the views assemble: one script token per lock, and
two locks for each other's nodes with a hash that no other lock has.

*The views.* `EveryPartyKnows` is a statement about programs, and these are
sequences put together from parts. The first half of `FungibleProofs` is about
sequences alone: what a concatenation contains (`Concatenated`) and which step
precedes which in it (`Precedes`). From it follows, for each view, that records,
openings and envelope are stored before the acknowledgement, that the initiator
broadcasts after all the acknowledgements it awaits, and that only one role
broadcasts (`InitiatorSteps`, `PartySteps`, `AuditorSteps`, `CustodianSteps`).
The second half follows a run. What a view has left is a suffix of its program
(`TodoOK`), so whatever precedes a step that is done is done as well
(`DoneBefore`); a step that is done left its effect on a disk, or had its message
sent (`EffectsOK`), and no restart or failure takes that back. Hence, when the
transaction is broadcast, the messages lead back to what every party has stored
(`EveryoneDone`, `ReadyToBroadcast`); the broadcast occurs once in its program, so
that it remains true later (`SubmittedOK`, `PartiesKnow`). `KnowStep` has one case
per step of the views. `ViewsAssumption` says who takes part: a transaction is
between the initiator and the party it asks, the payers own what they spend, and
the auditor's node does not pay; `ChainAssumption` that a token lives on one network.

*Vaults and the ledger.* `ChainInv` is the history a network leaves behind: what
took effect spends only tokens created earlier on the same chain, no token twice,
and whatever is spent was spent by something that took effect. A store is `Exact`
for a set of transactions when it has, key by key, what they leave to the parties
of the node, under each list, with the deleters of the rest. `OneMore` adds a
transaction to an exact store; its side conditions are what `ChainInv` says of the
next one in order. A node skips a transaction that it does not know, and the store
stays exact only if nothing in it concerns the node. Here `EveryPartyKnows` comes
back: every node concerned knew the transaction before it was ordered (`Informed`,
from `PartiesKnow` by `EveryoneInformed`). The queries of the vault scan the keys;
that their answers are those of an exact store is `ExactAnswers`.

*Records.* `RecordOK` follows one record of one database. While it is pending
there is a listener before the node processes the transaction and a notice
afterwards, across restarts; once it is not, it is the outcome. A party stores
its records after openings and envelope, so it is never without them. The auditor
appends before anything is broadcast, which is the exception in the property;
`RecordsComeLast` closes it with `EveryPartyKnows`. What remains of the
comparisons of `CheckTTXDBView` is settled by `FollowInv`. The status of a
transaction (`TxStatus`) has the answers in an order, and it is an invariant that
the order does not matter: what took effect was ordered.

*Races.* `RaceInv` says how two transactions that want the same token are kept
apart. A transaction whose views get on and that the collector did not rob
(`Unfailing`) holds the locks of its inputs until its node has processed it
(`KeepsLocks`): other locks are only given up by a failure, or by a restart that
finds the view ended, and then it has seen its transaction final (`SeenOK`). A
selector that comes later is refused by the lock, or does not find the token
because the store is exact, or takes it over because the holder was rejected
(`SelectedApart`). So of two unfailing transactions that selected one token, one
was rejected before the other got it (`Excluded`). Both have selected before they
are ordered (`EveryoneDone`), and their inputs existed when they were approved
(`InputsExist`). When one is rejected, an input was gone, something on the chain
had spent it (`ChainInv`), and this one is named by `Blamed`. A later transaction
may be rejected by the same one: that is why the property names a spender and does
not speak of all competitors. `KindsOfSteps` sorts the steps by what they change.

*Wallets.* An identity is `Complete` when signer, audit info, owner and, for a
pseudonym, the key with the prefix of its wallet are written down and its role can
load the wallet again. None of this is ever taken back (`Grows`): what a restart
loads, `Loadable`, contains whatever was resolved before it, because a registration
stores its path first. A worker at some step has done the steps before it
(`WorkersOK`), so what it gives, or puts into the channel, is complete; a wallet of
certificates enters the registry together with the owner of its identity, so that
whoever finds the wallet finds the identity complete (`CertificatesOK`). A complete
identity is found to be of its wallet by whichever way a lookup takes
(`OwnIsFound`). `WalletsAssumption` asks that the node's own names are not the
placeholders, `IdentitiesAssumption` that an identity is not taken for a name.

*Folds.* The community modules define sums by a fold over a `CHOOSE`.
`FoldTheorems` shows from the well-foundedness of finite sets (`NatSetInduction`,
`SetInduction`) that the sum over a finite set is what one expects: it does not
depend on the order, splits over parts and partitions, and is preserved by
injective images. The other modules use only these laws.

*Only model-checked.*

* Liveness (`SelectionEnds`, `FinishedLocksAreCollected`, `AuditEnds`,
  `OutcomeIsRecorded`, `OutcomeReachesEveryone`, `InitiatorEnds`): temporal
  properties under fairness are beyond the prover.
* `DriversAgree` compares queries of the two database drivers, which are filters
  over sequences and keep an order; the provers cannot look into `SelectSeq`.
* The properties of `ZkPipeline`: zkatdlog is modelled with concrete numbers, and
  its proofs are sums and products over sequences of them, which would take
  induction over data.

## 6. What is left out

* Serialisation and composite-key encoding: keys are injective by construction.
  In the fabtoken models a signature is the identity that made it; the signature
  of the recipient of a script includes the preimage.
* zkatdlog: a commitment is its own opening, so binding holds by construction and
  a prover who cheats is out of reach (the length checks of the verifiers are
  modelled, and never fail here); the hash is a fixed polynomial, random
  draws are a fixed sequence, a point of G2 is its logarithm. Proofs the driver
  does not use (one-out-of-many, blind signatures, ElGamal), scripts as owners,
  extra signers and the application's metadata are left out, and the audit info
  of an identity is the identity. The steps between parties, the commit and the
  vault are those of `Ttx`, `TokenChaincode` and `TokenVault`, taken in one go.
* Clocks: in `Htlc` the deadline of a script may pass at any moment; `HtlcSwap` has
  one clock for all.
* `TokenVault` starts after some issues that everybody knows of (`Genesis`); how a
  node that joins later catches up is not modelled.
* `HtlcSwap`: two nodes either exchange or lock on their own; what failed to be
  endorsed stays assembled and nobody acts on it; the node of the auditor takes no
  steps; the node that is asked what is spent does not lag.
* `Ttx`: sessions are reliable and in order; failures and timeouts are bounded;
  finality with a time limit, status listeners of applications and external
  wallets are left out. Orion is checked with restarts, not with timeouts. A
  question to the custodian and its answer are one step, except approval and
  broadcast; the distribution of public parameters and the conversion of keys are
  not modelled.
* `Wallets`: keys, credentials and their verification, auditor and certifier
  wallets and enrollment ids; the signature service is external and taken to
  store what it is given; a registration with a bad path returns without an error
  and is skipped. The restart also stands for the runtime's fatal error when a
  goroutine reads the map of wallets while a lookup writes it.
* `TxDB`: the memory driver's partial updates and its `BeginUpdate` and `Discard`,
  which do nothing; the match of transaction ids by suffix in badger; clocks that
  run backwards.
* The selector: a quantity that does not parse (the tokens are given back), and the
  certification branch, which no driver of the repository asks for: both have no
  graph hiding. For the same reason the certifier is not modelled.
* The auditor: the payment and holding limits of the sample view other than the
  cumulative payment limit, and one request audited twice at the same time.
* The start of the chaincode (`GetValidator`, set-up from file or environment), the
  peer's own rejection of a repeated transaction id (not assumed, which only adds
  behaviours), SDK wiring, nfttx, tokengen.

Hazards without a property are listed with the reason in `PROJECT.json`, among
them the numbering of outputs that `stream.go` and `request.go` do differently.

## 7. What is left to do

* A proof of `DriversAgree`, with the order of the records in each driver.
* The hazards of `PROJECT.json` that have no property yet.
