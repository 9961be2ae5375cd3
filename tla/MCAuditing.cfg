SPECIFICATION FairSpec
CONSTANTS
    t1 = t1
    t2 = t2
    t3 = t3
    t4 = t4
    t5 = t5
    alice = alice
    bob = bob
    bank = bank
    usd = usd
    eAlice = eAlice
    eBob = eBob
    eBank = eBank
    NoOwner = NoOwner
    NoIssuer = NoIssuer
    NoEID = NoEID
    TxIds = {t1, t2, t3, t4}
    Request <- MCRequest
    Parties = {alice, bob, bank}
    TokenTypes = {usd}
    MetadataKeys = {}
    EnrollmentIDs = {eAlice, eBob, eBank}
    EnrollmentID <- MCEnrollmentID
    Limit = 5
    LastPayments = 1
    Replays = TRUE
    MaxCrashes = 1
INVARIANTS TypeOK LocksFollowViews LimitIsKept HoldingsMatchLedger StatusFollowsVault DriversAgree
PROPERTIES AuditEnds OutcomeIsRecorded
CHECK_DEADLOCK FALSE
