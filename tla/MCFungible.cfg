SPECIFICATION Spec
CONSTANTS
    g = g
    i1 = i1
    i2 = i2
    t1 = t1
    s1 = s1
    p1 = p1
    r1 = r1
    alice = alice
    bob = bob
    bank = bank
    savings = savings
    main = main
    other = other
    usd = usd
    eur = eur
    nA = nA
    nB = nB
    nBank = nBank
    custodian = custodian
    net = net
    NoOwner = NoOwner
    NoIssuer = NoIssuer
    NoNode = NoNode
    Free = Free
    EvictsValid = FALSE
    TxIds = {g, t1, s1}
    Request <- MCRequest
    Parties = {alice, savings, bob, bank}
    TokenTypes = {usd, eur}
    MetadataKeys = {}
    Networks = {net}
    NetworkOf <- MCNetworkOf
    OrionNetworks = {}
    TheCustodian = custodian
    Nodes = {nA, nB, nBank}
    WalletsOf <- MCWalletsOf
    EnrollmentID <- MCEnrollmentID
    Assemblers <- MCAssemblers
    AuditorNode = nBank
    Genesis <- MCGenesis
    Initiator <- MCInitiator
    Responder <- MCResponder
    View <- MCView
    Program <- MCProgram
    Quota <- MCQuota
    MaxFailures = 1
    MaxCrashes = 1
INVARIANTS TypeOK EveryPartyKnows VaultFollowsLedger RecordsMatchVault RejectionNeedsFailure
CHECK_DEADLOCK FALSE
