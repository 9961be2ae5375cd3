SPECIFICATION Spec
CONSTANTS
    g1 = g1
    g2 = g2
    lock1 = lock1
    lock2 = lock2
    lock3 = lock3
    lock4 = lock4
    claim1 = claim1
    claim2 = claim2
    claim3 = claim3
    reclaim1 = reclaim1
    reclaim2 = reclaim2
    reclaim34 = reclaim34
    i1 = i1
    i2 = i2
    r1 = r1
    r2 = r2
    sc1 = sc1
    sc2 = sc2
    sc3 = sc3
    sc4 = sc4
    bank = bank
    usd = usd
    eur = eur
    h = h
    h3 = h3
    h4 = h4
    nI = nI
    nR = nR
    nA = nA
    net1 = net1
    net2 = net2
    NoOwner = NoOwner
    NoIssuer = NoIssuer
    TxIds = {g1, g2, lock1, lock2, lock3, lock4, claim1, claim2, claim3, reclaim1, reclaim2, reclaim34}
    Request <- MCRequest
    Parties = {i1, i2, r1, r2, sc1, sc2, sc3, sc4, bank}
    TokenTypes = {usd, eur}
    Hashes = {h, h3, h4}
    Script <- MCScript
    MetadataKeys <- MCMetadataKeys
    Networks = {net1, net2}
    NetworkOf <- MCNetworkOf
    Nodes = {nI, nR, nA}
    WalletsOf <- MCWalletsOf
    EnrollmentID <- MCEnrollmentID
    Assemblers <- MCAssemblers
    AuditorNode = nA
    Genesis <- MCGenesis
    Initiator = nI
    Responder = nR
    By <- MCBy
    Lock1 = lock1
    Lock2 = lock2
    OrionNetworks = {net1}
    ReclamationDeadline = 1
    MaxClock = 3
    PromptResponder = TRUE
INVARIANTS TypeOK InitiatorNeverLoses ResponderLosesOnlyToALateClaim VaultKeepsUnspent
CHECK_DEADLOCK FALSE
