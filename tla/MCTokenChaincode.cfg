SPECIFICATION Spec
CONSTANTS
    t1 = t1
    t2 = t2
    t3 = t3
    t4 = t4
    t5 = t5
    t6 = t6
    t7 = t7
    t8 = t8
    t9 = t9
    t10 = t10
    t11 = t11
    t12 = t12
    t13 = t13
    alice = alice
    bob = bob
    bank = bank
    auditor = auditor
    usd = usd
    m1 = m1
    h = h
    ab = ab
    ba = ba
    NoOwner = NoOwner
    NoIssuer = NoIssuer
    NoAuditor = NoAuditor
    TxIds <- MCTxIds
    Parties <- MCParties
    Request <- MCRequest
    TokenTypes = {usd}
    MetadataKeys <- MCMetadataKeys
    Hashes = {h}
    Script <- MCScript
    Issuers = {bank}
    Auditor = auditor
    Precision = 2
    WordSize = 2
    GraphHiding = FALSE
INVARIANTS TypeOK NoDoubleSpend LedgerIsHistory MetadataHasOneOwner SupplyConserved PreimageFollowsClaim
PROPERTIES SpentForever ImplementsTokenLedger
CHECK_DEADLOCK FALSE
