SPECIFICATION Spec
CONSTANTS
    k1 = k1
    k2 = k2
    t1 = t1
    t2 = t2
    t3 = t3
    Free = Free
    Tokens = {k1, k2}
    TxIds = {t1, t2, t3}
    Value <- MCValue
    Wanted <- MCWanted
    ByOwner = {t3}
    Target <- MCTarget
    NumRetry = 2
    MaxSelections = 1
    Collector = TRUE
    StatusMayFail = FALSE
INVARIANTS TypeOK ExclusiveUnlessRobbed GivesBackItsOwn NoOrphanLock InsufficientIsHonest
PROPERTIES NoLockIsStolen
CHECK_DEADLOCK FALSE
