SPECIFICATION Spec
CONSTANTS
    owners = owners
    issuers = issuers
    cash = cash
    alice = alice
    dave = dave
    c1 = c1
    None = None
    Other = Other
    Roles = {owners, issuers, cash}
    Pseudonymous = {owners}
    Wrapping = {owners, cash}
    Ids = {alice, dave}
    Fits <- MCFits
    Configured <- MCConfigured
    ConfigDefault <- MCDefault
    KeyOrder <- MCKeyOrder
    Callers = {c1}
    CacheSize = 1
    MaxDrawn = 2
    MaxRestarts = 2
INVARIANTS PromisesSurvive
CHECK_DEADLOCK FALSE
