SPECIFICATION Spec
CONSTANTS
  bank = bank
  alice = alice
  bob = bob
  bob1 = bob1
  nBank = nBank
  nAlice = nAlice
  nBob = nBob
  nAudit = nAudit
  A = A
  B = B
  mint = mint
  pay = pay
  swap = swap
  burn = burn
  mix = mix
  forge = forge
  mint1 = mint1
  split = split
  Order = 10007
  Base = 2
  Exponent = 2
  Types = {A, B}
  TypeHash <- MCTypeHash
  SK <- MCSK
  NoProof = NoProof
  NoRequest = NoRequest
  Absent = Absent
  Wallets = {bank, alice, bob, bob1}
  EnrollmentID <- MCEnrollmentID
  Issuers <- MCIssuers
  TxIds = {mint1, split}
  Nodes = {nBank, nAlice, nBob, nAudit}
  NodeOf <- MCNodeOf
  AuditorNode = nAudit
  Initiator <- MCInitiator
  Calls <- MCCalls
  Seed <- MCSeed
INVARIANT OwnersCanSpend
CHECK_DEADLOCK FALSE
