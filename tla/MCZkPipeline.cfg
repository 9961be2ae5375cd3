SPECIFICATION Spec
CONSTANTS
  bank = bank
  alice = alice
  bob = bob
  bob1 = bob1
  nBank = nBank
  nAlice = nAlice
  nBob = nBob
  nAudit = nAudit
  A = A
  B = B
  mint = mint
  pay = pay
  swap = swap
  burn = burn
  mix = mix
  forge = forge
  mint1 = mint1
  split = split
  Order = 10007
  Base = 2
  Exponent = 2
  Types = {A, B}
  TypeHash <- MCTypeHash
  SK <- MCSK
  NoProof = NoProof
  NoRequest = NoRequest
  Absent = Absent
  Wallets = {bank, alice, bob}
  EnrollmentID <- MCEnrollmentID
  Issuers <- MCIssuers
  TxIds = {mint, pay, swap, burn, mix, forge}
  Nodes = {nBank, nAlice, nBob, nAudit}
  NodeOf <- MCNodeOf
  AuditorNode = nAudit
  Initiator <- MCInitiator
  Calls <- MCCalls
  Seed <- MCSeed
INVARIANTS TokensAddUp AssembledIsAccepted OwnersCanSpend OpeningsStayPrivate
CHECK_DEADLOCK FALSE
