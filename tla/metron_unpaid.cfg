SPECIFICATION MetronFairSpec
CONSTANTS
  r1 = r1
  r2 = r2
  a1 = a1
  a2 = a2
  p1 = p1
  ada = ada
  fee = fee
  NoAuth = NoAuth
  Nobody = Nobody
  NoTx = NoTx
  Requests = {r1}
  Auths = {a1}
  Recoverers = {p1}
  Permit2 = {}
  ValidBefore <- Deadline
  MaxClock = 2
  MinTtl = 1
  DefaultTtl = 1
  MaxTtl = 2
  SettlementGate = {TRUE}
  OmitsTransaction = FALSE
  Payees = {ada}
  PayeeOf <- SamePayee
  Fees = {fee}
  Misread = TRUE
  StaleNode = TRUE
  LockDegrades = TRUE
  PayoutGate = {TRUE}
PROPERTIES
  CreditGetsPayoutRecord
