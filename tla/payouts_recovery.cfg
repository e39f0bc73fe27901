SPECIFICATION FairSpec
CONSTANTS
  e1 = e1
  e2 = e2
  w1 = w1
  w2 = w2
  p1 = p1
  p2 = p2
  ada = ada
  low = low
  high = high
  Nobody = Nobody
  NoEarning = NoEarning
  NoTx = NoTx
  Earnings = {e1, e2}
  Payees = {ada}
  PayeeOf <- SamePayee
  Fees = {low, high}
  Workers = {w1}
  Recoverers = {p1}
  Misread = TRUE
  StaleNode = TRUE
  LockDegrades = TRUE
PROPERTIES
  PaidEventuallyConfirmed
