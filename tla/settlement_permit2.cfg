SPECIFICATION Spec
CONSTANTS
  r1 = r1
  r2 = r2
  r3 = r3
  eip = eip
  permit = permit
  p1 = p1
  p2 = p2
  NoAuth = NoAuth
  Requests = {r1}
  Auths = {permit}
  Recoverers = {p1}
  Permit2 = {permit}
  ValidBefore <- DeadlineOne
  MaxClock = 2
  MinTtl = 1
  DefaultTtl = 1
  MaxTtl = 1
  SettlementGate = {TRUE}
  OmitsTransaction = FALSE
INVARIANTS
  ExpiredMeansUnused
