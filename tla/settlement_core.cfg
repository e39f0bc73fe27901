SPECIFICATION Spec
CONSTANTS
  r1 = r1
  r2 = r2
  r3 = r3
  eip = eip
  permit = permit
  p1 = p1
  p2 = p2
  NoAuth = NoAuth
  Requests = {r1, r2, r3}
  Auths = {eip}
  Recoverers = {p1, p2}
  Permit2 = {}
  ValidBefore <- DeadlineThree
  MaxClock = 5
  MinTtl = 2
  DefaultTtl = 2
  MaxTtl = 3
  SettlementGate = {TRUE, FALSE}
  OmitsTransaction = TRUE
SYMMETRY Symmetry
INVARIANTS
  TypeOK
  AtMostOnce
  ChargedAfterService
  CreditMatchesCharge
  DeliveredStaysSettled
  LockExclusiveWhileValid
PROPERTIES
  ImplementsPromise
