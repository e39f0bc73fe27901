CONSTANTS
  panel1 = panel1  client2 = client2  key1 = key1
  Callers = {panel1, client2}
  Console = panel1
  Forwarded = {}
  Limit = 1
  Window = 1
  TrustProxy = FALSE
  RedisFails = TRUE
  Production = FALSE
  HeaderNames = {key1}
  Keep = Keep
  NoView = NoView
  NoForm = NoForm
SPECIFICATION Spec
CONSTRAINT MCBound
INVARIANTS
  TypeOK
  NoCounterWithoutTtl
  PublicDestination
  ResultIsTruthful
PROPERTIES
  UntouchedCredentialStays
  SaveNeverRevives
