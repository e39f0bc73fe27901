CONSTANTS
  c1 = c1  c2 = c2
  Callers = {c1, c2}
  Forwarded = {}
  Limit = 1
  Window = 1
  TrustProxy = FALSE
  RedisFails = TRUE
SPECIFICATION LimiterSpec
INVARIANT NoCounterWithoutTtl
