CONSTANTS
  o1 = o1  o2 = o2  form1 = form1  ada = ada  bob = bob
  r1 = r1  r2 = r2  s1 = s1  s2 = s2  s3 = s3  t1 = t1  t2 = t2
  Ops = {o1, o2}
  Keys = {o1, o2, form1}
  FormKey = form1
  Creators = {ada, bob}
  Importer = ada
  Author = bob
  Slugs = {s1, s2}
  Requests = {r1, r2}
  Texts = {t1, t2}
  Content <- MCContent
  MaxBatch = 2
  NoRoute = NoRoute
  Nobody = Nobody
  MaxInFlight = 2
  NoText = NoText
  NoRequest = NoRequest
SPECIFICATION Spec
SYMMETRY MCSymmetry
CONSTRAINT MCBound
INVARIANTS
  TypeOK
  PoweredUrlIsMine
  AtMostOneRoute
  ResultsAreTrue
  NeverShipsUnresolved
PROPERTIES
  ReviewsTheTextShown
  ImplementsPromise
