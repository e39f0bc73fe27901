\* One browser, two wallets, two nonces and two verifications at once;
\* wallets, nonces, tokens and verifications are interchangeable.
CONSTANTS
  b1 = b1  alice = alice  bob = bob
  n1 = n1  n2 = n2  t1 = t1  t2 = t2  v1 = v1  v2 = v2
  Browsers = {b1}
  Wallets = {alice, bob}
  Nonces = {n1, n2}
  Tokens = {t1, t2}
  Verifications = {v1, v2}
  NonceTtl = 1
  SessionTtl = 1
  NoWallet = NoWallet
  NoNonce = NoNonce
  NoToken = NoToken
  MaxInFlight = 2
SPECIFICATION Spec
SYMMETRY MCSymmetry
CONSTRAINT MCInFlight
INVARIANTS
  TypeOK
  NonceOpensOneSession
  SessionIsSigned
  SignInShows
PROPERTY ImplementsPromise
