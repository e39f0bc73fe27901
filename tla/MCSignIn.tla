------------------------------ MODULE MCSignIn ------------------------------
(* Instances of SignIn for TLC. *)
EXTENDS SignIn, TLC
CONSTANTS b1, alice, bob, n1, n2, t1, t2, v1, v2,
  MaxInFlight    \* requests under way at a time

(* Wallets, nonces, tokens and verifications are interchangeable. *)
MCSymmetry ==
  Permutations(Wallets) \cup Permutations(Nonces) \cup Permutations(Tokens)
    \cup Permutations(Verifications)

MCInFlight ==
  LET verifying == {v \in Verifications : step[v] # "idle"}
      waiting == {b \in Browsers : flow[b] = "nonce"}
      reading == {b \in Browsers : me[b] # NoFetch}
      leaving == {<<b, x>> \in Browsers \X Exits : x \in out[b]}
  IN Cardinality(verifying) + Cardinality(waiting) + Cardinality(reading)
       + Cardinality(leaving) <= MaxInFlight
=============================================================================
