--------------------------- MODULE SignInPromise ---------------------------
(***************************************************************************)
(* What sign-in promises, whatever browsers, tabs and repeated requests do: *)
(* a session is opened only by using up a claim, a claim is made only by    *)
(* using up a pending nonce, and the session belongs to the wallet whose    *)
(* signature the claim was made with.                                       *)
(*                                                                          *)
(* SignIn models the code and is shown to implement this module.            *)
(***************************************************************************)
CONSTANTS Wallets, Nonces, Tokens, NoWallet

VARIABLES
  pending,    \* nonces that may still be presented
  claims,     \* nonces presented with a signature, by wallet
  sessions    \* the wallet each token speaks for

promiseVars == <<pending, claims, sessions>>

PromiseInit ==
  /\ pending = {}
  /\ claims = {}
  /\ sessions = [t \in Tokens |-> NoWallet]

Offer(n) ==
  /\ n \notin pending /\ \A c \in claims : c.nonce # n
  /\ pending' = pending \cup {n}
  /\ UNCHANGED <<claims, sessions>>

Claim(n, w) ==
  /\ n \in pending
  /\ pending' = pending \ {n}
  /\ claims' = claims \cup {[nonce |-> n, wallet |-> w]}
  /\ UNCHANGED sessions

Open(c, t) ==
  /\ c \in claims /\ sessions[t] = NoWallet
  /\ claims' = claims \ {c}
  /\ sessions' = [sessions EXCEPT ![t] = c.wallet]
  /\ UNCHANGED pending

GiveUp(c) ==
  /\ c \in claims
  /\ claims' = claims \ {c}
  /\ UNCHANGED <<pending, sessions>>

(* Nonces are refused or expire, sessions end. *)
End(refused, ended) ==
  /\ pending' = pending \ refused
  /\ sessions' = [t \in Tokens |-> IF t \in ended THEN NoWallet ELSE sessions[t]]
  /\ UNCHANGED claims

PromiseNext ==
  \/ \E n \in Nonces : Offer(n) \/ \E w \in Wallets : Claim(n, w)
  \/ \E c \in claims : GiveUp(c) \/ \E t \in Tokens : Open(c, t)
  \/ \E refused \in SUBSET Nonces, ended \in SUBSET Tokens : End(refused, ended)

PromiseSpec == PromiseInit /\ [][PromiseNext]_promiseVars
=============================================================================
