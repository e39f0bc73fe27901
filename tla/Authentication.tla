--------------------------- MODULE Authentication ---------------------------
(***************************************************************************)
(* The server side of sign-in (lib/auth): challenges with single-use        *)
(* nonces, verification of a signed message, the developer's row, sessions  *)
(* behind opaque tokens.  One action per await of AuthService.verify, so    *)
(* verifications of one nonce or of one wallet interleave.                  *)
(*                                                                          *)
(* A message is built by the server and kept by the browser; what varies in *)
(* it are the nonce and the wallet, and it expires with its nonce.  Times   *)
(* are ticks still to live.                                                 *)
(***************************************************************************)
EXTENDS Integers, FiniteSets

CONSTANTS
  Wallets,       \* checksummed addresses
  Nonces,        \* SIWE nonces, reused once nothing knows them any more
  Tokens,        \* session tokens, likewise
  Verifications, \* concurrent POST /api/auth/verify
  NonceTtl,      \* NONCE_TTL_SECONDS and the message's expiry, in ticks
  SessionTtl,    \* SESSION_TTL_SECONDS, in ticks
  NoWallet, NoNonce, NoToken

ASSUME AuthConstants ==
  /\ NonceTtl \in Nat \ {0} /\ SessionTtl \in Nat \ {0}
  /\ NoWallet \notin Wallets /\ NoNonce \notin Nonces /\ NoToken \notin Tokens
  /\ IsFiniteSet(Wallets)

VARIABLES
  nonceTtl,      \* Redis: auth:<nonce>
  session,       \* Redis: session:<hash of token>
  developers,    \* the developers table: a set of rows
  step,          \* step of each verification
  presented,     \* what it was given: the message and whose signature
  row,           \* the developer row it has in hand
  granted,       \* the token it has created
  opened         \* history: sessions opened with each nonce

server == <<nonceTtl, session, developers, step, presented, row,
            granted, opened>>

NoSession == [developer |-> 0, wallet |-> NoWallet, left |-> 0]
NoRow == [id |-> 0, wallet |-> NoWallet]
NoMessage == [nonce |-> NoNonce, wallet |-> NoWallet]
Nothing == [message |-> NoMessage, signer |-> NoWallet]

Message == [nonce: Nonces, wallet: Wallets] \cup {NoMessage}

Ids == 1..Cardinality(Wallets)

VerifySteps ==
  {"idle", "consume", "select", "insert", "session", "granted", "refused"}

AuthTypeOK ==
  /\ nonceTtl \in [Nonces -> 0..NonceTtl]
  /\ session \in [Tokens -> [developer: {0} \cup Ids,
                             wallet: Wallets \cup {NoWallet}, left: 0..SessionTtl]]
  /\ developers \subseteq [id: Ids, wallet: Wallets]
  /\ step \in [Verifications -> VerifySteps]
  /\ presented \in [Verifications -> [message: Message, signer: Wallets \cup {NoWallet}]]
  /\ row \in [Verifications -> [id: {0} \cup Ids, wallet: Wallets \cup {NoWallet}]]
  /\ granted \in [Verifications -> Tokens \cup {NoToken}]
  /\ opened \in [Nonces -> Nat]

AuthInit ==
  /\ nonceTtl = [n \in Nonces |-> 0]
  /\ session = [t \in Tokens |-> NoSession]
  /\ developers = {}
  /\ step = [v \in Verifications |-> "idle"]
  /\ presented = [v \in Verifications |-> Nothing]
  /\ row = [v \in Verifications |-> NoRow]
  /\ granted = [v \in Verifications |-> NoToken]
  /\ opened = [n \in Nonces |-> 0]

-----------------------------------------------------------------------------
(* challenge: createNonce, a random one; the message is built around it. *)
CreateNonce(n) ==
  /\ nonceTtl[n] = 0
  /\ \A v \in Verifications : presented[v].message.nonce # n
  /\ nonceTtl' = [nonceTtl EXCEPT ![n] = NonceTtl]
  /\ opened' = [opened EXCEPT ![n] = 0]
  /\ UNCHANGED <<session, developers, step, presented, row, granted>>

-----------------------------------------------------------------------------
(* verify *)

Advance(v, from, to) ==
  /\ step[v] = from
  /\ step' = [step EXCEPT ![v] = to]

Signing(v) == presented[v].message.wallet
Nonce(v) == presented[v].message.nonce

(* A message and its signature arrive, possibly again.  Then, without an    *)
(* await, (a) validateSiweMessageFields: the server's own message has the    *)
(* expected address, domain, URI, version and chain, and an expired one has *)
(* lost its nonce.                                                          *)
Submit(v, m, w) ==
  /\ Advance(v, "idle", "consume")
  /\ presented' = [presented EXCEPT ![v] = [message |-> m, signer |-> w]]
  /\ UNCHANGED <<nonceTtl, session, developers, row, granted, opened>>

(* (c) verifySignature against the address in the message: it reads nothing *)
(* that others write.                                                       *)
VerifySignature(v) ==
  IF presented[v].signer = Signing(v) THEN "select" ELSE "refused"

(* Fault: the nonce is looked up, and left to expire. *)
LookUpNonce(v) ==
  /\ Advance(v, "consume",
       IF nonceTtl[Nonce(v)] > 0 THEN VerifySignature(v) ELSE "refused")
  /\ UNCHANGED <<nonceTtl, session, developers, presented, row, granted, opened>>

(* Fault: whoever signed is let in. *)
ConsumeUnsigned(v) ==
  LET n == Nonce(v) IN
  /\ Advance(v, "consume", IF nonceTtl[n] > 0 THEN "select" ELSE "refused")
  /\ nonceTtl' = [nonceTtl EXCEPT ![n] = 0]
  /\ UNCHANGED <<session, developers, presented, row, granted, opened>>

(* (b) consumeNonce: GETDEL, so the nonce is spent whatever comes next. *)
ConsumeNonce(v) ==
  LET n == Nonce(v) IN
  /\ Advance(v, "consume", IF nonceTtl[n] > 0 THEN VerifySignature(v) ELSE "refused")
  /\ nonceTtl' = [nonceTtl EXCEPT ![n] = 0]
  /\ UNCHANGED <<session, developers, presented, row, granted, opened>>

(* (d) upsertDeveloperByWallet: select, then update or insert.  Rows are    *)
(* never removed and an update touches updated_at only, so a row once seen  *)
(* is the row that the update, or the second select, returns.               *)
RowsOf(w) == {r \in developers : r.wallet = w}

SelectDeveloper(v) ==
  /\ \/ /\ Advance(v, "select", "session")
        /\ \E r \in RowsOf(Signing(v)) : row' = [row EXCEPT ![v] = r]
     \/ /\ Advance(v, "select", "insert")
        /\ RowsOf(Signing(v)) = {}
        /\ UNCHANGED row
  /\ UNCHANGED <<nonceTtl, session, developers, presented, granted, opened>>

NextId == Cardinality(developers) + 1

(* Fault: the column is not unique, the insert always succeeds. *)
InsertAnyDeveloper(v) ==
  LET r == [id |-> NextId, wallet |-> Signing(v)] IN
  /\ Advance(v, "insert", "session")
  /\ developers' = developers \cup {r}
  /\ row' = [row EXCEPT ![v] = r]
  /\ UNCHANGED <<nonceTtl, session, presented, granted, opened>>

(* INSERT ... ON CONFLICT DO NOTHING; the loser reads the winner's row. *)
InsertDeveloper(v) ==
  /\ Advance(v, "insert", "session")
  /\ developers' = IF RowsOf(Signing(v)) # {} THEN developers
                   ELSE developers \cup {[id |-> NextId, wallet |-> Signing(v)]}
  /\ \E r \in developers' :
       r.wallet = Signing(v) /\ row' = [row EXCEPT ![v] = r]
  /\ UNCHANGED <<nonceTtl, session, presented, granted, opened>>

(* (e) createSession under a fresh random token. *)
CreateSession(v, t) ==
  /\ Advance(v, "session", "granted")
  /\ session[t] = NoSession /\ \A u \in Verifications : granted[u] # t
  /\ session' = [session EXCEPT ![t] =
       [developer |-> row[v].id, wallet |-> row[v].wallet, left |-> SessionTtl]]
  /\ granted' = [granted EXCEPT ![v] = t]
  /\ opened' = [opened EXCEPT ![Nonce(v)] = @ + 1]
  /\ UNCHANGED <<nonceTtl, developers, presented, row>>

(* The response has left, or the handler died or threw: only what is in     *)
(* Redis and Postgres remains.                                              *)
EndVerification(v) ==
  /\ step' = [step EXCEPT ![v] = "idle"]
  /\ presented' = [presented EXCEPT ![v] = Nothing]
  /\ row' = [row EXCEPT ![v] = NoRow]
  /\ granted' = [granted EXCEPT ![v] = NoToken]
  /\ UNCHANGED <<nonceTtl, session, developers, opened>>

Verify(v) ==
  \/ ConsumeNonce(v) \/ SelectDeveloper(v) \/ InsertDeveloper(v)
  \/ \E t \in Tokens : CreateSession(v, t)

-----------------------------------------------------------------------------
(* me and logout: what a token is worth, and its end. *)
Me(t) == IF t # NoToken /\ session[t].left > 0 THEN session[t].wallet ELSE NoWallet

DeleteSession(t) ==
  session' = [u \in Tokens |-> IF u = t THEN NoSession ELSE session[u]]

(* Keys age; a nonce that nobody can present any more is forgotten. *)
KeysAge(kept) ==
  LET Known(n) == n \in kept \/ nonceTtl'[n] > 0
                    \/ \E v \in Verifications : Nonce(v) = n IN
  /\ nonceTtl' = [n \in Nonces |-> IF nonceTtl[n] > 0 THEN nonceTtl[n] - 1 ELSE 0]
  /\ opened' = [n \in Nonces |-> IF Known(n) THEN opened[n] ELSE 0]
  /\ session' = [t \in Tokens |->
       IF session[t].left <= 1 THEN NoSession ELSE [session[t] EXCEPT !.left = @ - 1]]
  /\ UNCHANGED <<developers, step, presented, row, granted>>

-----------------------------------------------------------------------------
(* A nonce is valid exactly once (nonce.ts:7): however many verifications   *)
(* present it at the same time, it opens at most one session.               *)
NonceOpensOneSession == \A n \in Nonces : opened[n] <= 1

(* A session names one developer, the only one with that wallet            *)
(* (developers.ts:4), and a verification that holds a session's row was     *)
(* signed by that wallet.                                                   *)
SessionIsSigned ==
  /\ \A t \in Tokens :
       session[t] # NoSession =>
         RowsOf(session[t].wallet) =
           {[id |-> session[t].developer, wallet |-> session[t].wallet]}
  /\ \A v \in Verifications :
       step[v] \in {"session", "granted"} => row[v].wallet = presented[v].signer
=============================================================================
