---------------------------- MODULE SignInProofs ----------------------------
(***************************************************************************)
(* Proofs about SignIn and the server of Authentication under it, for any  *)
(* browsers, wallets, nonces, tokens and verifications, any lifetimes, and *)
(* any number of requests under way.                                       *)
(***************************************************************************)
EXTENDS SignIn, FiniteSetTheorems, TLAPS

-----------------------------------------------------------------------------
(* The inductive invariant, one conjunct for each thing that is relied on. *)

(* A message of the server. *)
Issued == [nonce: Nonces, wallet: Wallets]

Types ==
  /\ nonceTtl \in [Nonces -> 0..NonceTtl]
  /\ session \in [Tokens -> [developer: {0} \cup Ids,
                             wallet: Wallets \cup {NoWallet}, left: 0..SessionTtl]]
  /\ developers \subseteq [id: Ids, wallet: Wallets]
  /\ step \in [Verifications -> VerifySteps]
  /\ presented \in [Verifications -> [message: Message, signer: Wallets \cup {NoWallet}]]
  /\ row \in [Verifications -> [id: {0} \cup Ids, wallet: Wallets \cup {NoWallet}]]
  /\ granted \in [Verifications -> Tokens \cup {NoToken}]
  /\ opened \in [Nonces -> 0..1]

(* The unique index on the wallet. *)
OneRowPerWallet ==
  /\ IsFiniteSet(developers)
  /\ \A r1, r2 \in developers : r1.wallet = r2.wallet => r1 = r2

(* The dialog and every verification hold a message of the server. *)
MessagesAreIssued ==
  /\ \A b \in Browsers : flow[b] = "nonce" => asked[b] \in Wallets
  /\ \A b \in Browsers : flow[b] = "message" => holds[b] \in Issued
  /\ \A v \in Verifications :
       step[v] # "idle" => presented[v].message \in Issued /\ presented[v].signer \in Wallets

(* A nonce is in Redis, or in the hands of one verification, or spent. *)
NonceIsInOnePlace ==
  /\ \A n \in Nonces : nonceTtl[n] > 0 => opened[n] = 0
  /\ \A v \in Verifications :
       step[v] \in Past => nonceTtl[Nonce(v)] = 0 /\ opened[Nonce(v)] = 0
  /\ \A u, v \in Verifications :
       step[u] \in Past /\ step[v] \in Past /\ Nonce(u) = Nonce(v) => u = v

(* A verification that got past the nonce was signed by its wallet, and has *)
(* that wallet's row in hand when it opens a session.                       *)
VerifiedIsSigned ==
  \A v \in Verifications :
    /\ step[v] \in Past \cup {"granted"} => presented[v].signer = Signing(v)
    /\ step[v] \in {"session", "granted"} => row[v] \in developers /\ row[v].wallet = Signing(v)

SessionsHaveRows ==
  \A t \in Tokens :
    session[t] # NoSession =>
      [id |-> session[t].developer, wallet |-> session[t].wallet] \in developers

(* An answer of /api/me on its way is about the cookie that is still there. *)
AnswerIsCurrent ==
  \A b \in Browsers :
    me[b] \notin {NoFetch, Lost} /\ Me(cookie[b]) # NoWallet => me[b] = Me(cookie[b])

ServerInv ==
  /\ Types /\ OneRowPerWallet /\ NonceIsInOnePlace /\ VerifiedIsSigned /\ SessionsHaveRows
BrowserInv == BrowserTypeOK /\ AnswerIsCurrent /\ SignInShows
Inv == ServerInv /\ MessagesAreIssued /\ BrowserInv

-----------------------------------------------------------------------------
(* The server *)

(* What has arrived at a verification is a message that Verify can use. *)
LEMMA NonceOf ==
  ASSUME MessagesAreIssued, NEW v \in Verifications, step[v] # "idle"
  PROVE  Nonce(v) \in Nonces /\ Signing(v) \in Wallets
BY DEF MessagesAreIssued, Issued, Nonce, Signing

LEMMA CreateNonceKeepsServer ==
  ASSUME ServerInv, NEW n \in Nonces, CreateNonce(n)
  PROVE  ServerInv'
<1> USE DEF ServerInv
<1>1. /\ nonceTtl' = [nonceTtl EXCEPT ![n] = NonceTtl] /\ opened' = [opened EXCEPT ![n] = 0]
      /\ UNCHANGED <<session, developers, step, presented, row, granted>>
      /\ \A v \in Verifications : Nonce(v) # n
  BY DEF CreateNonce, Nonce
<1>2. Types'
  BY <1>1, AuthConstants DEF Types
<1>3. NonceIsInOnePlace'
  <2>1. \A m \in Nonces : nonceTtl'[m] > 0 => opened'[m] = 0
    BY <1>1 DEF NonceIsInOnePlace, Types
  <2>2. \A v \in Verifications : Nonce(v)' = Nonce(v)
    BY <1>1 DEF Nonce
  <2>3. \A v \in Verifications :
          step'[v] \in Past => nonceTtl'[Nonce(v)'] = 0 /\ opened'[Nonce(v)'] = 0
    BY <1>1, <2>2 DEF NonceIsInOnePlace, Types
  <2>4. \A u, v \in Verifications :
          step'[u] \in Past /\ step'[v] \in Past /\ Nonce(u)' = Nonce(v)' => u = v
    BY <1>1, <2>2 DEF NonceIsInOnePlace
  <2> QED
    BY <2>1, <2>3, <2>4 DEF NonceIsInOnePlace
<1>4. OneRowPerWallet' /\ VerifiedIsSigned' /\ SessionsHaveRows'
  BY <1>1 DEF OneRowPerWallet, VerifiedIsSigned, SessionsHaveRows, Signing, NoSession
<1> QED
  BY <1>2, <1>3, <1>4

LEMMA SubmitKeepsServer ==
  ASSUME ServerInv, NEW v \in Verifications, NEW m \in Issued, NEW w \in Wallets,
         Submit(v, m, w)
  PROVE  ServerInv'
<1> USE DEF ServerInv
<1>1. /\ step[v] = "idle" /\ step' = [step EXCEPT ![v] = "consume"]
      /\ presented' = [presented EXCEPT ![v] = [message |-> m, signer |-> w]]
      /\ UNCHANGED <<nonceTtl, session, developers, row, granted, opened>>
  BY DEF Submit, Advance
<1>2. Types'
  BY <1>1 DEF Types, VerifySteps, Message, Issued
<1>3. \A u \in Verifications :
        step'[u] # "consume" => u # v /\ step'[u] = step[u] /\ presented'[u] = presented[u]
  BY <1>1 DEF Types
<1>4. NonceIsInOnePlace'
  BY <1>1, <1>3 DEF NonceIsInOnePlace, Past, Nonce
<1>5. VerifiedIsSigned'
  BY <1>1, <1>3 DEF VerifiedIsSigned, Past, Signing
<1>6. OneRowPerWallet' /\ SessionsHaveRows'
  BY <1>1 DEF OneRowPerWallet, SessionsHaveRows, NoSession
<1> QED
  BY <1>2, <1>4, <1>5, <1>6

(* GETDEL takes the nonce out of Redis, and no other verification has it.   *)
LEMMA ConsumeKeepsServer ==
  ASSUME ServerInv, MessagesAreIssued, NEW v \in Verifications, ConsumeNonce(v)
  PROVE  ServerInv'
<1> USE DEF ServerInv
<1> DEFINE n == Nonce(v)
           to == IF nonceTtl[n] > 0 THEN VerifySignature(v) ELSE "refused"
<1>1. /\ step[v] = "consume" /\ step' = [step EXCEPT ![v] = to]
      /\ nonceTtl' = [nonceTtl EXCEPT ![n] = 0]
      /\ UNCHANGED <<session, developers, presented, row, granted, opened>>
  BY DEF ConsumeNonce, Advance
<1>2. n \in Nonces
  BY <1>1, NonceOf
<1>3. /\ to \in {"select", "refused"}
      /\ to = "select" => nonceTtl[n] > 0 /\ presented[v].signer = Signing(v)
  BY DEF VerifySignature
<1> HIDE DEF n, to
<1>4. Types'
  BY <1>1, <1>2, <1>3, AuthConstants DEF Types, VerifySteps
<1>5. \A u \in Verifications : Nonce(u)' = Nonce(u) /\ Signing(u)' = Signing(u)
  BY <1>1 DEF Nonce, Signing
<1>6. \A u \in Verifications : u # v => step'[u] = step[u]
  BY <1>1 DEF Types
<1>7. step'[v] = to
  BY <1>1 DEF Types
<1>8. NonceIsInOnePlace'
  <2>1. \A m \in Nonces : nonceTtl'[m] > 0 => opened'[m] = 0
    BY <1>1, <1>2 DEF NonceIsInOnePlace, Types
  <2>2. step'[v] \in Past => opened[n] = 0 /\ \A u \in Verifications : step[u] \in Past => Nonce(u) # n
    BY <1>2, <1>3, <1>7 DEF NonceIsInOnePlace, Past, Types
  <2>3. \A u \in Verifications : step[u] \in Past => nonceTtl'[Nonce(u)] = 0
    BY <1>1, <1>2 DEF NonceIsInOnePlace, Types
  <2>4. nonceTtl'[n] = 0
    BY <1>1, <1>2 DEF Types
  <2>5. \A u \in Verifications :
          step'[u] \in Past => nonceTtl'[Nonce(u)] = 0 /\ opened[Nonce(u)] = 0
    BY <1>6, <2>2, <2>3, <2>4 DEF NonceIsInOnePlace, n
  <2>6. \A u, x \in Verifications :
          step'[u] \in Past /\ step'[x] \in Past /\ Nonce(u) = Nonce(x) => u = x
    BY <1>6, <2>2 DEF NonceIsInOnePlace, n
  <2> QED
    BY <1>1, <1>5, <2>1, <2>5, <2>6 DEF NonceIsInOnePlace
<1>9. VerifiedIsSigned'
  BY <1>1, <1>3, <1>5, <1>6, <1>7 DEF VerifiedIsSigned, Past
<1>10. OneRowPerWallet' /\ SessionsHaveRows'
  BY <1>1 DEF OneRowPerWallet, SessionsHaveRows, NoSession
<1> QED
  BY <1>4, <1>8, <1>9, <1>10

LEMMA SelectKeepsServer ==
  ASSUME ServerInv, MessagesAreIssued, NEW v \in Verifications, SelectDeveloper(v)
  PROVE  ServerInv'
<1> USE DEF ServerInv
<1>1. /\ step[v] = "select"
      /\ \/ /\ step' = [step EXCEPT ![v] = "session"]
            /\ \E r \in developers : r.wallet = Signing(v) /\ row' = [row EXCEPT ![v] = r]
         \/ step' = [step EXCEPT ![v] = "insert"] /\ UNCHANGED row
      /\ UNCHANGED <<nonceTtl, session, developers, presented, granted, opened>>
  BY DEF SelectDeveloper, Advance, RowsOf
<1>2. Types'
  BY <1>1 DEF Types, VerifySteps
<1>3. \A u \in Verifications : step'[u] \in Past => step[u] \in Past
  BY <1>1 DEF Types, Past
<1>4. NonceIsInOnePlace'
  BY <1>1, <1>3 DEF NonceIsInOnePlace, Nonce
<1>5. VerifiedIsSigned'
  BY <1>1 DEF VerifiedIsSigned, Past, Signing, Types
<1>6. OneRowPerWallet' /\ SessionsHaveRows'
  BY <1>1 DEF OneRowPerWallet, SessionsHaveRows, NoSession
<1> QED
  BY <1>2, <1>4, <1>5, <1>6

(* With one row for each wallet, there are never more rows than wallets. *)
LEMMA RowsAreFew ==
  ASSUME NEW D, IsFiniteSet(D), \A r \in D : r.wallet \in Wallets,
         \A r1, r2 \in D : r1.wallet = r2.wallet => r1 = r2
  PROVE  Cardinality(D) \in 0..Cardinality(Wallets)
<1> DEFINE f == [r \in D |-> r.wallet]
<1>1. f \in Injection(D, Wallets)
  BY DEF Injection, IsInjective
<1>2. Cardinality(D) <= Cardinality(Wallets)
  BY <1>1, AuthConstants, FS_Injection
<1> QED
  BY <1>2, AuthConstants, FS_CardinalityType

LEMMA InsertKeepsServer ==
  ASSUME ServerInv, MessagesAreIssued, NEW v \in Verifications, InsertDeveloper(v)
  PROVE  ServerInv'
<1> USE DEF ServerInv
<1> DEFINE new == [id |-> NextId, wallet |-> Signing(v)]
<1>1. /\ step[v] = "insert" /\ step' = [step EXCEPT ![v] = "session"]
      /\ \/ RowsOf(Signing(v)) # {} /\ developers' = developers
         \/ RowsOf(Signing(v)) = {} /\ developers' = developers \cup {new}
      /\ \E r \in developers' : r.wallet = Signing(v) /\ row' = [row EXCEPT ![v] = r]
      /\ UNCHANGED <<nonceTtl, session, presented, granted, opened>>
  BY DEF InsertDeveloper, Advance
<1>2. Signing(v) \in Wallets
  BY <1>1, NonceOf
<1>3. /\ IsFiniteSet(developers') /\ developers \subseteq developers'
      /\ \A r \in developers' : r.wallet \in Wallets
      /\ \A r1, r2 \in developers' : r1.wallet = r2.wallet => r1 = r2
  <2>1. CASE developers' = developers
    BY <2>1 DEF OneRowPerWallet, Types
  <2>2. CASE RowsOf(Signing(v)) = {} /\ developers' = developers \cup {new}
    <3>1. IsFiniteSet(developers')
      BY <2>2, FS_AddElement DEF OneRowPerWallet
    <3>2. \A r \in developers : r.wallet # new.wallet
      BY <2>2 DEF RowsOf
    <3> QED
      BY <1>2, <2>2, <3>1, <3>2 DEF OneRowPerWallet, Types
  <2> QED
    BY <1>1, <2>1, <2>2
<1>4. developers' \subseteq [id: Ids, wallet: Wallets]
  <2>1. CASE developers' = developers
    BY <2>1 DEF Types
  <2>2. CASE RowsOf(Signing(v)) = {} /\ developers' = developers \cup {new}
    <3>1. new \notin developers
      BY <2>2 DEF RowsOf
    <3>2. Cardinality(developers') = Cardinality(developers) + 1 /\ Cardinality(developers) \in Nat
      BY <2>2, <3>1, FS_AddElement, FS_CardinalityType DEF OneRowPerWallet
    <3>3. Cardinality(developers') \in 0..Cardinality(Wallets)
      BY <1>3, RowsAreFew
    <3>4. NextId \in Ids
      BY <3>2, <3>3, AuthConstants, FS_CardinalityType DEF NextId, Ids
    <3> QED
      BY <1>2, <2>2, <3>4 DEF Types
  <2> QED
    BY <1>1, <2>1, <2>2
<1>5. PICK r \in developers' : r.wallet = Signing(v) /\ row' = [row EXCEPT ![v] = r]
  BY <1>1
<1>6. Types'
  BY <1>1, <1>4, <1>5 DEF Types, VerifySteps
<1>7. OneRowPerWallet'
  BY <1>3 DEF OneRowPerWallet
<1>8. \A u \in Verifications : step'[u] \in Past => step[u] \in Past
  BY <1>1 DEF Types, Past
<1>9. NonceIsInOnePlace'
  BY <1>1, <1>8 DEF NonceIsInOnePlace, Nonce
<1>10. VerifiedIsSigned'
  <2>1. \A u \in Verifications : Signing(u)' = Signing(u)
    BY <1>1 DEF Signing
  <2>2. row'[v] = r /\ step'[v] = "session"
    BY <1>1, <1>5 DEF Types
  <2>3. \A u \in Verifications : u # v => row'[u] = row[u] /\ step'[u] = step[u]
    BY <1>1, <1>5 DEF Types
  <2> QED
    BY <1>1, <1>3, <1>5, <2>1, <2>2, <2>3 DEF VerifiedIsSigned, Past
<1>11. SessionsHaveRows'
  BY <1>1, <1>3 DEF SessionsHaveRows, NoSession
<1> QED
  BY <1>6, <1>7, <1>9, <1>10, <1>11

LEMMA CreateSessionKeepsServer ==
  ASSUME ServerInv, MessagesAreIssued, NEW v \in Verifications, NEW t \in Tokens,
         CreateSession(v, t)
  PROVE  ServerInv'
<1> USE DEF ServerInv
<1> DEFINE n == Nonce(v)
           s == [developer |-> row[v].id, wallet |-> row[v].wallet, left |-> SessionTtl]
<1>1. /\ step[v] = "session" /\ step' = [step EXCEPT ![v] = "granted"]
      /\ session' = [session EXCEPT ![t] = s]
      /\ granted' = [granted EXCEPT ![v] = t]
      /\ opened' = [opened EXCEPT ![n] = @ + 1]
      /\ UNCHANGED <<nonceTtl, developers, presented, row>>
  BY DEF CreateSession, Advance
<1>2. n \in Nonces
  BY <1>1, NonceOf
<1>3. row[v] \in developers
  BY <1>1 DEF VerifiedIsSigned
<1>4. row[v].id \in Ids /\ row[v].wallet \in Wallets
  BY <1>3 DEF Types
<1>5. opened[n] = 0
  BY <1>1 DEF NonceIsInOnePlace, Past
<1>6. s \in [developer: {0} \cup Ids, wallet: Wallets \cup {NoWallet}, left: 0..SessionTtl]
  BY <1>4, AuthConstants
<1> HIDE DEF n, s
<1>7. Types'
  <2>1. session' \in [Tokens -> [developer: {0} \cup Ids,
                                 wallet: Wallets \cup {NoWallet}, left: 0..SessionTtl]]
    BY <1>1, <1>6 DEF Types
  <2>2. opened' \in [Nonces -> 0..1]
    BY <1>1, <1>2, <1>5 DEF Types
  <2>3. step' \in [Verifications -> VerifySteps] /\ granted' \in [Verifications -> Tokens \cup {NoToken}]
    BY <1>1 DEF Types, VerifySteps
  <2> QED
    BY <1>1, <2>1, <2>2, <2>3 DEF Types, Ids
<1>8. \A u \in Verifications : step'[u] \in Past => step[u] \in Past /\ u # v
  BY <1>1 DEF Types, Past
<1>9. NonceIsInOnePlace'
  <2>1. \A u \in Verifications : Nonce(u)' = Nonce(u)
    BY <1>1 DEF Nonce
  <2>2. nonceTtl[n] = 0 /\ step[v] \in Past
    BY <1>1 DEF NonceIsInOnePlace, Past, n
  <2>3. \A u \in Verifications : step'[u] \in Past => Nonce(u) # n
    BY <1>8, <2>2 DEF NonceIsInOnePlace, n
  <2>4. \A m \in Nonces : m # n => opened'[m] = opened[m]
    BY <1>1 DEF Types
  <2>5. \A m \in Nonces : nonceTtl'[m] > 0 => opened'[m] = 0
    BY <1>1, <2>2, <2>4 DEF NonceIsInOnePlace, Types
  <2>6. \A u \in Verifications : step'[u] \in Past => opened'[Nonce(u)] = 0
    BY <1>1, <1>2, <1>8, <2>3 DEF NonceIsInOnePlace, Types
  <2> QED
    BY <1>1, <1>8, <2>1, <2>5, <2>6 DEF NonceIsInOnePlace
<1>10. VerifiedIsSigned'
  BY <1>1 DEF VerifiedIsSigned, Past, Signing, Types
<1>11. SessionsHaveRows'
  <2> SUFFICES ASSUME NEW x \in Tokens, session'[x] # NoSession
               PROVE  [id |-> session'[x].developer, wallet |-> session'[x].wallet] \in developers
    BY <1>1 DEF SessionsHaveRows, NoSession
  <2>1. CASE x = t
    <3>1. session'[x].developer = row[v].id /\ session'[x].wallet = row[v].wallet
      BY <1>1, <2>1 DEF Types, s
    <3>2. row[v] = [id |-> row[v].id, wallet |-> row[v].wallet]
      BY <1>3 DEF Types
    <3> QED
      BY <1>3, <3>1, <3>2
  <2>2. CASE x # t
    BY <1>1, <2>2 DEF SessionsHaveRows, Types
  <2> QED
    BY <2>1, <2>2
<1> QED
  BY <1>1, <1>7, <1>9, <1>10, <1>11 DEF OneRowPerWallet

LEMMA EndKeepsServer ==
  ASSUME ServerInv, NEW v \in Verifications, EndVerification(v)
  PROVE  ServerInv'
<1> USE DEF ServerInv
<1>1. /\ step' = [step EXCEPT ![v] = "idle"]
      /\ presented' = [presented EXCEPT ![v] = Nothing]
      /\ row' = [row EXCEPT ![v] = NoRow]
      /\ granted' = [granted EXCEPT ![v] = NoToken]
      /\ UNCHANGED <<nonceTtl, session, developers, opened>>
  BY DEF EndVerification
<1>2. Types'
  BY <1>1 DEF Types, VerifySteps, Nothing, NoMessage, Message, NoRow
<1>3. \A u \in Verifications :
        step'[u] # "idle" => /\ u # v /\ step'[u] = step[u]
                             /\ presented'[u] = presented[u] /\ row'[u] = row[u]
  BY <1>1 DEF Types
<1>4. NonceIsInOnePlace'
  BY <1>1, <1>3 DEF NonceIsInOnePlace, Past, Nonce
<1>5. VerifiedIsSigned'
  BY <1>1, <1>3 DEF VerifiedIsSigned, Past, Signing
<1>6. OneRowPerWallet' /\ SessionsHaveRows'
  BY <1>1 DEF OneRowPerWallet, SessionsHaveRows, NoSession
<1> QED
  BY <1>2, <1>4, <1>5, <1>6

(* Keys only grow older, and what is left of a session is that session. *)
LEMMA AgedSession ==
  ASSUME Types, NEW kept, KeysAge(kept), NEW t \in Tokens
  PROVE  \/ session'[t] = NoSession
         \/ session[t].left > 1 /\ session'[t] = [session[t] EXCEPT !.left = @ - 1]
BY DEF KeysAge, Types

LEMMA AgeKeepsServer ==
  ASSUME ServerInv, MessagesAreIssued, NEW kept, KeysAge(kept)
  PROVE  ServerInv'
<1> USE DEF ServerInv
<1>1. UNCHANGED <<developers, step, presented, row, granted>>
  BY DEF KeysAge
<1>2. /\ nonceTtl' \in [Nonces -> 0..NonceTtl]
      /\ \A n \in Nonces : nonceTtl[n] = 0 => nonceTtl'[n] = 0
  BY AuthConstants DEF KeysAge, Types
<1>3. opened' \in [Nonces -> 0..1] /\ \A n \in Nonces : opened'[n] \in {0, opened[n]}
  BY DEF KeysAge, Types
<1>4. \A t \in Tokens :
        \/ session'[t] = NoSession
        \/ session[t].left > 1 /\ session'[t] = [session[t] EXCEPT !.left = @ - 1]
  BY AgedSession
<1>5. session' \in [Tokens -> [developer: {0} \cup Ids,
                               wallet: Wallets \cup {NoWallet}, left: 0..SessionTtl]]
  <2>1. NoSession \in [developer: {0} \cup Ids, wallet: Wallets \cup {NoWallet}, left: 0..SessionTtl]
    BY AuthConstants DEF NoSession
  <2>2. \A t \in Tokens :
          session'[t] \in [developer: {0} \cup Ids, wallet: Wallets \cup {NoWallet}, left: 0..SessionTtl]
    <3> SUFFICES ASSUME NEW t \in Tokens, session[t].left > 1,
                        session'[t] = [session[t] EXCEPT !.left = @ - 1]
                 PROVE  session'[t] \in [developer: {0} \cup Ids,
                                        wallet: Wallets \cup {NoWallet}, left: 0..SessionTtl]
      BY <1>4, <2>1
    <3>1. session[t] \in [developer: {0} \cup Ids, wallet: Wallets \cup {NoWallet}, left: 0..SessionTtl]
      BY DEF Types
    <3>2. session[t].left - 1 \in 0..SessionTtl
      BY <3>1, AuthConstants
    <3> QED
      BY <3>1, <3>2
  <2>3. session' = [t \in Tokens |-> session'[t]]
    BY DEF KeysAge
  <2> QED
    BY <2>2, <2>3
<1>6. Types'
  BY <1>1, <1>2, <1>3, <1>5 DEF Types, Ids
<1>7. NonceIsInOnePlace'
  <2>1. \A n \in Nonces : nonceTtl'[n] > 0 => opened'[n] = 0
    BY <1>2, <1>3 DEF NonceIsInOnePlace, Types
  <2>2. \A v \in Verifications :
          step'[v] \in Past => nonceTtl'[Nonce(v)'] = 0 /\ opened'[Nonce(v)'] = 0
    <3> SUFFICES ASSUME NEW v \in Verifications, step[v] \in Past
                 PROVE  nonceTtl'[Nonce(v)] = 0 /\ opened'[Nonce(v)] = 0
      BY <1>1 DEF Nonce
    <3>1. Nonce(v) \in Nonces
      BY NonceOf DEF Past
    <3> QED
      BY <1>2, <1>3, <3>1 DEF NonceIsInOnePlace
  <2>3. \A u, v \in Verifications :
          step'[u] \in Past /\ step'[v] \in Past /\ Nonce(u)' = Nonce(v)' => u = v
    BY <1>1 DEF NonceIsInOnePlace, Nonce
  <2> QED
    BY <2>1, <2>2, <2>3 DEF NonceIsInOnePlace
<1>8. SessionsHaveRows'
  <2> SUFFICES ASSUME NEW t \in Tokens, session'[t] # NoSession
               PROVE  [id |-> session'[t].developer, wallet |-> session'[t].wallet] \in developers
    BY <1>1 DEF SessionsHaveRows, NoSession
  <2>1. session[t].left > 1 /\ session'[t] = [session[t] EXCEPT !.left = @ - 1]
    BY <1>4
  <2>2. session'[t].developer = session[t].developer /\ session'[t].wallet = session[t].wallet
    BY <2>1 DEF Types
  <2>3. session[t] # NoSession
    BY <2>1 DEF NoSession
  <2> QED
    BY <2>2, <2>3 DEF SessionsHaveRows
<1>9. OneRowPerWallet' /\ VerifiedIsSigned'
  BY <1>1 DEF OneRowPerWallet, VerifiedIsSigned, Signing
<1> QED
  BY <1>6, <1>7, <1>8, <1>9

LEMMA DeleteKeepsServer ==
  ASSUME ServerInv, NEW t, DeleteSession(t) \/ UNCHANGED session,
         UNCHANGED <<nonceTtl, developers, step, presented, row, granted, opened>>
  PROVE  ServerInv'
<1> USE DEF ServerInv
<1>1. \A u \in Tokens : session'[u] \in {NoSession, session[u]}
  BY DEF DeleteSession
<1>2. session' \in [Tokens -> [developer: {0} \cup Ids,
                               wallet: Wallets \cup {NoWallet}, left: 0..SessionTtl]]
  BY AuthConstants DEF DeleteSession, Types, NoSession
<1>3. Types'
  BY <1>2 DEF Types, Ids
<1>4. SessionsHaveRows'
  BY <1>1 DEF SessionsHaveRows, NoSession
<1>5. NonceIsInOnePlace' /\ OneRowPerWallet' /\ VerifiedIsSigned'
  BY DEF NonceIsInOnePlace, Nonce, OneRowPerWallet, VerifiedIsSigned, Signing
<1> QED
  BY <1>3, <1>4, <1>5

-----------------------------------------------------------------------------
(* The browser *)

LEMMA MeIsWallet ==
  ASSUME Types, NEW t \in Tokens \cup {NoToken}
  PROVE  Me(t) \in Wallets \cup {NoWallet} /\ Me(t) \notin {NoFetch, Lost, Pending}
BY SignInConstants DEF Me, Types

(* The answer stays current while the worth of the cookie stays what it is  *)
(* or is lost.                                                               *)
LEMMA AnswerKept ==
  ASSUME AnswerIsCurrent, SignInShows, UNCHANGED cache,
         \A b \in Browsers : Me(cookie[b])' \in {NoWallet, Me(cookie[b])}
  PROVE  AnswerIsCurrent' /\ SignInShows'
BY DEF cache, AnswerIsCurrent, SignInShows

(* A step that reads /api/me for the cookie the browser then has. *)
LEMMA AnswerRead ==
  ASSUME Types, BrowserInv, NEW b \in Browsers, NEW t \in Tokens \cup {NoToken},
         cookie' = [cookie EXCEPT ![b] = t], Invalidate(b, t), UNCHANGED <<session, data>>
  PROVE  AnswerIsCurrent' /\ SignInShows'
<1>1. me'[b] = Me(t) /\ cookie'[b] = t
  BY DEF Invalidate, BrowserInv, BrowserTypeOK
<1>2. \A c \in Browsers : c # b => me'[c] = me[c] /\ cookie'[c] = cookie[c]
  BY DEF Invalidate, BrowserInv, BrowserTypeOK
<1>3. Me(t)' = Me(t) /\ \A c \in Browsers : c # b => Me(cookie[c])' = Me(cookie[c])
  BY <1>2 DEF Me
<1>4. Me(t) # NoFetch
  BY MeIsWallet
<1> QED
  BY <1>1, <1>2, <1>3, <1>4 DEF BrowserInv, AnswerIsCurrent, SignInShows

(* The types of the browser, by groups of steps. *)
LEMMA DialogTypes ==
  ASSUME BrowserTypeOK, MessagesAreIssued, NEW b \in Browsers,
         \/ \E w \in Wallets : Connect(b, w)
         \/ \E w \in Wallets \cup {NoWallet} : SwitchWallet(b, w)
         \/ Dialog(b)
  PROVE  BrowserTypeOK'
<1>1. CASE (\E w \in Wallets : Connect(b, w)) \/ \E w \in Wallets \cup {NoWallet} : SwitchWallet(b, w)
  BY <1>1 DEF Connect, SwitchWallet, dialog, cache, BrowserTypeOK
<1>2. CASE \E allowed, onCelo \in BOOLEAN : CreateMessage(b, allowed, onCelo)
  BY <1>2 DEF CreateMessage, ToFlow, cache, BrowserTypeOK
<1>3. CASE \E n \in Nonces : Challenge(b, n)
  BY <1>3 DEF Challenge, ToFlow, cache, BrowserTypeOK, MessagesAreIssued, Message
<1>4. CASE Abandon(b)
  BY <1>4 DEF Abandon, CloseDialog, cache, BrowserTypeOK, Message
<1>5. CASE \E v \in Verifications : SendVerify(b, v)
  BY <1>5 DEF SendVerify, dialog, cache, BrowserTypeOK
<1> QED
  BY <1>1, <1>2, <1>3, <1>4, <1>5 DEF Dialog

LEMMA VerificationTypes ==
  ASSUME BrowserTypeOK, Types, NEW v \in Verifications,
         VerifyStep(v) \/ Verified(v) \/ Refused(v) \/ VerifyLost(v)
  PROVE  BrowserTypeOK'
<1>1. CASE VerifyStep(v) \/ VerifyLost(v)
  BY <1>1 DEF VerifyStep, VerifyLost, browser, dialog, cache, BrowserTypeOK
<1>2. CASE Verified(v)
  <2>1. granted[v] \in Tokens \cup {NoToken} /\ client[v] \in Browsers
    BY DEF Types, BrowserTypeOK
  <2>2. Me(granted[v]) \in Wallets \cup {NoWallet}
    BY <2>1, MeIsWallet
  <2> QED
    BY <1>2, <2>1, <2>2 DEF Verified, Invalidate, CloseDialog, BrowserTypeOK, Message
<1>3. CASE Refused(v)
  BY <1>3 DEF Refused, CloseDialog, cache, BrowserTypeOK, Message
<1> QED
  BY <1>1, <1>2, <1>3

LEMMA SessionTypes ==
  ASSUME BrowserTypeOK, Types, NEW b \in Browsers, Session(b)
  PROVE  BrowserTypeOK'
<1>1. CASE Refetch(b)
  <2>1. Me(cookie[b]) \in Wallets \cup {NoWallet}
    BY MeIsWallet DEF BrowserTypeOK
  <2> QED
    BY <1>1, <2>1 DEF Refetch, Invalidate, dialog, BrowserTypeOK
<1>2. CASE MeReceived(b) \/ MeFailed(b)
  BY <1>2 DEF MeReceived, MeFailed, dialog, BrowserTypeOK
<1>3. CASE SignOut(b) \/ AdapterSignOut(b)
  BY <1>3 DEF SignOut, AdapterSignOut, SendLogout, Exits, dialog, cache, BrowserTypeOK
<1>4. CASE WalletGuard(b)
  <2>1. MismatchKey(b) \in (Wallets \cup {NoWallet}) \X (Wallets \cup {NoWallet})
    BY DEF MismatchKey, Status, NoPair, BrowserTypeOK
  <2>2. out' \in [Browsers -> SUBSET Exits]
    BY <1>4 DEF WalletGuard, SendLogout, Exits, BrowserTypeOK
  <2> QED
    BY <1>4, <2>1, <2>2 DEF WalletGuard, SendLogout, dialog, cache, BrowserTypeOK
<1>5. CASE \E x \in Exits : LogoutReceived(b, x)
  <2>1. Me(NoToken) = NoWallet
    BY DEF Me
  <2> QED
    BY <1>5, <2>1 DEF LogoutReceived, Invalidate, Leave, dialog, BrowserTypeOK
<1>6. CASE \E x \in Exits : LogoutFailed(b, x)
  BY <1>6 DEF LogoutFailed, Leave, dialog, cache, BrowserTypeOK
<1> QED
  BY <1>1, <1>2, <1>3, <1>4, <1>5, <1>6 DEF Session

-----------------------------------------------------------------------------
(* Every step *)

LEMMA ServerPreserved == Inv /\ [Next]_vars => ServerInv'
<1> SUFFICES ASSUME Inv, [Next]_vars
             PROVE  ServerInv'
  OBVIOUS
<1> USE DEF Inv
<1>1. ASSUME UNCHANGED server
      PROVE  ServerInv'
  BY <1>1
  DEF server, ServerInv, Types, OneRowPerWallet, NonceIsInOnePlace, VerifiedIsSigned,
      SessionsHaveRows, Nonce, Signing, NoSession
<1>2. ASSUME NEW b \in Browsers, Dialog(b)
      PROVE  ServerInv'
  <2>1. CASE \E n \in Nonces : Challenge(b, n)
    BY <2>1, CreateNonceKeepsServer DEF Challenge
  <2>2. CASE \E v \in Verifications : SendVerify(b, v)
    <3>1. holds[b] \in Issued /\ wallet[b] \in Wallets
      BY <2>2 DEF SendVerify, MessagesAreIssued, BrowserInv, BrowserTypeOK
    <3> QED
      BY <2>2, <3>1, SubmitKeepsServer DEF SendVerify
  <2> QED
    BY <1>1, <1>2, <2>1, <2>2 DEF Dialog, CreateMessage, Abandon
<1>3. ASSUME NEW b \in Browsers, Session(b)
      PROVE  ServerInv'
  <2>1. CASE \E x \in Exits : SendLogout(b, x)
    BY <2>1, DeleteKeepsServer DEF SendLogout
  <2> QED
    BY <1>1, <1>3, <2>1
    DEF Session, Refetch, MeReceived, MeFailed, SignOut, AdapterSignOut, WalletGuard,
        LogoutReceived, LogoutFailed, Exits
<1>4. ASSUME NEW v \in Verifications, VerifyStep(v)
      PROVE  ServerInv'
  BY <1>4, ConsumeKeepsServer, SelectKeepsServer, InsertKeepsServer, CreateSessionKeepsServer
  DEF VerifyStep, Verify
<1>5. ASSUME NEW v \in Verifications, Verified(v) \/ Refused(v) \/ VerifyLost(v)
      PROVE  ServerInv'
  BY <1>5, EndKeepsServer DEF Verified, Refused, VerifyLost
<1>6. CASE Tick
  BY <1>6, AgeKeepsServer DEF Tick
<1> QED
  BY <1>1, <1>2, <1>3, <1>4, <1>5, <1>6 DEF Next, Connect, SwitchWallet, vars

LEMMA MessagesPreserved == Inv /\ [Next]_vars => MessagesAreIssued'
<1> SUFFICES ASSUME Inv, [Next]_vars
             PROVE  MessagesAreIssued'
  OBVIOUS
<1> USE DEF Inv
<1>1. BrowserTypeOK /\ Types
  BY DEF BrowserInv, ServerInv
<1>2. ASSUME UNCHANGED <<dialog, step, presented>>
      PROVE  MessagesAreIssued'
  BY <1>2 DEF dialog, MessagesAreIssued
<1>3. ASSUME NEW b \in Browsers, Dialog(b)
      PROVE  MessagesAreIssued'
  <2>1. CASE \E allowed, onCelo \in BOOLEAN : CreateMessage(b, allowed, onCelo)
    BY <1>1, <2>1 DEF CreateMessage, ToFlow, server, MessagesAreIssued, BrowserTypeOK
  <2>2. CASE \E n \in Nonces : Challenge(b, n)
    <3>1. PICK n \in Nonces : Challenge(b, n)
      BY <2>2
    <3>2. /\ flow' = [flow EXCEPT ![b] = "message"] /\ asked[b] \in Wallets
          /\ asked' = [asked EXCEPT ![b] = NoWallet]
          /\ holds' = [holds EXCEPT ![b] = [nonce |-> n, wallet |-> asked[b]]]
          /\ UNCHANGED <<step, presented>>
      BY <3>1 DEF Challenge, ToFlow, CreateNonce, MessagesAreIssued
    <3> QED
      BY <1>1, <3>2 DEF MessagesAreIssued, BrowserTypeOK, Issued
  <2>3. CASE Abandon(b)
    BY <1>1, <2>3 DEF Abandon, CloseDialog, server, MessagesAreIssued, BrowserTypeOK
  <2>4. CASE \E v \in Verifications : SendVerify(b, v)
    <3>1. PICK v \in Verifications : SendVerify(b, v)
      BY <2>4
    <3>2. holds[b] \in Issued /\ wallet[b] \in Wallets
      BY <1>1, <3>1 DEF SendVerify, MessagesAreIssued, BrowserTypeOK
    <3>3. /\ UNCHANGED dialog
          /\ \A u \in Verifications : u # v => step'[u] = step[u] /\ presented'[u] = presented[u]
          /\ presented'[v] = [message |-> holds[b], signer |-> wallet[b]]
      BY <1>1, <3>1 DEF SendVerify, Submit, Advance, Types
    <3> QED
      BY <3>2, <3>3 DEF MessagesAreIssued, dialog
  <2> QED
    BY <1>3, <2>1, <2>2, <2>3, <2>4 DEF Dialog
<1>4. ASSUME NEW b \in Browsers, Session(b)
      PROVE  MessagesAreIssued'
  BY <1>2, <1>4
  DEF Session, Refetch, MeReceived, MeFailed, SignOut, AdapterSignOut, WalletGuard, SendLogout,
      LogoutReceived, LogoutFailed, server
<1>5. ASSUME NEW v \in Verifications, VerifyStep(v)
      PROVE  MessagesAreIssued'
  <2>1. \A u \in Verifications : step'[u] # "idle" => step[u] # "idle"
    BY <1>1, <1>5
    DEF VerifyStep, Verify, ConsumeNonce, SelectDeveloper, InsertDeveloper, CreateSession,
        Advance, Types
  <2>2. UNCHANGED <<dialog, presented>>
    BY <1>5
    DEF VerifyStep, Verify, ConsumeNonce, SelectDeveloper, InsertDeveloper, CreateSession,
        browser
  <2> QED
    BY <2>1, <2>2 DEF MessagesAreIssued, dialog
<1>6. ASSUME NEW v \in Verifications, Verified(v) \/ Refused(v) \/ VerifyLost(v)
      PROVE  MessagesAreIssued'
  <2>1. \A u \in Verifications : step'[u] # "idle" => step[u] # "idle" /\ presented'[u] = presented[u]
    BY <1>1, <1>6 DEF Verified, Refused, VerifyLost, EndVerification, Types
  <2>2. \A b \in Browsers :
          flow'[b] # "idle" => flow'[b] = flow[b] /\ asked'[b] = asked[b] /\ holds'[b] = holds[b]
    BY <1>1, <1>6
    DEF Verified, Refused, VerifyLost, CloseDialog, browser, dialog, BrowserTypeOK
  <2> QED
    BY <2>1, <2>2 DEF MessagesAreIssued
<1>7. CASE Tick
  BY <1>2, <1>7 DEF Tick, KeysAge
<1> QED
  BY <1>2, <1>3, <1>4, <1>5, <1>6, <1>7 DEF Next, Connect, SwitchWallet, vars, server, browser

LEMMA BrowserPreserved == Inv /\ [Next]_vars => BrowserInv'
<1> SUFFICES ASSUME Inv, [Next]_vars
             PROVE  BrowserInv'
  OBVIOUS
<1> USE DEF Inv
<1>1. /\ BrowserTypeOK /\ Types /\ AnswerIsCurrent /\ SignInShows
      /\ \A b \in Browsers : cookie[b] \in Tokens \cup {NoToken}
  BY DEF BrowserInv, ServerInv, BrowserTypeOK
<1>2. ASSUME UNCHANGED <<session, cookie, cache>>
      PROVE  AnswerIsCurrent' /\ SignInShows'
  BY <1>1, <1>2, AnswerKept DEF Me
<1>3. CASE UNCHANGED vars
  BY <1>1, <1>2, <1>3 DEF vars, server, browser, dialog, cache, BrowserInv, BrowserTypeOK
<1>4. ASSUME NEW b \in Browsers,
             \/ \E w \in Wallets : Connect(b, w)
             \/ \E w \in Wallets \cup {NoWallet} : SwitchWallet(b, w)
             \/ Dialog(b)
      PROVE  BrowserInv'
  <2>1. UNCHANGED <<session, cookie, cache>>
    BY <1>4
    DEF Connect, SwitchWallet, Dialog, CreateMessage, Challenge, CreateNonce, Abandon,
        SendVerify, Submit, server
  <2> QED
    BY <1>1, <1>2, <1>4, <2>1, DialogTypes DEF BrowserInv
<1>5. ASSUME NEW b \in Browsers, Session(b)
      PROVE  BrowserInv'
  <2>1. CASE Refetch(b)
    <3>1. cookie' = [cookie EXCEPT ![b] = cookie[b]]
      BY <1>1, <2>1 DEF Refetch, BrowserTypeOK
    <3> QED
      BY <1>1, <1>5, <2>1, <3>1, AnswerRead, SessionTypes DEF Refetch, server, BrowserInv
  <2>2. CASE MeReceived(b) \/ MeFailed(b)
    <3>1. UNCHANGED <<session, cookie>>
      BY <2>2 DEF MeReceived, MeFailed, server
    <3>2. \A c \in Browsers : Me(cookie[c])' = Me(cookie[c])
      BY <3>1 DEF Me
    <3>3. AnswerIsCurrent' /\ SignInShows'
      BY <1>1, <2>2, <3>2
      DEF MeReceived, MeFailed, AnswerIsCurrent, SignInShows, BrowserTypeOK, NoFetch, Lost
    <3> QED
      BY <1>1, <1>5, <3>3, SessionTypes DEF BrowserInv
  <2>3. CASE \E x \in Exits : SendLogout(b, x)
    <3>1. UNCHANGED <<cookie, cache>> /\ (DeleteSession(cookie[b]) \/ UNCHANGED session)
      BY <2>3 DEF SendLogout
    <3>2. \A c \in Browsers : Me(cookie[c])' \in {NoWallet, Me(cookie[c])}
      <4> TAKE c \in Browsers
      <4>1. cookie'[c] = cookie[c]
        BY <3>1
      <4>2. cookie[c] \in Tokens \cup {NoToken}
        BY <1>1
      <4> QED
        BY <1>1, <3>1, <4>1, <4>2 DEF DeleteSession, Me, NoSession, Types
    <3> QED
      BY <1>1, <1>5, <3>1, <3>2, AnswerKept, SessionTypes DEF BrowserInv
  <2>4. CASE \E x \in Exits : LogoutReceived(b, x)
    BY <1>1, <1>5, <2>4, AnswerRead, SessionTypes DEF LogoutReceived, server, BrowserInv
  <2>5. CASE UNCHANGED <<session, cookie, cache>>
    BY <1>1, <1>2, <1>5, <2>5, SessionTypes DEF BrowserInv
  <2> QED
    BY <1>5, <2>1, <2>2, <2>3, <2>4, <2>5
    DEF Session, SignOut, AdapterSignOut, WalletGuard, LogoutFailed, Exits, server
<1>6. ASSUME NEW v \in Verifications, VerifyStep(v)
      PROVE  BrowserInv'
  <2>1. UNCHANGED <<cookie, cache>>
    BY <1>6 DEF VerifyStep, browser
  <2>2. CASE \E t \in Tokens : CreateSession(v, t)
    <3>1. PICK t \in Tokens : CreateSession(v, t)
      BY <2>2
    <3>2. granted'[v] = t /\ granted[v] # t /\ session' = [session EXCEPT ![t] = session'[t]]
      BY <1>1, <3>1 DEF CreateSession, Types
    <3>3. \A c \in Browsers : cookie[c] # t
      BY <1>6, <3>2 DEF VerifyStep
    <3>4. \A c \in Browsers : Me(cookie[c])' = Me(cookie[c])
      BY <1>1, <2>1, <3>2, <3>3 DEF Me, Types
    <3> QED
      BY <1>1, <1>6, <2>1, <3>4, AnswerKept, VerificationTypes DEF BrowserInv
  <2>3. CASE UNCHANGED session
    BY <1>1, <1>2, <1>6, <2>1, <2>3, VerificationTypes DEF BrowserInv
  <2> QED
    BY <1>6, <2>2, <2>3
    DEF VerifyStep, Verify, ConsumeNonce, SelectDeveloper, InsertDeveloper
<1>7. ASSUME NEW v \in Verifications, Verified(v)
      PROVE  BrowserInv'
  <2>1. granted[v] \in Tokens \cup {NoToken} /\ client[v] \in Browsers
    BY <1>1 DEF Types, BrowserTypeOK
  <2> QED
    BY <1>1, <1>7, <2>1, AnswerRead, VerificationTypes DEF Verified, EndVerification, BrowserInv
<1>8. ASSUME NEW v \in Verifications, Refused(v) \/ VerifyLost(v)
      PROVE  BrowserInv'
  BY <1>1, <1>2, <1>8, VerificationTypes
  DEF Refused, VerifyLost, EndVerification, browser, BrowserInv
<1>9. CASE Tick
  <2>1. \A c \in Browsers : cookie'[c] \in {NoToken, cookie[c]}
    BY <1>9 DEF Tick
  <2>2. BrowserTypeOK'
    BY <1>1, <1>9, <2>1 DEF Tick, dialog, cache, BrowserTypeOK
  <2>3. \A c \in Browsers : Me(cookie[c])' \in {NoWallet, Me(cookie[c])}
    <3> TAKE c \in Browsers
    <3>1. CASE cookie'[c] = NoToken
      BY <3>1 DEF Me
    <3>2. CASE cookie'[c] # NoToken
      <4>1. cookie'[c] = cookie[c] /\ cookie[c] \in Tokens
        BY <1>1, <2>1, <3>2
      <4>2. session'[cookie[c]] # NoSession
        BY <1>9, <3>2, <4>1 DEF Tick
      <4>3. session[cookie[c]].left > 1
            /\ session'[cookie[c]] = [session[cookie[c]] EXCEPT !.left = @ - 1]
        BY <1>1, <1>9, <4>1, <4>2, AgedSession DEF Tick
      <4>4. /\ session[cookie[c]].left > 0 /\ session'[cookie[c]].left > 0
            /\ session'[cookie[c]].wallet = session[cookie[c]].wallet
        BY <1>1, <4>1, <4>3, AuthConstants DEF Types
      <4> QED
        BY <4>1, <4>4 DEF Me
    <3> QED
      BY <3>1, <3>2
  <2> QED
    BY <1>1, <1>9, <2>2, <2>3, AnswerKept DEF Tick, BrowserInv
<1> QED
  BY <1>3, <1>4, <1>5, <1>6, <1>7, <1>8, <1>9 DEF Next

-----------------------------------------------------------------------------
(* Theorems *)

LEMMA InitEstablishesInv == Init => Inv
<1> SUFFICES ASSUME Init
             PROVE  Inv
  OBVIOUS
<1>1. ServerInv
  BY AuthConstants, FS_EmptySet
  DEF Init, AuthInit, ServerInv, Types, OneRowPerWallet, NonceIsInOnePlace, VerifiedIsSigned,
      SessionsHaveRows, NoSession, NoRow, NoMessage, Nothing, Message, VerifySteps, Past
<1>2. MessagesAreIssued
  BY DEF Init, AuthInit, MessagesAreIssued
<1>3. BrowserInv
  BY DEF Init, AuthInit, BrowserInv, BrowserTypeOK, AnswerIsCurrent, SignInShows, Me, NoPair,
         Message, Exits
<1> QED
  BY <1>1, <1>2, <1>3 DEF Inv

(* The inductive invariant holds in every reachable state. *)
THEOREM Invariance == Spec => []Inv
<1>1. Inv /\ [Next]_vars => Inv'
  BY ServerPreserved, MessagesPreserved, BrowserPreserved DEF Inv
<1> QED
  BY InitEstablishesInv, <1>1, PTL DEF Spec

(* Every variable keeps its type. *)
THEOREM TypeCorrect == Spec => []TypeOK
<1>1. Inv => TypeOK
  BY DEF Inv, ServerInv, Types, BrowserInv, TypeOK, AuthTypeOK
<1> QED
  BY Invariance, <1>1, PTL

(* A nonce opens at most one session (nonce.ts:7). *)
THEOREM NonceOpensOneSessionHolds == Spec => []NonceOpensOneSession
<1>1. Inv => NonceOpensOneSession
  BY DEF Inv, ServerInv, Types, NonceOpensOneSession
<1> QED
  BY Invariance, <1>1, PTL

(* A session names the one developer of the wallet that signed for it       *)
(* (developers.ts:4).                                                       *)
THEOREM SessionIsSignedHolds == Spec => []SessionIsSigned
<1>1. ASSUME Inv
      PROVE  SessionIsSigned
  <2>1. ASSUME NEW t \in Tokens, session[t] # NoSession
        PROVE  RowsOf(session[t].wallet) =
                 {[id |-> session[t].developer, wallet |-> session[t].wallet]}
    <3> DEFINE r0 == [id |-> session[t].developer, wallet |-> session[t].wallet]
    <3>1. r0 \in developers /\ r0.wallet = session[t].wallet
      BY <1>1, <2>1 DEF Inv, ServerInv, SessionsHaveRows
    <3> HIDE DEF r0
    <3>2. RowsOf(session[t].wallet) = {r0}
      BY <1>1, <3>1 DEF Inv, ServerInv, OneRowPerWallet, RowsOf
    <3> QED
      BY <3>2 DEF r0
  <2>2. \A v \in Verifications :
          step[v] \in {"session", "granted"} => row[v].wallet = presented[v].signer
    BY <1>1 DEF Inv, ServerInv, VerifiedIsSigned, Past
  <2> QED
    BY <2>1, <2>2 DEF SessionIsSigned
<1> QED
  BY Invariance, <1>1, PTL

(* A sign-in shows, unless the last request to read it was lost             *)
(* (rainbowkit-adapter.ts:70).                                              *)
THEOREM SignInShowsHolds == Spec => []SignInShows
<1>1. Inv => SignInShows
  BY DEF Inv, BrowserInv
<1> QED
  BY Invariance, <1>1, PTL

-----------------------------------------------------------------------------
(* SignIn implements SignInPromise. *)

Promised == Promise!PromiseNext \/ UNCHANGED <<PendingNonces, OpenClaims, SessionWallets>>

(* Nothing happens to the claims if nobody enters or leaves their places. *)
LEMMA ClaimsKept ==
  ASSUME \A v \in Verifications :
           /\ step'[v] \in Past <=> step[v] \in Past
           /\ step[v] \in Past => presented'[v] = presented[v]
  PROVE  OpenClaims' = OpenClaims
<1>1. \A v \in Verifications : step[v] \in Past => ClaimOf(v)' = ClaimOf(v)
  BY DEF ClaimOf, Nonce
<1> QED
  BY <1>1 DEF OpenClaims

(* A claim is that of one verification, and goes with it. *)
LEMMA ClaimGoes ==
  ASSUME NonceIsInOnePlace, NEW v \in Verifications, step[v] \in Past, step'[v] \notin Past,
         \A u \in Verifications \ {v} : step'[u] = step[u] /\ presented'[u] = presented[u]
  PROVE  ClaimOf(v) \in OpenClaims /\ OpenClaims' = OpenClaims \ {ClaimOf(v)}
<1>1. \A u \in Verifications \ {v} : ClaimOf(u)' = ClaimOf(u)
  BY DEF ClaimOf, Nonce
<1>2. \A u \in Verifications \ {v} : step[u] \in Past => ClaimOf(u) # ClaimOf(v)
  <2> SUFFICES ASSUME NEW u \in Verifications \ {v}, step[u] \in Past, ClaimOf(u) = ClaimOf(v)
               PROVE  FALSE
    OBVIOUS
  <2>1. Nonce(u) = Nonce(v)
    BY DEF ClaimOf
  <2> QED
    BY <2>1 DEF NonceIsInOnePlace
<1> QED
  BY <1>1, <1>2 DEF OpenClaims

(* Nonces that are refused or expire and sessions that end are foreseen. *)
LEMMA EndIsPromised ==
  ASSUME OpenClaims' = OpenClaims, PendingNonces' \subseteq PendingNonces,
         \A t \in Tokens : session'[t].wallet \in {NoWallet, session[t].wallet}
  PROVE  Promise!PromiseNext
<1> DEFINE refused == PendingNonces \ PendingNonces'
           ended == {t \in Tokens : session'[t].wallet = NoWallet}
<1>1. refused \in SUBSET Nonces /\ ended \in SUBSET Tokens
  BY DEF PendingNonces
<1>2. PendingNonces' = PendingNonces \ refused
  OBVIOUS
<1>3. SessionWallets' = [t \in Tokens |-> IF t \in ended THEN NoWallet ELSE SessionWallets[t]]
  BY DEF SessionWallets
<1>4. Promise!End(refused, ended)
  BY <1>2, <1>3 DEF Promise!End
<1> QED
  BY <1>1, <1>4 DEF Promise!PromiseNext

LEMMA OfferIsPromised ==
  ASSUME Inv, NEW n \in Nonces, CreateNonce(n)
  PROVE  Promise!PromiseNext
<1>1. Types
  BY DEF Inv, ServerInv
<1>2. /\ nonceTtl[n] = 0 /\ \A v \in Verifications : Nonce(v) # n
      /\ nonceTtl' = [nonceTtl EXCEPT ![n] = NonceTtl]
      /\ UNCHANGED <<session, step, presented>>
  BY DEF CreateNonce, Nonce
<1>3. n \notin PendingNonces /\ PendingNonces' = PendingNonces \cup {n}
  BY <1>1, <1>2, AuthConstants DEF PendingNonces, Types
<1>4. \A c \in OpenClaims : c.nonce # n
  BY <1>2 DEF OpenClaims, ClaimOf
<1>5. OpenClaims' = OpenClaims /\ SessionWallets' = SessionWallets
  BY <1>2, ClaimsKept DEF SessionWallets
<1>6. Promise!Offer(n)
  BY <1>3, <1>4, <1>5 DEF Promise!Offer
<1> QED
  BY <1>6 DEF Promise!PromiseNext

LEMMA ConsumeIsPromised ==
  ASSUME Inv, NEW v \in Verifications, ConsumeNonce(v)
  PROVE  Promised
<1> DEFINE n == Nonce(v)
           w == presented[v].signer
<1>1. Types /\ n \in Nonces /\ w \in Wallets
  BY NonceOf DEF ConsumeNonce, Advance, Inv, ServerInv, MessagesAreIssued
<1>2. /\ step[v] = "consume"
      /\ step' = [step EXCEPT ![v] = IF nonceTtl[n] > 0 THEN VerifySignature(v) ELSE "refused"]
      /\ nonceTtl' = [nonceTtl EXCEPT ![n] = 0]
      /\ UNCHANGED <<session, presented>>
  BY DEF ConsumeNonce, Advance
<1>3. PendingNonces' = PendingNonces \ {n}
  BY <1>1, <1>2 DEF PendingNonces, Types
<1>4. SessionWallets' = SessionWallets
  BY <1>2 DEF SessionWallets
<1>5. CASE nonceTtl[n] > 0 /\ VerifySignature(v) = "select"
  <2>1. n \in PendingNonces
    BY <1>1, <1>5 DEF PendingNonces
  <2>2. /\ step'[v] = "select"
        /\ \A u \in Verifications \ {v} : step'[u] = step[u]
        /\ \A u \in Verifications : ClaimOf(u)' = ClaimOf(u)
    BY <1>1, <1>2, <1>5 DEF Types, ClaimOf, Nonce
  <2>3. OpenClaims' = OpenClaims \cup {ClaimOf(v)}
    BY <1>2, <2>2 DEF OpenClaims, Past
  <2>4. Promise!Claim(n, w)
    BY <1>3, <1>4, <2>1, <2>3 DEF Promise!Claim, ClaimOf
  <2> QED
    BY <1>1, <2>4 DEF Promise!PromiseNext, Promised
<1>6. CASE step'[v] = "refused"
  <2>1. OpenClaims' = OpenClaims
    BY <1>1, <1>2, <1>6, ClaimsKept DEF Types, Past
  <2> QED
    BY <1>2, <1>3, <2>1, EndIsPromised DEF Promised
<1> QED
  BY <1>1, <1>2, <1>5, <1>6 DEF VerifySignature, Types

LEMMA OpenIsPromised ==
  ASSUME Inv, NEW v \in Verifications, NEW t \in Tokens, CreateSession(v, t)
  PROVE  Promise!PromiseNext
<1>1. Types /\ NonceIsInOnePlace /\ VerifiedIsSigned
  BY DEF Inv, ServerInv
<1>2. /\ step[v] = "session" /\ step' = [step EXCEPT ![v] = "granted"]
      /\ session[t] = NoSession
      /\ session' = [session EXCEPT ![t] =
           [developer |-> row[v].id, wallet |-> row[v].wallet, left |-> SessionTtl]]
      /\ UNCHANGED <<nonceTtl, presented>>
  BY DEF CreateSession, Advance
<1>3. row[v].wallet = presented[v].signer
  BY <1>1, <1>2 DEF VerifiedIsSigned, Past
<1>4. ClaimOf(v) \in OpenClaims /\ OpenClaims' = OpenClaims \ {ClaimOf(v)}
  BY <1>1, <1>2, ClaimGoes DEF Types, Past
<1>5. SessionWallets[t] = NoWallet
  BY <1>2 DEF SessionWallets, NoSession
<1>6. SessionWallets' = [SessionWallets EXCEPT ![t] = ClaimOf(v).wallet]
  BY <1>1, <1>2, <1>3 DEF SessionWallets, ClaimOf, Types
<1>7. PendingNonces' = PendingNonces
  BY <1>2 DEF PendingNonces
<1>8. Promise!Open(ClaimOf(v), t)
  BY <1>4, <1>5, <1>6, <1>7 DEF Promise!Open
<1> QED
  BY <1>4, <1>8 DEF Promise!PromiseNext

LEMMA EndVerificationIsPromised ==
  ASSUME Inv, NEW v \in Verifications, EndVerification(v)
  PROVE  Promised
<1>1. Types /\ NonceIsInOnePlace
  BY DEF Inv, ServerInv
<1>2. /\ step' = [step EXCEPT ![v] = "idle"] /\ presented' = [presented EXCEPT ![v] = Nothing]
      /\ UNCHANGED <<nonceTtl, session>>
  BY DEF EndVerification
<1>3. PendingNonces' = PendingNonces /\ SessionWallets' = SessionWallets
  BY <1>2 DEF PendingNonces, SessionWallets
<1>4. step'[v] \notin Past
      /\ \A u \in Verifications \ {v} : step'[u] = step[u] /\ presented'[u] = presented[u]
  BY <1>1, <1>2 DEF Types, Past
<1>5. CASE step[v] \in Past
  <2>1. ClaimOf(v) \in OpenClaims /\ OpenClaims' = OpenClaims \ {ClaimOf(v)}
    BY <1>1, <1>4, <1>5, ClaimGoes
  <2>2. Promise!GiveUp(ClaimOf(v))
    BY <1>3, <2>1 DEF Promise!GiveUp
  <2> QED
    BY <2>1, <2>2 DEF Promise!PromiseNext, Promised
<1>6. CASE step[v] \notin Past
  BY <1>3, <1>4, <1>6, ClaimsKept DEF Promised
<1> QED
  BY <1>5, <1>6

LEMMA AgeIsPromised ==
  ASSUME Inv, NEW kept, KeysAge(kept)
  PROVE  Promise!PromiseNext
<1>1. Types
  BY DEF Inv, ServerInv
<1>2. UNCHANGED <<step, presented>>
  BY DEF KeysAge
<1>3. \A n \in Nonces : nonceTtl[n] = 0 => nonceTtl'[n] = 0
  BY DEF KeysAge
<1>4. PendingNonces' \subseteq PendingNonces
  BY <1>1, <1>3 DEF PendingNonces, Types
<1>5. \A t \in Tokens : session'[t].wallet \in {NoWallet, session[t].wallet}
  <2> TAKE t \in Tokens
  <2>1. \/ session'[t] = NoSession
        \/ session'[t] = [session[t] EXCEPT !.left = @ - 1]
    BY <1>1, AgedSession
  <2>2. session[t] \in [developer: {0} \cup Ids, wallet: Wallets \cup {NoWallet},
                       left: 0..SessionTtl]
    BY <1>1 DEF Types
  <2> QED
    BY <2>1, <2>2 DEF NoSession
<1> QED
  BY <1>2, <1>4, <1>5, ClaimsKept, EndIsPromised

LEMMA StepIsPromised == Inv /\ [Next]_vars => Promised
<1> SUFFICES ASSUME Inv, [Next]_vars
             PROVE  Promised
  OBVIOUS
<1>1. ASSUME UNCHANGED server
      PROVE  Promised
  BY <1>1, ClaimsKept DEF server, Promised, PendingNonces, SessionWallets
<1>2. ASSUME NEW b \in Browsers, Dialog(b)
      PROVE  Promised
  <2>1. CASE \E n \in Nonces : Challenge(b, n)
    BY <2>1, OfferIsPromised DEF Challenge, Promised
  <2>2. CASE \E v \in Verifications : SendVerify(b, v)
    <3>1. PICK v \in Verifications : Submit(v, holds[b], wallet[b])
      BY <2>2 DEF SendVerify
    <3>2. OpenClaims' = OpenClaims
      BY <3>1, ClaimsKept DEF Submit, Advance, Past, Inv, ServerInv, Types
    <3> QED
      BY <3>1, <3>2 DEF Submit, Promised, PendingNonces, SessionWallets
  <2> QED
    BY <1>1, <1>2, <2>1, <2>2 DEF Dialog, CreateMessage, Abandon
<1>3. ASSUME NEW b \in Browsers, Session(b)
      PROVE  Promised
  <2>1. CASE \E x \in Exits : SendLogout(b, x)
    <3>1. UNCHANGED <<nonceTtl, step, presented>>
          /\ \A t \in Tokens : session'[t] \in {NoSession, session[t]}
      BY <2>1 DEF SendLogout, DeleteSession
    <3> QED
      BY <3>1, ClaimsKept, EndIsPromised DEF Promised, PendingNonces, NoSession
  <2> QED
    BY <1>1, <1>3, <2>1
    DEF Session, Refetch, MeReceived, MeFailed, SignOut, AdapterSignOut, WalletGuard,
        LogoutReceived, LogoutFailed, Exits
<1>4. ASSUME NEW v \in Verifications, VerifyStep(v)
      PROVE  Promised
  <2>1. CASE SelectDeveloper(v) \/ InsertDeveloper(v)
    <3>1. OpenClaims' = OpenClaims
      BY <2>1, ClaimsKept
      DEF SelectDeveloper, InsertDeveloper, Advance, Past, Inv, ServerInv, Types
    <3> QED
      BY <2>1, <3>1
      DEF SelectDeveloper, InsertDeveloper, Promised, PendingNonces, SessionWallets
  <2> QED
    BY <1>4, <2>1, ConsumeIsPromised, OpenIsPromised DEF VerifyStep, Verify, Promised
<1>5. ASSUME NEW v \in Verifications, Verified(v) \/ Refused(v) \/ VerifyLost(v)
      PROVE  Promised
  BY <1>5, EndVerificationIsPromised DEF Verified, Refused, VerifyLost
<1>6. CASE Tick
  BY <1>6, AgeIsPromised DEF Tick, Promised
<1> QED
  BY <1>1, <1>2, <1>3, <1>4, <1>5, <1>6 DEF Next, Connect, SwitchWallet, vars

LEMMA PromiseStart == Init => Promise!PromiseInit
<1> SUFFICES ASSUME Init
             PROVE  Promise!PromiseInit
  OBVIOUS
<1>1. PendingNonces = {} /\ OpenClaims = {}
  BY DEF Init, AuthInit, PendingNonces, OpenClaims, Past
<1>2. SessionWallets = [t \in Tokens |-> NoWallet]
  BY DEF Init, AuthInit, SessionWallets, NoSession
<1> QED
  BY <1>1, <1>2 DEF Promise!PromiseInit

(* Sign-in keeps the promise of SignInPromise.tla: a nonce is claimed at    *)
(* most once, and each session uses up a claim of the wallet it speaks for  *)
(* (nonce.ts:7, auth-service.ts:143).                                       *)
THEOREM KeepsPromise == Spec => ImplementsPromise
<1>1. Inv /\ [Next]_vars => [Promise!PromiseNext]_Promise!promiseVars
  BY StepIsPromised DEF Promised, Promise!promiseVars
<1> QED
  BY <1>1, PromiseStart, Invariance, PTL DEF Spec, ImplementsPromise, Promise!PromiseSpec
=============================================================================
