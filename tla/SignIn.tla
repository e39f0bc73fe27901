------------------------------- MODULE SignIn -------------------------------
(***************************************************************************)
(* Signing in from a browser: the dashboard's client state (lib/auth/       *)
(* use-auth.ts, the RainbowKit adapter, the buttons) composed with the      *)
(* server of Authentication.                                                *)
(*                                                                          *)
(* RainbowKit, the wallet, the network and the user are external: they may  *)
(* connect, switch, sign, give up and repeat a request whenever they can.   *)
(***************************************************************************)
EXTENDS Authentication

CONSTANT Browsers

VARIABLES
  wallet,        \* the connected wallet
  flow,          \* step of the sign-in dialog
  asked,         \* the wallet the challenge was asked for
  holds,         \* the message the dialog holds
  cookie,        \* metron_session
  data,          \* the cached answer of GET /api/me
  me,            \* the answer of the last request that is on its way, Lost, or NoFetch
  out,           \* POST /api/auth/logout under way, by what follows it
  handled,       \* handledMismatch of the wallet guard
  client         \* the browser a verification belongs to

dialog == <<flow, asked, holds>>
cache == <<data, me>>
browser == <<wallet, dialog, cookie, cache, out, handled, client>>
vars == <<server, browser>>

(* After a logout: "stay" for the guard and RainbowKit, "leave" for Sign out. *)
Exits == {"stay", "leave"}
NoFetch == "none"
Lost == "lost"
Pending == "pending"

NoPair == <<NoWallet, NoWallet>>

(* A wallet's address is none of these. *)
ASSUME SignInConstants == {NoFetch, Lost, Pending} \cap (Wallets \cup {NoWallet}) = {}

BrowserTypeOK ==
  /\ wallet \in [Browsers -> Wallets \cup {NoWallet}]
  /\ flow \in [Browsers -> {"idle", "nonce", "message"}]
  /\ asked \in [Browsers -> Wallets \cup {NoWallet}]
  /\ holds \in [Browsers -> Message]
  /\ cookie \in [Browsers -> Tokens \cup {NoToken}]
  /\ data \in [Browsers -> Wallets \cup {NoWallet, Pending}]
  /\ me \in [Browsers -> Wallets \cup {NoWallet, NoFetch, Lost}]
  /\ out \in [Browsers -> SUBSET Exits]
  /\ handled \in [Browsers -> (Wallets \cup {NoWallet}) \X (Wallets \cup {NoWallet})]
  /\ client \in [Verifications -> Browsers]

TypeOK == AuthTypeOK /\ BrowserTypeOK

Init ==
  /\ AuthInit
  /\ wallet = [b \in Browsers |-> NoWallet]
  /\ flow = [b \in Browsers |-> "idle"]
  /\ asked = [b \in Browsers |-> NoWallet]
  /\ holds = [b \in Browsers |-> NoMessage]
  /\ cookie = [b \in Browsers |-> NoToken]
  /\ data = [b \in Browsers |-> Pending]
  /\ me = [b \in Browsers |-> NoFetch]
  /\ out = [b \in Browsers |-> {}]
  /\ handled = [b \in Browsers |-> NoPair]
  /\ client \in [Verifications -> Browsers]

-----------------------------------------------------------------------------
(* What the components show. *)

(* resolveAuthStatus: while the server has not answered, loading wins. *)
Status(b) ==
  IF data[b] = Pending THEN "loading"
  ELSE IF data[b] = NoWallet THEN "unauthenticated" ELSE "authenticated"

(* MetronConnectButton.  The wallet's network is not part of the state: the *)
(* user may change it at any time, so it is any network whenever it is read. *)
ConnectPill(b, onCelo) ==
  IF wallet[b] = NoWallet THEN "connect"
  ELSE IF ~onCelo THEN "switch"
  ELSE CASE Status(b) = "loading"         -> "checking"
         [] Status(b) = "authenticated"   -> "menu"
         [] Status(b) = "unauthenticated" -> "connect"

(* MetronAccountBadge of the sidebar, and AuthCta of the marketing pages. *)
Badge(b, onCelo) ==
  CASE Status(b) = "loading"         -> "skeleton"
    [] Status(b) = "authenticated"   -> "address"
    [] Status(b) = "unauthenticated" -> ConnectPill(b, onCelo)
AuthCta(b) ==
  CASE Status(b) = "loading"         -> "checking"
    [] Status(b) = "authenticated"   -> "dashboard"
    [] Status(b) = "unauthenticated" -> "connect"

-----------------------------------------------------------------------------
(* The wallet. *)

(* The connect dialog, opened from any of the three. *)
Connect(b, w) ==
  /\ wallet[b] = NoWallet
  /\ \E onCelo \in BOOLEAN :
       "connect" \in {ConnectPill(b, onCelo), Badge(b, onCelo), AuthCta(b)}
  /\ wallet' = [wallet EXCEPT ![b] = w]
  /\ UNCHANGED <<server, dialog, cookie, cache, out, handled, client>>

(* The user picks another account in the wallet, or disconnects it there,   *)
(* in the wallet menu or in the settings.                                   *)
SwitchWallet(b, w) ==
  /\ wallet[b] \notin {NoWallet, w}
  /\ wallet' = [wallet EXCEPT ![b] = w]
  /\ UNCHANGED <<server, dialog, cookie, cache, out, handled, client>>

-----------------------------------------------------------------------------
(* The sign-in dialog of RainbowKit over Metron's adapter. *)

ToFlow(b, from, to) ==
  /\ flow[b] = from
  /\ flow' = [flow EXCEPT ![b] = to]

(* createMessage: POST /api/auth/challenge.  The limiter (RateLimiter) may   *)
(* reject it, and challenge throws WRONG_NETWORK off Celo: the dialog then  *)
(* stays where it is.                                                       *)
CreateMessage(b, allowed, onCelo) ==
  /\ wallet[b] # NoWallet
  /\ Status(b) = "unauthenticated"
  /\ allowed /\ onCelo
  /\ ToFlow(b, "idle", "nonce")
  /\ asked' = [asked EXCEPT ![b] = wallet[b]]
  /\ UNCHANGED <<server, wallet, holds, cookie, cache, out, handled, client>>

Challenge(b, n) ==
  /\ ToFlow(b, "nonce", "message")
  /\ CreateNonce(n) /\ \A c \in Browsers : holds[c].nonce # n
  /\ asked' = [asked EXCEPT ![b] = NoWallet]
  /\ holds' = [holds EXCEPT ![b] = [nonce |-> n, wallet |-> asked[b]]]
  /\ UNCHANGED <<wallet, cookie, cache, out, handled, client>>

CloseDialog(b) ==
  /\ flow' = [flow EXCEPT ![b] = "idle"]
  /\ asked' = [asked EXCEPT ![b] = NoWallet]
  /\ holds' = [holds EXCEPT ![b] = NoMessage]

(* The user gives up, or the challenge failed on its way. *)
Abandon(b) ==
  /\ flow[b] \in {"nonce", "message"}
  /\ CloseDialog(b)
  /\ UNCHANGED <<server, wallet, cookie, cache, out, handled, client>>

(* The wallet signs with the account it is on by then, and verify of the    *)
(* adapter sends the message; the network may repeat the request.           *)
SendVerify(b, v) ==
  /\ flow[b] = "message" /\ wallet[b] # NoWallet
  /\ Submit(v, holds[b], wallet[b])
  /\ client' = [client EXCEPT ![v] = b]
  /\ UNCHANGED <<wallet, dialog, cookie, cache, out, handled>>

(* invalidateQueries: a request under way is given up for a new one, which  *)
(* the server answers for the cookie it carries; the answer travels.        *)
Invalidate(b, token) == me' = [me EXCEPT ![b] = Me(token)]

(* Fault: the cached answer is left to grow stale. *)
VerifiedUnnoticed(v) ==
  LET b == client[v] IN
  /\ step[v] = "granted"
  /\ cookie' = [cookie EXCEPT ![b] = granted[v]]
  /\ EndVerification(v)
  /\ CloseDialog(b)
  /\ UNCHANGED <<wallet, cache, out, handled, client>>

(* The response sets the cookie; then the session state is read again. *)
Verified(v) ==
  LET b == client[v] IN
  /\ step[v] = "granted"
  /\ cookie' = [cookie EXCEPT ![b] = granted[v]]
  /\ Invalidate(b, granted[v])
  /\ EndVerification(v)
  /\ CloseDialog(b)
  /\ UNCHANGED <<wallet, data, out, handled, client>>

Refused(v) ==
  /\ step[v] = "refused"
  /\ EndVerification(v)
  /\ CloseDialog(client[v])
  /\ UNCHANGED <<wallet, cookie, cache, out, handled, client>>

(* The handler throws or dies (500, or no answer at all). *)
VerifyLost(v) ==
  /\ step[v] # "idle"
  /\ EndVerification(v)
  /\ UNCHANGED <<browser>>

(* A session's token is random: no cookie holds it already. *)
VerifyStep(v) ==
  /\ Verify(v)
  /\ \A b \in Browsers : granted'[v] = granted[v] \/ granted'[v] # cookie[b]
  /\ UNCHANGED <<browser>>

-----------------------------------------------------------------------------
(* GET /api/me: the one source of the auth state. *)

(* The page loads, or regains focus with a stale answer. *)
Refetch(b) ==
  /\ Invalidate(b, cookie[b])
  /\ UNCHANGED <<server, wallet, dialog, cookie, data, out, handled, client>>

MeReceived(b) ==
  /\ me[b] \notin {NoFetch, Lost}
  /\ me' = [me EXCEPT ![b] = NoFetch]
  /\ data' = [data EXCEPT ![b] = me[b]]
  /\ UNCHANGED <<server, wallet, dialog, cookie, out, handled, client>>

(* No retry: a failed request leaves the earlier answer in place, and       *)
(* without one the browser is unauthenticated, until the next Refetch.      *)
MeFailed(b) ==
  /\ me[b] \notin {NoFetch, Lost}
  /\ me' = [me EXCEPT ![b] = Lost]
  /\ data' = [data EXCEPT ![b] = IF @ = Pending THEN NoWallet ELSE @]
  /\ UNCHANGED <<server, wallet, dialog, cookie, out, handled, client>>

-----------------------------------------------------------------------------
(* Logging out. *)

(* The server deletes the session of the cookie it is sent, unless the      *)
(* request is lost; the response travels.                                   *)
SendLogout(b, x) ==
  /\ x \notin out[b]
  /\ out' = [out EXCEPT ![b] = @ \cup {x}]
  /\ DeleteSession(cookie[b]) \/ UNCHANGED session
  /\ UNCHANGED <<nonceTtl, developers, step, presented, row,
                 granted, opened, wallet, dialog, cookie, cache, client>>

(* Sign out of the settings, shown to an authenticated creator. *)
SignOut(b) ==
  /\ Status(b) = "authenticated"
  /\ SendLogout(b, "leave")
  /\ UNCHANGED handled

(* RainbowKit calls signOut of the adapter when the wallet goes or changes. *)
AdapterSignOut(b) ==
  /\ data[b] \in Wallets /\ wallet[b] # data[b]
  /\ SendLogout(b, "stay")
  /\ UNCHANGED handled

(* walletMismatchKey, once for each pair of wallets in a row. *)
MismatchKey(b) ==
  IF /\ Status(b) = "authenticated"
     /\ wallet[b] \notin {NoWallet, data[b]}
  THEN <<wallet[b], data[b]>> ELSE NoPair

(* useWalletAuthGuard *)
WalletGuard(b) ==
  /\ MismatchKey(b) \notin {NoPair, handled[b]}
  /\ handled' = [handled EXCEPT ![b] = MismatchKey(b)]
  /\ \/ SendLogout(b, "stay")
     \/ /\ "stay" \in out[b]
        /\ UNCHANGED <<server, wallet, dialog, cookie, cache, out, client>>

Leave(b, x) == wallet' = [wallet EXCEPT ![b] = IF x = "leave" THEN NoWallet ELSE @]

(* The response clears the cookie, whichever it is now. *)
LogoutReceived(b, x) ==
  /\ x \in out[b]
  /\ cookie' = [cookie EXCEPT ![b] = NoToken]
  /\ Invalidate(b, NoToken)
  /\ out' = [out EXCEPT ![b] = @ \ {x}]
  /\ Leave(b, x)
  /\ UNCHANGED <<server, dialog, data, handled, client>>

(* Sign out goes on to disconnect and to the landing page all the same. *)
LogoutFailed(b, x) ==
  /\ x \in out[b]
  /\ out' = [out EXCEPT ![b] = @ \ {x}]
  /\ Leave(b, x)
  /\ UNCHANGED <<server, dialog, cookie, cache, handled, client>>

-----------------------------------------------------------------------------
(* Time passes for every key in Redis; a cookie lives as long as the        *)
(* session it was set for.                                                  *)
Tick ==
  /\ KeysAge({holds[b].nonce : b \in Browsers})
  /\ cookie' = [b \in Browsers |->
       IF cookie[b] # NoToken /\ session'[cookie[b]] = NoSession THEN NoToken ELSE cookie[b]]
  /\ UNCHANGED <<wallet, dialog, cache, out, handled, client>>

Dialog(b) ==
  \/ \E allowed, onCelo \in BOOLEAN : CreateMessage(b, allowed, onCelo)
  \/ \E n \in Nonces : Challenge(b, n)
  \/ Abandon(b)
  \/ \E v \in Verifications : SendVerify(b, v)

Session(b) ==
  \/ Refetch(b) \/ MeReceived(b) \/ MeFailed(b)
  \/ SignOut(b) \/ AdapterSignOut(b) \/ WalletGuard(b)
  \/ \E x \in Exits : LogoutReceived(b, x) \/ LogoutFailed(b, x)

Next ==
  \/ \E b \in Browsers :
       \/ Dialog(b) \/ Session(b)
       \/ \E w \in Wallets : Connect(b, w)
       \/ \E w \in Wallets \cup {NoWallet} : SwitchWallet(b, w)
  \/ \E v \in Verifications : VerifyStep(v) \/ Verified(v) \/ Refused(v) \/ VerifyLost(v)
  \/ Tick

Spec == Init /\ [][Next]_vars

-----------------------------------------------------------------------------
(* Properties *)

(* A sign-in shows: the dashboard never rests on an older answer while the  *)
(* browser's cookie opens a session, whichever sign-ins, sign-outs and      *)
(* refreshes overlapped, unless the last request to read it was lost        *)
(* (rainbowkit-adapter.ts:70).                                              *)
SignInShows ==
  \A b \in Browsers :
    me[b] = NoFetch /\ Me(cookie[b]) # NoWallet => data[b] = Me(cookie[b])

(* SignIn implements SignInPromise: GETDEL turns a nonce into a claim of    *)
(* the wallet that signed, and creating a session uses the claim up         *)
(* (nonce.ts:7, auth-service.ts:147).                                       *)
Past == {"select", "insert", "session"}
ClaimOf(v) == [nonce |-> Nonce(v), wallet |-> presented[v].signer]

PendingNonces == {n \in Nonces : nonceTtl[n] > 0}
OpenClaims == {ClaimOf(v) : v \in {u \in Verifications : step[u] \in Past}}
SessionWallets == [t \in Tokens |-> session[t].wallet]

Promise == INSTANCE SignInPromise WITH
  pending <- PendingNonces, claims <- OpenClaims, sessions <- SessionWallets

ImplementsPromise == Promise!PromiseSpec
=============================================================================
