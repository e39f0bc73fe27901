------------------------------ MODULE Upstream ------------------------------
(***************************************************************************)
(* One call of a creator's upstream through the hardened gateway:           *)
(* executeUpstream over pinnedUpstreamTransport.  The name of the host is   *)
(* looked up when the URL is validated and again before the call is made;   *)
(* the connection is opened later still, and DNS may answer differently     *)
(* each time it is asked.                                                   *)
(***************************************************************************)
EXTENDS Integers

CONSTANT Production   \* NODE_ENV = "production": plain http is refused

ASSUME UpstreamConstants == Production \in BOOLEAN

VARIABLES
  call,       \* step of the call
  pinned,     \* the address the lookup before the call settled on
  peer,       \* the address the transport connected to
  timedOut,   \* the timer fired
  heard,      \* the answer that came whole before anything else settled
  execution   \* UpstreamExecutionResult, or "thrown"

upstream == <<call, pinned, peer, timedOut, heard, execution>>

(* What a lookup may come to, and the addresses it returns.                 *)
Dns == {"public", "mixed", "blocked", "empty", "fails"}
AddressesOf(dns) ==
  CASE dns = "public"  -> {"public"}
    [] dns = "mixed"   -> {"public", "blocked"}
    [] dns = "blocked" -> {"blocked"}
    [] OTHER           -> {}

(* A URL: of plain http, forbidden by its literal address or reserved name, *)
(* or refused before any lookup (empty, malformed, another scheme,          *)
(* credentials).                                                            *)
Urls == {"fine", "http", "forbidden", "malformed"}

(* A complete answer: a 2xx that is decoded or is not, or another status.   *)
Answers == {"2xx", "garbled", "other"}

Failures ==
  {"UPSTREAM_UNREACHABLE", "UPSTREAM_UNSAFE_DESTINATION", "UPSTREAM_TIMEOUT",
   "UPSTREAM_RESPONSE_TOO_LARGE", "UPSTREAM_INVALID_RESPONSE"}

Addresses == {"none", "public", "blocked"}

UpstreamTypeOK ==
  /\ call \in {"idle", "resolved", "connecting", "receiving", "over"}
  /\ pinned \in Addresses /\ peer \in Addresses
  /\ timedOut \in BOOLEAN
  /\ heard \in Answers \cup {"nothing"}
  /\ execution \in Answers \cup Failures \cup {"none", "rejected", "thrown"}

UpstreamInit ==
  /\ call = "idle"
  /\ pinned = "none" /\ peer = "none"
  /\ timedOut = FALSE
  /\ heard = "nothing"
  /\ execution = "none"

(* validateUpstreamUrl with resolveDns: what speaks against a URL.  A host  *)
(* without addresses passes.                                                *)
UrlIssue(url, dns) ==
  IF url = "malformed" \/ (url = "http" /\ Production) THEN "config"
  ELSE IF url = "forbidden" \/ dns = "fails" \/ "blocked" \in AddressesOf(dns) THEN "unsafe"
  ELSE "none"

(* A path after the slug: plain, or with a dot segment, an empty segment or *)
(* a backslash in it, encoded or not.  composeUpstreamUrl rejects the        *)
(* latter, and appends the others to the path of the route's URL.            *)
Paths == {"plain", "traversal"}
ComposeUpstreamUrl(url, path) == url # "malformed" /\ path = "plain"

-----------------------------------------------------------------------------
(* Fault: the last to settle decides.                                       *)
SettleAnew(result) == execution' = result

(* settle: the first to settle decides, and what comes later is dropped.    *)
Settle(result) == execution' = IF execution = "none" THEN result ELSE execution

Over(result) == call' = "over" /\ Settle(result)

(* executeUpstream up to the lookup: the URL is composed, plain http is     *)
(* refused in every environment, and the addresses are resolved anew.  All  *)
(* of them must be public; the first is pinned.  Forbidden literals and     *)
(* names are told by what they resolve to.                                  *)
Resolve(url, path, dns) ==
  /\ call = "idle"
  /\ LET addresses == AddressesOf(dns) IN
       IF ~ComposeUpstreamUrl(url, path) \/ url = "http"
       THEN Over("rejected") /\ UNCHANGED pinned
       ELSE CASE addresses = {} -> Over("UPSTREAM_UNREACHABLE") /\ UNCHANGED pinned
              [] "blocked" \in addresses ->
                   Over("UPSTREAM_UNSAFE_DESTINATION") /\ UNCHANGED pinned
              [] OTHER ->
                   call' = "resolved" /\ pinned' \in addresses /\ UNCHANGED execution
  /\ UNCHANGED <<peer, timedOut, heard>>

(* The credential is not decrypted, or the request cannot be built.         *)
ExecutionThrows ==
  /\ call = "resolved"
  /\ Over("thrown")
  /\ UNCHANGED <<pinned, peer, timedOut, heard>>

(* Fault: the transport connects by name, to whatever a lookup returns now. *)
DialByName ==
  /\ call = "resolved"
  /\ call' = "connecting"
  /\ \E dns \in Dns : peer' \in AddressesOf(dns)
  /\ UNCHANGED <<pinned, timedOut, heard, execution>>

(* The transport connects to the pinned address; the name is only shown to  *)
(* the server (servername, host).  The timer is set.                        *)
Dial ==
  /\ call = "resolved"
  /\ call' = "connecting"
  /\ peer' = pinned
  /\ UNCHANGED <<pinned, timedOut, heard, execution>>

Connected == call \in {"connecting", "receiving"}

ResponseStarts ==
  /\ call = "connecting"
  /\ call' = "receiving"
  /\ UNCHANGED <<pinned, peer, timedOut, heard, execution>>

(* "end": the whole answer is there; executeUpstream reads its status and  *)
(* decodes its body.                                                        *)
ResponseEnds(a) ==
  /\ call = "receiving"
  /\ heard' = IF execution = "none" THEN a ELSE heard
  /\ Over(a)
  /\ UNCHANGED <<pinned, peer, timedOut>>

ResponseTooLarge ==
  /\ call = "receiving" /\ execution = "none"
  /\ Over("UPSTREAM_RESPONSE_TOO_LARGE")
  /\ UNCHANGED <<pinned, peer, timedOut, heard>>

ResponseBreaks ==
  /\ call = "receiving"
  /\ Over("UPSTREAM_INVALID_RESPONSE")
  /\ UNCHANGED <<pinned, peer, timedOut, heard>>

RequestFails ==
  /\ Connected
  /\ Over(IF timedOut THEN "UPSTREAM_TIMEOUT" ELSE "UPSTREAM_UNREACHABLE")
  /\ UNCHANGED <<pinned, peer, timedOut, heard>>

(* The timer, which every other way to settle clears.  It destroys the      *)
(* request, but an end or an error already on its way is still delivered.   *)
TimerFires ==
  /\ Connected /\ ~timedOut
  /\ timedOut' = TRUE
  /\ Settle("UPSTREAM_TIMEOUT")
  /\ UNCHANGED <<call, pinned, peer, heard>>

Transport ==
  \/ ExecutionThrows \/ Dial
  \/ ResponseStarts \/ ResponseTooLarge \/ ResponseBreaks \/ RequestFails \/ TimerFires
  \/ \E a \in Answers : ResponseEnds(a)

Hangup ==
  /\ call' = "idle"
  /\ pinned' = "none" /\ peer' = "none"
  /\ timedOut' = FALSE
  /\ heard' = "nothing"
  /\ execution' = "none"

(* A name may resolve to another address each time it is looked up: at the *)
(* validation, before the call and when the connection is made.  Whatever  *)
(* it does in between, no connection goes to a blocked address, and what is *)
(* heard was said by a public one (validate.ts:162, "a post-resolution DNS  *)
(* rebinding cannot redirect the connection to a private destination").     *)
PublicDestination ==
  /\ peer # "blocked"
  /\ Connected \/ timedOut \/ heard # "nothing" => peer = "public"
=============================================================================
