---------------------------- MODULE TestConsole ----------------------------
(***************************************************************************)
(* The test console: the panel that sends one request to a creator's         *)
(* upstream, and POST /api/endpoints/test behind it, which asks the rate     *)
(* limiter, reads the stored route (or takes the draft of the publish form), *)
(* validates the URL, calls the upstream and classifies what came of it.    *)
(* The same limiter counts the tests of other clients.                       *)
(***************************************************************************)
EXTENDS RateLimiter, Upstream

CONSTANT Console      \* the console's request, as a caller of the limiter

ASSUME ConsoleConstants == Console \in Callers

VARIABLES
  mode,     \* "existing" on the page of an endpoint, "draft" in the form
  test,     \* step of the test
  target,   \* the URL it is about
  result,   \* what the server answers
  shown     \* what the panel shows

panel == <<mode, test, target, result, shown>>
console == <<limiter, upstream, panel>>

TestKinds ==
  {"success", "non_2xx", "upstream_failed", "ssrf_blocked", "invalid_config", "timeout"}
TestErrors ==
  {"UNAUTHENTICATED", "INVALID_BODY", "REQUEST_TOO_LARGE", "ENDPOINT_NOT_FOUND",
   "RATE_LIMITED", "INTERNAL_ERROR"}
Nothing == "none"
TestResults == TestKinds \cup TestErrors \cup {Nothing}

ConsoleTypeOK ==
  /\ LimiterTypeOK /\ UpstreamTypeOK
  /\ mode \in {"existing", "draft"}
  /\ test \in {"idle", "sent", "asking", "admitted", "read", "checked", "running", "answered"}
  /\ target \in Urls
  /\ result \in TestResults /\ shown \in TestResults

ConsoleInit ==
  /\ LimiterInit /\ UpstreamInit
  /\ mode \in {"existing", "draft"}
  /\ test = "idle"
  /\ target = "fine"
  /\ result = Nothing /\ shown = Nothing

-----------------------------------------------------------------------------
(* submit: the fields passed the panel's own checks, or nothing is sent;    *)
(* the button is off while a test runs.                                     *)
SubmitTest ==
  /\ test = "idle"
  /\ test' = "sent"
  /\ UNCHANGED <<limiter, upstream, mode, target, result, shown>>

AnswerTest(o) == test' = "answered" /\ result' = o

(* Before the limiter: the session, the length of the body as it is sent    *)
(* (its JSON is longer than the text the panel measured), and the schema,    *)
(* which wants a secret that the form may have left blank.                  *)
RefuseTest ==
  /\ test = "sent"
  /\ AnswerTest("UNAUTHENTICATED") \/ AnswerTest("REQUEST_TOO_LARGE")
     \/ (mode = "draft" /\ AnswerTest("INVALID_BODY"))
  /\ UNCHANGED <<limiter, upstream, mode, target, shown>>

AskForTest(header) ==
  /\ test = "sent"
  /\ test' = "asking"
  /\ AskLimiter(Console, header)
  /\ UNCHANGED <<upstream, mode, target, result, shown>>

HearVerdict ==
  /\ test = "asking"
  /\ TakeVerdict(Console)
  /\ IF verdict[Console].allowed THEN test' = "admitted" /\ UNCHANGED result
                                 ELSE AnswerTest("RATE_LIMITED")
  /\ UNCHANGED <<upstream, mode, target, shown>>

(* The URL and the credential of the test.  Those of an endpoint are read   *)
(* in one query: it may be another developer's by now, the query may fail,  *)
(* or the envelope may not open.  A stored URL passed validation once.      *)
LoadTarget(readable) ==
  /\ test = "admitted"
  /\ IF mode = "draft"
       THEN test' = "read" /\ target' \in Urls /\ UNCHANGED result
       ELSE \/ /\ AnswerTest("ENDPOINT_NOT_FOUND") \/ AnswerTest("INTERNAL_ERROR")
               /\ UNCHANGED target
            \/ /\ readable
               /\ test' = "read"
               /\ target' \in IF Production THEN {"fine"} ELSE {"fine", "http"}
               /\ UNCHANGED result
  /\ UNCHANGED <<limiter, upstream, mode, shown>>

(* runUpstreamTest before the execution: the URL, then the credential,      *)
(* which only a draft can get wrong, and its encryption.                     *)
CheckTest(dns, credentialOk) ==
  /\ test = "read"
  /\ credentialOk \/ mode = "draft"
  /\ LET issue == UrlIssue(target, dns) IN
       CASE issue = "config" -> AnswerTest("invalid_config")
         [] issue = "unsafe" -> AnswerTest("ssrf_blocked")
         [] issue = "none" /\ ~credentialOk -> AnswerTest("invalid_config")
         [] OTHER -> test' = "checked" /\ UNCHANGED result
  /\ UNCHANGED <<limiter, upstream, mode, target, shown>>

ExecuteTest(path, dns) ==
  /\ test = "checked"
  /\ test' = "running"
  /\ Resolve(target, path, dns)
  /\ UNCHANGED <<limiter, mode, target, result, shown>>

UpstreamAnswers == Transport /\ UNCHANGED <<limiter, panel>>

(* Fault: a failure that carries a status is taken for the upstream's.      *)
ClassifyByStatus ==
  CASE execution = "2xx" -> "success"
    [] execution = "UPSTREAM_TIMEOUT" -> "timeout"
    [] execution \in {"other", "garbled"} -> "non_2xx"
    [] execution = "rejected" -> "invalid_config"
    [] OTHER -> "upstream_failed"

(* What runUpstreamTest makes of the execution's result, or of its throwing. *)
Classify ==
  CASE execution = "2xx" -> "success"
    [] execution = "UPSTREAM_TIMEOUT" -> "timeout"
    [] execution = "other" -> "non_2xx"
    [] execution = "rejected" -> "invalid_config"
    [] OTHER -> "upstream_failed"

ConcludeTest ==
  /\ test = "running" /\ execution # "none"
  /\ AnswerTest(Classify)
  /\ UNCHANGED <<limiter, upstream, mode, target, shown>>

EndTest ==
  /\ test = "answered"
  /\ test' = "idle" /\ target' = "fine" /\ result' = Nothing
  /\ Hangup
  /\ UNCHANGED <<limiter, mode>>

(* onSuccess and onError: the panel shows a result or a code, never both; an *)
(* answer that is lost is INTERNAL_ERROR.                                   *)
ShowTest == EndTest /\ shown' \in {result, "INTERNAL_ERROR"}

(* The answer finds no panel any more. *)
ForgetTest == EndTest /\ UNCHANGED shown

(* The tests of other clients, as far as they concern the limiter.          *)
OthersTest ==
  /\ \E c \in Callers \ {Console} :
       LimiterStep(c) \/ TakeVerdict(c) \/ \E h \in Headers : AskLimiter(c, h)
  /\ UNCHANGED <<upstream, panel>>

LimiterWorks == (LimiterStep(Console) \/ WindowsAge) /\ UNCHANGED <<upstream, panel>>

TestServer ==
  \/ RefuseTest \/ HearVerdict \/ ConcludeTest \/ UpstreamAnswers
  \/ \E h \in Headers : AskForTest(h)
  \/ \E dns \in Dns, credentialOk \in BOOLEAN : CheckTest(dns, credentialOk)
  \/ \E dns \in Dns, path \in Paths : ExecuteTest(path, dns)

(* The classification is true: a success is a whole 2xx answer that could   *)
(* be decoded and came before the timer fired; "non_2xx" is what the         *)
(* upstream itself answered and nothing else (core.ts:297); a timeout is     *)
(* reported exactly if the timer was first; and a test that was refused,     *)
(* limited, blocked or invalid never reached the upstream.                  *)
ResultIsTruthful ==
  test = "answered" =>
    /\ (result = "success") <=> (heard = "2xx")
    /\ (result = "non_2xx") <=> (heard = "other")
    /\ (result = "timeout") <=> timedOut
    /\ result \in TestErrors \cup {"ssrf_blocked", "invalid_config"} => peer = "none"
=============================================================================
