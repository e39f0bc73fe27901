---------------------------- MODULE ImportFlow -----------------------------
(***************************************************************************)
(* The OpenAPI import of the dashboard (components/dashboard/openapi), in   *)
(* one browser tab of one creator: paste or load a document, review its     *)
(* operations, configure them, publish them, and retry those that failed.  *)
(* The server is Endpoints and OpenApi; the network may lose any answer.    *)
(***************************************************************************)
EXTENDS Endpoints, OpenApi

CONSTANTS
  Texts,       \* what the box may hold, besides nothing
  Content,     \* the document each text is
  Importer,    \* the creator
  NoText, NoRequest

ASSUME ImportConstants ==
  /\ Content \in [Texts -> Document]
  /\ Importer \in Creators /\ Ops \subseteq Keys
  /\ NoText \notin Texts /\ NoRequest \notin Requests

VARIABLES
  stage,       \* step of the flow
  text,        \* specText
  reading,     \* contents of the chosen files that are still being read
  parse,       \* the mutation of ImportInput, and the text it parses
  found,       \* operations, with their status
  source,      \* history: the text they were found in
  selected,    \* selectedKeys
  overridden,  \* does baseUrlOverride hold a public https URL?
  rows,        \* rows of ImportConfigure
  payload,     \* credential of each operation to publish
  shown,       \* results of ImportPublishResults, or Nothing
  sending,     \* the pending mutation
  mine,        \* the request it waits for
  doubt,       \* history: operations whose creation the page did not learn of
  before       \* history: slugs taken when the payload was made

input == <<text, reading, parse>>
review == <<found, source, selected, overridden>>
publish == <<payload, shown, sending, mine, doubt, before>>
import == <<stage, input, review, rows, publish>>

(* A row as proceed sees it: a price or a secret is missing, or it goes     *)
(* with its credential.  Every row starts without a price.                  *)
Row == Credential \cup {"incomplete"}
Rows == UNION {[K -> Row] : K \in SUBSET Ops}

Parses == [step: {"idle", "failed", "empty", "pending"}, text: Texts \cup {NoText}]
Settling(how) == [step |-> how, text |-> NoText]

ImportTypeOK ==
  /\ stage \in {"input", "review", "configure", "results"}
  /\ text \in Texts \cup {NoText}
  /\ reading \subseteq Texts
  /\ parse \in Parses
  /\ found \in UNION {[K -> {"ready", "unset", "blocked"}] : K \in SUBSET Ops}
  /\ source \in Texts \cup {NoText}
  /\ selected \subseteq DOMAIN found
  /\ overridden \in BOOLEAN
  /\ rows \in Rows
  /\ payload \in Batch
  /\ shown \in Results
  /\ sending \in {"none", "publish", "retry"}
  /\ mine \in Requests \cup {NoRequest}
  /\ doubt \subseteq Ops
  /\ before \subseteq Slugs

ImportInit ==
  /\ stage = "input"
  /\ text = NoText /\ reading = {} /\ parse = Settling("idle")
  /\ found = Nothing /\ source = NoText
  /\ selected = {} /\ overridden = FALSE
  /\ rows = Nothing
  /\ payload = Nothing /\ shown = Nothing
  /\ sending = "none" /\ mine = NoRequest
  /\ doubt = {} /\ before = {}

Parsing == parse.step = "pending"

-----------------------------------------------------------------------------
(* ImportInput *)

(* The form: not while a parse is pending, nor on "No operations found". *)
InputShown == stage = "input" /\ parse.step # "empty"
InputEnabled == InputShown /\ ~Parsing

UpdateSpec(t) ==
  /\ InputEnabled
  /\ text' = t
  /\ parse' = Settling("idle")
  /\ UNCHANGED <<endpoints, stage, reading, review, rows, publish>>

(* A file of a known extension and of at most MAX_SPEC_BYTES, whether or   *)
(* not earlier ones are still being read.                                   *)
PickFile(t) ==
  /\ InputEnabled
  /\ reading' = reading \cup {t}
  /\ UNCHANGED <<endpoints, stage, text, parse, review, rows, publish>>

(* Fault: the mutation is not reset. *)
FileReadOverParse(t) ==
  /\ t \in reading
  /\ text' \in {t, text}
  /\ reading' = reading \ {t}
  /\ UNCHANGED <<endpoints, stage, parse, review, rows, publish>>

(* file.text() resolves, whatever the page does by then and in whatever     *)
(* order the reads end, or fails.                                           *)
FileRead(t) ==
  /\ t \in reading
  /\ \/ text' = t /\ parse' = Settling("idle")
     \/ UNCHANGED <<text, parse>>
  /\ reading' = reading \ {t}
  /\ UNCHANGED <<endpoints, stage, review, rows, publish>>

RunParse ==
  /\ InputEnabled /\ text # NoText
  /\ parse' = [step |-> "pending", text |-> text]
  /\ UNCHANGED <<endpoints, stage, text, reading, review, rows, publish>>

(* POST /api/openapi/parse for the pending mutation.  The answer is a       *)
(* failure for a flawed text, and for any text when the session, the        *)
(* limiter or the network says so; operations lead on to the review, which  *)
(* starts afresh (handleParsed).                                            *)
ParseAnswered(answered, public) ==
  LET doc == Content[parse.text]
      operations == DiscoverOperations(doc, public)
  IN
  /\ stage = "input" /\ Parsing
  /\ CASE ~answered \/ doc.flaw # "none" ->
            /\ parse' = Settling("failed")
            /\ UNCHANGED <<stage, review, payload>>
       [] answered /\ doc.flaw = "none" /\ doc.operations = {} ->
            /\ parse' = Settling("empty")
            /\ UNCHANGED <<stage, review, payload>>
       [] OTHER ->
            /\ parse' = Settling("idle")
            /\ stage' = "review"
            /\ found' = operations
            /\ source' = parse.text
            /\ selected' = {}
            /\ overridden' = FALSE
            /\ payload' = Nothing
  /\ UNCHANGED <<endpoints, text, reading, rows, shown, sending, mine, doubt, before>>

(* "Back to the spec" *)
BackToText ==
  /\ stage = "input" /\ parse.step = "empty"
  /\ parse' = Settling("idle")
  /\ UNCHANGED <<endpoints, stage, text, reading, review, rows, publish>>

-----------------------------------------------------------------------------
(* OperationReview *)

Unset == {o \in DOMAIN found : found[o] = "unset"}
IsPublishable(o) == found[o] = "ready" \/ (o \in Unset /\ overridden)
Publishable == {o \in DOMAIN found : IsPublishable(o)}

Select(chosen) ==
  /\ stage = "review"
  /\ selected' = chosen
  /\ UNCHANGED <<endpoints, stage, input, found, source, overridden, rows, publish>>

(* The checkbox of an operation that is not publishable is disabled. *)
ToggleKey(o) ==
  /\ o \in Publishable
  /\ Select(IF o \in selected THEN selected \ {o} ELSE selected \cup {o})
ToggleAllPublishable == Publishable # {} /\ Select(Publishable)
ClearAll == selected # {} /\ Select({})

(* What the base URL box may hold: an absolute https URL of a public host,  *)
(* another one (a relative or http URL, a local name, a private address) or *)
(* nothing.  parsePublicHttpsUrl accepts only the first.                     *)
Boxes == {"", "public", "refused"}
ParsePublicHttpsUrl(value) == value = "public"

(* Fault: the selection outlives the base URL it rests on. *)
KeepSelection(value) ==
  /\ stage = "review"
  /\ overridden' = ParsePublicHttpsUrl(value)
  /\ UNCHANGED <<endpoints, stage, input, found, source, selected, rows, publish>>

(* Every change of the box: an operation that needs the base URL is         *)
(* deselected the moment the box holds none.                                *)
ChangeBaseUrlOverride(value) ==
  /\ stage = "review"
  /\ overridden' = ParsePublicHttpsUrl(value)
  /\ selected' = IF ParsePublicHttpsUrl(value) THEN selected ELSE selected \ Unset
  /\ UNCHANGED <<endpoints, stage, input, found, source, rows, publish>>

BackToSpec ==
  /\ stage = "review"
  /\ stage' = "input"
  /\ UNCHANGED <<endpoints, input, review, rows, publish>>

(* ImportConfigure mounts with a row for each selected operation. *)
Continue ==
  /\ stage = "review" /\ selected # {}
  /\ stage' = "configure"
  /\ rows' = [o \in selected |-> "incomplete"]
  /\ UNCHANGED <<endpoints, input, review, publish>>

-----------------------------------------------------------------------------
(* ImportConfigure *)

UpdateRow(o, row) ==
  /\ stage = "configure" /\ o \in DOMAIN rows
  /\ rows' = [rows EXCEPT ![o] = row]
  /\ UNCHANGED <<endpoints, stage, input, review, publish>>

(* A batch price above zero, and a credential without authErrorFor. *)
ApplyBatch(row) ==
  /\ stage = "configure" /\ row \in Credential
  /\ rows' = [o \in DOMAIN rows |-> row]
  /\ UNCHANGED <<endpoints, stage, input, review, publish>>

BackToReview ==
  /\ stage = "configure"
  /\ stage' = "review"
  /\ rows' = Nothing
  /\ UNCHANGED <<endpoints, input, review, publish>>

(* Fault: validateRows is not asked. *)
ProceedUnchecked ==
  /\ stage = "configure"
  /\ stage' = "results"
  /\ payload' = rows
  /\ rows' = Nothing
  /\ before' = {s \in Slugs : Taken(s)}
  /\ UNCHANGED <<endpoints, input, review, shown, sending, mine, doubt>>

Proceed ==
  /\ stage = "configure" /\ \A o \in DOMAIN rows : rows[o] \in Credential
  /\ stage' = "results"
  /\ payload' = rows
  /\ rows' = Nothing
  /\ before' = {s \in Slugs : Taken(s)}
  /\ UNCHANGED <<endpoints, input, review, shown, sending, mine, doubt>>

-----------------------------------------------------------------------------
(* ImportPublishResults *)

InFlight == sending # "none"
FailedKeys == {o \in DOMAIN shown : shown[o] = Failed}

Send(r, what, batch, admitted) ==
  /\ Post(r, Importer, batch, admitted)
  /\ sending' = what
  /\ mine' = r
  /\ UNCHANGED <<stage, input, review, rows, payload, shown, doubt, before>>

(* Fault: the button stays enabled while a publish is pending. *)
RunPublishAgain(r, admitted) ==
  /\ stage = "results" /\ shown = Nothing
  /\ Send(r, "publish", payload, admitted)

RunPublish(r, admitted) ==
  /\ stage = "results" /\ ~InFlight /\ shown = Nothing
  /\ Send(r, "publish", payload, admitted)

RunRetry(r, admitted) ==
  /\ stage = "results" /\ ~InFlight /\ FailedKeys # {}
  /\ Send(r, "retry", Restrict(payload, FailedKeys), admitted)

Settled == sending' = "none" /\ mine' = NoRequest

(* Fault: the answer to a retry replaces the results. *)
ReplaceResults ==
  /\ InFlight /\ step[mine] = "answered"
  /\ shown' = results[mine]
  /\ Settled /\ EndRequest(mine)
  /\ UNCHANGED <<stage, input, review, rows, payload, doubt, before>>

(* A publish sets the results, a retry replaces those it has news of.       *)
ResultsReceived ==
  /\ InFlight /\ step[mine] = "answered"
  /\ shown' = IF sending = "publish" THEN results[mine] ELSE Over(results[mine], shown)
  /\ Settled /\ EndRequest(mine)
  /\ UNCHANGED <<stage, input, review, rows, payload, doubt, before>>

(* 401, 400 or 429. *)
PublishRefused ==
  /\ InFlight /\ step[mine] = "refused"
  /\ Settled /\ EndRequest(mine)
  /\ UNCHANGED <<stage, input, review, rows, payload, shown, doubt, before>>

Sent == IF sending = "retry" THEN FailedKeys ELSE DOMAIN payload

(* The answer is lost; the server goes on with the batch.                   *)
AnswerLost ==
  /\ InFlight
  /\ doubt' = doubt \cup Sent
  /\ Settled
  /\ UNCHANGED <<endpoints, stage, input, review, rows, payload, shown, before>>

Fresh ==
  /\ stage' = "input"
  /\ text' = NoText
  /\ found' = Nothing /\ source' = NoText
  /\ selected' = {} /\ overridden' = FALSE
  /\ payload' = Nothing /\ shown' = Nothing /\ rows' = Nothing
  /\ before' = {}

ResetFlow ==
  /\ stage = "results" /\ ~InFlight
  /\ Fresh
  /\ UNCHANGED <<endpoints, reading, parse, sending, mine, doubt>>

(* The creator reloads the page or follows a link, a publish under way or   *)
(* not: what the page held is gone.                                         *)
LeavePage ==
  /\ Fresh
  /\ reading' = {} /\ parse' = Settling("idle")
  /\ doubt' = IF InFlight THEN doubt \cup Sent ELSE doubt
  /\ Settled
  /\ UNCHANGED endpoints

-----------------------------------------------------------------------------
Input ==
  \/ \E t \in Texts : UpdateSpec(t) \/ PickFile(t) \/ FileRead(t)
  \/ RunParse \/ BackToText
  \/ \E answered \in BOOLEAN, public \in SUBSET Ops : ParseAnswered(answered, public)

Review ==
  \/ \E o \in DOMAIN found : ToggleKey(o)
  \/ ToggleAllPublishable \/ ClearAll \/ BackToSpec \/ Continue
  \/ \E value \in Boxes : ChangeBaseUrlOverride(value)

Configure ==
  \/ \E row \in Row : ApplyBatch(row) \/ \E o \in Ops : UpdateRow(o, row)
  \/ BackToReview \/ Proceed

Publish ==
  \/ \E r \in Requests, admitted \in BOOLEAN : RunPublish(r, admitted) \/ RunRetry(r, admitted)
  \/ ResultsReceived \/ PublishRefused \/ AnswerLost \/ ResetFlow

ImportStep == Input \/ Review \/ Configure \/ Publish \/ LeavePage
=============================================================================
