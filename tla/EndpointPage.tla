---------------------------- MODULE EndpointPage ----------------------------
(***************************************************************************)
(* The page of one endpoint: a cached view that is refetched, an edit form,  *)
(* an optimistic switch, a retirement confirmed by a second click, and the   *)
(* test console; behind it GET, PATCH and DELETE /api/endpoints/[id] over    *)
(* one row that other tabs change too.  Of the details only their validity   *)
(* is kept.                                                                  *)
(***************************************************************************)
EXTENDS TestConsole

CONSTANTS
  HeaderNames,            \* names of headers an API key is sent in
  Keep,                   \* a field that a patch leaves out
  NoView, NoForm

VARIABLES
  row,       \* the stored route
  view,      \* the cached answer of GET, as the page shows it
  failed,    \* the last fetch failed
  open,      \* the page is on screen
  fetch,     \* step of a fetch
  snapshot,  \* the view it brings
  form,      \* the edit form: what it was opened on, and its type of auth
  update,    \* the one updateMutation, of the form or of the switch
  retire     \* step of the retirement

query == <<view, failed, fetch, snapshot>>
page == <<row, query, open, form, update, retire>>
vars == <<console, page>>

(* A credential is none, a bearer token, an API key in a header, or an      *)
(* envelope that does not open: its view says that there is auth, of type   *)
(* NONE.                                                                     *)
Unreadable == "unreadable"
Kinds == {"none", "bearer", "apiKey"}
Given == {"none", "bearer"} \cup HeaderNames
Credentials == Given \cup {Unreadable}
Row == [active: BOOLEAN, auth: Credentials]

NoPatch == [active |-> Keep, auth |-> Keep]
Patch == [active: BOOLEAN \cup {Keep}, auth: Given \cup {Keep}]

(* What viewFromRow tells of it. *)
HasUpstreamAuth(auth) == auth # "none"
UpstreamAuthType(auth) ==
  IF auth \in HeaderNames THEN "apiKey" ELSE IF auth = "bearer" THEN "bearer" ELSE "none"
HeaderName(auth) == IF auth \in HeaderNames THEN auth ELSE "blank"

Form == [opened: Credentials, kind: Kinds]
NoUpdate ==
  [step |-> "idle", by |-> "none", patch |-> NoPatch, previous |-> NoView, touched |-> FALSE]

PageTypeOK ==
  /\ row \in Row
  /\ view \in Row \cup {NoView} /\ snapshot \in Row \cup {NoView}
  /\ failed \in BOOLEAN /\ open \in BOOLEAN
  /\ fetch \in {"none", "sent", "answered", "failed"}
  /\ form \in Form \cup {NoForm}
  /\ update \in [step: {"idle", "sent", "done", "failed"}, by: {"none", "save", "switch"},
                 patch: Patch, previous: Row \cup {NoView}, touched: BOOLEAN]
  /\ retire \in {"idle", "confirming", "sent", "retired", "failed"}

TypeOK == ConsoleTypeOK /\ PageTypeOK

Init ==
  /\ ConsoleInit
  /\ row \in Row
  /\ view = NoView /\ failed = FALSE /\ snapshot = NoView /\ fetch = "none"
  /\ open = FALSE
  /\ form = NoForm
  /\ update = NoUpdate
  /\ retire = "idle"

(* Loading, an error state, or the endpoint; a fetch that fails hides an    *)
(* endpoint that was shown.  No button is there unless it is.               *)
PageShown == IF failed THEN "error" ELSE IF view = NoView THEN "loading" ELSE "endpoint"
Visible == open /\ PageShown = "endpoint"

(* setQueryData: the query counts as successful. *)
SetView(v) == view' = v /\ failed' = FALSE

-----------------------------------------------------------------------------
(* The page, on the screen and off it.  Mounting fetches.  The page may be  *)
(* left at any time; what is under way goes on without it, and ends before  *)
(* the page is opened again (a bound: the next page has mutations and a     *)
(* console of its own).                                                     *)
OpenPage ==
  /\ ~open /\ mode = "existing"
  /\ update.step = "idle" /\ fetch = "none" /\ retire = "idle" /\ test = "idle"
  /\ open' = TRUE
  /\ fetch' = "sent"
  /\ UNCHANGED <<console, row, view, failed, snapshot, form, update, retire>>

LeavePage ==
  /\ open
  /\ open' = FALSE
  /\ form' = NoForm
  /\ retire' = IF retire = "confirming" THEN "idle" ELSE retire
  /\ shown' = Nothing
  /\ UNCHANGED <<limiter, upstream, mode, test, target, result, row, query, update>>

(* The window regains the focus, or "Try again". *)
Refetch ==
  /\ open /\ fetch = "none"
  /\ fetch' = "sent"
  /\ UNCHANGED <<console, row, view, failed, snapshot, open, form, update, retire>>

(* GET: the row as it is now, or no answer to any retry of the client.      *)
ServeGet ==
  /\ fetch = "sent"
  /\ \/ fetch' = "answered" /\ snapshot' = row
     \/ fetch' = "failed" /\ UNCHANGED snapshot
  /\ UNCHANGED <<console, row, view, failed, open, form, update, retire>>

(* The answer is shown, whatever the page was told since it was given; the  *)
(* console goes with an endpoint that a failure hides.                      *)
GotView ==
  /\ fetch \in {"answered", "failed"}
  /\ IF fetch = "answered" THEN SetView(snapshot) /\ UNCHANGED shown
     ELSE failed' = TRUE /\ shown' = Nothing /\ UNCHANGED view
  /\ fetch' = "none" /\ snapshot' = NoView
  /\ UNCHANGED <<limiter, upstream, mode, test, target, result, row, open, form, update, retire>>

StartEditing ==
  /\ Visible /\ form = NoForm
  /\ form' = [opened |-> view.auth, kind |-> UpstreamAuthType(view.auth)]
  /\ UNCHANGED <<console, row, query, open, update, retire>>

CancelEditing ==
  /\ Visible /\ form # NoForm
  /\ form' = NoForm
  /\ UNCHANGED <<console, row, query, open, update, retire>>

ChangeEditAuthType(k) ==
  /\ Visible /\ form # NoForm
  /\ form' = [form EXCEPT !.kind = k]
  /\ UNCHANGED <<console, row, query, open, update, retire>>

(* Fault: any stored envelope is cleared by "none", readable or not.        *)
ClearAnything(header, typed) ==
  CASE form.kind = "none" -> {IF HasUpstreamAuth(view.auth) THEN "none" ELSE Keep}
    [] form.kind = UpstreamAuthType(view.auth) /\ ~typed /\ header = HeaderName(view.auth) -> {Keep}
    [] form.kind = "bearer" /\ typed -> {"bearer"}
    [] form.kind = "apiKey" /\ typed -> {header} \ {"blank"}
    [] OTHER -> {}

(* What saveEdit makes of the auth controls: keep, clear or replace the     *)
(* credential, or refuse (no element).  A blank secret keeps a credential   *)
(* of the same type and header.                                             *)
AuthPatch(header, typed) ==
  CASE form.kind = "none" -> {IF UpstreamAuthType(view.auth) # "none" THEN "none" ELSE Keep}
    [] form.kind = "bearer" /\ typed -> {"bearer"}
    [] form.kind = "apiKey" /\ typed -> {header} \ {"blank"}
    [] form.kind = UpstreamAuthType(view.auth) /\ ~typed
         /\ (form.kind = "bearer" \/ header = HeaderName(view.auth)) -> {Keep}
    [] OTHER -> {}

(* Fault: the form sends the whole view back, its status included.          *)
WholePatch(auth) == [active |-> view.active, auth |-> auth]
SavePatch(auth) == [NoPatch EXCEPT !.auth = auth]

(* Did the user touch the auth controls, or the page show them another      *)
(* credential since the form was opened?                                    *)
Touched(header, typed) ==
  \/ typed
  \/ form.kind # UpstreamAuthType(form.opened) \/ header # HeaderName(form.opened)
  \/ UpstreamAuthType(view.auth) # UpstreamAuthType(form.opened)
  \/ HeaderName(view.auth) # HeaderName(form.opened)

(* saveEdit, with a valid name, URL and price; header and secret are as     *)
(* they were typed.                                                         *)
SaveEdit(header, typed) ==
  /\ Visible /\ form # NoForm /\ update.step = "idle"
  /\ \E auth \in AuthPatch(header, typed) :
       update' = [step |-> "sent", by |-> "save", patch |-> SavePatch(auth),
                  previous |-> NoView, touched |-> Touched(header, typed)]
  /\ UNCHANGED <<console, row, query, open, form, retire>>

(* toggleActive shows the new status before it is asked for. *)
ToggleActive ==
  /\ Visible /\ update.step = "idle"
  /\ SetView([view EXCEPT !.active = ~@])
  /\ update' = [step |-> "sent", by |-> "switch",
                patch |-> [NoPatch EXCEPT !.active = ~view.active],
                previous |-> view, touched |-> FALSE]
  /\ UNCHANGED <<console, row, fetch, snapshot, open, form, retire>>

(* Fault: fields that the patch leaves out are written too. *)
WriteAll(r, patch) == [active |-> patch.active, auth |-> patch.auth]
(* updateRoute: one UPDATE of the fields that are given. *)
UpdateRoute(r, patch) ==
  [active |-> IF patch.active = Keep THEN r.active ELSE patch.active,
   auth |-> IF patch.auth = Keep THEN r.auth ELSE patch.auth]

(* PATCH: the service validates and writes, or refuses; the answer carries  *)
(* the new row, and may be lost.                                            *)
ServeUpdate ==
  /\ update.step = "sent"
  /\ \/ /\ row' = UpdateRoute(row, update.patch)
        /\ update' \in {[update EXCEPT !.step = "done", !.previous = row'],
                        [update EXCEPT !.step = "failed"]}
     \/ update' = [update EXCEPT !.step = "failed"] /\ UNCHANGED row
  /\ UNCHANGED <<console, query, open, form, retire>>

(* The mutation's own onSuccess shows the answer even when the page is      *)
(* gone; closing the form and restoring the view need the page.             *)
UpdateDone ==
  /\ update.step = "done"
  /\ SetView(update.previous)
  /\ form' = IF update.by = "save" THEN NoForm ELSE form
  /\ update' = NoUpdate
  /\ UNCHANGED <<console, row, fetch, snapshot, open, retire>>

UpdateFailed ==
  /\ update.step = "failed"
  /\ IF open /\ update.by = "switch" THEN SetView(update.previous)
                                      ELSE UNCHANGED <<view, failed>>
  /\ update' = NoUpdate
  /\ UNCHANGED <<console, row, fetch, snapshot, open, form, retire>>

(* handleRetireClick: the first click asks, the second sends. *)
RetireClick ==
  /\ Visible /\ retire \in {"idle", "confirming"}
  /\ retire' = IF retire = "idle" THEN "confirming" ELSE "sent"
  /\ UNCHANGED <<console, row, query, open, form, update>>

(* DELETE: remove() disables the route and keeps it. *)
ServeRetire ==
  /\ retire = "sent"
  /\ \/ row' = [row EXCEPT !.active = FALSE] /\ retire' \in {"retired", "failed"}
     \/ retire' = "failed" /\ UNCHANGED row
  /\ UNCHANGED <<console, query, open, form, update>>

(* A page whose endpoint was retired is left, if it still is on screen.     *)
RetireAnswered ==
  /\ retire \in {"retired", "failed"}
  /\ retire' = "idle"
  /\ IF retire = "retired" THEN open' = FALSE /\ form' = NoForm /\ shown' = Nothing
     ELSE UNCHANGED <<open, form, shown>>
  /\ UNCHANGED <<limiter, upstream, mode, test, target, result, row, query, update>>

(* Another tab of the creator saves, switches or retires.                   *)
Elsewhere ==
  /\ \E active \in BOOLEAN, auth \in Given \cup {row.auth} :
       row' = [active |-> active, auth |-> auth]
  /\ UNCHANGED <<console, query, open, form, update, retire>>

(* The console of this page is there when the endpoint is; that of the      *)
(* publish form always.                                                     *)
ConsoleThere == Visible \/ mode = "draft"

TestHere == ConsoleThere /\ SubmitTest /\ UNCHANGED page

HearTest == IF ConsoleThere THEN ShowTest ELSE ForgetTest

Testing ==
  /\ TestServer \/ HearTest \/ OthersTest \/ LimiterWorks \/ LoadTarget(row.auth # Unreadable)
  /\ UNCHANGED page

Fetching == Refetch \/ ServeGet \/ GotView

Editing ==
  \/ StartEditing \/ CancelEditing
  \/ \E k \in Kinds : ChangeEditAuthType(k)
  \/ \E h \in HeaderNames \cup {"blank"}, typed \in BOOLEAN : SaveEdit(h, typed)

Updating == ToggleActive \/ ServeUpdate \/ UpdateDone \/ UpdateFailed
Retiring == RetireClick \/ ServeRetire \/ RetireAnswered

Next ==
  \/ TestHere \/ Testing
  \/ OpenPage \/ LeavePage \/ Fetching \/ Editing \/ Updating \/ Retiring \/ Elsewhere

Spec == Init /\ [][Next]_vars

-----------------------------------------------------------------------------
(* "Leave blank to keep existing token" (endpoint-detail.tsx:548): a save    *)
(* whose author did not touch the auth controls, and was shown no other      *)
(* credential while the form was open, leaves the stored credential alone:   *)
(* also one whose envelope cannot be read, which the page shows as none, and *)
(* also one that another tab stored while the page did not look.             *)
UntouchedCredentialStays ==
  [][update'.step # update.step /\ update.step = "sent" /\ update.by = "save"
       /\ ~update.touched => row'.auth = row.auth]_vars

(* A retired or disabled endpoint is charged for again only because someone *)
(* switched it on: no save from a form that still shows it active revives   *)
(* it, whatever the order in which the requests arrive.                     *)
SaveNeverRevives ==
  [][~row.active /\ row'.active /\ update' # update => update.by = "switch"]_vars
=============================================================================
