---------------------------- MODULE Publishing -----------------------------
(***************************************************************************)
(* Every way to publish: the import of ImportFlow beside the publish form   *)
(* of another creator (publish-form.tsx), over the server of Endpoints.     *)
(***************************************************************************)
EXTENDS ImportFlow

CONSTANTS
  Author,      \* the creator at the form
  FormKey      \* what the form publishes

ASSUME FormConstants ==
  Author \in Creators \ {Importer} /\ FormKey \in Keys \ Ops

VARIABLES
  form,        \* step of the form
  asked,       \* the request it waits for
  opened       \* slug of the endpoint it went on to

single == <<form, asked, opened>>
vars == <<endpoints, import, single>>

TypeOK ==
  /\ EndpointsTypeOK /\ ImportTypeOK
  /\ form \in {"editing", "pending", "done"}
  /\ asked \in Requests \cup {NoRequest}
  /\ opened \in Slugs \cup {Failed}

Init ==
  /\ EndpointsInit /\ ImportInit
  /\ form = "editing" /\ asked = NoRequest /\ opened = Failed

-----------------------------------------------------------------------------
(* The form of the author.  Its fields may change at any time; what counts  *)
(* is what they hold at submit, when validate lets no blank secret through. *)

Submit(r, auth, admitted) ==
  /\ form = "editing"
  /\ Post(r, Author, [k \in {FormKey} |-> auth], admitted)
  /\ form' = "pending"
  /\ asked' = r
  /\ UNCHANGED <<import, opened>>

(* onSuccess clears the form and opens the endpoint, onError shows why. *)
Created ==
  LET answer == results[asked][FormKey] IN
  /\ form = "pending" /\ step[asked] = "answered"
  /\ IF answer = Failed
       THEN form' = "editing" /\ UNCHANGED opened
       ELSE form' = "done" /\ opened' = answer
  /\ asked' = NoRequest
  /\ EndRequest(asked)
  /\ UNCHANGED import

CreateRefused ==
  /\ form = "pending" /\ step[asked] = "refused"
  /\ form' = "editing"
  /\ asked' = NoRequest
  /\ EndRequest(asked)
  /\ UNCHANGED <<import, opened>>

CreateUnanswered ==
  /\ form = "pending"
  /\ form' = "editing"
  /\ asked' = NoRequest
  /\ UNCHANGED <<endpoints, import, opened>>

-----------------------------------------------------------------------------
(* The server's part.  The importer never learns of a route that is there   *)
(* although its create failed, nor of what a process that died had done.    *)

Unheard(r, lost) ==
  doubt' = IF creator[r] = Importer THEN doubt \cup (lost \cap Ops) ELSE doubt

ServerStep(r) ==
  \/ Serve(r) /\ UNCHANGED doubt
  \/ InsertUnheard(r) /\ Unheard(r, {Current(r)})

Working(r) ==
  /\ ServerStep(r)
  /\ UNCHANGED <<stage, input, review, rows, payload, shown, sending, mine, before, single>>

(* The process dies, or a request nobody waits for ends. *)
RequestOver(r) ==
  /\ r \notin {mine, asked}
  /\ EndRequest(r)
  /\ UNCHANGED <<import, single>>

Next ==
  \/ ImportStep /\ UNCHANGED single
  \/ \E r \in Requests, auth \in Credential, admitted \in BOOLEAN : Submit(r, auth, admitted)
  \/ Created \/ CreateRefused \/ CreateUnanswered
  \/ \E r \in Requests : Working(r) \/ RequestOver(r)

Spec == Init /\ [][Next]_vars

-----------------------------------------------------------------------------
(* Properties *)

(* A powered URL shown to a creator is a route of that creator, for that    *)
(* operation, with the credential that was configured, whoever else was     *)
(* publishing (service.ts:259, 282).                                        *)
IsRouteOf(s, k, c, auth) == routes[s] = [key |-> k, creator |-> c, auth |-> auth]

PoweredUrlIsMine ==
  /\ \A o \in DOMAIN shown :
       shown[o] # Failed => IsRouteOf(shown[o], o, Importer, payload[o])
  /\ opened # Failed => routes[opened].key = FormKey /\ opened \in Listed(Author)

(* The routes of an operation that this import created. *)
Imported(o) == {s \in Listed(Importer) \ before : routes[s].key = o}

(* Publishing an import and retrying it never creates an operation twice,   *)
(* unless an answer about it was lost                                       *)
(* (docs/production-readiness.md:98; import-publish-results.tsx:50).        *)
AtMostOneRoute ==
  stage = "results" => \A o \in Ops \ doubt : Cardinality(Imported(o)) <= 1

(* The result page tells the truth about every operation that was sent:    *)
(* none is missing, and one whose answers all arrived has a route exactly   *)
(* if it is shown as published (publish/route.ts:130).                      *)
ResultsAreTrue ==
  stage = "results" /\ ~InFlight /\ shown # Nothing =>
    /\ DOMAIN shown = DOMAIN payload
    /\ \A o \in DOMAIN shown \ doubt : shown[o] # Failed <=> Imported(o) # {}

(* "Continue never ships an unresolvable upstream" (import-flow.tsx:88):    *)
(* whatever was selected, and however often the base URL changed since.     *)
NeverShipsUnresolved ==
  /\ selected \subseteq Publishable
  /\ stage \in {"configure", "results"} => DOMAIN rows \cup DOMAIN payload \subseteq Publishable

(* The operations put up for review are those of the text the box then      *)
(* holds, however the parse and the reading of a file overlap               *)
(* (import-input.tsx:76).                                                   *)
ReviewsTheTextShown == [][source' \notin {source, NoText} => source' = text]_vars

(* Publishing implements PublishingPromise: the operations a request has    *)
(* not come to yet are its orders, the slugs among its results what it      *)
(* confirmed, and a creator is told what the page shows.                    *)
OwnerOf == [r \in Requests |-> IF step[r] = "idle" THEN Nobody ELSE creator[r]]

OrderOf(r, k) == [key |-> k, creator |-> creator[r], auth |-> todo[r][k]]
OrdersOf == [r \in Requests |-> {OrderOf(r, k) : k \in DOMAIN todo[r]}]

(* The operations that have a slug, with it. *)
Named(answers) ==
  {[key |-> k, slug |-> answers[k]] : k \in {x \in DOMAIN answers : answers[x] # Failed}}

ConfirmedBy == [r \in Requests |-> Named(results[r])]

ToldTo == [c \in Creators |->
  IF c = Importer THEN Named(shown)
  ELSE IF c = Author THEN Named([k \in {FormKey} |-> opened])
  ELSE {}]

Promise == INSTANCE PublishingPromise WITH
  Credentials <- Credential, owner <- OwnerOf, orders <- OrdersOf,
  confirmed <- ConfirmedBy, founded <- routes, told <- ToldTo

ImplementsPromise == Promise!PromiseSpec
=============================================================================
