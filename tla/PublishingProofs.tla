-------------------------- MODULE PublishingProofs --------------------------
(***************************************************************************)
(* Proofs about Publishing, and Endpoints and ImportFlow under it, for any  *)
(* operations, creators, slugs and texts, and any number of requests under  *)
(* way.                                                                     *)
(***************************************************************************)
EXTENDS Publishing, FiniteSetTheorems, TLAPS

-----------------------------------------------------------------------------
(* Partial functions *)

PartialMaps(S, V) == UNION {[K -> V] : K \in SUBSET S}

LEMMA PartialMapsAre ==
  ASSUME NEW S, NEW V, NEW f
  PROVE  f \in PartialMaps(S, V) <=> DOMAIN f \subseteq S /\ f \in [DOMAIN f -> V]
<1>1. f \in PartialMaps(S, V) <=> \E K \in SUBSET S : f \in [K -> V]
  BY DEF PartialMaps
<1> QED
  BY <1>1

LEMMA OverIs ==
  ASSUME NEW latest, NEW prior
  PROVE  /\ DOMAIN Over(latest, prior) = DOMAIN latest \cup DOMAIN prior
         /\ \A k \in DOMAIN latest : Over(latest, prior)[k] = latest[k]
         /\ \A k \in DOMAIN prior \ DOMAIN latest : Over(latest, prior)[k] = prior[k]
BY DEF Over

(* The largest set a partial map is drawn from does not matter. *)
LEMMA SubMap ==
  ASSUME NEW S, NEW V, NEW f \in PartialMaps(S, V), NEW T
  PROVE  Restrict(f, DOMAIN f \cap T) \in PartialMaps(S, V)
BY PartialMapsAre, PartialMapsAre DEF Restrict

-----------------------------------------------------------------------------
(* The inductive invariant, one conjunct for each thing that is relied on. *)

(* The page reviews what the box holds, and nothing outlives its stage. *)
StagesInv ==
  /\ Parsing => stage = "input" /\ parse.text = text /\ text # NoText
  /\ selected \subseteq Publishable
  /\ DOMAIN rows \cup DOMAIN payload \subseteq Publishable
  /\ stage # "configure" => rows = Nothing
  /\ stage # "results" => payload = Nothing /\ shown = Nothing /\ ~InFlight

(* A request has operations to create until it is answered, and has a       *)
(* result for those it is done with.                                        *)
RequestInv ==
  \A r \in Requests :
    /\ step[r] \in {"idle", "refused"} => todo[r] = Nothing /\ results[r] = Nothing
    /\ step[r] \in {"create", "insert"} => DOMAIN todo[r] # {}
    /\ step[r] = "answered" => DOMAIN todo[r] = {}
    /\ step[r] = "insert" => slug[r] \in Slugs
    /\ DOMAIN todo[r] \cap DOMAIN results[r] = {}

-----------------------------------------------------------------------------
(* The stages of the page *)

LEMMA NothingIs == DOMAIN Nothing = {}
BY DEF Nothing

LEMMA StagesInit == ASSUME Init PROVE StagesInv
BY NothingIs DEF Init, ImportInit, StagesInv, InFlight, Parsing, Settling

(* What the review, the rows and the payload rest on is as it was. *)
LEMMA StagesRest ==
  ASSUME StagesInv, UNCHANGED <<stage, text, parse, review, rows, payload, shown, sending>>
  PROVE  StagesInv' /\ source' = source
<1>1. UNCHANGED <<stage, text, parse, found, source, selected, overridden, rows, payload, shown, sending>>
  BY DEF review
<1> QED
  BY <1>1 DEF StagesInv, InFlight, Parsing, Publishable, IsPublishable, Unset


ReviewsIt == source' \notin {source, NoText} => source' = text

LEMMA InputKeepsStages == ASSUME StagesInv, Input PROVE StagesInv' /\ ReviewsIt
<1>1. CASE \E t \in Texts : UpdateSpec(t)
  <2>1. stage = "input" /\ parse'.step = "idle"
        /\ UNCHANGED <<stage, found, source, selected, overridden, rows, payload, shown, sending>>
    BY <1>1 DEF UpdateSpec, InputEnabled, InputShown, Settling, review, publish
  <2> QED
    BY <2>1 DEF StagesInv, InFlight, Parsing, Publishable, IsPublishable, Unset, ReviewsIt
<1>2. CASE \E t \in Texts : PickFile(t)
  BY <1>2, StagesRest DEF PickFile, publish, ReviewsIt
<1>3. CASE \E t \in Texts : FileRead(t)
  <2>1. \/ UNCHANGED <<stage, text, parse, review, rows, payload, shown, sending>>
        \/ /\ parse'.step = "idle"
           /\ UNCHANGED <<stage, found, source, selected, overridden, rows, payload, shown, sending>>
    BY <1>3 DEF FileRead, Settling, review, publish
  <2>2. CASE parse'.step = "idle"
             /\ UNCHANGED <<stage, found, source, selected, overridden, rows, payload, shown, sending>>
    BY <2>2 DEF StagesInv, InFlight, Parsing, Publishable, IsPublishable, Unset, ReviewsIt
  <2> QED
    BY <2>1, <2>2, StagesRest DEF ReviewsIt
<1>4. CASE RunParse
  <2>1. /\ stage = "input" /\ parse'.text = text /\ text # NoText
        /\ UNCHANGED <<stage, text, found, source, selected, overridden, rows, payload, shown, sending>>
    BY <1>4 DEF RunParse, InputEnabled, InputShown, review, publish
  <2> QED
    BY <2>1 DEF StagesInv, InFlight, Parsing, Publishable, IsPublishable, Unset, ReviewsIt
<1>5. CASE BackToText
  <2>1. /\ parse'.step = "idle"
        /\ UNCHANGED <<stage, text, found, source, selected, overridden, rows, payload, shown, sending>>
    BY <1>5 DEF BackToText, Settling, review, publish
  <2> QED
    BY <2>1 DEF StagesInv, InFlight, Parsing, Publishable, IsPublishable, Unset, ReviewsIt
<1>6. ASSUME NEW answered \in BOOLEAN, NEW public \in SUBSET Ops,
             ParseAnswered(answered, public)
      PROVE  StagesInv' /\ ReviewsIt
  <2>1. stage = "input" /\ Parsing /\ UNCHANGED <<text, rows, shown, sending>>
    BY <1>6 DEF ParseAnswered
  <2>2. CASE parse'.step # "pending" /\ UNCHANGED <<stage, found, source, selected, overridden, payload>>
    BY <2>1, <2>2 DEF StagesInv, InFlight, Parsing, Publishable, IsPublishable, Unset, ReviewsIt
  <2>3. CASE /\ parse'.step # "pending" /\ stage' = "review" /\ source' = parse.text
             /\ selected' = {} /\ payload' = Nothing
    <3>1. parse.text = text /\ rows = Nothing /\ shown = Nothing /\ ~InFlight
      BY <2>1 DEF StagesInv
    <3> QED
      BY <2>1, <2>3, <3>1, NothingIs DEF StagesInv, InFlight, Parsing, ReviewsIt
  <2> QED
    BY <1>6, <2>2, <2>3 DEF ParseAnswered, Settling, review
<1> QED
  BY <1>1, <1>2, <1>3, <1>4, <1>5, <1>6 DEF Input

LEMMA ReviewKeepsStages == ASSUME StagesInv, Review PROVE StagesInv' /\ ReviewsIt
<1>1. ASSUME NEW chosen, Select(chosen), chosen \subseteq Publishable
      PROVE  StagesInv' /\ ReviewsIt
  <2>1. selected' = chosen
        /\ UNCHANGED <<stage, text, parse, found, source, overridden, rows, payload, shown, sending>>
    BY <1>1 DEF Select, input, publish
  <2> QED
    BY <1>1, <2>1 DEF StagesInv, InFlight, Parsing, Publishable, IsPublishable, Unset, ReviewsIt
<1>2. ASSUME NEW o \in DOMAIN found, ToggleKey(o) PROVE StagesInv' /\ ReviewsIt
  <2>1. \E chosen \in SUBSET Publishable : Select(chosen)
    BY <1>2 DEF ToggleKey, StagesInv
  <2> QED
    BY <2>1, <1>1
<1>3. CASE ToggleAllPublishable
  BY <1>3, <1>1 DEF ToggleAllPublishable
<1>4. CASE ClearAll
  BY <1>4, <1>1 DEF ClearAll
<1>5. ASSUME NEW value \in Boxes, ChangeBaseUrlOverride(value) PROVE StagesInv' /\ ReviewsIt
  <2>1. stage = "review"
        /\ UNCHANGED <<stage, text, parse, found, source, rows, payload, shown, sending>>
    BY <1>5 DEF ChangeBaseUrlOverride, input, publish
  <2>2. rows = Nothing /\ payload = Nothing /\ shown = Nothing /\ ~InFlight
    BY <2>1 DEF StagesInv
  <2>3. selected' \subseteq Publishable'
    BY <1>5, <2>1
       DEF ChangeBaseUrlOverride, StagesInv, Publishable, IsPublishable, Unset, ParsePublicHttpsUrl
  <2> QED
    BY <2>1, <2>2, <2>3, NothingIs DEF StagesInv, InFlight, Parsing, ReviewsIt
<1>6. CASE BackToSpec
  <2>1. stage = "review" /\ stage' = "input"
        /\ UNCHANGED <<text, parse, found, source, selected, overridden, rows, payload, shown, sending>>
    BY <1>6 DEF BackToSpec, input, review, publish
  <2> QED
    BY <2>1 DEF StagesInv, InFlight, Parsing, Publishable, IsPublishable, Unset, ReviewsIt
<1>7. CASE Continue
  <2>1. stage = "review" /\ stage' = "configure" /\ DOMAIN rows' = selected
        /\ UNCHANGED <<text, parse, found, source, selected, overridden, payload, shown, sending>>
    BY <1>7 DEF Continue, input, review, publish
  <2> QED
    BY <2>1, NothingIs DEF StagesInv, InFlight, Parsing, Publishable, IsPublishable, Unset, ReviewsIt
<1> QED
  BY <1>2, <1>3, <1>4, <1>5, <1>6, <1>7 DEF Review

LEMMA ConfigureKeepsStages == ASSUME StagesInv, Configure PROVE StagesInv' /\ ReviewsIt
<1>1. ASSUME stage = "configure", UNCHANGED <<input, review, shown, sending>>,
             \/ stage' = "configure" /\ DOMAIN rows' = DOMAIN rows /\ payload' = payload
             \/ stage' = "review" /\ rows' = Nothing /\ payload' = payload
             \/ stage' = "results" /\ rows' = Nothing /\ payload' = rows
      PROVE  StagesInv' /\ ReviewsIt
  <2>1. UNCHANGED <<text, parse, found, source, selected, overridden, shown, sending>>
    BY <1>1 DEF input, review
  <2>2. payload = Nothing /\ shown = Nothing /\ ~InFlight /\ ~Parsing
    BY <1>1 DEF StagesInv
  <2>3. ~Parsing' /\ Publishable' = Publishable
    BY <2>1, <2>2 DEF Parsing, Publishable, IsPublishable, Unset
  <2> QED
    BY <1>1, <2>1, <2>2, <2>3, NothingIs DEF StagesInv, InFlight, ReviewsIt
<1>2. ASSUME NEW row \in Row, ApplyBatch(row) PROVE StagesInv' /\ ReviewsIt
  BY <1>1, <1>2 DEF ApplyBatch, publish
<1>3. ASSUME NEW row \in Row, NEW o \in Ops, UpdateRow(o, row) PROVE StagesInv' /\ ReviewsIt
  BY <1>1, <1>3 DEF UpdateRow, publish
<1>4. CASE BackToReview
  BY <1>1, <1>4 DEF BackToReview, publish
<1>5. CASE Proceed
  BY <1>1, <1>5 DEF Proceed
<1> QED
  BY <1>2, <1>3, <1>4, <1>5 DEF Configure

LEMMA PublishKeepsStages == ASSUME StagesInv, Publish \/ LeavePage PROVE StagesInv' /\ ReviewsIt
<1>1. ASSUME stage = "results", UNCHANGED <<stage, text, parse, review, rows, payload>>
      PROVE  StagesInv' /\ ReviewsIt
  <2>1. UNCHANGED <<found, source, selected, overridden>>
    BY <1>1 DEF review
  <2> QED
    BY <1>1, <2>1 DEF StagesInv, InFlight, Parsing, Publishable, IsPublishable, Unset, ReviewsIt
<1>2. InFlight \/ FailedKeys # {} => stage = "results"
  BY NothingIs DEF StagesInv, FailedKeys
<1>3. CASE \E r \in Requests, admitted \in BOOLEAN : RunPublish(r, admitted) \/ RunRetry(r, admitted)
  BY <1>1, <1>2, <1>3 DEF RunPublish, RunRetry, Send, input
<1>4. CASE ResultsReceived
  BY <1>1, <1>2, <1>4 DEF ResultsReceived, input
<1>5. CASE PublishRefused \/ AnswerLost
  BY <1>1, <1>2, <1>5 DEF PublishRefused, AnswerLost, input
<1>6. CASE ResetFlow \/ LeavePage
  <2>1. /\ Fresh /\ sending' = "none"
        /\ \/ parse'.step # "pending"
           \/ parse' = parse /\ stage = "results"
    BY <1>6 DEF ResetFlow, LeavePage, Settled, Settling, InFlight
  <2>2. parse'.step # "pending"
    BY <2>1 DEF StagesInv, InFlight, Parsing
  <2> QED
    BY <2>1, <2>2, NothingIs DEF Fresh, StagesInv, InFlight, Parsing, ReviewsIt
<1> QED
  BY <1>3, <1>4, <1>5, <1>6 DEF Publish

LEMMA StagesNext == ASSUME StagesInv, [Next]_vars PROVE StagesInv' /\ ReviewsIt
<1>1. ASSUME UNCHANGED <<stage, input, review, rows, payload, shown, sending>>
      PROVE  StagesInv' /\ ReviewsIt
  BY <1>1, StagesRest DEF input, ReviewsIt
<1>2. CASE ImportStep
  BY <1>2, InputKeepsStages, ReviewKeepsStages, ConfigureKeepsStages, PublishKeepsStages
     DEF ImportStep
<1>3. CASE \/ \E r \in Requests, auth \in Credential, admitted \in BOOLEAN : Submit(r, auth, admitted)
           \/ Created \/ CreateRefused \/ CreateUnanswered
  BY <1>1, <1>3 DEF Submit, Created, CreateRefused, CreateUnanswered, import, publish
<1>4. CASE \E r \in Requests : Working(r) \/ RequestOver(r)
  BY <1>1, <1>4 DEF Working, RequestOver, import, publish
<1>5. CASE UNCHANGED vars
  BY <1>1, <1>5 DEF vars, import, publish
<1> QED
  BY <1>2, <1>3, <1>4, <1>5 DEF Next

(* The page reviews, configures and publishes what its earlier stages        *)
(* established (openapi-import-page.tsx), at every step.                     *)
THEOREM StagesHold == Spec => []StagesInv
<1>1. Init => StagesInv
  BY StagesInit
<1>2. StagesInv /\ [Next]_vars => StagesInv'
  BY StagesNext
<1> QED
  BY <1>1, <1>2, PTL DEF Spec

(* What is selected, configured or sent has an upstream that the server can *)
(* resolve, or a base URL to resolve it with (import-flow.tsx:88).          *)
THEOREM NeverShipsUnresolvedHolds == Spec => []NeverShipsUnresolved
<1>1. StagesInv => NeverShipsUnresolved
  BY DEF StagesInv, NeverShipsUnresolved
<1> QED
  BY <1>1, StagesHold, PTL

(* The operations under review are those of the text in the box            *)
(* (import-input.tsx:76).                                                   *)
THEOREM ReviewsTheTextShownHolds == Spec => ReviewsTheTextShown
<1>1. StagesInv /\ [Next]_vars => [source' \notin {source, NoText} => source' = text]_vars
  BY StagesNext DEF ReviewsIt
<1> QED
  BY <1>1, StagesHold, PTL DEF Spec, ReviewsTheTextShown

-----------------------------------------------------------------------------
(* The server *)

LEMMA BatchIs ==
  ASSUME NEW b
  PROVE  b \in Batch <=> DOMAIN b \subseteq Keys /\ b \in [DOMAIN b -> Credential]
BY PartialMapsAre DEF Batch, PartialMaps

LEMMA ResultsAre ==
  ASSUME NEW f
  PROVE  f \in Results <=> DOMAIN f \subseteq Keys /\ f \in [DOMAIN f -> Slugs \cup {Failed}]
BY PartialMapsAre DEF Results, PartialMaps

LEMMA NothingFits == Nothing \in Batch /\ Nothing \in Results
BY BatchIs, ResultsAre DEF Nothing

(* A result that names a slug names a route of the requester. *)
RouteIsThere(r, k) ==
  results[r][k] # Failed =>
    /\ results[r][k] \in Slugs /\ Taken(results[r][k])
    /\ routes[results[r][k]].key = k /\ routes[results[r][k]].creator = creator[r]

RoutesInv == \A r \in Requests : \A k \in DOMAIN results[r] : RouteIsThere(r, k)

(* A request under way has a developer. *)
CreatorInv == \A r \in Requests : step[r] # "idle" => creator[r] \in Creators

ServerInv == EndpointsTypeOK /\ RequestInv /\ RoutesInv /\ CreatorInv

(* No route is ever changed or removed. *)
RoutesStay == \A s \in Slugs : Taken(s) => routes'[s] = routes[s]

Elsewhere(r) ==
  \A q \in Requests \ {r} :
    /\ step'[q] = step[q] /\ creator'[q] = creator[q] /\ todo'[q] = todo[q]
    /\ slug'[q] = slug[q] /\ results'[q] = results[q]

LEMMA ServerInit == ASSUME EndpointsInit PROVE ServerInv
<1>1. EndpointsTypeOK
  BY NothingFits DEF EndpointsInit, EndpointsTypeOK
<1>2. RequestInv /\ RoutesInv /\ CreatorInv
  BY NothingIs DEF EndpointsInit, RequestInv, RoutesInv, CreatorInv
<1> QED
  BY <1>1, <1>2 DEF ServerInv

LEMMA PostIs ==
  ASSUME EndpointsTypeOK, NEW r \in Requests, NEW c \in Creators, NEW batch \in Batch,
         NEW admitted \in BOOLEAN, Post(r, c, batch, admitted)
  PROVE  /\ EndpointsTypeOK' /\ routes' = routes /\ Elsewhere(r)
         /\ step[r] = "idle" /\ creator'[r] = c
         /\ slug'[r] = slug[r] /\ results'[r] = results[r]
         /\ \/ step'[r] = "refused" /\ todo'[r] = todo[r]
            \/ step'[r] = "create" /\ todo'[r] = batch /\ DOMAIN batch # {}
<1>1. Cardinality(DOMAIN batch) \in 1..MaxBatch => DOMAIN batch # {}
  BY FS_EmptySet, EndpointConstants
<1>2. /\ step[r] = "idle" /\ creator' = [creator EXCEPT ![r] = c]
      /\ UNCHANGED <<routes, slug, results>>
      /\ \/ /\ step' = [step EXCEPT ![r] = "create"] /\ todo' = [todo EXCEPT ![r] = batch]
            /\ DOMAIN batch # {}
         \/ step' = [step EXCEPT ![r] = "refused"] /\ UNCHANGED todo
  BY <1>1 DEF Post
<1> QED
  BY <1>2 DEF EndpointsTypeOK, Elsewhere

LEMMA PostKeepsServer ==
  ASSUME ServerInv, NEW r \in Requests, NEW c \in Creators, NEW batch \in Batch,
         NEW admitted \in BOOLEAN, Post(r, c, batch, admitted)
  PROVE  ServerInv' /\ RoutesStay
<1>1. EndpointsTypeOK' /\ RoutesStay /\ CreatorInv'
  BY PostIs DEF ServerInv, RoutesStay, CreatorInv, Elsewhere
<1>2. RequestInv' /\ RoutesInv'
  <2>1. todo[r] = Nothing /\ results[r] = Nothing
    BY PostIs DEF ServerInv, RequestInv
  <2>2. ASSUME NEW q \in Requests
        PROVE  /\ step'[q] \in {"idle", "refused"} => todo'[q] = Nothing /\ results'[q] = Nothing
               /\ step'[q] \in {"create", "insert"} => DOMAIN todo'[q] # {}
               /\ step'[q] = "answered" => DOMAIN todo'[q] = {}
               /\ step'[q] = "insert" => slug'[q] \in Slugs
               /\ DOMAIN todo'[q] \cap DOMAIN results'[q] = {}
    <3>1. CASE q = r
      BY <2>1, <3>1, PostIs, NothingIs DEF ServerInv
    <3>2. CASE q # r
      BY <3>2, PostIs DEF ServerInv, RequestInv, Elsewhere
    <3> QED
      BY <3>1, <3>2
  <2>3. RequestInv'
    BY <2>2 DEF RequestInv
  <2>4. ASSUME NEW q \in Requests, NEW k \in DOMAIN results'[q]
        PROVE  RouteIsThere(q, k)'
    <3>1. q # r
      BY <2>1, <2>4, PostIs, NothingIs DEF ServerInv
    <3> QED
      BY <2>4, <3>1, PostIs DEF ServerInv, RoutesInv, RouteIsThere, Elsewhere, Taken
  <2> QED
    BY <2>3, <2>4 DEF RoutesInv
<1> QED
  BY <1>1, <1>2 DEF ServerInv

LEMMA EndRequestIs ==
  ASSUME EndpointsTypeOK, NEW r \in Requests, EndRequest(r)
  PROVE  /\ EndpointsTypeOK' /\ routes' = routes /\ Elsewhere(r)
         /\ step'[r] = "idle" /\ creator'[r] = Nobody
         /\ todo'[r] = Nothing /\ results'[r] = Nothing
BY NothingFits DEF EndRequest, EndpointsTypeOK, Elsewhere

LEMMA EndRequestKeepsServer ==
  ASSUME ServerInv, NEW r \in Requests, EndRequest(r)
  PROVE  ServerInv' /\ RoutesStay
<1>1. EndpointsTypeOK' /\ RoutesStay /\ CreatorInv'
  BY EndRequestIs DEF ServerInv, RoutesStay, CreatorInv, Elsewhere
<1>2. RequestInv'
  BY EndRequestIs, NothingIs DEF ServerInv, RequestInv, Elsewhere
<1>3. ASSUME NEW q \in Requests, NEW k \in DOMAIN results'[q]
      PROVE  RouteIsThere(q, k)'
  <2>1. q # r
    BY <1>3, EndRequestIs, NothingIs DEF ServerInv
  <2> QED
    BY <1>3, <2>1, EndRequestIs DEF ServerInv, RoutesInv, RouteIsThere, Elsewhere, Taken
<1> QED
  BY <1>1, <1>2, <1>3 DEF ServerInv, RoutesInv

(* What the two ends of a create do to the request and to the routes. *)
Concluded(r, outcome) ==
  LET k == Current(r) IN
  /\ step'[r] \in {"create", "answered"}
  /\ step'[r] = "answered" <=> DOMAIN todo[r] = {k}
  /\ slug'[r] = Failed
  /\ DOMAIN todo'[r] = DOMAIN todo[r] \ {k}
  /\ \A x \in DOMAIN todo'[r] : todo'[r][x] = todo[r][x]
  /\ DOMAIN results'[r] = DOMAIN results[r] \cup {k}
  /\ results'[r][k] = outcome
  /\ \A x \in DOMAIN results[r] \ {k} : results'[r][x] = results[r][x]

Founded(r, s) ==
  /\ ~Taken(s) /\ NewRoute(r) \in Route
  /\ routes' = [routes EXCEPT ![s] = NewRoute(r)]

LEMMA CurrentIs ==
  ASSUME ServerInv, NEW r \in Requests, step[r] \in {"create", "insert"}
  PROVE  Current(r) \in DOMAIN todo[r] /\ Current(r) \in Keys /\ NewRoute(r) \in Route
<1>1. Current(r) \in DOMAIN todo[r]
  BY DEF ServerInv, RequestInv, Current
<1>2. todo[r] \in Batch /\ creator[r] \in Creators
  BY DEF ServerInv, EndpointsTypeOK, CreatorInv
<1>3. Current(r) \in Keys /\ todo[r][Current(r)] \in Credential
  BY <1>1, <1>2, BatchIs
<1> QED
  BY <1>1, <1>2, <1>3 DEF NewRoute, Route

LEMMA ConcludeIs ==
  ASSUME ServerInv, NEW r \in Requests, step[r] \in {"create", "insert"},
         NEW outcome \in Slugs \cup {Failed}, Conclude(r, outcome), creator' = creator
  PROVE  /\ Concluded(r, outcome) /\ Elsewhere(r)
         /\ step' \in [Requests -> {"idle", "refused", "create", "insert", "answered"}]
         /\ todo' \in [Requests -> Batch] /\ results' \in [Requests -> Results]
         /\ slug' \in [Requests -> Slugs \cup {Failed}]
<1> DEFINE k == Current(r)
           rest == Restrict(todo[r], DOMAIN todo[r] \ {k})
           news == Over([x \in {k} |-> outcome], results[r])
           to == IF DOMAIN todo[r] = {k} THEN "answered" ELSE "create"
<1>1. EndpointsTypeOK
  BY DEF ServerInv
<1>2. /\ results' = [results EXCEPT ![r] = news] /\ todo' = [todo EXCEPT ![r] = rest]
      /\ step' = [step EXCEPT ![r] = to] /\ slug' = [slug EXCEPT ![r] = Failed]
  BY <1>1 DEF Conclude, EndpointsTypeOK
<1>3. k \in Keys /\ k \in DOMAIN todo[r]
  BY CurrentIs
<1>4. /\ DOMAIN rest = DOMAIN todo[r] \ {k} /\ rest = [x \in DOMAIN rest |-> todo[r][x]]
      /\ \A x \in DOMAIN rest : rest[x] = todo[r][x]
  BY DEF Restrict
<1>5. rest \in Batch
  BY <1>1, <1>4, BatchIs DEF EndpointsTypeOK
<1>6. /\ DOMAIN news = DOMAIN results[r] \cup {k} /\ news[k] = outcome
      /\ \A x \in DOMAIN results[r] \ {k} : news[x] = results[r][x]
      /\ news = [x \in DOMAIN news |-> news[x]]
  BY OverIs DEF Over
<1>7. news \in Results
  <2>1. results[r] \in Results
    BY <1>1 DEF EndpointsTypeOK
  <2>2. DOMAIN news \subseteq Keys /\ \A x \in DOMAIN news : news[x] \in Slugs \cup {Failed}
    BY <1>3, <1>6, <2>1, ResultsAre
  <2> HIDE DEF news
  <2> QED
    BY <1>6, <2>2, ResultsAre
<1> HIDE DEF news, rest
<1>8. Concluded(r, outcome)
  <2>1. results'[r] = news /\ todo'[r] = rest /\ step'[r] = to /\ slug'[r] = Failed
    BY <1>1, <1>2 DEF EndpointsTypeOK
  <2> QED
    BY <1>4, <1>6, <2>1 DEF Concluded
<1>9. Elsewhere(r)
  BY <1>1, <1>2 DEF Elsewhere, EndpointsTypeOK
<1> QED
  BY <1>1, <1>2, <1>5, <1>7, <1>8, <1>9 DEF EndpointsTypeOK

LEMMA ServeIs ==
  ASSUME ServerInv, NEW r \in Requests, Serve(r)
  PROVE  /\ step[r] \in {"create", "insert"} /\ creator' = creator /\ Elsewhere(r)
         /\ EndpointsTypeOK'
         /\ \/ /\ step'[r] = "insert" /\ slug'[r] \in Slugs
               /\ UNCHANGED <<routes, todo, results>>
            \/ Concluded(r, Failed) /\ routes' = routes
            \/ \E s \in Slugs : Concluded(r, s) /\ Founded(r, s)
<1>1. EndpointsTypeOK
  BY DEF ServerInv
<1>2. CASE \E s \in Slugs : Create(r, s)
  BY <1>1, <1>2 DEF Create, Elsewhere, EndpointsTypeOK
<1>3. CASE CreateFails(r)
  BY <1>1, <1>3, ConcludeIs DEF CreateFails, EndpointsTypeOK
<1>4. CASE InsertRoute(r)
  <2>1. step[r] = "insert" /\ creator' = creator /\ slug[r] \in Slugs
    BY <1>4 DEF InsertRoute, ServerInv, RequestInv
  <2>2. CASE Taken(slug[r])
    BY <1>1, <1>4, <2>1, <2>2, ConcludeIs DEF InsertRoute, EndpointsTypeOK
  <2>3. CASE ~Taken(slug[r])
    <3>1. Conclude(r, slug[r]) /\ Founded(r, slug[r])
      BY <1>4, <2>1, <2>3, CurrentIs DEF InsertRoute, Founded
    <3>2. routes' \in [Slugs -> Route \cup {NoRoute}]
      BY <1>1, <3>1 DEF Founded, EndpointsTypeOK
    <3> QED
      BY <1>1, <2>1, <3>1, <3>2, ConcludeIs DEF EndpointsTypeOK
  <2> QED
    BY <2>2, <2>3
<1> QED
  BY <1>2, <1>3, <1>4 DEF Serve

LEMMA UnheardIs ==
  ASSUME ServerInv, NEW r \in Requests, InsertUnheard(r)
  PROVE  /\ step[r] \in {"create", "insert"} /\ creator' = creator /\ Elsewhere(r)
         /\ EndpointsTypeOK' /\ Concluded(r, Failed)
         /\ \E s \in Slugs : Founded(r, s)
<1>1. EndpointsTypeOK
  BY DEF ServerInv
<1>2. step[r] = "insert" /\ creator' = creator /\ slug[r] \in Slugs
  BY DEF InsertUnheard, ServerInv, RequestInv
<1>3. Conclude(r, Failed) /\ Founded(r, slug[r])
  BY <1>2, CurrentIs DEF InsertUnheard, Founded
<1>4. routes' \in [Slugs -> Route \cup {NoRoute}]
  BY <1>1, <1>3 DEF Founded, EndpointsTypeOK
<1> QED
  BY <1>1, <1>2, <1>3, <1>4, ConcludeIs DEF EndpointsTypeOK

LEMMA FoundedStays ==
  ASSUME EndpointsTypeOK, NEW r \in Requests, NEW s \in Slugs, Founded(r, s)
  PROVE  /\ RoutesStay /\ routes'[s] = NewRoute(r) /\ routes'[s] # NoRoute
         /\ \A x \in Slugs \ {s} : routes'[x] = routes[x]
BY EndpointConstants DEF Founded, RoutesStay, EndpointsTypeOK, Taken

LEMMA ServingKeepsServer ==
  ASSUME ServerInv, NEW r \in Requests, Serve(r) \/ InsertUnheard(r)
  PROVE  ServerInv' /\ RoutesStay
<1> DEFINE k == Current(r)
<1>1. EndpointsTypeOK
  BY DEF ServerInv
<1>2. /\ step[r] \in {"create", "insert"} /\ creator' = creator /\ Elsewhere(r)
      /\ EndpointsTypeOK' /\ k \in DOMAIN todo[r]
  BY ServeIs, UnheardIs, CurrentIs
<1>3. RoutesStay
  BY <1>1, ServeIs, UnheardIs, FoundedStays DEF RoutesStay
<1>4. CreatorInv'
  BY <1>2 DEF ServerInv, CreatorInv, Elsewhere
<1>5. RequestInv'
  <2>1. ASSUME NEW q \in Requests \ {r}
        PROVE  /\ step'[q] = step[q] /\ todo'[q] = todo[q] /\ results'[q] = results[q]
               /\ slug'[q] = slug[q]
    BY <1>2 DEF Elsewhere
  <2>2. /\ step'[r] \notin {"idle", "refused"}
        /\ step'[r] \in {"create", "insert"} => DOMAIN todo'[r] # {}
        /\ step'[r] = "answered" => DOMAIN todo'[r] = {}
        /\ step'[r] = "insert" => slug'[r] \in Slugs
        /\ DOMAIN todo'[r] \cap DOMAIN results'[r] = {}
    <3>1. DOMAIN todo[r] \cap DOMAIN results[r] = {}
      BY DEF ServerInv, RequestInv
    <3>2. CASE step'[r] = "insert" /\ slug'[r] \in Slugs /\ UNCHANGED <<routes, todo, results>>
      BY <1>2, <3>1, <3>2
    <3>3. CASE \E outcome \in Slugs \cup {Failed} : Concluded(r, outcome)
      BY <1>2, <3>1, <3>3 DEF Concluded
    <3> QED
      BY <3>2, <3>3, ServeIs, UnheardIs
  <2> QED
    BY <2>1, <2>2 DEF ServerInv, RequestInv
<1>6. ASSUME NEW q \in Requests, NEW x \in DOMAIN results'[q]
      PROVE  RouteIsThere(q, x)'
  <2>1. CASE x \in DOMAIN results[q] /\ results'[q][x] = results[q][x]
    <3>1. RouteIsThere(q, x)
      BY <2>1 DEF ServerInv, RoutesInv
    <3> QED
      BY <1>2, <1>3, <2>1, <3>1 DEF RouteIsThere, RoutesStay, Taken
  <2>2. CASE results'[q][x] = Failed
    BY <2>2 DEF RouteIsThere
  <2>3. CASE q = r /\ x = k /\ \E s \in Slugs : results'[q][x] = s /\ Founded(r, s)
    <3>1. PICK s \in Slugs : results'[q][x] = s /\ Founded(r, s)
      BY <2>3
    <3>2. routes'[s] = NewRoute(r) /\ routes'[s] # NoRoute
      BY <1>1, <3>1, FoundedStays
    <3> QED
      BY <1>2, <2>3, <3>1, <3>2 DEF RouteIsThere, NewRoute, Taken
  <2>4. CASE q # r
    BY <1>2, <2>1, <2>4 DEF Elsewhere
  <2>5. CASE q = r
    BY <2>1, <2>2, <2>3, <2>5, ServeIs, UnheardIs DEF Concluded
  <2> QED
    BY <2>4, <2>5
<1> QED
  BY <1>2, <1>3, <1>4, <1>5, <1>6 DEF ServerInv, RoutesInv

-----------------------------------------------------------------------------
(* Types of the page, up to what it publishes *)

LEMMA RowsAre ==
  ASSUME NEW f
  PROVE  f \in Rows <=> DOMAIN f \subseteq Ops /\ f \in [DOMAIN f -> Row]
BY PartialMapsAre DEF Rows, PartialMaps

Statuses == {"ready", "unset", "blocked"}

LEMMA FoundIs ==
  ASSUME NEW f
  PROVE  f \in UNION {[K -> Statuses] : K \in SUBSET Ops}
           <=> DOMAIN f \subseteq Ops /\ f \in [DOMAIN f -> Statuses]
BY PartialMapsAre DEF PartialMaps

FlowTypeOK ==
  /\ stage \in {"input", "review", "configure", "results"}
  /\ text \in Texts \cup {NoText} /\ reading \subseteq Texts /\ parse \in Parses
  /\ found \in UNION {[K -> Statuses] : K \in SUBSET Ops}
  /\ source \in Texts \cup {NoText}
  /\ selected \subseteq DOMAIN found /\ overridden \in BOOLEAN
  /\ rows \in Rows

LEMMA FlowTypeInit == ASSUME ImportInit PROVE FlowTypeOK
BY RowsAre, FoundIs, NothingIs DEF ImportInit, FlowTypeOK, Settling, Parses, Nothing

LEMMA DiscoverIs ==
  ASSUME NEW doc \in Document, NEW public \in SUBSET Ops
  PROVE  DiscoverOperations(doc, public) \in UNION {[K -> Statuses] : K \in SUBSET Ops}
<1>1. \A o : Status(doc, o, public) \in Statuses
  BY DEF Status, Statuses
<1>2. doc.operations \subseteq Ops
  BY DEF Document
<1> DEFINE f == DiscoverOperations(doc, public)
<1>3. DOMAIN f \subseteq Ops /\ f \in [DOMAIN f -> Statuses]
  BY <1>1, <1>2 DEF DiscoverOperations
<1> QED
  BY <1>3, FoundIs

LEMMA InputKeepsTypes == ASSUME FlowTypeOK, StagesInv, Input PROVE FlowTypeOK'
<1>1. CASE \E t \in Texts : UpdateSpec(t) \/ PickFile(t) \/ FileRead(t)
  BY <1>1 DEF UpdateSpec, PickFile, FileRead, FlowTypeOK, Settling, Parses, review, publish
<1>2. CASE RunParse \/ BackToText
  BY <1>2 DEF RunParse, BackToText, FlowTypeOK, Settling, Parses, review, publish
<1>3. ASSUME NEW answered \in BOOLEAN, NEW public \in SUBSET Ops,
             ParseAnswered(answered, public)
      PROVE  FlowTypeOK'
  <2> DEFINE doc == Content[parse.text]
  <2>1. CASE UNCHANGED <<stage, review>> /\ parse' \in {Settling("failed"), Settling("empty")}
    BY <1>3, <2>1 DEF ParseAnswered, FlowTypeOK, Settling, Parses, review
  <2>2. CASE /\ parse' = Settling("idle") /\ stage' = "review" /\ answered /\ doc.flaw = "none"
             /\ found' = DiscoverOperations(doc, public) /\ source' = parse.text
             /\ selected' = {} /\ overridden' = FALSE
    <3>1. parse.text \in Texts \cup {NoText} /\ source' \in Texts \cup {NoText}
      BY <2>2 DEF FlowTypeOK, Parses
    <3>2. parse.text \in Texts
      BY <1>3, <3>1 DEF ParseAnswered, StagesInv
    <3>3. doc \in Document
      BY <3>2, ImportConstants
    <3>4. found' \in UNION {[K -> Statuses] : K \in SUBSET Ops}
      BY <2>2, <3>3, DiscoverIs
    <3> QED
      BY <1>3, <2>2, <3>1, <3>4 DEF ParseAnswered, FlowTypeOK, Settling, Parses
  <2> QED
    BY <1>3, <2>1, <2>2 DEF ParseAnswered
<1> QED
  BY <1>1, <1>2, <1>3 DEF Input

LEMMA ReviewKeepsTypes == ASSUME FlowTypeOK, StagesInv, Review PROVE FlowTypeOK'
<1>1. Publishable \subseteq DOMAIN found
  BY DEF Publishable
<1>2. ASSUME NEW chosen \in SUBSET DOMAIN found, Select(chosen) PROVE FlowTypeOK'
  BY <1>2 DEF Select, FlowTypeOK, input, publish
<1>3. CASE \E o \in DOMAIN found : ToggleKey(o)
  <2>1. \E chosen \in SUBSET DOMAIN found : Select(chosen)
    BY <1>1, <1>3 DEF ToggleKey, FlowTypeOK
  <2> QED
    BY <1>2, <2>1
<1>4. CASE ToggleAllPublishable \/ ClearAll
  BY <1>1, <1>2, <1>4 DEF ToggleAllPublishable, ClearAll
<1>5. CASE BackToSpec \/ \E value \in Boxes : ChangeBaseUrlOverride(value)
  BY <1>5 DEF BackToSpec, ChangeBaseUrlOverride, ParsePublicHttpsUrl, FlowTypeOK, input, review, publish
<1>6. CASE Continue
  <2>1. /\ rows' = [o \in selected |-> "incomplete"] /\ stage' = "configure"
        /\ UNCHANGED <<text, reading, parse, found, source, selected, overridden>>
    BY <1>6 DEF Continue, input, review
  <2>2. selected \subseteq Ops
    BY FoundIs DEF FlowTypeOK
  <2>3. DOMAIN rows' \subseteq Ops /\ rows' \in [DOMAIN rows' -> Row]
    BY <2>1, <2>2 DEF Row
  <2>4. rows' \in Rows
    BY <2>3, RowsAre
  <2> QED
    BY <2>1, <2>4 DEF FlowTypeOK
<1> QED
  BY <1>3, <1>4, <1>5, <1>6 DEF Review

LEMMA ConfigureKeepsTypes == ASSUME FlowTypeOK, Configure PROVE FlowTypeOK'
<1>1. ASSUME UNCHANGED <<input, review>>, stage' \in {"review", "configure", "results"},
             rows' \in Rows
      PROVE  FlowTypeOK'
  BY <1>1 DEF FlowTypeOK, input, review
<1>2. Nothing \in Rows
  BY RowsAre DEF Nothing
<1>3. DOMAIN rows \subseteq Ops /\ rows \in [DOMAIN rows -> Row]
  BY RowsAre DEF FlowTypeOK
<1>4. ASSUME NEW row \in Row, ApplyBatch(row) PROVE FlowTypeOK'
  <2>1. rows' = [o \in DOMAIN rows |-> row] /\ stage' = "configure"
    BY <1>4 DEF ApplyBatch
  <2>2. DOMAIN rows' \subseteq Ops /\ rows' \in [DOMAIN rows' -> Row]
    BY <1>3, <2>1
  <2> QED
    BY <1>1, <1>4, <2>1, <2>2, RowsAre DEF ApplyBatch
<1>5. ASSUME NEW row \in Row, NEW o \in Ops, UpdateRow(o, row) PROVE FlowTypeOK'
  <2>1. rows' = [rows EXCEPT ![o] = row] /\ stage' = "configure"
    BY <1>5 DEF UpdateRow
  <2>2. DOMAIN rows' \subseteq Ops /\ rows' \in [DOMAIN rows' -> Row]
    BY <1>3, <2>1
  <2> QED
    BY <1>1, <1>5, <2>1, <2>2, RowsAre DEF UpdateRow
<1>6. CASE BackToReview \/ Proceed
  BY <1>1, <1>2, <1>6 DEF BackToReview, Proceed
<1> QED
  BY <1>4, <1>5, <1>6 DEF Configure

LEMMA FlowTypeNext == ASSUME FlowTypeOK, StagesInv, [Next]_vars PROVE FlowTypeOK'
<1>1. ASSUME UNCHANGED <<stage, input, review, rows>> PROVE FlowTypeOK'
  BY <1>1 DEF FlowTypeOK, input, review
<1>2. CASE LeavePage \/ ResetFlow
  <2>1. Nothing \in Rows /\ Nothing \in UNION {[K -> Statuses] : K \in SUBSET Ops}
    BY RowsAre, FoundIs DEF Nothing
  <2>2. parse' \in Parses /\ reading' \subseteq Texts
    BY <1>2 DEF LeavePage, ResetFlow, Settling, Parses, FlowTypeOK
  <2>3. Fresh
    BY <1>2 DEF LeavePage, ResetFlow
  <2> QED
    BY <2>1, <2>2, <2>3, NothingIs DEF Fresh, FlowTypeOK
<1>3. CASE Input \/ Review \/ Configure
  BY <1>3, InputKeepsTypes, ReviewKeepsTypes, ConfigureKeepsTypes
<1>4. CASE Publish \/ LeavePage
  BY <1>1, <1>2, <1>4
     DEF Publish, RunPublish, RunRetry, Send, ResultsReceived, PublishRefused, AnswerLost
<1>5. CASE UNCHANGED import
  BY <1>1, <1>5 DEF import
<1>6. CASE \E r \in Requests : Working(r) \/ RequestOver(r)
  BY <1>1, <1>5, <1>6 DEF Working, RequestOver
<1>7. CASE \/ \E r \in Requests, auth \in Credential, admitted \in BOOLEAN : Submit(r, auth, admitted)
           \/ Created \/ CreateRefused \/ CreateUnanswered
  BY <1>5, <1>7 DEF Submit, Created, CreateRefused, CreateUnanswered
<1> QED
  BY <1>3, <1>4, <1>5, <1>6, <1>7 DEF Next, ImportStep, vars

-----------------------------------------------------------------------------
(* What the page publishes *)

PublishTypeOK ==
  /\ payload \in Batch /\ shown \in Results
  /\ sending \in {"none", "publish", "retry"}
  /\ mine \in Requests \cup {NoRequest}
  /\ doubt \subseteq Ops /\ before \subseteq Slugs

IsPublished(o, s) == s \in Slugs /\ Taken(s) /\ IsRouteOf(s, o, Importer, payload[o])

(* The request of the pending mutation is about what was sent, ... *)
MineInv ==
  /\ mine \in Requests /\ step[mine] # "idle" /\ creator[mine] = Importer
  /\ step[mine] # "refused" => DOMAIN todo[mine] \cup DOMAIN results[mine] = Sent
  /\ \A k \in DOMAIN todo[mine] : todo[mine][k] = payload[k]
  /\ \A k \in DOMAIN results[mine] :
       results[mine][k] # Failed => IsPublished(k, results[mine][k])

(* ... and the page shows a result for everything, or nothing. *)
ShownInv ==
  /\ shown # Nothing => DOMAIN shown = DOMAIN payload
  /\ \A o \in DOMAIN shown : shown[o] # Failed => IsPublished(o, shown[o])
  /\ sending = "publish" => shown = Nothing
  /\ sending = "retry" => shown # Nothing

SendInv ==
  /\ PublishTypeOK /\ ShownInv
  /\ InFlight => MineInv
  /\ ~InFlight => mine = NoRequest

(* Routes that are there stay: what concerns neither the page nor its       *)
(* request changes nothing here.                                            *)
LEMMA PublishedStays ==
  ASSUME RoutesStay, payload' = payload, NEW o, NEW s, IsPublished(o, s)
  PROVE  IsPublished(o, s)'
BY DEF RoutesStay, IsPublished, IsRouteOf, Taken

LEMMA SendRests ==
  ASSUME SendInv, RoutesStay, UNCHANGED <<payload, shown, sending, mine>>,
         doubt' \subseteq Ops, before' \subseteq Slugs,
         InFlight => /\ step'[mine] = step[mine] /\ creator'[mine] = creator[mine]
                     /\ todo'[mine] = todo[mine] /\ results'[mine] = results[mine]
  PROVE  SendInv'
<1>1. PublishTypeOK' /\ (~InFlight => mine = NoRequest)' /\ InFlight' = InFlight
  BY DEF SendInv, PublishTypeOK, InFlight
<1>2. ShownInv'
  BY PublishedStays DEF SendInv, ShownInv
<1>3. Sent' = Sent
  BY DEF Sent, FailedKeys
<1>4. ASSUME InFlight PROVE MineInv'
  <2>1. MineInv
    BY <1>4 DEF SendInv
  <2>2. \A k \in DOMAIN results[mine] :
          results[mine][k] # Failed => IsPublished(k, results[mine][k])'
    BY <1>4, <2>1, PublishedStays DEF MineInv
  <2> QED
    BY <1>3, <1>4, <2>1, <2>2 DEF MineInv
<1> QED
  BY <1>1, <1>2, <1>4 DEF SendInv

LEMMA OthersKeepSend ==
  ASSUME SendInv, RoutesStay, NEW r \in Requests, Elsewhere(r), ~(InFlight /\ r = mine),
         UNCHANGED <<payload, shown, sending, mine>>, doubt' \subseteq Ops, before' \subseteq Slugs
  PROVE  SendInv'
<1>1. InFlight => mine \in Requests \ {r}
  BY DEF SendInv, MineInv
<1> QED
  BY <1>1, SendRests DEF Elsewhere

LEMMA ServingKeepsSend ==
  ASSUME ServerInv, SendInv, NEW r \in Requests, Serve(r) \/ InsertUnheard(r),
         UNCHANGED <<payload, shown, sending, mine>>, doubt' \subseteq Ops, before' \subseteq Slugs
  PROVE  SendInv'
<1>1. RoutesStay /\ Elsewhere(r) /\ creator' = creator /\ step[r] \in {"create", "insert"}
  BY ServingKeepsServer, ServeIs, UnheardIs
<1>2. CASE ~(InFlight /\ r = mine)
  BY <1>1, <1>2, OthersKeepSend
<1>3. CASE InFlight /\ r = mine
  <2> DEFINE k == Current(r)
  <2>1. MineInv /\ Sent' = Sent /\ EndpointsTypeOK
    BY <1>3 DEF SendInv, Sent, FailedKeys, ServerInv
  <2>2. k \in DOMAIN todo[r] /\ todo[r][k] = payload[k]
    BY <1>1, <1>3, <2>1, CurrentIs DEF MineInv
  <2>3. step'[r] \in {"insert", "create", "answered"}
        /\ DOMAIN todo'[r] \cup DOMAIN results'[r] = DOMAIN todo[r] \cup DOMAIN results[r]
        /\ \A x \in DOMAIN todo'[r] : x \in DOMAIN todo[r] /\ todo'[r][x] = todo[r][x]
    <3>1. CASE step'[r] = "insert" /\ UNCHANGED <<todo, results>>
      BY <3>1
    <3>2. CASE \E outcome \in Slugs \cup {Failed} : Concluded(r, outcome)
      BY <2>2, <3>2 DEF Concluded
    <3> QED
      BY <3>1, <3>2, ServeIs, UnheardIs
  <2>4. ASSUME NEW x \in DOMAIN results'[r], results'[r][x] # Failed
        PROVE  IsPublished(x, results[r][x])'
    <3>1. CASE x \in DOMAIN results[r] /\ results'[r][x] = results[r][x]
      BY <1>1, <1>3, <2>1, <2>4, <3>1, PublishedStays DEF MineInv
    <3>2. ASSUME x = k, NEW s \in Slugs, results'[r][x] = s, Founded(r, s)
          PROVE  IsPublished(x, results[r][x])'
      <4>1. routes'[s] = NewRoute(r) /\ routes'[s] # NoRoute
        BY <2>1, <3>2, FoundedStays
      <4>2. NewRoute(r) = [key |-> k, creator |-> Importer, auth |-> payload[k]]
        BY <1>3, <2>1, <2>2 DEF NewRoute, MineInv
      <4> QED
        BY <3>2, <4>1, <4>2 DEF IsPublished, IsRouteOf, Taken
    <3> QED
      BY <2>4, <3>1, <3>2, ServeIs, UnheardIs DEF Concluded
  <2>5. MineInv'
    BY <1>1, <1>3, <2>1, <2>3, <2>4 DEF MineInv
  <2>6. ShownInv'
    BY <1>1, PublishedStays DEF SendInv, ShownInv
  <2> QED
    BY <1>3, <2>5, <2>6 DEF SendInv, PublishTypeOK, InFlight
<1> QED
  BY <1>2, <1>3

(* What a click on publish or on retry sends. *)
LEMMA SendIs ==
  ASSUME SendInv, StagesInv, NEW r \in Requests, NEW admitted \in BOOLEAN,
         RunPublish(r, admitted) \/ RunRetry(r, admitted)
  PROVE  \E batch \in Batch :
           /\ Post(r, Importer, batch, admitted)
           /\ sending' \in {"publish", "retry"} /\ mine' = r /\ Sent' = DOMAIN batch
           /\ \A k \in DOMAIN batch : batch[k] = payload[k]
           /\ sending' = "publish" => shown = Nothing
           /\ sending' = "retry" => shown # Nothing
           /\ ~InFlight /\ stage = "results"
           /\ UNCHANGED <<stage, payload, shown, doubt, before>>

<1>1. CASE RunPublish(r, admitted)
  <2>1. /\ Post(r, Importer, payload, admitted) /\ sending' = "publish" /\ mine' = r
        /\ shown = Nothing /\ ~InFlight /\ stage = "results"
        /\ UNCHANGED <<stage, payload, shown, doubt, before>>
    BY <1>1 DEF RunPublish, Send
  <2>2. payload \in Batch /\ Sent' = DOMAIN payload
    BY <2>1 DEF SendInv, PublishTypeOK, Sent
  <2> QED
    BY <2>1, <2>2
<1>2. CASE RunRetry(r, admitted)
  <2> DEFINE batch == Restrict(payload, FailedKeys)
  <2>1. /\ Post(r, Importer, batch, admitted) /\ sending' = "retry" /\ mine' = r
        /\ ~InFlight /\ stage = "results" /\ FailedKeys # {}
        /\ UNCHANGED <<stage, payload, shown, doubt, before>>
    BY <1>2 DEF RunRetry, Send
  <2>2. shown # Nothing /\ FailedKeys \subseteq DOMAIN payload
    BY <2>1, NothingIs DEF SendInv, ShownInv, FailedKeys
  <2>3. DOMAIN batch = FailedKeys /\ \A k \in FailedKeys : batch[k] = payload[k]
    BY DEF Restrict
  <2>4. batch \in Batch
    <3>1. payload \in Batch
      BY DEF SendInv, PublishTypeOK
    <3>2. DOMAIN batch \subseteq Keys /\ batch \in [DOMAIN batch -> Credential]
      BY <2>2, <3>1, BatchIs DEF Restrict
    <3> QED
      BY <3>2, BatchIs
  <2>5. Sent' = FailedKeys
    BY <2>1 DEF Sent, FailedKeys
  <2> QED
    BY <2>1, <2>2, <2>3, <2>4, <2>5
<1> QED
  BY <1>1, <1>2

LEMMA SendingKeepsSend ==
  ASSUME ServerInv, StagesInv, SendInv, NEW r \in Requests, NEW admitted \in BOOLEAN,
         RunPublish(r, admitted) \/ RunRetry(r, admitted)
  PROVE  SendInv' /\ ServerInv' /\ RoutesStay
<1>1. PICK batch \in Batch :
        /\ Post(r, Importer, batch, admitted)
        /\ sending' \in {"publish", "retry"} /\ mine' = r /\ Sent' = DOMAIN batch
        /\ \A k \in DOMAIN batch : batch[k] = payload[k]
        /\ sending' = "publish" => shown = Nothing
        /\ sending' = "retry" => shown # Nothing
        /\ UNCHANGED <<stage, payload, shown, doubt, before>>
  BY SendIs
<1>2. /\ ServerInv' /\ RoutesStay
      /\ step[r] = "idle" /\ step'[r] \in {"refused", "create"} /\ creator'[r] = Importer
      /\ results'[r] = results[r]
      /\ step'[r] # "refused" => todo'[r] = batch
      /\ step'[r] = "refused" => todo'[r] = todo[r]
  BY <1>1, PostIs, PostKeepsServer, ImportConstants DEF ServerInv
<1>3. results[r] = Nothing /\ todo[r] = Nothing
  BY <1>2 DEF ServerInv, RequestInv
<1>4. MineInv'
  <2>1. DOMAIN results'[r] = {} /\ DOMAIN todo'[r] \subseteq DOMAIN batch
    BY <1>2, <1>3, NothingIs
  <2>2. step'[r] # "refused" => DOMAIN todo'[r] \cup DOMAIN results'[r] = Sent'
    BY <1>1, <1>2, <2>1
  <2>3. \A k \in DOMAIN todo'[r] : todo'[r][k] = payload'[k]
    BY <1>1, <1>2, <1>3, NothingIs
  <2> QED
    BY <1>1, <1>2, <2>1, <2>2, <2>3 DEF MineInv
<1>5. ShownInv'
  BY <1>1, <1>2, PublishedStays DEF SendInv, ShownInv
<1> QED
  BY <1>1, <1>2, <1>4, <1>5 DEF SendInv, PublishTypeOK, InFlight

(* The answer to a publish is the results; that to a retry replaces those   *)
(* that were sent.                                                          *)
LEMMA ReceivedIs ==
  ASSUME ServerInv, SendInv, ResultsReceived
  PROVE  /\ shown' \in Results /\ InFlight /\ MineInv /\ step[mine] = "answered"
         /\ DOMAIN results[mine] = Sent
         /\ DOMAIN shown' = DOMAIN payload
         /\ \A o \in DOMAIN results[mine] : shown'[o] = results[mine][o]
         /\ \A o \in DOMAIN shown' \ DOMAIN results[mine] :
              o \in DOMAIN shown /\ shown'[o] = shown[o]
         /\ sending = "publish" => shown = Nothing
<1>1. InFlight /\ MineInv /\ step[mine] = "answered" /\ ShownInv /\ PublishTypeOK
  BY DEF ResultsReceived, SendInv
<1>2. DOMAIN results[mine] = Sent /\ results[mine] \in Results
  BY <1>1 DEF ServerInv, RequestInv, MineInv, EndpointsTypeOK
<1>3. CASE sending = "publish"
  <2>1. shown' = results[mine] /\ Sent = DOMAIN payload /\ shown = Nothing
    BY <1>1, <1>3 DEF ResultsReceived, Sent, ShownInv
  <2> QED
    BY <1>1, <1>2, <2>1
<1>4. CASE sending = "retry"
  <2>1. shown' = Over(results[mine], shown) /\ Sent = FailedKeys /\ DOMAIN shown = DOMAIN payload
    BY <1>1, <1>4 DEF ResultsReceived, Sent, ShownInv
  <2>2. /\ DOMAIN shown' = DOMAIN payload
        /\ \A o \in DOMAIN results[mine] : shown'[o] = results[mine][o]
        /\ \A o \in DOMAIN shown' \ DOMAIN results[mine] :
             o \in DOMAIN shown /\ shown'[o] = shown[o]
    BY <1>2, <2>1, OverIs DEF FailedKeys
  <2>3. shown \in Results
    BY <1>1 DEF PublishTypeOK
  <2>4. shown' = [o \in DOMAIN shown' |-> shown'[o]]
    BY <2>1 DEF Over
  <2>5. \A o \in DOMAIN shown' : shown'[o] \in Slugs \cup {Failed}
    BY <1>2, <2>2, <2>3, ResultsAre
  <2>6. DOMAIN shown' \subseteq Keys
    BY <2>1, <2>2, <2>3, ResultsAre
  <2>7. shown' \in Results
    BY <2>4, <2>5, <2>6, ResultsAre
  <2> QED
    BY <1>1, <1>2, <1>4, <2>2, <2>7
<1> QED
  BY <1>1, <1>3, <1>4 DEF InFlight, PublishTypeOK

LEMMA ReceivedKeepsSend ==
  ASSUME ServerInv, SendInv, ResultsReceived
  PROVE  SendInv' /\ ServerInv' /\ RoutesStay
<1>1. MineInv /\ InFlight /\ EndRequest(mine) /\ Settled
      /\ UNCHANGED <<payload, doubt, before>>
  BY ReceivedIs DEF ResultsReceived
<1>2. ServerInv' /\ RoutesStay
  BY <1>1, EndRequestKeepsServer DEF MineInv
<1>3. ASSUME NEW o \in DOMAIN shown', shown'[o] # Failed PROVE IsPublished(o, shown[o])'
  <2>1. IsPublished(o, shown'[o])
    BY <1>1, <1>3, ReceivedIs DEF MineInv, SendInv, ShownInv
  <2> QED
    BY <1>1, <1>2, <2>1 DEF RoutesStay, IsPublished, IsRouteOf, Taken
<1>4. ShownInv'
  BY <1>1, <1>3, ReceivedIs DEF ShownInv, Settled
<1> QED
  BY <1>1, <1>2, <1>4, ReceivedIs DEF SendInv, PublishTypeOK, Settled, InFlight

(* Nothing is on its way any more, and what is shown stays, or all of it is *)
(* gone.                                                                    *)
LEMMA SettledKeepsSend ==
  ASSUME SendInv, RoutesStay, Settled, doubt' \subseteq Ops, before' \subseteq Slugs,
         \/ UNCHANGED <<payload, shown>>
         \/ payload' = Nothing /\ shown' = Nothing
         \/ payload' \in Batch /\ shown = Nothing /\ shown' = Nothing
  PROVE  SendInv'
<1>1. ShownInv'
  <2>1. CASE UNCHANGED <<payload, shown>>
    BY <2>1, PublishedStays DEF SendInv, ShownInv, Settled
  <2>2. CASE shown' = Nothing
    BY <2>2, NothingIs DEF ShownInv, Settled
  <2> QED
    BY <2>1, <2>2
<1> QED
  BY <1>1, NothingFits DEF SendInv, PublishTypeOK, Settled, InFlight

LEMMA RefusedKeepsSend ==
  ASSUME ServerInv, SendInv, PublishRefused
  PROVE  SendInv' /\ ServerInv' /\ RoutesStay
<1>1. mine \in Requests /\ EndRequest(mine) /\ Settled
      /\ UNCHANGED <<payload, shown, doubt, before>>
  BY DEF PublishRefused, SendInv, MineInv
<1>2. ServerInv' /\ RoutesStay
  BY <1>1, EndRequestKeepsServer
<1> QED
  BY <1>1, <1>2, SettledKeepsSend DEF SendInv, PublishTypeOK

LEMMA ServerRests ==
  ASSUME ServerInv, UNCHANGED endpoints
  PROVE  ServerInv' /\ RoutesStay
BY DEF ServerInv, EndpointsTypeOK, RequestInv, RoutesInv, RouteIsThere, CreatorInv, RoutesStay,
       Taken, endpoints, request

LEMMA SentFits == ASSUME StagesInv, FlowTypeOK, SendInv PROVE Sent \subseteq Ops /\ DOMAIN payload \subseteq Ops
<1>1. DOMAIN payload \subseteq Ops
  BY FoundIs DEF StagesInv, FlowTypeOK, Publishable
<1>2. FailedKeys \subseteq DOMAIN payload
  BY NothingIs DEF SendInv, ShownInv, FailedKeys
<1> QED
  BY <1>1, <1>2 DEF Sent

LEMMA GoneKeepsSend ==
  ASSUME StagesInv, FlowTypeOK, ServerInv, SendInv, AnswerLost \/ ResetFlow \/ LeavePage
  PROVE  SendInv' /\ ServerInv' /\ RoutesStay
<1>1. ServerInv' /\ RoutesStay
  BY ServerRests DEF AnswerLost, ResetFlow, LeavePage
<1>2. Settled
  BY DEF AnswerLost, ResetFlow, LeavePage, Settled, SendInv, InFlight
<1>3. doubt' \subseteq Ops /\ before' \subseteq Slugs
  BY SentFits DEF AnswerLost, ResetFlow, LeavePage, Fresh, SendInv, PublishTypeOK
<1> QED
  BY <1>1, <1>2, <1>3, SettledKeepsSend DEF AnswerLost, ResetFlow, LeavePage, Fresh

(* The steps before publishing leave what is published alone, but for the   *)
(* last one.                                                                *)
LEMMA FlowMoves ==
  ASSUME StagesInv, Input \/ Review \/ Configure
  PROVE  /\ UNCHANGED <<endpoints, shown, sending, mine, doubt>>
         /\ \/ /\ UNCHANGED <<payload, before>>
               /\ stage' = "results" <=> stage = "results"
            \/ Proceed
<1>1. CASE Input
  <2>1. \A answered \in BOOLEAN, public \in SUBSET Ops :
          ParseAnswered(answered, public) =>
            /\ UNCHANGED <<endpoints, payload, shown, sending, mine, doubt, before>>
            /\ stage' # "results" /\ stage # "results"
    BY DEF ParseAnswered, StagesInv
  <2> QED
    BY <1>1, <2>1 DEF Input, UpdateSpec, PickFile, FileRead, RunParse, BackToText, publish
<1>2. CASE Review
  BY <1>2
     DEF Review, ToggleKey, ToggleAllPublishable, ClearAll, Select, BackToSpec, Continue,
         ChangeBaseUrlOverride, publish
<1>3. CASE Configure
  BY <1>3 DEF Configure, ApplyBatch, UpdateRow, BackToReview, Proceed, publish
<1> QED
  BY <1>1, <1>2, <1>3

LEMMA ProceedIs ==
  ASSUME StagesInv, FlowTypeOK, Proceed
  PROVE  /\ payload' \in Batch /\ stage' = "results" /\ stage = "configure"
         /\ shown = Nothing /\ ~InFlight
         /\ before' = {s \in Slugs : Taken(s)}
         /\ UNCHANGED <<endpoints, shown, sending, mine, doubt>>
<1>1. rows \in Rows /\ \A o \in DOMAIN rows : rows[o] \in Credential
  BY DEF Proceed, FlowTypeOK
<1>2. DOMAIN rows \subseteq Ops /\ rows \in [DOMAIN rows -> Row]
  BY <1>1, RowsAre
<1>3. rows \in [DOMAIN rows -> Credential]
  BY <1>1, <1>2
<1>4. rows \in Batch
  BY <1>2, <1>3, BatchIs, ImportConstants
<1> QED
  BY <1>4 DEF Proceed, StagesInv

LEMMA FlowKeepsSend ==
  ASSUME StagesInv, FlowTypeOK, ServerInv, SendInv, Input \/ Review \/ Configure
  PROVE  SendInv' /\ ServerInv' /\ RoutesStay
<1>1. ServerInv' /\ RoutesStay
  BY FlowMoves, ServerRests
<1>2. CASE UNCHANGED <<payload, before>>
  BY <1>1, <1>2, FlowMoves, SendRests DEF SendInv, PublishTypeOK, endpoints, request
<1>3. CASE Proceed
  <2>1. Settled
    BY <1>3, ProceedIs DEF Settled, SendInv, InFlight
  <2> QED
    BY <1>1, <1>3, <2>1, ProceedIs, SettledKeepsSend DEF SendInv, PublishTypeOK
<1> QED
  BY <1>2, <1>3, FlowMoves

-----------------------------------------------------------------------------
(* The form of the other creator *)

FormInv ==
  /\ form \in {"editing", "pending", "done"} /\ opened \in Slugs \cup {Failed}
  /\ form # "pending" => asked = NoRequest
  /\ form = "pending" =>
       /\ asked \in Requests /\ step[asked] # "idle" /\ creator[asked] = Author
       /\ step[asked] # "refused" => DOMAIN todo[asked] \cup DOMAIN results[asked] = {FormKey}
  /\ opened # Failed =>
       Taken(opened) /\ routes[opened].key = FormKey /\ routes[opened].creator = Author

LEMMA FormRests ==
  ASSUME FormInv, RoutesStay, UNCHANGED single,
         form = "pending" =>
           /\ step'[asked] \notin {"idle", "refused"} \/ step'[asked] = step[asked]
           /\ step'[asked] = "refused" \/ step[asked] # "refused"
           /\ creator'[asked] = creator[asked]
           /\ DOMAIN todo'[asked] \cup DOMAIN results'[asked]
                = DOMAIN todo[asked] \cup DOMAIN results[asked]
  PROVE  FormInv'
BY DEF FormInv, RoutesStay, single, Taken

LEMMA OthersKeepForm ==
  ASSUME FormInv, RoutesStay, UNCHANGED single, NEW r \in Requests, Elsewhere(r), r # asked
  PROVE  FormInv'
<1>1. form = "pending" => asked \in Requests \ {r}
  BY DEF FormInv
<1> QED
  BY <1>1, FormRests DEF Elsewhere

LEMMA ServingKeepsForm ==
  ASSUME ServerInv, FormInv, NEW r \in Requests, Serve(r) \/ InsertUnheard(r), UNCHANGED single
  PROVE  FormInv'
<1>1. RoutesStay /\ Elsewhere(r) /\ creator' = creator /\ step[r] \in {"create", "insert"}
  BY ServingKeepsServer, ServeIs, UnheardIs
<1>2. CASE r # asked
  BY <1>1, <1>2, OthersKeepForm
<1>3. CASE r = asked
  <2>1. step'[r] \in {"insert", "create", "answered"}
        /\ DOMAIN todo'[r] \cup DOMAIN results'[r] = DOMAIN todo[r] \cup DOMAIN results[r]
    <3>1. CASE step'[r] = "insert" /\ UNCHANGED <<todo, results>>
      BY <3>1
    <3>2. CASE \E outcome \in Slugs \cup {Failed} : Concluded(r, outcome)
      BY <1>1, <3>2, CurrentIs DEF Concluded
    <3> QED
      BY <3>1, <3>2, ServeIs, UnheardIs
  <2> QED
    BY <1>1, <1>3, <2>1, FormRests
<1> QED
  BY <1>2, <1>3

LEMMA SubmitKeeps ==
  ASSUME ServerInv, SendInv, FormInv, NEW r \in Requests, NEW auth \in Credential,
         NEW admitted \in BOOLEAN, Submit(r, auth, admitted)
  PROVE  ServerInv' /\ SendInv' /\ FormInv' /\ RoutesStay
<1> DEFINE batch == [k \in {FormKey} |-> auth]
<1>1. batch \in Batch /\ Author \in Creators
  BY BatchIs, FormConstants
<1>2. /\ Post(r, Author, batch, admitted) /\ form' = "pending" /\ asked' = r
      /\ UNCHANGED <<import, opened>>
  BY DEF Submit
<1>3. /\ ServerInv' /\ RoutesStay /\ Elsewhere(r) /\ step[r] = "idle"
      /\ creator'[r] = Author /\ results'[r] = results[r]
      /\ \/ step'[r] = "refused"
         \/ step'[r] = "create" /\ todo'[r] = batch
  BY <1>1, <1>2, PostIs, PostKeepsServer DEF ServerInv
<1>4. results[r] = Nothing
  BY <1>3 DEF ServerInv, RequestInv
<1>5. FormInv'
  BY <1>2, <1>3, <1>4, NothingIs DEF FormInv, RoutesStay, Taken
<1>6. ~(InFlight /\ r = mine)
  BY <1>3 DEF SendInv, MineInv
<1>7. SendInv'
  BY <1>2, <1>3, <1>6, OthersKeepSend DEF import, publish, SendInv, PublishTypeOK
<1> QED
  BY <1>3, <1>5, <1>7

LEMMA CreatedKeeps ==
  ASSUME ServerInv, SendInv, FormInv, Created \/ CreateRefused
  PROVE  ServerInv' /\ SendInv' /\ FormInv' /\ RoutesStay /\ Elsewhere(asked)
<1>1. /\ asked \in Requests /\ creator[asked] = Author /\ EndRequest(asked)
      /\ asked' = NoRequest /\ UNCHANGED import
  BY DEF Created, CreateRefused, FormInv
<1>2. ServerInv' /\ RoutesStay /\ Elsewhere(asked)
  BY <1>1, EndRequestIs, EndRequestKeepsServer DEF ServerInv
<1>3. ~(InFlight /\ asked = mine)
  BY <1>1, FormConstants DEF SendInv, MineInv
<1>4. SendInv'
  BY <1>1, <1>2, <1>3, OthersKeepSend DEF import, publish, SendInv, PublishTypeOK
<1>5. FormInv'
  <2>1. CASE opened' = opened /\ form' \in {"editing", "done"}
    BY <1>1, <1>2, <2>1 DEF FormInv, RoutesStay, Taken
  <2>2. CASE /\ opened' = results[asked][FormKey] /\ form' = "done"
             /\ results[asked][FormKey] # Failed /\ form = "pending" /\ step[asked] = "answered"
    <3>1. FormKey \in DOMAIN results[asked]
      BY <1>1, <2>2 DEF FormInv, ServerInv, RequestInv
    <3>2. RouteIsThere(asked, FormKey)
      BY <1>1, <3>1 DEF ServerInv, RoutesInv
    <3> QED
      BY <1>1, <1>2, <2>2, <3>2 DEF FormInv, RoutesStay, RouteIsThere, Taken
  <2> QED
    BY <2>1, <2>2 DEF Created, CreateRefused
<1> QED
  BY <1>2, <1>4, <1>5

LEMMA EndedKeeps ==
  ASSUME ServerInv, SendInv, FormInv, NEW r \in Requests, RequestOver(r)
  PROVE  ServerInv' /\ SendInv' /\ FormInv' /\ RoutesStay /\ Elsewhere(r)
<1>1. r # mine /\ r # asked /\ EndRequest(r) /\ UNCHANGED <<import, single>>
  BY DEF RequestOver
<1>2. ServerInv' /\ RoutesStay /\ Elsewhere(r)
  BY <1>1, EndRequestIs, EndRequestKeepsServer DEF ServerInv
<1> QED
  BY <1>1, <1>2, OthersKeepSend, OthersKeepForm DEF import, publish, SendInv, PublishTypeOK

(* A step of the import ends no request but its own.                        *)
LEMMA ImportKeepsForm ==
  ASSUME ServerInv, StagesInv, SendInv, FormInv, ImportStep, UNCHANGED single, RoutesStay
  PROVE  FormInv'
<1>1. CASE UNCHANGED endpoints
  BY <1>1, FormRests DEF endpoints, request
<1>2. ASSUME NEW r \in Requests, NEW admitted \in BOOLEAN,
             RunPublish(r, admitted) \/ RunRetry(r, admitted)
      PROVE  FormInv'
  <2>1. step[r] = "idle" /\ Elsewhere(r)
    BY <1>2, SendIs, PostIs, ImportConstants DEF ServerInv
  <2>2. r # asked
    BY <2>1, ImportConstants DEF FormInv
  <2> QED
    BY <2>1, <2>2, OthersKeepForm
<1>3. CASE ResultsReceived \/ PublishRefused
  <2>1. mine \in Requests /\ creator[mine] = Importer /\ EndRequest(mine)
    BY <1>3 DEF ResultsReceived, PublishRefused, SendInv, MineInv
  <2>2. mine # asked
    BY <2>1, FormConstants, ImportConstants DEF FormInv
  <2> QED
    BY <2>1, <2>2, OthersKeepForm, EndRequestIs DEF ServerInv
<1> QED
  BY <1>1, <1>2, <1>3, FlowMoves
     DEF ImportStep, Publish, AnswerLost, ResetFlow, LeavePage

-----------------------------------------------------------------------------
(* All of it together *)

RoutesAreOwned == StagesInv /\ FlowTypeOK /\ ServerInv /\ SendInv /\ FormInv

LEMMA OwnedInit == ASSUME Init PROVE RoutesAreOwned
<1>1. StagesInv /\ FlowTypeOK /\ ServerInv
  BY StagesInit, FlowTypeInit, ServerInit DEF Init
<1>2. SendInv
  BY NothingFits, NothingIs
     DEF Init, ImportInit, SendInv, PublishTypeOK, ShownInv, InFlight
<1>3. FormInv
  BY DEF Init, FormInv
<1> QED
  BY <1>1, <1>2, <1>3 DEF RoutesAreOwned

(* ServerStep in the hands of Working. *)
LEMMA WorkingIs ==
  ASSUME SendInv, NEW r \in Requests, Working(r)
  PROVE  /\ \/ Serve(r)
            \/ /\ InsertUnheard(r)
               /\ creator[r] = Importer => {Current(r)} \cap Ops \subseteq doubt'
         /\ UNCHANGED <<stage, payload, shown, sending, mine, before, single>>
         /\ doubt \subseteq doubt' /\ doubt' \subseteq Ops /\ before' \subseteq Slugs
BY DEF Working, ServerStep, Unheard, SendInv, PublishTypeOK

LEMMA ImportKeeps ==
  ASSUME RoutesAreOwned, ImportStep, UNCHANGED single
  PROVE  ServerInv' /\ SendInv' /\ FormInv' /\ RoutesStay
<1> USE DEF RoutesAreOwned
<1>1. ServerInv' /\ SendInv' /\ RoutesStay
  <2>1. CASE Input \/ Review \/ Configure
    BY <2>1, FlowKeepsSend
  <2>2. CASE \E r \in Requests, admitted \in BOOLEAN : RunPublish(r, admitted) \/ RunRetry(r, admitted)
    BY <2>2, SendingKeepsSend
  <2>3. CASE ResultsReceived \/ PublishRefused
    BY <2>3, ReceivedKeepsSend, RefusedKeepsSend
  <2>4. CASE AnswerLost \/ ResetFlow \/ LeavePage
    BY <2>4, GoneKeepsSend
  <2> QED
    BY <2>1, <2>2, <2>3, <2>4 DEF ImportStep, Publish
<1> QED
  BY <1>1, ImportKeepsForm

LEMMA OwnedNext == ASSUME RoutesAreOwned, [Next]_vars PROVE RoutesAreOwned' /\ RoutesStay
<1> USE DEF RoutesAreOwned
<1>1. StagesInv' /\ FlowTypeOK'
  BY StagesNext, FlowTypeNext
<1>2. CASE ImportStep /\ UNCHANGED single
  BY <1>1, <1>2, ImportKeeps
<1>3. CASE \E r \in Requests, auth \in Credential, admitted \in BOOLEAN : Submit(r, auth, admitted)
  BY <1>1, <1>3, SubmitKeeps
<1>4. CASE Created \/ CreateRefused
  BY <1>1, <1>4, CreatedKeeps
<1>5. CASE CreateUnanswered
  <2>1. UNCHANGED <<endpoints, import, opened>> /\ form' = "editing" /\ asked' = NoRequest
    BY <1>5 DEF CreateUnanswered
  <2>2. ServerInv' /\ RoutesStay
    BY <2>1, ServerRests
  <2>3. SendInv'
    BY <2>1, <2>2, SendRests DEF import, publish, endpoints, request, SendInv, PublishTypeOK
  <2>4. FormInv'
    BY <2>1, <2>2 DEF FormInv, RoutesStay, Taken
  <2> QED
    BY <1>1, <2>2, <2>3, <2>4
<1>6. CASE \E r \in Requests : Working(r)
  BY <1>1, <1>6, WorkingIs, ServingKeepsServer, ServingKeepsSend, ServingKeepsForm
<1>7. CASE \E r \in Requests : RequestOver(r)
  BY <1>1, <1>7, EndedKeeps
<1>8. CASE UNCHANGED vars
  <2>1. ServerInv' /\ RoutesStay
    BY <1>8, ServerRests DEF vars
  <2>2. SendInv'
    BY <1>8, <2>1, SendRests DEF vars, import, publish, endpoints, request, SendInv, PublishTypeOK
  <2>3. FormInv'
    BY <1>8, <2>1, FormRests DEF vars, endpoints, request
  <2> QED
    BY <1>1, <2>1, <2>2, <2>3
<1> QED
  BY <1>2, <1>3, <1>4, <1>5, <1>6, <1>7, <1>8 DEF Next

(* The inductive invariant: every result, shown or on its way, that names a  *)
(* slug names a route of the creator who asked for it.                      *)
THEOREM Invariance == Spec => []RoutesAreOwned
<1>1. Init => RoutesAreOwned
  BY OwnedInit
<1>2. RoutesAreOwned /\ [Next]_vars => RoutesAreOwned'
  BY OwnedNext
<1> QED
  BY <1>1, <1>2, PTL DEF Spec

(* The types of the server, the import and the form. *)
THEOREM TypeCorrect == Spec => []TypeOK
<1>1. RoutesAreOwned => TypeOK
  BY ImportConstants
     DEF RoutesAreOwned, ServerInv, FlowTypeOK, Statuses, SendInv, PublishTypeOK, FormInv,
         TypeOK, EndpointsTypeOK, ImportTypeOK
<1> QED
  BY <1>1, Invariance, PTL

(* A powered URL shown to a creator is that creator's own route, with the   *)
(* credential that was configured, whoever else publishes                   *)
(* (service.ts:259, 282).                                                   *)
THEOREM PoweredUrlIsMineHolds == Spec => []PoweredUrlIsMine
<1>1. RoutesAreOwned => PoweredUrlIsMine
  BY DEF RoutesAreOwned, SendInv, ShownInv, IsPublished, FormInv, PoweredUrlIsMine, Listed
<1> QED
  BY <1>1, Invariance, PTL

-----------------------------------------------------------------------------
(* No operation twice *)

(* What is known of an operation: by the answer on its way, or the page.    *)
Known(o) ==
  IF InFlight /\ o \in DOMAIN results[mine] THEN results[mine][o]
  ELSE IF o \in DOMAIN shown THEN shown[o] ELSE Failed

BeforeInv == \A s \in before : Taken(s)

(* What a request that nobody listens to may still create is in doubt, ... *)
OrphanInv ==
  \A r \in Requests :
    creator[r] = Importer /\ r # mine => DOMAIN todo[r] \cap Ops \subseteq doubt

(* ... and of anything else exactly the route that is known of exists.      *)
KnownInv ==
  stage = "results" => \A o \in Ops \ doubt : Imported(o) = {Known(o)} \ {Failed}

CountInv == BeforeInv /\ OrphanInv /\ KnownInv

LEMMA ImportedRests ==
  ASSUME routes' = routes, before' = before, NEW o
  PROVE  Imported(o)' = Imported(o)
BY DEF Imported, Listed, Taken

LEMMA ImportedGrows ==
  ASSUME EndpointsTypeOK, BeforeInv, before' = before, NEW r \in Requests, NEW s \in Slugs,
         Founded(r, s), NEW o
  PROVE  Imported(o)' = IF creator[r] = Importer /\ o = Current(r)
                          THEN Imported(o) \cup {s} ELSE Imported(o)
<1>1. /\ routes'[s] = NewRoute(r) /\ routes'[s] # NoRoute
      /\ \A x \in Slugs \ {s} : routes'[x] = routes[x]
  BY FoundedStays
<1>2. s \notin before /\ s \notin Imported(o)
  BY DEF Founded, BeforeInv, Imported, Listed
<1>3. s \in Imported(o)' <=> creator[r] = Importer /\ o = Current(r)
  BY <1>1, <1>2 DEF Imported, Listed, Taken, NewRoute
<1>4. \A x \in Slugs \ {s} : x \in Imported(o)' <=> x \in Imported(o)
  BY <1>1 DEF Imported, Listed, Taken
<1>5. Imported(o)' \subseteq Slugs /\ Imported(o) \subseteq Slugs
  BY DEF Imported, Listed
<1> QED
  BY <1>2, <1>3, <1>4, <1>5

(* What a request other than the page's does changes nothing, unless it is  *)
(* the importer's and creates something.                                    *)
LEMMA OthersKeepCount ==
  ASSUME CountInv, SendInv, NEW r \in Requests, Elsewhere(r), ~(InFlight /\ r = mine),
         routes' = routes,
         UNCHANGED <<stage, shown, sending, mine, doubt, before>>,
         creator'[r] = Importer => DOMAIN todo'[r] \cap Ops \subseteq doubt
  PROVE  CountInv'
<1>1. BeforeInv'
  BY DEF CountInv, BeforeInv, Taken
<1>2. OrphanInv'
  BY DEF CountInv, OrphanInv, Elsewhere
<1>3. InFlight => mine \in Requests \ {r}
  BY DEF SendInv, MineInv
<1>4. \A o : Known(o)' = Known(o)
  BY <1>3 DEF Known, InFlight, Elsewhere
<1>5. KnownInv'
  BY <1>4, ImportedRests DEF CountInv, KnownInv
<1> QED
  BY <1>1, <1>2, <1>5 DEF CountInv

LEMMA FlowKeepsCount ==
  ASSUME RoutesAreOwned, CountInv, Input \/ Review \/ Configure
  PROVE  CountInv'
<1> USE DEF RoutesAreOwned
<1>1. UNCHANGED <<endpoints, shown, sending, mine, doubt>>
  BY FlowMoves
<1>2. OrphanInv' /\ \A o : Known(o)' = Known(o)
  BY <1>1 DEF CountInv, OrphanInv, Known, InFlight, endpoints, request
<1>3. CASE UNCHANGED <<payload, before>> /\ (stage' = "results" <=> stage = "results")
  BY <1>1, <1>2, <1>3, ImportedRests
     DEF CountInv, BeforeInv, KnownInv, Taken, endpoints
<1>4. CASE Proceed
  <2>1. \A o : Known(o) = Failed
    BY <1>4, ProceedIs, NothingIs DEF Known
  <2>2. \A o : Imported(o)' = {}
    BY <1>1, <1>4, ProceedIs DEF Imported, Listed, Taken, endpoints
  <2>3. BeforeInv'
    BY <1>1, <1>4, ProceedIs DEF BeforeInv, Taken, endpoints
  <2> QED
    BY <1>2, <2>1, <2>2, <2>3 DEF CountInv, KnownInv
<1> QED
  BY <1>3, <1>4, FlowMoves

LEMMA SendingKeepsCount ==
  ASSUME RoutesAreOwned, CountInv, NEW r \in Requests, NEW admitted \in BOOLEAN,
         RunPublish(r, admitted) \/ RunRetry(r, admitted)
  PROVE  CountInv'
<1> USE DEF RoutesAreOwned
<1>1. PICK batch \in Batch :
        /\ Post(r, Importer, batch, admitted) /\ mine' = r /\ ~InFlight
        /\ UNCHANGED <<stage, payload, shown, doubt, before>>
  BY SendIs
<1>2. /\ routes' = routes /\ Elsewhere(r) /\ step[r] = "idle" /\ results'[r] = results[r]
  BY <1>1, PostIs, ImportConstants DEF ServerInv
<1>3. results[r] = Nothing
  BY <1>2 DEF ServerInv, RequestInv
<1>4. \A o : Known(o)' = Known(o)
  BY <1>1, <1>2, <1>3, NothingIs DEF Known
<1>5. mine = NoRequest
  BY <1>1 DEF SendInv
<1>6. OrphanInv'
  BY <1>1, <1>2, <1>5, ImportConstants DEF CountInv, OrphanInv, Elsewhere
<1>7. BeforeInv' /\ KnownInv'
  BY <1>1, <1>2, <1>4, ImportedRests DEF CountInv, BeforeInv, KnownInv, Taken
<1> QED
  BY <1>6, <1>7 DEF CountInv

LEMMA AnsweredKeepsCount ==
  ASSUME RoutesAreOwned, CountInv, ResultsReceived \/ PublishRefused
  PROVE  CountInv'
<1> USE DEF RoutesAreOwned
<1>1. /\ MineInv /\ InFlight /\ EndRequest(mine) /\ Settled
      /\ UNCHANGED <<stage, doubt, before>>
  BY DEF ResultsReceived, PublishRefused, SendInv
<1>2. routes' = routes /\ Elsewhere(mine) /\ creator'[mine] = Nobody /\ mine \in Requests
  BY <1>1, EndRequestIs DEF MineInv, ServerInv
<1>3. \A o : Known(o)' = Known(o)
  <2>1. ~InFlight'
    BY <1>1 DEF Settled, InFlight
  <2>2. CASE ResultsReceived
    <3>1. DOMAIN results[mine] = Sent /\ DOMAIN shown' = DOMAIN payload
      BY <2>2, ReceivedIs
    <3>2. Sent \subseteq DOMAIN payload /\ DOMAIN shown \subseteq DOMAIN payload
      BY NothingIs DEF SendInv, ShownInv, Sent, FailedKeys
    <3> QED
      BY <1>1, <2>1, <2>2, <3>1, <3>2, ReceivedIs DEF Known
  <2>3. CASE PublishRefused
    <3>1. results[mine] = Nothing /\ shown' = shown
      BY <1>2, <2>3 DEF PublishRefused, ServerInv, RequestInv
    <3> QED
      BY <2>1, <3>1, NothingIs DEF Known
  <2> QED
    BY <2>2, <2>3
<1>4. OrphanInv'
  BY <1>1, <1>2, EndpointConstants, ImportConstants DEF CountInv, OrphanInv, Elsewhere
<1>5. BeforeInv' /\ KnownInv'
  BY <1>1, <1>2, <1>3, ImportedRests DEF CountInv, BeforeInv, KnownInv, Taken
<1> QED
  BY <1>4, <1>5 DEF CountInv

(* A lost answer leaves what was sent in doubt. *)
LEMMA GoneKeepsCount ==
  ASSUME RoutesAreOwned, CountInv, AnswerLost \/ ResetFlow \/ LeavePage
  PROVE  CountInv'
<1> USE DEF RoutesAreOwned
<1>1. UNCHANGED endpoints /\ mine' = NoRequest /\ sending' = "none" /\ doubt \subseteq doubt'
  BY DEF AnswerLost, ResetFlow, LeavePage, Settled, SendInv, InFlight
<1>2. InFlight => Sent \subseteq doubt'
  BY DEF AnswerLost, ResetFlow, LeavePage
<1>3. InFlight => DOMAIN todo[mine] \subseteq Sent /\ DOMAIN results[mine] \subseteq Sent
  BY NothingIs DEF SendInv, MineInv, ServerInv, RequestInv
<1>4. OrphanInv'
  <2>1. ASSUME NEW r \in Requests, creator[r] = Importer
        PROVE  DOMAIN todo[r] \cap Ops \subseteq doubt'
    <3>1. CASE r = mine
      <4>1. InFlight
        BY <3>1, ImportConstants DEF SendInv
      <4> QED
        BY <1>2, <1>3, <3>1, <4>1
    <3>2. CASE r # mine
      BY <1>1, <2>1, <3>2 DEF CountInv, OrphanInv
    <3> QED
      BY <3>1, <3>2
  <2> QED
    BY <1>1, <2>1 DEF OrphanInv, endpoints, request
<1>5. CASE AnswerLost
  <2>1. UNCHANGED <<stage, shown, before>>
    BY <1>5 DEF AnswerLost
  <2>2. \A o \in Ops \ doubt' : Known(o)' = Known(o)
    BY <1>1, <1>2, <1>3, <2>1 DEF Known, InFlight
  <2> QED
    BY <1>1, <1>4, <2>1, <2>2, ImportedRests
       DEF CountInv, BeforeInv, KnownInv, Taken, endpoints
<1>6. CASE ResetFlow \/ LeavePage
  <2>1. before' = {} /\ stage' = "input"
    BY <1>6 DEF ResetFlow, LeavePage, Fresh
  <2> QED
    BY <1>4, <2>1 DEF CountInv, BeforeInv, KnownInv
<1> QED
  BY <1>5, <1>6

LEMMA ServingKeepsCount ==
  ASSUME RoutesAreOwned, CountInv, NEW r \in Requests, Working(r)
  PROVE  CountInv'
<1> USE DEF RoutesAreOwned
<1>0. PICK k : k = Current(r)
  OBVIOUS
<1>1. /\ UNCHANGED <<stage, payload, shown, sending, mine, before>>
      /\ doubt \subseteq doubt' /\ doubt' \subseteq Ops
  BY WorkingIs
<1>2. /\ RoutesStay /\ Elsewhere(r) /\ creator' = creator /\ k \in DOMAIN todo[r]
      /\ step[r] \in {"create", "insert"} /\ EndpointsTypeOK
  BY <1>0, WorkingIs, ServingKeepsServer, ServeIs, UnheardIs, CurrentIs DEF ServerInv
<1>3. BeforeInv'
  <2>1. \A s \in before : s \in Slugs
    BY DEF SendInv, PublishTypeOK
  <2> QED
    BY <1>1, <1>2, <2>1 DEF CountInv, BeforeInv, RoutesStay, Taken
<1>4. OrphanInv'
  <2>1. DOMAIN todo'[r] \subseteq DOMAIN todo[r]
    BY WorkingIs, ServeIs, UnheardIs DEF Concluded
  <2> QED
    BY <1>1, <1>2, <2>1 DEF CountInv, OrphanInv, Elsewhere
<1>5. ASSUME NEW o \in Ops \ doubt', ~(creator[r] = Importer /\ o = k)
      PROVE  Imported(o)' = Imported(o)
  BY <1>0, <1>1, <1>2, <1>5, WorkingIs, ServeIs, UnheardIs, ImportedRests, ImportedGrows
     DEF CountInv
<1>6. ASSUME NEW o \in Ops \ doubt', ~(creator[r] = Importer /\ o = k)
      PROVE  Known(o)' = Known(o)
  <2>1. CASE InFlight /\ mine = r
    <3>1. o # k
      BY <1>6, <2>1 DEF SendInv, MineInv
    <3>2. \/ results' = results
          \/ \E outcome \in Slugs \cup {Failed} : Concluded(r, outcome)
      BY WorkingIs, ServeIs, UnheardIs
    <3> QED
      BY <1>0, <1>1, <2>1, <3>1, <3>2 DEF Known, InFlight, Concluded
  <2>2. CASE ~(InFlight /\ mine = r)
    <3>1. InFlight => mine \in Requests \ {r}
      BY <2>2 DEF SendInv, MineInv
    <3> QED
      BY <1>1, <1>2, <3>1 DEF Known, InFlight, Elsewhere
  <2> QED
    BY <2>1, <2>2
<1>7. ASSUME k \in Ops \ doubt', creator[r] = Importer, stage = "results"
      PROVE  Imported(k)' = {Known(k)'} \ {Failed}
  <2>1. r = mine
    BY <1>1, <1>2, <1>7 DEF CountInv, OrphanInv
  <2>2. InFlight /\ MineInv
    BY <2>1, ImportConstants DEF SendInv
  <2>3. k \notin DOMAIN results[mine] /\ k \in Sent
    BY <1>2, <2>1, <2>2 DEF MineInv, ServerInv, RequestInv
  <2>4. Known(k) = Failed
    BY <2>2, <2>3, NothingIs DEF Known, SendInv, ShownInv, Sent, FailedKeys, PublishTypeOK, InFlight
  <2>5. Imported(k) = {}
    BY <1>1, <1>7, <2>4 DEF CountInv, KnownInv
  <2>6. Serve(r)
    BY <1>0, <1>7, WorkingIs
  <2>7. CASE UNCHANGED <<routes, todo, results>>
    <3>1. Known(k)' = Known(k)
      BY <1>1, <2>7 DEF Known, InFlight
    <3> QED
      BY <1>1, <2>4, <2>5, <2>7, <3>1, ImportedRests
  <2>8. CASE Concluded(r, Failed) /\ routes' = routes
    <3>1. Known(k)' = Failed
      BY <1>0, <1>1, <2>1, <2>2, <2>8 DEF Known, InFlight, Concluded
    <3> QED
      BY <1>1, <2>5, <2>8, <3>1, ImportedRests
  <2>9. ASSUME NEW s \in Slugs, Concluded(r, s), Founded(r, s)
        PROVE  Imported(k)' = {Known(k)'} \ {Failed}
    <3>1. Known(k)' = s
      BY <1>0, <1>1, <2>1, <2>2, <2>9 DEF Known, InFlight, Concluded
    <3>2. Imported(k)' = {s}
      BY <1>0, <1>1, <1>2, <1>7, <2>5, <2>9, ImportedGrows DEF CountInv
    <3> QED
      BY <3>1, <3>2, EndpointConstants
  <2> QED
    BY <2>6, <2>7, <2>8, <2>9, ServeIs
<1>8. KnownInv'
  <2>1. ASSUME stage' = "results", NEW o \in Ops \ doubt'
        PROVE  Imported(o)' = {Known(o)'} \ {Failed}
    <3>1. CASE creator[r] = Importer /\ o = k
      BY <1>1, <1>7, <2>1, <3>1
    <3>2. CASE ~(creator[r] = Importer /\ o = k)
      BY <1>1, <1>5, <1>6, <2>1, <3>2 DEF CountInv, KnownInv
    <3> QED
      BY <3>1, <3>2
  <2> QED
    BY <2>1 DEF KnownInv
<1> QED
  BY <1>3, <1>4, <1>8 DEF CountInv

LEMMA CountNext ==
  ASSUME RoutesAreOwned, CountInv, [Next]_vars
  PROVE  CountInv'
<1> USE DEF RoutesAreOwned
<1>1. CASE ImportStep
  BY <1>1, FlowKeepsCount, SendingKeepsCount, AnsweredKeepsCount, GoneKeepsCount
     DEF ImportStep, Publish
<1>2. ASSUME NEW r \in Requests, NEW auth \in Credential, NEW admitted \in BOOLEAN,
             Submit(r, auth, admitted)
      PROVE  CountInv'
  <2> DEFINE batch == [k \in {FormKey} |-> auth]
  <2>1. batch \in Batch
    BY BatchIs, FormConstants
  <2>2. /\ routes' = routes /\ Elsewhere(r) /\ step[r] = "idle" /\ creator'[r] = Author
        /\ UNCHANGED import
    BY <1>2, <2>1, PostIs, FormConstants DEF Submit, ServerInv
  <2>3. ~(InFlight /\ r = mine)
    BY <2>2 DEF SendInv, MineInv
  <2> QED
    BY <2>2, <2>3, OthersKeepCount, FormConstants DEF import, publish
<1>3. CASE Created \/ CreateRefused
  <2>1. /\ asked \in Requests /\ creator[asked] = Author /\ EndRequest(asked)
        /\ UNCHANGED import
    BY <1>3 DEF Created, CreateRefused, FormInv
  <2>2. ~(InFlight /\ asked = mine)
    BY <2>1, FormConstants DEF SendInv, MineInv
  <2> QED
    BY <2>1, <2>2, EndRequestIs, OthersKeepCount, EndpointConstants, ImportConstants
       DEF ServerInv, import, publish
<1>4. CASE CreateUnanswered \/ UNCHANGED vars
  <2>1. UNCHANGED <<endpoints, import>>
    BY <1>4 DEF CreateUnanswered, vars
  <2>2. OrphanInv' /\ \A o : Known(o)' = Known(o)
    BY <2>1 DEF CountInv, OrphanInv, Known, InFlight, endpoints, request, import, publish
  <2> QED
    BY <2>1, <2>2, ImportedRests
       DEF CountInv, BeforeInv, KnownInv, Taken, endpoints, import, publish
<1>5. CASE \E r \in Requests : Working(r)
  BY <1>5, ServingKeepsCount
<1>6. ASSUME NEW r \in Requests, RequestOver(r) PROVE CountInv'
  <2>1. r # mine /\ EndRequest(r) /\ UNCHANGED import
    BY <1>6 DEF RequestOver
  <2> QED
    BY <2>1, EndRequestIs, OthersKeepCount, EndpointConstants, ImportConstants
       DEF ServerInv, import, publish
<1> QED
  BY <1>1, <1>2, <1>3, <1>4, <1>5, <1>6 DEF Next

(* Outside of doubt the routes an import created are those it knows of.     *)
THEOREM CountInvariance == Spec => []CountInv
<1>1. Init => CountInv
  BY NothingIs DEF Init, ImportInit, EndpointsInit, CountInv, BeforeInv, OrphanInv, KnownInv
<1>2. RoutesAreOwned /\ CountInv /\ [Next]_vars => CountInv'
  BY CountNext
<1> QED
  BY <1>1, <1>2, Invariance, PTL DEF Spec

(* However a publish, its retries, lost answers and other creators          *)
(* interleave, an import creates no operation twice unless an answer about  *)
(* it was lost (import-publish-results.tsx:50).                             *)
THEOREM AtMostOneRouteHolds == Spec => []AtMostOneRoute
<1>1. ASSUME NEW x, NEW y PROVE Cardinality({x} \ {y}) <= 1
  <2>1. CASE x = y
    BY <2>1, FS_EmptySet, {x} \ {y} = {}
  <2>2. CASE x # y
    BY <2>2, FS_Singleton, {x} \ {y} = {x}
  <2> QED
    BY <2>1, <2>2
<1>2. CountInv => AtMostOneRoute
  BY <1>1 DEF CountInv, KnownInv, AtMostOneRoute
<1> QED
  BY <1>2, CountInvariance, PTL

(* An operation whose answers all arrived has a route exactly if the page   *)
(* shows one (publish/route.ts:130).                                        *)
THEOREM ResultsAreTrueHolds == Spec => []ResultsAreTrue
<1>1. ASSUME RoutesAreOwned, CountInv PROVE ResultsAreTrue
  <2>1. ASSUME stage = "results", ~InFlight, shown # Nothing
        PROVE  /\ DOMAIN shown = DOMAIN payload
               /\ \A o \in DOMAIN shown \ doubt : shown[o] # Failed <=> Imported(o) # {}
    <3>1. DOMAIN shown = DOMAIN payload /\ DOMAIN payload \subseteq Ops
      BY <1>1, <2>1, SentFits DEF RoutesAreOwned, SendInv, ShownInv
    <3>2. ASSUME NEW o \in DOMAIN shown \ doubt PROVE Imported(o) = {shown[o]} \ {Failed}
      BY <1>1, <2>1, <3>1, <3>2 DEF CountInv, KnownInv, Known
    <3> QED
      BY <3>1, <3>2
  <2> QED
    BY <2>1 DEF ResultsAreTrue
<1> QED
  BY <1>1, Invariance, CountInvariance, PTL
=============================================================================
