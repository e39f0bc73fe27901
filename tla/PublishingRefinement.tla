------------------------ MODULE PublishingRefinement ------------------------
(***************************************************************************)
(* Proof that Publishing implements PublishingPromise, on the invariants of *)
(* PublishingProofs.  Server, import and form are taken in turn: for each,  *)
(* a lemma says to which step of the promise its actions map.               *)
(***************************************************************************)
EXTENDS PublishingProofs

(* The form opens an endpoint at the end, and only then. *)
Unopened == form # "done" => opened = Failed

RInv == RoutesAreOwned /\ Unopened

LEMMA UnopenedNext == ASSUME Unopened, [Next]_vars PROVE Unopened'
<1>1. CASE UNCHANGED single
  BY <1>1 DEF Unopened, single
<1>2. CASE \/ \E r \in Requests, auth \in Credential, admitted \in BOOLEAN : Submit(r, auth, admitted)
           \/ Created \/ CreateRefused \/ CreateUnanswered
  BY <1>2 DEF Unopened, Submit, Created, CreateRefused, CreateUnanswered
<1> QED
  BY <1>1, <1>2 DEF Next, Working, RequestOver, vars

LEMMA RInvInit == ASSUME Init PROVE RInv
BY OwnedInit DEF RInv, Unopened, Init

LEMMA RInvNext == ASSUME RInv, [Next]_vars PROVE RInv'
BY OwnedNext, UnopenedNext DEF RInv

-----------------------------------------------------------------------------
(* The mapping, field by field *)

LEMMA NamedIs ==
  ASSUME NEW f, NEW x
  PROVE  x \in Named(f) <=>
           \E k \in DOMAIN f : f[k] # Failed /\ x = [key |-> k, slug |-> f[k]]
BY DEF Named

LEMMA NamedNothing == Named(Nothing) = {}
BY NothingIs, NamedIs

Total(f, S) == f = [x \in S |-> f[x]]

LEMMA MappingTypes ==
  /\ Total(OwnerOf, Requests) /\ Total(OwnerOf', Requests)
  /\ Total(OrdersOf, Requests) /\ Total(OrdersOf', Requests)
  /\ Total(ConfirmedBy, Requests) /\ Total(ConfirmedBy', Requests)
  /\ Total(ToldTo, Creators) /\ Total(ToldTo', Creators)
BY DEF Total, OwnerOf, OrdersOf, ConfirmedBy, ToldTo

(* A function that changed at one place only. *)
LEMMA ChangedAt ==
  ASSUME NEW S, NEW f, NEW g, NEW x \in S, Total(f, S), Total(g, S),
         \A y \in S \ {x} : g[y] = f[y]
  PROVE  g = [f EXCEPT ![x] = g[x]]
<1>1. DOMAIN f = S /\ DOMAIN g = S
  BY DEF Total
<1> QED
  BY <1>1 DEF Total

LEMMA UnchangedAt ==
  ASSUME NEW S, NEW f, NEW g, NEW x \in S, Total(f, S), Total(g, S),
         \A y \in S \ {x} : g[y] = f[y], g[x] = f[x]
  PROVE  g = f
BY DEF Total

(* What a creator is told depends on the page alone. *)
LEMMA ToldRests == ASSUME UNCHANGED <<shown, opened>> PROVE ToldTo' = ToldTo
BY DEF ToldTo, Named

(* Requests that a step does not touch map to what they were. *)
LEMMA MappingElsewhere ==
  ASSUME NEW r \in Requests, Elsewhere(r)
  PROVE  \A q \in Requests \ {r} :
           /\ OwnerOf'[q] = OwnerOf[q] /\ OrdersOf'[q] = OrdersOf[q]
           /\ ConfirmedBy'[q] = ConfirmedBy[q]
<1> SUFFICES ASSUME NEW q \in Requests \ {r}
             PROVE  /\ OwnerOf'[q] = OwnerOf[q] /\ OrdersOf'[q] = OrdersOf[q]
                    /\ ConfirmedBy'[q] = ConfirmedBy[q]
  OBVIOUS
<1>1. /\ step'[q] = step[q] /\ creator'[q] = creator[q] /\ todo'[q] = todo[q]
      /\ results'[q] = results[q]
  BY DEF Elsewhere
<1>2. OwnerOf'[q] = OwnerOf[q]
  BY <1>1 DEF OwnerOf
<1>3. OrdersOf'[q] = OrdersOf[q]
  BY <1>1 DEF OrdersOf, OrderOf
<1>4. ConfirmedBy'[q] = ConfirmedBy[q]
  BY <1>1 DEF ConfirmedBy, Named
<1> QED
  BY <1>2, <1>3, <1>4

LEMMA Stutters ==
  ASSUME UNCHANGED <<routes, step, creator, todo, results, shown, opened>>
  PROVE  UNCHANGED Promise!promiseVars
<1>1. OwnerOf' = OwnerOf
  BY DEF OwnerOf
<1>2. OrdersOf' = OrdersOf
  BY DEF OrdersOf, OrderOf
<1>3. ConfirmedBy' = ConfirmedBy
  BY DEF ConfirmedBy, Named
<1> QED
  BY <1>1, <1>2, <1>3, ToldRests DEF Promise!promiseVars

-----------------------------------------------------------------------------
(* The server *)

(* A request that comes in places its batch, or nothing if it is refused. *)
LEMMA PostPlaces ==
  ASSUME ServerInv, NEW r \in Requests, NEW c \in Creators, NEW batch \in Batch,
         NEW admitted \in BOOLEAN, Post(r, c, batch, admitted), UNCHANGED <<shown, opened>>
  PROVE  Promise!Place(r, c)
<1>1. /\ step[r] = "idle" /\ step'[r] # "idle" /\ creator'[r] = c /\ routes' = routes
      /\ todo[r] = Nothing /\ results'[r] = results[r] /\ Elsewhere(r)
      /\ todo'[r] = todo[r] \/ todo'[r] = batch
  BY PostIs DEF ServerInv, RequestInv
<1>2. OwnerOf[r] = Nobody /\ OwnerOf' = [OwnerOf EXCEPT ![r] = c]
  <2>1. OwnerOf[r] = Nobody /\ OwnerOf'[r] = c
    BY <1>1 DEF OwnerOf
  <2> QED
    BY <1>1, <2>1, MappingTypes, MappingElsewhere, ChangedAt
<1>3. ConfirmedBy' = ConfirmedBy
  <2>1. ConfirmedBy'[r] = ConfirmedBy[r]
    BY <1>1 DEF ConfirmedBy, Named
  <2> QED
    BY <1>1, <2>1, MappingTypes, MappingElsewhere, UnchangedAt
<1>4. OrdersOf'[r] \in SUBSET Promise!Orders(c)
  <2>1. todo'[r] \in Batch
    BY <1>1, NothingFits
  <2>2. \A k \in DOMAIN todo'[r] : k \in Keys /\ todo'[r][k] \in Credential
    BY <2>1, BatchIs
  <2> QED
    BY <1>1, <2>2 DEF OrdersOf, OrderOf, Promise!Orders
<1>5. OrdersOf' = [OrdersOf EXCEPT ![r] = OrdersOf'[r]]
  BY <1>1, MappingTypes, MappingElsewhere, ChangedAt
<1> QED
  BY <1>1, <1>2, <1>3, <1>4, <1>5, ToldRests DEF Promise!Place

(* The end of a request closes it.  Its creator is told what the page made  *)
(* of the answer.                                                           *)
LEMMA EndCloses ==
  ASSUME ServerInv, NEW r \in Requests, step[r] # "idle", EndRequest(r),
         \/ ToldTo' = ToldTo
         \/ ToldTo' = [ToldTo EXCEPT ![creator[r]] = @ \cup Named(results[r])]
  PROVE  Promise!Close(r)
<1>1. /\ step'[r] = "idle" /\ todo'[r] = Nothing /\ results'[r] = Nothing
      /\ routes' = routes /\ Elsewhere(r) /\ creator[r] \in Creators
  BY EndRequestIs DEF ServerInv, CreatorInv
<1>2. OwnerOf[r] = creator[r] /\ creator[r] # Nobody /\ OwnerOf'[r] = Nobody
  BY <1>1, EndpointConstants DEF OwnerOf
<1>3. OrdersOf'[r] = {}
  BY <1>1, NothingIs DEF OrdersOf
<1>4. ConfirmedBy[r] = Named(results[r]) /\ ConfirmedBy'[r] = {}
  <2>1. Named(results'[r]) = {}
    BY <1>1, NamedNothing
  <2>2. ConfirmedBy'[r] = Named(results'[r])
    BY DEF ConfirmedBy, Named
  <2> QED
    BY <2>1, <2>2 DEF ConfirmedBy
<1>5. /\ OwnerOf' = [OwnerOf EXCEPT ![r] = Nobody]
      /\ OrdersOf' = [OrdersOf EXCEPT ![r] = {}]
      /\ ConfirmedBy' = [ConfirmedBy EXCEPT ![r] = {}]
  BY <1>1, <1>2, <1>3, <1>4, MappingTypes, MappingElsewhere, ChangedAt
<1> QED
  BY <1>1, <1>2, <1>4, <1>5 DEF Promise!Close

(* The operation a request has come to is founded, heard of or not, or it   *)
(* is declined.                                                             *)
LEMMA ServingFoundsOrDeclines ==
  ASSUME ServerInv, NEW r \in Requests, Serve(r) \/ InsertUnheard(r),
         UNCHANGED <<shown, opened>>
  PROVE  \/ UNCHANGED Promise!promiseVars
         \/ \E x \in OrdersOf[r] :
              Promise!Decline(r, x) \/ \E s \in Slugs : Promise!Found(r, x, s)
<1> DEFINE k == Current(r)
           x == OrderOf(r, k)
<1>1. /\ step[r] \in {"create", "insert"} /\ creator' = creator /\ Elsewhere(r)
      /\ k \in DOMAIN todo[r] /\ EndpointsTypeOK
  BY ServeIs, UnheardIs, CurrentIs DEF ServerInv
<1>2. CASE step'[r] = "insert" /\ UNCHANGED <<routes, todo, results>>
  <2>1. OwnerOf' = OwnerOf
    <3>1. OwnerOf'[r] = OwnerOf[r]
      BY <1>1, <1>2 DEF OwnerOf
    <3> QED
      BY <1>1, <3>1, MappingTypes, MappingElsewhere, UnchangedAt
  <2>2. OrdersOf' = OrdersOf
    BY <1>1, <1>2 DEF OrdersOf, OrderOf
  <2>3. ConfirmedBy' = ConfirmedBy
    BY <1>2 DEF ConfirmedBy, Named
  <2> QED
    BY <1>2, <2>1, <2>2, <2>3, ToldRests DEF Promise!promiseVars
<1>3. x \in OrdersOf[r] /\ x = NewRoute(r)
  BY <1>1 DEF OrdersOf, OrderOf, NewRoute
<1>4. ASSUME NEW outcome \in Slugs \cup {Failed}, Concluded(r, outcome)
      PROVE  /\ OwnerOf' = OwnerOf
             /\ OrdersOf' = [OrdersOf EXCEPT ![r] = @ \ {x}]
             /\ outcome = Failed => ConfirmedBy' = ConfirmedBy
             /\ outcome # Failed =>
                  ConfirmedBy' = [ConfirmedBy EXCEPT ![r] = @ \cup {[key |-> k, slug |-> outcome]}]
  <2>1. OwnerOf' = OwnerOf
    <3>1. OwnerOf'[r] = OwnerOf[r]
      BY <1>1, <1>4 DEF OwnerOf, Concluded
    <3> QED
      BY <1>1, <3>1, MappingTypes, MappingElsewhere, UnchangedAt
  <2>2. OrdersOf'[r] = OrdersOf[r] \ {x}
    <3>1. DOMAIN todo'[r] = DOMAIN todo[r] \ {k} /\ \A y \in DOMAIN todo'[r] : todo'[r][y] = todo[r][y]
      BY <1>4 DEF Concluded
    <3>2. \A y \in DOMAIN todo'[r] : OrderOf(r, y)' = OrderOf(r, y)
      BY <1>1, <3>1 DEF OrderOf
    <3>3. \A y \in DOMAIN todo[r] : OrderOf(r, y) = x <=> y = k
      BY DEF OrderOf
    <3>4. OrdersOf[r] = {OrderOf(r, y) : y \in DOMAIN todo[r]}
      BY DEF OrdersOf
    <3>5. OrdersOf'[r] = {OrderOf(r, y)' : y \in DOMAIN todo'[r]}
      BY DEF OrdersOf, OrderOf
    <3>6. OrdersOf'[r] = {OrderOf(r, y) : y \in DOMAIN todo[r] \ {k}}
      BY <3>1, <3>2, <3>5
    <3> HIDE DEF x, k
    <3> QED
      BY <3>3, <3>4, <3>6
  <2>3. DOMAIN results'[r] = DOMAIN results[r] \cup {k} /\ k \notin DOMAIN results[r]
        /\ results'[r][k] = outcome
        /\ \A y \in DOMAIN results[r] : results'[r][y] = results[r][y]
    BY <1>1, <1>4 DEF Concluded, ServerInv, RequestInv
  <2>4. Named(results'[r]) =
          IF outcome = Failed THEN Named(results[r])
          ELSE Named(results[r]) \cup {[key |-> k, slug |-> outcome]}
    <3> DEFINE old == results[r]
               new == results'[r]
               pair == [key |-> k, slug |-> outcome]
    <3>1. DOMAIN new = DOMAIN old \cup {k} /\ new[k] = outcome
          /\ \A y \in DOMAIN old : new[y] = old[y]
      BY <2>3
    <3> HIDE DEF old, new, k
    <3>2. ASSUME NEW p
          PROVE  p \in Named(new) <=> p \in Named(old) \/ (outcome # Failed /\ p = pair)
      BY <3>1, NamedIs
    <3>3. Named(new) = IF outcome = Failed THEN Named(old) ELSE Named(old) \cup {pair}
      BY <3>2
    <3> QED
      BY <3>3 DEF old, new
  <2>5. ConfirmedBy[r] = Named(results[r]) /\ ConfirmedBy'[r] = Named(results'[r])
    BY DEF ConfirmedBy, Named
  <2>6. outcome = Failed => ConfirmedBy' = ConfirmedBy
    BY <1>1, <2>4, <2>5, MappingTypes, MappingElsewhere, UnchangedAt
  <2>7. outcome # Failed =>
          ConfirmedBy' = [ConfirmedBy EXCEPT ![r] = @ \cup {[key |-> k, slug |-> outcome]}]
    BY <1>1, <2>4, <2>5, MappingTypes, MappingElsewhere, ChangedAt
  <2>8. OrdersOf' = [OrdersOf EXCEPT ![r] = @ \ {x}]
    BY <1>1, <2>2, MappingTypes, MappingElsewhere, ChangedAt
  <2> QED
    BY <2>1, <2>6, <2>7, <2>8
<1> HIDE DEF x
<1>5. CASE Concluded(r, Failed) /\ routes' = routes
  BY <1>3, <1>4, <1>5, ToldRests DEF Promise!Decline
<1>6. ASSUME NEW s \in Slugs, Founded(r, s), Concluded(r, s) \/ Concluded(r, Failed)
      PROVE  Promise!Found(r, x, s)
  <2>1. routes[s] = NoRoute /\ routes' = [routes EXCEPT ![s] = x] /\ s # Failed
    BY <1>3, <1>6, EndpointConstants DEF Founded, Taken
  <2>2. x.key = k
    BY DEF x, OrderOf
  <2> QED
    BY <1>3, <1>4, <1>6, <2>1, <2>2, ToldRests DEF Promise!Found
<1> QED
  BY <1>2, <1>3, <1>5, <1>6, ServeIs, UnheardIs

-----------------------------------------------------------------------------
(* The import *)

LEMMA ImporterIsTold ==
  /\ ToldTo[Importer] = Named(shown)
  /\ Importer \in Creators
  /\ \A c \in Creators \ {Importer} : UNCHANGED opened => ToldTo'[c] = ToldTo[c]
  /\ ToldTo'[Importer] = Named(shown')
BY ImportConstants DEF ToldTo, Named

(* What the page shows grows by what the answer names: only operations that *)
(* had no slug yet were sent.                                               *)
LEMMA ShownGrows ==
  ASSUME ServerInv, SendInv, ResultsReceived
  PROVE  Named(shown') = Named(shown) \cup Named(results[mine])
<1> DEFINE answer == results[mine]
<1>1. /\ InFlight /\ DOMAIN answer = Sent /\ DOMAIN shown' = DOMAIN payload
      /\ \A o \in DOMAIN answer : shown'[o] = answer[o]
      /\ \A o \in DOMAIN shown' \ DOMAIN answer : o \in DOMAIN shown /\ shown'[o] = shown[o]
      /\ sending = "publish" => shown = Nothing
      /\ ShownInv
  BY ReceivedIs DEF SendInv
<1>2. DOMAIN answer \subseteq DOMAIN shown'
  BY <1>1, NothingIs DEF Sent, FailedKeys, ShownInv
<1>3. DOMAIN shown \subseteq DOMAIN shown'
  BY <1>1, NothingIs DEF ShownInv
<1>4. \A o \in DOMAIN shown \cap DOMAIN answer : shown[o] = Failed
  <2>1. CASE sending = "publish"
    BY <1>1, <2>1, NothingIs
  <2>2. CASE sending = "retry"
    BY <1>1, <2>2 DEF Sent, FailedKeys
  <2> QED
    BY <1>1, <2>1, <2>2 DEF SendInv, PublishTypeOK, InFlight
<1> DEFINE now == shown'
<1> HIDE DEF answer, now
<1>5. ASSUME NEW p
      PROVE  p \in Named(now) <=> p \in Named(shown) \/ p \in Named(answer)
  <2>1. /\ DOMAIN now = DOMAIN shown \cup DOMAIN answer
        /\ \A o \in DOMAIN answer : now[o] = answer[o]
        /\ \A o \in DOMAIN shown \ DOMAIN answer : now[o] = shown[o]
    BY <1>1, <1>2, <1>3 DEF now
  <2> QED
    BY <1>4, <2>1, NamedIs
<1>6. Named(now) = Named(shown) \cup Named(answer)
  BY <1>5
<1> QED
  BY <1>6 DEF now, answer

LEMMA ImportRefines ==
  ASSUME RInv, ImportStep, UNCHANGED single
  PROVE  [Promise!PromiseNext]_(Promise!promiseVars)
<1> USE DEF RInv, RoutesAreOwned
<1>1. UNCHANGED opened
  BY DEF single
<1>2. CASE Input \/ Review \/ Configure \/ AnswerLost
  BY <1>1, <1>2, FlowMoves, Stutters DEF AnswerLost, endpoints, request
<1>3. ASSUME NEW r \in Requests, NEW admitted \in BOOLEAN,
             RunPublish(r, admitted) \/ RunRetry(r, admitted)
      PROVE  Promise!PromiseNext
  <2>1. PICK batch \in Batch : Post(r, Importer, batch, admitted) /\ UNCHANGED shown
    BY <1>3, SendIs
  <2>2. Promise!Place(r, Importer)
    BY <1>1, <2>1, PostPlaces, ImporterIsTold
  <2> QED
    BY <2>2, ImporterIsTold DEF Promise!PromiseNext
<1>4. CASE ResultsReceived
  <2>1. /\ mine \in Requests /\ creator[mine] = Importer /\ step[mine] # "idle"
        /\ EndRequest(mine)
    BY <1>4, ReceivedIs DEF MineInv, ResultsReceived
  <2>2. ToldTo'[Importer] = ToldTo[Importer] \cup Named(results[mine])
    BY <1>4, ImporterIsTold, ShownGrows
  <2>3. ToldTo' = [ToldTo EXCEPT ![Importer] = @ \cup Named(results[mine])]
    BY <1>1, <2>2, ImporterIsTold, MappingTypes, ChangedAt
  <2>4. Promise!Close(mine)
    BY <2>1, <2>3, EndCloses
  <2> QED
    BY <2>1, <2>4 DEF Promise!PromiseNext
<1>5. CASE PublishRefused
  <2>1. mine \in Requests /\ step[mine] # "idle" /\ EndRequest(mine) /\ UNCHANGED shown
    BY <1>5 DEF PublishRefused, SendInv, MineInv
  <2>2. Promise!Close(mine)
    BY <1>1, <2>1, ToldRests, EndCloses
  <2> QED
    BY <2>1, <2>2 DEF Promise!PromiseNext
<1>6. CASE ResetFlow \/ LeavePage
  <2>1. UNCHANGED endpoints /\ shown' = Nothing
    BY <1>6 DEF ResetFlow, LeavePage, Fresh
  <2>2. ToldTo'[Importer] = {}
    BY <2>1, ImporterIsTold, NamedNothing
  <2>3. ToldTo' = [ToldTo EXCEPT ![Importer] = {}]
    BY <1>1, <2>2, ImporterIsTold, MappingTypes, ChangedAt
  <2>4. OwnerOf' = OwnerOf /\ OrdersOf' = OrdersOf /\ ConfirmedBy' = ConfirmedBy /\ routes' = routes
    BY <2>1 DEF OwnerOf, OrdersOf, OrderOf, ConfirmedBy, Named, endpoints, request
  <2>5. Promise!Forget(Importer)
    BY <2>3, <2>4 DEF Promise!Forget
  <2> QED
    BY <2>5, ImporterIsTold DEF Promise!PromiseNext
<1> QED
  BY <1>2, <1>3, <1>4, <1>5, <1>6 DEF ImportStep, Publish

-----------------------------------------------------------------------------
(* The form *)

LEMMA AuthorIsTold ==
  /\ ToldTo[Author] = Named([k \in {FormKey} |-> opened])
  /\ Author \in Creators
  /\ \A c \in Creators \ {Author} : UNCHANGED shown => ToldTo'[c] = ToldTo[c]
  /\ ToldTo'[Author] = Named([k \in {FormKey} |-> opened'])
BY FormConstants DEF ToldTo, Named

LEMMA FormRefines ==
  ASSUME RInv,
         \/ \E r \in Requests, auth \in Credential, admitted \in BOOLEAN : Submit(r, auth, admitted)
         \/ Created \/ CreateRefused \/ CreateUnanswered
  PROVE  [Promise!PromiseNext]_(Promise!promiseVars)
<1> USE DEF RInv, RoutesAreOwned
<1>1. UNCHANGED shown
  BY DEF Submit, Created, CreateRefused, CreateUnanswered, import, publish
<1>2. ASSUME NEW r \in Requests, NEW auth \in Credential, NEW admitted \in BOOLEAN,
             Submit(r, auth, admitted)
      PROVE  Promise!PromiseNext
  <2> DEFINE batch == [k \in {FormKey} |-> auth]
  <2>1. batch \in Batch /\ Post(r, Author, batch, admitted) /\ UNCHANGED opened
    BY <1>2, BatchIs, FormConstants DEF Submit
  <2> HIDE DEF batch
  <2>2. Promise!Place(r, Author)
    BY <1>1, <2>1, PostPlaces, AuthorIsTold
  <2> QED
    BY <2>2, AuthorIsTold DEF Promise!PromiseNext
<1>3. CASE Created
  <2>1. /\ form = "pending" /\ asked \in Requests /\ step[asked] = "answered"
        /\ creator[asked] = Author /\ EndRequest(asked) /\ opened = Failed
        /\ opened' = results[asked][FormKey]
    BY <1>3 DEF Created, FormInv, Unopened
  <2>2. DOMAIN results[asked] = {FormKey}
    BY <2>1 DEF FormInv, ServerInv, RequestInv
  <2>3. ToldTo[Author] = {} /\ ToldTo'[Author] = Named(results[asked])
    <3>1. \A p : p \in Named([k \in {FormKey} |-> opened]) <=>
                   opened # Failed /\ p = [key |-> FormKey, slug |-> opened]
      BY NamedIs
    <3>2. \A p : p \in Named([k \in {FormKey} |-> opened']) <=>
                   opened' # Failed /\ p = [key |-> FormKey, slug |-> opened']
      BY NamedIs
    <3>3. \A p : p \in Named(results[asked]) <=>
                   opened' # Failed /\ p = [key |-> FormKey, slug |-> opened']
      BY <2>1, <2>2, NamedIs
    <3> QED
      BY <2>1, <3>1, <3>2, <3>3, AuthorIsTold
  <2>4. ToldTo' = [ToldTo EXCEPT ![Author] = @ \cup Named(results[asked])]
    BY <1>1, <2>3, AuthorIsTold, MappingTypes, ChangedAt
  <2>5. Promise!Close(asked)
    BY <2>1, <2>4, EndCloses
  <2> QED
    BY <2>1, <2>5 DEF Promise!PromiseNext
<1>4. CASE CreateRefused
  <2>1. asked \in Requests /\ step[asked] # "idle" /\ EndRequest(asked) /\ UNCHANGED opened
    BY <1>4 DEF CreateRefused, FormInv
  <2>2. Promise!Close(asked)
    BY <1>1, <2>1, ToldRests, EndCloses
  <2> QED
    BY <2>1, <2>2 DEF Promise!PromiseNext
<1>5. CASE CreateUnanswered
  BY <1>1, <1>5, Stutters DEF CreateUnanswered, endpoints, request
<1> QED
  BY <1>2, <1>3, <1>4, <1>5

-----------------------------------------------------------------------------
LEMMA RefinedStart == ASSUME Init PROVE Promise!PromiseInit
<1>1. /\ routes = [s \in Slugs |-> NoRoute] /\ shown = Nothing /\ opened = Failed
      /\ \A r \in Requests : step[r] = "idle" /\ todo[r] = Nothing /\ results[r] = Nothing
  BY DEF Init, EndpointsInit, ImportInit
<1>2. OwnerOf = [r \in Requests |-> Nobody]
  BY <1>1 DEF OwnerOf
<1>3. OrdersOf = [r \in Requests |-> {}]
  BY <1>1, NothingIs DEF OrdersOf
<1>4. ConfirmedBy = [r \in Requests |-> {}]
  BY <1>1, NamedNothing DEF ConfirmedBy
<1>5. ToldTo = [c \in Creators |-> {}]
  <2>1. Named([k \in {FormKey} |-> opened]) = {}
    BY <1>1, NamedIs
  <2> QED
    BY <1>1, <2>1, NamedNothing DEF ToldTo
<1> QED
  BY <1>1, <1>2, <1>3, <1>4, <1>5 DEF Promise!PromiseInit

LEMMA StepKeepsPromise ==
  ASSUME RInv, [Next]_vars
  PROVE  [Promise!PromiseNext]_(Promise!promiseVars)
<1> USE DEF RInv, RoutesAreOwned
<1>1. CASE ImportStep /\ UNCHANGED single
  BY <1>1, ImportRefines
<1>2. CASE \/ \E r \in Requests, auth \in Credential, admitted \in BOOLEAN : Submit(r, auth, admitted)
           \/ Created \/ CreateRefused \/ CreateUnanswered
  BY <1>2, FormRefines
<1>3. ASSUME NEW r \in Requests, Working(r)
      PROVE  [Promise!PromiseNext]_(Promise!promiseVars)
  <2>1. (Serve(r) \/ InsertUnheard(r)) /\ UNCHANGED <<shown, opened>>
    BY <1>3, WorkingIs DEF single
  <2>2. \/ UNCHANGED Promise!promiseVars
        \/ \E x \in OrdersOf[r] :
             Promise!Decline(r, x) \/ \E s \in Slugs : Promise!Found(r, x, s)
    BY <2>1, ServingFoundsOrDeclines
  <2> QED
    BY <2>2 DEF Promise!PromiseNext
<1>4. ASSUME NEW r \in Requests, RequestOver(r)
      PROVE  Promise!PromiseNext
  <2>1. step[r] # "idle" /\ EndRequest(r) /\ UNCHANGED <<shown, opened>>
    BY <1>4 DEF RequestOver, EndRequest, import, publish, single
  <2>2. Promise!Close(r)
    BY <2>1, ToldRests, EndCloses
  <2> QED
    BY <2>2 DEF Promise!PromiseNext
<1>5. CASE UNCHANGED vars
  BY <1>5, Stutters DEF vars, endpoints, request, import, publish, single
<1> QED
  BY <1>1, <1>2, <1>3, <1>4, <1>5 DEF Next

(* Publishing refines PublishingPromise: every step of the page, the form   *)
(* and the server is a step of the promise or leaves it alone.              *)
THEOREM KeepsPromise == Spec => ImplementsPromise
<1>1. Init => RInv
  BY RInvInit
<1>2. RInv /\ [Next]_vars => RInv'
  BY RInvNext
<1>3. Init => Promise!PromiseInit
  BY RefinedStart
<1>4. RInv /\ [Next]_vars => [Promise!PromiseNext]_(Promise!promiseVars)
  BY StepKeepsPromise
<1> QED
  BY <1>1, <1>2, <1>3, <1>4, PTL DEF Spec, ImplementsPromise, Promise!PromiseSpec
=============================================================================
