----------------------------- MODULE Endpoints -----------------------------
(***************************************************************************)
(* Creating paid routes on the server: POST /api/openapi/publish, which      *)
(* creates the operations of a batch one after the other, and               *)
(* POST /api/endpoints, a batch of one, over endpointService.create and the *)
(* table proxy_routes.  Requests of several creators interleave at every    *)
(* await.                                                                   *)
(***************************************************************************)
EXTENDS FiniteSets, Integers, Functions

CONSTANTS
  Creators, Keys, Slugs, Requests,
  MaxBatch,          \* MAX_BATCH_OPERATIONS
  NoRoute, Nobody

VARIABLES
  routes,     \* proxy_routes by their UNIQUE slug
  step,       \* step of each request
  creator,    \* the developer of its session
  todo,       \* credential of each operation still to be created
  slug,       \* the slug found for the first of them
  results     \* the results so far: a slug, or Failed

request == <<step, creator, todo, slug, results>>
endpoints == <<routes, request>>

Failed == "failed"
Credential == {"none", "secret"}
Route == [key: Keys, creator: Creators, auth: Credential]
Batch == UNION {[K -> Credential] : K \in SUBSET Keys}
Results == UNION {[K -> Slugs \cup {Failed}] : K \in SUBSET Keys}
Nothing == [k \in {} |-> Failed]

(* Results by key: the latest, and those retained of before. *)
Over(latest, prior) ==
  [k \in DOMAIN latest \cup DOMAIN prior |-> IF k \in DOMAIN latest THEN latest[k] ELSE prior[k]]

ASSUME EndpointConstants ==
  /\ MaxBatch \in Nat \ {0}
  /\ Failed \notin Slugs /\ NoRoute \notin Route /\ Nobody \notin Creators

EndpointsTypeOK ==
  /\ routes \in [Slugs -> Route \cup {NoRoute}]
  /\ step \in [Requests -> {"idle", "refused", "create", "insert", "answered"}]
  /\ creator \in [Requests -> Creators \cup {Nobody}]
  /\ todo \in [Requests -> Batch]
  /\ slug \in [Requests -> Slugs \cup {Failed}]
  /\ results \in [Requests -> Results]

EndpointsInit ==
  /\ routes = [s \in Slugs |-> NoRoute]
  /\ step = [r \in Requests |-> "idle"]
  /\ creator = [r \in Requests |-> Nobody]
  /\ todo = [r \in Requests |-> Nothing]
  /\ slug = [r \in Requests |-> Failed]
  /\ results = [r \in Requests |-> Nothing]

Taken(s) == routes[s] # NoRoute

(* GET /api/endpoints: the routes of the session's developer. *)
Listed(c) == {s \in Slugs : Taken(s) /\ routes[s].creator = c}

-----------------------------------------------------------------------------
(* The session, the body's bounds and the limiter, before anything is      *)
(* created; an oversized batch is refused whole.                            *)
Post(r, c, batch, admitted) ==
  /\ step[r] = "idle"
  /\ creator' = [creator EXCEPT ![r] = c]
  /\ IF admitted /\ Cardinality(DOMAIN batch) \in 1..MaxBatch
       THEN /\ step' = [step EXCEPT ![r] = "create"]
            /\ todo' = [todo EXCEPT ![r] = batch]
       ELSE step' = [step EXCEPT ![r] = "refused"] /\ UNCHANGED todo
  /\ UNCHANGED <<routes, slug, results>>

(* The operations are created in the order of the batch; which order that  *)
(* is makes no difference here.                                             *)
Current(r) == CHOOSE k \in DOMAIN todo[r] : TRUE

(* publishOperation: every outcome of a create becomes a result, and the   *)
(* batch goes on until it is answered.                                      *)
Conclude(r, outcome) ==
  LET k == Current(r) IN
  /\ results' = [results EXCEPT ![r] = Over([x \in {k} |-> outcome], @)]
  /\ todo' = [todo EXCEPT ![r] = Restrict(@, DOMAIN @ \ {k})]
  /\ step' = [step EXCEPT ![r] = IF DOMAIN todo[r] = {k} THEN "answered" ELSE "create"]
  /\ slug' = [slug EXCEPT ![r] = Failed]

(* create, up to insertRoute.  uniqueSlug draws candidates until            *)
(* routeSlugExists finds none: the last read alone decides.                 *)
Create(r, s) ==
  /\ step[r] = "create" /\ ~Taken(s)
  /\ slug' = [slug EXCEPT ![r] = s]
  /\ step' = [step EXCEPT ![r] = "insert"]
  /\ UNCHANGED <<routes, creator, todo, results>>

(* validateCommon or encryptAuth refuse what no browser checked (the price's *)
(* minimum, the header's name, the host's addresses), MAX_SLUG_ATTEMPTS      *)
(* candidates were taken, or the database does not answer.                  *)
CreateFails(r) ==
  /\ step[r] \in {"create", "insert"}
  /\ Conclude(r, Failed)
  /\ UNCHANGED <<routes, creator>>

NewRoute(r) ==
  [key |-> Current(r), creator |-> creator[r], auth |-> todo[r][Current(r)]]

(* Fault: the slug that was free a moment ago is written over. *)
UpsertRoute(r) ==
  /\ step[r] = "insert"
  /\ routes' = [routes EXCEPT ![slug[r]] = NewRoute(r)]
  /\ Conclude(r, slug[r])
  /\ UNCHANGED creator

(* insertRoute: the index on the slug decides a race. *)
InsertRoute(r) ==
  /\ step[r] = "insert"
  /\ IF Taken(slug[r])
       THEN Conclude(r, Failed) /\ UNCHANGED routes
       ELSE /\ routes' = [routes EXCEPT ![slug[r]] = NewRoute(r)]
            /\ Conclude(r, slug[r])
  /\ UNCHANGED creator

(* The route is there, but the answer of the database is lost:              *)
(* INTERNAL_ERROR.                                                          *)
InsertUnheard(r) ==
  /\ step[r] = "insert" /\ ~Taken(slug[r])
  /\ routes' = [routes EXCEPT ![slug[r]] = NewRoute(r)]
  /\ Conclude(r, Failed)
  /\ UNCHANGED creator

(* The request is over: answered, or its process died where it was.         *)
EndRequest(r) ==
  /\ step[r] # "idle"
  /\ step' = [step EXCEPT ![r] = "idle"]
  /\ creator' = [creator EXCEPT ![r] = Nobody]
  /\ todo' = [todo EXCEPT ![r] = Nothing]
  /\ slug' = [slug EXCEPT ![r] = Failed]
  /\ results' = [results EXCEPT ![r] = Nothing]
  /\ UNCHANGED routes

Serve(r) ==
  \/ \E s \in Slugs : Create(r, s)
  \/ CreateFails(r) \/ InsertRoute(r)
=============================================================================
