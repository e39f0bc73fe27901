------------------------- MODULE PublishingPromise -------------------------
(***************************************************************************)
(* What publishing promises to creators, whatever is created at the same    *)
(* time and whichever answers are lost: a request places orders for routes; *)
(* each order founds at most one route, as it was placed and under a slug   *)
(* nobody had; a route, once founded, stays as it is; and a slug is told to *)
(* the creator whose own order founded a route under it, and to nobody else.*)
(*                                                                         *)
(* docs/production-readiness.md:98 and the comments of publish/route.ts and *)
(* service.ts say this in parts; Publishing is shown to implement it.       *)
(***************************************************************************)
CONSTANTS Creators, Requests, Slugs, Keys, Credentials, Nobody, NoRoute

VARIABLES
  owner,      \* the creator of each request under way, or Nobody
  orders,     \* orders[r]: the routes r asked for and may still found
  confirmed,  \* confirmed[r]: the slugs it can name in its answer
  founded,    \* the route founded under each slug, or NoRoute
  told        \* told[c]: slugs its creator was told, each with its operation

promiseVars == <<owner, orders, confirmed, founded, told>>

Orders(c) == [key: Keys, creator: {c}, auth: Credentials]

PromiseInit ==
  /\ owner = [r \in Requests |-> Nobody]
  /\ orders = [r \in Requests |-> {}]
  /\ confirmed = [r \in Requests |-> {}]
  /\ founded = [s \in Slugs |-> NoRoute]
  /\ told = [c \in Creators |-> {}]

(* A request comes in; one that is refused orders nothing. *)
Place(r, c) ==
  /\ owner[r] = Nobody
  /\ owner' = [owner EXCEPT ![r] = c]
  /\ \E R \in SUBSET Orders(c) : orders' = [orders EXCEPT ![r] = R]
  /\ UNCHANGED <<confirmed, founded, told>>

(* An order founds its route, and the request may or may not know of it. *)
Found(r, x, s) ==
  /\ x \in orders[r] /\ founded[s] = NoRoute
  /\ founded' = [founded EXCEPT ![s] = x]
  /\ orders' = [orders EXCEPT ![r] = @ \ {x}]
  /\ \/ confirmed' = [confirmed EXCEPT ![r] = @ \cup {[key |-> x.key, slug |-> s]}]
     \/ UNCHANGED confirmed
  /\ UNCHANGED <<owner, told>>

Decline(r, x) ==
  /\ x \in orders[r]
  /\ orders' = [orders EXCEPT ![r] = @ \ {x}]
  /\ UNCHANGED <<owner, confirmed, founded, told>>

(* The request is over.  Its creator learns all that it confirmed, or       *)
(* nothing, and still knows what earlier answers said.                      *)
Close(r) ==
  /\ owner[r] # Nobody
  /\ owner' = [owner EXCEPT ![r] = Nobody]
  /\ orders' = [orders EXCEPT ![r] = {}]
  /\ confirmed' = [confirmed EXCEPT ![r] = {}]
  /\ \/ told' = [told EXCEPT ![owner[r]] = @ \cup confirmed[r]]
     \/ UNCHANGED told
  /\ UNCHANGED founded

(* A creator turns to something else. *)
Forget(c) ==
  /\ told' = [told EXCEPT ![c] = {}]
  /\ UNCHANGED <<owner, orders, confirmed, founded>>

PromiseNext ==
  \/ \E r \in Requests :
       \/ \E c \in Creators : Place(r, c)
       \/ \E x \in orders[r] : Decline(r, x) \/ \E s \in Slugs : Found(r, x, s)
       \/ Close(r)
  \/ \E c \in Creators : Forget(c)

PromiseSpec == PromiseInit /\ [][PromiseNext]_promiseVars
=============================================================================
