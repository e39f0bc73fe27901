--------------------------- MODULE PaymentPromise ---------------------------
(***************************************************************************)
(* What Metron promises about one signed payment authorization, whatever   *)
(* the number of HTTP requests that present it: the authorization is       *)
(* claimed once, charged at most once and only after it was claimed,       *)
(* credited to the creator at most once and only after it was charged, and *)
(* served to at most one caller, only after it was credited.               *)
(*                                                                         *)
(* README.md "Failure Safety" states these rules in prose; Settlement.tla  *)
(* models the code and is shown to implement this module.                  *)
(***************************************************************************)
EXTENDS Naturals

CONSTANTS
  Auths,     \* signed payment authorizations
  Requests   \* HTTP requests that may present them

VARIABLES
  phase,     \* phase[a]: "open", "claimed" or "charged"
  credits,   \* credits[a]: EARNING rows written for a
  served     \* served[a]: requests that received the resource for a

promiseVars == <<phase, credits, served>>

PromiseInit ==
  /\ phase = [a \in Auths |-> "open"]
  /\ credits = [a \in Auths |-> 0]
  /\ served = [a \in Auths |-> {}]

Claim(a) ==
  /\ phase[a] = "open"
  /\ phase' = [phase EXCEPT ![a] = "claimed"]
  /\ UNCHANGED <<credits, served>>

Charge(a) ==
  /\ phase[a] = "claimed"
  /\ phase' = [phase EXCEPT ![a] = "charged"]
  /\ UNCHANGED <<credits, served>>

Credit(a) ==
  /\ phase[a] = "charged"
  /\ credits[a] = 0
  /\ credits' = [credits EXCEPT ![a] = 1]
  /\ UNCHANGED <<phase, served>>

Serve(a, r) ==
  /\ phase[a] = "charged"
  /\ credits[a] = 1
  /\ served[a] = {}
  /\ served' = [served EXCEPT ![a] = {r}]
  /\ UNCHANGED <<phase, credits>>

PromiseNext ==
  \E a \in Auths :
    \/ Claim(a)
    \/ Charge(a)
    \/ Credit(a)
    \/ \E r \in Requests : Serve(a, r)

PromiseSpec == PromiseInit /\ [][PromiseNext]_promiseVars
=============================================================================
