---------------------------- MODULE MetronPromise ----------------------------
(***************************************************************************)
(* What Metron promises about the money of one signed payment: the payer's *)
(* leg as in PaymentPromise, the creator's leg as in PayoutPromise, and    *)
(* between the two that an earning is reserved for payout only after it    *)
(* was credited, hence after the payer was charged for it.                 *)
(*                                                                         *)
(* README.md "The Economic Loop" states this in prose; Metron.tla composes *)
(* the models of the code and is shown to implement this module.           *)
(***************************************************************************)
EXTENDS PaymentPromise

VARIABLES
  account,    \* account[a]: the earning is "open", "reserved" or "released"
  transfers   \* transfers[a]: successful transfers that pay it

Creator == INSTANCE PayoutPromise WITH Earnings <- Auths

economyVars == <<promiseVars, Creator!payoutVars>>

EconomyInit == PromiseInit /\ Creator!PayoutInit

PayCreator ==
  \/ \E E \in SUBSET {a \in Auths : credits[a] = 1} : Creator!Reserve(E)
  \/ \E a \in Auths : Creator!Transfer(a) \/ Creator!Release(a)

EconomyNext ==
  \/ PromiseNext /\ UNCHANGED Creator!payoutVars
  \/ PayCreator /\ UNCHANGED promiseVars

EconomySpec == EconomyInit /\ [][EconomyNext]_economyVars
=============================================================================
