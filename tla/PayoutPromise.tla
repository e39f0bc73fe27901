---------------------------- MODULE PayoutPromise ----------------------------
(***************************************************************************)
(* What Metron promises about the payout of one creator earning: it is     *)
(* reserved at most once, at most one transfer ever moves its money, only  *)
(* while it is reserved, and it is released only if no transfer was made   *)
(* and none will be.  README.md "Failure Safety" states this in prose;     *)
(* Payouts.tla models the code and is shown to implement this module.      *)
(***************************************************************************)
EXTENDS Naturals

CONSTANT Earnings   \* EARNING ledger entries

VARIABLES
  account,    \* account[e]: "open", "reserved" or "released"
  transfers   \* transfers[e]: successful transfers that pay e

payoutVars == <<account, transfers>>

PayoutInit ==
  /\ account = [e \in Earnings |-> "open"]
  /\ transfers = [e \in Earnings |-> 0]

(* Several earnings may be reserved at once. *)
Reserve(E) ==
  /\ \A e \in E : account[e] = "open"
  /\ account' = [e \in Earnings |-> IF e \in E THEN "reserved" ELSE account[e]]
  /\ UNCHANGED transfers

Transfer(e) ==
  /\ account[e] = "reserved"
  /\ transfers[e] = 0
  /\ transfers' = [transfers EXCEPT ![e] = 1]
  /\ UNCHANGED account

Release(e) ==
  /\ account[e] = "reserved"
  /\ transfers[e] = 0
  /\ account' = [account EXCEPT ![e] = "released"]
  /\ UNCHANGED transfers

PayoutNext ==
  \/ \E E \in SUBSET Earnings : Reserve(E)
  \/ \E e \in Earnings : Transfer(e) \/ Release(e)

PayoutSpec == PayoutInit /\ [][PayoutNext]_payoutVars
=============================================================================
