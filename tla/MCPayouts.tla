------------------------------ MODULE MCPayouts ------------------------------
(* Small instances of Payouts for TLC. *)
EXTENDS Payouts, TLC

CONSTANTS
  e1, e2,          \* earnings
  w1, w2,          \* payout invocations
  p1, p2,          \* runs of the recovery script
  ada,             \* a payee
  low, high        \* fees

(* Both earnings pay the same creator the same price, the case in which    *)
(* two transfers can be the same transaction; with different fees they     *)
(* are rivals for one nonce.                                               *)
SamePayee == [e \in Earnings |-> ada]

Symmetry == Permutations(Earnings) \cup Permutations(Workers) \cup Permutations(Recoverers)
            \cup Permutations(Fees)
=============================================================================
