---------------------------- MODULE MCSettlement ----------------------------
(* Small instances of Settlement for TLC. *)
EXTENDS Settlement, TLC

CONSTANTS
  r1, r2, r3,    \* requests
  eip, permit,   \* an EIP-3009 and a Permit2 authorization
  p1, p2         \* runs of the recovery script

(* Deadlines that pass during the behaviour. *)
DeadlineThree == [a \in Auths |-> 3]
DeadlineOne == [a \in Auths |-> 1]

Symmetry == Permutations(Requests) \cup Permutations(Recoverers)
=============================================================================
