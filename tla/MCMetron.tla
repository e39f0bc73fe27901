------------------------------ MODULE MCMetron ------------------------------
(* Small instances of Metron for TLC. *)
EXTENDS Metron

CONSTANTS
  r1, r2,        \* requests
  a1, a2,        \* authorizations
  p1,            \* a run of the recovery script
  ada,           \* a payee
  fee            \* a fee

Deadline == [a \in Auths |-> 1]
SamePayee == [a \in Auths |-> ada]

(* What requests do to one another before /settle, and an authorization     *)
(* spent elsewhere, which is never charged, are left to settlement_core.    *)
BeforeSettle == {"precheck", "verify", "lock", "insert", "release", "upstream",
                 "mark_upstream_failed", "mark_upstream_ok", "mark_pending", "settle"}
MCBound ==
  /\ \A r, s \in Requests : pc[r] \in BeforeSettle /\ pc[s] \in BeforeSettle => r = s
  /\ \A a \in Auths : chain[a] \in {"unused", "charged"}
=============================================================================
