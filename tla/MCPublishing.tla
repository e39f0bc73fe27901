---------------------------- MODULE MCPublishing ----------------------------
(* Instances of Publishing for TLC. *)
EXTENDS Publishing, TLC
CONSTANTS o1, o2, form1, ada, bob, r1, r2, s1, s2, s3, t1, t2,
  MaxInFlight    \* requests and file reads under way at a time

(* o1 names a server of its own, o2 relies on the root, which gives none. *)
Spot(op, root) == [operation |-> op, path |-> "absent", root |-> root]
MCServers == (o1 :> Spot("safe", "absent") @@ o2 :> Spot("absent", "absent"))
MCContent ==
  (t1 :> [flaw |-> "none", operations |-> {o1, o2}, servers |-> MCServers])
  @@ (t2 :> [flaw |-> "none", operations |-> {}, servers |-> MCServers])

MCSymmetry == Permutations(Slugs) \cup Permutations(Requests)

MCInFlight ==
  Cardinality({r \in Requests : step[r] # "idle"})
    + Cardinality(reading) <= MaxInFlight

(* Only o1 is given a credential. *)
MCSecrets ==
  /\ \A r \in Requests : \A k \in DOMAIN todo[r] \ {o1} : todo[r][k] = "none"
  /\ \A o \in DOMAIN rows \ {o1} : rows[o] # "secret"
MCBound == MCInFlight /\ MCSecrets /\ Cardinality(doubt) <= 1
=============================================================================
