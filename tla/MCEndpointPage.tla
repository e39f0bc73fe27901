--------------------------- MODULE MCEndpointPage ---------------------------
(* Instances of EndpointPage for TLC. *)
EXTENDS EndpointPage, FiniteSets
CONSTANTS panel1, client2, key1

(* At most two of the page's requests are under way at a time. *)
PageBusy ==
  Cardinality({r \in {"fetch"} : fetch # "none"} \cup {r \in {"update"} : update.step # "idle"}
    \cup {r \in {"retire"} : retire \notin {"idle", "confirming"}})

(* A test reads the row in one step and nothing of the view, and the page   *)
(* reads nothing of a test: tests are explored while the page is at rest,    *)
(* with one view, over a row that other tabs change.                        *)
AtRest ==
  /\ PageBusy = 0 /\ form = NoForm /\ retire = "idle" /\ ~failed
  /\ view \in {NoView, [active |-> TRUE, auth |-> "none"]}
LimiterAtRest == count = [k \in Buckets |-> 0] /\ \A c \in Callers : asking[c] = "idle"
MCBound == PageBusy <= 2 /\ (AtRest \/ (test = "idle" /\ LimiterAtRest /\ shown = Nothing))
=============================================================================
