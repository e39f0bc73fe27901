-------------------------- MODULE SettlementProofs --------------------------
(***************************************************************************)
(* Proofs about Settlement, for any number of requests, authorizations and *)
(* recovery runs, any deadlines and any lock TTL policy.                   *)
(***************************************************************************)
EXTENDS Settlement, TLAPS

-----------------------------------------------------------------------------
(* The inductive invariant. *)

(* Where a request may be once its insert returned a receipt id, but for a *)
(* crash; and where it may be once its /settle was sent.                   *)
AfterInsert == {"upstream", "mark_upstream_failed", "mark_upstream_ok",
                "mark_pending", "settle", "await", "mark_failed",
                "mark_ambiguous", "apply", "deliver", "withheld", "delivered"}
AfterSettle == {"await", "mark_failed", "mark_ambiguous", "apply", "deliver",
                "withheld", "delivered", "crashed"}

(* The row says that the upstream succeeded and a settlement was attempted. *)
Attempted(a) ==
  /\ receipt[a].upstream = "2xx"
  /\ receipt[a].attempt
  /\ receipt[a].status \in {"SETTLEMENT_PENDING", "SETTLED", "SETTLEMENT_FAILED"}

(* One holder for each receipt, and only a holder gets past the insert. *)
Holding ==
  /\ \A r \in Requests :
       /\ pc[r] # "idle" => auth[r] \in Auths
       /\ pc[r] \in AfterInsert => r \in held
  /\ \A r \in held :
       /\ pc[r] \in AfterInsert \cup {"crashed"}
       /\ receipt[auth[r]].status # "NONE"
  /\ \A r1, r2 \in held : auth[r1] = auth[r2] => r1 = r2
  /\ forwarded \subseteq held
  /\ \A r \in Requests :
       facil[r] # "none" => r \in held /\ pc[r] \in AfterSettle

(* How far the row of a request's authorization has come. *)
Staged ==
  /\ \A r \in Requests :
       /\ pc[r] \in {"upstream", "mark_upstream_failed", "mark_upstream_ok",
                     "mark_pending"}
            => receipt[auth[r]].status = "VERIFIED" /\ ~receipt[auth[r]].attempt
       /\ pc[r] = "mark_pending" => receipt[auth[r]].upstream = "2xx"
       /\ pc[r] = "settle" \/ facil[r] # "none" => Attempted(auth[r])
       /\ pc[r] \in {"await", "mark_failed", "mark_ambiguous", "apply"}
            => facil[r] # "none"
  /\ \A a \in Auths : receipt[a].status = "NONE" => ~receipt[a].attempt

(* What was learnt about a charge is true. *)
Charged ==
  /\ \A r \in Requests :
       /\ pc[r] \in {"apply", "deliver", "delivered"} \/ facil[r] = "charged"
            => chain[auth[r]] = "charged"
  /\ \A a \in Auths :
       chain[a] = "charged" =>
         \E r \in Requests : auth[r] = a /\ facil[r] = "charged"
  /\ \A p \in Recoverers :
       /\ rpc[p] = "decide" => cur[p] \in Auths
       /\ rpc[p] = "decide" /\ evidence[p] = "settled"
            => chain[cur[p]] = "charged"

Inv ==
  /\ TypeOK
  /\ Holding
  /\ Staged
  /\ Charged
  /\ CreditMatchesCharge
  /\ DeliveredStaysSettled

-----------------------------------------------------------------------------
(* Rows of the receipt table. *)

LEMMA RowWrite ==
  ASSUME NEW rows \in [Auths -> Receipt], NEW a \in Auths, NEW row \in Receipt
  PROVE  /\ [rows EXCEPT ![a] = row] \in [Auths -> Receipt]
         /\ [rows EXCEPT ![a] = row][a] = row
         /\ \A b \in Auths : b # a => [rows EXCEPT ![a] = row][b] = rows[b]
  OBVIOUS

(* The lock TTL is a number of ticks. *)
LEMMA LockTtlNat ==
  ASSUME NEW d \in Nat, NEW t \in Nat
  PROVE  LockTtl(d, t) \in Nat
  BY SettlementConstants DEF LockTtl

-----------------------------------------------------------------------------
(* Every step preserves Inv. *)

USE DEF Goto, database, handlers, outside, recovery

LEMMA InvInit == Init => Inv
<1> SUFFICES ASSUME Init PROVE Inv
  OBVIOUS
<1>1. TypeOK
  BY SettlementConstants DEF Init, TypeOK, NoReceipt, Receipt, Status
<1>2. Holding /\ Staged /\ Charged
  BY DEF Init, NoReceipt, Holding, Staged, Charged, AfterInsert
<1>3. CreditMatchesCharge /\ DeliveredStaysSettled
  BY DEF Init, NoReceipt, CreditMatchesCharge, DeliveredStaysSettled
<1> QED
  BY <1>1, <1>2, <1>3 DEF Inv

(* Every row the code writes is a row of the table. *)
LEMMA RowsTyped ==
  ASSUME NEW row \in Receipt
  PROVE  /\ [row EXCEPT !.status = "VERIFIED"] \in Receipt
         /\ [row EXCEPT !.status = "UPSTREAM_FAILED", !.upstream = "failed",
                        !.error = "upstream"] \in Receipt
         /\ [row EXCEPT !.status = "VERIFIED", !.upstream = "2xx",
                        !.error = "none"] \in Receipt
         /\ [row EXCEPT !.status = "SETTLEMENT_PENDING", !.attempt = TRUE,
                        !.error = "attempt"] \in Receipt
         /\ [row EXCEPT !.status = "SETTLEMENT_FAILED", !.hash = FALSE,
                        !.error = "rejected"] \in Receipt
         /\ [row EXCEPT !.status = "SETTLEMENT_PENDING", !.hash = FALSE,
                        !.error = "unknown"] \in Receipt
         /\ [row EXCEPT !.status = "SETTLED", !.hash = TRUE,
                        !.error = "none"] \in Receipt
         /\ [row EXCEPT !.status = "SETTLEMENT_FAILED",
                        !.error = "expired_unused"] \in Receipt
  BY DEF Receipt, Status

(* TypeOK, action by action.  The actions that write a receipt go through   *)
(* RowWrite, the others follow from the sets their primed variables are in. *)
LEMMA TypeHandler ==
  ASSUME TypeOK, Holding, NEW r \in Requests, Gateway(r)
  PROVE  TypeOK'
<1>1. ASSUME NEW a \in Auths, Arrive(r, a) PROVE TypeOK'
  BY <1>1 DEF Arrive, TypeOK, Waiting
<1>2. CASE Precheck(r)
  BY <1>2 DEF Precheck, TypeOK, Waiting, Ended
<1>3. CASE Verify(r)
  <2>1. pc' \in [Requests -> {"idle"} \cup Waiting \cup Ended]
    BY <1>3 DEF Verify, TypeOK, Waiting, Ended
  <2> QED
    BY <1>3, <2>1 DEF Verify, TypeOK
<1>4. CASE AcquireLock(r)
  <2>1. pc' \in [Requests -> {"idle"} \cup Waiting \cup Ended]
    BY <1>4 DEF AcquireLock, TypeOK, Waiting, Ended
  <2>2. auth[r] \in Auths
    BY <1>4 DEF AcquireLock, Holding
  <2>3. now + LockTtl(ValidBefore[auth[r]], now) \in Nat
    <3>1. now \in Nat /\ ValidBefore[auth[r]] \in Nat
      BY <2>2, SettlementConstants DEF TypeOK
    <3>2. LockTtl(ValidBefore[auth[r]], now) \in Nat
      BY <3>1, LockTtlNat
    <3> QED
      BY <3>1, <3>2
  <2>4. lock' \in [Auths -> Nat]
    BY <1>4, <2>2, <2>3 DEF AcquireLock, TypeOK
  <2> QED
    BY <1>4, <2>1, <2>4 DEF AcquireLock, TypeOK
<1>5. CASE ReleaseLock(r)
  BY <1>5 DEF ReleaseLock, TypeOK, Waiting, Ended
<1>6. CASE RejectBody(r) \/ Deliver(r) \/ Crash(r)
  BY <1>6 DEF RejectBody, Deliver, Crash, TypeOK, Waiting, Ended
<1>7. CASE CallUpstream(r)
  <2>1. pc' \in [Requests -> {"idle"} \cup Waiting \cup Ended]
    BY <1>7 DEF CallUpstream, TypeOK, Waiting, Ended
  <2>2. forwarded' \subseteq Requests
    BY <1>7 DEF CallUpstream, TypeOK
  <2> QED
    BY <1>7, <2>1, <2>2 DEF CallUpstream, TypeOK
<1>8. CASE HearSettle(r)
  <2>1. pc' \in [Requests -> {"idle"} \cup Waiting \cup Ended]
    BY <1>8 DEF HearSettle, TypeOK, Waiting, Ended
  <2> QED
    BY <1>8, <2>1 DEF HearSettle, TypeOK
<1>9. CASE InsertReceipt(r)
  <2>1. pc' \in [Requests -> {"idle"} \cup Waiting \cup Ended]
    BY <1>9 DEF InsertReceipt, TypeOK, Waiting, Ended
  <2>2. held' \subseteq Requests
    BY <1>9 DEF InsertReceipt, TypeOK
  <2>3. receipt' \in [Auths -> Receipt]
    <3>1. auth[r] \in Auths /\ receipt \in [Auths -> Receipt]
      BY <1>9 DEF InsertReceipt, TypeOK, Holding
    <3>2. [receipt[auth[r]] EXCEPT !.status = "VERIFIED"] \in Receipt
      BY <3>1, RowsTyped
    <3> QED
      BY <1>9, <3>1, <3>2 DEF InsertReceipt
  <2> QED
    BY <1>9, <2>1, <2>2, <2>3 DEF InsertReceipt, TypeOK
<1>10. CASE \/ MarkUpstreamFailed(r) \/ MarkUpstreamOk(r) \/ MarkPending(r)
            \/ MarkFailed(r) \/ MarkAmbiguous(r)
  <2>1. pc' \in [Requests -> {"idle"} \cup Waiting \cup Ended]
    BY <1>10 DEF MarkUpstreamFailed, MarkUpstreamOk, MarkPending, MarkFailed,
                 MarkAmbiguous, TypeOK, Waiting, Ended
  <2>2. receipt' \in [Auths -> Receipt]
    <3>1. auth[r] \in Auths /\ receipt \in [Auths -> Receipt]
      BY <1>10 DEF MarkUpstreamFailed, MarkUpstreamOk, MarkPending, MarkFailed,
                   MarkAmbiguous, TypeOK, Holding
    <3>2. receipt[auth[r]] \in Receipt
      BY <3>1
    <3> QED
      BY <1>10, <3>1, RowsTyped, <3>2
      DEF MarkUpstreamFailed, MarkUpstreamOk, MarkPending, MarkFailed,
          MarkAmbiguous, MarkSettlementResult
  <2> QED
    BY <1>10, <2>1, <2>2
    DEF MarkUpstreamFailed, MarkUpstreamOk, MarkPending, MarkFailed,
        MarkAmbiguous, TypeOK
<1>11. CASE SendSettle(r)
  BY <1>11 DEF SendSettle, TypeOK, Waiting, Ended
<1>12. CASE PersistSettled(r)
  <2>1. pc' \in [Requests -> {"idle"} \cup Waiting \cup Ended]
    BY <1>12 DEF PersistSettled, TypeOK, Waiting, Ended
  <2>2. receipt' \in [Auths -> Receipt]
    <3>1. auth[r] \in Auths /\ receipt \in [Auths -> Receipt]
      BY <1>12 DEF PersistSettled, TypeOK, Holding
    <3>2. [receipt[auth[r]] EXCEPT !.status = "SETTLED", !.hash = TRUE,
                                   !.error = "none"] \in Receipt
      BY <3>1, RowsTyped
    <3> QED
      BY <1>12, <3>1, <3>2 DEF PersistSettled, ApplySettled
  <2>3. earnings' \in [Auths -> Nat]
    BY <1>12 DEF PersistSettled, ApplySettled, TypeOK
  <2> QED
    BY <1>12, <2>1, <2>2, <2>3 DEF PersistSettled, TypeOK
<1> QED
  BY <1>1, <1>2, <1>3, <1>4, <1>5, <1>6, <1>7, <1>8, <1>9, <1>10, <1>11, <1>12
  DEF Gateway

LEMMA TypeOutside ==
  ASSUME TypeOK, Holding, Outside
  PROVE  TypeOK'
<1>1. ASSUME NEW r \in Requests, FacilitatorCharges(r) \/ FacilitatorDeclines(r)
      PROVE  TypeOK'
  BY <1>1 DEF FacilitatorCharges, FacilitatorDeclines, TypeOK
<1>2. ASSUME NEW a \in Auths, SpendElsewhere(a) PROVE TypeOK'
  BY <1>2 DEF SpendElsewhere, TypeOK
<1>3. CASE Tick
  BY <1>3 DEF Tick, TypeOK
<1> QED
  BY <1>1, <1>2, <1>3 DEF Outside

LEMMA TypeRecovery ==
  ASSUME TypeOK, Charged, NEW p \in Recoverers, Recovery(p)
  PROVE  TypeOK'
<1>1. CASE ListPending(p)
  BY <1>1 DEF ListPending, TypeOK
<1>2. ASSUME NEW a \in Auths, ReadEvidence(p, a) PROVE TypeOK'
  <2>1. CASE Evidence(a) = "conflict"
    BY <1>2, <2>1 DEF ReadEvidence, TypeOK
  <2>2. CASE Evidence(a) # "conflict"
    <3>1. Evidence(a) \in {"settled", "not_found"}
      BY <2>2 DEF Evidence
    <3> QED
      BY <1>2, <2>2, <3>1 DEF ReadEvidence, TypeOK
  <2> QED
    BY <2>1, <2>2
<1>3. ASSUME NEW a \in Auths, EvidenceUnavailable(p, a) PROVE TypeOK'
  BY <1>3 DEF EvidenceUnavailable, TypeOK
<1>4. CASE RecoverSettled(p)
  <2>1. cur[p] \in Auths /\ receipt \in [Auths -> Receipt]
    BY <1>4 DEF RecoverSettled, Charged, TypeOK
  <2>2. [receipt[cur[p]] EXCEPT !.status = "SETTLED", !.hash = TRUE,
                                !.error = "none"] \in Receipt
    BY <2>1, RowsTyped
  <2>3. receipt' \in [Auths -> Receipt]
    BY <1>4, <2>1, <2>2 DEF RecoverSettled, ApplySettled
  <2>4. earnings' \in [Auths -> Nat]
    BY <1>4 DEF RecoverSettled, ApplySettled, TypeOK
  <2> QED
    BY <1>4, <2>3, <2>4 DEF RecoverSettled, Decided, TypeOK
<1>5. CASE RecoverNotFound(p)
  <2>1. cur[p] \in Auths /\ receipt \in [Auths -> Receipt]
    BY <1>5 DEF RecoverNotFound, Charged, TypeOK
  <2>2. [receipt[cur[p]] EXCEPT !.status = "SETTLEMENT_FAILED",
                                !.error = "expired_unused"] \in Receipt
    BY <2>1, RowsTyped
  <2>3. receipt' \in [Auths -> Receipt]
    BY <1>5, <2>1, <2>2 DEF RecoverNotFound, MarkExpired
  <2> QED
    BY <1>5, <2>3 DEF RecoverNotFound, Decided, TypeOK
<1>6. CASE FinishRecovery(p) \/ AbortRecovery(p)
  BY <1>6 DEF FinishRecovery, AbortRecovery, Reset, TypeOK
<1> QED
  BY <1>1, <1>2, <1>3, <1>4, <1>5, <1>6 DEF Recovery

(* The steps of a handler that leave the database and the chain alone. *)
LEMMA QuietStep ==
  ASSUME Inv, NEW r \in Requests,
         \/ \E a \in Auths : Arrive(r, a)
         \/ Precheck(r) \/ Verify(r) \/ AcquireLock(r) \/ ReleaseLock(r)
         \/ RejectBody(r) \/ CallUpstream(r) \/ SendSettle(r) \/ HearSettle(r)
         \/ Deliver(r) \/ Crash(r)
  PROVE  Holding' /\ Staged' /\ Charged' /\ CreditMatchesCharge'
         /\ DeliveredStaysSettled'
<1> USE DEF Inv, Holding, Staged, Charged, CreditMatchesCharge,
            DeliveredStaysSettled, Attempted, AfterInsert, AfterSettle, TypeOK
<1>1. CASE \E a \in Auths : Arrive(r, a)
  BY <1>1 DEF Arrive
<1>2. CASE Precheck(r)
  BY <1>2 DEF Precheck
<1>3. CASE Verify(r)
  BY <1>3 DEF Verify
<1>4. CASE AcquireLock(r)
  BY <1>4 DEF AcquireLock
<1>5. CASE ReleaseLock(r)
  BY <1>5 DEF ReleaseLock
<1>6. CASE RejectBody(r)
  BY <1>6 DEF RejectBody
<1>7. CASE CallUpstream(r)
  BY <1>7 DEF CallUpstream
<1>8. CASE SendSettle(r)
  BY <1>8 DEF SendSettle
<1>9. CASE HearSettle(r)
  BY <1>9 DEF HearSettle
<1>10. CASE Deliver(r)
  BY <1>10 DEF Deliver
<1>11. CASE Crash(r)
  BY <1>11 DEF Crash, Waiting
<1> QED
  BY <1>1, <1>2, <1>3, <1>4, <1>5, <1>6, <1>7, <1>8, <1>9, <1>10, <1>11

(* The steps of a handler that write its receipt. *)
LEMMA WriteStep ==
  ASSUME Inv, NEW r \in Requests,
         \/ InsertReceipt(r) \/ MarkUpstreamFailed(r) \/ MarkUpstreamOk(r)
         \/ MarkPending(r) \/ MarkFailed(r) \/ MarkAmbiguous(r)
         \/ PersistSettled(r)
  PROVE  Holding' /\ Staged' /\ Charged' /\ CreditMatchesCharge'
         /\ DeliveredStaysSettled'
<1> DEFINE a == auth[r]
<1> USE DEF Inv, Holding, Staged, Charged, CreditMatchesCharge,
            DeliveredStaysSettled, Attempted, AfterInsert, AfterSettle, TypeOK
<1>1. CASE InsertReceipt(r) /\ receipt[a].status # "NONE"
  BY <1>1 DEF InsertReceipt
<1>2. CASE InsertReceipt(r) /\ receipt[a].status = "NONE"
  <2>1. a \in Auths /\ receipt[a] \in Receipt
    BY <1>2 DEF InsertReceipt
  <2>2. /\ \A b \in Auths \ {a} : receipt'[b] = receipt[b]
        /\ receipt'[a].status = "VERIFIED"
        /\ receipt'[a].attempt = receipt[a].attempt
    BY <1>2, <2>1 DEF InsertReceipt, Receipt
  <2>3. Holding'
    BY <1>2, <2>1, <2>2 DEF InsertReceipt
  <2>4. Staged'
    BY <1>2, <2>1, <2>2 DEF InsertReceipt
  <2> QED
    BY <1>2, <2>1, <2>2, <2>3, <2>4 DEF InsertReceipt
<1>3. CASE MarkUpstreamFailed(r)
  <2>1. a \in Auths /\ receipt[a] \in Receipt
    BY <1>3 DEF MarkUpstreamFailed
  <2>2. /\ \A b \in Auths \ {a} : receipt'[b] = receipt[b]
        /\ receipt'[a].status = "UPSTREAM_FAILED"
    BY <1>3, <2>1 DEF MarkUpstreamFailed, Receipt
  <2> QED
    BY <1>3, <2>1, <2>2 DEF MarkUpstreamFailed
<1>4. CASE MarkUpstreamOk(r)
  <2>1. a \in Auths /\ receipt[a] \in Receipt
    BY <1>4 DEF MarkUpstreamOk
  <2>2. /\ \A b \in Auths \ {a} : receipt'[b] = receipt[b]
        /\ receipt'[a].status = "VERIFIED"
        /\ receipt'[a].upstream = "2xx"
        /\ receipt'[a].attempt = receipt[a].attempt
    BY <1>4, <2>1 DEF MarkUpstreamOk, Receipt
  <2> QED
    BY <1>4, <2>1, <2>2 DEF MarkUpstreamOk
<1>5. CASE MarkPending(r)
  <2>1. a \in Auths /\ receipt[a] \in Receipt
    BY <1>5 DEF MarkPending
  <2>2. /\ \A b \in Auths \ {a} : receipt'[b] = receipt[b]
        /\ receipt'[a].status = "SETTLEMENT_PENDING"
        /\ receipt'[a].attempt
        /\ receipt'[a].upstream = receipt[a].upstream
    BY <1>5, <2>1 DEF MarkPending, Receipt
  <2> QED
    BY <1>5, <2>1, <2>2 DEF MarkPending
<1>6. CASE MarkFailed(r)
  <2>1. a \in Auths /\ receipt[a] \in Receipt
    BY <1>6 DEF MarkFailed
  <2>2. /\ \A b \in Auths \ {a} : receipt'[b] = receipt[b]
        /\ receipt'[a].status = "SETTLEMENT_FAILED"
        /\ receipt'[a].attempt = receipt[a].attempt
        /\ receipt'[a].upstream = receipt[a].upstream
    BY <1>6, <2>1 DEF MarkFailed, MarkSettlementResult, Receipt
  <2> QED
    BY <1>6, <2>1, <2>2 DEF MarkFailed
<1>7. CASE MarkAmbiguous(r)
  <2>1. a \in Auths /\ receipt[a] \in Receipt
    BY <1>7 DEF MarkAmbiguous
  <2>2. /\ \A b \in Auths \ {a} : receipt'[b] = receipt[b]
        /\ receipt'[a].status = "SETTLEMENT_PENDING"
        /\ receipt'[a].attempt = receipt[a].attempt
        /\ receipt'[a].upstream = receipt[a].upstream
    BY <1>7, <2>1 DEF MarkAmbiguous, MarkSettlementResult, Receipt
  <2> QED
    BY <1>7, <2>1, <2>2 DEF MarkAmbiguous
<1>8. CASE PersistSettled(r) /\ ~ApplySettled(a)
  BY <1>8 DEF PersistSettled
<1>9. CASE PersistSettled(r) /\ ApplySettled(a)
  <2>1. a \in Auths /\ receipt[a] \in Receipt
    BY <1>9 DEF PersistSettled
  <2>2. /\ \A b \in Auths \ {a} : receipt'[b] = receipt[b]
        /\ receipt'[a].status = "SETTLED"
        /\ receipt'[a].hash
        /\ receipt'[a].attempt = receipt[a].attempt
        /\ receipt'[a].upstream = receipt[a].upstream
    BY <1>9, <2>1 DEF ApplySettled, Receipt
  <2>3. /\ \A b \in Auths \ {a} : earnings'[b] = earnings[b]
        /\ earnings'[a] = 1
    BY <1>9, <2>1 DEF ApplySettled
  <2>4. \E to \in {"deliver", "withheld"} : Goto(r, "apply", to)
    BY <1>9 DEF PersistSettled
  <2>5. UNCHANGED <<lock, auth, held, forwarded, outside, recovery>>
    BY <1>9 DEF PersistSettled
  <2> QED
    BY <2>1, <2>2, <2>3, <2>4, <2>5
<1> QED
  BY <1>1, <1>2, <1>3, <1>4, <1>5, <1>6, <1>7, <1>8, <1>9
  DEF InsertReceipt, PersistSettled

(* The steps of the facilitator, the payer and the clock. *)
LEMMA OutsideStep ==
  ASSUME Inv, Outside
  PROVE  Holding' /\ Staged' /\ Charged' /\ CreditMatchesCharge'
         /\ DeliveredStaysSettled'
<1> USE DEF Inv, Holding, Staged, Charged, CreditMatchesCharge,
            DeliveredStaysSettled, Attempted, AfterInsert, AfterSettle, TypeOK
<1>1. ASSUME NEW r \in Requests, FacilitatorCharges(r)
      PROVE  Holding' /\ Staged' /\ Charged' /\ CreditMatchesCharge'
             /\ DeliveredStaysSettled'
  BY <1>1 DEF FacilitatorCharges
<1>2. ASSUME NEW r \in Requests, FacilitatorDeclines(r)
      PROVE  Holding' /\ Staged' /\ Charged' /\ CreditMatchesCharge'
             /\ DeliveredStaysSettled'
  BY <1>2 DEF FacilitatorDeclines
<1>3. ASSUME NEW a \in Auths, SpendElsewhere(a)
      PROVE  Holding' /\ Staged' /\ Charged' /\ CreditMatchesCharge'
             /\ DeliveredStaysSettled'
  BY <1>3 DEF SpendElsewhere
<1>4. CASE Tick
  BY <1>4 DEF Tick
<1> QED
  BY <1>1, <1>2, <1>3, <1>4 DEF Outside

(* The steps of the recovery script. *)
LEMMA RecoveryStep ==
  ASSUME Inv, NEW p \in Recoverers, Recovery(p)
  PROVE  Holding' /\ Staged' /\ Charged' /\ CreditMatchesCharge'
         /\ DeliveredStaysSettled'
<1> DEFINE a == cur[p]
<1> USE DEF Inv, Holding, Staged, Charged, CreditMatchesCharge,
            DeliveredStaysSettled, Attempted, AfterInsert, AfterSettle, TypeOK
<1>1. CASE ListPending(p)
  BY <1>1 DEF ListPending
<1>2. ASSUME NEW b \in Auths, ReadEvidence(p, b)
      PROVE  Holding' /\ Staged' /\ Charged' /\ CreditMatchesCharge'
             /\ DeliveredStaysSettled'
  BY <1>2 DEF ReadEvidence, Evidence
<1>3. ASSUME NEW b \in Auths, EvidenceUnavailable(p, b)
      PROVE  Holding' /\ Staged' /\ Charged' /\ CreditMatchesCharge'
             /\ DeliveredStaysSettled'
  BY <1>3 DEF EvidenceUnavailable
<1>4. CASE RecoverSettled(p)
  <2>1. a \in Auths /\ receipt[a] \in Receipt /\ chain[a] = "charged"
    BY <1>4 DEF RecoverSettled
  <2>2. /\ \A b \in Auths \ {a} : receipt'[b] = receipt[b]
        /\ receipt'[a].status = "SETTLED"
        /\ receipt'[a].hash
        /\ receipt'[a].attempt = receipt[a].attempt
        /\ receipt'[a].upstream = receipt[a].upstream
    BY <1>4, <2>1 DEF RecoverSettled, ApplySettled, Receipt
  <2>3. /\ \A b \in Auths \ {a} : earnings'[b] = earnings[b]
        /\ earnings'[a] = 1
    BY <1>4, <2>1 DEF RecoverSettled, ApplySettled
  <2>4. Attempted(a)
    BY <2>1
  <2>5. Holding'
    BY <1>4, <2>1, <2>2 DEF RecoverSettled
  <2>6. Staged'
    <3>1. /\ \A r \in Requests : auth[r] # a => receipt'[auth[r]] = receipt[auth[r]]
                                              \/ pc[r] = "idle"
          /\ pc' = pc /\ facil' = facil /\ auth' = auth
      BY <1>4, <2>2 DEF RecoverSettled
    <3>2. /\ receipt[a].attempt /\ receipt'[a].attempt
          /\ receipt[a].upstream = "2xx" /\ receipt'[a].upstream = "2xx"
      BY <2>1, <2>2
    <3>3. \A r \in Requests : facil[r] # "none" => pc[r] # "idle"
      BY DEF AfterSettle
    <3> QED
      BY <2>1, <2>2, <3>1, <3>2, <3>3
  <2> QED
    BY <1>4, <2>1, <2>2, <2>3, <2>5, <2>6 DEF RecoverSettled, Decided
<1>5. CASE RecoverNotFound(p) /\ UNCHANGED receipt
  BY <1>5 DEF RecoverNotFound, Decided
<1>6. CASE RecoverNotFound(p) /\ receipt' # receipt
  <2>1. /\ a \in Auths /\ receipt[a] \in Receipt
        /\ receipt[a].status = "SETTLEMENT_PENDING"
        /\ receipt' = [receipt EXCEPT ![a] =
                        [receipt[a] EXCEPT !.status = "SETTLEMENT_FAILED",
                                           !.error = "expired_unused"]]
    BY <1>6 DEF RecoverNotFound, MarkExpired
  <2>2. /\ \A b \in Auths \ {a} : receipt'[b] = receipt[b]
        /\ receipt'[a].status = "SETTLEMENT_FAILED"
        /\ receipt'[a].attempt = receipt[a].attempt
        /\ receipt'[a].upstream = receipt[a].upstream
    BY <2>1 DEF Receipt
  <2> QED
    BY <1>6, <2>1, <2>2 DEF RecoverNotFound, Decided
<1>7. CASE FinishRecovery(p) \/ AbortRecovery(p)
  BY <1>7 DEF FinishRecovery, AbortRecovery, Reset
<1> QED
  BY <1>1, <1>2, <1>3, <1>4, <1>5, <1>6, <1>7 DEF Recovery

LEMMA InvNext ==
  ASSUME Inv, [Next]_vars
  PROVE  Inv'
<1>1. ASSUME NEW r \in Requests, Gateway(r) PROVE Inv'
  <2>1. TypeOK'
    BY <1>1, TypeHandler DEF Inv
  <2>2. Holding' /\ Staged' /\ Charged' /\ CreditMatchesCharge'
        /\ DeliveredStaysSettled'
    BY <1>1, QuietStep, WriteStep DEF Gateway
  <2> QED
    BY <2>1, <2>2 DEF Inv
<1>2. CASE Outside
  BY <1>2, TypeOutside, OutsideStep DEF Inv
<1>3. ASSUME NEW p \in Recoverers, Recovery(p) PROVE Inv'
  BY <1>3, TypeRecovery, RecoveryStep DEF Inv
<1>4. CASE UNCHANGED vars
  BY <1>4 DEF vars, Inv, TypeOK, Holding, Staged, Attempted, Charged,
              CreditMatchesCharge, DeliveredStaysSettled
<1> QED
  BY <1>1, <1>2, <1>3, <1>4 DEF Next

(* Inv is an invariant of the specification. *)
THEOREM Invariance == Spec => []Inv
  BY InvInit, InvNext, PTL DEF Spec

-----------------------------------------------------------------------------
(* What follows from Inv. *)

(* Every variable keeps its type: no write of a handler, of the recovery   *)
(* script or of a late handler leaves a row outside the table's columns.   *)
THEOREM TypeCorrect == Spec => []TypeOK
<1>1. Inv => TypeOK
  BY DEF Inv
<1> QED
  BY <1>1, Invariance, PTL

(* README.md:427: whatever locks expire or are deleted by other requests,  *)
(* whatever handlers crash, of the requests that present an authorization  *)
(* one holds its receipt, one reaches the upstream, one is sent to /settle. *)
THEOREM AtMostOnceHolds == Spec => []AtMostOnce
<1>1. Inv => AtMostOnce
  BY DEF Inv, TypeOK, Holding, AtMostOnce
<1> QED
  BY <1>1, Invariance, PTL

(* A payer is charged only for an upstream call that answered 2xx and whose *)
(* settlement attempt is on record (settlement-flow.ts:53).                *)
THEOREM ChargedAfterServiceHolds == Spec => []ChargedAfterService
<1>1. Inv => ChargedAfterService
  BY DEF Inv, TypeOK, Staged, Charged, Attempted, ChargedAfterService
<1> QED
  BY <1>1, Invariance, PTL

(* Earnings and charges agree, whoever applies the settlement and however  *)
(* often: at most one earning, none without a charge, one when SETTLED.    *)
THEOREM CreditMatchesChargeHolds == Spec => []CreditMatchesCharge
<1>1. Inv => CreditMatchesCharge
  BY DEF Inv
<1> QED
  BY <1>1, Invariance, PTL

(* A settlement on which the resource was delivered is never undone, not   *)
(* even by a recovery run that works from stale evidence.                  *)
THEOREM DeliveredStaysSettledHolds == Spec => []DeliveredStaysSettled
<1>1. Inv => DeliveredStaysSettled
  BY DEF Inv
<1> QED
  BY <1>1, Invariance, PTL

-----------------------------------------------------------------------------
(* Settlement implements PaymentPromise. *)

(* When the abstract state stays the same. *)
LEMMA PhaseKept ==
  ASSUME UNCHANGED chain,
         \A a \in Auths : receipt'[a].status = "NONE" <=> receipt[a].status = "NONE"
  PROVE  UNCHANGED PhaseOf
  BY DEF PhaseOf

LEMMA ServedKept ==
  ASSUME \A r \in Requests :
           \/ pc'[r] = pc[r] /\ auth'[r] = auth[r]
           \/ pc[r] # "delivered" /\ pc'[r] # "delivered"
  PROVE  UNCHANGED ServedOn
  BY DEF ServedOn

(* Applying a settlement credits the authorization or has done so already. *)
LEMMA ApplyCredits ==
  ASSUME Inv, NEW a \in Auths, chain[a] = "charged", ApplySettled(a),
         UNCHANGED <<chain, ServedOn>>
  PROVE  Promise!Credit(a) \/ UNCHANGED Promise!promiseVars
<1>1. receipt[a] \in Receipt /\ receipt[a].status # "NONE"
  BY DEF Inv, TypeOK, Charged, Staged, Attempted
<1>2. \A b \in Auths : receipt'[b].status = "NONE" <=> receipt[b].status = "NONE"
  BY <1>1 DEF ApplySettled, Receipt, Inv, TypeOK
<1>3. UNCHANGED PhaseOf
  BY <1>2, PhaseKept
<1>4. earnings[a] \in {0, 1} /\ PhaseOf[a] = "charged"
  BY DEF Inv, CreditMatchesCharge, PhaseOf
<1>5. earnings[a] = 1 => UNCHANGED earnings
  BY DEF ApplySettled, Inv, TypeOK
<1>6. earnings[a] = 0 => earnings' = [earnings EXCEPT ![a] = 1]
  BY DEF ApplySettled
<1> QED
  BY <1>3, <1>4, <1>5, <1>6 DEF Promise!Credit, Promise!promiseVars

(* An update of a row never makes it absent. *)
LEMMA NoStatusErased ==
  ASSUME Inv, NEW r \in Requests, auth[r] \in Auths,
         receipt[auth[r]].status # "NONE",
         \/ MarkUpstreamFailed(r) \/ MarkUpstreamOk(r) \/ MarkPending(r)
         \/ MarkFailed(r) \/ MarkAmbiguous(r)
  PROVE  \A b \in Auths :
           receipt'[b].status = "NONE" <=> receipt[b].status = "NONE"
<1>1. receipt \in [Auths -> Receipt] /\ receipt[auth[r]] \in Receipt
  BY DEF Inv, TypeOK
<1>2. CASE MarkUpstreamFailed(r)
  BY <1>1, <1>2 DEF MarkUpstreamFailed, Receipt
<1>3. CASE MarkUpstreamOk(r)
  BY <1>1, <1>3 DEF MarkUpstreamOk, Receipt
<1>4. CASE MarkPending(r)
  BY <1>1, <1>4 DEF MarkPending, Receipt
<1>5. CASE MarkFailed(r)
  BY <1>1, <1>5 DEF MarkFailed, MarkSettlementResult, Receipt
<1>6. CASE MarkAmbiguous(r)
  BY <1>1, <1>6 DEF MarkAmbiguous, MarkSettlementResult, Receipt
<1> QED
  BY <1>2, <1>3, <1>4, <1>5, <1>6

LEMMA PromiseStart == Init => Promise!PromiseInit
  BY DEF Init, NoReceipt, PhaseOf, ServedOn, Promise!PromiseInit

LEMMA HandlerKeepsPromise ==
  ASSUME Inv, NEW r \in Requests, Gateway(r)
  PROVE  [Promise!PromiseNext]_Promise!promiseVars
<1> DEFINE a == auth[r]
<1>1. \/ Deliver(r)
      \/ InsertReceipt(r) /\ receipt' # receipt
      \/ PersistSettled(r) /\ ApplySettled(a)
      \/ MarkUpstreamFailed(r) \/ MarkUpstreamOk(r) \/ MarkPending(r)
      \/ MarkFailed(r) \/ MarkAmbiguous(r)
      \/ UNCHANGED <<receipt, earnings, chain, ServedOn>>
  <2>1. \/ Deliver(r)
        \/ InsertReceipt(r) /\ receipt' # receipt
        \/ PersistSettled(r) /\ ApplySettled(a)
        \/ MarkUpstreamFailed(r) \/ MarkUpstreamOk(r) \/ MarkPending(r)
        \/ MarkFailed(r) \/ MarkAmbiguous(r)
        \/ /\ UNCHANGED <<receipt, earnings, chain>>
           /\ pc[r] # "delivered" /\ pc'[r] # "delivered"
           /\ \A q \in Requests \ {r} : pc'[q] = pc[q] /\ auth'[q] = auth[q]
    BY DEF Gateway, Arrive, Precheck, Verify, AcquireLock, InsertReceipt,
           ReleaseLock, RejectBody, CallUpstream, SendSettle, HearSettle,
           PersistSettled, Crash, Waiting, Inv, TypeOK
  <2> QED
    BY <2>1, ServedKept
<1>2. CASE Deliver(r)
  <2>1. a \in Auths /\ PhaseOf[a] = "charged" /\ earnings[a] = 1
    BY <1>2 DEF Deliver, Inv, Holding, DeliveredStaysSettled,
                CreditMatchesCharge, PhaseOf
  <2>2. \A q \in Requests : auth[q] = a => pc[q] # "delivered"
    BY <1>2 DEF Deliver, Inv, Holding, AfterInsert
  <2>3. ServedOn[a] = {}
    BY <2>1, <2>2 DEF ServedOn
  <2>4. \A q \in Requests : auth'[q] = auth[q] /\
          (pc'[q] = "delivered" <=> pc[q] = "delivered" \/ q = r)
    BY <1>2 DEF Deliver, Inv, TypeOK
  <2>5. ServedOn' = [ServedOn EXCEPT ![a] = {r}]
    <3>1. {q \in Requests : pc'[q] = "delivered" /\ auth'[q] = a} = {r}
      BY <2>2, <2>4
    <3>2. ASSUME NEW b \in Auths, b # a
          PROVE  {q \in Requests : pc'[q] = "delivered" /\ auth'[q] = b} =
                 {q \in Requests : pc[q] = "delivered" /\ auth[q] = b}
      BY <2>4, <3>2
    <3> QED
      BY <2>1, <3>1, <3>2 DEF ServedOn
  <2>6. UNCHANGED PhaseOf
    BY <1>2, PhaseKept DEF Deliver
  <2>7. Promise!Serve(a, r)
    BY <1>2, <2>1, <2>3, <2>5, <2>6 DEF Deliver, Promise!Serve
  <2> QED
    BY <2>1, <2>7 DEF Promise!PromiseNext
<1>3. CASE InsertReceipt(r) /\ receipt' # receipt
  <2>1. /\ a \in Auths /\ receipt[a] \in Receipt
        /\ receipt[a].status = "NONE" /\ chain[a] # "charged"
    BY <1>3 DEF InsertReceipt, Inv, Holding, Charged, Staged, Attempted, TypeOK
  <2>2. /\ \A b \in Auths \ {a} : receipt'[b] = receipt[b]
        /\ receipt'[a].status = "VERIFIED"
    BY <1>3, <2>1 DEF InsertReceipt, Receipt, Inv, TypeOK
  <2>3. PhaseOf' = [PhaseOf EXCEPT ![a] = "claimed"]
    BY <1>3, <2>1, <2>2 DEF InsertReceipt, PhaseOf
  <2>4. UNCHANGED ServedOn
    BY <1>3, ServedKept DEF InsertReceipt, Inv, TypeOK
  <2>5. Promise!Claim(a)
    BY <1>3, <2>1, <2>3, <2>4 DEF InsertReceipt, PhaseOf, Promise!Claim
  <2> QED
    BY <2>1, <2>5 DEF Promise!PromiseNext
<1>4. CASE PersistSettled(r) /\ ApplySettled(a)
  <2>1. a \in Auths /\ chain[a] = "charged"
    BY <1>4 DEF PersistSettled, Inv, Holding, Charged
  <2>2. UNCHANGED ServedOn
    BY <1>4, ServedKept DEF PersistSettled, Inv, TypeOK
  <2>3. UNCHANGED chain
    BY <1>4 DEF PersistSettled
  <2> QED
    BY <1>4, <2>1, <2>2, <2>3, ApplyCredits DEF Promise!PromiseNext
<1>5. CASE \/ MarkUpstreamFailed(r) \/ MarkUpstreamOk(r) \/ MarkPending(r)
           \/ MarkFailed(r) \/ MarkAmbiguous(r)
  <2>1. /\ a \in Auths /\ receipt[a] \in Receipt
        /\ receipt[a].status # "NONE"
    BY <1>5 DEF MarkUpstreamFailed, MarkUpstreamOk, MarkPending, MarkFailed,
                MarkAmbiguous, Inv, Holding, AfterInsert, TypeOK
  <2>2. \A b \in Auths : receipt'[b].status = "NONE" <=> receipt[b].status = "NONE"
    BY <1>5, <2>1, NoStatusErased
  <2>3. UNCHANGED PhaseOf
    BY <1>5, <2>2, PhaseKept
    DEF MarkUpstreamFailed, MarkUpstreamOk, MarkPending, MarkFailed, MarkAmbiguous
  <2>4. UNCHANGED ServedOn
    BY <1>5, ServedKept
    DEF MarkUpstreamFailed, MarkUpstreamOk, MarkPending, MarkFailed,
        MarkAmbiguous, Inv, TypeOK
  <2> QED
    BY <1>5, <2>3, <2>4
    DEF MarkUpstreamFailed, MarkUpstreamOk, MarkPending, MarkFailed,
        MarkAmbiguous, Promise!promiseVars
<1>6. CASE UNCHANGED <<receipt, earnings, chain, ServedOn>>
  BY <1>6, PhaseKept DEF Promise!promiseVars
<1> QED
  BY <1>1, <1>2, <1>3, <1>4, <1>5, <1>6

LEMMA OutsideKeepsPromise ==
  ASSUME Inv, Outside
  PROVE  [Promise!PromiseNext]_Promise!promiseVars
<1>1. UNCHANGED <<receipt, earnings, ServedOn>>
  BY ServedKept DEF Outside, FacilitatorCharges, FacilitatorDeclines,
                    SpendElsewhere, Tick
<1>2. ASSUME NEW r \in Requests, FacilitatorCharges(r)
      PROVE  Promise!PromiseNext
  <2>1. /\ auth[r] \in Auths /\ chain[auth[r]] = "unused"
        /\ receipt[auth[r]].status # "NONE"
    BY <1>2 DEF FacilitatorCharges, Inv, Holding, AfterSettle, Staged, Attempted
  <2>2. chain' = [chain EXCEPT ![auth[r]] = "charged"]
    BY <1>2 DEF FacilitatorCharges
  <2>3. PhaseOf' = [PhaseOf EXCEPT ![auth[r]] = "charged"]
    BY <1>1, <2>1, <2>2 DEF PhaseOf, Inv, TypeOK
  <2>4. PhaseOf[auth[r]] = "claimed"
    BY <2>1 DEF PhaseOf
  <2> QED
    BY <1>1, <2>1, <2>3, <2>4 DEF Promise!Charge, Promise!PromiseNext
<1>3. ASSUME NEW a \in Auths, SpendElsewhere(a)
      PROVE  UNCHANGED Promise!promiseVars
  <2>1. /\ chain[a] # "charged"
        /\ \E use \in {"elsewhere", "cancelled"} : chain' = [chain EXCEPT ![a] = use]
    BY <1>3 DEF SpendElsewhere
  <2>2. UNCHANGED PhaseOf
    BY <1>1, <2>1 DEF PhaseOf, Inv, TypeOK
  <2> QED
    BY <1>1, <2>2 DEF Promise!promiseVars
<1>4. CASE UNCHANGED chain
  BY <1>1, <1>4, PhaseKept DEF Promise!promiseVars
<1> QED
  BY <1>2, <1>3, <1>4 DEF Outside, FacilitatorDeclines, Tick

LEMMA RecoveryKeepsPromise ==
  ASSUME Inv, NEW p \in Recoverers, Recovery(p)
  PROVE  [Promise!PromiseNext]_Promise!promiseVars
<1>1. UNCHANGED <<chain, ServedOn>>
  BY ServedKept DEF Recovery, ListPending, ReadEvidence, EvidenceUnavailable,
                    RecoverSettled, RecoverNotFound, FinishRecovery,
                    AbortRecovery, Reset
<1>2. CASE RecoverSettled(p)
  <2>1. cur[p] \in Auths /\ chain[cur[p]] = "charged" /\ ApplySettled(cur[p])
    BY <1>2 DEF RecoverSettled, Inv, Charged
  <2> QED
    BY <1>1, <2>1, ApplyCredits DEF Promise!PromiseNext
<1>3. CASE RecoverNotFound(p) /\ receipt' # receipt
  <2>1. /\ cur[p] \in Auths /\ receipt[cur[p]] \in Receipt
        /\ receipt[cur[p]].status = "SETTLEMENT_PENDING"
        /\ receipt' = [receipt EXCEPT ![cur[p]] =
                        [receipt[cur[p]] EXCEPT !.status = "SETTLEMENT_FAILED",
                                                !.error = "expired_unused"]]
    BY <1>3 DEF RecoverNotFound, MarkExpired, Inv, Charged, TypeOK
  <2>2. \A b \in Auths : receipt'[b].status = "NONE" <=> receipt[b].status = "NONE"
    BY <2>1 DEF Receipt, Inv, TypeOK
  <2> QED
    BY <1>1, <1>3, <2>2, PhaseKept DEF RecoverNotFound, Promise!promiseVars
<1>4. CASE UNCHANGED <<receipt, earnings>>
  BY <1>1, <1>4, PhaseKept DEF Promise!promiseVars
<1> QED
  BY <1>2, <1>3, <1>4 DEF Recovery, ListPending, ReadEvidence,
     EvidenceUnavailable, RecoverNotFound, FinishRecovery, AbortRecovery, Reset

LEMMA StepKeepsPromise ==
  ASSUME Inv, [Next]_vars
  PROVE  [Promise!PromiseNext]_Promise!promiseVars
<1>1. CASE UNCHANGED vars
  BY <1>1, PhaseKept, ServedKept DEF vars, Promise!promiseVars
<1>2. CASE Next
  BY <1>2, HandlerKeepsPromise, OutsideKeepsPromise, RecoveryKeepsPromise DEF Next
<1> QED
  BY <1>1, <1>2

(* The gateway and its recovery keep the promise of PaymentPromise.tla: an *)
(* authorization is claimed once, charged at most once after that, credited *)
(* at most once after that, and serves at most one caller after that.      *)
THEOREM KeepsPromise == Spec => ImplementsPromise
  BY StepKeepsPromise, PromiseStart, Invariance, PTL
  DEF Spec, ImplementsPromise, Promise!PromiseSpec

-----------------------------------------------------------------------------
(* The lock *)

Claims(r, a) == auth[r] = a /\ (r \in held \/ pc[r] \in {"insert", "release"})

Chargeable(a) == now < ValidBefore[a] /\ ValidBefore[a] <= MaxTtl

(* While an authorization can be charged, one request claims it, under a    *)
(* lock that outlives it; and a row has been inserted by a claim.           *)
LockCovers ==
  \A a \in Auths :
    /\ Chargeable(a) =>
         \A r1, r2 \in Requests :
           Claims(r1, a) => lock[a] >= ValidBefore[a] /\ (Claims(r2, a) => r1 = r2)
    /\ receipt[a].status # "NONE" => \E r \in held : auth[r] = a
    /\ \A r \in Requests : auth[r] = a /\ pc[r] = "release" => receipt[a].status # "NONE"

LEMMA LockTtlCovers ==
  ASSUME NEW d \in Nat, NEW t \in Nat, t < d, d <= MaxTtl
  PROVE  t + LockTtl(d, t) >= d
BY SettlementConstants DEF LockTtl

(* The loser of an insert cannot exist while the authorization is valid. *)
LEMMA NoLoser ==
  ASSUME Inv, LockCovers, NEW r \in Requests, pc[r] = "insert" \/ pc[r] = "release",
         Chargeable(auth[r])
  PROVE  receipt[auth[r]].status = "NONE" /\ pc[r] = "insert"
<1>1. auth[r] \in Auths /\ Claims(r, auth[r]) /\ r \notin held
  BY DEF Inv, Holding, Claims, AfterInsert
<1>2. ASSUME NEW q \in held, auth[q] = auth[r] PROVE FALSE
  <2>1. q \in Requests /\ Claims(q, auth[r])
    BY <1>2 DEF Inv, TypeOK, Claims
  <2> QED
    BY <1>1, <1>2, <2>1 DEF LockCovers
<1> QED
  BY <1>1, <1>2 DEF LockCovers

(* What neither claims nor locks nor inserts anything keeps the lock        *)
(* covering.                                                                *)
LEMMA LockRests ==
  ASSUME LockCovers, now' >= now, now \in Nat, now' \in Nat,
         \A r \in Requests, a \in Auths : Claims(r, a)' => Claims(r, a),
         \A a \in Auths : Chargeable(a) => lock'[a] = lock[a],
         \A r \in held : r \in held' /\ auth'[r] = auth[r],
         \A r \in Requests : pc'[r] = "release" => pc[r] = "release" /\ auth'[r] = auth[r],
         \A a \in Auths : receipt'[a].status = "NONE" <=> receipt[a].status = "NONE"
  PROVE  LockCovers'
<1>1. ASSUME NEW a \in Auths, Chargeable(a)' PROVE Chargeable(a)
  BY <1>1, SettlementConstants DEF Chargeable
<1> QED
  BY <1>1 DEF LockCovers

LEMMA LockByHandler ==
  ASSUME Inv, LockCovers, NEW r \in Requests, Gateway(r)
  PROVE  LockCovers'
<1> DEFINE a == auth[r]
<1>1. TypeOK /\ Holding /\ now \in Nat
  BY DEF Inv, TypeOK
<1>2. CASE AcquireLock(r) /\ lock[a] > now
  <2>1. pc[r] = "lock" /\ pc' = [pc EXCEPT ![r] = "replay"]
        /\ UNCHANGED <<receipt, lock, auth, held, now>>
    BY <1>1, <1>2 DEF AcquireLock, TypeOK, Holding
  <2>2. \A q \in Requests, b \in Auths : Claims(q, b)' => Claims(q, b)
    BY <1>1, <2>1 DEF Claims, TypeOK
  <2> QED
    BY <1>1, <2>1, <2>2, LockRests DEF TypeOK
<1>3. CASE AcquireLock(r) /\ lock[a] <= now
  <2>1. /\ pc[r] = "lock" /\ pc' = [pc EXCEPT ![r] = "insert"] /\ a \in Auths
        /\ lock' = [lock EXCEPT ![a] = now + LockTtl(ValidBefore[a], now)]
        /\ UNCHANGED <<receipt, auth, held, now>>
    BY <1>1, <1>3 DEF AcquireLock, TypeOK, Holding
  <2>2. ASSUME Chargeable(a), NEW q \in Requests, Claims(q, a) PROVE FALSE
    <3>1. lock[a] >= ValidBefore[a] /\ now < ValidBefore[a]
      BY <2>1, <2>2 DEF LockCovers, Chargeable
    <3>2. lock[a] \in Nat /\ ValidBefore[a] \in Nat
      BY <1>1, <2>1, SettlementConstants DEF TypeOK
    <3> QED
      BY <1>1, <1>3, <3>1, <3>2
  <2>3. Chargeable(a) => lock'[a] >= ValidBefore[a]
    BY <1>1, <2>1, SettlementConstants, LockTtlCovers DEF Chargeable, TypeOK
  <2>4. \A b \in Auths : Chargeable(b)' <=> Chargeable(b)
    BY <2>1 DEF Chargeable
  <2>5. \A q \in Requests, b \in Auths : Claims(q, b)' => Claims(q, b) \/ (q = r /\ b = a)
    BY <1>1, <2>1 DEF Claims, TypeOK
  <2>6. \A b \in Auths : b # a => lock'[b] = lock[b]
    BY <1>1, <2>1 DEF TypeOK
  <2>7. \A q \in Requests : pc'[q] = "release" => pc[q] = "release"
    BY <1>1, <2>1 DEF TypeOK
  <2> QED
    BY <2>1, <2>2, <2>3, <2>4, <2>5, <2>6, <2>7 DEF LockCovers
<1>4. CASE InsertReceipt(r)
  <2>1. /\ pc[r] = "insert" /\ a \in Auths /\ UNCHANGED <<lock, auth, now>>
        /\ \/ /\ pc' = [pc EXCEPT ![r] = "upstream"] /\ held' = held \cup {r}
              /\ receipt' = [receipt EXCEPT ![a].status = "VERIFIED"]
           \/ /\ pc' = [pc EXCEPT ![r] = "release"] /\ receipt[a].status # "NONE"
              /\ UNCHANGED <<receipt, held>>
    BY <1>1, <1>4 DEF InsertReceipt, TypeOK, Holding
  <2>2. \A q \in Requests, b \in Auths : Claims(q, b)' => Claims(q, b)
    BY <1>1, <2>1 DEF Claims, TypeOK
  <2>3. \A b \in Auths : Chargeable(b)' <=> Chargeable(b)
    BY <2>1 DEF Chargeable
  <2>4. /\ \A b \in Auths : receipt'[b].status # "NONE" =>
               receipt[b].status # "NONE" \/ (r \in held' /\ b = a)
        /\ \A b \in Auths : receipt[b].status # "NONE" => receipt'[b].status # "NONE"
    <3>1. \A b \in Auths : b # a => receipt'[b] = receipt[b]
      BY <1>1, <2>1 DEF TypeOK
    <3>2. receipt'[a].status # "NONE"
      BY <1>1, <2>1 DEF TypeOK, Receipt
    <3>3. receipt[a].status # "NONE" \/ r \in held'
      BY <2>1
    <3> QED
      BY <3>1, <3>2, <3>3
  <2>5. \A q \in Requests :
          pc'[q] = "release" => pc[q] = "release" \/ (q = r /\ receipt[a].status # "NONE")
    BY <1>1, <2>1 DEF TypeOK
  <2>6. held \subseteq held'
    BY <2>1
  <2> QED
    BY <2>1, <2>2, <2>3, <2>4, <2>5, <2>6 DEF LockCovers
<1>5. CASE ReleaseLock(r)
  <2>1. pc[r] = "release" /\ pc' = [pc EXCEPT ![r] = "replay"]
        /\ lock' = [lock EXCEPT ![auth[r]] = 0]
        /\ UNCHANGED <<receipt, auth, held, now>>
    BY <1>5 DEF ReleaseLock
  <2>2. auth[r] \in Auths /\ ~Chargeable(auth[r])
    BY <1>1, <2>1, NoLoser DEF Holding
  <2>3. \A b \in Auths : Chargeable(b) => lock'[b] = lock[b]
    BY <1>1, <2>1, <2>2 DEF TypeOK
  <2>4. \A q \in Requests, b \in Auths : Claims(q, b)' => Claims(q, b)
    BY <1>1, <2>1 DEF Claims, TypeOK
  <2> QED
    BY <1>1, <2>1, <2>3, <2>4, LockRests DEF TypeOK
<1>6. CASE \/ MarkUpstreamFailed(r) \/ MarkUpstreamOk(r) \/ MarkPending(r)
           \/ MarkFailed(r) \/ MarkAmbiguous(r)
  <2>1. r \in held /\ auth[r] \in Auths /\ receipt[auth[r]].status # "NONE"
    BY <1>1, <1>6 DEF MarkUpstreamFailed, MarkUpstreamOk, MarkPending, MarkFailed,
                      MarkAmbiguous, Holding, AfterInsert
  <2>2. \A b \in Auths : receipt'[b].status = "NONE" <=> receipt[b].status = "NONE"
    BY <1>6, <2>1, NoStatusErased
  <2>3. /\ \A q \in Requests : pc'[q] \in {"insert", "release"} => pc'[q] = pc[q]
        /\ UNCHANGED <<lock, auth, held, now>>
    BY <1>1, <1>6 DEF MarkUpstreamFailed, MarkUpstreamOk, MarkPending, MarkFailed,
                      MarkAmbiguous, TypeOK
  <2> QED
    BY <1>1, <2>2, <2>3, LockRests DEF Claims
<1>7. CASE PersistSettled(r)
  <2>1. chain[auth[r]] = "charged" /\ auth[r] \in Auths /\ receipt[auth[r]].status # "NONE"
    BY <1>7 DEF PersistSettled, Inv, Charged, Holding, AfterInsert
  <2>2. \A b \in Auths : receipt'[b].status = "NONE" <=> receipt[b].status = "NONE"
    <3>1. receipt[auth[r]] \in Receipt /\ receipt \in [Auths -> Receipt]
      BY <1>1, <2>1 DEF TypeOK
    <3>2. CASE ApplySettled(auth[r])
      BY <2>1, <3>1, <3>2 DEF ApplySettled, Receipt
    <3> QED
      BY <1>7, <3>2 DEF PersistSettled
  <2>3. /\ \A q \in Requests : pc'[q] \in {"insert", "release"} => pc'[q] = pc[q]
        /\ UNCHANGED <<lock, auth, held, now>>
    BY <1>1, <1>7 DEF PersistSettled, TypeOK
  <2> QED
    BY <1>1, <2>2, <2>3, LockRests DEF Claims
<1>8. CASE \/ \E b \in Auths : Arrive(r, b)
           \/ Precheck(r) \/ Verify(r) \/ RejectBody(r) \/ CallUpstream(r) \/ SendSettle(r)
           \/ HearSettle(r) \/ Deliver(r) \/ Crash(r)
  <2>1. UNCHANGED <<receipt, lock, held, now>>
    BY <1>8 DEF Arrive, Precheck, Verify, RejectBody, CallUpstream, SendSettle, HearSettle,
                Deliver, Crash
  <2>2. \A q \in Requests : pc'[q] \in {"insert", "release"} =>
                              pc'[q] = pc[q] /\ auth'[q] = auth[q]
    BY <1>1, <1>8 DEF Arrive, Precheck, Verify, RejectBody, CallUpstream, SendSettle,
                HearSettle, Deliver, Crash, TypeOK
  <2>3. \A q \in held : auth'[q] = auth[q]
    BY <1>1, <1>8 DEF Arrive, Precheck, Verify, RejectBody, CallUpstream, SendSettle,
                HearSettle, Deliver, Crash, TypeOK, Holding, AfterInsert
  <2>4. \A q \in Requests, b \in Auths : Claims(q, b)' => Claims(q, b)
    BY <2>1, <2>2, <2>3 DEF Claims
  <2> QED
    BY <1>1, <2>1, <2>2, <2>3, <2>4, LockRests
<1> QED
  BY <1>1, <1>2, <1>3, <1>4, <1>5, <1>6, <1>7, <1>8 DEF Gateway, AcquireLock

LEMMA LockNext ==
  ASSUME Inv, LockCovers, [Next]_vars
  PROVE  LockCovers'
<1>1. TypeOK /\ now \in Nat
  BY DEF Inv, TypeOK
<1>2. ASSUME NEW r \in Requests, Gateway(r) PROVE LockCovers'
  BY <1>2, LockByHandler
<1>3. CASE Outside \/ UNCHANGED vars
  <2>1. UNCHANGED <<receipt, lock, pc, auth, held>> /\ now' \in Nat /\ now' >= now
    BY <1>1, <1>3 DEF Outside, FacilitatorCharges, FacilitatorDeclines, SpendElsewhere, Tick, vars
  <2> QED
    BY <1>1, <2>1, LockRests DEF Claims
<1>4. ASSUME NEW p \in Recoverers, Recovery(p) PROVE LockCovers'
  <2>1. UNCHANGED <<lock, pc, auth, held, now>>
    BY <1>4 DEF Recovery, ListPending, ReadEvidence, EvidenceUnavailable, RecoverSettled,
                RecoverNotFound, FinishRecovery, AbortRecovery, Reset
  <2>2. \A b \in Auths : receipt'[b].status = "NONE" <=> receipt[b].status = "NONE"
    <3>1. CASE RecoverSettled(p)
      <4>1. /\ cur[p] \in Auths /\ receipt[cur[p]].status # "NONE"
            /\ receipt[cur[p]] \in Receipt /\ receipt \in [Auths -> Receipt]
        BY <1>1, <3>1 DEF RecoverSettled, Inv, Charged, Holding, TypeOK
      <4> QED
        BY <3>1, <4>1 DEF RecoverSettled, ApplySettled, Receipt
    <3>2. CASE RecoverNotFound(p)
      <4>1. CASE receipt' = receipt
        BY <4>1
      <4>2. CASE /\ cur[p] \in Auths /\ receipt[cur[p]] \in Receipt
                 /\ receipt \in [Auths -> Receipt]
                 /\ receipt[cur[p]].status = "SETTLEMENT_PENDING"
                 /\ receipt' = [receipt EXCEPT ![cur[p]] =
                       [@ EXCEPT !.status = "SETTLEMENT_FAILED", !.error = "expired_unused"]]
        BY <4>2 DEF Receipt
      <4> QED
        BY <1>1, <3>2, <4>1, <4>2 DEF RecoverNotFound, MarkExpired, Inv, Charged, TypeOK
    <3> QED
      BY <1>4, <3>1, <3>2 DEF Recovery, ListPending, ReadEvidence, EvidenceUnavailable,
                FinishRecovery, AbortRecovery, Reset
  <2> QED
    BY <1>1, <2>1, <2>2, LockRests DEF Claims
<1> QED
  BY <1>2, <1>3, <1>4 DEF Next

(* While an authorization can be charged, the lock admits one request to    *)
(* the insert, for any deadlines and any TTL policy                         *)
(* (gateway-service.ts:99).                                                 *)
THEOREM LockExclusiveHolds == Spec => []LockExclusiveWhileValid
<1>1. Init => LockCovers
  BY DEF Init, NoReceipt, LockCovers, Claims
<1>2. Inv /\ LockCovers /\ [Next]_vars => LockCovers'
  BY LockNext
<1>3. ASSUME Inv, LockCovers PROVE LockExclusiveWhileValid
  <2>1. ASSUME NEW r \in Requests, r \in held \/ pc[r] \in {"insert", "release"}
        PROVE  auth[r] \in Auths /\ Claims(r, auth[r])
    BY <1>3, <2>1 DEF Inv, Holding, AfterInsert, Claims
  <2> QED
    BY <1>3, <2>1 DEF LockCovers, LockExclusiveWhileValid, Chargeable, Claims
<1> QED
  BY <1>1, <1>2, <1>3, Invariance, PTL DEF Spec

-----------------------------------------------------------------------------
(* What recovery can see *)

Recoverable(a) ==
  \/ receipt[a].status = "SETTLED"
  \/ receipt[a].status = "SETTLEMENT_PENDING" /\ receipt[a].attempt
  \/ receipt[a].error = "expired_unused"

(* A facilitator that names its transactions leads to a failed receipt only *)
(* by declining, after which it charges nothing.                            *)
StaysRecoverable ==
  ~OmitsTransaction =>
    \A r \in Requests :
      /\ pc[r] = "mark_failed" => facil[r] = "declined"
      /\ pc[r] = "settle" \/ facil[r] \in {"received", "charged"} => Recoverable(auth[r])

LEMMA RecoverableByHandler ==
  ASSUME Inv, StaysRecoverable, ~OmitsTransaction, NEW r \in Requests, Gateway(r)
  PROVE  StaysRecoverable'
<1> DEFINE In(q) == pc[q] = "settle" \/ facil[q] \in {"received", "charged"}
<1>1. TypeOK /\ Holding /\ Staged
  BY DEF Inv
<1>2. \A q \in Requests \ {r} : pc'[q] = pc[q] /\ auth'[q] = auth[q] /\ facil'[q] = facil[q]
  BY <1>1 DEF Gateway, TypeOK, Arrive, Precheck, Verify, AcquireLock, InsertReceipt, ReleaseLock,
     RejectBody, CallUpstream, MarkUpstreamFailed, MarkUpstreamOk, MarkPending, SendSettle,
     HearSettle, MarkFailed, MarkAmbiguous, PersistSettled, Deliver, Crash
<1>3. \A q \in Requests : In(q) => q \in held /\ auth[q] \in Auths /\ receipt[auth[q]].status # "NONE"
  BY <1>1 DEF Holding, AfterInsert
<1>4. \A q \in Requests \ {r} : In(q) => receipt'[auth[q]] = receipt[auth[q]]
  <2>1. CASE receipt' = receipt
    BY <2>1
  <2>2. ASSUME r \in held, \A a \in Auths : a # auth[r] => receipt'[a] = receipt[a]
        PROVE  \A q \in Requests \ {r} : In(q) => receipt'[auth[q]] = receipt[auth[q]]
    BY <1>1, <1>3, <2>2 DEF Holding
  <2>3. CASE InsertReceipt(r)
    BY <1>1, <1>3, <2>3 DEF InsertReceipt, TypeOK
  <2>4. CASE \/ MarkUpstreamFailed(r) \/ MarkUpstreamOk(r) \/ MarkPending(r)
             \/ MarkFailed(r) \/ MarkAmbiguous(r) \/ PersistSettled(r)
    <3>1. r \in held
      BY <1>1, <2>4 DEF MarkUpstreamFailed, MarkUpstreamOk, MarkPending, MarkFailed,
         MarkAmbiguous, PersistSettled, Holding, AfterInsert
    <3>2. \A a \in Auths : a # auth[r] => receipt'[a] = receipt[a]
      BY <1>1, <2>4 DEF MarkUpstreamFailed, MarkUpstreamOk, MarkPending, MarkFailed,
         MarkAmbiguous, MarkSettlementResult, PersistSettled, ApplySettled, TypeOK
    <3> QED
      BY <2>2, <3>1, <3>2
  <2> QED
    BY <2>1, <2>3, <2>4 DEF Gateway, Arrive, Precheck, Verify, AcquireLock, ReleaseLock,
       RejectBody, CallUpstream, SendSettle, HearSettle, Deliver, Crash
<1>5. ASSUME NEW q \in Requests \ {r}
      PROVE  /\ pc'[q] = "mark_failed" => facil'[q] = "declined"
             /\ pc'[q] = "settle" \/ facil'[q] \in {"received", "charged"} =>
                  Recoverable(auth[q])'
  BY <1>2, <1>4 DEF StaysRecoverable, Recoverable
<1>6. /\ pc'[r] = "mark_failed" => facil'[r] = "declined"
      /\ pc'[r] = "settle" \/ facil'[r] \in {"received", "charged"} => Recoverable(auth[r])'
  <2> DEFINE Goal == /\ pc'[r] = "mark_failed" => facil'[r] = "declined"
                     /\ In(r)' => Recoverable(auth[r])'
  <2>1. ASSUME pc'[r] \notin {"mark_failed", "settle"}, facil'[r] = facil[r], auth'[r] = auth[r],
               receipt'[auth[r]] = receipt[auth[r]]
        PROVE  Goal
    BY <1>1, <2>1 DEF StaysRecoverable, Recoverable
  <2>2. ASSUME pc'[r] \notin {"mark_failed", "settle"}, facil'[r] = "none" PROVE Goal
    BY <2>2
  <2>3. CASE (\E a \in Auths : Arrive(r, a)) \/ Precheck(r) \/ Verify(r) \/ AcquireLock(r)
             \/ InsertReceipt(r) \/ ReleaseLock(r) \/ RejectBody(r) \/ CallUpstream(r)
             \/ MarkUpstreamFailed(r) \/ MarkUpstreamOk(r)
    <3>1. facil[r] = "none"
      BY <1>1, <2>3 DEF Arrive, Precheck, Verify, AcquireLock, InsertReceipt, ReleaseLock,
         RejectBody, CallUpstream, MarkUpstreamFailed, MarkUpstreamOk, Holding, AfterSettle
    <3>2. pc'[r] \notin {"mark_failed", "settle"} /\ facil' = facil
      BY <1>1, <2>3 DEF Arrive, Precheck, Verify, AcquireLock, InsertReceipt, ReleaseLock,
         RejectBody, CallUpstream, MarkUpstreamFailed, MarkUpstreamOk, TypeOK
    <3> QED
      BY <2>2, <3>1, <3>2
  <2>4. CASE MarkPending(r)
    <3>1. auth[r] \in Auths /\ receipt[auth[r]] \in Receipt
      BY <1>1, <2>4 DEF MarkPending, Holding, TypeOK, AfterInsert
    <3>2. receipt'[auth[r]].status = "SETTLEMENT_PENDING" /\ receipt'[auth[r]].attempt
      BY <1>1, <2>4, <3>1 DEF MarkPending, TypeOK, Receipt
    <3>3. pc'[r] = "settle" /\ auth' = auth
      BY <1>1, <2>4 DEF MarkPending, TypeOK
    <3> QED
      BY <3>2, <3>3 DEF Recoverable
  <2>5. CASE SendSettle(r)
    <3>1. pc[r] = "settle" /\ pc'[r] = "await" /\ UNCHANGED <<auth, receipt>>
      BY <1>1, <2>5 DEF SendSettle, TypeOK
    <3> QED
      BY <3>1 DEF StaysRecoverable, Recoverable
  <2>6. CASE HearSettle(r)
    <3>1. UNCHANGED <<auth, receipt, facil>> /\ pc[r] = "await" /\ pc'[r] # "settle"
      BY <1>1, <2>6 DEF HearSettle, TypeOK
    <3>2. pc'[r] = "mark_failed" => facil[r] = "declined"
      BY <1>1, <2>6 DEF HearSettle, TypeOK
    <3> QED
      BY <3>1, <3>2 DEF StaysRecoverable, Recoverable
  <2>7. CASE MarkFailed(r)
    <3>1. pc[r] = "mark_failed" /\ pc'[r] = "withheld" /\ facil' = facil
      BY <1>1, <2>7 DEF MarkFailed, TypeOK
    <3> QED
      BY <3>1 DEF StaysRecoverable
  <2>8. CASE MarkAmbiguous(r)
    <3>1. auth[r] \in Auths /\ receipt[auth[r]] \in Receipt /\ receipt[auth[r]].attempt
      BY <1>1, <2>8 DEF MarkAmbiguous, Holding, Staged, Attempted, TypeOK, AfterInsert
    <3>2. receipt'[auth[r]].status = "SETTLEMENT_PENDING" /\ receipt'[auth[r]].attempt
      BY <1>1, <2>8, <3>1 DEF MarkAmbiguous, MarkSettlementResult, TypeOK, Receipt
    <3>3. pc'[r] = "withheld" /\ auth' = auth
      BY <1>1, <2>8 DEF MarkAmbiguous, TypeOK
    <3> QED
      BY <3>2, <3>3 DEF Recoverable
  <2>9. CASE PersistSettled(r)
    <3>1. auth[r] \in Auths /\ receipt[auth[r]] \in Receipt
          /\ pc'[r] \notin {"mark_failed", "settle"} /\ UNCHANGED <<auth, facil>>
      BY <1>1, <2>9 DEF PersistSettled, Holding, TypeOK, AfterInsert
    <3>2. CASE ApplySettled(auth[r])
      <4>1. receipt'[auth[r]].status = "SETTLED"
        BY <1>1, <3>1, <3>2 DEF ApplySettled, TypeOK, Receipt
      <4> QED
        BY <3>1, <4>1 DEF Recoverable
    <3>3. CASE UNCHANGED database
      BY <2>1, <3>1, <3>3
    <3> QED
      BY <2>9, <3>2, <3>3 DEF PersistSettled
  <2>10. CASE Deliver(r) \/ Crash(r)
    BY <1>1, <2>1, <2>10 DEF Deliver, Crash, TypeOK
  <2> QED
    BY <2>3, <2>4, <2>5, <2>6, <2>7, <2>8, <2>9, <2>10 DEF Gateway
<1> QED
  BY <1>5, <1>6 DEF StaysRecoverable

LEMMA RecoverableByOthers ==
  ASSUME Inv, StaysRecoverable, ~OmitsTransaction,
         Outside \/ (\E p \in Recoverers : Recovery(p)) \/ UNCHANGED vars
  PROVE  StaysRecoverable'
<1>1. TypeOK /\ Holding
  BY DEF Inv
<1>2. UNCHANGED <<pc, auth>>
  BY DEF Outside, FacilitatorCharges, FacilitatorDeclines, SpendElsewhere, Tick, vars, Recovery,
     ListPending, ReadEvidence, EvidenceUnavailable, RecoverSettled, RecoverNotFound,
     FinishRecovery, AbortRecovery, Reset
<1>3. \A r \in Requests :
        /\ facil'[r] \in {"received", "charged"} => facil[r] \in {"received", "charged"}
        /\ facil[r] = "declined" => facil'[r] = "declined"
  BY <1>1 DEF TypeOK, Outside, FacilitatorCharges, FacilitatorDeclines, SpendElsewhere, Tick,
     vars, Recovery, ListPending, ReadEvidence, EvidenceUnavailable, RecoverSettled,
     RecoverNotFound, FinishRecovery, AbortRecovery, Reset
<1>4. \A r \in Requests :
        pc[r] = "settle" \/ facil[r] \in {"received", "charged"} => auth[r] \in Auths
  BY <1>1 DEF Holding, AfterInsert
<1>5. ASSUME NEW a \in Auths, Recoverable(a) PROVE Recoverable(a)'
  <2>1. CASE receipt' = receipt
    BY <1>5, <2>1 DEF Recoverable
  <2>2. ASSUME NEW p \in Recoverers, RecoverSettled(p) PROVE Recoverable(a)'
    <3>1. cur[p] \in Auths /\ receipt[cur[p]] \in Receipt
      BY <1>1, <2>2 DEF RecoverSettled, Inv, Charged, TypeOK
    <3>2. /\ receipt'[cur[p]].status = "SETTLED"
          /\ \A b \in Auths \ {cur[p]} : receipt'[b] = receipt[b]
      BY <1>1, <2>2, <3>1 DEF RecoverSettled, ApplySettled, TypeOK, Receipt
    <3> QED
      BY <1>5, <3>2 DEF Recoverable
  <2>3. ASSUME NEW p \in Recoverers, RecoverNotFound(p), receipt' # receipt
        PROVE  Recoverable(a)'
    <3>1. /\ cur[p] \in Auths /\ receipt[cur[p]] \in Receipt
          /\ receipt' = [receipt EXCEPT ![cur[p]] =
                [@ EXCEPT !.status = "SETTLEMENT_FAILED", !.error = "expired_unused"]]
      BY <1>1, <2>3 DEF RecoverNotFound, MarkExpired, Inv, Charged, TypeOK
    <3>2. /\ receipt'[cur[p]].error = "expired_unused"
          /\ \A b \in Auths \ {cur[p]} : receipt'[b] = receipt[b]
      BY <1>1, <3>1 DEF TypeOK, Receipt
    <3> QED
      BY <1>5, <3>2 DEF Recoverable
  <2> QED
    BY <2>1, <2>2, <2>3 DEF Outside, FacilitatorCharges, FacilitatorDeclines, SpendElsewhere,
       Tick, vars, Recovery, ListPending, ReadEvidence, EvidenceUnavailable, FinishRecovery,
       AbortRecovery, Reset
<1> QED
  BY <1>2, <1>3, <1>4, <1>5 DEF StaysRecoverable

LEMMA RecoverableAlways == Spec => []StaysRecoverable
<1>1. Init => StaysRecoverable
  BY DEF Init, StaysRecoverable
<1>2. Inv /\ StaysRecoverable /\ [Next]_vars => StaysRecoverable'
  <2>1. ASSUME Inv, StaysRecoverable, [Next]_vars, ~OmitsTransaction PROVE StaysRecoverable'
    BY <2>1, RecoverableByHandler, RecoverableByOthers DEF Next
  <2> QED
    BY <2>1 DEF StaysRecoverable
<1> QED
  BY <1>1, <1>2, Invariance, PTL DEF Spec

(* A facilitator that names its transactions charges nobody without a       *)
(* receipt that is settled, or that the recovery query finds, or that       *)
(* recovery itself closed (settlement-flow.ts:53).                          *)
THEOREM ChargeStaysRecoverableHolds == Spec => []ChargeStaysRecoverable
<1>1. Inv /\ StaysRecoverable => ChargeStaysRecoverable
  BY DEF Inv, Charged, StaysRecoverable, Recoverable, ChargeStaysRecoverable
<1> QED
  BY <1>1, Invariance, RecoverableAlways, PTL

-----------------------------------------------------------------------------
(* Receipts follow the lifecycle. *)

(* A write of the receipt by the one handler that holds it. *)
LEMMA LifecycleByHandler ==
  ASSUME Inv, StaysRecoverable, NEW r \in Requests, Gateway(r)
  PROVE  LifecycleStep
<1> DEFINE a == auth[r]
<1>1. \/ InsertReceipt(r) /\ receipt' # receipt
      \/ MarkUpstreamFailed(r) \/ MarkUpstreamOk(r) \/ MarkPending(r)
      \/ MarkFailed(r) \/ MarkAmbiguous(r)
      \/ PersistSettled(r) /\ ApplySettled(a)
      \/ UNCHANGED receipt
  BY DEF Gateway, Arrive, Precheck, Verify, AcquireLock, InsertReceipt,
         ReleaseLock, RejectBody, CallUpstream, SendSettle, HearSettle,
         PersistSettled, Deliver, Crash
<1>2. /\ receipt \in [Auths -> Receipt]
      /\ pc[r] \in {"insert"} \cup AfterInsert => a \in Auths /\ receipt[a] \in Receipt
  BY DEF Inv, TypeOK, Holding, AfterInsert
<1>3. CASE InsertReceipt(r) /\ receipt' # receipt
  <2>1. /\ a \in Auths /\ receipt[a].status = "NONE"
        /\ \A b \in Auths \ {a} : receipt'[b] = receipt[b]
        /\ receipt'[a].status = "VERIFIED"
    BY <1>2, <1>3 DEF InsertReceipt, Receipt
  <2> QED
    BY <2>1 DEF LifecycleStep, Lifecycle
<1>4. CASE MarkUpstreamFailed(r) \/ MarkUpstreamOk(r) \/ MarkPending(r)
  <2>1. a \in Auths /\ receipt[a] \in Receipt /\ receipt[a].status = "VERIFIED"
    BY <1>2, <1>4 DEF MarkUpstreamFailed, MarkUpstreamOk, MarkPending, AfterInsert, Inv, Staged
  <2>2. /\ \A b \in Auths \ {a} : receipt'[b] = receipt[b]
        /\ receipt'[a].status \in {"VERIFIED", "UPSTREAM_FAILED", "SETTLEMENT_PENDING"}
    <3>1. CASE MarkUpstreamFailed(r)
      BY <1>2, <2>1, <3>1 DEF MarkUpstreamFailed, Receipt
    <3>2. CASE MarkUpstreamOk(r)
      BY <1>2, <2>1, <3>2 DEF MarkUpstreamOk, Receipt
    <3>3. CASE MarkPending(r)
      BY <1>2, <2>1, <3>3 DEF MarkPending, Receipt
    <3> QED
      BY <1>4, <3>1, <3>2, <3>3
  <2> QED
    BY <2>1, <2>2 DEF LifecycleStep, Lifecycle
<1>5. CASE MarkFailed(r) \/ MarkAmbiguous(r)
  <2>1. /\ a \in Auths /\ receipt[a] \in Receipt /\ Attempted(a)
        /\ r \in held /\ pc[r] \in {"mark_failed", "mark_ambiguous"}
    BY <1>2, <1>5 DEF MarkFailed, MarkAmbiguous, AfterInsert, Inv, Holding, Staged
  <2>2. pc'[r] = "withheld"
    BY <1>5 DEF MarkFailed, MarkAmbiguous, Inv, TypeOK
  <2>3. LastWrite(a)
    BY <2>1, <2>2 DEF LastWrite
  <2>4. CASE MarkAmbiguous(r)
    <3>1. /\ \A b \in Auths \ {a} : receipt'[b] = receipt[b]
          /\ receipt'[a].status = "SETTLEMENT_PENDING" /\ receipt'[a].attempt
      BY <1>2, <2>1, <2>4 DEF MarkAmbiguous, MarkSettlementResult, Receipt, Attempted
    <3> QED
      BY <2>1, <2>3, <3>1 DEF LifecycleStep
  <2>5. CASE MarkFailed(r)
    <3>1. /\ \A b \in Auths \ {a} : receipt'[b] = receipt[b]
          /\ receipt'[a].status = "SETTLEMENT_FAILED"
      BY <1>2, <2>1, <2>5 DEF MarkFailed, MarkSettlementResult, Receipt
    <3>2. ~OmitsTransaction => facil[r] = "declined"
      BY <2>5 DEF MarkFailed, StaysRecoverable
    <3>3. facil[r] = "declined" => chain[a] # "charged"
      BY <2>1 DEF Inv, Charged, Holding
    <3>4. chain[a] # "charged" => receipt[a].status # "SETTLED"
      BY <2>1 DEF Inv, CreditMatchesCharge
    <3>5. \/ ~OmitsTransaction /\ receipt[a].status \in {"SETTLEMENT_PENDING", "SETTLEMENT_FAILED"}
          \/ OmitsTransaction
      BY <2>1, <3>2, <3>3, <3>4 DEF Attempted
    <3> QED
      BY <2>1, <2>3, <3>1, <3>5, SettlementConstants DEF LifecycleStep, Lifecycle
  <2> QED
    BY <1>5, <2>4, <2>5
<1>6. CASE PersistSettled(r) /\ ApplySettled(a)
  <2>1. a \in Auths /\ receipt[a] \in Receipt /\ Attempted(a)
    BY <1>2, <1>6 DEF PersistSettled, AfterInsert, Inv, Staged
  <2>2. /\ \A b \in Auths \ {a} : receipt'[b] = receipt[b]
        /\ receipt'[a].status = "SETTLED"
    BY <1>2, <1>6, <2>1 DEF ApplySettled, Receipt
  <2> QED
    BY <2>1, <2>2 DEF LifecycleStep, Lifecycle, Attempted
<1>7. CASE UNCHANGED receipt
  BY <1>7 DEF LifecycleStep
<1> QED
  BY <1>1, <1>3, <1>4, <1>5, <1>6, <1>7

(* A write of the receipt by a recovery run, whose evidence may be stale. *)
LEMMA LifecycleByRecovery ==
  ASSUME Inv, NEW p \in Recoverers, Recovery(p)
  PROVE  LifecycleStep
<1> DEFINE a == cur[p]
<1>1. \/ RecoverSettled(p)
      \/ RecoverNotFound(p) /\ receipt' # receipt
      \/ UNCHANGED receipt
  BY DEF Recovery, ListPending, ReadEvidence, EvidenceUnavailable,
         FinishRecovery, AbortRecovery, Reset
<1>2. CASE RecoverSettled(p)
  <2>1. a \in Auths /\ receipt[a] \in Receipt /\ chain[a] = "charged"
    BY <1>2 DEF RecoverSettled, Inv, Charged, TypeOK
  <2>2. Attempted(a)
    BY <2>1 DEF Inv, Charged, Staged
  <2>3. /\ \A b \in Auths \ {a} : receipt'[b] = receipt[b]
        /\ receipt'[a].status = "SETTLED"
    BY <1>2, <2>1 DEF RecoverSettled, ApplySettled, Receipt, Inv, TypeOK
  <2> QED
    BY <2>1, <2>2, <2>3 DEF LifecycleStep, Lifecycle, Attempted
<1>3. CASE RecoverNotFound(p) /\ receipt' # receipt
  <2>1. /\ a \in Auths /\ receipt[a] \in Receipt
        /\ receipt[a].status = "SETTLEMENT_PENDING"
        /\ receipt' = [receipt EXCEPT ![a] =
                        [receipt[a] EXCEPT !.status = "SETTLEMENT_FAILED",
                                           !.error = "expired_unused"]]
    BY <1>3 DEF RecoverNotFound, MarkExpired, Inv, Charged, TypeOK
  <2>2. /\ \A b \in Auths \ {a} : receipt'[b] = receipt[b]
        /\ receipt'[a].status = "SETTLEMENT_FAILED"
    BY <2>1 DEF Receipt, Inv, TypeOK
  <2> QED
    BY <2>1, <2>2 DEF LifecycleStep, Lifecycle
<1>4. CASE UNCHANGED receipt
  BY <1>4 DEF LifecycleStep
<1> QED
  BY <1>1, <1>2, <1>3, <1>4

(* Whatever order handlers and recovery runs write in, though neither       *)
(* markSettlementResult nor applySettledSettlement looks at the status      *)
(* (receipts.ts:107, 142), a receipt leaves its lifecycle only by the last  *)
(* write of its own withholding handler; and if the facilitator names its   *)
(* transactions, only back to where the recovery query finds it.            *)
THEOREM StatusFollowsLifecycleHolds == Spec => StatusFollowsLifecycle
<1>1. ASSUME Inv, StaysRecoverable, [Next]_vars PROVE [LifecycleStep]_vars
  <2>1. CASE Outside
    BY <2>1 DEF Outside, FacilitatorCharges, FacilitatorDeclines,
                SpendElsewhere, Tick, LifecycleStep
  <2> QED
    BY <1>1, <2>1, LifecycleByHandler, LifecycleByRecovery DEF Next
<1> QED
  BY <1>1, Invariance, RecoverableAlways, PTL DEF Spec, StatusFollowsLifecycle
=============================================================================
