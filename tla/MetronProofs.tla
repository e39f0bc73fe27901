---------------------------- MODULE MetronProofs ----------------------------
(***************************************************************************)
(* Proofs about Metron: it behaves as Settlement and as Payouts say, so    *)
(* that what is proved of the two holds of it; and what only the composed  *)
(* system has, that each transfer was paid for by a charge and that it     *)
(* implements MetronPromise.                                               *)
(***************************************************************************)
EXTENDS Metron, SettlementProofs

(* The proofs about Payouts, with the substitution of P. *)
PP == INSTANCE PayoutProofs WITH
  Earnings <- Auths, Workers <- Requests, NoEarning <- NoAuth, ledger <- Ledger,
  pc <- step, rpc <- scan, todo <- rows, cur <- row

(* PayoutProofs extends Payouts, so the two instances define the same. *)
LEMMA SamePayouts ==
  /\ P!Init = PP!Init /\ P!Next = PP!Next /\ P!vars = PP!vars
  /\ P!TypeOK = PP!TypeOK /\ P!TransferIsOnRecord = PP!TransferIsOnRecord
  /\ \A p \in Recoverers : P!Recovery(p) = PP!Recovery(p)
  BY DEF
    P!Earn, PP!Earn, P!Work, PP!Work, P!Proceed, PP!Proceed,
    P!Handoff, PP!Handoff, P!ReserveEarning, PP!ReserveEarning,
    P!ReserveOutstanding, PP!ReserveOutstanding,
    P!AcquireWalletLock, PP!AcquireWalletLock, P!Preflight, PP!Preflight,
    P!SignTransfer, PP!SignTransfer, P!MarkSubmitted, PP!MarkSubmitted,
    P!Broadcast, PP!Broadcast, P!AwaitReceipt, PP!AwaitReceipt,
    P!Finalize, PP!Finalize, P!MarkFailed, PP!MarkFailed,
    P!ReleaseWalletLock, PP!ReleaseWalletLock, P!Throw, PP!Throw,
    P!Crash, PP!Crash, P!Forget, PP!Forget, P!Unlock, PP!Unlock,
    P!Nonces, PP!Nonces, P!Assessments, PP!Assessments,
    P!FinalizeConfirmed, PP!FinalizeConfirmed,
    P!MarkPayoutFailed, PP!MarkPayoutFailed, P!NonFinal, PP!NonFinal,
    P!LockLapses, PP!LockLapses, P!Include, PP!Include,
    P!Recovery, PP!Recovery, P!ListNonFinal, PP!ListNonFinal,
    P!Examine, PP!Examine, P!KeepReserved, PP!KeepReserved,
    P!RecoverConfirmed, PP!RecoverConfirmed,
    P!RecoverFailed, PP!RecoverFailed, P!FinishRecovery, PP!FinishRecovery,
    P!AbortRecovery, PP!AbortRecovery, P!EndRecovery, PP!EndRecovery,
    P!Goto, PP!Goto, P!database, PP!database, P!workers, PP!workers,
    P!network, PP!network, P!recovery, PP!recovery, P!Next, PP!Next,
    P!vars, PP!vars, P!Init, PP!Init, P!NoPayout, PP!NoPayout, P!Tx, PP!Tx,
    P!Payout, PP!Payout, P!Steps, PP!Steps, P!TypeOK, PP!TypeOK,
    P!TransferIsOnRecord, PP!TransferIsOnRecord

LEMMA PayoutConstantsHold == PP!PayoutConstants
  BY MetronConstants DEF P!PayoutConstants, PP!PayoutConstants

-----------------------------------------------------------------------------
(* The inductive invariant. *)

(* A handler pays out only while it is about to deliver, what it handed     *)
(* over: its own earning.                                                  *)
Paying ==
  \A r \in Requests :
    /\ step[r] # "idle" =>
         /\ pc[r] = "deliver" /\ r \in handed
         /\ queue[r] \cup {job[r]} \subseteq {auth[r], NoAuth}
    /\ step[r] \in {"idle", "reserve"} => queue[r] = {}

(* Each payout there is was handed over by the handler of its receipt. *)
HandedOver ==
  /\ handed \subseteq held
  /\ \A a \in Auths :
       payout[a].status # "NONE" => \E r \in handed : auth[r] = a

MInv == Inv /\ PP!Inv /\ PP!Booked /\ Paying /\ HandedOver

-----------------------------------------------------------------------------
(* Metron takes the steps of Settlement and those of Payouts. *)

USE DEF Goto, database, handlers, outside, recovery

LEMMA SettlementStep == [MetronNext]_metronVars => [Next]_vars
<1>1. ASSUME NEW r \in Requests,
             Request(r) \/ HandOver(r) \/ Attempt(r) \/ DeliverResource(r) \/ Die(r)
      PROVE  [Next]_vars
  BY <1>1 DEF Request, HandOver, Attempt, DeliverResource, Die, Gateway, Next
<1>2. Settle \/ Disburse => [Next]_vars
  BY DEF Settle, Disburse, Next
<1> QED
  BY <1>1, <1>2 DEF MetronNext, metronVars, vars

(* Of a settlement, the payouts see the EARNING row. *)
LEMMA EarningWritten ==
  ASSUME Inv, [Next]_vars
  PROVE  \/ UNCHANGED earnings
         \/ \E a \in Auths : earnings[a] = 0 /\ earnings' = [earnings EXCEPT ![a] = 1]
<1>1. ASSUME NEW a \in Auths, ApplySettled(a)
      PROVE  \/ UNCHANGED earnings
             \/ earnings[a] = 0 /\ earnings' = [earnings EXCEPT ![a] = 1]
  BY <1>1 DEF ApplySettled, Inv, TypeOK
<1>2. ASSUME NEW r \in Requests, Gateway(r)
      PROVE  UNCHANGED earnings \/ (auth[r] \in Auths /\ ApplySettled(auth[r]))
  <2>1. PersistSettled(r) \/ UNCHANGED earnings
    BY <1>2 DEF Gateway, Arrive, Precheck, Verify, AcquireLock, InsertReceipt,
                ReleaseLock, RejectBody, CallUpstream, MarkUpstreamFailed,
                MarkUpstreamOk, MarkPending, SendSettle, HearSettle, MarkFailed,
                MarkAmbiguous, Deliver, Crash
  <2>2. PersistSettled(r) => UNCHANGED earnings \/ ApplySettled(auth[r])
    BY DEF PersistSettled
  <2>3. PersistSettled(r) => auth[r] \in Auths
    BY DEF PersistSettled, Inv, Holding
  <2> QED
    BY <2>1, <2>2, <2>3
<1>3. ASSUME NEW p \in Recoverers, Recovery(p)
      PROVE  UNCHANGED earnings \/ (cur[p] \in Auths /\ ApplySettled(cur[p]))
  <2>1. RecoverSettled(p) \/ UNCHANGED earnings
    BY <1>3 DEF Recovery, ListPending, ReadEvidence, EvidenceUnavailable,
                RecoverNotFound, FinishRecovery, AbortRecovery, Reset
  <2>2. RecoverSettled(p) => cur[p] \in Auths /\ ApplySettled(cur[p])
    BY DEF RecoverSettled, Inv, Charged
  <2> QED
    BY <2>1, <2>2
<1>4. Outside \/ UNCHANGED vars => UNCHANGED earnings
  BY DEF Outside, FacilitatorCharges, FacilitatorDeclines, SpendElsewhere,
         Tick, vars
<1> QED
  BY <1>1, <1>2, <1>3, <1>4 DEF Next

LEMMA EarningsReachPayouts ==
  ASSUME Inv, [Next]_vars, UNCHANGED payoutVars
  PROVE  [P!Next]_P!vars
<1>1. CASE UNCHANGED earnings
  BY <1>1 DEF Ledger, payoutVars, P!vars
<1>2. ASSUME NEW a \in Auths, earnings[a] = 0, earnings' = [earnings EXCEPT ![a] = 1]
      PROVE  P!Next
  <2>1. a \notin Ledger /\ Ledger' = Ledger \cup {a}
    BY <1>2 DEF Ledger, Inv, TypeOK
  <2>2. P!Earn(a)
    BY <2>1 DEF payoutVars, P!Earn, P!workers, P!network, P!recovery
  <2> QED
    BY <2>2 DEF P!Next
<1> QED
  BY <1>1, <1>2, EarningWritten

LEMMA PayoutStep ==
  ASSUME Inv, [MetronNext]_metronVars
  PROVE  [P!Next]_P!vars
<1>1. [Next]_vars
  BY SettlementStep
<1>2. ASSUME NEW r \in Requests, Request(r) \/ DeliverResource(r)
      PROVE  [P!Next]_P!vars
  BY <1>1, <1>2, EarningsReachPayouts DEF Request, DeliverResource
<1>3. ASSUME NEW r \in Requests, HandOver(r)
      PROVE  [P!Next]_P!vars
  <2>1. auth[r] \in Auths
    BY <1>3 DEF HandOver, Inv, Holding
  <2> QED
    BY <1>3, <2>1 DEF HandOver, P!Next, P!Work
<1>4. ASSUME NEW r \in Requests, Attempt(r)
      PROVE  [P!Next]_P!vars
  BY <1>4 DEF Attempt, P!Next, P!Work
<1>5. ASSUME NEW r \in Requests, Die(r)
      PROVE  [P!Next]_P!vars
  <2>1. CASE step[r] = "idle"
    BY <1>1, <1>5, <2>1, EarningsReachPayouts DEF Die
  <2>2. CASE step[r] # "idle"
    BY <1>5, <2>2 DEF Die, P!Next, P!Work
  <2> QED
    BY <2>1, <2>2
<1>6. CASE Settle
  BY <1>1, <1>6, EarningsReachPayouts DEF Settle
<1>7. CASE Disburse
  BY <1>7 DEF Disburse, P!Next
<1>8. CASE UNCHANGED metronVars
  BY <1>8 DEF metronVars, vars, payoutVars, P!vars, Ledger
<1> QED
  BY <1>2, <1>3, <1>4, <1>5, <1>6, <1>7, <1>8 DEF MetronNext

-----------------------------------------------------------------------------
(* MInv is inductive. *)

LEMMA MInvInit == MetronInit => MInv
<1> SUFFICES ASSUME MetronInit PROVE MInv
  OBVIOUS
<1>1. Init /\ PP!Init /\ handed = {}
  BY SamePayouts DEF MetronInit
<1>2. Inv /\ PP!Inv
  BY <1>1, InvInit, PP!InvInit, PayoutConstantsHold
<1>3. PP!Booked
  BY <1>1 DEF PP!Init, PP!NoPayout, PP!Booked
<1>4. Paying /\ HandedOver
  BY <1>1 DEF PP!Init, PP!NoPayout, Paying, HandedOver
<1> QED
  BY <1>2, <1>3, <1>4 DEF MInv

(* What a payout attempt does to the handlers and to the table. *)
LEMMA ProceedEffect ==
  ASSUME PP!Inv, NEW r \in Requests, P!Proceed(r),
         step[r] \in {"idle", "reserve"} => queue[r] = {}
  PROVE  /\ step[r] # "idle"
         /\ \A q \in Requests \ {r} :
              step'[q] = step[q] /\ queue'[q] = queue[q] /\ job'[q] = job[q]
         /\ queue'[r] \cup {job'[r]} \subseteq queue[r] \cup {job[r], NoAuth}
         /\ step'[r] \in {"idle", "reserve"} => queue'[r] = {}
         /\ \A a \in Auths \ {job[r]} : payout'[a] = payout[a]
<1> USE DEF PP!Inv, PP!TypeOK, P!Goto, P!database, P!workers, P!network, P!recovery
<1>1. CASE P!ReserveEarning(r)
  BY <1>1 DEF P!ReserveEarning
<1>2. ASSUME NEW a \in Auths, P!AcquireWalletLock(r, a)
      PROVE  /\ step[r] # "idle"
             /\ \A q \in Requests \ {r} :
                  step'[q] = step[q] /\ queue'[q] = queue[q] /\ job'[q] = job[q]
             /\ queue'[r] \cup {job'[r]} \subseteq queue[r] \cup {job[r], NoAuth}
             /\ step'[r] \in {"idle", "reserve"} => queue'[r] = {}
             /\ \A b \in Auths \ {job[r]} : payout'[b] = payout[b]
  BY <1>2 DEF P!AcquireWalletLock
<1>3. CASE P!Preflight(r) \/ P!SignTransfer(r) \/ P!Broadcast(r) \/ P!AwaitReceipt(r)
  BY <1>3 DEF P!Preflight, P!SignTransfer, P!Broadcast, P!AwaitReceipt
<1>4. CASE P!MarkSubmitted(r)
  BY <1>4 DEF P!MarkSubmitted
<1>5. CASE P!Finalize(r) \/ P!MarkFailed(r)
  BY <1>5 DEF P!Finalize, P!MarkFailed, P!FinalizeConfirmed, P!MarkPayoutFailed
<1>6. CASE P!ReleaseWalletLock(r)
  BY <1>6 DEF P!ReleaseWalletLock
<1>7. CASE P!Throw(r)
  BY <1>7 DEF P!Throw, P!Forget
<1> QED
  BY <1>1, <1>2, <1>3, <1>4, <1>5, <1>6, <1>7 DEF P!Proceed

(* A request keeps to itself, and a receipt, once held, is held for good.  *)
LEMMA GatewayKeeps ==
  ASSUME Inv, NEW r \in Requests, Gateway(r)
  PROVE  /\ \A q \in Requests \ {r} : pc'[q] = pc[q] /\ auth'[q] = auth[q]
         /\ held \subseteq held'
         /\ \A q \in held : auth'[q] = auth[q]
<1> USE DEF Inv, TypeOK
<1>1. ASSUME NEW a \in Auths, Arrive(r, a)
      PROVE  /\ \A q \in Requests \ {r} : pc'[q] = pc[q] /\ auth'[q] = auth[q]
             /\ held \subseteq held'
             /\ \A q \in held : auth'[q] = auth[q]
  BY <1>1 DEF Arrive, Holding, AfterInsert
<1>2. CASE Precheck(r) \/ Verify(r) \/ AcquireLock(r) \/ InsertReceipt(r) \/ ReleaseLock(r)
  BY <1>2 DEF Precheck, Verify, AcquireLock, InsertReceipt, ReleaseLock
<1>3. CASE RejectBody(r) \/ CallUpstream(r) \/ MarkUpstreamFailed(r) \/ MarkUpstreamOk(r)
  BY <1>3 DEF RejectBody, CallUpstream, MarkUpstreamFailed, MarkUpstreamOk
<1>4. CASE \/ MarkPending(r) \/ SendSettle(r) \/ HearSettle(r) \/ MarkFailed(r)
           \/ MarkAmbiguous(r) \/ PersistSettled(r) \/ Deliver(r) \/ Crash(r)
  BY <1>4 DEF MarkPending, SendSettle, HearSettle, MarkFailed, MarkAmbiguous,
              PersistSettled, Deliver, Crash
<1> QED
  BY <1>1, <1>2, <1>3, <1>4 DEF Gateway

LEMMA PayingNext ==
  ASSUME MInv, [MetronNext]_metronVars
  PROVE  Paying' /\ handed' \subseteq held'
<1> USE DEF MInv
<1>1. TypeOK /\ Holding /\ handed \subseteq Requests
  BY DEF Inv, TypeOK, HandedOver
<1>2. ASSUME NEW r \in Requests, Request(r)
      PROVE  Paying' /\ handed' \subseteq held'
  <2>1. step[r] = "idle" /\ Gateway(r) /\ UNCHANGED <<handed, payoutVars>>
    BY <1>2 DEF Request, Paying
  <2> QED
    BY <1>1, <2>1, GatewayKeeps DEF payoutVars, Paying, HandedOver
<1>3. ASSUME NEW r \in Requests, HandOver(r)
      PROVE  Paying' /\ handed' \subseteq held'
  <2>1. /\ r \in held /\ auth[r] \in Auths /\ step[r] = "idle" /\ queue[r] = {}
        /\ step' = [step EXCEPT ![r] = "reserve"] /\ job' = [job EXCEPT ![r] = auth[r]]
        /\ handed' = handed \cup {r}
        /\ UNCHANGED <<pc, auth, held, queue>>
    BY <1>1, <1>3 DEF HandOver, vars, Holding, AfterInsert, Paying, P!Handoff, P!Goto
  <2>2. step \in [Requests -> PP!Steps] /\ job \in [Requests -> Auths \cup {NoAuth}]
    BY DEF PP!Inv, PP!TypeOK
  <2> QED
    BY <1>1, <1>3, <2>1, <2>2 DEF HandOver, Paying, HandedOver
<1>4. ASSUME NEW r \in Requests, Attempt(r)
      PROVE  Paying' /\ handed' \subseteq held'
  <2>1. UNCHANGED <<pc, auth, held, handed>> /\ P!Proceed(r)
    BY <1>4 DEF Attempt, vars
  <2> QED
    BY <1>1, <2>1, ProceedEffect DEF Paying, HandedOver
<1>5. ASSUME NEW r \in Requests, DeliverResource(r)
      PROVE  Paying' /\ handed' \subseteq held'
  BY <1>1, <1>5 DEF DeliverResource, Deliver, payoutVars, Paying, HandedOver, TypeOK
<1>6. ASSUME NEW r \in Requests, Die(r)
      PROVE  Paying' /\ handed' \subseteq held'
  <2>1. /\ pc' = [pc EXCEPT ![r] = "crashed"] /\ pc \in [Requests -> {"idle"} \cup Waiting \cup Ended]
        /\ UNCHANGED <<auth, held, handed>>
    BY <1>1, <1>6 DEF Die, Crash, TypeOK
  <2>2. /\ step'[r] = "idle" /\ queue'[r] = {}
        /\ \A q \in Requests \ {r} :
             step'[q] = step[q] /\ queue'[q] = queue[q] /\ job'[q] = job[q]
    <3>1. CASE step[r] = "idle"
      BY <1>6, <3>1 DEF Die, payoutVars, Paying
    <3>2. CASE step[r] # "idle"
      BY <1>6, <3>2 DEF Die, P!Crash, P!Forget, PP!Inv, PP!TypeOK
    <3> QED
      BY <3>1, <3>2
  <2> QED
    BY <1>1, <2>1, <2>2 DEF Paying, HandedOver
<1>7. CASE Settle
  <2>1. UNCHANGED <<pc, auth, held, handed, payoutVars>>
    BY <1>7 DEF Settle, Outside, FacilitatorCharges, FacilitatorDeclines,
                SpendElsewhere, Tick, Recovery, ListPending, ReadEvidence,
                EvidenceUnavailable, RecoverSettled, RecoverNotFound,
                FinishRecovery, AbortRecovery, Reset
  <2> QED
    BY <2>1 DEF payoutVars, Paying, HandedOver
<1>8. CASE Disburse
  <2>1. UNCHANGED <<pc, auth, held, handed, step, queue, job>>
    BY <1>8 DEF Disburse, vars, P!workers, P!LockLapses, P!Include, P!Recovery,
                P!ListNonFinal, P!Examine, P!KeepReserved, P!RecoverConfirmed,
                P!RecoverFailed, P!FinishRecovery, P!AbortRecovery, P!EndRecovery
  <2> QED
    BY <2>1 DEF Paying, HandedOver
<1>9. CASE UNCHANGED metronVars
  BY <1>9 DEF metronVars, vars, payoutVars, Paying, HandedOver
<1> QED
  BY <1>2, <1>3, <1>4, <1>5, <1>6, <1>7, <1>8, <1>9 DEF MetronNext

(* A payouts row appears for the earning its handler has in hand.          *)
LEMMA RowsAppear ==
  ASSUME MInv, [MetronNext]_metronVars, NEW a \in Auths,
         payout[a].status = "NONE", payout'[a].status # "NONE"
  PROVE  \E r \in handed : auth[r] = a /\ UNCHANGED vars /\ handed' = handed
<1> USE DEF MInv
<1>1. PICK r \in Requests : Attempt(r)
  <2>1. ASSUME NEW r \in Requests,
               Request(r) \/ HandOver(r) \/ DeliverResource(r) \/ Die(r)
        PROVE  UNCHANGED payout
    BY <2>1 DEF Request, HandOver, DeliverResource, Die, payoutVars, P!Handoff,
                P!database, P!Crash, P!Forget
  <2>2. Settle \/ UNCHANGED metronVars => UNCHANGED payout
    BY DEF Settle, metronVars, payoutVars
  <2>3. CASE Disburse
    <3>1. ASSUME NEW p \in Recoverers, PP!Recovery(p) PROVE FALSE
      <4>1. \A e \in Auths, s \in {"CONFIRMED", "FAILED"} : ~PP!Closes(e, s)
        BY DEF PP!Closes, PP!StatusWritten
      <4> QED
        BY <3>1, <4>1, PP!RecoveryOnTable, PayoutConstantsHold
    <3>2. P!LockLapses \/ (\E t \in sent : P!Include(t)) => UNCHANGED payout
      BY DEF P!LockLapses, P!Include, P!database
    <3> QED
      BY <2>3, <3>1, <3>2, SamePayouts DEF Disburse
  <2> QED
    BY <2>1, <2>2, <2>3 DEF MetronNext
<1>2. P!Proceed(r) /\ UNCHANGED vars /\ handed' = handed
  BY <1>1 DEF Attempt
<1>3. a = job[r] /\ step[r] # "idle"
  BY <1>2, ProceedEffect DEF Paying
<1>4. a # NoAuth
  BY SettlementConstants
<1> QED
  BY <1>2, <1>3, <1>4 DEF Paying

LEMMA MInvNext ==
  ASSUME MInv, [MetronNext]_metronVars
  PROVE  MInv'
<1>1. Inv /\ PP!Inv /\ PP!Booked /\ [Next]_vars /\ [PP!Next]_PP!vars
  BY SettlementStep, PayoutStep, SamePayouts DEF MInv, P!vars, PP!vars
<1>2. Inv' /\ PP!Inv' /\ PP!Booked'
  BY <1>1, InvNext, PP!InvNext, PP!BookedNext, PayoutConstantsHold
<1>3. Paying' /\ handed' \subseteq held'
  BY PayingNext
<1>4. handed \subseteq handed' /\ \A r \in handed : auth'[r] = auth[r]
  <2>1. \A r \in handed : r \in held
    BY DEF MInv, HandedOver
  <2>2. ASSUME NEW r \in Requests, Request(r) \/ DeliverResource(r) \/ Die(r)
        PROVE  handed' = handed /\ \A q \in held : auth'[q] = auth[q]
    BY <1>1, <2>2, GatewayKeeps DEF Request, DeliverResource, Die, Gateway
  <2>3. ASSUME NEW r \in Requests, HandOver(r) \/ Attempt(r)
        PROVE  handed \subseteq handed' /\ auth' = auth
    BY <2>3 DEF HandOver, Attempt, vars
  <2>4. Settle \/ Disburse \/ UNCHANGED metronVars => handed' = handed /\ auth' = auth
    BY DEF Settle, Outside, FacilitatorCharges, FacilitatorDeclines, SpendElsewhere,
           Tick, Recovery, ListPending, ReadEvidence, EvidenceUnavailable,
           RecoverSettled, RecoverNotFound, FinishRecovery, AbortRecovery, Reset,
           Disburse, metronVars, vars
  <2> QED
    BY <2>1, <2>2, <2>3, <2>4 DEF MetronNext
<1>5. ASSUME NEW a \in Auths, payout'[a].status # "NONE"
      PROVE  \E r \in handed' : auth'[r] = a
  <2>1. CASE payout[a].status # "NONE"
    BY <1>4, <2>1 DEF MInv, HandedOver
  <2>2. CASE payout[a].status = "NONE"
    BY <1>5, <2>2, RowsAppear DEF vars
  <2> QED
    BY <2>1, <2>2
<1> QED
  BY <1>2, <1>3, <1>5 DEF MInv, HandedOver

THEOREM MetronInvariance == MetronSpec => []MInv
  BY MInvInit, MInvNext, PTL DEF MetronSpec

-----------------------------------------------------------------------------
(* What follows. *)

(* The composed system is a Settlement: what is proved of the request path *)
(* and its recovery holds with the payouts running beside them.            *)
THEOREM SettlesAsSpecified == MetronSpec => Spec
<1>1. MetronInit => Init
  BY DEF MetronInit
<1> QED
  BY <1>1, SettlementStep, PTL DEF MetronSpec, Spec

(* The composed system is a Payouts: handlers pay out, in the course of    *)
(* requests, what Payouts lets a worker pay out at any time.               *)
THEOREM PaysOutAsSpecified == MetronSpec => P!Spec
<1>1. MetronInit => P!Init
  BY DEF MetronInit
<1>2. MInv /\ [MetronNext]_metronVars => [P!Next]_P!vars
  BY PayoutStep DEF MInv
<1> QED
  BY <1>1, <1>2, MetronInvariance, PTL DEF MetronSpec, P!Spec

(* Every variable of the two and of their composition keeps its type. *)
THEOREM MetronTypeCorrect == MetronSpec => []MetronTypeOK
<1>1. MInv => MetronTypeOK
  BY SamePayouts
  DEF MInv, Inv, TypeOK, PP!Inv, HandedOver, MetronTypeOK
<1> QED
  BY <1>1, MetronInvariance, PTL

(* No handler pays out but for the receipt it holds, while it is about to  *)
(* deliver, and there is no payout that was not handed over like that.     *)
THEOREM PaysItsOwnEarningHolds == MetronSpec => []PaysItsOwnEarning
<1>1. MInv => PaysItsOwnEarning
  BY DEF MInv, Inv, TypeOK, Paying, HandedOver, PaysItsOwnEarning
<1> QED
  BY <1>1, MetronInvariance, PTL

(* README.md:255: each transfer is the one payout of an authorization that *)
(* was charged and credited, for any number of requests, authorizations,   *)
(* recovery runs and failures.                                             *)
THEOREM TransfersAreFundedHolds == MetronSpec => []TransfersAreFunded
<1>1. MInv => TransfersAreFunded
  <2> SUFFICES ASSUME MInv, NEW t \in sent
               PROVE  \E a \in Auths :
                        /\ payout[a].hash = t /\ t.pays = PayeeOf[a]
                        /\ chain[a] = "charged" /\ earnings[a] = 1
                        /\ \A b \in Auths : payout[b].hash = t => b = a
    BY DEF TransfersAreFunded
  <2>1. t \in PP!Tx /\ t # NoTx
    BY PP!TxIsNot, PayoutConstantsHold DEF MInv, PP!Inv, PP!TypeOK
  <2>2. PICK a \in Auths : payout[a].hash = t
    BY DEF MInv, PP!Inv, PP!Recorded
  <2>3. t.pays = PayeeOf[a] /\ payout[a].status # "NONE"
    BY <2>1, <2>2 DEF MInv, PP!Inv, PP!Recorded
  <2>4. \A b \in Auths : payout[b].hash = t => b = a
    BY <2>1, <2>2 DEF MInv, PP!Inv, PP!Recorded
  <2>5. earnings[a] = 1 /\ chain[a] = "charged"
    BY <2>3 DEF MInv, PP!Booked, Ledger, Inv, CreditMatchesCharge
  <2> QED
    BY <2>2, <2>3, <2>4, <2>5
<1> QED
  BY <1>1, MetronInvariance, PTL

-----------------------------------------------------------------------------
(* Metron implements MetronPromise. *)

(* The two halves of MetronPromise are the promises the two models keep.   *)
LEMMA PromisesAgree ==
  /\ Economy!PromiseInit = Promise!PromiseInit
  /\ Economy!PromiseNext = Promise!PromiseNext
  /\ Economy!promiseVars = Promise!promiseVars
  /\ Economy!Creator!PayoutInit = PP!Promise!PayoutInit
  /\ Economy!Creator!payoutVars = PP!Promise!payoutVars
  /\ \A E \in SUBSET Auths : PP!Promise!Reserve(E) = Economy!Creator!Reserve(E)
  /\ \A a \in Auths : PP!Promise!Transfer(a) = Economy!Creator!Transfer(a)
  /\ \A a \in Auths : PP!Promise!Release(a) = Economy!Creator!Release(a)
  BY DEF Economy!PromiseInit, Promise!PromiseInit, Economy!PromiseNext,
         Promise!PromiseNext, Economy!Claim, Promise!Claim, Economy!Charge,
         Promise!Charge, Economy!Credit, Promise!Credit, Economy!Serve,
         Promise!Serve, Economy!promiseVars, Promise!promiseVars,
         PP!AccountOf, P!AccountOf, PP!TransfersOf, P!TransfersOf,
         PP!Promise!PayoutInit, Economy!Creator!PayoutInit,
         PP!Promise!payoutVars, Economy!Creator!payoutVars,
         PP!Promise!Reserve, Economy!Creator!Reserve, PP!Promise!Transfer,
         Economy!Creator!Transfer, PP!Promise!Release, Economy!Creator!Release

LEMMA EconomyStart == MetronInit => Economy!EconomyInit
  BY PromiseStart, PP!PromiseStart, PayoutConstantsHold, SamePayouts, PromisesAgree
  DEF MetronInit, Economy!EconomyInit

(* No step settles and pays out. *)
LEMMA OneLegAtATime ==
  ASSUME [MetronNext]_metronVars
  PROVE  UNCHANGED vars \/ UNCHANGED <<payout, succeeded>>
<1>1. ASSUME NEW r \in Requests, Request(r) \/ DeliverResource(r) \/ Die(r)
      PROVE  UNCHANGED <<payout, succeeded>>
  BY <1>1 DEF Request, DeliverResource, Die, payoutVars, P!Crash, P!Forget, P!network
<1>2. ASSUME NEW r \in Requests, HandOver(r) \/ Attempt(r)
      PROVE  UNCHANGED vars
  BY <1>2 DEF HandOver, Attempt
<1>3. Settle => UNCHANGED <<payout, succeeded>>
  BY DEF Settle, payoutVars
<1>4. Disburse \/ UNCHANGED metronVars => UNCHANGED vars
  BY DEF Disburse, metronVars
<1> QED
  BY <1>1, <1>2, <1>3, <1>4 DEF MetronNext

(* What is reserved for payout was credited. *)
LEMMA ReservesCredited ==
  ASSUME MInv, MInv', UNCHANGED vars, NEW E \in SUBSET Auths, PP!Promise!Reserve(E)
  PROVE  \A a \in E : earnings[a] = 1
<1> SUFFICES ASSUME NEW a \in E PROVE earnings[a] = 1
  OBVIOUS
<1>1. a \in Auths /\ PP!AccountOf'[a] = "reserved"
  BY DEF PP!Promise!Reserve
<1>2. payout'[a].status # "NONE"
  BY <1>1 DEF PP!AccountOf
<1>3. a \in Ledger'
  BY <1>1, <1>2 DEF MInv, PP!Booked
<1> QED
  BY <1>3 DEF Ledger, vars

LEMMA StepKeepsEconomy ==
  ASSUME MInv, [MetronNext]_metronVars
  PROVE  [Economy!EconomyNext]_Economy!economyVars
<1> DEFINE payerRests == UNCHANGED Economy!promiseVars
           creatorRests == UNCHANGED Economy!Creator!payoutVars
<1>1. MInv' /\ [Next]_vars /\ [PP!Next]_PP!vars
  BY MInvNext, SettlementStep, PayoutStep, SamePayouts DEF MInv, P!vars, PP!vars
<1>2. Economy!PromiseNext \/ payerRests
  BY <1>1, StepKeepsPromise, PromisesAgree
  DEF MInv, Economy!promiseVars, Promise!promiseVars
<1>3. PP!Promise!PayoutNext \/ creatorRests
  BY <1>1, PP!StepKeepsPromise, PayoutConstantsHold
  DEF MInv, PP!AccountOf, P!AccountOf, PP!TransfersOf, P!TransfersOf,
      PP!Promise!payoutVars, Economy!Creator!payoutVars
<1>4. CASE UNCHANGED <<payout, succeeded>>
  <2>1. creatorRests
    BY <1>4 DEF Economy!Creator!payoutVars, P!AccountOf, P!TransfersOf
  <2> QED
    BY <1>2, <2>1 DEF Economy!EconomyNext, Economy!economyVars
<1>5. CASE UNCHANGED vars
  <2>1. payerRests
    BY <1>5 DEF Economy!promiseVars, vars, PhaseOf, ServedOn
  <2>2. ASSUME PP!Promise!PayoutNext PROVE Economy!PayCreator
    <3>1. ASSUME NEW E \in SUBSET Auths, PP!Promise!Reserve(E)
          PROVE  Economy!PayCreator
      BY <1>1, <1>5, <3>1, ReservesCredited, PromisesAgree DEF Economy!PayCreator
    <3>2. ASSUME NEW a \in Auths, PP!Promise!Transfer(a) \/ PP!Promise!Release(a)
          PROVE  Economy!PayCreator
      BY <3>2, PromisesAgree DEF Economy!PayCreator
    <3> QED
      BY <2>2, <3>1, <3>2 DEF PP!Promise!PayoutNext
  <2> QED
    BY <1>3, <2>1, <2>2 DEF Economy!EconomyNext, Economy!economyVars
<1> QED
  BY <1>4, <1>5, OneLegAtATime

(* Metron keeps the promise of MetronPromise.tla: an earning is reserved   *)
(* for its one payout only after it was credited, and credited only after  *)
(* its payer was charged, for one claim of one authorization.              *)
THEOREM KeepsEconomy == MetronSpec => ImplementsEconomy
  BY EconomyStart, StepKeepsEconomy, MetronInvariance, PTL
  DEF MetronSpec, ImplementsEconomy, Economy!EconomySpec
=============================================================================
