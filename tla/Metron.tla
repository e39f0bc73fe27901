------------------------------- MODULE Metron -------------------------------
(***************************************************************************)
(* The economic loop of Metron: the paid request path and its recovery     *)
(* (Settlement) together with the creator payouts (Payouts).               *)
(*                                                                         *)
(* The two meet in three places.  The EARNING row that a settlement writes *)
(* is the row a payout reserves.  The handler of a settled request hands   *)
(* over its own earning and waits for the attempt before it answers.  Its  *)
(* death ends both.  Nothing else starts a payout: requestPayout, the      *)
(* sweep, has no caller in this system.                                    *)
(*                                                                         *)
(* A run of scripts/reconcile-ledger.ts recovers settlements and payouts   *)
(* one after the other.  As it may die after, or learn nothing in, its     *)
(* first pass, a recoverer makes either pass at any time, but one at a     *)
(* time; several runs may overlap.                                         *)
(***************************************************************************)
EXTENDS Settlement

CONSTANTS
  Payees, PayeeOf,   \* destination and amount of each earning's payout
  Fees,              \* gas and gas price a transaction may be built with
  Nobody, NoTx,      \* not a request, not a transaction
  Misread, StaleNode, LockDegrades,  \* what may fail, see Payouts
  PayoutGate         \* values PAYOUTS_ENABLED may have

VARIABLES
  handed,            \* requests whose handler attempted the payout
  \* of Payouts, with the handlers as workers; step is its pc, and scan,
  \* rows and row are the rpc, todo and cur of its recovery script
  payout, walletLock, step, queue, job, holds, tx,
  sent, succeeded, reverted, nextNonce, scan, rows, row

(* The EARNING rows, keyed by the authorization they were settled with. *)
Ledger == {a \in Auths : earnings[a] = 1}

P == INSTANCE Payouts WITH
  Earnings <- Auths, Workers <- Requests, NoEarning <- NoAuth, ledger <- Ledger,
  pc <- step, rpc <- scan, todo <- rows, cur <- row

payoutVars == <<payout, walletLock, step, queue, job, holds, tx, sent,
                succeeded, reverted, nextNonce, scan, rows, row>>
metronVars == <<vars, handed, payoutVars>>

ASSUME MetronConstants ==
  /\ P!PayoutConstants
  /\ PayoutGate \subseteq BOOLEAN

MetronTypeOK ==
  /\ TypeOK
  /\ P!TypeOK
  /\ handed \subseteq Requests

MetronInit == Init /\ P!Init /\ handed = {}

-----------------------------------------------------------------------------
(* The request path up to the final write; a settlement that creates the   *)
(* EARNING row thereby extends the ledger of Payouts.                      *)
Request(r) ==
  /\ pc[r] # "deliver"
  /\ Gateway(r)
  /\ UNCHANGED <<handed, payoutVars>>

(* Fault: the sweep is called in place of the exact-earning handoff. *)
HandOverOutstanding(r) ==
  /\ pc[r] = "deliver"
  /\ r \notin handed
  /\ TRUE \in PayoutGate
  /\ handed' = handed \cup {r}
  /\ UNCHANGED vars
  /\ P!ReserveOutstanding(r)

(* attemptPayoutForReceipt with the receipt of the request, once, when     *)
(* PAYOUTS_ENABLED says so.                                                *)
HandOver(r) ==
  /\ pc[r] = "deliver"
  /\ r \notin handed
  /\ TRUE \in PayoutGate
  /\ handed' = handed \cup {r}
  /\ UNCHANGED vars
  /\ P!Handoff(r, auth[r])

(* The attempt goes on.  Whatever it throws is absorbed, and the handler   *)
(* returns to where it delivers (Throw of Payouts).                        *)
Attempt(r) ==
  /\ UNCHANGED <<vars, handed>>
  /\ P!Proceed(r)

(* Fault: the caller is answered while the payout is under way. *)
DeliverAtOnce(r) ==
  /\ Deliver(r)
  /\ UNCHANGED <<handed, payoutVars>>

(* Fault: a payout attempt that throws is not absorbed. *)
DeliverUnlessThrown(r) ==
  /\ step[r] = "idle"
  /\ Deliver(r)
  /\ r \in handed => payout[auth[r]].status # "PENDING"
  /\ UNCHANGED <<handed, payoutVars>>

(* The resource is delivered after the attempt, whatever came of it.       *)
DeliverResource(r) ==
  /\ step[r] = "idle"
  /\ r \in handed \/ FALSE \in PayoutGate
  /\ Deliver(r)
  /\ UNCHANGED <<handed, payoutVars>>

(* The process dies before it delivers; a payout attempt dies with it. *)
Die(r) ==
  /\ pc[r] = "deliver"
  /\ Crash(r)
  /\ UNCHANGED handed
  /\ IF step[r] = "idle" THEN UNCHANGED payoutVars ELSE P!Crash(r)

(* Payer, facilitator and time; a pass over the pending settlements. *)
Settle ==
  /\ Outside \/ \E p \in Recoverers : scan[p] = "idle" /\ Recovery(p)
  /\ UNCHANGED <<handed, payoutVars>>

(* The wallet's transactions are mined, its lock lapses; a pass over the   *)
(* payouts.                                                                *)
Disburse ==
  /\ UNCHANGED <<vars, handed>>
  /\ \/ P!LockLapses
     \/ \E t \in sent : P!Include(t)
     \/ \E p \in Recoverers : rpc[p] = "idle" /\ P!Recovery(p)

MetronNext ==
  \/ \E r \in Requests :
       Request(r) \/ HandOver(r) \/ Attempt(r) \/ DeliverResource(r) \/ Die(r)
  \/ Settle
  \/ Disburse

MetronSpec == MetronInit /\ [][MetronNext]_metronVars

(* A handler that has settled goes on: each await of the payout attempt    *)
(* ends, in an answer, an error or the 90 s of the receipt poll.           *)
HandlerFairSpec ==
  /\ MetronSpec
  /\ \A r \in Requests :
       WF_metronVars(HandOver(r) \/ Attempt(r) \/ DeliverResource(r))

(* The operator keeps recovering settlements and payouts, as in the two. *)
MetronFairSpec == HandlerFairSpec /\ RecoveryFairness /\ P!RecoveryFairness

-----------------------------------------------------------------------------
(* Properties *)

(* Metron never pays out money it did not receive (README.md:255, two      *)
(* explicit financial legs): each transfer that reached the network is the *)
(* one payout of an authorization that was charged to its payer and        *)
(* credited to the creator, whatever was recovered, retried or misread.    *)
TransfersAreFunded ==
  \A t \in sent :
    \E a \in Auths :
      /\ payout[a].hash = t /\ t.pays = PayeeOf[a]
      /\ chain[a] = "charged" /\ earnings[a] = 1
      /\ \A b \in Auths : payout[b].hash = t => b = a

(* A payout is made by the handler that holds the receipt, for its own     *)
(* earning, before it answers (handoff.ts:4, the EXACT earning of one      *)
(* receipt): a request that was answered, or never settled, has none.      *)
PaysItsOwnEarning ==
  /\ \A r \in Requests :
       step[r] # "idle" =>
         /\ pc[r] = "deliver" /\ r \in held
         /\ queue[r] \cup {job[r]} \subseteq {auth[r], NoAuth}
  /\ \A a \in Auths :
       payout[a].status # "NONE" => \E r \in handed : r \in held /\ auth[r] = a

(* "The payout outcome NEVER affects caller delivery" (route.ts:453): once *)
(* the settlement is persisted, the caller is answered with the resource,  *)
(* unless the process dies.                                                *)
SettledIsDelivered ==
  \A r \in Requests :
    pc[r] = "deliver" ~> pc[r] \in {"delivered", "crashed"}

(* "After a successful x402 settlement, Metron creates a creator payable    *)
(* and attempts a USDC transfer" to the creator (docs/metron-PRD.md:220).  *)
(* An attempt reserves the earning, so a credit gets its payout record.    *)
CreditGetsPayoutRecord ==
  \A a \in Auths : earnings[a] = 1 ~> payout[a].status # "NONE"

(* Metron implements MetronPromise, by the mappings of its two halves. *)
Economy == INSTANCE MetronPromise WITH
  phase <- PhaseOf, credits <- earnings, served <- ServedOn,
  account <- P!AccountOf, transfers <- P!TransfersOf

ImplementsEconomy == Economy!EconomySpec
=============================================================================
