------------------------------- MODULE Payouts -------------------------------
(***************************************************************************)
(* Creator payouts: the exact-earning handoff after a settlement, the      *)
(* sweep of a developer's outstanding earnings, the crash-safe broadcast   *)
(* of each reserved payout from Metron's one payout wallet, the best-      *)
(* effort wallet lock around it, and the recovery script.                  *)
(*                                                                         *)
(* A worker is one invocation of attemptPayoutForReceipt or requestPayout; *)
(* one action per await, so workers, the recovery script and the chain     *)
(* interleave anywhere, and a worker may crash or throw at every await.    *)
(***************************************************************************)
EXTENDS Integers

CONSTANTS
  Earnings,      \* EARNING ledger entries there may be
  Payees,        \* payees: a destination wallet and an amount
  PayeeOf,       \* what the payout of each earning pays
  Fees,          \* gas and gas price a transaction may be built with
  Workers,       \* concurrent payout invocations
  Recoverers,    \* concurrent runs of the recovery script
  Nobody,        \* not a worker
  NoEarning,     \* not an earning
  NoTx,          \* not a transaction
  Misread,       \* may a receipt be read without its Transfer log?
  StaleNode,     \* may an RPC node miss transactions or lag behind?
  LockDegrades   \* may Redis fail, or the lock's TTL run out?

ASSUME PayoutConstants ==
  /\ PayeeOf \in [Earnings -> Payees]
  /\ Nobody \notin Workers
  /\ NoEarning \notin Earnings
  /\ NoTx \notin [pays: Payees, nonce: Nat, fee: Fees]
  /\ Misread \in BOOLEAN
  /\ StaleNode \in BOOLEAN
  /\ LockDegrades \in BOOLEAN

VARIABLES
  ledger,      \* the EARNING rows there are
  payout,      \* payout[e]: the payouts row with ledger_entry_id e
  walletLock,  \* the worker whose token the Redis lock holds, or Nobody
  \* the workers
  pc,          \* pc[w]: the await worker w is at
  queue,       \* queue[w]: payouts reserved by w and not yet broadcast
  job,         \* job[w]: the earning w is reserving or paying out
  holds,       \* holds[w]: w believes it holds the wallet lock
  tx,          \* tx[w]: the transaction w has signed
  \* the chain
  sent,        \* transactions that reached the network
  succeeded, reverted,   \* transactions included in a block
  nextNonce,   \* next nonce of the payout wallet
  \* the recovery script
  rpc,         \* rpc[p]: "idle", "scan", "finalize", "mark_failed"
  todo,        \* todo[p]: listed rows not yet looked at
  cur          \* cur[p]: the earning about to be updated

database == <<ledger, payout, walletLock>>
workers  == <<pc, queue, job, holds, tx>>
network  == <<sent, succeeded, reverted, nextNonce>>
recovery == <<rpc, todo, cur>>
vars == <<ledger, payout, walletLock, pc, queue, job, holds, tx, sent, succeeded,
          reverted, nextNonce, rpc, todo, cur>>

-----------------------------------------------------------------------------
(* A signed transfer.  Its hash is a function of its content (signatures   *)
(* are deterministic), so the transaction stands for its hash.             *)
Tx == [pays: Payees, nonce: Nat, fee: Fees]

(* PAYOUT_STATUS of lib/db/schema.ts; "NONE" is the absent row. *)
Payout == [status: {"NONE", "PENDING", "SUBMITTED", "CONFIRMED", "FAILED"},
           hash: Tx \cup {NoTx}]

NoPayout == [status |-> "NONE", hash |-> NoTx]

Steps == {"idle", "reserve", "next", "preflight", "reject", "nonce",
          "checkpoint", "broadcast", "wait", "finalize", "mark_failed",
          "release"}

TypeOK ==
  /\ ledger \subseteq Earnings
  /\ payout \in [Earnings -> Payout]
  /\ \A e \in Earnings :
       payout[e].status \in {"SUBMITTED", "CONFIRMED"} => payout[e].hash # NoTx
  /\ walletLock \in Workers \cup {Nobody}
  /\ pc \in [Workers -> Steps]
  /\ queue \in [Workers -> SUBSET Earnings]
  /\ job \in [Workers -> Earnings \cup {NoEarning}]
  /\ holds \in [Workers -> BOOLEAN]
  /\ tx \in [Workers -> Tx \cup {NoTx}]
  /\ sent \subseteq Tx /\ succeeded \subseteq sent /\ reverted \subseteq sent
  /\ nextNonce \in Nat
  /\ rpc \in [Recoverers -> {"idle", "scan", "finalize", "mark_failed"}]
  /\ todo \in [Recoverers -> SUBSET [earning: Earnings, hash: Tx \cup {NoTx}]]
  /\ cur \in [Recoverers -> Earnings \cup {NoEarning}]

Init ==
  /\ ledger = {}
  /\ payout = [e \in Earnings |-> NoPayout]
  /\ walletLock = Nobody
  /\ pc = [w \in Workers |-> "idle"]
  /\ queue = [w \in Workers |-> {}]
  /\ job = [w \in Workers |-> NoEarning]
  /\ holds = [w \in Workers |-> FALSE]
  /\ tx = [w \in Workers |-> NoTx]
  /\ sent = {} /\ succeeded = {} /\ reverted = {}
  /\ nextNonce = 0
  /\ rpc = [p \in Recoverers |-> "idle"]
  /\ todo = [p \in Recoverers |-> {}]
  /\ cur = [p \in Recoverers |-> NoEarning]

Goto(w, from, to) ==
  /\ pc[w] = from
  /\ pc' = [pc EXCEPT ![w] = to]

-----------------------------------------------------------------------------
(* Reservation: reserveEarningForPayout and reserveOutstandingEarnings. *)

(* A settlement is applied and inserts the EARNING row. *)
Earn(e) ==
  /\ e \notin ledger
  /\ ledger' = ledger \cup {e}
  /\ UNCHANGED <<payout, walletLock, workers, network, recovery>>

(* The gateway hands over the earning of a settled receipt, possibly again; *)
(* without a ledger row (getEarningByReceipt) there is nothing to pay.      *)
Handoff(w, e) ==
  /\ e \in ledger
  /\ Goto(w, "idle", "reserve")
  /\ job' = [job EXCEPT ![w] = e]
  /\ UNCHANGED <<database, queue, holds, tx, network, recovery>>

(* Fault: no look for an existing payout, no UNIQUE ledger_entry_id. *)
ReserveAgain(w) ==
  LET e == job[w] IN
  /\ Goto(w, "reserve", "next")
  /\ payout' = [payout EXCEPT ![e].status = "PENDING"]
  /\ queue' = [queue EXCEPT ![w] = {e}]
  /\ job' = [job EXCEPT ![w] = NoEarning]
  /\ UNCHANGED <<ledger, walletLock, holds, tx, network, recovery>>

(* Any payout of the earning, in any state, means already_handled. *)
ReserveEarning(w) ==
  LET e == job[w] IN
  /\ \/ /\ Goto(w, "reserve", "next")
        /\ payout[e].status = "NONE"
        /\ payout' = [payout EXCEPT ![e].status = "PENDING"]
        /\ queue' = [queue EXCEPT ![w] = {e}]
     \/ /\ Goto(w, "reserve", "idle")
        /\ payout[e].status # "NONE"
        /\ UNCHANGED <<payout, queue>>
  /\ job' = [job EXCEPT ![w] = NoEarning]
  /\ UNCHANGED <<ledger, walletLock, holds, tx, network, recovery>>

(* The sweep reserves what has no payout, but for the ledger rows another  *)
(* reservation has locked (FOR UPDATE SKIP LOCKED).                        *)
ReserveOutstanding(w) ==
  \E skipped \in SUBSET {job[v] : v \in {u \in Workers : pc[u] = "reserve"}} :
    LET E == {e \in ledger \ skipped : payout[e].status = "NONE"} IN
    /\ E # {}
    /\ Goto(w, "idle", "next")
    /\ payout' = [e \in Earnings |->
         IF e \in E THEN [payout[e] EXCEPT !.status = "PENDING"] ELSE payout[e]]
    /\ queue' = [queue EXCEPT ![w] = E]
    /\ UNCHANGED <<ledger, walletLock, job, holds, tx, network, recovery>>

-----------------------------------------------------------------------------
(* Broadcast of one reserved payout: lockedBroadcast, broadcastPayout. *)

(* SET NX under a fresh token.  The lock fails open: contended, or with    *)
(* Redis down, the broadcast runs without it.                              *)
AcquireWalletLock(w, e) ==
  /\ Goto(w, "next", "preflight")
  /\ e \in queue[w]
  /\ queue' = [queue EXCEPT ![w] = @ \ {e}]
  /\ job' = [job EXCEPT ![w] = e]
  /\ \/ /\ walletLock = Nobody
        /\ walletLock' = w
        /\ holds' = [holds EXCEPT ![w] = TRUE]
     \/ /\ walletLock # Nobody \/ LockDegrades
        /\ UNCHANGED <<walletLock, holds>>
  /\ UNCHANGED <<ledger, payout, tx, network, recovery>>

(* Signer, destination, amount, balances: any of them may be wrong. *)
Preflight(w) ==
  /\ Goto(w, "preflight", "nonce") \/ Goto(w, "preflight", "reject")
  /\ UNCHANGED <<database, queue, job, holds, tx, network, recovery>>

(* getTransactionCount at "pending": the first nonce that no transaction    *)
(* known to the node has.  A node that misses some of them, or lags behind  *)
(* the chain, may answer less.                                              *)
Nonces ==
  {n \in (0..nextNonce) \cup {t.nonce + 1 : t \in sent} :
     /\ \A m \in nextNonce..(n - 1) : \E t \in sent : t.nonce = m
     /\ StaleNode \/ (n >= nextNonce /\ \A t \in sent : t.nonce # n)}

(* getNonce and the fees, then the transfer is built, signed and hashed. *)
SignTransfer(w) ==
  /\ Goto(w, "nonce", "checkpoint")
  /\ \E n \in Nonces, f \in Fees :
       tx' = [tx EXCEPT ![w] = [pays |-> PayeeOf[job[w]], nonce |-> n, fee |-> f]]
  /\ UNCHANGED <<database, queue, job, holds, network, recovery>>

(* Fault: no unique index on tx_hash. *)
MarkSubmittedAnyHash(w) ==
  LET e == job[w] IN
  /\ Goto(w, "checkpoint", "broadcast")
  /\ payout' = [payout EXCEPT ![e] = [status |-> "SUBMITTED", hash |-> tx[w]]]
  /\ UNCHANGED <<ledger, walletLock, queue, job, holds, tx, network, recovery>>

(* markPayoutSubmitted: the durable checkpoint before the broadcast; the   *)
(* unique tx_hash makes it throw for the hash of another payout (see Throw). *)
MarkSubmitted(w) ==
  LET e == job[w] IN
  /\ Goto(w, "checkpoint", "broadcast")
  /\ \A f \in Earnings \ {e} : payout[f].hash # tx[w]
  /\ payout' = [payout EXCEPT ![e] = [status |-> "SUBMITTED", hash |-> tx[w]]]
  /\ UNCHANGED <<ledger, walletLock, queue, job, holds, tx, network, recovery>>

(* Fault: an ambiguous broadcast is tried again under a fresh nonce. *)
BroadcastWithRetry(w) ==
  /\ \/ Goto(w, "broadcast", "wait") /\ sent' = sent \cup {tx[w]}
     \/ Goto(w, "broadcast", "nonce") /\ sent' \in {sent, sent \cup {tx[w]}}
  /\ UNCHANGED <<database, queue, job, holds, tx, succeeded, reverted,
                 nextNonce, recovery>>

(* The node takes the raw transaction, or the call fails (also by a hash   *)
(* mismatch) and nobody knows whether the network saw it.                  *)
Broadcast(w) ==
  /\ \/ Goto(w, "broadcast", "wait") /\ sent' = sent \cup {tx[w]}
     \/ Goto(w, "broadcast", "release") /\ sent' \in {sent, sent \cup {tx[w]}}
  /\ UNCHANGED <<database, queue, job, holds, tx, succeeded, reverted,
                 nextNonce, recovery>>

(* assessPayoutConfirmation: what a reader of the receipt of t may make of  *)
(* it.  The receipt may be out of reach, or read without its Transfer log.  *)
Assessments(t) ==
  {v \in {"confirmed", "reverted", "mismatch", "unavailable"} :
     /\ v = "confirmed" => t \in succeeded
     /\ v = "reverted" => t \in reverted
     /\ v = "mismatch" => Misread /\ t \in succeeded}

(* waitForReceipt: a confirmed transfer is final, no receipt within 90 s is *)
(* ambiguous, anything else is failed.                                      *)
AwaitReceipt(w) ==
  /\ \E v \in Assessments(tx[w]) :
       Goto(w, "wait", CASE v = "confirmed"   -> "finalize"
                         [] v = "unavailable" -> "release"
                         [] OTHER             -> "mark_failed")
  /\ UNCHANGED <<database, queue, job, holds, tx, network, recovery>>

(* finalizePayoutConfirmed: by id, whatever the status. *)
FinalizeConfirmed(e) == payout' = [payout EXCEPT ![e].status = "CONFIRMED"]

(* Fault: failing a payout drops its hash and thereby its reservation. *)
MarkPayoutFailedAndRelease(e) ==
  payout' = [payout EXCEPT ![e] = [status |-> "FAILED", hash |-> NoTx]]

(* markPayoutFailed: by id, whatever the status; a hash stays. *)
MarkPayoutFailed(e) == payout' = [payout EXCEPT ![e].status = "FAILED"]

Finalize(w) ==
  /\ Goto(w, "finalize", "release")
  /\ FinalizeConfirmed(job[w])
  /\ UNCHANGED <<ledger, walletLock, queue, job, holds, tx, network, recovery>>

(* After a failed preflight, or after a failed receipt. *)
MarkFailed(w) ==
  /\ Goto(w, "reject", "release") \/ Goto(w, "mark_failed", "release")
  /\ MarkPayoutFailed(job[w])
  /\ UNCHANGED <<ledger, walletLock, queue, job, holds, tx, network, recovery>>

(* Compare-and-delete, so a lock that lapsed and was taken by another      *)
(* worker stays; with Redis down, the lock stays until its TTL runs out.   *)
Unlock(w) ==
  \/ walletLock' = IF holds[w] /\ walletLock = w THEN Nobody ELSE walletLock
  \/ LockDegrades /\ UNCHANGED walletLock

(* Then the next payout of the sweep. *)
ReleaseWalletLock(w) ==
  /\ Goto(w, "release", IF queue[w] = {} THEN "idle" ELSE "next")
  /\ Unlock(w)
  /\ holds' = [holds EXCEPT ![w] = FALSE]
  /\ job' = [job EXCEPT ![w] = NoEarning]
  /\ tx' = [tx EXCEPT ![w] = NoTx]
  /\ UNCHANGED <<ledger, payout, queue, network, recovery>>

Forget(w) ==
  /\ pc' = [pc EXCEPT ![w] = "idle"]
  /\ queue' = [queue EXCEPT ![w] = {}]
  /\ job' = [job EXCEPT ![w] = NoEarning]
  /\ holds' = [holds EXCEPT ![w] = FALSE]
  /\ tx' = [tx EXCEPT ![w] = NoTx]
  /\ UNCHANGED <<ledger, payout, network, recovery>>

(* An await throws (database, node, gas estimate, duplicate hash): the     *)
(* finally block releases the lock, the rest of a sweep is not broadcast.  *)
Throw(w) ==
  /\ pc[w] # "idle"
  /\ Unlock(w)
  /\ Forget(w)

(* The process dies: what it held in memory is gone, the lock stays. *)
Crash(w) ==
  /\ pc[w] # "idle"
  /\ Forget(w)
  /\ UNCHANGED walletLock

(* The lock's TTL runs out, with or without its holder still running. *)
LockLapses ==
  /\ walletLock # Nobody
  /\ LockDegrades \/ \A w \in Workers : ~holds[w]
  /\ walletLock' = Nobody
  /\ UNCHANGED <<ledger, payout, workers, network, recovery>>

-----------------------------------------------------------------------------
(* The chain includes the wallet's transactions in nonce order, one for    *)
(* each nonce; a transfer may revert (another payout drained the balance). *)
Include(t) ==
  /\ t \in sent
  /\ t.nonce = nextNonce
  /\ nextNonce' = nextNonce + 1
  /\ \/ succeeded' = succeeded \cup {t} /\ UNCHANGED reverted
     \/ reverted' = reverted \cup {t} /\ UNCHANGED succeeded
  /\ UNCHANGED <<database, workers, sent, recovery>>

-----------------------------------------------------------------------------
(* Recovery: reconcilePayouts. *)

(* Fault: a FAILED payout is final. *)
NonFinalWithoutFailed(e) == payout[e].status \in {"PENDING", "SUBMITTED"}

(* listNonFinalPayouts: a FAILED row with a hash may be a false negative. *)
NonFinal(e) ==
  \/ payout[e].status \in {"PENDING", "SUBMITTED"}
  \/ payout[e].status = "FAILED" /\ payout[e].hash # NoTx

ListNonFinal(p) ==
  /\ rpc[p] = "idle"
  /\ rpc' = [rpc EXCEPT ![p] = "scan"]
  /\ todo' = [todo EXCEPT ![p] =
       {[earning |-> e, hash |-> payout[e].hash] : e \in {f \in Earnings : NonFinal(f)}}]
  /\ UNCHANGED <<database, workers, network, cur>>

(* The receipt of the listed hash decides. *)
Examine(p, row) ==
  /\ rpc[p] = "scan"
  /\ row \in todo[p]
  /\ todo' = [todo EXCEPT ![p] = @ \ {row}]
  /\ \/ /\ "confirmed" \in Assessments(row.hash)
        /\ rpc' = [rpc EXCEPT ![p] = "finalize"]
     \/ /\ "reverted" \in Assessments(row.hash)
        /\ rpc' = [rpc EXCEPT ![p] = "mark_failed"]
  /\ cur' = [cur EXCEPT ![p] = row.earning]
  /\ UNCHANGED <<database, workers, network>>

(* Without a hash, without a receipt, or with a receipt that does not show *)
(* the transfer, the payout is kept as it is.                              *)
KeepReserved(p, row) ==
  /\ rpc[p] = "scan"
  /\ row \in todo[p]
  /\ row.hash = NoTx \/ Assessments(row.hash) \cap {"mismatch", "unavailable"} # {}
  /\ todo' = [todo EXCEPT ![p] = @ \ {row}]
  /\ UNCHANGED <<database, workers, network, rpc, cur>>

RecoverConfirmed(p) ==
  /\ rpc[p] = "finalize"
  /\ FinalizeConfirmed(cur[p])
  /\ rpc' = [rpc EXCEPT ![p] = "scan"]
  /\ cur' = [cur EXCEPT ![p] = NoEarning]
  /\ UNCHANGED <<ledger, walletLock, workers, network, todo>>

RecoverFailed(p) ==
  /\ rpc[p] = "mark_failed"
  /\ MarkPayoutFailed(cur[p])
  /\ rpc' = [rpc EXCEPT ![p] = "scan"]
  /\ cur' = [cur EXCEPT ![p] = NoEarning]
  /\ UNCHANGED <<ledger, walletLock, workers, network, todo>>

(* The script ends, or is killed or throws half way. *)
EndRecovery(p) ==
  /\ rpc' = [rpc EXCEPT ![p] = "idle"]
  /\ todo' = [todo EXCEPT ![p] = {}]
  /\ cur' = [cur EXCEPT ![p] = NoEarning]
  /\ UNCHANGED <<database, workers, network>>

FinishRecovery(p) == rpc[p] = "scan" /\ todo[p] = {} /\ EndRecovery(p)

AbortRecovery(p) ==
  /\ rpc[p] \in {"finalize", "mark_failed"} \/ todo[p] # {}
  /\ EndRecovery(p)

-----------------------------------------------------------------------------
(* An invocation that has begun goes on. *)
Proceed(w) ==
  \/ ReserveEarning(w)
  \/ \E e \in Earnings : AcquireWalletLock(w, e)
  \/ Preflight(w) \/ SignTransfer(w) \/ MarkSubmitted(w) \/ Broadcast(w)
  \/ AwaitReceipt(w) \/ Finalize(w) \/ MarkFailed(w) \/ ReleaseWalletLock(w)
  \/ Throw(w)

Work(w) ==
  \/ \E e \in Earnings : Handoff(w, e)
  \/ ReserveOutstanding(w)
  \/ Proceed(w) \/ Crash(w)

Recovery(p) ==
  \/ ListNonFinal(p)
  \/ \E row \in todo[p] : Examine(p, row) \/ KeepReserved(p, row)
  \/ RecoverConfirmed(p) \/ RecoverFailed(p)
  \/ FinishRecovery(p) \/ AbortRecovery(p)

Next ==
  \/ \E e \in Earnings : Earn(e)
  \/ \E w \in Workers : Work(w)
  \/ LockLapses
  \/ \E t \in sent : Include(t)
  \/ \E p \in Recoverers : Recovery(p)

Spec == Init /\ [][Next]_vars

(* The operator keeps running the script, which works through its list and *)
(* is neither killed nor cut off from the chain for ever at the same point. *)
(* Nothing is assumed of workers and of the chain.                         *)
RecoveryFairness ==
  \A p \in Recoverers :
    /\ WF_vars(ListNonFinal(p))
    /\ WF_vars(FinishRecovery(p))
    /\ \A e \in Earnings :
         /\ WF_vars(\E row \in todo[p] :
                      row.earning = e /\ (Examine(p, row) \/ KeepReserved(p, row)))
         /\ SF_vars(\E row \in todo[p] : row.earning = e /\ Examine(p, row))
         /\ SF_vars(cur[p] = e /\ (RecoverConfirmed(p) \/ RecoverFailed(p)))

FairSpec == Spec /\ RecoveryFairness

-----------------------------------------------------------------------------
(* Properties *)

(* At most one payout per earning (README.md:426): an earning is in the    *)
(* hands of one invocation, whichever handoffs and sweeps compete for it.  *)
OnePayoutPerEarning ==
  \A v, w \in Workers :
    LET InHand(u) == queue[u] \cup (IF pc[u] \in {"idle", "reserve", "next"}
                                    THEN {} ELSE {job[u]}) IN
    v # w => InHand(v) \cap InHand(w) = {}

(* Every transfer that reached the network is the recorded transfer of     *)
(* exactly one payout, of an earning in the ledger, to the right payee, so *)
(* no crash leaves an unknown one (broadcast.ts:12) and the creator is     *)
(* paid once for each.                                                     *)
TransferIsOnRecord ==
  \A t \in sent :
    \E e \in ledger :
      /\ payout[e].hash = t
      /\ t.pays = PayeeOf[e]
      /\ \A f \in Earnings : payout[f].hash = t => f = e

(* CONFIRMED means that the money moved, and a payout whose reservation    *)
(* was released (FAILED without a hash, accounting.ts:10) is never sent,   *)
(* not even by the invocation that still works on it.                      *)
StatusIsTruthful ==
  \A e \in Earnings :
    /\ payout[e].status = "CONFIRMED" => payout[e].hash \in succeeded
    /\ payout[e].status = "FAILED" /\ payout[e].hash = NoTx =>
         \A w \in Workers : job[w] = e => pc[w] \in {"release", "reserve"}

(* An uncertain payout is never sent again (README.md:428): once a hash is *)
(* recorded for an earning it is its only transfer, for ever.              *)
HashIsFinal ==
  [][\A e \in Earnings :
       payout[e].hash # NoTx => payout'[e].hash = payout[e].hash]_vars

(* A payout that reached the chain is confirmed in the end and stays so,   *)
(* wherever its invocation stopped and whatever it misread: also one that  *)
(* was marked FAILED (db/payouts.ts:267).                                  *)
PaidEventuallyConfirmed ==
  \A e \in Earnings :
    payout[e].hash \in succeeded ~> [](payout[e].status = "CONFIRMED")

(* Payouts implements PayoutPromise: a row reserves its earning, a mined   *)
(* transfer pays the earning that recorded its hash, FAILED without a hash *)
(* releases it.                                                            *)
AccountOf ==
  [e \in Earnings |->
     IF payout[e].status = "NONE" THEN "open"
     ELSE IF payout[e].status = "FAILED" /\ payout[e].hash = NoTx
          THEN "released" ELSE "reserved"]
TransfersOf ==
  [e \in Earnings |-> IF payout[e].hash \in succeeded THEN 1 ELSE 0]

Promise == INSTANCE PayoutPromise WITH
  account <- AccountOf, transfers <- TransfersOf

ImplementsPromise == Promise!PayoutSpec
=============================================================================
