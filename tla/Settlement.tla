----------------------------- MODULE Settlement -----------------------------
(***************************************************************************)
(* The paid request path of the Metron gateway and the recovery of pending *)
(* settlements.                                                            *)
(*                                                                         *)
(* Every gateway request is a process that runs handleResourceRequest      *)
(* (app/p/[...proxy]/route.ts) with a PAYMENT-SIGNATURE header: durable    *)
(* replay precheck, facilitator /verify, Redis lock, receipt insert,       *)
(* upstream call, durable SETTLEMENT_PENDING, /settle, final write.  One   *)
(* action per await, so other requests, the facilitator, the clock and     *)
(* the recovery script may step between any two of them, and a request may *)
(* crash (or throw a database error) at every one.                         *)
(*                                                                         *)
(* An authorization stands for its payment identifier: receipts, locks and *)
(* earnings are keyed by it.                                               *)
(***************************************************************************)
EXTENDS Naturals

CONSTANTS
  Requests,         \* signed HTTP requests
  Auths,            \* signed payment authorizations
  Recoverers,       \* concurrent runs of the recovery script
  NoAuth,           \* not an authorization
  Permit2,          \* the authorizations signed as Permit2, not EIP-3009
  ValidBefore,      \* validity deadline of each authorization
  MaxClock,         \* bound on the clock
  MinTtl, MaxTtl, DefaultTtl,  \* replay lock TTL policy, in clock ticks
  SettlementGate,   \* values X402_SETTLEMENT_ENABLED may have
  OmitsTransaction  \* may the facilitator report success without a hash?

ASSUME SettlementConstants ==
  /\ NoAuth \notin Auths
  /\ Permit2 \subseteq Auths
  /\ ValidBefore \in [Auths -> Nat]
  /\ MaxClock \in Nat
  /\ MinTtl \in Nat \ {0}
  /\ DefaultTtl \in MinTtl..MaxTtl
  /\ MaxTtl \in Nat
  /\ SettlementGate \subseteq BOOLEAN
  /\ OmitsTransaction \in BOOLEAN

VARIABLES
  \* Postgres and Redis
  receipt,    \* receipt[a]: the call_receipts row with payment_identifier a
  earnings,   \* earnings[a]: number of EARNING rows for that receipt
  lock,       \* lock[a]: expiry time of the Redis replay lock, 0 when absent
  \* the request handlers
  pc,         \* pc[r]: the await request r is at, or how it ended
  auth,       \* auth[r]: the authorization request r presents
  held,       \* requests whose insert returned a receipt id
  forwarded,  \* requests whose call reached the creator's upstream
  \* the facilitator, the chain and time
  facil,      \* facil[r]: what the facilitator did with the /settle of r
  chain,      \* chain[a]: "unused", "charged" to Metron, spent "elsewhere",
              \* or "cancelled" by the payer
  now,
  \* the recovery script
  rpc,        \* rpc[p]: "idle", "scan" (next receipt), "decide" (evidence read)
  todo,       \* todo[p]: pending receipts listed and not yet looked at
  cur,        \* cur[p]: the receipt being decided
  evidence    \* evidence[p]: the onchain evidence read for cur[p]

database == <<receipt, earnings>>
handlers == <<pc, auth, held, forwarded>>
outside  == <<facil, chain, now>>
recovery == <<rpc, todo, cur, evidence>>
vars == <<receipt, earnings, lock, pc, auth, held, forwarded, facil, chain,
          now, rpc, todo, cur, evidence>>

-----------------------------------------------------------------------------
(* PAYMENT_STATUS of lib/db/schema.ts; "NONE" is the absent row. *)
Status == {"NONE", "VERIFIED", "UPSTREAM_FAILED", "SETTLEMENT_PENDING",
           "SETTLED", "SETTLEMENT_FAILED"}

(* The columns the properties tell apart: upstream is upstream_status_code, *)
(* attempt says facilitator_response is set, error is error_code.           *)
Receipt == [status: Status,
            upstream: {"none", "2xx", "failed"},
            attempt: BOOLEAN,
            hash: BOOLEAN,
            error: {"none", "upstream", "attempt", "unknown", "rejected",
                    "expired_unused"}]

NoReceipt == [status |-> "NONE", upstream |-> "none", attempt |-> FALSE,
              hash |-> FALSE, error |-> "none"]

Waiting == {"precheck", "verify", "lock", "insert", "release", "upstream",
            "mark_upstream_failed", "mark_upstream_ok", "mark_pending",
            "settle", "await", "mark_failed", "mark_ambiguous", "apply",
            "deliver"}

(* replay: 409; refused: 400/402/503 before a receipt exists; withheld: any *)
(* answer without the resource after that.                                  *)
Ended == {"replay", "refused", "withheld", "delivered", "crashed"}

TypeOK ==
  /\ receipt \in [Auths -> Receipt]
  /\ earnings \in [Auths -> Nat]
  /\ lock \in [Auths -> Nat]
  /\ pc \in [Requests -> {"idle"} \cup Waiting \cup Ended]
  /\ auth \in [Requests -> Auths \cup {NoAuth}]
  /\ held \subseteq Requests
  /\ forwarded \subseteq Requests
  /\ facil \in [Requests -> {"none", "received", "charged", "declined"}]
  /\ chain \in [Auths -> {"unused", "charged", "elsewhere", "cancelled"}]
  /\ now \in Nat
  /\ rpc \in [Recoverers -> {"idle", "scan", "decide"}]
  /\ todo \in [Recoverers -> SUBSET Auths]
  /\ cur \in [Recoverers -> Auths \cup {NoAuth}]
  /\ evidence \in [Recoverers -> {"none", "settled", "not_found"}]

Init ==
  /\ receipt = [a \in Auths |-> NoReceipt]
  /\ earnings = [a \in Auths |-> 0]
  /\ lock = [a \in Auths |-> 0]
  /\ pc = [r \in Requests |-> "idle"]
  /\ auth = [r \in Requests |-> NoAuth]
  /\ held = {}
  /\ forwarded = {}
  /\ facil = [r \in Requests |-> "none"]
  /\ chain = [a \in Auths |-> "unused"]
  /\ now = 0
  /\ rpc = [p \in Recoverers |-> "idle"]
  /\ todo = [p \in Recoverers |-> {}]
  /\ cur = [p \in Recoverers |-> NoAuth]
  /\ evidence = [p \in Recoverers |-> "none"]

Goto(r, from, to) ==
  /\ pc[r] = from
  /\ pc' = [pc EXCEPT ![r] = to]

-----------------------------------------------------------------------------
(* Claiming the authorization: processSignedRequest. *)

(* A caller sends a signed request; nothing stops it from presenting the   *)
(* same authorization again, at the same time or later.                    *)
Arrive(r, a) ==
  /\ Goto(r, "idle", "precheck")
  /\ auth' = [auth EXCEPT ![r] = a]
  /\ UNCHANGED <<database, lock, held, forwarded, outside, recovery>>

(* Step 4.5: any receipt, in any state, means a known authorization. *)
Precheck(r) ==
  /\ Goto(r, "precheck",
          IF receipt[auth[r]].status = "NONE" THEN "verify" ELSE "replay")
  /\ UNCHANGED <<database, lock, auth, held, forwarded, outside, recovery>>

(* Step 5: the facilitator confirms only an unused authorization within its *)
(* validity; it may refuse, or be unavailable, at any time.                 *)
Verify(r) ==
  /\ \/ /\ Goto(r, "verify", "lock")
        /\ chain[auth[r]] = "unused"
        /\ now < ValidBefore[auth[r]]
     \/ Goto(r, "verify", "refused")
  /\ UNCHANGED <<database, lock, auth, held, forwarded, outside, recovery>>

(* Fault: the TTL ignores the authorization's deadline. *)
FixedLockTtl(deadline, t) == DefaultTtl

(* lockTtlSeconds: the remaining validity clamped to [MinTtl, MaxTtl]. *)
LockTtl(deadline, t) ==
  CASE deadline <= t -> DefaultTtl
    [] deadline > t /\ deadline - t < MinTtl -> MinTtl
    [] deadline > t /\ deadline - t > MaxTtl -> MaxTtl
    [] OTHER -> deadline - t

(* Step 6: SET NX EX; an expired key is an absent key. *)
AcquireLock(r) ==
  LET a == auth[r] IN
  /\ \/ /\ Goto(r, "lock", "insert")
        /\ lock[a] <= now
        /\ lock' = [lock EXCEPT ![a] = now + LockTtl(ValidBefore[a], now)]
     \/ /\ Goto(r, "lock", "replay")
        /\ lock[a] > now
        /\ UNCHANGED lock
  /\ UNCHANGED <<database, auth, held, forwarded, outside, recovery>>

(* Fault: no UNIQUE constraint on payment_identifier, the lock alone. *)
InsertWithoutUnique(r) ==
  /\ Goto(r, "insert", "upstream")
  /\ receipt' = [receipt EXCEPT ![auth[r]].status = "VERIFIED"]
  /\ held' = held \cup {r}
  /\ UNCHANGED <<earnings, lock, auth, forwarded, outside, recovery>>

(* Step 7: INSERT ... ON CONFLICT (payment_identifier) DO NOTHING. *)
InsertReceipt(r) ==
  LET a == auth[r] IN
  /\ \/ /\ Goto(r, "insert", "upstream")
        /\ receipt[a].status = "NONE"
        /\ receipt' = [receipt EXCEPT ![a].status = "VERIFIED"]
        /\ held' = held \cup {r}
     \/ /\ Goto(r, "insert", "release")
        /\ receipt[a].status # "NONE"
        /\ UNCHANGED <<receipt, held>>
  /\ UNCHANGED <<earnings, lock, auth, forwarded, outside, recovery>>

(* The loser of the insert deletes the lock key, whoever set it. *)
ReleaseLock(r) ==
  /\ Goto(r, "release", "replay")
  /\ lock' = [lock EXCEPT ![auth[r]] = 0]
  /\ UNCHANGED <<database, auth, held, forwarded, outside, recovery>>

-----------------------------------------------------------------------------
(* The upstream call: executeUpstream and markUpstreamResult. *)

(* The caller's body exceeds the limit: 413, the receipt stays VERIFIED. *)
RejectBody(r) ==
  /\ Goto(r, "upstream", "withheld")
  /\ UNCHANGED <<database, lock, auth, held, forwarded, outside, recovery>>

(* The composed request is rejected locally, or it is sent and fails, or it *)
(* is sent and answered 2xx.                                                *)
CallUpstream(r) ==
  /\ \/ /\ Goto(r, "upstream", "mark_upstream_failed")
        /\ UNCHANGED forwarded
     \/ /\ Goto(r, "upstream", "mark_upstream_failed")
        /\ forwarded' = forwarded \cup {r}
     \/ /\ Goto(r, "upstream", "mark_upstream_ok")
        /\ forwarded' = forwarded \cup {r}
  /\ UNCHANGED <<database, lock, auth, held, outside, recovery>>

(* Fault: no early return after the failure is recorded. *)
FailedUpstreamFallsThrough(r) ==
  /\ Goto(r, "mark_upstream_failed", "mark_pending")
  /\ receipt' = [receipt EXCEPT ![auth[r]] =
                  [@ EXCEPT !.status = "UPSTREAM_FAILED",
                            !.upstream = "failed", !.error = "upstream"]]
  /\ UNCHANGED <<earnings, lock, auth, held, forwarded, outside, recovery>>

MarkUpstreamFailed(r) ==
  /\ Goto(r, "mark_upstream_failed", "withheld")
  /\ receipt' = [receipt EXCEPT ![auth[r]] =
                  [@ EXCEPT !.status = "UPSTREAM_FAILED",
                            !.upstream = "failed", !.error = "upstream"]]
  /\ UNCHANGED <<earnings, lock, auth, held, forwarded, outside, recovery>>

(* After a 2xx the settlement switch is read; off means 501. *)
MarkUpstreamOk(r) ==
  /\ \E enabled \in SettlementGate :
       Goto(r, "mark_upstream_ok",
            IF enabled THEN "mark_pending" ELSE "withheld")
  /\ receipt' = [receipt EXCEPT ![auth[r]] =
                  [@ EXCEPT !.status = "VERIFIED", !.upstream = "2xx", !.error = "none"]]
  /\ UNCHANGED <<earnings, lock, auth, held, forwarded, outside, recovery>>

-----------------------------------------------------------------------------
(* The settlement attempt: runSettlementAttempt. *)

(* Fault: the status is written without the attempt metadata. *)
MarkPendingWithoutAttempt(r) ==
  /\ Goto(r, "mark_pending", "settle")
  /\ receipt' = [receipt EXCEPT ![auth[r]] =
                  [@ EXCEPT !.status = "SETTLEMENT_PENDING", !.error = "attempt"]]
  /\ UNCHANGED <<earnings, lock, auth, held, forwarded, outside, recovery>>

(* markSettlementPendingAttempt: the durable checkpoint before /settle. *)
MarkPending(r) ==
  /\ Goto(r, "mark_pending", "settle")
  /\ receipt' = [receipt EXCEPT ![auth[r]] =
                  [@ EXCEPT !.status = "SETTLEMENT_PENDING",
                            !.attempt = TRUE, !.error = "attempt"]]
  /\ UNCHANGED <<earnings, lock, auth, held, forwarded, outside, recovery>>

SendSettle(r) ==
  /\ Goto(r, "settle", "await")
  /\ facil' = [facil EXCEPT ![r] = "received"]
  /\ UNCHANGED <<database, lock, auth, held, forwarded, chain, now, recovery>>

(* Fault: a timeout is taken for a refusal. *)
HearTimeoutAsRefusal(r) ==
  /\ \/ facil[r] = "charged" /\ Goto(r, "await", "apply")
     \/ Goto(r, "await", "mark_failed")
  /\ UNCHANGED <<database, lock, auth, held, forwarded, outside, recovery>>

(* Fault: a timeout is taken for a success. *)
HearTimeoutAsSuccess(r) ==
  /\ \/ Goto(r, "await", "apply")
     \/ facil[r] = "declined" /\ Goto(r, "await", "mark_failed")
  /\ UNCHANGED <<database, lock, auth, held, forwarded, outside, recovery>>

(* settleVerifiedPayment classifies what it hears: a success with a hash is *)
(* settled; a refusal, or a success without a hash, is rejected; a timeout  *)
(* or any other error, at any time, is ambiguous.                           *)
HearSettle(r) ==
  /\ \/ /\ facil[r] = "charged"
        /\ Goto(r, "await", "apply")
     \/ /\ facil[r] = "charged"
        /\ OmitsTransaction
        /\ Goto(r, "await", "mark_failed")
     \/ /\ facil[r] = "declined"
        /\ Goto(r, "await", "mark_failed")
     \/ Goto(r, "await", "mark_ambiguous")
  /\ UNCHANGED <<database, lock, auth, held, forwarded, outside, recovery>>

(* markSettlementResult: the row is updated by id, whatever its status. *)
MarkSettlementResult(r, status, error) ==
  receipt' = [receipt EXCEPT ![auth[r]] =
               [@ EXCEPT !.status = status, !.hash = FALSE, !.error = error]]

MarkFailed(r) ==
  /\ Goto(r, "mark_failed", "withheld")
  /\ MarkSettlementResult(r, "SETTLEMENT_FAILED", "rejected")
  /\ UNCHANGED <<earnings, lock, auth, held, forwarded, outside, recovery>>

MarkAmbiguous(r) ==
  /\ Goto(r, "mark_ambiguous", "withheld")
  /\ MarkSettlementResult(r, "SETTLEMENT_PENDING", "unknown")
  /\ UNCHANGED <<earnings, lock, auth, held, forwarded, outside, recovery>>

(* Fault: no UNIQUE call_receipt_id behind the EARNING insert. *)
ApplySettledTwice(a) ==
  /\ receipt' = [receipt EXCEPT ![a] =
                  [@ EXCEPT !.status = "SETTLED", !.hash = TRUE, !.error = "none"]]
  /\ earnings' = [earnings EXCEPT ![a] = @ + 1]

(* applySettledSettlement: one transaction, SETTLED whatever the status was *)
(* and one EARNING unless the receipt has one already.                      *)
ApplySettled(a) ==
  /\ receipt' = [receipt EXCEPT ![a] =
                  [@ EXCEPT !.status = "SETTLED", !.hash = TRUE, !.error = "none"]]
  /\ earnings' = [earnings EXCEPT ![a] = IF @ = 0 THEN 1 ELSE @]

(* Fault: the caller is served although the transaction failed. *)
DeliverUnpersisted(r) ==
  /\ Goto(r, "apply", "deliver")
  /\ ApplySettled(auth[r]) \/ UNCHANGED database
  /\ UNCHANGED <<lock, auth, held, forwarded, outside, recovery>>

(* The gateway applies the settlement, or the transaction throws, with or   *)
(* without having committed, and the caller is told that the payment will  *)
(* be reconciled (persist_failed).                                         *)
PersistSettled(r) ==
  /\ \/ /\ Goto(r, "apply", "deliver")
        /\ ApplySettled(auth[r])
     \/ /\ Goto(r, "apply", "withheld")
        /\ ApplySettled(auth[r]) \/ UNCHANGED database
  /\ UNCHANGED <<lock, auth, held, forwarded, outside, recovery>>

(* The payout handoff before the delivery is best effort and never touches *)
(* the receipt or the outcome; Payouts.tla models it.                      *)
Deliver(r) ==
  /\ Goto(r, "deliver", "delivered")
  /\ UNCHANGED <<database, lock, auth, held, forwarded, outside, recovery>>

(* The process dies, or an await throws (a database error, a failed        *)
(* decryption): the handler is left where it is and nothing is undone.     *)
Crash(r) ==
  /\ pc[r] \in Waiting
  /\ pc' = [pc EXCEPT ![r] = "crashed"]
  /\ UNCHANGED <<database, lock, auth, held, forwarded, outside, recovery>>

-----------------------------------------------------------------------------
(* The world outside: facilitator, caller's wallet, time. *)

(* The facilitator submits the transfer; the chain accepts it once and only *)
(* before the deadline.  It may do so long after the gateway timed out.     *)
FacilitatorCharges(r) ==
  /\ facil[r] = "received"
  /\ chain[auth[r]] = "unused"
  /\ now < ValidBefore[auth[r]]
  /\ facil' = [facil EXCEPT ![r] = "charged"]
  /\ chain' = [chain EXCEPT ![auth[r]] = "charged"]
  /\ UNCHANGED <<database, lock, handlers, now, recovery>>

FacilitatorDeclines(r) ==
  /\ facil[r] = "received"
  /\ facil' = [facil EXCEPT ![r] = "declined"]
  /\ UNCHANGED <<database, lock, handlers, chain, now, recovery>>

(* The payer uses up the nonce with another transfer, or cancels it. *)
SpendElsewhere(a) ==
  /\ chain[a] = "unused"
  /\ \E use \in {"elsewhere", "cancelled"} : chain' = [chain EXCEPT ![a] = use]
  /\ UNCHANGED <<database, lock, handlers, facil, now, recovery>>

Tick ==
  /\ now < MaxClock
  /\ now' = now + 1
  /\ UNCHANGED <<database, lock, handlers, facil, chain, recovery>>

-----------------------------------------------------------------------------
(* Recovery: resolvePendingSettlements. *)

(* listPendingSettlementReceipts reads the pending rows once. *)
ListPending(p) ==
  /\ rpc[p] = "idle"
  /\ rpc' = [rpc EXCEPT ![p] = "scan"]
  /\ todo' = [todo EXCEPT ![p] =
       {a \in Auths : /\ receipt[a].status = "SETTLEMENT_PENDING"
                      /\ receipt[a].attempt}]
  /\ UNCHANGED <<database, lock, handlers, outside, cur, evidence>>

(* The resolver looks for an EIP-3009 AuthorizationUsed event: a Permit2   *)
(* transfer and a cancelled nonce emit none.                               *)
Evidence(a) ==
  IF a \in Permit2 \/ chain[a] \in {"unused", "cancelled"} THEN "not_found"
  ELSE IF chain[a] = "charged" THEN "settled" ELSE "conflict"

(* Fault: a conflict is handled like any other evidence. *)
ReadEvidenceWithoutConflict(p, a) ==
  /\ rpc[p] = "scan"
  /\ a \in todo[p]
  /\ todo' = [todo EXCEPT ![p] = @ \ {a}]
  /\ rpc' = [rpc EXCEPT ![p] = "decide"]
  /\ cur' = [cur EXCEPT ![p] = a]
  /\ evidence' = [evidence EXCEPT ![p] = Evidence(a)]
  /\ UNCHANGED <<database, lock, handlers, outside>>

(* A conflict leaves the receipt pending for the operator. *)
ReadEvidence(p, a) ==
  /\ rpc[p] = "scan"
  /\ a \in todo[p]
  /\ todo' = [todo EXCEPT ![p] = @ \ {a}]
  /\ IF Evidence(a) = "conflict"
     THEN UNCHANGED <<rpc, cur, evidence>>
     ELSE /\ rpc' = [rpc EXCEPT ![p] = "decide"]
          /\ cur' = [cur EXCEPT ![p] = a]
          /\ evidence' = [evidence EXCEPT ![p] = Evidence(a)]
  /\ UNCHANGED <<database, lock, handlers, outside>>

(* The RPC node fails: the receipt stays pending. *)
EvidenceUnavailable(p, a) ==
  /\ rpc[p] = "scan"
  /\ a \in todo[p]
  /\ todo' = [todo EXCEPT ![p] = @ \ {a}]
  /\ UNCHANGED <<database, lock, handlers, outside, rpc, cur, evidence>>

Decided(p) ==
  /\ rpc' = [rpc EXCEPT ![p] = "scan"]
  /\ cur' = [cur EXCEPT ![p] = NoAuth]
  /\ evidence' = [evidence EXCEPT ![p] = "none"]
  /\ UNCHANGED todo

RecoverSettled(p) ==
  /\ rpc[p] = "decide"
  /\ evidence[p] = "settled"
  /\ ApplySettled(cur[p])
  /\ Decided(p)
  /\ UNCHANGED <<lock, handlers, outside>>

(* Fault: the row is failed whatever its status became meanwhile. *)
MarkExpiredUnguarded(a) ==
  receipt' = [receipt EXCEPT ![a] =
               [@ EXCEPT !.status = "SETTLEMENT_FAILED", !.error = "expired_unused"]]

(* markPendingSettlementFailed: only a row that is still pending. *)
MarkExpired(a) ==
  receipt' = IF receipt[a].status = "SETTLEMENT_PENDING"
             THEN [receipt EXCEPT ![a] =
                    [@ EXCEPT !.status = "SETTLEMENT_FAILED", !.error = "expired_unused"]]
             ELSE receipt

(* Fault: an authorization without evidence is never given up. *)
KeepPending(p) ==
  /\ rpc[p] = "decide"
  /\ evidence[p] = "not_found"
  /\ Decided(p)
  /\ UNCHANGED <<database, lock, handlers, outside>>

(* The clock is read when the decision is made, after the evidence. *)
RecoverNotFound(p) ==
  /\ rpc[p] = "decide"
  /\ evidence[p] = "not_found"
  /\ IF ValidBefore[cur[p]] < now
     THEN MarkExpired(cur[p])
     ELSE UNCHANGED receipt
  /\ Decided(p)
  /\ UNCHANGED <<earnings, lock, handlers, outside>>

Reset(p) ==
  /\ rpc' = [rpc EXCEPT ![p] = "idle"]
  /\ todo' = [todo EXCEPT ![p] = {}]
  /\ cur' = [cur EXCEPT ![p] = NoAuth]
  /\ evidence' = [evidence EXCEPT ![p] = "none"]
  /\ UNCHANGED <<database, lock, handlers, outside>>

(* The list is done and the script ends; the operator may run it again. *)
FinishRecovery(p) ==
  /\ rpc[p] = "scan"
  /\ todo[p] = {}
  /\ Reset(p)

(* A database write throws, or the script is killed, half way. *)
AbortRecovery(p) ==
  /\ rpc[p] = "decide" \/ todo[p] # {}
  /\ Reset(p)

-----------------------------------------------------------------------------
Gateway(r) ==
  \/ \E a \in Auths : Arrive(r, a)
  \/ Precheck(r) \/ Verify(r) \/ AcquireLock(r)
  \/ InsertReceipt(r) \/ ReleaseLock(r)
  \/ RejectBody(r) \/ CallUpstream(r)
  \/ MarkUpstreamFailed(r) \/ MarkUpstreamOk(r)
  \/ MarkPending(r) \/ SendSettle(r) \/ HearSettle(r)
  \/ MarkFailed(r) \/ MarkAmbiguous(r) \/ PersistSettled(r) \/ Deliver(r)
  \/ Crash(r)

Outside ==
  \/ \E r \in Requests : FacilitatorCharges(r) \/ FacilitatorDeclines(r)
  \/ \E a \in Auths : SpendElsewhere(a)
  \/ Tick

Recovery(p) ==
  \/ ListPending(p)
  \/ \E a \in Auths : ReadEvidence(p, a) \/ EvidenceUnavailable(p, a)
  \/ RecoverSettled(p) \/ RecoverNotFound(p)
  \/ FinishRecovery(p) \/ AbortRecovery(p)

Next ==
  \/ \E r \in Requests : Gateway(r)
  \/ Outside
  \/ \E p \in Recoverers : Recovery(p)

Spec == Init /\ [][Next]_vars

(* The operator keeps running the script, and it is neither killed nor cut *)
(* off from the chain for ever at the same point; time passes.  Nothing is *)
(* assumed of callers, handlers or the facilitator.                        *)
RecoveryFairness ==
  /\ WF_vars(Tick)
  /\ \A p \in Recoverers :
       /\ WF_vars(ListPending(p))
       /\ WF_vars(FinishRecovery(p))
       /\ \A a \in Auths :
            /\ SF_vars(ReadEvidence(p, a))
            /\ SF_vars(cur[p] = a /\ RecoverSettled(p))
            /\ SF_vars(cur[p] = a /\ RecoverNotFound(p))

FairSpec == Spec /\ RecoveryFairness

-----------------------------------------------------------------------------
(* Properties *)

(* The same authorization cannot execute the economic flow twice           *)
(* (README.md:427): of all the requests that present it, one holds the     *)
(* receipt, one reaches the upstream and one is sent to /settle, although  *)
(* locks expire, are deleted by losers, and handlers crash anywhere.       *)
AtMostOnce ==
  \A r1, r2 \in Requests :
    auth[r1] = auth[r2] /\ auth[r1] # NoAuth =>
      /\ r1 \in held /\ r2 \in held => r1 = r2
      /\ r1 \in forwarded /\ r2 \in forwarded => r1 = r2
      /\ facil[r1] # "none" /\ facil[r2] # "none" => r1 = r2

(* Nobody is charged without service, and no charge is unknown to the      *)
(* database: when the authorization is charged, the upstream has answered  *)
(* 2xx and the durable attempt record written before /settle is there      *)
(* (settlement-flow.ts:53, "crash-safe checkpoint BEFORE /settle").        *)
ChargedAfterService ==
  \A a \in Auths :
    chain[a] = "charged" =>
      /\ receipt[a].upstream = "2xx"
      /\ receipt[a].attempt
      /\ receipt[a].status \in
           {"SETTLEMENT_PENDING", "SETTLED", "SETTLEMENT_FAILED"}

(* Creator credit and money agree: a SETTLED receipt, or any earning, means *)
(* the payer was charged; a SETTLED receipt has exactly one earning and a   *)
(* hash; no receipt ever has two earnings, whoever applied the settlement.  *)
CreditMatchesCharge ==
  \A a \in Auths :
    /\ earnings[a] \in {0, 1}
    /\ earnings[a] = 1 => chain[a] = "charged"
    /\ receipt[a].status = "SETTLED" => earnings[a] = 1 /\ receipt[a].hash

(* Once the resource was delivered, its receipt is and stays SETTLED with  *)
(* its hash: no recovery run working from a stale list or stale evidence   *)
(* may undo a settlement that a caller was served on.                      *)
DeliveredStaysSettled ==
  \A r \in Requests :
    pc[r] \in {"deliver", "delivered"} =>
      /\ receipt[auth[r]].status = "SETTLED"
      /\ receipt[auth[r]].hash
      /\ chain[auth[r]] = "charged"

(* While an authorization whose lifetime fits the TTL policy can still be  *)
(* charged, the Redis lock alone admits one request to the insert: its TTL *)
(* covers the remaining validity and only the loser of the insert, which   *)
(* cannot exist yet, deletes it (lockTtlSeconds, gateway-service.ts:99).   *)
LockExclusiveWhileValid ==
  \A r1, r2 \in Requests :
    /\ auth[r1] = auth[r2]
    /\ r1 \in held \/ pc[r1] \in {"insert", "release"}
    /\ r2 \in held \/ pc[r2] \in {"insert", "release"}
    /\ now < ValidBefore[auth[r1]]
    /\ ValidBefore[auth[r1]] <= MaxTtl
    => r1 = r2

(* A receipt follows the lifecycle of docs/agent-state/project-state.md:84; *)
(* a failed settlement may still be found settled.  The one step outside it *)
(* is the unconditional last write of the handler that holds the receipt   *)
(* and withholds the resource (receipts.ts:107), and when the facilitator  *)
(* names its transactions that write leads to a SETTLEMENT_PENDING row     *)
(* that the recovery query finds: a settlement once recorded is never      *)
(* turned into a failure or made invisible, by handler or recovery run.    *)
Lifecycle ==
  {<<"NONE", "VERIFIED">>, <<"VERIFIED", "UPSTREAM_FAILED">>,
   <<"VERIFIED", "SETTLEMENT_PENDING">>, <<"SETTLEMENT_PENDING", "SETTLED">>,
   <<"SETTLEMENT_PENDING", "SETTLEMENT_FAILED">>, <<"SETTLEMENT_FAILED", "SETTLED">>}
LastWrite(a) ==
  \E r \in held :
    auth[r] = a /\ pc[r] \in {"mark_failed", "mark_ambiguous"} /\ pc'[r] = "withheld"
LifecycleStep ==
  \A a \in Auths :
    LET s == receipt[a].status
        t == receipt'[a].status IN
    s # t /\ <<s, t>> \notin Lifecycle =>
      /\ LastWrite(a)
      /\ ~OmitsTransaction => t = "SETTLEMENT_PENDING" /\ receipt'[a].attempt
StatusFollowsLifecycle == [][LifecycleStep]_vars

(* When the facilitator names its transactions, a charge stays visible to  *)
(* recovery: the receipt is SETTLED, or SETTLEMENT_PENDING with the attempt *)
(* record that the recovery query asks for.  The one exception is a receipt *)
(* that recovery itself closed as expired (see ExpiredMeansUnused).         *)
ChargeStaysRecoverable ==
  ~OmitsTransaction =>
    \A a \in Auths :
      chain[a] = "charged" =>
        \/ receipt[a].status = "SETTLED"
        \/ receipt[a].status = "SETTLEMENT_PENDING" /\ receipt[a].attempt
        \/ receipt[a].error = "expired_unused"

(* Under the same conditions the creator is credited for every charge in   *)
(* the end, wherever the handler stopped.                                  *)
ChargeEventuallyCredited ==
  \A a \in Auths :
    chain[a] = "charged" ~>
      earnings[a] = 1 \/ receipt[a].error = "expired_unused"

(* A pending settlement whose deadline passes does not stay pending for    *)
(* ever, unless the payer spent the nonce on something else, which is left *)
(* to the operator.                                                        *)
PendingEventuallyResolved ==
  \A a \in {b \in Auths : ValidBefore[b] < MaxClock} :
    receipt[a].status = "SETTLEMENT_PENDING" /\ receipt[a].attempt
      ~> receipt[a].status # "SETTLEMENT_PENDING" \/ chain[a] = "elsewhere"

(* receipts.ts:139: "A crash cannot produce ... an earning without the     *)
(* SETTLED receipt."                                                       *)
EarningHasSettledReceipt ==
  \A a \in Auths : earnings[a] > 0 => receipt[a].status = "SETTLED"

(* reconcile-pending.ts:9: "authorization expired unused ->                *)
(* SETTLEMENT_FAILED".                                                     *)
ExpiredMeansUnused ==
  \A a \in Auths :
    receipt[a].error = "expired_unused" => chain[a] # "charged"

(* Settlement implements PaymentPromise: inserting the receipt claims the  *)
(* authorization, the transfer charges it, the EARNING row credits it, the *)
(* 2xx answer with the upstream's body serves the caller.                  *)
PhaseOf ==
  [a \in Auths |-> IF chain[a] = "charged" THEN "charged"
                   ELSE IF receipt[a].status = "NONE" THEN "open" ELSE "claimed"]
ServedOn == [a \in Auths |-> {r \in Requests : pc[r] = "delivered" /\ auth[r] = a}]

Promise == INSTANCE PaymentPromise WITH
  phase <- PhaseOf, credits <- earnings, served <- ServedOn

ImplementsPromise == Promise!PromiseSpec
=============================================================================
