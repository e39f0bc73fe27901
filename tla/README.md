# Metron in TLA+

Metron is an x402 payment gateway: a developer publishes an HTTP endpoint with a
price, a caller pays for each request with a signed USDC authorization on Celo,
Metron forwards the request, settles the payment through a facilitator, credits
the developer and pays the earning out from its own wallet. This directory holds
TLA+ models of the parts where money can be lost or counted twice, and of what a
creator goes through before that: signing in, publishing endpoints, testing and
editing them. It holds the TLC runs that check the models on small instances, and
TLAPS proofs.

Paths below are relative to the repository.

## 1. The system

| Component | State | Operations | What makes it hard |
|---|---|---|---|
| **Gateway request path** `app/p/[...proxy]/route.ts`, `lib/endpoints/gateway-service.ts`, `lib/gateway/*` | `call_receipts` row for each payment identifier, Redis replay lock | precheck, `/verify`, lock, insert, upstream call, durable pending, `/settle`, final write, delivery | an await between any two steps; duplicate requests; expiring locks; late facilitator answers; crashes |
| **Settlement recovery** `lib/recovery/*`, `lib/db/settlement-recovery.ts` | none of its own | list pending, read onchain evidence, apply or close | stale lists and evidence, several runs at once, the handler still running |
| **Creator ledger** `lib/db/ledger.ts`, `lib/ledger/*` | `creator_ledger_entries` | EARNING with the settlement; backfill; totals | one earning for each settled receipt |
| **Creator payouts** `lib/payouts/*`, `lib/db/payouts.ts` | `payouts` rows, wallet nonce, wallet lock | handoff, broadcast, confirmation; a sweep nobody calls | nonce collisions, ambiguous broadcasts, misread receipts |
| **Payout recovery** `lib/payouts/reconcile.ts` | none of its own | list non-final, examine receipt, finalize or fail | false negatives, late writes of workers |
| **Rate limiter** `lib/ratelimit/*` | Redis counters | INCR, EXPIRE once or twice, DEL | the process or Redis failing between two commands |
| **Authentication** `lib/auth/*`, `lib/db/developers.ts`, `components/auth/*` | nonces, sessions, developers; in the browser the sign-in dialog, the cookie and the cached `/api/me` | challenge, verify, me, logout; the wallet guard | single use, first sign-in race, a wallet switched while requests are under way |
| **Endpoint management** `lib/endpoints/service.ts`, `lib/db/routes.ts`, `app/api/endpoints/*`, `components/dashboard/endpoint-detail.tsx`, `publish-form.tsx` | `proxy_routes` rows; in the browser a cached view, an edit form, an optimistic switch | create, list, GET, PATCH, DELETE | slug race, forms older than the row, updates in either order |
| **OpenAPI import** `lib/openapi/*`, `app/api/openapi/*`, `components/dashboard/openapi/*` | none on the server; in the browser the flow from text to results | parse, publish, retry | half-published imports, lost answers, files read while a text is parsed |
| **Upstream transport and SSRF checks** `lib/gateway/upstream-*.ts`, `lib/ssrf/*` | one call | validate, resolve again, pinned request | DNS that changes its answer, a timer racing the response |
| **Test console** `lib/testconsole/*`, `app/api/endpoints/test`, `upstream-test-console.tsx` | none on the server; in the browser the result shown | one test | every stage may fail, and the classification must say which |
| x402 codecs, SIWE text, cryptography, delivery, logging, read-only views, marketing UI, scripts | none | pure functions or I/O | not concurrent |

How they interact: the request path and recovery share the receipts and the
ledger in Postgres, and the chain through the facilitator; the request path calls
the payout handoff after a settlement and waits for it before it answers; the
handoff and payout recovery share the `payouts` table, the wallet lock in Redis and
the nonce of the one payout wallet. `requestPayout`, the sweep over a creator's
outstanding earnings, is exported and tested but has no caller since
`POST /api/payouts` was removed; `Payouts` models it, `Metron` does not use it.
`scripts/reconcile-ledger.ts` runs the ledger backfill, settlement recovery and
payout recovery in that order. The dashboard reaches the rest through JSON routes
behind the session cookie: sign-in creates the session; the publish form and the
import create rows of `proxy_routes`, which the gateway reads for each request;
the endpoint's page edits and retires them, and its console sends a test through
the rate limiter, the URL checks and the upstream transport of the gateway.

`PROJECT.json` lists each component with its status, and every hazard with the
properties that cover it or the reason none does.

## 2. The modules

| Module | Content |
|---|---|
| `PaymentPromise` | abstract: an authorization is claimed, charged, credited and served, each at most once and in that order |
| `Settlement` | request path, facilitator, chain, clock and settlement recovery; implements `PaymentPromise` |
| `MCSettlement` | instances for TLC |
| `SettlementProofs` | the inductive invariant and the theorems about `Settlement` |
| `PayoutPromise` | abstract: an earning is reserved once, at most one transfer pays it, released only if none does |
| `Payouts` | handoff, sweep, wallet lock, broadcast, chain and payout recovery; implements `PayoutPromise` |
| `MCPayouts` | instances for TLC |
| `PayoutProofs` | the inductive invariant and the theorems about `Payouts` |
| `MetronPromise` | abstract: the payer's leg, the creator's leg, and that an earning is reserved only after it was credited |
| `Metron` | `Settlement` and `Payouts` composed: one handler settles, hands over its earning and answers; implements `MetronPromise` |
| `MetronProofs` | that the composition implements both halves, its invariant and its theorems |
| `Authentication` | nonces, verification statement by statement, developers, sessions |
| `SignIn` | browsers over `Authentication`: dialog, cookie, cached `/api/me`, sign-out, wallet guard; implements `SignInPromise` |
| `SignInPromise` | abstract: a nonce is claimed once, and each session uses up a claim of the wallet that signed |
| `SignInProofs` | the inductive invariant and the theorems about `SignIn` |
| `Endpoints` | creating routes on the server: slug check and insert in two steps, the publish loop |
| `OpenApi` | what a document parses to: the server URL and the status of each operation |
| `ImportFlow` | the import in one browser tab, over `Endpoints` and `OpenApi` |
| `Publishing` | `ImportFlow` beside the publish form of another creator; implements `PublishingPromise` |
| `PublishingPromise` | abstract: an order founds at most one route, as placed, and its slug is told to the creator who placed it |
| `PublishingProofs` | the inductive invariants and the theorems about `Publishing` |
| `PublishingRefinement` | the proof that `Publishing` implements `PublishingPromise` |
| `RateLimiter` | the fixed window, one action for each Redis command |
| `Upstream` | URL checks and one pinned call |
| `TestConsole` | panel and route of a test, over `RateLimiter` and `Upstream` |
| `EndpointPage` | the page of one endpoint and its row, with the test console |
| `EndpointPageProofs` | the inductive invariant and the theorems about `EndpointPage` |
| `MCMetron`, `MCSignIn`, `MCPublishing`, `MCRateLimiter`, `MCEndpointPage` | instances for TLC |

### Settlement

A process `r \in Requests` is one call of `handleResourceRequest`; `pc[r]` is the
await it is at. An authorization stands for its payment identifier
(`lib/x402/payment-id.ts`), the key of the receipt, of the lock and, through the
receipt, of the earning.

| Variable | In the code |
|---|---|
| `receipt[a]` | the `call_receipts` row: `status`, `upstream` (`upstream_status_code`), `attempt` (`facilitator_response` holds the attempt record), `hash` (`x402_tx_hash`), `error` (`error_code`) |
| `earnings[a]` | number of EARNING rows of that receipt |
| `lock[a]` | expiry of `payment-lock:<identifier>`; a key whose time has come is absent |
| `held`, `forwarded` | history: whose insert returned an id, whose call reached the upstream |
| `facil[r]`, `chain[a]`, `now` | the facilitator's handling of the `/settle` of `r`, the authorization onchain, time |
| `rpc`, `todo`, `cur`, `evidence` | a run of `resolvePendingSettlements`: the list it read once, the receipt it decides, the evidence it read |

The actions follow the order of the code: `Arrive`, `Precheck`, `Verify`,
`AcquireLock`, `InsertReceipt` (the loser goes to `ReleaseLock`), `RejectBody` or
`CallUpstream`, `MarkUpstreamFailed` or `MarkUpstreamOk`, `MarkPending`,
`SendSettle`, `HearSettle`, then `MarkFailed`, `MarkAmbiguous` or
`PersistSettled`, and `Deliver`. `Crash(r)` stops the handler at any await: the
process died, or a database call threw; the code undoes nothing in either case.
The final transaction may throw after having committed (`PersistSettled`).

The facilitator and the chain are external. The chain accepts an authorization
once and before its deadline; the facilitator may charge long after the gateway
gave up waiting; the payer may use the nonce up elsewhere or cancel it
(`SpendElsewhere`; a cancelled one leaves no event, so recovery finds nothing).
`OmitsTransaction`
says whether the facilitator may report success without a transaction hash.

Recovery is split at its awaits. `ReadEvidence` and the decision are two steps,
so the chain, the clock and a handler step in between.

### Payouts

A worker `w` is one invocation of `attemptPayoutForReceipt` or `requestPayout`.
`ledger` is the set of EARNING rows; `Earn` adds one, as a settlement does, and
only rows of the ledger are reserved.
`payout[e]` is the row with `ledger_entry_id` e. A transaction is a record
of what it pays, its nonce and its fee; signatures are deterministic, so the
record stands for its hash, and two payouts of one price to one creator with the
same nonce and fee are the *same* transaction. `sent` are the transactions the
network may know, `succeeded` and `reverted` those in a block.

`AcquireWalletLock` fails open as `withPayoutWalletLock` does: a contended lock
does not stop the broadcast. `Unlock` is the compare-and-delete, which Redis may
miss. `MarkSubmitted` is the checkpoint before the broadcast; the unique index on
`tx_hash` disables it for the hash of another row, and the insert error is
`Throw`. `Broadcast` either reports success or fails with the network having
seen the transaction or not. `AwaitReceipt` covers the poll with its timeout; `Assessments`
is what `assessPayoutConfirmation` may answer, to a worker or to recovery, a mined
transfer whose log is not found (`Misread`) included. `StaleNode` lets an RPC node
report a nonce that ignores pending transactions or lags behind the chain;
`LockDegrades` lets Redis fail and the lock's TTL run out under its
holder. Recovery examines the hash it *listed* and writes in a later step.

### Metron

`Metron` extends `Settlement` and instantiates `Payouts` with the authorizations as
earnings, the requests as workers and, as the ledger, the authorizations whose
`earnings` count is 1. The two halves meet where the code makes them meet:

- a step of `Settlement` that writes an EARNING row is an `Earn` of `Payouts`;
- `HandOver(r)` is the call of `attemptPayoutForReceipt` in the settled branch of
  the route, with the receipt of that request; `Attempt(r)` are its steps;
- `DeliverResource(r)` answers the caller once the attempt is over, however it
  ended; `Die(r)` kills handler and attempt together.

`PayoutGate` holds the values `PAYOUTS_ENABLED` may take. The passes of the
recovery script over settlements (`Settle`) and over payouts (`Disburse`) are
taken one by one and may overlap, which admits more than one run of the script.

### Authentication and SignIn

A verification `v` is one `POST /api/auth/verify`; `step[v]` is the statement it
is at: `ConsumeNonce` (GETDEL, together with the field and signature checks, which
read nothing shared), `SelectDeveloper`, `InsertDeveloper` (ON CONFLICT DO NOTHING,
then the winner's row), `CreateSession`. `EndVerification` is the end of the
handler, its death included. A message is what the server put into it: a nonce and
a wallet; a signature is who signed.

In the browser, `flow[b]` is RainbowKit's dialog over Metron's adapter
(`CreateMessage`, `Challenge`, `SendVerify`, then `Verified`, `Refused` or
`VerifyLost`), `data[b]` and `me[b]` are the react-query cache of `/api/me` and
the request that refreshes it, `out[b]` the logouts under way, `handled[b]` the
ref of `useWalletAuthGuard`. Wallet, dialog and user are external and may act at
any time; `Tick` ages every key and cookie. What the buttons show (`ConnectPill`,
`Badge`, `AuthCta`) decides what may be clicked.

### Endpoints, OpenApi, ImportFlow and Publishing

`routes` is `proxy_routes` by its UNIQUE slug. A request `r` creates the operations
of its batch one after the other: `Create` is the read that found a free slug,
`InsertRoute` the insert that the index may refuse, `InsertUnheard` an insert that
was committed although the database's answer was lost, `CreateFails` every
refusal before that. The requests of the import and of the form interleave at
each of them, and the process may die between (`RequestOver`).

`OpenApi` maps a document to the status of its operations (ready, base URL unset,
blocked), in the order of the checks of the code. `ImportFlow` has one action per
handler of the four screens: `UpdateSpec`, `PickFile`, `FileRead`, `RunParse`,
`ParseAnswered`; the selection and the base URL; `ApplyBatch`, `UpdateRow`,
`Proceed`; `RunPublish`, `RunRetry`, `ResultsReceived`, `PublishRefused`,
`AnswerLost`; `ResetFlow`, `LeavePage`. An answer may be lost at any time, after
which the server goes on with the batch. `doubt` is history: the operations about
which an answer was lost; nothing the browser could check tells it whether their
routes exist. `reading` are the chosen files that are still being read: a second
one may be chosen meanwhile, and the last read to end is what the box holds.

### RateLimiter, Upstream, TestConsole and EndpointPage

`asking[c]` is the Redis command a caller of `checkRateLimit` is at; a counter is
compared with 1 and the limit only, so it stops at the first value above the
limit. `Interrupted` (death between two commands, a lost reply to INCR, a failing
DEL) is part of `LimiterSpec` and not of the test console's use of the limiter:
see `limiter_stale` below.

`Upstream` keeps of a URL and of an answer what the checks tell apart. DNS is
asked at validation (`UrlIssue`) and again before the call (`Resolve`), each time
with any outcome, a mixture of public and private addresses included; the
connection (`Dial`) is a later step, in which a transport that went by name would
ask a third time (the fault `DialByName`). That it goes by the address `pinned`
before is what `PublicDestination` rests on. `Transport` is the rest of the call:
the response, its failures and the timer. These are events of their own: after the
timer has fired, an end or an error on its way is still delivered, and `Settle`
drops it.

`TestConsole` follows one test from the panel through `POST /api/endpoints/test`:
`RefuseTest`, `AskForTest`, `HearVerdict`, `LoadTarget`, `CheckTest`, `ExecuteTest`,
`ConcludeTest` (of a result or of an execution that threw), `ShowTest` or, when the
panel is gone, `ForgetTest`. `EndpointPage` adds the page: `view` is the cached answer
of GET, `form` what the edit form was opened on, `update` the one mutation that the
form and the switch share, `retire` the two-click retirement. `row` is the stored
endpoint, which `Elsewhere` (other tabs of the creator) may change at any time.

Definitions under a comment that begins with "Fault:" are not part of the
specifications. They are plausible bugs, and substituting one for the definition
that follows it breaks the property named in `PROJECT.json`.

## 3. The runs

| Run | Instance | Checks |
|---|---|---|
| `settlement_core` | 3 requests with 1 authorization, 2 recovery runs, deadline 3, clock to 5, TTL 2..3, settlement on and off, hash omitted or not | type, `AtMostOnce`, `ChargedAfterService`, `CreditMatchesCharge`, `DeliveredStaysSettled`, `LockExclusiveWhileValid`, `ImplementsPromise` |
| `settlement_recovery` | 2 requests, 1 authorization, 2 recovery runs, deadline 1, clock to 2, fairness | `ChargeStaysRecoverable`, `StatusFollowsLifecycle`, `ChargeEventuallyCredited`, `PendingEventuallyResolved` |
| `settlement_late_write` | 1 request, 1 recovery run | finding: `EarningHasSettledReceipt` |
| `settlement_permit2` | 1 request with a Permit2 authorization | finding: `ExpiredMeansUnused` |
| `payouts_core` | 2 earnings of one creator at one price, 2 workers, 2 recovery runs, 2 fees, every fault on | type, `OnePayoutPerEarning`, `TransferIsOnRecord`, `StatusIsTruthful`, `HashIsFinal`, `ImplementsPromise` |
| `payouts_recovery` | 2 earnings, 1 worker, 1 recovery run, fairness | `PaidEventuallyConfirmed` |
| `metron` | 2 requests over 2 authorizations, 1 recovery run, the clock at 0, payouts on and off, the faults of both halves on but a degrading lock; fair handlers | `TransfersAreFunded`, `PaysItsOwnEarning`, `ImplementsEconomy`, `SettledIsDelivered` |
| `metron_unpaid` | 1 request, 1 recovery run, payouts on; fair handlers and recovery | finding: `CreditGetsPayoutRecord` |
| `sign_in` | 1 browser, 2 wallets, 2 nonces, 2 tokens, 2 verifications, 2 requests in flight, TTLs of 1 tick | type, `NonceOpensOneSession`, `SessionIsSigned`, `SignInShows`, `ImplementsPromise` |
| `publishing` | an import of 2 operations and a form of another creator, 2 slugs, 2 requests, 2 texts | type, `PoweredUrlIsMine`, `AtMostOneRoute`, `ResultsAreTrue`, `NeverShipsUnresolved`, `ReviewsTheTextShown`, `ImplementsPromise` |
| `endpoint_page` | 1 endpoint, the page and other tabs, 2 clients of the limiter, 1 header name | type, `NoCounterWithoutTtl`, `PublicDestination`, `ResultIsTruthful`, `UntouchedCredentialStays`, `SaveNeverRevives` |
| `limiter_stale` | 2 clients, limit 1, interruptions | finding: `NoCounterWithoutTtl` |

**Bounds.** Authorizations do not interact (receipt, lock, earning and chain state
are keyed by the authorization), so one is enough; the proofs below hold for any
number. Three requests are the fewest with which a loser of the insert deletes the
lock of a *third* request. Two recovery runs show them racing one another and a
handler. The clock (`MaxClock`) passes the deadline and both ends of the TTL
clamp. In `Payouts`, two earnings with equal payee and price are the hard case:
two transfers may be the same transaction, or rivals for a nonce. Handlers and
workers are finite in number, which stands for the number of *concurrent*
invocations; a worker returns to `idle` and may start again.

In `metron`, two authorizations put a second earning beside the one a handler
settled: a handoff of whatever is outstanding would take both, which is what
`PaysItsOwnEarning` forbids. The two requests may also present one authorization.
To pay for the second earning, the clock stands still (no receipt expires), the wallet
lock does not degrade, and `MCBound` lets one request at a time be on its way to
`/settle` and no authorization be spent elsewhere; `settlement_core` and
`payouts_core` explore these, and the theorems about `Metron` hold without them.
`MCBound` cuts off no step whose fairness `SettledIsDelivered` assumes: these steps
start after `/settle` and lead to no state outside it. The type invariant of
`Metron` is proved only, as the types of both halves are checked by their own runs.

In `sign_in`, two wallets are what a switch needs, two nonces and verifications
what a race needs, and a key's life of one tick lets every key expire at every
step. `MCInFlight` bounds the requests under way in the browser to two, a lost
`/api/me` counting until it is repeated. `SignInShows` speaks of a cookie
that opens a session. Of a page whose session ended elsewhere or expired nothing is
claimed: it goes on showing the wallet until it asks `/api/me` again.

In `publishing`, two slugs for three
operations make creations meet; one operation names its own server, the other
needs the base URL; one of the texts has no operations. `MCBound` admits two
requests or file reads at a time, a credential for one operation, and a lost
answer about one operation. In `endpoint_page`, the page has at most two requests
under way, and tests run while the page is at rest: a test reads the row in one
step and nothing of the page, and the page reads nothing of a test. The creator
may leave the page at any time, a test or a DELETE under way or not; what is under
way then ends before the page is opened again. This last bound is a guard of
`OpenPage`; the theorems of section 5 hold without any of the others.

**Symmetry** is declared in safety runs only.

**Deadlock** is checked in every run. Recovery may always be run again, so no
state is a dead end; in the dashboard's models the user may always go on.

**Fairness.** The models of the dashboard check safety and state none. In
`Settlement` and `Payouts`, nothing is assumed of callers, handlers, workers, the
facilitator or the chain: they may stop anywhere. `Metron` assumes of a handler
that has settled that it goes on (weak fairness of handing over, of the attempt's
next step and of the delivery taken together, `HandlerFairSpec`): every await of the
attempt ends in an answer, an error or the 90 seconds of the receipt poll. It may
still die, and `SettledIsDelivered` says so. The other liveness properties, and
`metron_unpaid` (`MetronFairSpec`), assume that the
operator keeps running the recovery script (weak fairness of listing and
finishing), that time passes, and that a run is not killed, and the RPC node not
unreachable, for ever at the same point (strong fairness of reading evidence and
of the decision, since an abort disables them). This is how
`docs/production-readiness.md` describes the script: three idempotent passes
that an operator reruns.

## 4. Disagreements with the text

Four statements of comments or documents do not hold of the code and have a run each.

1. *"A crash cannot produce ... an earning without the SETTLED receipt"*
   (`lib/db/receipts.ts:139`). `markSettlementResult` (line 107) is unconditional:
   a handler whose `/settle` timed out writes SETTLEMENT_PENDING over the SETTLED
   of a recovery run. The next recovery run repairs it
   (`ChargeEventuallyCredited` holds).
2. *"authorization expired unused → SETTLEMENT_FAILED"*
   (`lib/recovery/reconcile-pending.ts:9`). The resolver looks for an EIP-3009
   event; Permit2 payloads are accepted and emit none, so a charged one is closed
   as unused.
3. *"After a successful x402 settlement, Metron creates a creator payable and
   attempts a USDC transfer"* (`docs/metron-PRD.md:220`; the earnings page repeats it,
   `earnings-overview.tsx:234`). Only the handler attempts it. If the handler dies
   or withholds after the charge, recovery settles the receipt and credits the
   earning (`reconcile-pending.ts:97`) and hands nothing over; payout recovery starts
   from rows of `payouts`; the sweep has no caller. The earning stays unpaid for
   ever, with payouts enabled and the operator recovering all the time.
4. *"a counter can never accumulate without a TTL"*
   (`docs/production-readiness.md:34`, `lib/ratelimit/limiter.ts:4`). It can, when the
   process dies between INCR and EXPIRE, the reply to INCR is lost, or EXPIRE and
   the DEL that should undo the counter both fail (`limiter.ts:87`): later INCRs find
   a count above 1 and set no TTL either, and the bucket is rejected from then on.
   Without such an interruption it holds (`endpoint_page`, and by proof).

Five more were met while modelling and have no run, since no state of a model is
needed to see them:

- *"reverted → FAILED (reservation released)"* (`lib/payouts/reconcile.ts:7`). The row
  keeps its hash (`lib/db/payouts.ts:238`) and a FAILED row with a hash counts as
  reserved (`accounting.ts:42`).
- *"so a concurrent submission cannot interleave and nonce-collide"*
  (`lib/payouts/instance.ts:83`). A contended lock is ignored (`wallet-lock.ts:52`). The
  collision costs a transfer, not money: `payouts_core` includes it, and
  `TransferIsOnRecord` and `ImplementsPromise` hold and are proved.
- `components/dashboard/endpoint-detail.tsx:400` announces *"refetch on failure to
  resync"*; `onError` puts the old view back and fetches nothing. After a lost answer
  the switch may show a status the server does not have until the next refetch.
- `app/api/endpoints/[id]/route.ts:82` turns the null with which the form clears a
  description into "not given": a description cannot be removed.
- `endpoint-detail.tsx:340` compares the form's auth type with the view at save
  time, not with the one the form was opened on. If a refetch has shown a credential
  that another tab stored, an untouched "none" deletes it. `UntouchedCredentialStays`
  excludes that case by name (`Touched`) and holds of all others.

## 5. The proofs

`SettlementProofs` proves, for all values of the constants allowed by
`SettlementConstants` (any sets of requests, authorizations and recovery runs, any
deadlines and TTLs), that `Spec` implies

- `[]TypeOK`, `[]AtMostOnce`, `[]ChargedAfterService`, `[]CreditMatchesCharge`,
  `[]DeliveredStaysSettled`, `StatusFollowsLifecycle`;
- `[]LockExclusiveWhileValid` and `[]ChargeStaysRecoverable`;
- `ImplementsPromise`: initial states map to initial states and every step to a
  step of `PaymentPromise` or a stutter (`KeepsPromise`).

The properties are not inductive: `AtMostOnce`, for one, speaks of who was sent to
`/settle` but not of who may still be. The inductive invariant `Inv` adds, for each
position of a handler, what it has already achieved: a handler past the insert is
the holder of its receipt; the receipt's columns are those its position implies
or those recovery may have written since; the facilitator has received only what
was recorded pending; evidence "settled" in the hands of a recovery run, and a
handler about to apply a settlement, imply that the chain holds the charge. The
holder is unique since the insert requires an absent row. `InvInit` and `InvNext`
(one step per action) give `Invariance`; the theorems follow from it.

Two properties have an invariant of their own on top of `Inv`. `LockCovers`: while
an authorization can still be charged, at most one request is past the lock and
the lock outlives the deadline, so the loser of an insert, who would delete the
lock of another, cannot exist yet. `StaysRecoverable`: `mark_failed` is reached only
after the facilitator has declined, if it names its transactions, so no handler
closes the receipt of a charge.

`StatusFollowsLifecycle` says of every step that a receipt moves along the lifecycle
of `docs/agent-state/project-state.md`, but for one write. The code does have such a
write: `markSettlementResult` updates by id, so a handler whose `/settle` timed out
puts SETTLEMENT_PENDING over the SETTLED of a recovery run (section 4, item 1). The
property bounds the damage: only the handler that holds the receipt does this, by its
last write, and if the facilitator names its transactions the row it leaves is
one that the recovery query lists. The proof goes by handler steps
(`LifecycleByHandler`) and recovery steps (`LifecycleByRecovery`), and uses
`StaysRecoverable`.

`PayoutProofs` proves, for all values of the constants allowed by
`PayoutConstants` (any sets of earnings, payees, workers and recovery runs, any
fees, any of the faults), that `Spec` of `Payouts` implies

- `[]TypeOK`, `[]OnePayoutPerEarning`, `[]TransferIsOnRecord`,
  `[]StatusIsTruthful`, `HashIsFinal`;
- `ImplementsPromise`: every step is a step of `PayoutPromise` or a stutter
  (`KeepsPromise`).

Again the properties need strengthening: that a mined transfer belongs to one
payout does not by itself exclude a worker that is about to overwrite the hash.
The parts of `Inv` beside the type are

- `Positions`: at each await, what the row of the payout in hand and the
  transaction in memory look like; in particular a worker before the checkpoint has
  a PENDING row without a hash, and one after it the row with its own hash;
- `Exclusive`: a reserved payout is queued by, or in the hands of, one worker, so
  nobody else writes that row before the checkpoint;
- `Recorded`: hashes are unique, were written before the network saw the
  transaction, and CONFIRMED rows have a mined one;
- `Learnt`: a hash a recovery run has listed is still that row's, which is why its
  late write, unguarded in the code, is correct.

The wallet lock and the choice of nonces play no part in the proof: that an
earning is paid at most once rests on the reservation, the checkpoint and the
unique `tx_hash` alone.

`MetronProofs` proves, for all values of the constants allowed by
`SettlementConstants` and `MetronConstants`, that `MetronSpec` implies

- `Spec` of `Settlement` and `Spec` of `Payouts` (`SettlesAsSpecified`,
  `PaysOutAsSpecified`), so that every theorem about either half holds of the whole;
- `[]MetronTypeOK`, `[]PaysItsOwnEarning`, `[]TransfersAreFunded`;
- `ImplementsEconomy` (`KeepsEconomy`).

The first two are step simulations. `SettlementStep`: a step of Metron is a step of
`Settlement` or leaves its variables alone. `PayoutStep`: it is a step of `Payouts`
or leaves its variables alone, where a settlement that writes the EARNING row is
`Earn` (`EarningWritten`, `EarningsReachPayouts`); this needs `CreditMatchesCharge`,
since a second EARNING row for one authorization would take it out of the ledger
again. The invariant `MInv` is the conjunction of the two halves' own invariants
with `Paying` (a payout under way belongs to a handler that has settled, holds the
receipt and has not answered, and is about its own earning) and `HandedOver` (every
row of `payouts` is of an authorization whose holder handed it over). Neither half
can state these. `TransfersAreFunded` follows with no further induction: a transfer
has its row (`Payouts`), the row an EARNING (`PP!Booked`: what is reserved is in
the ledger, proved in `PayoutProofs`), the EARNING a charge (`Settlement`). For
the refinement, each step moves one leg only (`OneLegAtATime`), the steps of the legs
are those that `KeepsPromise` of each half found (both proofs have that step as the
lemma `StepKeepsPromise`), and a reservation is of credited earnings
(`ReservesCredited`).

`SignInProofs` proves, for any browsers, wallets, nonces, tokens and verifications
allowed by `AuthConstants` and `SignInConstants` (the set of wallets is finite), that
`Spec` of `SignIn` implies `[]TypeOK`, `[]NonceOpensOneSession`, `[]SessionIsSigned`,
`[]SignInShows` and `ImplementsPromise` (`KeepsPromise`). The invariant says where a nonce can be: in Redis, or consumed
by one verification, or used up (`NonceIsInOnePlace`); that every message in use
is one the server issued (`MessagesAreIssued`); that a verification
past the nonce was signed by the wallet of its message (`VerifiedIsSigned`); that a
wallet has one row and a session the row of its wallet (`OneRowPerWallet`,
`SessionsHaveRows`); and that an answer of `/api/me` on its way is about the
cookie that is still there, if that opens a session (`AnswerIsCurrent`).

`PublishingProofs` proves, for any operations, creators, slugs, requests and
documents allowed by `EndpointConstants`, `ImportConstants` and `FormConstants`, every
property of the `publishing` run. Its invariants build on one another: `StagesInv`
(what each screen holds, which gives `NeverShipsUnresolved` and
`ReviewsTheTextShown`); `ServerInv` (a request creates what it was sent, each
key once); `SendInv` and `FormInv` (the page waits for the request it sent, and
results are routes with the credentials of the payload, which gives
`PoweredUrlIsMine`); `CountInv` (an operation about which nothing is in doubt has a
route since the payload was made exactly if its result, in the request or on the
page, is a slug, and then exactly one, which gives `AtMostOneRoute` and
`ResultsAreTrue`). That a slug once taken keeps its route is what makes an earlier
result true later; it rests on the insert alone and not on the slug check.

`PublishingRefinement` proves from them that `Publishing` implements
`PublishingPromise` (`KeepsPromise`). The operations a request has not come to are
its open orders (`OrdersOf`), the slugs among its results what it confirmed
(`ConfirmedBy`), and what the page and the form show is what their creators were told
(`ToldTo`). A create in progress is a stutter up to its end, which founds the route,
heard of or not, or declines the order (`ServingFoundsOrDeclines`). That the answer
to a retry adds to what was told, and takes nothing back, is `ShownGrows`: only
operations without a slug are sent again. This is the one place where the proof needs
the page's invariant `SendInv`.

`EndpointPageProofs` proves, for any callers, header names, limits and windows and
each deployment setting (`LimiterConstants`, `UpstreamConstants`,
`ConsoleConstants`), every property of the `endpoint_page` run. `LimiterInv` says that
a counter without a TTL has a caller that is about to set it or to delete the
counter; `ConsoleInv` ties each step of a test to what the upstream call has
done: the lookup before the call pins a public address or none, the connection goes
to what was pinned, and whatever settled first is what the execution holds
(`ResolveKeepsCall`, `TransportKeepsCall`); the two action properties follow from what an update under way carries.

## 6. Only model-checked

The liveness properties `ChargeEventuallyCredited`, `PendingEventuallyResolved`,
`PaidEventuallyConfirmed` and `SettledIsDelivered`: TLAPS 1.4 has no rules for ENABLED
under fairness. Every other property of a passing run has a theorem.

## 7. Not modelled

- Read-only views (dashboard, earnings, transactions, receipts) and the marketing
  site: they keep and change no state that a protocol depends on.
- Request composition of the gateway: copying of headers and streaming of bodies.
  The verdict of the upstream call is the choice `CallUpstream` makes in `Settlement`,
  and is modelled for itself in `Upstream`.
- The x402 codec and the payment identifier: two authorizations are the same
  element of `Auths` exactly if they have one identifier.
- Encryption and the text of SIWE messages: an envelope opens or not, a signature is
  by a wallet. Both are functions of strings, which TLC cannot explore.
- The grammar of OpenAPI documents: `OpenApi` takes the outcome of each check.
- Names, prices, descriptions, amounts: validity only, or part of what a transfer
  pays.
- Logging, environment parsing, chain constants, operator scripts other than the
  recovery script.
- The ledger's backfill (`lib/ledger/reconcile.ts`): it lists SETTLED receipts without
  an earning, and the modelled code writes the two in one transaction, so among the
  states of `Settlement` its list is empty; it serves receipts older than the
  ledger. The creator's totals are sums over the rows of `Payouts`.

## 8. Plan

Done: the modules of section 2 with their proofs. What would add most next:

1. `Ledger`: the creator's totals (earned = paid + reserved + available) read from
   three tables while payouts proceed, and the backfill over receipts that predate
   the ledger.
2. The gateway's read of a route against a concurrent update of its price or a
   retirement: `EndpointPage` and `Settlement` meet in that read.
3. Two browsers in `sign_in`; the theorems cover them already.
