---------------------------- MODULE RateLimiter ----------------------------
(***************************************************************************)
(* The fixed-window rate limiter (lib/ratelimit): INCR a counter, EXPIRE it *)
(* when it starts, DEL it when that fails twice, and allow on any error.    *)
(* One action per Redis call, so callers of a bucket interleave.            *)
(***************************************************************************)
EXTENDS Integers

CONSTANTS
  Callers,       \* concurrent requests that ask the limiter
  Forwarded,     \* usable first entries of X-Forwarded-For
  Limit,         \* admissions per window
  Window,        \* the TTL of a window, in ticks
  TrustProxy,    \* RATE_LIMIT_TRUST_PROXY_HEADER
  RedisFails     \* may a Redis command fail?

ASSUME LimiterConstants ==
  /\ Limit \in Nat \ {0} /\ Window \in Nat \ {0}
  /\ TrustProxy \in BOOLEAN /\ RedisFails \in BOOLEAN

VARIABLES
  count,     \* counter of each bucket, 0 if the key is absent
  ttl,       \* ticks the key still has to live, or NoTtl
  asking,    \* step of each caller
  bucket,    \* the bucket a caller asks for
  verdict    \* the caller's verdict

limiter == <<count, ttl, asking, bucket, verdict>>

(* The X-Forwarded-For a request may carry, and the bucket of its sender: *)
(* without trust in the proxy, all share one.                             *)
Headers == Forwarded \cup {"absent", "unusable"}
ClientIdentifier(header) ==
  IF ~TrustProxy \/ header = "absent" THEN "untrusted"
  ELSE IF header = "unusable" THEN "unknown" ELSE header

Buckets == {ClientIdentifier(h) : h \in Headers}

NoTtl == -1
Verdict == [allowed: BOOLEAN, degraded: BOOLEAN]
Allow == [allowed |-> TRUE, degraded |-> FALSE]
Reject == [allowed |-> FALSE, degraded |-> FALSE]
FailOpen == [allowed |-> TRUE, degraded |-> TRUE]

LimiterTypeOK ==
  /\ count \in [Buckets -> 0..(Limit + 1)]
  /\ ttl \in [Buckets -> {NoTtl} \cup 0..Window]
  /\ \A k \in Buckets : (count[k] = 0) <=> (ttl[k] = 0)
  /\ asking \in [Callers -> {"idle", "expire", "retry", "reset", "decided"}]
  /\ bucket \in [Callers -> Buckets]
  /\ verdict \in [Callers -> Verdict]

LimiterInit ==
  /\ count = [k \in Buckets |-> 0]
  /\ ttl = [k \in Buckets |-> 0]
  /\ asking = [c \in Callers |-> "idle"]
  /\ bucket = [c \in Callers |-> "untrusted"]
  /\ verdict = [c \in Callers |-> Allow]

-----------------------------------------------------------------------------
(* INCR; the counter is compared with 1 and Limit only, so it stops at the *)
(* first value above Limit.                                                *)
Incremented(k) == IF count[k] > Limit THEN count[k] ELSE count[k] + 1

Incr(k) ==
  /\ count' = [count EXCEPT ![k] = Incremented(k)]
  /\ ttl' = [ttl EXCEPT ![k] = IF count[k] = 0 THEN NoTtl ELSE @]

(* A key without a TTL gets one; on an absent key EXPIRE does nothing. *)
Expire(k) == ttl' = [ttl EXCEPT ![k] = IF count[k] = 0 THEN 0 ELSE Window]

Del(k) ==
  /\ count' = [count EXCEPT ![k] = 0]
  /\ ttl' = [ttl EXCEPT ![k] = 0]

Decide(c, v) ==
  /\ asking' = [asking EXCEPT ![c] = "decided"]
  /\ verdict' = [verdict EXCEPT ![c] = v]

(* checkRateLimit up to its first await: INCR, or its failure. *)
AskLimiter(c, header) ==
  LET k == ClientIdentifier(header) IN
  /\ asking[c] = "idle"
  /\ bucket' = [bucket EXCEPT ![c] = k]
  /\ \/ /\ Incr(k)
        /\ \/ /\ count[k] = 0
              /\ asking' = [asking EXCEPT ![c] = "expire"]
              /\ UNCHANGED verdict
           \/ /\ count[k] # 0
              /\ Decide(c, IF Incremented(k) <= Limit THEN Allow ELSE Reject)
     \/ /\ RedisFails
        /\ Decide(c, FailOpen)
        /\ UNCHANGED <<count, ttl>>

(* setWindowTtl: EXPIRE, once more if it failed; a failed call may have    *)
(* taken effect.  The caller that started the counter is within the limit. *)
SetWindowTtl(c) ==
  /\ asking[c] \in {"expire", "retry"}
  /\ \/ Expire(bucket[c]) /\ Decide(c, Allow)
     \/ /\ RedisFails
        /\ asking' = [asking EXCEPT ![c] = IF @ = "expire" THEN "retry" ELSE "reset"]
        /\ UNCHANGED ttl \/ Expire(bucket[c])
        /\ UNCHANGED verdict
  /\ UNCHANGED <<count, bucket>>

(* Fault: a counter whose TTL could not be set is kept. *)
KeepWindow(c) ==
  /\ asking[c] = "reset"
  /\ Decide(c, FailOpen)
  /\ UNCHANGED <<count, ttl, bucket>>

(* EXPIRE failed twice: DEL, and allow as degraded. *)
ResetWindow(c) ==
  /\ asking[c] = "reset"
  /\ Del(bucket[c])
  /\ Decide(c, FailOpen)
  /\ UNCHANGED bucket

(* The route has acted upon the verdict. *)
TakeVerdict(c) ==
  /\ asking[c] = "decided"
  /\ asking' = [asking EXCEPT ![c] = "idle"]
  /\ verdict' = [verdict EXCEPT ![c] = Allow]
  /\ bucket' = [bucket EXCEPT ![c] = "untrusted"]
  /\ UNCHANGED <<count, ttl>>

(* What the error handling leaves out: the process dies between two Redis   *)
(* calls, the reply to an INCR is lost, or the best-effort DEL fails too.   *)
CallerDies(c) ==
  /\ asking[c] \in {"expire", "retry", "reset"}
  /\ asking' = [asking EXCEPT ![c] = "idle"]
  /\ bucket' = [bucket EXCEPT ![c] = "untrusted"]
  /\ UNCHANGED <<count, ttl, verdict>>

ReplyLost(c, header) ==
  LET k == ClientIdentifier(header) IN
  /\ asking[c] = "idle"
  /\ Incr(k)
  /\ bucket' = [bucket EXCEPT ![c] = k]
  /\ Decide(c, FailOpen)

ResetFails(c) ==
  /\ asking[c] = "reset"
  /\ Decide(c, FailOpen)
  /\ UNCHANGED <<count, ttl, bucket>>

Interrupted(c) == CallerDies(c) \/ ResetFails(c) \/ \E h \in Headers : ReplyLost(c, h)

(* Time passes: keys age and go. *)
WindowsAge ==
  LET left == [k \in Buckets |-> IF ttl[k] > 0 THEN ttl[k] - 1 ELSE ttl[k]] IN
  /\ ttl' = left
  /\ count' = [k \in Buckets |-> IF left[k] = 0 THEN 0 ELSE count[k]]
  /\ UNCHANGED <<asking, bucket, verdict>>

LimiterStep(c) == SetWindowTtl(c) \/ ResetWindow(c)

-----------------------------------------------------------------------------
(* The limiter alone, interruptions included. *)
LimiterNext ==
  \/ \E c \in Callers :
       LimiterStep(c) \/ Interrupted(c) \/ TakeVerdict(c) \/ \E h \in Headers : AskLimiter(c, h)
  \/ WindowsAge

LimiterSpec == LimiterInit /\ [][LimiterNext]_limiter

(* "A counter can never accumulate without a TTL"                          *)
(* (docs/production-readiness.md:34, limiter.ts:4): a counter above 1 that  *)
(* has no TTL is about to get one or to be deleted.                         *)
NoCounterWithoutTtl ==
  \A k \in Buckets :
    count[k] > 1 /\ ttl[k] = NoTtl =>
      \E c \in Callers : bucket[c] = k /\ asking[c] \in {"expire", "retry", "reset"}
=============================================================================
