------------------------- MODULE EndpointPageProofs -------------------------
(***************************************************************************)
(* Proofs about EndpointPage and the modules under it: the rate limiter,   *)
(* the upstream call, the test console and the page, for any callers, any  *)
(* limit, window and header names, any interleaving of tests with the      *)
(* page's requests and any number of these under way.                      *)
(***************************************************************************)
EXTENDS EndpointPage, TLAPS

-----------------------------------------------------------------------------
(* The inductive invariant, one conjunct for each group of variables. *)

(* A caller that is on its way to give its counter a TTL or to delete it. *)
Setting == {"expire", "retry", "reset"}

Attended ==
  \A k \in Buckets :
    ttl[k] = NoTtl => \E c \in Callers : bucket[c] = k /\ asking[c] \in Setting

LimiterInv == LimiterTypeOK /\ Attended

(* What is known of a call at each of its steps. *)
CallIsConsistent ==
  /\ call \in {"idle", "resolved"} =>
       peer = "none" /\ heard = "nothing" /\ execution = "none" /\ ~timedOut
  /\ call = "resolved" => pinned = "public"
  /\ call \in {"connecting", "receiving"} =>
       /\ peer = "public" /\ heard = "nothing"
       /\ execution = IF timedOut THEN "UPSTREAM_TIMEOUT" ELSE "none"
  /\ call = "over" =>
       /\ execution # "none"
       /\ heard = IF execution \in Answers THEN execution ELSE "nothing"
       /\ execution = "UPSTREAM_TIMEOUT" <=> timedOut
       /\ execution = "rejected" => peer = "none"

ConsoleInv ==
  /\ UpstreamTypeOK
  /\ mode \in {"existing", "draft"}
  /\ test \in {"idle", "sent", "asking", "admitted", "read", "checked", "running", "answered"}
  /\ target \in Urls
  /\ result \in TestResults /\ shown \in TestResults
  /\ test \notin {"running", "answered"} => call = "idle"
  /\ test = "answered" => call = "idle" \/ execution # "none"
  /\ CallIsConsistent
  /\ PublicDestination
  /\ ResultIsTruthful

(* A save says nothing of the status, and nothing of a credential that its  *)
(* author did not touch.                                                    *)
SaveIsCareful ==
  /\ update.step # "idle" => update.by # "none"
  /\ update.by = "save" =>
       /\ update.patch.active = Keep
       /\ ~update.touched => update.patch.auth = Keep

PageInv == PageTypeOK /\ SaveIsCareful

Inv == LimiterInv /\ ConsoleInv /\ PageInv

-----------------------------------------------------------------------------
(* The rate limiter *)

(* A bucket is always one of Buckets. *)
LEMMA BucketsOfHeaders ==
  /\ "untrusted" \in Buckets
  /\ \A h \in Headers : ClientIdentifier(h) \in Buckets
<1>1. ClientIdentifier("absent") = "untrusted"
  BY DEF ClientIdentifier
<1>2. "absent" \in Headers
  BY DEF Headers
<1> QED
  BY <1>1, <1>2 DEF Buckets

LEMMA Verdicts == {Allow, Reject, FailOpen} \subseteq Verdict
BY DEF Allow, Reject, FailOpen, Verdict

LEMMA DecideTypes ==
  ASSUME LimiterTypeOK, NEW c \in Callers, NEW v \in Verdict, Decide(c, v)
  PROVE  /\ asking' \in [Callers -> {"idle", "expire", "retry", "reset", "decided"}]
         /\ verdict' \in [Callers -> Verdict]
BY DEF Decide, LimiterTypeOK

(* AskLimiter starts a counter with its caller in charge of the TTL, and    *)
(* leaves every other counter to the caller who is in charge of it.         *)
LEMMA AskKeepsLimiter ==
  ASSUME LimiterInv, NEW c \in Callers, NEW h \in Headers, AskLimiter(c, h)
  PROVE  LimiterInv'
<1> DEFINE k == ClientIdentifier(h)
<1>1. k \in Buckets
  BY BucketsOfHeaders
<1> HIDE DEF k
<1>2. LimiterTypeOK'
  <2>1. CASE Incr(k)
    <3>1. count' \in [Buckets -> 0..(Limit + 1)]
      BY <1>1, <2>1, LimiterConstants DEF Incr, Incremented, LimiterInv, LimiterTypeOK
    <3>2. ttl' \in [Buckets -> {NoTtl} \cup 0..Window]
      BY <1>1, <2>1, LimiterConstants DEF Incr, LimiterInv, LimiterTypeOK, NoTtl
    <3>3. \A j \in Buckets : (count'[j] = 0) <=> (ttl'[j] = 0)
      BY <1>1, <2>1, LimiterConstants
      DEF Incr, Incremented, LimiterInv, LimiterTypeOK, NoTtl
    <3>4. /\ asking' \in [Callers -> {"idle", "expire", "retry", "reset", "decided"}]
          /\ verdict' \in [Callers -> Verdict]
      <4>1. CASE \E v \in {Allow, Reject, FailOpen} : Decide(c, v)
        BY <4>1, Verdicts, DecideTypes DEF LimiterInv
      <4>2. CASE asking' = [asking EXCEPT ![c] = "expire"] /\ UNCHANGED verdict
        BY <4>2 DEF LimiterInv, LimiterTypeOK
      <4> QED
        BY <4>1, <4>2 DEF AskLimiter
    <3> QED
      BY <1>1, <3>1, <3>2, <3>3, <3>4 DEF AskLimiter, LimiterInv, LimiterTypeOK, k
  <2>2. CASE ~Incr(k)
    <3>1. Decide(c, FailOpen) /\ UNCHANGED <<count, ttl>>
      BY <2>2 DEF AskLimiter, k
    <3>2. /\ asking' \in [Callers -> {"idle", "expire", "retry", "reset", "decided"}]
          /\ verdict' \in [Callers -> Verdict]
      BY <3>1, Verdicts, DecideTypes DEF LimiterInv
    <3> QED
      BY <1>1, <3>1, <3>2 DEF AskLimiter, LimiterInv, LimiterTypeOK, k
  <2> QED
    BY <2>1, <2>2
<1>3. Attended'
  <2> SUFFICES ASSUME NEW j \in Buckets, ttl'[j] = NoTtl
               PROVE  \E d \in Callers : bucket'[d] = j /\ asking'[d] \in Setting
    BY DEF Attended
  <2>1. CASE ttl[j] = NoTtl
    <3>1. PICK d \in Callers : bucket[d] = j /\ asking[d] \in Setting
      BY <2>1 DEF LimiterInv, Attended
    <3>2. d # c
      BY <3>1 DEF AskLimiter, Setting
    <3> QED
      BY <3>1, <3>2 DEF AskLimiter, Decide, LimiterInv, LimiterTypeOK
  <2>2. CASE ttl[j] # NoTtl
    <3>1. j = k /\ count[k] = 0 /\ asking' = [asking EXCEPT ![c] = "expire"]
      BY <1>1, <2>2 DEF AskLimiter, Incr, Decide, LimiterInv, LimiterTypeOK, k
    <3> QED
      BY <3>1 DEF AskLimiter, LimiterInv, LimiterTypeOK, k, Setting
  <2> QED
    BY <2>1, <2>2
<1> QED
  BY <1>2, <1>3 DEF LimiterInv

(* A caller leaves the charge of its counter only when that has a TTL or is *)
(* gone.                                                                    *)
LEMMA StepKeepsLimiter ==
  ASSUME LimiterInv, NEW c \in Callers, LimiterStep(c)
  PROVE  LimiterInv'
<1>1. bucket[c] \in Buckets
  BY DEF LimiterInv, LimiterTypeOK
<1>2. LimiterTypeOK'
  <2>1. CASE SetWindowTtl(c)
    <3>1. UNCHANGED <<count, bucket>> /\ (ttl' = ttl \/ Expire(bucket[c]))
      BY <2>1 DEF SetWindowTtl
    <3>2. ttl' \in [Buckets -> {NoTtl} \cup 0..Window]
      BY <1>1, <3>1, LimiterConstants DEF Expire, LimiterInv, LimiterTypeOK, NoTtl
    <3>3. \A j \in Buckets : (count[j] = 0) <=> (ttl'[j] = 0)
      BY <1>1, <3>1, LimiterConstants DEF Expire, LimiterInv, LimiterTypeOK
    <3>4. verdict' \in [Callers -> Verdict]
      BY <2>1, Verdicts, DecideTypes DEF SetWindowTtl, LimiterInv, LimiterTypeOK
    <3>5. asking' \in [Callers -> {"idle", "expire", "retry", "reset", "decided"}]
      BY <2>1 DEF SetWindowTtl, Decide, LimiterInv, LimiterTypeOK
    <3> QED
      BY <3>1, <3>2, <3>3, <3>4, <3>5 DEF LimiterInv, LimiterTypeOK
  <2>2. CASE ResetWindow(c)
    BY <1>1, <2>2, LimiterConstants
    DEF ResetWindow, Del, Decide, LimiterInv, LimiterTypeOK, NoTtl, Verdict, FailOpen
  <2> QED
    BY <2>1, <2>2 DEF LimiterStep
<1>3. Attended'
  <2> SUFFICES ASSUME NEW j \in Buckets, ttl'[j] = NoTtl
               PROVE  \E d \in Callers : bucket'[d] = j /\ asking'[d] \in Setting
    BY DEF Attended
  <2>1. bucket' = bucket /\ \A d \in Callers \ {c} : asking'[d] = asking[d]
    BY DEF LimiterStep, SetWindowTtl, ResetWindow, Decide, LimiterInv, LimiterTypeOK
  <2>2. ttl[j] = NoTtl
    BY <1>1, LimiterConstants
    DEF LimiterStep, SetWindowTtl, ResetWindow, Expire, Del, NoTtl, LimiterInv, LimiterTypeOK
  <2>3. PICK d \in Callers : bucket[d] = j /\ asking[d] \in Setting
    BY <2>2 DEF LimiterInv, Attended
  <2>4. CASE d # c
    BY <2>1, <2>3, <2>4
  <2>5. CASE d = c
    <3>1. asking'[c] \in Setting
      BY <1>1, <2>3, <2>5, LimiterConstants
      DEF LimiterStep, SetWindowTtl, ResetWindow, Expire, Del, NoTtl, LimiterInv,
          LimiterTypeOK, Setting
    <3> QED
      BY <2>1, <2>3, <2>5, <3>1
  <2> QED
    BY <2>4, <2>5
<1> QED
  BY <1>2, <1>3 DEF LimiterInv

(* The rest of what happens to the limiter. *)
LEMMA OthersKeepLimiter ==
  ASSUME LimiterInv,
         \/ \E c \in Callers : TakeVerdict(c)
         \/ WindowsAge
         \/ UNCHANGED limiter
  PROVE  LimiterInv'
<1>1. CASE \E c \in Callers : TakeVerdict(c)
  <2>1. PICK c \in Callers : TakeVerdict(c)
    BY <1>1
  <2>2. LimiterTypeOK'
    BY <2>1, BucketsOfHeaders DEF TakeVerdict, LimiterInv, LimiterTypeOK, Verdict, Allow
  <2>3. \A d \in Callers : asking[d] \in Setting => bucket'[d] = bucket[d] /\ asking'[d] = asking[d]
    BY <2>1 DEF TakeVerdict, LimiterInv, LimiterTypeOK, Setting
  <2>4. ttl' = ttl
    BY <2>1 DEF TakeVerdict
  <2>5. Attended'
    BY <2>3, <2>4 DEF Attended, LimiterInv
  <2> QED
    BY <2>2, <2>5 DEF LimiterInv
<1>2. CASE WindowsAge
  <2>1. LimiterTypeOK'
    BY <1>2, LimiterConstants DEF WindowsAge, LimiterInv, LimiterTypeOK, NoTtl
  <2>2. \A k \in Buckets : ttl'[k] = NoTtl => ttl[k] = NoTtl
    BY <1>2, LimiterConstants DEF WindowsAge, LimiterInv, LimiterTypeOK, NoTtl
  <2>3. Attended'
    BY <1>2, <2>2 DEF WindowsAge, Attended, LimiterInv
  <2> QED
    BY <2>1, <2>3 DEF LimiterInv
<1>3. CASE UNCHANGED limiter
  BY <1>3 DEF limiter, LimiterInv, LimiterTypeOK, Attended
<1> QED
  BY <1>1, <1>2, <1>3

(* What a step of the page and its console does to the limiter. *)
LEMMA LimiterPreserved == LimiterInv /\ [Next]_vars => LimiterInv'
<1> SUFFICES ASSUME LimiterInv, [Next]_vars
             PROVE  LimiterInv'
  OBVIOUS
<1>1. CASE Testing
  <2>1. CASE TestServer
    <3>1. CASE \E h \in Headers : AskForTest(h)
      BY <3>1, ConsoleConstants, AskKeepsLimiter DEF AskForTest
    <3>2. CASE HearVerdict
      BY <3>2, ConsoleConstants, OthersKeepLimiter DEF HearVerdict
    <3>3. CASE RefuseTest \/ ConcludeTest \/ UpstreamAnswers
      BY <3>3, OthersKeepLimiter DEF RefuseTest, ConcludeTest, UpstreamAnswers
    <3>4. CASE \/ \E dns \in Dns, credentialOk \in BOOLEAN : CheckTest(dns, credentialOk)
               \/ \E dns \in Dns, path \in Paths : ExecuteTest(path, dns)
      BY <3>4, OthersKeepLimiter DEF CheckTest, ExecuteTest
    <3> QED
      BY <2>1, <3>1, <3>2, <3>3, <3>4 DEF TestServer
  <2>2. CASE OthersTest
    BY <2>2, AskKeepsLimiter, StepKeepsLimiter, OthersKeepLimiter DEF OthersTest
  <2>3. CASE LimiterWorks
    BY <2>3, ConsoleConstants, StepKeepsLimiter, OthersKeepLimiter DEF LimiterWorks
  <2>4. CASE HearTest \/ LoadTarget(row.auth # Unreadable)
    BY <2>4, OthersKeepLimiter DEF HearTest, ShowTest, ForgetTest, EndTest, LoadTarget
  <2> QED
    BY <1>1, <2>1, <2>2, <2>3, <2>4 DEF Testing
<1>2. CASE ~Testing
  <2>1. UNCHANGED limiter
    BY <1>2
    DEF Next, vars, console, TestHere, SubmitTest, OpenPage, LeavePage, Fetching, Refetch,
        ServeGet, GotView, Editing, StartEditing, CancelEditing, ChangeEditAuthType,
        SaveEdit, Updating, ToggleActive, ServeUpdate, UpdateDone, UpdateFailed, Retiring,
        RetireClick, ServeRetire, RetireAnswered, Elsewhere
  <2> QED
    BY <2>1, OthersKeepLimiter
<1> QED
  BY <1>1, <1>2

-----------------------------------------------------------------------------
(* The upstream call and the console *)

LEMMA ResolveKeepsCall ==
  ASSUME UpstreamTypeOK, CallIsConsistent, PublicDestination,
         NEW url \in Urls, NEW path \in Paths, NEW dns \in Dns, Resolve(url, path, dns)
  PROVE  UpstreamTypeOK' /\ CallIsConsistent' /\ PublicDestination' /\ call' # "idle"
BY DEF UpstreamTypeOK, CallIsConsistent, PublicDestination, Connected, Dns, AddressesOf,
       Addresses, Resolve, Over, Settle, Failures, Answers

(* The connection goes to the pinned address, the first to settle decides,  *)
(* and what is heard after that changes nothing.                            *)
LEMMA TransportKeepsCall ==
  ASSUME UpstreamTypeOK, CallIsConsistent, PublicDestination, Transport
  PROVE  /\ UpstreamTypeOK' /\ CallIsConsistent' /\ PublicDestination'
         /\ call # "idle" /\ call' # "idle"
         /\ execution # "none" => UNCHANGED <<peer, timedOut, heard, execution>>
<1> USE DEF UpstreamTypeOK, CallIsConsistent, PublicDestination, Connected, Addresses, Failures,
            Answers
<1>1. CASE \E a \in Answers : ResponseEnds(a)
  BY <1>1 DEF ResponseEnds, Over, Settle
<1>2. CASE ResponseStarts
  BY <1>2 DEF ResponseStarts
<1>3. CASE ResponseTooLarge \/ ResponseBreaks
  BY <1>3 DEF ResponseTooLarge, ResponseBreaks, Over, Settle
<1>4. CASE RequestFails
  BY <1>4 DEF RequestFails, Over, Settle
<1>5. CASE TimerFires
  BY <1>5 DEF TimerFires, Settle
<1>6. CASE ExecutionThrows
  BY <1>6 DEF ExecutionThrows, Over, Settle
<1>7. CASE Dial
  BY <1>7 DEF Dial
<1> QED
  BY <1>1, <1>2, <1>3, <1>4, <1>5, <1>6, <1>7 DEF Transport

(* A step that leaves the call alone and does not end a test. *)
LEMMA QuietStep ==
  ASSUME ConsoleInv, UNCHANGED <<upstream, mode>>, target' \in Urls, shown' \in TestResults,
         \/ /\ test' \in {"sent", "asking", "admitted", "read", "checked"}
            /\ test \notin {"running", "answered"} /\ result' = result
         \/ UNCHANGED <<test, result>>
  PROVE  ConsoleInv'
BY DEF ConsoleInv, upstream, UpstreamTypeOK, CallIsConsistent, PublicDestination, Connected,
       ResultIsTruthful

(* A test that is refused, limited, blocked or invalid called nobody. *)
LEMMA EarlyAnswer ==
  ASSUME ConsoleInv, UNCHANGED <<upstream, mode>>, target' \in Urls, shown' \in TestResults,
         test \notin {"running", "answered"},
         NEW o \in TestErrors \cup {"ssrf_blocked", "invalid_config"}, AnswerTest(o)
  PROVE  ConsoleInv'
BY DEF ConsoleInv, upstream, UpstreamTypeOK, CallIsConsistent, PublicDestination, Connected,
       ResultIsTruthful, AnswerTest, TestErrors, TestKinds, TestResults

LEMMA ConsolePreserved == ConsoleInv /\ [Next]_vars => ConsoleInv'
<1> SUFFICES ASSUME ConsoleInv, [Next]_vars
             PROVE  ConsoleInv'
  OBVIOUS
<1> USE DEF Urls
<1>1. CASE RefuseTest
  <2>1. \E o \in TestErrors : AnswerTest(o)
    BY <1>1 DEF RefuseTest, TestErrors
  <2> QED
    BY <1>1, <2>1, EarlyAnswer DEF RefuseTest, ConsoleInv
<1>2. CASE HearVerdict
  <2>1. CASE verdict[Console].allowed
    BY <1>2, <2>1, QuietStep DEF HearVerdict, ConsoleInv
  <2>2. CASE ~verdict[Console].allowed
    BY <1>2, <2>2, EarlyAnswer DEF HearVerdict, ConsoleInv, TestErrors
  <2> QED
    BY <2>1, <2>2
<1>3. CASE LoadTarget(row.auth # Unreadable)
  <2>1. CASE AnswerTest("ENDPOINT_NOT_FOUND") \/ AnswerTest("INTERNAL_ERROR")
    BY <1>3, <2>1, EarlyAnswer DEF LoadTarget, ConsoleInv, TestErrors
  <2>2. CASE test' = "read"
    BY <1>3, <2>2, QuietStep DEF LoadTarget, ConsoleInv, AnswerTest
  <2> QED
    BY <1>3, <2>1, <2>2 DEF LoadTarget
<1>4. CASE \E dns \in Dns, credentialOk \in BOOLEAN : CheckTest(dns, credentialOk)
  <2>1. CASE AnswerTest("invalid_config") \/ AnswerTest("ssrf_blocked")
    BY <1>4, <2>1, EarlyAnswer DEF CheckTest, ConsoleInv
  <2>2. CASE test' = "checked"
    BY <1>4, <2>2, QuietStep DEF CheckTest, ConsoleInv, AnswerTest
  <2> QED
    BY <1>4, <2>1, <2>2 DEF CheckTest
<1>5. CASE \E dns \in Dns, path \in Paths : ExecuteTest(path, dns)
  <2>1. UpstreamTypeOK' /\ CallIsConsistent' /\ PublicDestination' /\ call' # "idle"
    BY <1>5, ResolveKeepsCall DEF ExecuteTest, ConsoleInv
  <2> QED
    BY <1>5, <2>1 DEF ExecuteTest, ConsoleInv, ResultIsTruthful
<1>6. CASE UpstreamAnswers
  <2>1. /\ UpstreamTypeOK' /\ CallIsConsistent' /\ PublicDestination'
        /\ call # "idle"
        /\ execution # "none" => UNCHANGED <<peer, timedOut, heard, execution>>
    BY <1>6, TransportKeepsCall DEF UpstreamAnswers, ConsoleInv
  <2>2. test \in {"running", "answered"} /\ (test = "answered" => execution # "none")
    BY <2>1 DEF ConsoleInv
  <2>3. ResultIsTruthful'
    BY <1>6, <2>1, <2>2 DEF UpstreamAnswers, panel, ConsoleInv, ResultIsTruthful
  <2> QED
    BY <1>6, <2>1, <2>2, <2>3 DEF UpstreamAnswers, panel, ConsoleInv
<1>7. CASE ConcludeTest
  <2>1. /\ test' = "answered" /\ result' = Classify
        /\ UNCHANGED <<upstream, mode, target, shown>>
        /\ test = "running" /\ execution # "none"
    BY <1>7 DEF ConcludeTest, AnswerTest
  <2>2. result' \in TestResults /\ ResultIsTruthful'
    BY <2>1
    DEF ConsoleInv, CallIsConsistent, UpstreamTypeOK, PublicDestination, Failures, Answers,
        Classify, ResultIsTruthful, TestResults, TestKinds, TestErrors, upstream
  <2> QED
    BY <2>1, <2>2
    DEF ConsoleInv, upstream, UpstreamTypeOK, CallIsConsistent, PublicDestination, Connected
<1>8. CASE HearTest
  BY <1>8
  DEF HearTest, ShowTest, ForgetTest, EndTest, Hangup, Addresses, Connected, ConsoleInv, UpstreamTypeOK, CallIsConsistent, PublicDestination,
      ResultIsTruthful, TestResults, TestErrors, Nothing
<1>9. CASE SubmitTest \/ \E h \in Headers : AskForTest(h)
  BY <1>9, QuietStep DEF SubmitTest, AskForTest, ConsoleInv
<1>10. CASE OthersTest \/ LimiterWorks \/ UNCHANGED console
  BY <1>10, QuietStep DEF OthersTest, LimiterWorks, console, panel, ConsoleInv
<1>11. CASE LeavePage \/ GotView \/ RetireAnswered
  BY <1>11, QuietStep DEF LeavePage, GotView, RetireAnswered, ConsoleInv, TestResults
<1>12. CASE ~(TestHere \/ Testing \/ LeavePage \/ GotView \/ RetireAnswered)
  <2>1. UNCHANGED console
    BY <1>12
    DEF Next, vars, OpenPage, Fetching, Refetch, ServeGet, Editing, StartEditing,
        CancelEditing, ChangeEditAuthType, SaveEdit, Updating, ToggleActive, ServeUpdate,
        UpdateDone, UpdateFailed, Retiring, RetireClick, ServeRetire, Elsewhere
  <2> QED
    BY <1>10, <2>1
<1> QED
  BY <1>1, <1>2, <1>3, <1>4, <1>5, <1>6, <1>7, <1>8, <1>9, <1>10, <1>11, <1>12
  DEF TestHere, Testing, TestServer

-----------------------------------------------------------------------------
(* The page *)

LEMMA ViewTypes ==
  ASSUME NEW v \in Row
  PROVE  v.auth \in Credentials /\ v.active \in BOOLEAN /\ UpstreamAuthType(v.auth) \in Kinds
BY DEF Row, UpstreamAuthType, Kinds

(* A page that shows an endpoint has a view of it. *)
LEMMA VisibleView ==
  ASSUME PageTypeOK, Visible
  PROVE  view \in Row
BY DEF PageTypeOK, Visible, PageShown

(* What a save sends. *)
LEMMA SaveSends ==
  ASSUME PageTypeOK, NEW header \in HeaderNames \cup {"blank"}, NEW typed \in BOOLEAN,
         NEW auth \in AuthPatch(header, typed)
  PROVE  /\ auth \in Given \cup {Keep}
         /\ ~Touched(header, typed) => auth = Keep
<1>1. auth \in Given \cup {Keep}
  BY DEF AuthPatch, Given
<1>2. ASSUME ~Touched(header, typed)
      PROVE  auth = Keep
  BY <1>2 DEF Touched, AuthPatch, UpstreamAuthType, HeaderName
<1> QED
  BY <1>1, <1>2

LEMMA UpdatedRow ==
  ASSUME NEW r \in Row, NEW patch \in Patch
  PROVE  UpdateRoute(r, patch) \in Row
BY DEF UpdateRoute, Row, Patch, Credentials

LEMMA SaveEditKeepsPage ==
  ASSUME PageInv, NEW header \in HeaderNames \cup {"blank"}, NEW typed \in BOOLEAN,
         SaveEdit(header, typed)
  PROVE  PageInv'
<1>1. PICK auth \in AuthPatch(header, typed) :
        update' = [step |-> "sent", by |-> "save", patch |-> SavePatch(auth),
                   previous |-> NoView, touched |-> Touched(header, typed)]
  BY DEF SaveEdit
<1>2. auth \in Given \cup {Keep} /\ (~Touched(header, typed) => auth = Keep)
  BY SaveSends DEF PageInv
<1>3. SavePatch(auth) \in Patch /\ SavePatch(auth).active = Keep /\ SavePatch(auth).auth = auth
  BY <1>2 DEF SavePatch, NoPatch, Patch
<1>4. Touched(header, typed) \in BOOLEAN
  BY DEF Touched
<1>5. PageTypeOK'
  BY <1>1, <1>3, <1>4 DEF SaveEdit, PageInv, PageTypeOK, query
<1>6. SaveIsCareful'
  BY <1>1, <1>2, <1>3 DEF SaveIsCareful
<1> QED
  BY <1>5, <1>6 DEF PageInv

LEMMA EditingKeepsPage ==
  ASSUME PageInv, StartEditing \/ CancelEditing \/ \E k \in Kinds : ChangeEditAuthType(k)
  PROVE  PageInv'
<1>1. form' \in Form \cup {NoForm} /\ UNCHANGED <<row, query, open, update, retire>>
  BY VisibleView, ViewTypes
  DEF PageInv, PageTypeOK, StartEditing, CancelEditing, ChangeEditAuthType, Form
<1> QED
  BY <1>1 DEF PageInv, PageTypeOK, SaveIsCareful, query

LEMMA UpdatingKeepsPage ==
  ASSUME PageInv, Updating
  PROVE  PageInv'
<1> USE DEF PageInv
<1>1. CASE ToggleActive
  <2>1. view \in Row
    BY <1>1, VisibleView DEF ToggleActive
  <2>2. [view EXCEPT !.active = ~@] \in Row
    BY <2>1 DEF Row
  <2>3. [NoPatch EXCEPT !.active = ~view.active] \in Patch
    BY <2>1 DEF NoPatch, Patch, Row
  <2>4. PageTypeOK'
    BY <1>1, <2>1, <2>2, <2>3 DEF ToggleActive, SetView, PageTypeOK
  <2>5. SaveIsCareful'
    BY <1>1 DEF ToggleActive, SaveIsCareful
  <2> QED
    BY <2>4, <2>5
<1>2. CASE ServeUpdate
  <2>1. row' \in Row
    BY <1>2, UpdatedRow DEF ServeUpdate, PageTypeOK
  <2>2. \/ update' = [update EXCEPT !.step = "done", !.previous = row']
        \/ update' = [update EXCEPT !.step = "failed"]
    BY <1>2 DEF ServeUpdate
  <2>3. /\ update' \in [step: {"idle", "sent", "done", "failed"}, by: {"none", "save", "switch"},
                       patch: Patch, previous: Row \cup {NoView}, touched: BOOLEAN]
        /\ update'.by = update.by /\ update'.patch = update.patch
        /\ update'.touched = update.touched
    BY <2>1, <2>2 DEF PageTypeOK
  <2>4. update.step # "idle"
    BY <1>2 DEF ServeUpdate
  <2>5. SaveIsCareful'
    BY <2>3, <2>4 DEF SaveIsCareful
  <2> QED
    BY <1>2, <2>1, <2>3, <2>5 DEF ServeUpdate, PageTypeOK, query
<1>3. CASE UpdateDone \/ UpdateFailed
  <2>1. update' = NoUpdate /\ NoPatch \in Patch
    BY <1>3 DEF UpdateDone, UpdateFailed, NoPatch, Patch
  <2>2. SaveIsCareful'
    BY <2>1 DEF NoUpdate, SaveIsCareful
  <2>3. view' \in Row \cup {NoView} /\ failed' \in BOOLEAN
    BY <1>3 DEF UpdateDone, UpdateFailed, SetView, PageTypeOK
  <2>4. form' \in Form \cup {NoForm} /\ UNCHANGED <<row, fetch, snapshot, open, retire>>
    BY <1>3 DEF UpdateDone, UpdateFailed, PageTypeOK
  <2>5. PageTypeOK'
    BY <2>1, <2>3, <2>4 DEF NoUpdate, PageTypeOK
  <2> QED
    BY <2>2, <2>5
<1> QED
  BY <1>1, <1>2, <1>3 DEF Updating

LEMMA PagePreserved == PageInv /\ [Next]_vars => PageInv'
<1> SUFFICES ASSUME PageInv, [Next]_vars
             PROVE  PageInv'
  OBVIOUS
<1>1. CASE TestHere \/ Testing \/ UNCHANGED vars
  BY <1>1 DEF TestHere, Testing, vars, page, query, PageInv, PageTypeOK, SaveIsCareful
<1>2. CASE OpenPage \/ LeavePage
  BY <1>2 DEF OpenPage, LeavePage, query, PageInv, PageTypeOK, SaveIsCareful
<1>3. CASE Fetching
  <2>1. view' \in Row \cup {NoView} /\ snapshot' \in Row \cup {NoView} /\ failed' \in BOOLEAN
        /\ fetch' \in {"none", "sent", "answered", "failed"}
    BY <1>3 DEF Fetching, Refetch, ServeGet, GotView, SetView, PageInv, PageTypeOK
  <2>2. UNCHANGED <<row, open, form, update, retire>>
    BY <1>3 DEF Fetching, Refetch, ServeGet, GotView
  <2> QED
    BY <2>1, <2>2 DEF PageInv, PageTypeOK, SaveIsCareful
<1>4. CASE Editing
  BY <1>4, SaveEditKeepsPage, EditingKeepsPage DEF Editing
<1>5. CASE Updating
  BY <1>5, UpdatingKeepsPage
<1>6. CASE Retiring
  <2>1. /\ row' \in Row /\ retire' \in {"idle", "confirming", "sent", "retired", "failed"}
        /\ open' \in BOOLEAN /\ form' \in Form \cup {NoForm}
    BY <1>6
    DEF Retiring, RetireClick, ServeRetire, RetireAnswered, PageInv, PageTypeOK, Row
  <2>2. UNCHANGED <<query, update>>
    BY <1>6 DEF Retiring, RetireClick, ServeRetire, RetireAnswered
  <2> QED
    BY <2>1, <2>2 DEF query, PageInv, PageTypeOK, SaveIsCareful
<1>7. CASE Elsewhere
  <2>1. row' \in Row
    BY <1>7 DEF Elsewhere, PageInv, PageTypeOK, Row, Credentials
  <2> QED
    BY <1>7, <2>1 DEF Elsewhere, query, PageInv, PageTypeOK, SaveIsCareful
<1> QED
  BY <1>1, <1>2, <1>3, <1>4, <1>5, <1>6, <1>7 DEF Next

-----------------------------------------------------------------------------
(* Theorems *)

LEMMA InitEstablishesInv == Init => Inv
<1> SUFFICES ASSUME Init
             PROVE  Inv
  OBVIOUS
<1>1. LimiterInv
  BY BucketsOfHeaders, LimiterConstants
  DEF Init, ConsoleInit, LimiterInit, LimiterInv, LimiterTypeOK, Attended, NoTtl, Verdict, Allow
<1>2. ConsoleInv
  BY DEF Init, ConsoleInit, UpstreamInit, ConsoleInv, UpstreamTypeOK, CallIsConsistent,
         PublicDestination, Connected, Addresses, ResultIsTruthful, Urls, TestResults, Nothing
<1>3. PageInv
  BY DEF Init, PageInv, PageTypeOK, SaveIsCareful, NoUpdate, NoPatch, Patch
<1> QED
  BY <1>1, <1>2, <1>3 DEF Inv

(* The inductive invariant holds in every reachable state. *)
THEOREM Invariance == Spec => []Inv
<1>1. Inv /\ [Next]_vars => Inv'
  BY LimiterPreserved, ConsolePreserved, PagePreserved DEF Inv
<1> QED
  BY InitEstablishesInv, <1>1, PTL DEF Spec

(* Every variable keeps its type. *)
THEOREM TypeCorrect == Spec => []TypeOK
<1>1. Inv => TypeOK
  BY DEF Inv, LimiterInv, ConsoleInv, PageInv, TypeOK, ConsoleTypeOK
<1> QED
  BY Invariance, <1>1, PTL

(* No rate limit counter above 1 stays without a TTL (limiter.ts:4), as     *)
(* long as no caller is interrupted between two commands of Redis.          *)
THEOREM NoCounterWithoutTtlHolds == Spec => []NoCounterWithoutTtl
<1>1. Inv => NoCounterWithoutTtl
  BY DEF Inv, LimiterInv, Attended, Setting, NoCounterWithoutTtl
<1> QED
  BY Invariance, <1>1, PTL

(* Between the lookup and the connection the name may come to resolve to    *)
(* anything: as the address that was checked is pinned, no connection goes  *)
(* to a blocked one (upstream-service.ts:154, validate.ts:162).             *)
THEOREM PublicDestinationHolds == Spec => []PublicDestination
<1>1. Inv => PublicDestination
  BY DEF Inv, ConsoleInv
<1> QED
  BY Invariance, <1>1, PTL

(* The answer to a test is what came of it, and the first of timer, failure *)
(* and whole answer decides (core.ts:277, upstream-client.ts:71).           *)
THEOREM ResultIsTruthfulHolds == Spec => []ResultIsTruthful
<1>1. Inv => ResultIsTruthful
  BY DEF Inv, ConsoleInv
<1> QED
  BY Invariance, <1>1, PTL

(* The steps of Next that write the row or the update under way. *)
LEMMA WhoWrites ==
  ASSUME [Next]_vars
  PROVE  \/ UNCHANGED row /\ (update.step = "sent" => UNCHANGED update)
         \/ ServeUpdate
         \/ UNCHANGED update
BY DEF Next, vars, page, TestHere, Testing, OpenPage, LeavePage, Fetching, Refetch, ServeGet,
       GotView, Editing, StartEditing, CancelEditing, ChangeEditAuthType, SaveEdit, Updating,
       ToggleActive, UpdateDone, UpdateFailed, Retiring, RetireClick, ServeRetire,
       RetireAnswered, Elsewhere

(* A save whose author left the auth controls alone leaves the stored       *)
(* credential alone (endpoint-detail.tsx:338-380).                          *)
THEOREM UntouchedCredentialStaysHolds == Spec => UntouchedCredentialStays
<1>1. ASSUME Inv, [Next]_vars, update'.step # update.step, update.step = "sent",
             update.by = "save", ~update.touched
      PROVE  row'.auth = row.auth
  <2>1. ServeUpdate
    BY <1>1, WhoWrites
  <2>2. row \in Row /\ update.patch.auth = Keep
    BY <1>1 DEF Inv, PageInv, PageTypeOK, SaveIsCareful
  <2> QED
    BY <2>1, <2>2 DEF ServeUpdate, UpdateRoute
<1> QED
  BY Invariance, <1>1, PTL DEF Spec, UntouchedCredentialStays

(* No save switches an endpoint on (endpoint-detail.tsx:385). *)
THEOREM SaveNeverRevivesHolds == Spec => SaveNeverRevives
<1>1. ASSUME Inv, [Next]_vars, ~row.active, row'.active, update' # update
      PROVE  update.by = "switch"
  <2>1. ServeUpdate
    BY <1>1, WhoWrites
  <2>2. /\ update.by \in {"save", "switch"}
        /\ update.by = "save" => update.patch.active = Keep
    BY <1>1, <2>1 DEF Inv, PageInv, PageTypeOK, SaveIsCareful, ServeUpdate
  <2> QED
    BY <1>1, <2>1, <2>2 DEF ServeUpdate, UpdateRoute
<1> QED
  BY Invariance, <1>1, PTL DEF Spec, SaveNeverRevives
=============================================================================
