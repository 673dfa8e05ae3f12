--------------------------- MODULE FrontEnds_proofs ---------------------------
(***************************************************************************)
(* Proofs about FrontEnds, for every retry bound, set of charges, set of   *)
(* SDK errors, pricing set-up and number of requests.                      *)
(*                                                                         *)
(* The executor's invariant is carried over to the specification of the    *)
(* front ends, with one addition it did not need for itself: the cost of a *)
(* response is the charge of the last invocation or unknown.  What a front *)
(* end told of the requests before the present one never changes, since    *)
(* `made` only grows; that the present answer is honest is a fact about    *)
(* one reply, and is proved as such.                                       *)
(***************************************************************************)
EXTENDS FrontEnds, ProviderExecutor_proofs, Evidence_proofs

\* What a reply says beyond its chain.
ReplyInv ==
  /\ reply.kind = "response" => reply.cost \in {Unknown, charges[Len(charges)]}
  /\ reply.kind = "exception" => reply.error # NoError

AnswerRecords ==
  [request : Nat, status : Int, cost : Nat \cup {Unknown}, attemptCount : Nat]

RequestRecords == [invocations : Nat, charged : Nat, last : Nat]

TellingTypes ==
  /\ frontEnd \in {"infer_batch", "smoke", "api"}
  /\ answers \in Seq(AnswerRecords)
  /\ made \in Seq(RequestRecords)

\* AnswerIsHonest, of the requests and the front end it is given.
Honest(answer, requests, end) ==
  /\ answer.cost \in {Unknown, IF end = "smoke" THEN requests[answer.request].charged
                               ELSE requests[answer.request].last}
  /\ \/ answer.attemptCount = requests[answer.request].invocations
     \/ answer.status \in {500, 1} /\ answer.cost = Unknown

\* Every answer is about a request that is over, and honest about it; answers
\* come in the order of the requests.
AnswersInv ==
  /\ \A k \in DOMAIN answers : answers[k].request \in DOMAIN made /\ Honest(answers[k], made, frontEnd)
  /\ \A k \in 1 .. Len(answers) - 1 : answers[k].request < answers[k + 1].request

\* While a batch is pending it has answered every request it made, and once it
\* is over it has no request in hand.
BatchInv ==
  frontEnd = "infer_batch" =>
    /\ batch \in {"pending", "returned", "raised", "cancelled"}
    /\ batch # "pending" => phase = "idle"
    /\ batch \in {"pending", "returned"} =>
         Len(answers) = Len(made) /\ (batch = "returned" <=> Len(made) = MaxRequests)
    /\ batch \in {"raised", "cancelled"} => Len(made) = Len(answers) + 1

FrontInv == ExecInv /\ ReplyInv /\ TellingTypes /\ AnswersInv /\ BatchInv

-----------------------------------------------------------------------------
(* The replies *)

\* A step of the executor leaves the reply as it is, or makes one of those
\* ReplyInv speaks of.
LEMMA ServePreservesReply == ExecInv /\ ReplyInv /\ ExecStep => ReplyInv'
  <1> SUFFICES ASSUME ExecInv, ReplyInv, ExecStep PROVE ReplyInv'
    OBVIOUS
  <1>1. ASSUME NEW charge \in Charges, Invoke(charge) PROVE ReplyInv'
    BY <1>1 DEF Invoke, ReplyInv, ExecInv, LengthInv
  <1>2. ASSUME NEW e \in SdkErrors, CallFails(e) PROVE ReplyInv'
    BY <1>2 DEF CallFails, ReplyInv, ExecInv, LengthInv, ProviderError
  <1>3. ASSUME NEW body \in Bodies, CallReturns(body) PROVE ReplyInv'
    BY <1>3 DEF CallReturns, ReplyInv, ReturnsUsage, ReturnsNoUsage, ReturnsUnusable,
                ReturnsUnpricedUsage, Response, ProviderError, PlainException, NoError
  <1>4. CASE BackoffEnds
    BY <1>4 DEF BackoffEnds, ReplyInv
  <1> QED
    BY <1>1, <1>2, <1>3, <1>4 DEF ExecStep

\* Without a request in hand there is no reply to speak of.
LEMMA NoRequestReply == NoRequest => ReplyInv'
  BY DEF NoRequest, NoReply, ReplyInv

-----------------------------------------------------------------------------
(* The present answer *)

\* What is known when infer has returned or raised: at least one invocation, a
\* record of each, and amounts that are charges.
LEMMA RepliedFacts ==
  ASSUME ExecInv, phase = "replied"
  PROVE  /\ charges \in Seq(Nat) /\ Len(charges) \in Nat \ {0}
         /\ charges # << >> /\ charges[Len(charges)] \in Nat
         /\ attempts \in Seq(Attempt) /\ attempts # << >> /\ Len(attempts) = Len(charges)
         /\ reply.kind \in {"response", "provider_error", "exception"}
         /\ reply.kind \in {"response", "provider_error"} => reply.attempts = attempts
         /\ reply.kind = "exception" => reply.attempts = << >>
         /\ reply.cost \in Nat \cup {Unknown}
  <1>1. charges \in Seq(Charges) /\ attempts \in Seq(Attempt) /\ attempts # << >>
        /\ Len(attempts) = Len(charges)
    BY DEF ExecInv, ExecTypeOK, EveryInvocationIsRecorded, RepliedInv
  <1>2. charges \in Seq(Nat)
    BY <1>1, ChargesAssumption, SeqMonotonic
  <1>3. Len(charges) \in Nat \ {0} /\ charges # << >> /\ charges[Len(charges)] \in Nat
    BY <1>1, <1>2
  <1>4. /\ reply.kind \in {"response", "provider_error", "exception"}
        /\ reply.kind \in {"response", "provider_error"} => reply.attempts = attempts
        /\ reply.kind = "exception" => reply.attempts = << >>
        /\ reply.cost \in Nat \cup {Unknown}
    BY ChargesAssumption
    DEF ExecInv, ExecTypeOK, EveryInvocationIsRecorded, LengthInv, RepliedInv
  <1> QED
    BY <1>1, <1>2, <1>3, <1>4

\* If every amount of the chain is known, the chain lists the charges.
LEMMA KnownChainIsCharges ==
  ASSUME ExecInv, phase = "replied", AllCostsKnown(attempts)
  PROVE  AttemptCosts(attempts) = charges
  <1>1. attempts \in Seq(Attempt) /\ charges \in Seq(Nat) /\ Len(attempts) = Len(charges)
    BY RepliedFacts
  <1>2. \A i \in DOMAIN attempts : attempts[i].cost = charges[i]
    BY DEF ExecInv, PriceInv, AllCostsKnown
  <1>3. charges = [i \in 1 .. Len(charges) |-> charges[i]] /\ DOMAIN attempts = 1 .. Len(charges)
    BY <1>1
  <1> QED
    BY <1>2, <1>3 DEF AttemptCosts

\* The cost of a log line is the total charge of its request, or unknown; its
\* attempt count is the number of invocations, unless a plain exception took
\* the chain with it, and then the line is one of an error of unknown cost.
LEMMA SmokeTraceIsHonest ==
  ASSUME ExecInv, ReplyInv, phase = "replied"
  PROVE  /\ SmokeTrace.cost \in {Unknown, Total(charges)}
         /\ SmokeTrace.attemptCount \in Nat
         /\ \/ SmokeTrace.attemptCount = Len(charges)
            \/ SmokeTrace.error # NoError /\ SmokeTrace.cost = Unknown
  <1>1. CASE reply.kind = "exception"
    <2>1. reply.attempts = << >> /\ reply.error # NoError
      BY <1>1, RepliedFacts DEF ReplyInv
    <2>2. SmokeTrace = Trace(Request, << >>, 1, UnknownCost, reply.error, << >>)
      BY <1>1, <2>1 DEF SmokeTrace, FromError, AttemptCount, ExecutionCost
    <2> QED
      BY <2>1, <2>2 DEF Trace, UnknownCost
  <1>2. CASE reply.kind \in {"response", "provider_error"}
    <2> DEFINE n == Len(attempts)
               proven == IF AllCostsKnown(attempts) THEN KnownCost(Total(charges))
                         ELSE UnknownCost
    <2>1. reply.attempts = attempts /\ attempts # << >> /\ n = Len(charges) /\ n \in Nat
      BY <1>2, RepliedFacts
    <2>2. \A fallback, count : ExecutionCost(attempts, fallback, count) = proven
      BY <2>1, KnownChainIsCharges DEF ExecutionCost
    <2>3. AttemptCount(attempts) = n
      BY <2>1 DEF AttemptCount
    <2>4. proven.cost \in {Unknown, Total(charges)}
      BY DEF KnownCost, UnknownCost
    <2> HIDE DEF proven, n
    <2>5. \E error : SmokeTrace = Trace(Request, attempts, n, proven, error, << >>)
      BY <2>1, <2>2, <2>3 DEF SmokeTrace, FromResponse, FromError
    <2>6. SmokeTrace.cost = proven.cost /\ SmokeTrace.attemptCount = n
      BY <2>5 DEF Trace
    <2> QED
      BY <2>1, <2>4, <2>6
  <1> QED
    BY <1>1, <1>2, RepliedFacts

\* The record a finished request leaves.
RequestMade ==
  [ invocations |-> Len(charges), charged |-> Total(charges),
    last |-> IF charges = << >> THEN 0 ELSE charges[Len(charges)] ]

\* An answer that says of the request just made what AnswerIsHonest asks.
TellsOfRequest(answer) ==
  /\ answer \in AnswerRecords /\ answer.request = Request
  /\ answer.cost \in {Unknown, IF frontEnd = "smoke" THEN Total(charges)
                               ELSE charges[Len(charges)]}
  /\ \/ answer.attemptCount = Len(charges)
     \/ answer.status \in {500, 1} /\ answer.cost = Unknown

\* One honest answer is appended.
AnswersHonestly ==
  \E answer : TellsOfRequest(answer) /\ answers' = Append(answers, answer)

\* What an answer may say of the request just made.
MaySay(status, cost, count) ==
  /\ status \in Int /\ cost \in Nat \cup {Unknown} /\ count \in Nat
  /\ cost \in {Unknown, IF frontEnd = "smoke" THEN Total(charges) ELSE charges[Len(charges)]}
  /\ count = Len(charges) \/ (status \in {500, 1} /\ cost = Unknown)

\* An answer that says what it may is an honest one.
LEMMA SayingIsTelling ==
  ASSUME TellingTypes, NEW status, NEW cost, NEW count,
         MaySay(status, cost, count), Answer(status, cost, count)
  PROVE  AnswersHonestly
  <1> DEFINE answer ==
        [request |-> Request, status |-> status, cost |-> cost, attemptCount |-> count]
  <1>1. Request \in Nat
    BY DEF TellingTypes, Request
  <1>2. TellsOfRequest(answer)
    BY <1>1 DEF MaySay, TellsOfRequest, AnswerRecords
  <1>3. answers' = Append(answers, answer)
    BY DEF Answer
  <1> HIDE DEF answer
  <1> QED
    BY <1>2, <1>3 DEF AnswersHonestly

\* Every front end that answers appends one honest answer.
LEMMA ReceiveAnswers ==
  ASSUME ExecInv, ReplyInv, TellingTypes, phase = "replied",
         \/ frontEnd = "infer_batch" /\ BatchGoesOn
         \/ frontEnd = "smoke" /\ SmokeLogs
         \/ frontEnd = "api" /\ ApiAnswers
  PROVE  AnswersHonestly
  <1> DEFINE count == AttemptCount(reply.attempts)
  <1>1. /\ Len(charges) \in Nat \ {0} /\ charges[Len(charges)] \in Nat /\ Total(charges) \in Nat
        /\ reply.cost \in Nat \cup {Unknown}
        /\ reply.kind \in {"response", "provider_error", "exception"}
        /\ reply.kind \in {"response", "provider_error"} => count = Len(charges)
    BY RepliedFacts, TotalType DEF AttemptCount
  <1> HIDE DEF count
  <1>2. ASSUME reply.kind = "response", frontEnd # "smoke", NEW status \in Int
        PROVE  MaySay(status, reply.cost, count)
    BY <1>1, <1>2 DEF MaySay, ReplyInv
  <1>3. CASE frontEnd = "infer_batch" /\ BatchGoesOn
    <2>1. reply.kind = "response" /\ Answer(0, reply.cost, count)
      BY <1>3 DEF BatchGoesOn, count
    <2>2. MaySay(0, reply.cost, count)
      BY <1>2, <1>3, <2>1
    <2> QED
      BY <2>1, <2>2, SayingIsTelling
  <1>4. CASE frontEnd = "smoke" /\ SmokeLogs
    <2> DEFINE status == IF SmokeTrace.error = NoError THEN 0 ELSE 1
    <2>1. SmokeTrace.cost \in {Unknown, Total(charges)} /\ SmokeTrace.attemptCount \in Nat
          /\ \/ SmokeTrace.attemptCount = Len(charges)
             \/ SmokeTrace.error # NoError /\ SmokeTrace.cost = Unknown
      BY SmokeTraceIsHonest
    <2>2. MaySay(status, SmokeTrace.cost, SmokeTrace.attemptCount)
      BY <1>1, <1>4, <2>1 DEF MaySay
    <2>3. Answer(status, SmokeTrace.cost, SmokeTrace.attemptCount)
      BY <1>4 DEF SmokeLogs
    <2> HIDE DEF status
    <2> QED
      BY <2>2, <2>3, SayingIsTelling
  <1>5. CASE frontEnd = "api" /\ ApiAnswers
    <2>1. StatusOf(reply.error) \in Int
      BY DEF StatusOf
    <2>2. CASE reply.kind = "response"
      <3>1. Answer(200, reply.cost, count)
        BY <1>5, <2>2 DEF ApiAnswers, count
      <3>2. MaySay(200, reply.cost, count)
        BY <1>2, <1>5, <2>2
      <3> QED
        BY <3>1, <3>2, SayingIsTelling
    <2>3. CASE reply.kind = "provider_error"
      <3>1. Answer(StatusOf(reply.error), Unknown, count)
        BY <1>5, <2>3 DEF ApiAnswers, count
      <3>2. MaySay(StatusOf(reply.error), Unknown, count)
        BY <1>1, <1>5, <2>1, <2>3 DEF MaySay
      <3> QED
        BY <3>1, <3>2, SayingIsTelling
    <2>4. CASE reply.kind = "exception"
      <3>1. Answer(500, Unknown, 0)
        BY <1>5, <2>4 DEF ApiAnswers
      <3>2. MaySay(500, Unknown, 0)
        BY <1>1, <1>5 DEF MaySay
      <3> QED
        BY <3>1, <3>2, SayingIsTelling
    <2> QED
      BY <1>1, <2>2, <2>3, <2>4
  <1> QED
    BY <1>3, <1>4, <1>5

-----------------------------------------------------------------------------
(* The invariant *)

\* It holds before the first request.
LEMMA FrontInvInit == FrontEndsInit => FrontInv
  <1> SUFFICES ASSUME FrontEndsInit PROVE FrontInv
    OBVIOUS
  <1>1. ExecInv
    BY ExecInvInit DEF FrontEndsInit
  <1>2. ReplyInv
    BY DEF FrontEndsInit, ExecInit, NoReply, ReplyInv
  <1>3. TellingTypes
    BY DEF FrontEndsInit, TellingTypes
  <1>4. AnswersInv
    BY DEF FrontEndsInit, AnswersInv
  <1>5. BatchInv
    BY MaxRequestsAssumption DEF FrontEndsInit, BatchInv
  <1> QED
    BY <1>1, <1>2, <1>3, <1>4, <1>5 DEF FrontInv

\* What one more request adds to the history.
LEMMA MadeGrows ==
  ASSUME ExecInv, TellingTypes, MadeNow
  PROVE  /\ made' \in Seq(RequestRecords) /\ Len(made') = Len(made) + 1 /\ Len(made) \in Nat
         /\ DOMAIN made \subseteq DOMAIN made' /\ Request \in DOMAIN made'
         /\ \A k \in DOMAIN made : made'[k] = made[k] /\ k < Request
         /\ made'[Request] = RequestMade
  <1>1. charges \in Seq(Charges)
    BY DEF ExecInv, ExecTypeOK
  <1>2. charges \in Seq(Nat)
    BY <1>1, ChargesAssumption, SeqMonotonic
  <1>3. Len(charges) \in Nat /\ Total(charges) \in Nat
        /\ (IF charges = << >> THEN 0 ELSE charges[Len(charges)]) \in Nat
    BY <1>2, TotalType
  <1>4. RequestMade \in RequestRecords
    BY <1>3 DEF RequestMade, RequestRecords
  <1>5. made' = Append(made, RequestMade)
    BY DEF MadeNow, RequestMade
  <1> QED
    BY <1>4, <1>5 DEF TellingTypes, Request

\* The answers given before stay honest when another request is recorded.
LEMMA HonestyStays ==
  ASSUME ExecInv, TellingTypes, AnswersInv, MadeNow
  PROVE  \A k \in DOMAIN answers :
           answers[k].request \in DOMAIN made' /\ Honest(answers[k], made', frontEnd)
  BY MadeGrows DEF AnswersInv, Honest

\* The history and the answers when a front end answers.
LEMMA ReceivePreservesAnswers ==
  ASSUME ExecInv, TellingTypes, AnswersInv, phase = "replied", MadeNow, frontEnd' = frontEnd,
         \/ answers' = answers
         \/ AnswersHonestly
  PROVE  TellingTypes' /\ AnswersInv'
  <1> USE MadeGrows
  <1>1. \A k \in DOMAIN answers :
          answers[k].request \in DOMAIN made' /\ Honest(answers[k], made', frontEnd')
    BY HonestyStays
  <1>2. CASE answers' = answers
    BY <1>1, <1>2 DEF TellingTypes, AnswersInv
  <1>3. ASSUME NEW answer, TellsOfRequest(answer), answers' = Append(answers, answer)
        PROVE  TellingTypes' /\ AnswersInv'
    <2> DEFINE n == Len(answers)
    <2>1. answer \in AnswerRecords /\ answer.request = Request
      BY <1>3 DEF TellsOfRequest
    <2>2. /\ answers' \in Seq(AnswerRecords) /\ Len(answers') = n + 1 /\ n \in Nat
          /\ DOMAIN answers = 1 .. n /\ DOMAIN answers' = 1 .. n + 1
          /\ \A k \in 1 .. n : answers'[k] = answers[k]
          /\ answers'[n + 1] = answer
      BY <1>3, <2>1 DEF TellingTypes
    <2> HIDE DEF n
    <2>3. Honest(answer, made', frontEnd')
      <3>1. /\ made'[answer.request].invocations = Len(charges)
            /\ made'[answer.request].charged = Total(charges)
            /\ made'[answer.request].last = charges[Len(charges)]
        BY <2>1, RepliedFacts DEF RequestMade
      <3> QED
        BY <1>3, <3>1 DEF TellsOfRequest, Honest
    <2>4. ASSUME NEW k \in DOMAIN answers'
          PROVE  answers'[k].request \in DOMAIN made' /\ Honest(answers'[k], made', frontEnd')
      <3>1. CASE k \in 1 .. n
        BY <1>1, <2>2, <3>1
      <3>2. CASE k = n + 1
        BY <2>1, <2>2, <2>3, <3>2
      <3> QED
        BY <2>2, <3>1, <3>2
    <2>5. ASSUME NEW k \in 1 .. Len(answers') - 1
          PROVE  answers'[k].request < answers'[k + 1].request
      <3>1. CASE k \in 1 .. n - 1
        <4>1. k \in 1 .. n /\ k + 1 \in 1 .. n
          BY <2>2, <3>1
        <4> QED
          BY <2>2, <3>1, <4>1 DEF AnswersInv, n
      <3>2. CASE k = n
        <4>1. k \in DOMAIN answers
          BY <2>2, <2>5, <3>2
        <4>2. answers[k].request < Request
          BY <4>1 DEF AnswersInv
        <4> QED
          BY <2>1, <2>2, <3>2, <4>1, <4>2
      <3> QED
        BY <2>2, <2>5, <3>1, <3>2
    <2> QED
      BY <2>2, <2>4, <2>5 DEF TellingTypes, AnswersInv
  <1> QED
    BY <1>2, <1>3 DEF AnswersHonestly

\* A front end takes the reply.
LEMMA ReceivePreserves == FrontInv /\ Receive => FrontInv'
  <1> SUFFICES ASSUME FrontInv, Receive PROVE FrontInv'
    OBVIOUS
  <1> USE DEF FrontInv
  <1>1. ExecInv' /\ ReplyInv' /\ phase' = "idle"
    BY ReleasePreserves, NoRequestReply DEF Receive, Release, NoRequest
  <1>2. phase = "replied" /\ frontEnd' = frontEnd /\ MadeNow
    BY DEF Receive
  <1>3. \/ frontEnd = "infer_batch" /\ BatchRaises /\ answers' = answers
        \/ AnswersHonestly
    BY <1>2, ReceiveAnswers DEF Receive, BatchRaises
  <1>4. TellingTypes' /\ AnswersInv'
    BY <1>2, <1>3, ReceivePreservesAnswers
  <1>5. BatchInv'
    <2> SUFFICES ASSUME frontEnd = "infer_batch" PROVE BatchInv'
      BY <1>2 DEF BatchInv
    <2>1. batch = "pending" /\ Len(answers) = Len(made) /\ Len(made) # MaxRequests
      BY <1>2 DEF BatchInv
    <2>2. Len(made') = Len(made) + 1 /\ Len(made) \in Nat
      BY <1>2, MadeGrows
    <2>3. CASE BatchRaises
      BY <1>1, <2>1, <2>2, <2>3 DEF BatchRaises, BatchInv
    <2>4. CASE BatchGoesOn
      <3>1. Len(answers') = Len(answers) + 1
        BY <2>4 DEF BatchGoesOn, Answer, TellingTypes
      <3> QED
        BY <1>1, <2>1, <2>2, <2>4, <3>1, MaxRequestsAssumption DEF BatchGoesOn, BatchInv, Request
    <2> QED
      BY <2>3, <2>4 DEF Receive
  <1> QED
    BY <1>1, <1>4, <1>5

\* A cancelled request is recorded, and answered by nobody.
LEMMA InterruptedPreserves == FrontInv /\ Interrupted => FrontInv'
  <1> SUFFICES ASSUME FrontInv, Interrupted PROVE FrontInv'
    OBVIOUS
  <1> USE DEF FrontInv
  <1>1. ExecInv' /\ ReplyInv' /\ phase' = "idle"
    BY ReleasePreserves, NoRequestReply DEF Interrupted, Release, NoRequest
  <1>2. phase = "cancelled" /\ frontEnd' = frontEnd /\ answers' = answers /\ MadeNow
    BY DEF Interrupted
  <1>3. TellingTypes' /\ AnswersInv'
    <2>1. \A k \in DOMAIN answers :
            answers[k].request \in DOMAIN made' /\ Honest(answers[k], made', frontEnd')
      BY <1>2, HonestyStays
    <2> QED
      BY <1>2, <2>1, MadeGrows DEF TellingTypes, AnswersInv
  <1>4. BatchInv'
    <2>1. Len(made') = Len(made) + 1 /\ Len(made) \in Nat
      BY <1>2, MadeGrows
    <2> QED
      BY <1>1, <1>2, <2>1 DEF BatchInv, Interrupted
  <1> QED
    BY <1>1, <1>3, <1>4

\* Nothing is told while a request is under way.
LEMMA ToldStays ==
  ASSUME FrontInv, UNCHANGED tellingVars, ExecInv', ReplyInv',
         phase # "idle" \/ batch = "pending" \/ phase' = phase
  PROVE  FrontInv'
  <1>1. TellingTypes' /\ AnswersInv'
    BY DEF FrontInv, tellingVars, TellingTypes, AnswersInv
  <1>2. BatchInv'
    BY DEF FrontInv, tellingVars, BatchInv
  <1> QED
    BY <1>1, <1>2 DEF FrontInv

\* Every step preserves the invariant.
LEMMA FrontInvNext == FrontInv /\ [FrontEndsNext]_frontEndVars => FrontInv'
  <1> SUFFICES ASSUME FrontInv, [FrontEndsNext]_frontEndVars PROVE FrontInv'
    OBVIOUS
  <1>0. ExecInv /\ ReplyInv
    BY DEF FrontInv
  <1>1. CASE NextRequest
    <2>1. ExecInv' /\ ReplyInv'
      BY <1>0, <1>1, InferPreserves DEF NextRequest, Infer, ReplyInv
    <2> QED
      BY <1>1, <2>1, ToldStays DEF NextRequest
  <1>2. CASE Serve
    <2>1. ExecInv' /\ ReplyInv'
      BY <1>0, <1>2, ServePreservesReply, ExecInvNext DEF Serve, ExecNext
    <2>2. phase # "idle"
      BY <1>2 DEF Serve, ExecStep, Invoke, CallFails, CallReturns, BackoffEnds
    <2> QED
      BY <1>2, <2>1, <2>2, ToldStays DEF Serve
  <1>3. CASE Receive
    BY <1>3, ReceivePreserves
  <1>4. CASE Interrupted
    BY <1>4, InterruptedPreserves
  <1>5. CASE Cancel /\ UNCHANGED tellingVars
    <2>1. ExecInv' /\ ReplyInv'
      BY <1>0, <1>5, CancelPreserves DEF Cancel, ReplyInv
    <2> QED
      BY <1>5, <2>1, ToldStays DEF Cancel
  <1>6. CASE UNCHANGED frontEndVars
    <2>1. UNCHANGED execVars /\ UNCHANGED tellingVars
      BY <1>6 DEF frontEndVars
    <2>2. ExecInv' /\ ReplyInv'
      BY <1>0, <2>1, ExecInvNext DEF ReplyInv, execVars, requestVars
    <2> QED
      BY <2>1, <2>2, ToldStays DEF execVars, requestVars
  <1> QED
    BY <1>1, <1>2, <1>3, <1>4, <1>5, <1>6 DEF FrontEndsNext

-----------------------------------------------------------------------------
(* Theorems *)

\* The invariant of the front ends, of which that of the executor is a part.
THEOREM FrontEndsInvariant == FrontEndsSpec => []FrontInv
  BY FrontInvInit, FrontInvNext, PTL DEF FrontEndsSpec

\* No front end makes a request look cheaper than it was, answers it twice or
\* out of turn; a batch that returns answered everything, one that failed paid
\* for one request more.
THEOREM FrontEndsAreHonest == FrontEndsSpec => []FrontEndsReportHonestly
  <1>1. FrontInv => FrontEndsReportHonestly
    BY DEF FrontInv, AnswersInv, BatchInv, FrontEndsReportHonestly, Honest, AnswerIsHonest
  <1> QED
    BY <1>1, FrontEndsInvariant, PTL

\* Whatever calls it, the executor accounts for every charge and retries only
\* after a transient failure.
THEOREM CallersKeepTheExecutor ==
  FrontEndsSpec => [](ChainAccountsForCharges /\ RetriesOnlyAfterTransientFailure)
  <1>1. ExecInv => ChainAccountsForCharges /\ RetriesOnlyAfterTransientFailure
    BY InvBoundsRetries DEF ExecInv, PriceInv, KnownAmountsAreCharges, ChainAccountsForCharges
  <1> QED
    BY <1>1, FrontEndsInvariant, PTL DEF FrontInv
=============================================================================
