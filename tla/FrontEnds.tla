------------------------------ MODULE FrontEnds ------------------------------
(***************************************************************************)
(* The callers of OpenAIBackend.infer outside a benchmark, and what each   *)
(* tells of the requests it made: infer_batch, which awaits one request    *)
(* after the other; the inference-smoke command (cli.py), which appends    *)
(* one trace to a log; and the /inference route of the API.  They share    *)
(* nothing: a behaviour is about one of them.                              *)
(*                                                                         *)
(* Every command and every HTTP request builds its own backend, all from   *)
(* the same environment here.                                              *)
(***************************************************************************)
EXTENDS ProviderExecutor

CONSTANT MaxRequests   \* the length of a batch; bound: commands or HTTP requests

ASSUME MaxRequestsAssumption == MaxRequests \in Nat \ {0}

VARIABLES
  frontEnd,   \* the one a behaviour is about
  answers,    \* the responses of the batch, the lines of the log, the HTTP responses
  batch,      \* what became of the batch
  made        \* history: what each request was charged, cancelled ones included

tellingVars == << frontEnd, answers, batch, made >>
frontEndVars == << execVars, tellingVars >>

FrontEndsInit ==
  /\ ExecInit
  /\ frontEnd \in {"infer_batch", "smoke", "api"}
  /\ answers = << >> /\ made = << >>
  /\ batch = "pending"

\* The next request of the batch, the next command, the next HTTP request.
NextRequest ==
  /\ Len(made) < MaxRequests /\ batch = "pending"
  /\ Infer
  /\ UNCHANGED tellingVars

Request == Len(made) + 1

MadeNow ==
  made' = Append(made, [ invocations |-> Len(charges), charged |-> Total(charges),
                         last |-> IF charges = << >> THEN 0 ELSE charges[Len(charges)] ])

\* The status is 0 for a response, an exit code or an HTTP status.
Answer(status, cost, attemptCount) ==
  answers' = Append(answers, [ request |-> Request, status |-> status, cost |-> cost,
                               attemptCount |-> attemptCount ])

-----------------------------------------------------------------------------
(* infer_batch *)

\* Mutant: a request that fails is left out of the batch.
BatchSkips ==
  /\ reply.kind # "response"
  /\ batch' = IF Request = MaxRequests THEN "returned" ELSE batch
  /\ UNCHANGED answers

\* The exception leaves the loop, and the responses before it are dropped.
BatchRaises ==
  /\ reply.kind # "response"
  /\ batch' = "raised"
  /\ UNCHANGED answers

BatchGoesOn ==
  /\ reply.kind = "response"
  /\ Answer(0, reply.cost, AttemptCount(reply.attempts))
  /\ batch' = IF Request = MaxRequests THEN "returned" ELSE batch

-----------------------------------------------------------------------------
(* inference-smoke *)

\* A plain exception is classified, and has no attempt chain.
SmokeTrace ==
  IF reply.kind = "response" THEN FromResponse(Request, reply.attempts, reply.cost, << >>)
  ELSE FromError(Request, reply.attempts, reply.error, << >>)

SmokeLogs ==
  LET trace == SmokeTrace
  IN  /\ Answer(IF trace.error = NoError THEN 0 ELSE 1, trace.cost, trace.attemptCount)
      /\ UNCHANGED batch

-----------------------------------------------------------------------------
(* POST /inference *)

\* _provider_error_status.
StatusOf(error) ==
  CASE error = "invalid_request" -> 400
    [] error = "rate_limit" -> 429
    [] error = "timeout" -> 504
    [] OTHER -> 502

\* Only a ProviderError is translated; of any other exception the client
\* learns that it happened.
ApiAnswers ==
  /\ CASE reply.kind = "response" -> Answer(200, reply.cost, AttemptCount(reply.attempts))
       [] reply.kind = "provider_error" ->
            Answer(StatusOf(reply.error), Unknown, AttemptCount(reply.attempts))
       [] OTHER -> Answer(500, Unknown, 0)
  /\ UNCHANGED batch

-----------------------------------------------------------------------------

\* infer has returned or raised.
Receive ==
  /\ phase = "replied"
  /\ \/ frontEnd = "infer_batch" /\ (BatchRaises \/ BatchGoesOn)
     \/ frontEnd = "smoke" /\ SmokeLogs
     \/ frontEnd = "api" /\ ApiAnswers
  /\ MadeNow /\ Release
  /\ UNCHANGED frontEnd

\* infer was cancelled and CancelledError, which no handler catches, ends the
\* batch, the command or the HTTP request without a word.
Interrupted ==
  /\ phase = "cancelled"
  /\ batch' = IF frontEnd = "infer_batch" THEN "cancelled" ELSE batch
  /\ MadeNow /\ Release
  /\ UNCHANGED << frontEnd, answers >>

Serve == ExecStep /\ UNCHANGED tellingVars

FrontEndsNext ==
  \/ NextRequest \/ Serve \/ Receive \/ Interrupted
  \/ Cancel /\ UNCHANGED tellingVars

FrontEndsSpec ==
  /\ FrontEndsInit /\ [][FrontEndsNext]_frontEndVars
  /\ WF_frontEndVars(Serve \/ Receive)

-----------------------------------------------------------------------------
(* Properties *)

\* What an answer says of its own request: every invocation counted, unless an
\* exception took the chain with it; a log line claims the charge of all of
\* them, a response that of the last.
AnswerIsHonest(answer) ==
  LET request == made[answer.request]
      truth == IF frontEnd = "smoke" THEN request.charged ELSE request.last
  IN  /\ answer.cost \in {Unknown, truth}
      /\ \/ answer.attemptCount = request.invocations
         \/ answer.status \in {500, 1} /\ answer.cost = Unknown

\* No front end makes a request look cheaper than it was, answers it twice or
\* out of turn; a batch that returns answers every request, and one that is
\* ended by a failure has paid for that request and none behind it.
FrontEndsReportHonestly ==
  /\ \A k \in DOMAIN answers : AnswerIsHonest(answers[k])
  /\ \A k \in 1 .. Len(answers) - 1 : answers[k].request < answers[k + 1].request
  /\ frontEnd = "infer_batch" =>
       /\ batch \in {"pending", "returned"} =>
            Len(answers) = Len(made) /\ (batch = "returned" <=> Len(made) = MaxRequests)
       /\ batch \in {"raised", "cancelled"} =>
            Len(made) = Len(answers) + 1 /\ phase = "idle"
=============================================================================
