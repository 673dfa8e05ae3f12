-------------------------- MODULE ProviderExecutor --------------------------
(***************************************************************************)
(* OpenAIBackend.infer: one inference request, retried a bounded number of *)
(* times, that must come back with one attempt record per invocation it    *)
(* made and a price only where usage and a price record prove it.          *)
(*                                                                         *)
(* The provider is the environment.  It may charge for any invocation it   *)
(* receives, a failed or timed-out one included, and decides the charge    *)
(* when the invocation reaches it; the client learns an amount only from   *)
(* the usage of a successful response.                                     *)
(***************************************************************************)
EXTENDS Evidence

CONSTANTS
  MaxAttempts,   \* RetryPolicy.max_attempts
  Charges,       \* what the provider may charge for one invocation
  SdkErrors,     \* the exceptions the SDK raises: [named, status] records,
                 \* status 0 for an exception without a status code
  Pricings       \* how the backend may be set up: "none", no pricing provider;
                 \* "unlisted", model not in the pricing table; "listed"

ASSUME MaxAttemptsAssumption == MaxAttempts \in Nat \ {0}
ASSUME ChargesAssumption == Charges \subseteq Nat /\ Charges # {}
ASSUME SdkErrorsAssumption == SdkErrors \subseteq [named : STRING, status : Nat]
ASSUME PricingsAssumption == Pricings \subseteq {"none", "unlisted", "listed"}

VARIABLES
  pricing,    \* the backend's pricing_provider, fixed by its constructor
  phase,      \* where the coroutine is suspended
  attempts,   \* the local list of ProviderAttempt of _create_completion
  reply,      \* what infer returned or raised
  charges     \* history: the charge of every invocation of this request

requestVars == << phase, attempts, reply, charges >>
execVars == << pricing, requestVars >>

-----------------------------------------------------------------------------
(* Error classification *)

RetryableErrors == {"timeout", "rate_limit", "server_error"}

\* Mutant: the exception's own name is taken for its category.
ClassifyByName(e) == e.named

\* classify_openai_error: the first matching rule wins, so a message that
\* mentions a timeout is a timeout whatever its status code.
Classify(e) ==
  CASE e.named = "timeout" -> "timeout"
    [] e.named = "authentication" \/ e.status \in {401, 403} -> "authentication"
    [] e.named = "rate_limit" \/ e.status = 429 -> "rate_limit"
    [] e.status \in 400 .. 499 -> "invalid_request"
    [] e.status >= 500 -> "server_error"
    [] OTHER -> "unknown"

ErrorTypes ==
  RetryableErrors \cup {"authentication", "invalid_request", "missing_usage", "unknown"}

-----------------------------------------------------------------------------
(* Replies *)

NoReply == [kind |-> "pending", attempts |-> << >>, error |-> NoError, cost |-> Unknown]

\* InferenceResponse: the chain, and the cost of the final response alone.
Response(chain, cost) ==
  [kind |-> "response", attempts |-> chain, error |-> NoError, cost |-> cost]

ProviderError(chain, error) ==
  [kind |-> "provider_error", attempts |-> chain, error |-> error, cost |-> Unknown]

\* An exception that is not a ProviderError carries no attempt chain; the
\* caller classifies it, and a plain ValueError or IndexError is "unknown".
PlainException ==
  [kind |-> "exception", attempts |-> << >>, error |-> "unknown", cost |-> Unknown]

-----------------------------------------------------------------------------
(* The request *)

ExecInit ==
  /\ pricing \in Pricings
  /\ phase = "idle"
  /\ attempts = << >>
  /\ reply = NoReply
  /\ charges = << >>

\* No request is in hand.
NoRequest ==
  /\ phase' = "idle"
  /\ attempts' = << >>
  /\ reply' = NoReply
  /\ charges' = << >>

\* infer is called.
Infer ==
  /\ phase = "idle"
  /\ phase' = "ready"
  /\ UNCHANGED << pricing, attempts, reply, charges >>

\* chat.completions.create is awaited: the invocation leaves, and whatever
\* becomes of it the provider may charge for it.
Invoke(charge) ==
  /\ phase = "ready"
  /\ phase' = "calling"
  /\ charges' = Append(charges, charge)
  /\ UNCHANGED << pricing, attempts, reply >>

\* Mutant: one retry too many.
CallFailsOnceMore(e) ==
  LET error == Classify(e)
      chain == Append(attempts, FailedAttempt(error))
  IN  /\ phase = "calling"
      /\ attempts' = chain
      /\ IF error \in RetryableErrors /\ Len(chain) <= MaxAttempts
           THEN phase' = "backoff" /\ reply' = reply
           ELSE phase' = "replied" /\ reply' = ProviderError(chain, error)
      /\ UNCHANGED << pricing, charges >>

\* Mutant: the loop gives up without raising the last error.
CallFailsSilently(e) ==
  LET error == Classify(e)
      chain == Append(attempts, FailedAttempt(error))
  IN  /\ phase = "calling"
      /\ IF error \in RetryableErrors /\ Len(chain) < MaxAttempts
           THEN phase' = "backoff" /\ attempts' = chain /\ UNCHANGED << reply, charges >>
           ELSE NoRequest
      /\ UNCHANGED pricing

\* The call raised: record a failed attempt, then retry or give up.
CallFails(e) ==
  LET error == Classify(e)
      chain == Append(attempts, FailedAttempt(error))
  IN  /\ phase = "calling"
      /\ attempts' = chain
      /\ IF error \in RetryableErrors /\ Len(chain) < MaxAttempts
           THEN phase' = "backoff" /\ reply' = reply
           ELSE phase' = "replied" /\ reply' = ProviderError(chain, error)
      /\ UNCHANGED << pricing, charges >>

\* asyncio.sleep(backoff_seconds * attempt_index) ends.
BackoffEnds ==
  /\ phase = "backoff"
  /\ phase' = "ready"
  /\ UNCHANGED << pricing, attempts, reply, charges >>

\* Mutant: the usage prices the first attempt of the chain.
ReturnsUsageOfFirst ==
  LET cost  == IF pricing = "listed" THEN charges[1] ELSE Unknown
      chain == Append(attempts, [SucceededAttempt EXCEPT !.cost = cost])
  IN  /\ attempts' = chain
      /\ reply' = Response(chain, cost)

\* The call returned a body with usage: price it if the table can.
ReturnsUsage ==
  LET cost  == IF pricing = "listed" THEN charges[Len(charges)] ELSE Unknown
      chain == Append(attempts, [SucceededAttempt EXCEPT !.cost = cost])
  IN  /\ attempts' = chain
      /\ reply' = Response(chain, cost)

\* The call returned a body without usage metadata.
ReturnsNoUsage ==
  LET chain == Append(attempts, [SucceededAttempt EXCEPT !.error = "missing_usage"])
  IN  /\ attempts' = chain
      /\ reply' = ProviderError(chain, "missing_usage")

\* The body has no choice, or its usage reports more cached than input tokens:
\* indexing it, or pricing it, raises after the attempt was recorded.
ReturnsUnusable(body) ==
  /\ body = "no_choices" \/ pricing # "none"
  /\ attempts' = Append(attempts, SucceededAttempt)
  /\ reply' = PlainException

\* Without a pricing provider nothing looks at the cached tokens.
ReturnsUnpricedUsage ==
  LET chain == Append(attempts, SucceededAttempt)
  IN  /\ pricing = "none"
      /\ attempts' = chain
      /\ reply' = Response(chain, Unknown)

CallReturns(body) ==
  /\ phase = "calling"
  /\ \/ body = "usage" /\ ReturnsUsage
     \/ body = "no_usage" /\ ReturnsNoUsage
     \/ body \in {"no_choices", "cached_exceeds_input"} /\ ReturnsUnusable(body)
     \/ body = "cached_exceeds_input" /\ ReturnsUnpricedUsage
  /\ phase' = "replied"
  /\ UNCHANGED << pricing, charges >>

Bodies == {"usage", "no_usage", "no_choices", "cached_exceeds_input"}

\* The task is cancelled while it awaits: CancelledError passes through, and
\* neither the invocation in flight nor the chain before it is reported.
Cancel ==
  /\ phase \in {"calling", "backoff"}
  /\ phase' = "cancelled"
  /\ UNCHANGED << pricing, attempts, reply, charges >>

\* The caller has taken the response or the exception.
Release ==
  /\ phase \in {"replied", "cancelled"}
  /\ NoRequest
  /\ UNCHANGED pricing

\* The steps of the coroutine between its call and its reply.
ExecStep ==
  \/ \E charge \in Charges : Invoke(charge)
  \/ \E e \in SdkErrors : CallFails(e)
  \/ \E body \in Bodies : CallReturns(body)
  \/ BackoffEnds

ExecNext == Infer \/ ExecStep \/ Cancel \/ Release

\* The client is built with a timeout, so a call in flight returns or raises;
\* the event loop runs a coroutine that is ready.  Nothing makes the caller
\* issue another request.
ExecSpec == ExecInit /\ [][ExecNext]_execVars /\ WF_execVars(ExecStep)

-----------------------------------------------------------------------------
(* Properties *)

Attempt ==
  [outcome : {"succeeded", "failed"}, cost : Charges \cup {Unknown},
   error : ErrorTypes \cup {NoError}]

\* Every variable holds a value of the shape the code gives it.
ExecTypeOK ==
  /\ pricing \in Pricings
  /\ phase \in {"idle", "ready", "calling", "backoff", "replied", "cancelled"}
  /\ attempts \in Seq(Attempt)
  /\ charges \in Seq(Charges)
  /\ reply \in [kind : {"pending", "response", "provider_error", "exception"},
                attempts : Seq(Attempt), error : ErrorTypes \cup {NoError},
                cost : Charges \cup {Unknown}]

\* Every invocation leaves exactly one attempt record, in order, the one in
\* flight excepted (ProviderCallResult: "every local provider invocation used
\* to obtain it"), and a reply that carries a chain carries all of it.
EveryInvocationIsRecorded ==
  /\ phase # "cancelled" =>
       Len(charges) = Len(attempts) + (IF phase = "calling" THEN 1 ELSE 0)
  /\ reply.kind \in {"response", "provider_error"} => reply.attempts = attempts

\* A priced attempt is priced at what the provider charged for that very
\* invocation: retries never shift an amount to another attempt, and a failed
\* attempt is never priced.
KnownAmountsAreCharges ==
  \A i \in DOMAIN attempts :
    CostIsKnown(attempts[i]) =>
      attempts[i].outcome = "succeeded" /\ attempts[i].cost = charges[i]

\* What a reply says of the provider can be trusted: retries neither lose an
\* invocation nor shift an amount to another.
ChainAccountsForCharges == EveryInvocationIsRecorded /\ KnownAmountsAreCharges

\* The provider is called again only after a transient failure and never more
\* than max_attempts times: an invocation in the chain that is not the last
\* one failed, with a retryable category.
RetriesOnlyAfterTransientFailure ==
  /\ Len(charges) <= MaxAttempts
  /\ \A i \in 1 .. Len(charges) - 1 :
       attempts[i].outcome = "failed" /\ attempts[i].error \in RetryableErrors

\* A chain whose every cost is known is a single priced invocation: a request
\* that was ever retried, or failed, has no complete cost evidence.
CompleteChainIsOneInvocation ==
  phase = "replied" /\ reply.attempts # << >> /\ AllCostsKnown(reply.attempts)
    => Len(charges) = 1 /\ reply.kind = "response"

\* Once called, infer answers unless its caller cancels it: the retry loop
\* ends.
InferAnswers == (phase = "ready") ~> (phase \in {"replied", "cancelled"})
=============================================================================
