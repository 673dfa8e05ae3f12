----------------------- MODULE ProviderExecutor_proofs -----------------------
(***************************************************************************)
(* Proofs about ProviderExecutor, for every retry bound, every set of      *)
(* charges, every set of SDK errors and every pricing set-up.              *)
(*                                                                         *)
(* None of the invariants is inductive by itself: that an amount is the    *)
(* charge of its own invocation needs the chain and the charges to be as   *)
(* long as each other, and that retries are bounded needs to know that     *)
(* everything already in the chain failed for a transient reason.  ExecInv *)
(* puts these facts together, phase by phase.                              *)
(***************************************************************************)
EXTENDS ProviderExecutor, TLAPS

Transient(attempt) == attempt.outcome = "failed" /\ attempt.error \in RetryableErrors

Replies ==
  [kind : {"pending", "response", "provider_error", "exception"}, attempts : Seq(Attempt),
   error : ErrorTypes \cup {NoError}, cost : Charges \cup {Unknown}]

\* While the retry loop runs, everything in the chain failed transiently and
\* the bound is not reached.
LoopInv ==
  phase \in {"ready", "calling", "backoff", "cancelled"} =>
    /\ Len(attempts) < MaxAttempts
    /\ \A i \in DOMAIN attempts : Transient(attempts[i])

\* When it is over, that is true of all but the last attempt.
RepliedInv ==
  phase = "replied" =>
    /\ attempts # << >> /\ Len(attempts) <= MaxAttempts
    /\ \A i \in 1 .. Len(attempts) - 1 : Transient(attempts[i])
    /\ reply.kind = "provider_error" => ~CostIsKnown(attempts[Len(attempts)])
    /\ reply.kind = "exception" => reply.attempts = << >>

\* Chain and charges grow together; a reply exists only when replied.
LengthInv ==
  /\ phase = "idle" => attempts = << >> /\ charges = << >>
  /\ phase = "cancelled" => Len(charges) \in {Len(attempts), Len(attempts) + 1}
  /\ reply.kind = "pending" <=> phase # "replied"

\* A known amount is the charge at the same position, of a success.
PriceInv ==
  \A i \in DOMAIN attempts :
    CostIsKnown(attempts[i]) =>
      attempts[i].outcome = "succeeded" /\ i \in DOMAIN charges /\ attempts[i].cost = charges[i]

ExecInv ==
  /\ ExecTypeOK /\ EveryInvocationIsRecorded /\ LengthInv /\ LoopInv /\ RepliedInv /\ PriceInv

-----------------------------------------------------------------------------
(* What a new attempt looks like *)

\* Classification always yields one of the stable categories.
LEMMA ClassifyType == \A e \in SdkErrors : Classify(e) \in ErrorTypes
  BY SdkErrorsAssumption DEF Classify, ErrorTypes, RetryableErrors

\* A failed attempt is a well-formed attempt of unknown cost.
LEMMA FailedAttemptType ==
  ASSUME NEW error \in ErrorTypes
  PROVE  /\ FailedAttempt(error) \in Attempt
         /\ ~CostIsKnown(FailedAttempt(error))
         /\ FailedAttempt(error).outcome = "failed"
         /\ FailedAttempt(error).error = error
  BY DEF FailedAttempt, Attempt, CostIsKnown

\* A recorded success is a well-formed attempt; its cost is unknown until it
\* is priced.
LEMMA SucceededAttemptType ==
  /\ SucceededAttempt \in Attempt /\ ~CostIsKnown(SucceededAttempt)
  /\ \A cost \in Charges \cup {Unknown} :
       /\ [SucceededAttempt EXCEPT !.cost = cost] \in Attempt
       /\ [SucceededAttempt EXCEPT !.cost = cost].cost = cost
       /\ [SucceededAttempt EXCEPT !.cost = cost].outcome = "succeeded"
  /\ [SucceededAttempt EXCEPT !.error = "missing_usage"] \in Attempt
  /\ ~CostIsKnown([SucceededAttempt EXCEPT !.error = "missing_usage"])
  BY DEF SucceededAttempt, Attempt, CostIsKnown, ErrorTypes, RetryableErrors

-----------------------------------------------------------------------------
(* The invariant *)

\* It holds before the first request.
LEMMA ExecInvInit == ExecInit => ExecInv
  <1> SUFFICES ASSUME ExecInit PROVE ExecInv
    OBVIOUS
  <1>1. ExecTypeOK
    BY DEF ExecInit, ExecTypeOK, NoReply, NoError
  <1>2. EveryInvocationIsRecorded /\ LengthInv /\ LoopInv /\ RepliedInv /\ PriceInv
    BY MaxAttemptsAssumption
    DEF ExecInit, EveryInvocationIsRecorded, LengthInv, LoopInv, RepliedInv, PriceInv, NoReply
  <1> QED
    BY <1>1, <1>2 DEF ExecInv

\* A request arrives.
LEMMA InferPreserves == ExecInv /\ Infer => ExecInv'
  BY MaxAttemptsAssumption
  DEF ExecInv, ExecTypeOK, EveryInvocationIsRecorded, LengthInv, LoopInv, RepliedInv, PriceInv,
      Infer

\* The provider is called: one more charge, one record to come.
LEMMA InvokePreserves ==
  ASSUME NEW charge \in Charges, ExecInv, Invoke(charge)
  PROVE  ExecInv'
  <1>1. /\ Len(charges') = Len(charges) + 1
        /\ \A i \in DOMAIN charges : i \in DOMAIN charges' /\ charges'[i] = charges[i]
        /\ charges' \in Seq(Charges)
    BY DEF ExecInv, ExecTypeOK, Invoke
  <1>2. ExecTypeOK' /\ EveryInvocationIsRecorded' /\ LengthInv' /\ LoopInv' /\ RepliedInv'
    BY <1>1
    DEF ExecInv, ExecTypeOK, EveryInvocationIsRecorded, LengthInv, LoopInv, RepliedInv, Invoke
  <1>3. PriceInv'
    BY <1>1 DEF ExecInv, PriceInv, Invoke
  <1> QED
    BY <1>2, <1>3 DEF ExecInv

\* A failed call is recorded; the loop goes on only below the bound and after a
\* transient failure.
LEMMA CallFailsPreserves ==
  ASSUME NEW e \in SdkErrors, ExecInv, CallFails(e)
  PROVE  ExecInv'
  <1> DEFINE error == Classify(e)
             failure == FailedAttempt(error)
  <1>1. error \in ErrorTypes
    BY ClassifyType
  <1>2. failure \in Attempt /\ ~CostIsKnown(failure) /\ failure.outcome = "failed"
        /\ failure.error = error
    BY <1>1, FailedAttemptType
  <1> HIDE DEF error, failure
  <1>3. /\ phase = "calling"
        /\ attempts' = Append(attempts, failure)
        /\ UNCHANGED << pricing, charges >>
        /\ \/ /\ error \in RetryableErrors /\ Len(attempts') < MaxAttempts
              /\ phase' = "backoff" /\ reply' = reply
           \/ phase' = "replied" /\ reply' = ProviderError(attempts', error)
    BY DEF CallFails, error, failure
  <1>4. /\ attempts' \in Seq(Attempt)
        /\ Len(attempts') = Len(attempts) + 1
        /\ \A i \in DOMAIN attempts : attempts'[i] = attempts[i]
        /\ attempts'[Len(attempts')] = failure
    BY <1>2, <1>3 DEF ExecInv, ExecTypeOK
  <1>5. ExecTypeOK'
    <2>1. ProviderError(attempts', error) \in Replies
      BY <1>1, <1>4 DEF ProviderError, Replies
    <2>2. reply \in Replies
      BY DEF ExecInv, ExecTypeOK, Replies
    <2>3. reply' \in Replies
      BY <1>3, <2>1, <2>2
    <2> QED
      BY <1>3, <1>4, <2>3 DEF ExecInv, ExecTypeOK, Replies
  <1>6. EveryInvocationIsRecorded' /\ LengthInv'
    BY <1>3, <1>4 DEF ExecInv, ExecTypeOK, EveryInvocationIsRecorded, LengthInv, ProviderError
  <1>7. LoopInv' /\ RepliedInv'
    <2>1. Len(attempts') <= MaxAttempts /\ \A i \in 1 .. Len(attempts') - 1 : Transient(attempts'[i])
      BY <1>3, <1>4, MaxAttemptsAssumption DEF ExecInv, ExecTypeOK, LoopInv
    <2>2. CASE phase' = "backoff"
      <3>1. Transient(attempts'[Len(attempts')])
        BY <1>2, <1>3, <1>4, <2>2 DEF Transient
      <3> QED
        BY <1>3, <1>4, <2>1, <2>2, <3>1, MaxAttemptsAssumption
        DEF ExecInv, ExecTypeOK, LoopInv, RepliedInv
    <2>3. CASE phase' = "replied" /\ reply' = ProviderError(attempts', error)
      BY <1>2, <1>4, <2>1, <2>3 DEF ExecInv, ExecTypeOK, LoopInv, RepliedInv, ProviderError
    <2> QED
      BY <1>3, <2>2, <2>3
  <1>8. PriceInv'
    BY <1>2, <1>3, <1>4 DEF ExecInv, ExecTypeOK, PriceInv
  <1> QED
    BY <1>5, <1>6, <1>7, <1>8 DEF ExecInv

\* Appending a successful attempt and replying with anything well formed that
\* carries the chain, or an exception that carries none.
LEMMA ReplyPreserves ==
  ASSUME ExecInv, phase = "calling", phase' = "replied", UNCHANGED << pricing, charges >>,
         NEW attempt \in Attempt, attempts' = Append(attempts, attempt),
         CostIsKnown(attempt) =>
           attempt.outcome = "succeeded" /\ attempt.cost = charges[Len(charges)],
         reply' \in Replies, reply'.kind # "pending",
         \/ reply'.kind = "exception" /\ reply'.attempts = << >>
         \/ reply'.kind = "response" /\ reply'.attempts = attempts'
         \/ reply'.kind = "provider_error" /\ reply'.attempts = attempts' /\ ~CostIsKnown(attempt)
  PROVE  ExecInv'
  <1>1. /\ attempts' \in Seq(Attempt)
        /\ Len(attempts') = Len(attempts) + 1
        /\ \A i \in DOMAIN attempts : attempts'[i] = attempts[i]
        /\ attempts'[Len(attempts')] = attempt
    BY DEF ExecInv, ExecTypeOK
  <1>2. ExecTypeOK'
    BY <1>1 DEF ExecInv, ExecTypeOK, Replies
  <1>3. EveryInvocationIsRecorded' /\ LengthInv'
    BY <1>1 DEF ExecInv, ExecTypeOK, EveryInvocationIsRecorded, LengthInv
  <1>4. LoopInv'
    BY DEF LoopInv
  <1>5. RepliedInv'
    <2>1. Len(attempts') <= MaxAttempts /\ \A i \in 1 .. Len(attempts') - 1 : Transient(attempts'[i])
      BY <1>1, MaxAttemptsAssumption DEF ExecInv, ExecTypeOK, LoopInv
    <2>2. attempts' # << >>
      BY <1>1 DEF ExecInv, ExecTypeOK
    <2>3. reply'.kind = "provider_error" => ~CostIsKnown(attempts'[Len(attempts')])
      BY <1>1
    <2>4. reply'.kind = "exception" => reply'.attempts = << >>
      OBVIOUS
    <2> QED
      BY <2>1, <2>2, <2>3, <2>4 DEF RepliedInv
  <1>6. PriceInv'
    BY <1>1 DEF ExecInv, ExecTypeOK, PriceInv, EveryInvocationIsRecorded
  <1> QED
    BY <1>2, <1>3, <1>4, <1>5, <1>6 DEF ExecInv

\* The four ways a returned body is dealt with.
LEMMA CallReturnsPreserves ==
  ASSUME NEW body \in Bodies, ExecInv, CallReturns(body)
  PROVE  ExecInv'
  <1> USE SucceededAttemptType
  <1>1. /\ phase = "calling" /\ phase' = "replied" /\ UNCHANGED << pricing, charges >>
    BY DEF CallReturns
  <1>2. attempts \in Seq(Attempt) /\ Len(charges) = Len(attempts) + 1 /\ charges \in Seq(Charges)
    BY <1>1 DEF ExecInv, ExecTypeOK, EveryInvocationIsRecorded
  <1>3. charges[Len(charges)] \in Charges
    BY <1>2
  <1>4. CASE ReturnsUsage
    <2> DEFINE cost == IF pricing = "listed" THEN charges[Len(charges)] ELSE Unknown
               attempt == [SucceededAttempt EXCEPT !.cost = cost]
    <2>1. cost \in Charges \cup {Unknown}
      BY <1>3
    <2>2. attempt \in Attempt /\ attempt.cost = cost /\ attempt.outcome = "succeeded"
      BY <2>1
    <2>3. attempts' = Append(attempts, attempt) /\ reply' = Response(attempts', cost)
      BY <1>4 DEF ReturnsUsage
    <2>4. CostIsKnown(attempt) => attempt.cost = charges[Len(charges)]
      BY <2>2 DEF CostIsKnown
    <2> HIDE DEF attempt, cost
    <2>5. attempts' \in Seq(Attempt)
      BY <1>2, <2>2, <2>3
    <2>6. reply' \in Replies
      BY <2>1, <2>3, <2>5 DEF Response, Replies
    <2> QED
      BY <1>1, <2>2, <2>3, <2>4, <2>6, ReplyPreserves DEF Response
  <1>5. CASE ReturnsNoUsage
    <2> DEFINE attempt == [SucceededAttempt EXCEPT !.error = "missing_usage"]
    <2>1. attempt \in Attempt /\ ~CostIsKnown(attempt)
      OBVIOUS
    <2>2. attempts' = Append(attempts, attempt)
          /\ reply' = ProviderError(attempts', "missing_usage")
      BY <1>5 DEF ReturnsNoUsage
    <2> HIDE DEF attempt
    <2>3. attempts' \in Seq(Attempt)
      BY <1>2, <2>1, <2>2
    <2>4. reply' \in Replies
      BY <2>2, <2>3 DEF ProviderError, Replies, ErrorTypes
    <2> QED
      BY <1>1, <2>1, <2>2, <2>4, ReplyPreserves DEF ProviderError
  <1>6. CASE ReturnsUnusable(body)
    <2>1. attempts' = Append(attempts, SucceededAttempt) /\ reply' = PlainException
      BY <1>6 DEF ReturnsUnusable
    <2>2. PlainException \in Replies
      BY DEF PlainException, Replies, ErrorTypes
    <2> QED
      BY <1>1, <2>1, <2>2, ReplyPreserves DEF PlainException
  <1>7. CASE ReturnsUnpricedUsage
    <2>1. attempts' = Append(attempts, SucceededAttempt) /\ reply' = Response(attempts', Unknown)
      BY <1>7 DEF ReturnsUnpricedUsage
    <2>2. attempts' \in Seq(Attempt)
      BY <1>2, <2>1
    <2>3. reply' \in Replies
      BY <2>1, <2>2 DEF Response, Replies
    <2> QED
      BY <1>1, <2>1, <2>3, ReplyPreserves DEF Response
  <1> QED
    BY <1>4, <1>5, <1>6, <1>7 DEF CallReturns

\* The back-off before the next attempt is over.
LEMMA BackoffEndsPreserves == ExecInv /\ BackoffEnds => ExecInv'
  BY DEF ExecInv, ExecTypeOK, EveryInvocationIsRecorded, LengthInv, LoopInv, RepliedInv, PriceInv,
         BackoffEnds

\* The request is cancelled.
LEMMA CancelPreserves == ExecInv /\ Cancel => ExecInv'
  BY DEF ExecInv, ExecTypeOK, EveryInvocationIsRecorded, LengthInv, LoopInv, RepliedInv, PriceInv,
         Cancel

\* Without a request in hand the invariant holds, whatever came before.
LEMMA NoRequestInv == NoRequest /\ pricing' \in Pricings => ExecInv'
  <1> SUFFICES ASSUME NoRequest, pricing' \in Pricings PROVE ExecInv'
    OBVIOUS
  <1>1. ExecTypeOK'
    BY DEF ExecTypeOK, NoRequest, NoReply, NoError
  <1> QED
    BY <1>1, MaxAttemptsAssumption
    DEF ExecInv, EveryInvocationIsRecorded, LengthInv, LoopInv, RepliedInv, PriceInv,
        NoRequest, NoReply

\* The caller takes the reply.
LEMMA ReleasePreserves == ExecInv /\ Release => ExecInv'
  BY NoRequestInv DEF ExecInv, ExecTypeOK, Release

\* Every step of the executor preserves the invariant.
LEMMA ExecInvNext == ExecInv /\ [ExecNext]_execVars => ExecInv'
  <1> SUFFICES ASSUME ExecInv, [ExecNext]_execVars PROVE ExecInv'
    OBVIOUS
  <1>1. CASE Infer
    BY <1>1, InferPreserves
  <1>2. CASE ExecStep
    BY <1>2, InvokePreserves, CallFailsPreserves, CallReturnsPreserves, BackoffEndsPreserves
    DEF ExecStep
  <1>3. CASE Cancel
    BY <1>3, CancelPreserves
  <1>4. CASE Release
    BY <1>4, ReleasePreserves
  <1>5. CASE UNCHANGED execVars
    BY <1>5 DEF ExecInv, ExecTypeOK, EveryInvocationIsRecorded, LengthInv, LoopInv, RepliedInv,
                PriceInv, execVars, requestVars
  <1> QED
    BY <1>1, <1>2, <1>3, <1>4, <1>5 DEF ExecNext

-----------------------------------------------------------------------------
(* Theorems *)

\* The strengthened invariant holds in every reachable state.
THEOREM ExecInvariant == ExecSpec => []ExecInv
  BY ExecInvInit, ExecInvNext, PTL DEF ExecSpec

\* Type correctness of the executor.
THEOREM ExecTypes == ExecSpec => []ExecTypeOK
  <1>1. ExecInv => ExecTypeOK
    BY DEF ExecInv
  <1> QED
    BY <1>1, ExecInvariant, PTL

\* One attempt record per invocation, and every reply carries the whole chain.
THEOREM InvocationsRecorded == ExecSpec => []EveryInvocationIsRecorded
  <1>1. ExecInv => EveryInvocationIsRecorded
    BY DEF ExecInv
  <1> QED
    BY <1>1, ExecInvariant, PTL

\* No amount is ever attributed to an attempt the provider did not charge it
\* for.
THEOREM AmountsAreCharges == ExecSpec => []KnownAmountsAreCharges
  <1>1. ExecInv => KnownAmountsAreCharges
    BY DEF ExecInv, PriceInv, KnownAmountsAreCharges
  <1> QED
    BY <1>1, ExecInvariant, PTL

\* The chain of every reply accounts for what the provider charged.
THEOREM ChainsAccount == ExecSpec => []ChainAccountsForCharges
  <1>1. EveryInvocationIsRecorded /\ KnownAmountsAreCharges => ChainAccountsForCharges
    BY DEF ChainAccountsForCharges
  <1> QED
    BY <1>1, InvocationsRecorded, AmountsAreCharges, PTL

\* The invariant bounds the retries, phase by phase.
LEMMA InvBoundsRetries == ExecInv => RetriesOnlyAfterTransientFailure
  <1> SUFFICES ASSUME ExecInv PROVE RetriesOnlyAfterTransientFailure
    OBVIOUS
  <1> USE MaxAttemptsAssumption
  <1>1. CASE phase = "idle"
    BY <1>1 DEF ExecInv, LengthInv, RetriesOnlyAfterTransientFailure
  <1>2. CASE phase \in {"ready", "calling", "backoff", "cancelled"}
    BY <1>2 DEF ExecInv, ExecTypeOK, EveryInvocationIsRecorded, LengthInv, LoopInv, Transient,
                RetriesOnlyAfterTransientFailure
  <1>3. CASE phase = "replied"
    BY <1>3 DEF ExecInv, ExecTypeOK, EveryInvocationIsRecorded, RepliedInv, Transient,
                RetriesOnlyAfterTransientFailure
  <1> QED
    BY <1>1, <1>2, <1>3 DEF ExecInv, ExecTypeOK

\* The number of invocations is bounded by max_attempts, and each but the last
\* failed transiently.
THEOREM RetriesAreBounded == ExecSpec => []RetriesOnlyAfterTransientFailure
  BY InvBoundsRetries, ExecInvariant, PTL

\* Complete cost evidence is never claimed for a chain with a retry or a
\* failure in it.
THEOREM CompleteChains == ExecSpec => []CompleteChainIsOneInvocation
  <1>1. ExecInv => CompleteChainIsOneInvocation
    <2> SUFFICES ASSUME ExecInv, phase = "replied", reply.attempts # << >>,
                        AllCostsKnown(reply.attempts)
                 PROVE  Len(charges) = 1 /\ reply.kind = "response"
      BY DEF CompleteChainIsOneInvocation
    <2>1. reply.kind \in {"response", "provider_error"} /\ reply.attempts = attempts
      BY DEF ExecInv, ExecTypeOK, EveryInvocationIsRecorded, LengthInv, RepliedInv
    <2>2. attempts \in Seq(Attempt) /\ Len(attempts) \in Nat \ {0} /\ Len(charges) = Len(attempts)
      BY DEF ExecInv, ExecTypeOK, EveryInvocationIsRecorded, RepliedInv
    <2>3. \A i \in DOMAIN attempts : CostIsKnown(attempts[i]) /\ attempts[i].outcome = "succeeded"
      BY <2>1 DEF AllCostsKnown, ExecInv, PriceInv
    <2>4. Len(attempts) = 1
      <3> SUFFICES ASSUME Len(attempts) # 1 PROVE FALSE
        OBVIOUS
      <3>1. 1 \in 1 .. Len(attempts) - 1 /\ 1 \in DOMAIN attempts
        BY <2>2
      <3> QED
        BY <2>3, <3>1 DEF ExecInv, RepliedInv, Transient
    <2>5. reply.kind # "provider_error"
      BY <2>2, <2>3, <2>4 DEF ExecInv, RepliedInv
    <2> QED
      BY <2>1, <2>2, <2>4, <2>5
  <1> QED
    BY <1>1, ExecInvariant, PTL
=============================================================================
