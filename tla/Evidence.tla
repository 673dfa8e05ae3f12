------------------------------ MODULE Evidence ------------------------------
(***************************************************************************)
(* The value objects of the cost evidence chain and the pure functions     *)
(* that build them: one provider attempt, one request trace, and the       *)
(* execution cost a trace is allowed to claim.                             *)
(*                                                                         *)
(* Amounts are natural numbers (micro-dollars); Unknown is Python's None.  *)
(* Tokens, latencies, timestamps and wording are abstracted: no property   *)
(* of the chain tells two of them apart.                                   *)
(***************************************************************************)
EXTENDS Integers, Sequences, Functions

CONSTANT Unknown    \* a monetary amount nobody has evidence for

ASSUME UnknownAssumption == Unknown \notin Nat

-----------------------------------------------------------------------------
(* Provider attempts *)

\* No error is recorded on an attempt or a trace (error_type is None).
NoError == "none"

SucceededAttempt == [outcome |-> "succeeded", cost |-> Unknown, error |-> NoError]

\* Mutant: a call that failed is taken to have cost nothing.
FailedAttemptIsFree(error) == [outcome |-> "failed", cost |-> 0, error |-> error]

FailedAttempt(error) == [outcome |-> "failed", cost |-> Unknown, error |-> error]

CostIsKnown(attempt) == attempt.cost # Unknown

AllCostsKnown(attempts) == \A i \in DOMAIN attempts : CostIsKnown(attempts[i])

\* The amounts of an attempt chain, position by position.
AttemptCosts(attempts) == [i \in DOMAIN attempts |-> attempts[i].cost]

\* sum(...) over a tuple of amounts.
Total(amounts) == SumFunction(amounts)

-----------------------------------------------------------------------------
(* Execution cost *)

KnownCost(amount) == [cost |-> amount, complete |-> TRUE]

UnknownCost == [cost |-> Unknown, complete |-> FALSE]

\* Mutant: the attempts without a price are left out of the sum.
ExecutionCostOfKnown(attempts, fallback, attemptCount) ==
  IF attempts = << >> /\ fallback = Unknown THEN UnknownCost
  ELSE KnownCost(Total([i \in DOMAIN attempts |->
         IF CostIsKnown(attempts[i]) THEN attempts[i].cost ELSE 0]))

\* What an attempt chain proves about the cost of the whole execution.
ExecutionCost(attempts, fallback, attemptCount) ==
  CASE attempts # << >> /\ AllCostsKnown(attempts) -> KnownCost(Total(AttemptCosts(attempts)))
    [] attempts # << >> /\ ~AllCostsKnown(attempts) -> UnknownCost
    [] attempts = << >> /\ attemptCount = 1 /\ fallback # Unknown -> KnownCost(fallback)
    [] attempts = << >> /\ attemptCount = 0 -> KnownCost(0)
    [] OTHER -> UnknownCost

-----------------------------------------------------------------------------
(* Request traces *)

\* len(attempts), or the dataclass default of one when the chain is empty.
AttemptCount(attempts) == IF attempts = << >> THEN 1 ELSE Len(attempts)

\* A trace as __post_init__ leaves it. "charged" is not in the code: it is
\* what the provider really charged for each invocation made for the request.
Trace(id, attempts, attemptCount, cost, error, charged) ==
  [ id |-> id, attempts |-> attempts, attemptCount |-> attemptCount,
    cost |-> cost.cost, complete |-> cost.complete, error |-> error,
    charged |-> charged ]

FromResponse(id, attempts, finalCost, charged) ==
  LET count == AttemptCount(attempts)
  IN  Trace(id, attempts, count, ExecutionCost(attempts, finalCost, count), NoError, charged)

FromError(id, attempts, error, charged) ==
  LET count == AttemptCount(attempts)
  IN  Trace(id, attempts, count, ExecutionCost(attempts, Unknown, count), error, charged)

\* A request refused before any provider was called.
NotCharged(id, error, charged) == Trace(id, << >>, 0, KnownCost(0), error, charged)

\* The checks of RequestTrace.__post_init__; the constructor raises otherwise.
\* The retry count is max(attemptCount - 1, 0) on every path that builds one.
TraceIsValid(t) ==
  /\ t.complete <=> t.cost # Unknown
  /\ t.attempts # << >> =>
       /\ t.complete <=> AllCostsKnown(t.attempts)
       /\ t.complete => t.cost = Total(AttemptCosts(t.attempts))
  /\ t.attempts = << >> /\ t.attemptCount > 0 /\ (t.error # NoError \/ t.attemptCount > 1)
       => ~t.complete
=============================================================================
