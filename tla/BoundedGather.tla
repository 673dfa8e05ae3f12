----------------------------- MODULE BoundedGather -----------------------------
(***************************************************************************)
(* gather_limited of utils/concurrency.py: one task per coroutine, at most *)
(* `limit` of which are past a semaphore at once.                          *)
(*                                                                         *)
(* asyncio is external: gather starts its tasks in the order of its        *)
(* arguments and raises the first exception at once, while the other tasks *)
(* go on; a semaphore refuses a negative value, is granted in the order it *)
(* was asked for, and a slot that is released goes to the first that waits.*)
(***************************************************************************)
EXTENDS Integers, Sequences, SequencesExt, FiniteSets

CONSTANTS
  MaxJobs,   \* bound: coroutines of a call
  Limits     \* values of limit

ASSUME GatherAssumption == MaxJobs \in Nat /\ Limits \subseteq Int

VARIABLES
  limit,     \* the argument
  jobs,      \* how many coroutines were given
  started,   \* tasks that have started: the first ones
  waiting,   \* tasks that wait for the semaphore, first come first
  running,   \* tasks that hold it, their coroutine under way
  failed,    \* tasks whose coroutine raised
  results,   \* the list, of which only the task a result is from
  outcome    \* what the caller got

gatherVars == << limit, jobs, started, waiting, running, failed, results, outcome >>

GatherInit ==
  /\ limit = 0 /\ jobs = 0 /\ outcome = "idle"
  /\ started = 0 /\ waiting = << >> /\ running = {} /\ failed = {}
  /\ results = << >>

\* gather_limited is called: Semaphore(limit) raises ValueError before any
\* task exists.
CallGather(n, slots) ==
  /\ outcome = "idle"
  /\ limit' = slots /\ jobs' = n
  /\ outcome' = IF slots < 0 THEN "refused" ELSE "pending"
  /\ UNCHANGED << started, waiting, running, failed, results >>

\* Mutant: the coroutine runs without waiting for the semaphore.
StartJobUnbounded ==
  /\ outcome \notin {"idle", "refused"} /\ started < jobs
  /\ started' = started + 1
  /\ running' = running \cup {started'}
  /\ UNCHANGED << limit, jobs, waiting, failed, results, outcome >>

\* The next task starts and asks for the semaphore.
StartJob ==
  LET j == started + 1
  IN  /\ outcome \notin {"idle", "refused"} /\ j <= jobs
      /\ started' = j
      /\ IF Cardinality(running) < limit /\ waiting = << >>
           THEN running' = running \cup {j} /\ UNCHANGED waiting
           ELSE waiting' = Append(waiting, j) /\ UNCHANGED running
      /\ UNCHANGED << limit, jobs, failed, results, outcome >>

\* The task leaves the semaphore, and the first that waits enters it.
ReleaseSlot(j) ==
  IF waiting = << >> THEN running' = running \ {j} /\ UNCHANGED waiting
  ELSE running' = (running \ {j}) \cup {Head(waiting)} /\ waiting' = Tail(waiting)

\* Its coroutine returns.
JobReturns(j) ==
  /\ j \in running
  /\ results' = Append(results, j)
  /\ ReleaseSlot(j)
  /\ UNCHANGED << limit, jobs, started, failed, outcome >>

\* Mutant: a task that fails keeps its slot.
JobRaisesHolding(j) ==
  /\ j \in running
  /\ failed' = failed \cup {j}
  /\ outcome' = IF outcome = "pending" THEN "raised" ELSE outcome
  /\ running' = running \ {j} /\ limit' = limit - 1
  /\ UNCHANGED << jobs, started, waiting, results >>

\* Its coroutine raises: async with releases the semaphore all the same.
JobRaises(j) ==
  /\ j \in running
  /\ failed' = failed \cup {j}
  /\ outcome' = IF outcome = "pending" THEN "raised" ELSE outcome
  /\ ReleaseSlot(j)
  /\ UNCHANGED << limit, jobs, started, results >>

\* Every task has ended without an exception.
GatherReturns ==
  /\ outcome = "pending" /\ Len(results) = jobs
  /\ outcome' = "returned"
  /\ UNCHANGED << limit, jobs, started, waiting, running, failed, results >>

\* The tasks of a call run.
JobStep == StartJob \/ GatherReturns \/ \E j \in 1 .. MaxJobs : JobReturns(j) \/ JobRaises(j)

GatherNext == JobStep \/ \E n \in 0 .. MaxJobs, slots \in Limits : CallGather(n, slots)

-----------------------------------------------------------------------------
(* Properties *)

\* No more coroutines are under way than the limit allows, and no slot is idle
\* while one waits; what gather_limited returns has the result of every
\* coroutine exactly once, in the order of the arguments if the limit is one.
GatherKeepsItsPromise ==
  /\ Cardinality(running) <= limit \/ running = {}
  /\ waiting # << >> => Cardinality(running) = limit
  /\ outcome = "returned" =>
       /\ ToSet(results) = 1 .. jobs /\ IsInjective(results)
       /\ limit = 1 => results = [j \in 1 .. jobs |-> j]
=============================================================================
