------------------------- MODULE EvidenceLogs_proofs -------------------------
(***************************************************************************)
(* Proofs about BenchmarkRun, and about what is made of the evidence of a  *)
(* run: what Reconciliation derives from the rows in the ledger, and what  *)
(* EvidenceLogs reads back from the log files.  They hold for every        *)
(* workload size, retry bound, set of charges and errors, budget, tagging  *)
(* of the items, and any number of crashes, restarts, failing and cut      *)
(* writes.                                                                 *)
(*                                                                         *)
(* The run: the argument about claims never adds anything up: a chain      *)
(* whose every cost is known is the very sequence of charges (ExecInv), so *)
(* both have the same Total; likewise the traces of a complete run, claim  *)
(* by claim.  That a total is an amount, and what the empty one is, is in  *)
(* Evidence_proofs.  Four invariants, each inductive on its own or over    *)
(* the one before it: RunInv (claims), ShapeInv (records), FilesInv        *)
(* (memory against the files), CallsInv (requests against the log).        *)
(*                                                                         *)
(* Derived evidence: a trace that claims its cost prices every attempt at  *)
(* the charge of its own invocation, and nothing is charged without a      *)
(* route, so what is attributed to a part of the attempts, of the requests *)
(* or of the tags is what was charged for that part.  That the segments    *)
(* add up to the report is a sum over ids taken apart by tag, against the  *)
(* sum over positions that made the report.                                *)
(*                                                                         *)
(* Files: as long as every line of one parses it is the log, record for    *)
(* record, perhaps with one more whose newline is missing; and a line that *)
(* once failed to parse never parses again, since all that can happen to a *)
(* line is more text.                                                      *)
(***************************************************************************)
EXTENDS EvidenceLogs, ProviderExecutor_proofs, Evidence_proofs

\* The amount a trace may honestly claim is the total of its charges.
Sums == {Total(charged) : charged \in Seq(Charges)}

HonestTraces ==
  { t \in [ id : Nat \X Nat, attempts : Seq(Attempt), attemptCount : Nat,
            cost : Sums \cup {Unknown}, complete : BOOLEAN,
            error : ErrorTypes \cup {NoError, "budget_violation"}, charged : Seq(Charges) ] :
    t.complete => t.cost = Total(t.charged) }

\* The true total of a list of traces.
TrueTotal(list) == Total([i \in DOMAIN list |-> Total(list[i].charged)])

HonestReport(rep, list) == rep.complete => rep.cost = TrueTotal(list)

\* No request is in hand when the next item is routed and admitted; the trace
\* built from a finished one waits to be logged.
PhaseInv ==
  /\ pc \in {"route", "admit"} => phase = "idle"
  /\ pc = "log" => phase \in {"idle", "replied"} /\ pending \in HonestTraces

EvidenceInv ==
  /\ traces \in Seq(HonestTraces) /\ requestLog \in Seq(HonestTraces)
  /\ pc = "record" => HonestReport(report, traces)
  /\ stored # NoRecord \/ pc = "contexts" =>
       /\ DOMAIN stored = {"report", "traces", "routes", "contexts"}
       /\ stored.traces \in Seq(HonestTraces) /\ HonestReport(stored.report, stored.traces)

CounterInv == index \in Nat /\ incarnation \in Nat

RunInv == ExecInv /\ PhaseInv /\ EvidenceInv /\ CounterInv

-----------------------------------------------------------------------------
(* Sums and claims *)

\* A finished chain of known costs is the sequence of charges.
LEMMA KnownChainIsCharges ==
  ASSUME ExecInv, phase = "replied", AllCostsKnown(attempts)
  PROVE  AttemptCosts(attempts) = charges
  <1>1. attempts \in Seq(Attempt) /\ charges \in Seq(Charges) /\ Len(charges) = Len(attempts)
    BY DEF ExecInv, ExecTypeOK, EveryInvocationIsRecorded
  <1>2. \A i \in DOMAIN attempts : attempts[i].cost = charges[i]
    BY DEF ExecInv, PriceInv, AllCostsKnown
  <1>3. DOMAIN attempts = DOMAIN charges
    BY <1>1
  <1>4. charges = [i \in DOMAIN charges |-> charges[i]]
    BY <1>1
  <1> QED
    BY <1>2, <1>3, <1>4 DEF AttemptCosts

\* What a finished chain proves about the cost is true.
LEMMA ChainCostIsTrue ==
  ASSUME ExecInv, phase = "replied", attempts # << >>, NEW fallback, NEW count \in Nat
  PROVE  LET cost == ExecutionCost(attempts, fallback, count)
         IN  \/ cost = KnownCost(Total(charges))
             \/ cost = UnknownCost
  <1>1. CASE AllCostsKnown(attempts)
    BY <1>1, KnownChainIsCharges DEF ExecutionCost
  <1>2. CASE ~AllCostsKnown(attempts)
    BY <1>2 DEF ExecutionCost
  <1> QED
    BY <1>1, <1>2

\* Without a chain and without a known final cost one invocation is assumed
\* and nothing is claimed.
LEMMA NoChainNoClaim == ExecutionCost(<< >>, Unknown, 1) = UnknownCost
  BY DEF ExecutionCost

\* A trace whose claim is unknown, or the true total, is honest.
LEMMA TraceIsHonest ==
  ASSUME NEW id \in Nat \X Nat, NEW chain \in Seq(Attempt), NEW count \in Nat,
         NEW error \in ErrorTypes \cup {NoError, "budget_violation"},
         NEW charged \in Seq(Charges), NEW cost,
         cost = UnknownCost \/ cost = KnownCost(Total(charged))
  PROVE  Trace(id, chain, count, cost, error, charged) \in HonestTraces
  <1> DEFINE t == Trace(id, chain, count, cost, error, charged)
  <1>1. /\ cost.cost \in Sums \cup {Unknown} /\ cost.complete \in BOOLEAN
        /\ cost.complete => cost.cost = Total(charged)
    <2>1. Total(charged) \in Sums
      BY DEF Sums
    <2>2. CASE cost = UnknownCost
      BY <2>2 DEF UnknownCost
    <2>3. CASE cost = KnownCost(Total(charged))
      BY <2>1, <2>3 DEF KnownCost
    <2> QED
      BY <2>2, <2>3
  <1>2. t = [ id |-> id, attempts |-> chain, attemptCount |-> count, cost |-> cost.cost,
              complete |-> cost.complete, error |-> error, charged |-> charged ]
    BY DEF Trace
  <1>3. t.complete => t.cost = Total(t.charged)
    BY <1>1, <1>2
  <1> QED
    BY <1>1, <1>2, <1>3 DEF HonestTraces

\* Chains count at least one attempt.
LEMMA AttemptCountType == \A chain \in Seq(Attempt) : AttemptCount(chain) \in Nat
  BY DEF AttemptCount

\* Every outcome of infer becomes an honest trace.
LEMMA FinishedTraceIsHonest ==
  ASSUME RunInv, FinishItem
  PROVE  pending' \in HonestTraces
  <1>1. /\ phase = "replied" /\ ExecInv /\ request \in Nat \X Nat
        /\ attempts \in Seq(Attempt) /\ attempts # << >> /\ charges \in Seq(Charges)
    BY DEF FinishItem, RunInv, CounterInv, ExecInv, ExecTypeOK, RepliedInv, request
  <1>2. NoError \in ErrorTypes \cup {NoError, "budget_violation"}
        /\ "unknown" \in ErrorTypes \cup {NoError, "budget_violation"}
    BY DEF ErrorTypes
  <1>3. << >> \in Seq(Attempt) /\ AttemptCount(<< >>) = 1
    BY DEF AttemptCount
  <1>4. CASE Evaluated
    <2>1. reply.attempts = attempts
      BY <1>1, <1>4 DEF Evaluated, ExecInv, EveryInvocationIsRecorded
    <2> QED
      BY <1>1, <1>2, <1>4, <2>1, AttemptCountType, ChainCostIsTrue, TraceIsHonest
      DEF Evaluated, FromResponse
  <1>5. CASE EvaluationRaises
    BY <1>1, <1>2, <1>3, <1>5, NoChainNoClaim, TraceIsHonest DEF EvaluationRaises, FromError
  <1>6. CASE ProviderFailed
    <2>1. reply.error \in ErrorTypes \cup {NoError, "budget_violation"}
      BY DEF RunInv, ExecInv, ExecTypeOK
    <2>2. CASE reply.kind = "provider_error"
      <3>1. reply.attempts = attempts
        BY <2>2 DEF RunInv, ExecInv, EveryInvocationIsRecorded
      <3> QED
        BY <1>1, <1>6, <2>1, <3>1, AttemptCountType, ChainCostIsTrue, TraceIsHonest
        DEF ProviderFailed, FromError
    <2>3. CASE reply.kind = "exception"
      <3>1. reply.attempts = << >>
        BY <1>1, <2>3 DEF ExecInv, RepliedInv
      <3> QED
        BY <1>1, <1>3, <1>6, <2>1, <3>1, NoChainNoClaim, TraceIsHonest
        DEF ProviderFailed, FromError
    <2> QED
      BY <1>6, <2>2, <2>3 DEF ProviderFailed
  <1> QED
    BY <1>4, <1>5, <1>6 DEF FinishItem

\* A refused request was charged nothing, and says so.
LEMMA RefusedTraceIsHonest ==
  ASSUME RunInv, Refuse
  PROVE  pending' \in HonestTraces
  <1>1. charges = << >> /\ request \in Nat \X Nat
    BY DEF RunInv, PhaseInv, ExecInv, LengthInv, CounterInv, Refuse, request
  <1>2. pending' = Trace(request, << >>, 0, KnownCost(0), "budget_violation", << >>)
    BY <1>1 DEF Refuse, NotCharged
  <1>3. KnownCost(0) = KnownCost(Total(<< >>)) /\ << >> \in Seq(Attempt) /\ << >> \in Seq(Charges)
    BY EmptyTotal
  <1> QED
    BY <1>1, <1>2, <1>3, TraceIsHonest

\* A request whose budget could not be checked claims nothing.
LEMMA RejectedTraceIsHonest ==
  ASSUME RunInv, FailUncalled
  PROVE  pending' \in HonestTraces
  <1>1. request \in Nat \X Nat /\ charges \in Seq(Charges)
    BY DEF RunInv, ExecInv, ExecTypeOK, CounterInv, request
  <1>2. << >> \in Seq(Attempt) /\ AttemptCount(<< >>) = 1
        /\ "unknown" \in ErrorTypes \cup {NoError, "budget_violation"}
    BY DEF AttemptCount, ErrorTypes
  <1> QED
    BY <1>1, <1>2, NoChainNoClaim, TraceIsHonest DEF FailUncalled, FromError

\* A report of honest traces is honest: claim by claim the totals agree.
LEMMA SummaryIsHonest ==
  ASSUME traces \in Seq(HonestTraces)
  PROVE  HonestReport(Summarize, traces)
  <1> SUFFICES ASSUME Summarize.complete PROVE Summarize.cost = TrueTotal(traces)
    BY DEF HonestReport
  <1>1. \A i \in DOMAIN traces : traces[i].complete
    BY DEF Summarize
  <1>2. \A i \in DOMAIN traces : traces[i].cost = Total(traces[i].charged)
    BY <1>1 DEF HonestTraces
  <1>3. AttemptCosts(traces) = [i \in DOMAIN traces |-> Total(traces[i].charged)]
    BY <1>2 DEF AttemptCosts
  <1> QED
    BY <1>1, <1>3 DEF Summarize, TrueTotal

-----------------------------------------------------------------------------
(* The invariant *)

\* It holds before the first start.
LEMMA RunInvInit == Init => RunInv
  <1> SUFFICES ASSUME Init PROVE RunInv
    OBVIOUS
  <1>1. ExecInv
    BY ExecInvInit DEF Init
  <1> QED
    BY <1>1 DEF Init, RunInv, PhaseInv, EvidenceInv, CounterInv

\* A start or a crash forgets everything but the files.
LEMMA LifeCyclePreserves == RunInv /\ (Start \/ Crash) => RunInv'
  <1> SUFFICES ASSUME RunInv, Start \/ Crash PROVE RunInv'
    OBVIOUS
  <1>1. ExecInv' /\ phase' = "idle"
    BY NoRequestInv DEF Start, Crash, NoRequest, RunInv, ExecInv, ExecTypeOK
  <1>2. /\ UNCHANGED << requestLog, stored >> /\ traces' = << >> /\ pc' \in {"route", "down"}
        /\ index' = 1 /\ incarnation' \in {incarnation, incarnation + 1}
    BY DEF Start, Crash, FreshMemory, files, history
  <1>3. EvidenceInv'
    BY <1>2 DEF RunInv, EvidenceInv, HonestReport, TrueTotal
  <1>4. PhaseInv' /\ CounterInv'
    BY <1>1, <1>2 DEF RunInv, PhaseInv, CounterInv
  <1> QED
    BY <1>1, <1>3, <1>4 DEF RunInv

\* A step that does not touch the executor keeps its invariant.
LEMMA ExecUntouched == ExecInv /\ UNCHANGED execVars => ExecInv'
  BY ExecInvNext

\* A step that writes no evidence keeps what is written honest.
LEMMA EvidenceUntouched ==
  ASSUME EvidenceInv, UNCHANGED << traces, requestLog, stored >>,
         pc' \notin {"record", "contexts"}
  PROVE  EvidenceInv'
  BY DEF EvidenceInv, HonestReport, TrueTotal

\* Routing writes no evidence and calls no provider.
LEMMA RoutingPreserves ==
  ASSUME RunInv, (\E cost \in Estimates : RouteItem(cost)) \/ RouterRaises
  PROVE  RunInv'
  <1>1. /\ UNCHANGED << execVars, traces, requestLog, stored, index, incarnation >>
        /\ pc = "route" /\ pc' \in {"admit", "aborted"}
    BY DEF RouteItem, RouterRaises, files, history
  <1>2. ExecInv' /\ EvidenceInv' /\ CounterInv'
    BY <1>1, ExecUntouched, EvidenceUntouched DEF RunInv, CounterInv
  <1>3. PhaseInv'
    BY <1>1 DEF RunInv, PhaseInv, execVars, requestVars
  <1> QED
    BY <1>2, <1>3 DEF RunInv

\* Editing the workload file changes nothing the invariant speaks of.
LEMMA EditPreserves ==
  ASSUME RunInv, EditWorkload
  PROVE  RunInv'
  <1>1. UNCHANGED << execVars, pc, pending, traces, report, requestLog, stored, index, incarnation >>
    BY DEF EditWorkload, memory, files, history
  <1>2. ExecInv' /\ CounterInv' /\ PhaseInv'
    BY <1>1, ExecUntouched DEF RunInv, CounterInv, PhaseInv, execVars, requestVars
  <1>3. EvidenceInv'
    BY <1>1 DEF RunInv, EvidenceInv, HonestReport, TrueTotal
  <1> QED
    BY <1>2, <1>3 DEF RunInv

\* Admission: a called provider, or an honest trace of a refusal.
LEMMA AdmissionPreserves ==
  ASSUME RunInv, Admit \/ Refuse \/ FailUncalled
  PROVE  RunInv'
  <1>1. /\ UNCHANGED << traces, requestLog, stored, index, incarnation >>
        /\ pc' \in {"infer", "log"}
    BY DEF Admit, Refuse, FailUncalled, files, history
  <1>2. EvidenceInv' /\ CounterInv'
    BY <1>1, EvidenceUntouched DEF RunInv, CounterInv
  <1>3. CASE Admit
    <2>1. ExecInv'
      BY <1>3, InferPreserves DEF Admit, RunInv
    <2>2. PhaseInv'
      BY <1>3 DEF Admit, PhaseInv
    <2> QED
      BY <1>2, <2>1, <2>2 DEF RunInv
  <1>4. CASE Refuse \/ FailUncalled
    <2>1. ExecInv' /\ UNCHANGED phase /\ phase = "idle"
      BY <1>4, ExecUntouched DEF Refuse, FailUncalled, RunInv, PhaseInv, execVars, requestVars
    <2>2. pending' \in HonestTraces
      BY <1>4, RefusedTraceIsHonest, RejectedTraceIsHonest
    <2>3. pc' = "log"
      BY <1>4 DEF Refuse, FailUncalled
    <2>4. pending' \in HonestTraces'
      BY <2>2 DEF HonestTraces
    <2>5. PhaseInv'
      BY <2>1, <2>3, <2>4 DEF PhaseInv
    <2> QED
      BY <1>2, <2>1, <2>5 DEF RunInv
  <1> QED
    BY <1>3, <1>4

\* The executor's own steps.
LEMMA ExecutePreserves ==
  ASSUME RunInv, Execute
  PROVE  RunInv'
  <1>1. /\ UNCHANGED << pc, pending, traces, requestLog, stored, index, incarnation >>
        /\ pc = "infer" /\ ExecStep
    BY DEF Execute, memory, files
  <1>2. ExecInv'
    BY <1>1, ExecInvNext DEF RunInv, ExecNext
  <1>3. EvidenceInv' /\ CounterInv' /\ PhaseInv'
    BY <1>1, EvidenceUntouched DEF RunInv, CounterInv, PhaseInv
  <1> QED
    BY <1>2, <1>3 DEF RunInv

\* What infer returned or raised becomes an honest trace.
LEMMA FinishPreserves ==
  ASSUME RunInv, FinishItem
  PROVE  RunInv'
  <1>1. /\ UNCHANGED << execVars, traces, requestLog, stored, index, incarnation >>
        /\ pc' \in {"log", "aborted"} /\ phase = "replied"
    BY DEF FinishItem, files, history
  <1>2. ExecInv' /\ EvidenceInv' /\ CounterInv'
    BY <1>1, ExecUntouched, EvidenceUntouched DEF RunInv, CounterInv
  <1>3. pending' \in HonestTraces
    BY FinishedTraceIsHonest
  <1>4. PhaseInv'
    BY <1>1, <1>3 DEF PhaseInv, execVars, requestVars
  <1> QED
    BY <1>2, <1>4 DEF RunInv

\* An honest trace is added to the list and to the log.
LEMMA LogPreserves ==
  ASSUME RunInv, LogTrace
  PROVE  RunInv'
  <1>1. pending \in HonestTraces /\ phase \in {"idle", "replied"}
    BY DEF RunInv, PhaseInv, LogTrace
  <1>2. traces' \in Seq(HonestTraces) /\ requestLog' \in Seq(HonestTraces)
    BY <1>1 DEF RunInv, EvidenceInv, LogTrace
  <1>3. pc' \in {"summarize", "route"} /\ UNCHANGED << stored, incarnation >> /\ index' = index + 1
    BY DEF LogTrace, history
  <1>4. EvidenceInv'
    BY <1>2, <1>3 DEF RunInv, EvidenceInv, HonestReport, TrueTotal
  <1>5. ExecInv' /\ phase' = "idle"
    <2>1. CASE phase = "replied"
      BY <2>1, ReleasePreserves DEF LogTrace, RunInv, Release, NoRequest
    <2>2. CASE phase = "idle"
      BY <2>2, ExecUntouched DEF LogTrace, RunInv, execVars, requestVars
    <2> QED
      BY <1>1, <2>1, <2>2
  <1>6. PhaseInv' /\ CounterInv'
    BY <1>3, <1>5 DEF RunInv, PhaseInv, CounterInv
  <1> QED
    BY <1>4, <1>5, <1>6 DEF RunInv

\* The report of honest traces is honest, and is stored with them.
LEMMA EndOfRunPreserves ==
  ASSUME RunInv, WriteReport \/ RecordRun \/ RecordContexts
  PROVE  RunInv'
  <1>1. /\ UNCHANGED << execVars, traces, requestLog, index, incarnation >>
        /\ pc' \in {"record", "contexts", "done", "aborted"}
    BY DEF WriteReport, RecordRun, RecordContexts, memory, files, history
  <1>2. ExecInv' /\ CounterInv' /\ PhaseInv'
    BY <1>1, ExecUntouched DEF RunInv, CounterInv, PhaseInv
  <1>3. EvidenceInv'
    <2>1. CASE WriteReport
      <3>1. /\ HonestReport(report', traces) /\ UNCHANGED stored
            /\ pc' # "contexts"
        BY <2>1, SummaryIsHonest DEF WriteReport, RunInv, EvidenceInv, files
      <3> QED
        BY <1>1, <3>1 DEF RunInv, EvidenceInv, HonestReport, TrueTotal
    <2>2. CASE RecordRun
      BY <1>1, <2>2 DEF RecordRun, RunInv, EvidenceInv, HonestReport, TrueTotal, memory
    <2>3. CASE RecordContexts
      <3>1. pc' \in {"done", "aborted"} /\ pc = "contexts"
        BY <2>3 DEF RecordContexts
      <3>2. stored' = stored \/ stored' = [stored EXCEPT !.contexts = contexts]
        BY <2>3 DEF RecordContexts
      <3> QED
        BY <1>1, <3>1, <3>2 DEF RunInv, EvidenceInv, HonestReport, TrueTotal
    <2> QED
      BY <2>1, <2>2, <2>3
  <1> QED
    BY <1>2, <1>3 DEF RunInv

\* Every step of the run preserves the invariant.
LEMMA RunInvNext == RunInv /\ [Next]_vars => RunInv'
  <1> SUFFICES ASSUME RunInv, [Next]_vars PROVE RunInv'
    OBVIOUS
  <1>1. CASE Start \/ Crash
    BY <1>1, LifeCyclePreserves
  <1>2. CASE EditWorkload
    BY <1>2, EditPreserves
  <1>3. CASE ItemStep
    BY <1>3, RoutingPreserves, AdmissionPreserves, ExecutePreserves, FinishPreserves, LogPreserves
    DEF ItemStep
  <1>4. CASE WriteReport \/ RecordRun \/ RecordContexts
    BY <1>4, EndOfRunPreserves
  <1>5. CASE UNCHANGED vars
    <2>1. /\ UNCHANGED << execVars, pc, pending, traces, report, requestLog, stored, index >>
          /\ UNCHANGED incarnation
      BY <1>5 DEF vars, runVars, memory, files, history
    <2>2. ExecInv' /\ CounterInv' /\ PhaseInv'
      BY <2>1, ExecUntouched DEF RunInv, CounterInv, PhaseInv, execVars, requestVars
    <2>3. EvidenceInv'
      BY <2>1 DEF RunInv, EvidenceInv, HonestReport, TrueTotal
    <2> QED
      BY <2>2, <2>3 DEF RunInv
  <1> QED
    BY <1>1, <1>2, <1>3, <1>4, <1>5 DEF Next, RunStep

-----------------------------------------------------------------------------
(* Theorems *)

\* The invariant of the benchmark run.
THEOREM RunInvariant == Spec => []RunInv
  BY RunInvInit, RunInvNext, PTL DEF Spec

\* No trace in the request log or in the ledger claims complete cost evidence
\* for anything but what the provider charged for that request.
THEOREM TracesClaimTrueCost == Spec => []CompleteCostIsTrueCost
  <1>1. RunInv => CompleteCostIsTrueCost
    <2> SUFFICES ASSUME RunInv, NEW t \in WrittenTraces, t.complete
                 PROVE  t.cost = Total(t.charged)
      BY DEF CompleteCostIsTrueCost
    <2>1. ToSet(requestLog) \subseteq HonestTraces
      BY DEF RunInv, EvidenceInv, ToSet
    <2>2. stored # NoRecord => ToSet(stored.traces) \subseteq HonestTraces
      BY DEF RunInv, EvidenceInv, ToSet
    <2>3. t \in HonestTraces
      BY <2>1, <2>2 DEF WrittenTraces
    <2> QED
      BY <2>3 DEF HonestTraces
  <1> QED
    BY <1>1, RunInvariant, PTL

\* The aggregate cost of a stored run is the true cost of its requests, or it
\* is suppressed.
THEOREM ReportsClaimTrueCost == Spec => []ReportedCostIsTrueCost
  <1>1. RunInv => ReportedCostIsTrueCost
    BY DEF RunInv, EvidenceInv, HonestReport, TrueTotal, ReportedCostIsTrueCost
  <1> QED
    BY <1>1, RunInvariant, PTL

-----------------------------------------------------------------------------
(* Admission *)

RouteTraces ==
  [id : Nat \X Nat, estimate : Estimates \cup {0}, budget : Budgets, violation : BOOLEAN]

Admits(route, r) ==
  /\ route.id = r /\ ~route.violation
  /\ route.budget # NoBudget => route.estimate <= route.budget

Admitted(r) == \E route \in ToSet(routeLog) : Admits(route, r)

\* Whatever was called was admitted, the request being executed included.
AdmissionInv ==
  /\ index \in Nat /\ incarnation \in Nat
  /\ budget \in Budgets /\ estimate \in Estimates \cup {0}
  /\ routeLog \in Seq(RouteTraces)
  /\ pc = "infer" => Admitted(request)
  /\ \A r \in called : Admitted(r)

\* A log that grew admits what it admitted, and its last line if that does.
LEMMA AppendAdmits ==
  ASSUME NEW log \in Seq(RouteTraces), NEW line \in RouteTraces
  PROVE  /\ Append(log, line) \in Seq(RouteTraces)
         /\ ToSet(Append(log, line)) = ToSet(log) \cup {line}
  <1>1. /\ Append(log, line) \in Seq(RouteTraces)
        /\ DOMAIN Append(log, line) = DOMAIN log \cup {Len(log) + 1}
        /\ Append(log, line)[Len(log) + 1] = line
        /\ \A i \in DOMAIN log : Append(log, line)[i] = log[i]
    OBVIOUS
  <1> QED
    BY <1>1 DEF ToSet

\* A line written for the current decision is well formed.
LEMMA RouteTraceType ==
  ASSUME AdmissionInv, NEW violation \in BOOLEAN
  PROVE  RouteTrace(violation) \in RouteTraces
  BY DEF AdmissionInv, RouteTrace, RouteTraces, request

\* Admission writes the line that admits the request before it is called.
LEMMA AdmitAdmits ==
  ASSUME AdmissionInv, Admit
  PROVE  AdmissionInv'
  <1>1. /\ UNCHANGED << index, incarnation, budget, estimate, called >>
        /\ routeLog' = Append(routeLog, RouteTrace(FALSE))
    BY DEF Admit, LogRoute, history
  <1>2. /\ routeLog' \in Seq(RouteTraces)
        /\ ToSet(routeLog') = ToSet(routeLog) \cup {RouteTrace(FALSE)}
    BY <1>1, RouteTraceType, AppendAdmits DEF AdmissionInv
  <1>3. Admits(RouteTrace(FALSE), request)
    <2>1. budget = NoBudget \/ (budget \in Int /\ budget >= 0 /\ estimate <= budget)
      BY BudgetsAssumption, EstimatesAssumption
      DEF AdmissionInv, Admit, InvalidBudget, OverBudget
    <2> QED
      BY <2>1 DEF Admits, RouteTrace
  <1> QED
    BY <1>1, <1>2, <1>3 DEF AdmissionInv, Admitted, Admits, request

\* A refusal adds a line that admits nothing, and calls nothing.
LEMMA RefuseAdmits ==
  ASSUME AdmissionInv, Refuse
  PROVE  AdmissionInv'
  <1>1. /\ UNCHANGED << index, incarnation, budget, estimate, called >> /\ pc' = "log"
        /\ routeLog' = Append(routeLog, RouteTrace(TRUE))
    BY DEF Refuse, LogRoute, history
  <1>2. /\ routeLog' \in Seq(RouteTraces)
        /\ ToSet(routeLog') = ToSet(routeLog) \cup {RouteTrace(TRUE)}
    BY <1>1, RouteTraceType, AppendAdmits DEF AdmissionInv
  <1> QED
    BY <1>1, <1>2 DEF AdmissionInv, Admitted, Admits

\* No other step writes the route log; only Execute adds a called request, and
\* it was admitted.
LEMMA OtherStepsAdmit ==
  ASSUME AdmissionInv, UNCHANGED routeLog, index' \in Nat, incarnation' \in Nat,
         budget' \in Budgets, estimate' \in Estimates \cup {0},
         pc' = "infer" => pc = "infer" /\ UNCHANGED request,
         called' = called \/ (pc = "infer" /\ called' = called \cup {request})
  PROVE  AdmissionInv'
  <1>1. \A r : Admitted(r)' <=> Admitted(r)
    BY DEF Admitted, Admits
  <1> QED
    BY <1>1 DEF AdmissionInv, Admitted, Admits

\* Every step preserves the admission invariant.
LEMMA AdmissionInvNext == AdmissionInv /\ [Next]_vars => AdmissionInv'
  <1> SUFFICES ASSUME AdmissionInv, [Next]_vars PROVE AdmissionInv'
    OBVIOUS
  <1>1. CASE Admit \/ Refuse
    BY <1>1, AdmitAdmits, RefuseAdmits
  <1>2. CASE Start \/ Crash
    BY <1>2, OtherStepsAdmit DEF Start, Crash, FreshMemory, files, history, AdmissionInv
  <1>3. CASE \E cost \in Estimates : RouteItem(cost)
    BY <1>3, OtherStepsAdmit DEF RouteItem, files, history, AdmissionInv
  <1>4. CASE Execute
    BY <1>4, OtherStepsAdmit DEF Execute, memory, files, AdmissionInv, request
  <1>5. CASE LogTrace
    BY <1>5, OtherStepsAdmit DEF LogTrace, history, AdmissionInv
  <1>6. CASE RouterRaises \/ FailUncalled \/ FinishItem \/ WriteReport
    BY <1>6, OtherStepsAdmit
    DEF RouterRaises, FailUncalled, FinishItem, WriteReport, files, history, AdmissionInv
  <1>7. CASE RecordRun \/ RecordContexts \/ EditWorkload \/ UNCHANGED vars
    BY <1>7, OtherStepsAdmit
    DEF RecordRun, RecordContexts, EditWorkload, vars, runVars, memory, files, history,
        AdmissionInv, request
  <1> QED
    BY <1>1, <1>2, <1>3, <1>4, <1>5, <1>6, <1>7 DEF Next, RunStep, ItemStep

\* The provider is called only for requests whose admission, within the budget
\* of that process, was already in the route log.
THEOREM CallsAreAdmitted == Spec => []NoCallWithoutLoggedAdmission
  <1>1. Init => AdmissionInv
    BY DEF Init, AdmissionInv
  <1>2. AdmissionInv => NoCallWithoutLoggedAdmission
    BY DEF AdmissionInv, Admitted, Admits, NoCallWithoutLoggedAdmission
  <1> QED
    BY <1>1, <1>2, AdmissionInvNext, PTL DEF Spec

-----------------------------------------------------------------------------
(* Types *)

\* What a trace may claim, if anything, is an amount.
LEMMA ClaimType == Sums \subseteq Nat
  <1> SUFFICES ASSUME NEW charged \in Seq(Charges) PROVE Total(charged) \in Nat
    BY DEF Sums
  <1>1. charged \in Seq(Nat)
    BY ChargesAssumption, SeqMonotonic
  <1> QED
    BY <1>1, TotalType

\* The trace there is before the first request claims nothing.
LEMMA NoTraceIsHonest == NoTrace \in HonestTraces
  <1>1. /\ << 0, 0 >> \in Nat \X Nat /\ << >> \in Seq(Attempt) /\ << >> \in Seq(Charges)
        /\ 0 \in Nat /\ NoError \in ErrorTypes \cup {NoError, "budget_violation"}
    OBVIOUS
  <1> QED
    BY <1>1, TraceIsHonest DEF NoTrace

\* Every value is in its range; the trace in hand is honest even after it was
\* logged.
RangeInv ==
  /\ pc \in {"down", "route", "admit", "infer", "log", "summarize", "record", "contexts",
             "done", "aborted"}
  /\ incarnation \in 0 .. MaxStarts /\ workload \in 1 .. MaxEdits + 1
  /\ pending \in HonestTraces

\* Every step keeps the values in their ranges.
LEMMA RangeInvNext == RunInv /\ RangeInv /\ [Next]_vars => RangeInv'
  <1> SUFFICES ASSUME RunInv, RangeInv, [Next]_vars PROVE RangeInv'
    OBVIOUS
  <1> USE RunBoundsAssumption
  <1>1. pending' \in HonestTraces => RangeInv'
    <2>1. pending' \in HonestTraces => pending' \in HonestTraces'
      BY DEF HonestTraces
    <2>2. incarnation' \in 0 .. MaxStarts /\ workload' \in 1 .. MaxEdits + 1
      <3>1. CASE Start
        BY <3>1 DEF Start, RangeInv
      <3>2. CASE EditWorkload
        BY <3>2 DEF EditWorkload, RangeInv, history
      <3>3. CASE ~Start /\ ~EditWorkload
        <4>1. UNCHANGED << incarnation, workload >>
          BY <3>3
          DEF Next, RunStep, ItemStep, Crash, RouteItem, RouterRaises, Admit, Refuse, FailUncalled,
              Execute, FinishItem, LogTrace, WriteReport, RecordRun, RecordContexts, vars,
              runVars, history
        <4> QED
          BY <4>1 DEF RangeInv
      <3> QED
        BY <3>1, <3>2, <3>3
    <2>3. pc' = pc \/ pc' \in {"down", "route", "admit", "infer", "log", "summarize", "record",
                               "contexts", "done", "aborted"}
      BY DEF Next, RunStep, ItemStep, Start, Crash, EditWorkload, RouteItem,
             RouterRaises, Admit, Refuse, FailUncalled, Execute, FinishItem, LogTrace,
             WriteReport, RecordRun, RecordContexts, vars, runVars
    <2> QED
      BY <2>1, <2>2, <2>3 DEF RangeInv
  <1>2. pending' \in HonestTraces
    <2>1. CASE Start \/ Crash
      BY <2>1, NoTraceIsHonest DEF Start, Crash, FreshMemory
    <2>2. CASE Refuse \/ FailUncalled \/ FinishItem
      BY <2>2, RefusedTraceIsHonest, RejectedTraceIsHonest, FinishedTraceIsHonest
    <2>3. CASE ~(Start \/ Crash) /\ ~(Refuse \/ FailUncalled \/ FinishItem)
      <3>1. UNCHANGED pending
        BY <2>3 DEF Next, RunStep, ItemStep, EditWorkload, RouteItem, RouterRaises, Admit, Execute,
                    LogTrace, WriteReport, RecordRun, RecordContexts, vars, runVars, memory
      <3> QED
        BY <3>1 DEF RangeInv
    <2> QED
      BY <2>1, <2>2, <2>3
  <1> QED
    BY <1>1, <1>2

-----------------------------------------------------------------------------
(* Positions *)

\* The records of the current process, in each phase: one trace per finished
\* item, one context per item it has begun.
PositionInv ==
  /\ index \in 1 .. WorkloadSize + 1
  /\ Len(traces) = index - 1
  /\ \A i \in 1 .. index - 1 : traces[i].id = << incarnation, i >>
  /\ contexts \in Seq(Nat \X Nat)
  /\ \A i \in 1 .. Len(contexts) : contexts[i] = << incarnation, i >>
  /\ pc \in {"down", "route"} => Len(contexts) = index - 1
  /\ pc \in {"admit", "infer", "log"} => Len(contexts) = index
  /\ pc \in {"route", "admit", "infer", "log", "aborted"} => index <= WorkloadSize
  /\ pc \in {"summarize", "record", "contexts", "done"} =>
       index = WorkloadSize + 1 /\ Len(contexts) = WorkloadSize
  /\ pc # "down" => incarnation # 0
  /\ pc = "log" => pending.id = request
  /\ pc = "aborted" => charges = << >>

\* How far the router has logged its decisions.
Routed == IF pc \in {"infer", "log"} THEN index ELSE index - 1

\* At most one decision per item, in the order of the items.
RouteOrderInv ==
  /\ routes \in Seq(RouteTraces)
  /\ \A i \in 1 .. Len(routes) : \E k \in 1 .. Routed : routes[i].id = << incarnation, k >>
  /\ \A i, j \in 1 .. Len(routes) : i < j => routes[i].id[2] < routes[j].id[2]

\* What is in the ledger when the contexts are about to be filed.
RecordedInv == pc = "contexts" => stored.traces = traces /\ stored.contexts = << >>

ShapeInv ==
  RunInv /\ AdmissionInv /\ RangeInv /\ PositionInv /\ RouteOrderInv /\ RecordedInv

\* A start or a crash begins a new, empty set of records.
LEMMA LifeCycleKeepsShape ==
  ASSUME ShapeInv, Start \/ Crash
  PROVE  PositionInv' /\ RouteOrderInv'
  <1>1. /\ index' = 1 /\ traces' = << >> /\ contexts' = << >> /\ routes' = << >>
        /\ pc' \in {"route", "down"}
        /\ pc' = "route" => incarnation' = incarnation + 1
    BY DEF Start, Crash, FreshMemory
  <1>2. incarnation \in Nat
    BY DEF ShapeInv, RunInv, CounterInv
  <1> QED
    BY <1>1, <1>2, WorkloadSizeAssumption DEF PositionInv, RouteOrderInv, Routed

\* A new item gets the next context.
LEMMA RoutingKeepsShape ==
  ASSUME ShapeInv, (\E cost \in Estimates : RouteItem(cost)) \/ RouterRaises
  PROVE  PositionInv' /\ RouteOrderInv'
  <1>1. /\ UNCHANGED << index, incarnation, traces, routes, charges >>
        /\ contexts' = Append(contexts, request) /\ pc = "route" /\ pc' \in {"admit", "aborted"}
    BY DEF RouteItem, RouterRaises, history, execVars, requestVars
  <1>2. request \in Nat \X Nat /\ charges = << >>
    BY <1>1 DEF ShapeInv, RunInv, CounterInv, PhaseInv, ExecInv, LengthInv, request
  <1>3. /\ Len(contexts') = Len(contexts) + 1 /\ contexts' \in Seq(Nat \X Nat)
        /\ \A i \in 1 .. Len(contexts) : contexts'[i] = contexts[i]
        /\ contexts'[Len(contexts) + 1] = request
    BY <1>1, <1>2, AppendProperties DEF ShapeInv, PositionInv
  <1>4. PositionInv'
    BY <1>1, <1>2, <1>3 DEF ShapeInv, PositionInv, request
  <1>5. RouteOrderInv'
    BY <1>1 DEF ShapeInv, RouteOrderInv, Routed, RouteTraces
  <1> QED
    BY <1>4, <1>5

\* A logged decision is the one about the current item, and the only one.
LEMMA LogRouteKeepsOrder ==
  ASSUME ShapeInv, NEW violation \in BOOLEAN, LogRoute(violation), pc = "admit",
         pc' \in {"infer", "log"}, UNCHANGED << index, incarnation >>
  PROVE  RouteOrderInv'
  <1> DEFINE line == RouteTrace(violation)
  <1>1. line \in RouteTraces /\ line.id = << incarnation, index >>
    BY RouteTraceType DEF ShapeInv, RouteTrace, request
  <1>2. /\ Len(routes') = Len(routes) + 1 /\ routes' \in Seq(RouteTraces)
        /\ \A i \in 1 .. Len(routes) : routes'[i] = routes[i]
        /\ routes'[Len(routes) + 1] = line
    BY <1>1, AppendProperties DEF ShapeInv, RouteOrderInv, LogRoute
  <1>3. Routed = index - 1 /\ Routed' = index /\ index \in Nat \ {0} /\ Len(routes) \in Nat
    BY DEF ShapeInv, PositionInv, RouteOrderInv, Routed
  <1> HIDE DEF line
  <1>4. \A i \in 1 .. Len(routes') : \E k \in 1 .. index : routes'[i].id = << incarnation, k >>
    BY <1>1, <1>2, <1>3 DEF ShapeInv, RouteOrderInv
  <1>5. \A i, j \in 1 .. Len(routes') : i < j => routes'[i].id[2] < routes'[j].id[2]
    <2> SUFFICES ASSUME NEW i \in 1 .. Len(routes'), NEW j \in 1 .. Len(routes'), i < j
                 PROVE  routes'[i].id[2] < routes'[j].id[2]
      OBVIOUS
    <2>1. i \in 1 .. Len(routes)
      BY <1>2, <1>3
    <2>2. PICK k \in 1 .. index - 1 : routes[i].id = << incarnation, k >>
      BY <1>3, <2>1 DEF ShapeInv, RouteOrderInv
    <2>3. CASE j = Len(routes) + 1
      BY <1>1, <1>2, <1>3, <2>1, <2>2, <2>3
    <2>4. CASE j \in 1 .. Len(routes)
      BY <1>2, <2>1, <2>4 DEF ShapeInv, RouteOrderInv
    <2> QED
      BY <1>2, <1>3, <2>3, <2>4
  <1> QED
    BY <1>2, <1>3, <1>4, <1>5 DEF RouteOrderInv, RouteTraces

\* While the records stay as they are, so does what is known of them.
LEMMA PositionUntouched ==
  ASSUME ShapeInv, UNCHANGED << index, incarnation, traces, contexts >>,
         pc' \in {"infer", "log", "aborted"} => pc \in {"admit", "infer"},
         pc' \notin {"down", "route", "admit"},
         pc' \in {"summarize", "record", "contexts", "done"} =>
           pc \in {"summarize", "record", "contexts"},
         pc # "down",
         pc' = "log" => pending'.id = request,
         pc' = "aborted" => charges' = << >>
  PROVE  PositionInv'
  BY DEF ShapeInv, PositionInv, request

\* The same for the routes, as long as the process does not fall back.
LEMMA RoutesUntouched ==
  ASSUME ShapeInv, UNCHANGED << routes, incarnation >>, Routed' \in Int, Routed <= Routed'
  PROVE  RouteOrderInv'
  <1>1. Routed \in Int
    BY DEF ShapeInv, PositionInv, Routed
  <1>2. \A i \in 1 .. Len(routes) :
          (\E k \in 1 .. Routed : routes[i].id = << incarnation, k >>) =>
            \E k \in 1 .. Routed' : routes[i].id = << incarnation, k >>
    BY <1>1
  <1> QED
    BY <1>2 DEF ShapeInv, RouteOrderInv, RouteTraces

\* Admission, whatever it decides, is about the current item.
LEMMA AdmissionKeepsShape ==
  ASSUME ShapeInv, Admit \/ Refuse \/ FailUncalled
  PROVE  PositionInv' /\ RouteOrderInv'
  <1>1. /\ UNCHANGED << index, incarnation, traces, contexts >>
        /\ pc = "admit" /\ pc' \in {"infer", "log"}
    BY DEF Admit, Refuse, FailUncalled, history
  <1>2. pc' = "log" => pending'.id = request
    <2>1. CASE Admit
      BY <2>1 DEF Admit
    <2>2. CASE Refuse
      BY <2>2 DEF Refuse, NotCharged, Trace
    <2>3. CASE FailUncalled
      BY <2>3 DEF FailUncalled, FromError, Trace
    <2> QED
      BY <2>1, <2>2, <2>3
  <1>3. PositionInv'
    BY <1>1, <1>2, PositionUntouched
  <1>4. RouteOrderInv'
    <2>1. CASE Admit \/ Refuse
      BY <1>1, <2>1, LogRouteKeepsOrder DEF Admit, Refuse
    <2>2. CASE FailUncalled
      <3>1. UNCHANGED routes
        BY <2>2 DEF FailUncalled
      <3>2. Routed = index - 1 /\ Routed' = index /\ index \in Int
        BY <1>1 DEF ShapeInv, PositionInv, Routed
      <3> QED
        BY <1>1, <3>1, <3>2, RoutesUntouched
    <2> QED
      BY <2>1, <2>2
  <1> QED
    BY <1>3, <1>4

\* The error trace of a finished call always passes its own checks: without a
\* chain it claims nothing, and the last attempt of a chain that ends in an
\* error is not priced.
LEMMA FinishedTraceIsValid ==
  ASSUME RunInv, FinishItem
  PROVE  TraceIsValid(pending') /\ pending'.id = request
  <1>1. CASE Evaluated
    BY <1>1 DEF Evaluated, FromResponse, Trace
  <1>2. CASE EvaluationRaises
    BY <1>2, NoChainNoClaim
    DEF EvaluationRaises, FromError, AttemptCount, Trace, TraceIsValid, UnknownCost
  <1>3. CASE ProviderFailed /\ reply.kind = "exception"
    <2>1. reply.attempts = << >>
      BY <1>3 DEF RunInv, ExecInv, RepliedInv, FinishItem
    <2> QED
      BY <1>3, <2>1, NoChainNoClaim
      DEF ProviderFailed, FromError, AttemptCount, Trace, TraceIsValid, UnknownCost
  <1>4. CASE ProviderFailed /\ reply.kind = "provider_error"
    <2>1. /\ reply.attempts = attempts /\ attempts # << >> /\ attempts \in Seq(Attempt)
          /\ ~CostIsKnown(attempts[Len(attempts)])
      BY <1>4 DEF RunInv, ExecInv, ExecTypeOK, EveryInvocationIsRecorded, RepliedInv, FinishItem
    <2>2. ~AllCostsKnown(attempts)
      BY <2>1 DEF AllCostsKnown
    <2>3. ExecutionCost(attempts, Unknown, AttemptCount(attempts)) = UnknownCost
      BY <2>1, <2>2 DEF ExecutionCost
    <2> QED
      BY <1>4, <2>1, <2>2, <2>3 DEF ProviderFailed, FromError, Trace, TraceIsValid, UnknownCost
  <1> QED
    BY <1>1, <1>2, <1>3, <1>4 DEF FinishItem, ProviderFailed

\* A finished item keeps its place and is never discarded.
LEMMA FinishKeepsShape ==
  ASSUME ShapeInv, FinishItem
  PROVE  PositionInv' /\ RouteOrderInv'
  <1>1. /\ UNCHANGED << index, incarnation, traces, contexts, routes >>
        /\ pc = "infer" /\ pc' = "log" /\ pending'.id = request
    BY FinishedTraceIsValid DEF ShapeInv, FinishItem, history
  <1>2. PositionInv'
    BY <1>1, PositionUntouched
  <1>3. RouteOrderInv'
    BY <1>1 DEF ShapeInv, RouteOrderInv, Routed, RouteTraces
  <1> QED
    BY <1>2, <1>3

\* A logged trace takes the next place.
LEMMA LogKeepsShape ==
  ASSUME ShapeInv, LogTrace
  PROVE  PositionInv' /\ RouteOrderInv'
  <1>1. /\ UNCHANGED << incarnation, contexts, routes >>
        /\ traces' = Append(traces, pending) /\ index' = index + 1
        /\ pc = "log" /\ pc' = IF index = WorkloadSize THEN "summarize" ELSE "route"
    BY DEF LogTrace, history
  <1>2. /\ traces \in Seq(HonestTraces) /\ pending \in HonestTraces /\ Len(traces) = index - 1
        /\ pending.id = << incarnation, index >> /\ index \in 1 .. WorkloadSize
        /\ Len(contexts) = index
    BY <1>1, WorkloadSizeAssumption
    DEF ShapeInv, RunInv, EvidenceInv, RangeInv, PositionInv, request
  <1>3. /\ Len(traces') = index /\ traces'[index] = pending
        /\ \A i \in 1 .. index - 1 : traces'[i] = traces[i]
    BY <1>1, <1>2, AppendProperties
  <1>4. \A i \in 1 .. index : traces'[i].id = << incarnation, i >>
    BY <1>2, <1>3 DEF ShapeInv, PositionInv
  <1>5. PositionInv'
    BY <1>1, <1>2, <1>3, <1>4, WorkloadSizeAssumption DEF ShapeInv, PositionInv
  <1>6. RouteOrderInv'
    <2>1. Routed = index /\ Routed' = index /\ index \in Int
      BY <1>1, <1>2 DEF Routed
    <2> QED
      BY <1>1, <2>1, RoutesUntouched
  <1> QED
    BY <1>5, <1>6

\* The records of a whole workload cover each other: no evidence that was paid
\* for is refused.
LEMMA WholeWorkloadIsCovered ==
  ASSUME ShapeInv, index = WorkloadSize + 1, Len(contexts) = WorkloadSize,
         pc \notin {"infer", "log"}
  PROVE  Covered /\ Range(contexts) = Range(Ids(traces))
  <1>1. /\ DOMAIN contexts = 1 .. WorkloadSize /\ DOMAIN traces = 1 .. WorkloadSize
        /\ DOMAIN routes = 1 .. Len(routes)
    BY WorkloadSizeAssumption
    DEF ShapeInv, RunInv, EvidenceInv, PositionInv, RouteOrderInv
  <1>2. /\ \A i \in 1 .. WorkloadSize : contexts[i] = << incarnation, i >>
        /\ \A i \in 1 .. WorkloadSize : traces[i].id = << incarnation, i >>
    BY WorkloadSizeAssumption DEF ShapeInv, PositionInv
  <1>3. /\ DOMAIN Ids(traces) = 1 .. WorkloadSize /\ DOMAIN Ids(routes) = 1 .. Len(routes)
        /\ \A i \in 1 .. WorkloadSize : Ids(traces)[i] = << incarnation, i >>
        /\ \A i \in 1 .. Len(routes) : Ids(routes)[i] = routes[i].id
    BY <1>1, <1>2 DEF Ids
  <1>4. IsInjective(contexts)
    BY <1>1, <1>2 DEF IsInjective
  <1>5. Range(contexts) = Range(Ids(traces))
    BY <1>1, <1>2, <1>3 DEF Range
  <1>6. \A i \in 1 .. Len(routes) : \E k \in 1 .. WorkloadSize : routes[i].id = << incarnation, k >>
    BY WorkloadSizeAssumption DEF ShapeInv, RouteOrderInv, Routed
  <1>7. IsInjective(Ids(routes))
    <2> SUFFICES ASSUME NEW i \in 1 .. Len(routes), NEW j \in 1 .. Len(routes),
                        routes[i].id = routes[j].id, i # j
                 PROVE  FALSE
      BY <1>3 DEF IsInjective
    <2>1. i < j \/ j < i
      BY DEF ShapeInv, RouteOrderInv
    <2>2. routes[i].id[2] \in Nat
      BY <1>6, WorkloadSizeAssumption
    <2> QED
      BY <2>1, <2>2 DEF ShapeInv, RouteOrderInv
  <1>8. Range(Ids(routes)) \subseteq Range(Ids(traces))
    <2> SUFFICES ASSUME NEW i \in 1 .. Len(routes)
                 PROVE  routes[i].id \in Range(Ids(traces))
      BY <1>3 DEF Range
    <2>1. PICK k \in 1 .. WorkloadSize : routes[i].id = << incarnation, k >>
      BY <1>6
    <2> QED
      BY <1>3, <2>1 DEF Range
  <1> QED
    BY <1>4, <1>5, <1>7, <1>8 DEF Covered

\* The end of the run keeps the records; none of its checks fails.
LEMMA EndOfRunKeepsShape ==
  ASSUME ShapeInv, WriteReport \/ RecordRun \/ RecordContexts
  PROVE  PositionInv' /\ RouteOrderInv'
  <1>1. /\ UNCHANGED << index, incarnation, traces, contexts, routes >>
        /\ pc \in {"summarize", "record", "contexts"}
    BY DEF WriteReport, RecordRun, RecordContexts, memory, history
  <1>2. index = WorkloadSize + 1 /\ Len(contexts) = WorkloadSize
    BY <1>1 DEF ShapeInv, PositionInv
  <1>3. Covered /\ Range(contexts) = Range(Ids(traces))
    BY <1>1, <1>2, WholeWorkloadIsCovered
  <1>4. pc' \in {"record", "contexts", "done"}
    BY <1>3 DEF WriteReport, RecordRun, RecordContexts, ShapeInv, RecordedInv
  <1>5. PositionInv'
    BY <1>1, <1>4, PositionUntouched
  <1>6. RouteOrderInv'
    <2>1. Routed' = Routed /\ Routed \in Int
      BY <1>1, <1>2, <1>4, WorkloadSizeAssumption DEF Routed
    <2> QED
      BY <1>1, <2>1, RoutesUntouched
  <1> QED
    BY <1>5, <1>6

\* The invariant holds before the first start.
LEMMA ShapeInvInit == Init => ShapeInv
  <1> SUFFICES ASSUME Init PROVE ShapeInv
    OBVIOUS
  <1> USE WorkloadSizeAssumption, RunBoundsAssumption
  <1>1. RunInv /\ AdmissionInv /\ RangeInv
    BY RunInvInit, NoTraceIsHonest DEF Init, AdmissionInv, RangeInv
  <1>2. PositionInv
    BY DEF Init, PositionInv, ExecInit
  <1>3. RouteOrderInv /\ RecordedInv
    BY DEF Init, RouteOrderInv, RecordedInv
  <1> QED
    BY <1>1, <1>2, <1>3 DEF ShapeInv

\* Every step preserves it.
LEMMA ShapeInvNext == ShapeInv /\ [Next]_vars => ShapeInv'
  <1> SUFFICES ASSUME ShapeInv, [Next]_vars PROVE ShapeInv'
    OBVIOUS
  <1>1. RunInv' /\ AdmissionInv' /\ RangeInv'
    BY RunInvNext, AdmissionInvNext, RangeInvNext DEF ShapeInv
  <1>2. PositionInv' /\ RouteOrderInv'
    <2>1. CASE Start \/ Crash
      BY <2>1, LifeCycleKeepsShape
    <2>2. CASE (\E cost \in Estimates : RouteItem(cost)) \/ RouterRaises
      BY <2>2, RoutingKeepsShape
    <2>3. CASE Admit \/ Refuse \/ FailUncalled
      BY <2>3, AdmissionKeepsShape
    <2>4. CASE Execute
      <3>1. /\ UNCHANGED << pc, index, incarnation, traces, contexts, routes >>
            /\ pc = "infer"
        BY <2>4 DEF Execute, memory
      <3>2. Routed' = Routed /\ Routed \in Int
        BY <3>1 DEF ShapeInv, PositionInv, Routed
      <3> QED
        BY <3>1, <3>2, PositionUntouched, RoutesUntouched
    <2>5. CASE FinishItem
      BY <2>5, FinishKeepsShape
    <2>6. CASE LogTrace
      BY <2>6, LogKeepsShape
    <2>7. CASE WriteReport \/ RecordRun \/ RecordContexts
      BY <2>7, EndOfRunKeepsShape
    <2>8. CASE EditWorkload \/ UNCHANGED vars
      <3>1. UNCHANGED << pc, index, incarnation, traces, contexts, routes, pending, charges >>
        BY <2>8 DEF EditWorkload, vars, runVars, memory, history, execVars, requestVars
      <3>2. Routed' = Routed /\ Routed \in Int
        BY <3>1 DEF ShapeInv, PositionInv, Routed
      <3>3. PositionInv'
        BY <3>1 DEF ShapeInv, PositionInv, request
      <3> QED
        BY <3>1, <3>2, <3>3, RoutesUntouched
    <2> QED
      BY <2>1, <2>2, <2>3, <2>4, <2>5, <2>6, <2>7, <2>8 DEF Next, RunStep, ItemStep
  <1>3. RecordedInv'
    <2>1. CASE RecordRun
      BY <2>1 DEF RecordRun, RecordedInv, memory
    <2>2. CASE EditWorkload \/ UNCHANGED vars
      BY <2>2
      DEF EditWorkload, vars, runVars, memory, files, ShapeInv, RecordedInv
    <2>3. CASE ~RecordRun /\ ~(EditWorkload \/ UNCHANGED vars)
      <3>1. pc' # "contexts"
        BY <2>3
        DEF Next, RunStep, ItemStep, Start, Crash, RouteItem, RouterRaises, Admit, Refuse,
            FailUncalled, Execute, FinishItem, LogTrace, WriteReport, RecordContexts
      <3> QED
        BY <3>1 DEF RecordedInv
    <2> QED
      BY <2>1, <2>2, <2>3
  <1> QED
    BY <1>1, <1>2, <1>3 DEF ShapeInv

\* The invariant of the records a process keeps.
THEOREM ShapeInvariant == Spec => []ShapeInv
  BY ShapeInvInit, ShapeInvNext, PTL DEF Spec

\* Every variable holds a value of the shape the code gives it: in particular
\* every cost a trace claims is an amount, whatever was added up.
THEOREM RunTypes == Spec => []TypeOK
  <1>1. ShapeInv => TypeOK
    <2> SUFFICES ASSUME ShapeInv PROVE TypeOK
      OBVIOUS
    <2>1. WrittenTraces \cup ToSet(traces) \cup {pending} \subseteq HonestTraces
      <3>1. ToSet(requestLog) \subseteq HonestTraces /\ ToSet(traces) \subseteq HonestTraces
        BY DEF ShapeInv, RunInv, EvidenceInv, ToSet
      <3>2. stored # NoRecord => ToSet(stored.traces) \subseteq HonestTraces
        BY DEF ShapeInv, RunInv, EvidenceInv, ToSet
      <3>3. pending \in HonestTraces
        BY DEF ShapeInv, RangeInv
      <3> QED
        BY <3>1, <3>2, <3>3 DEF WrittenTraces
    <2>2. \A t \in HonestTraces :
            /\ t.attempts \in Seq(Attempt) /\ t.charged \in Seq(Charges)
            /\ t.cost \in Nat \cup {Unknown} /\ t.complete \in BOOLEAN
            /\ t.error \in ErrorTypes \cup {NoError, "budget_violation"}
      BY ClaimType DEF HonestTraces
    <2>3. /\ ExecTypeOK /\ budget \in Budgets /\ estimate \in Estimates \cup {0}
          /\ index \in 1 .. WorkloadSize + 1
      BY DEF ShapeInv, RunInv, ExecInv, AdmissionInv, PositionInv
    <2> QED
      BY <2>1, <2>2, <2>3 DEF TypeOK, ShapeInv, RangeInv
  <1> QED
    BY <1>1, ShapeInvariant, PTL

\* No check of the run on its own evidence ever discards a request already
\* paid for: what aborts a run is a router that raises, between two requests.
THEOREM RunsAbortUnpaid == Spec => []OnlyRoutingAborts
  <1>1. ShapeInv => OnlyRoutingAborts
    BY WorkloadSizeAssumption DEF ShapeInv, PositionInv, OnlyRoutingAborts
  <1> QED
    BY <1>1, ShapeInvariant, PTL

-----------------------------------------------------------------------------
(* Files *)

\* What the ledger holds is the whole of one incarnation.
WholeIncarnation ==
  /\ stored.report.requests = WorkloadSize
  /\ \E n \in 1 .. incarnation : Ids(stored.traces) = [i \in 1 .. WorkloadSize |-> << n, i >>]
  /\ ToSet(stored.traces) \subseteq ToSet(requestLog)
  /\ ToSet(stored.routes) \subseteq ToSet(routeLog)
  /\ stored.contexts \in {<< >>, Ids(stored.traces)}

\* The logs have everything that memory has, and that the ledger has.
FilesInv ==
  /\ ToSet(traces) \subseteq ToSet(requestLog) /\ ToSet(routes) \subseteq ToSet(routeLog)
  /\ pc = "record" => report.requests = WorkloadSize
  /\ stored # NoRecord \/ pc = "contexts" => WholeIncarnation

\* Appending to a sequence adds one element to its set.
LEMMA ToSetAppend ==
  ASSUME NEW S, NEW list \in Seq(S), NEW item \in S
  PROVE  ToSet(Append(list, item)) = ToSet(list) \cup {item}
  <1>1. /\ DOMAIN list = 1 .. Len(list) /\ Len(list) \in Nat
        /\ DOMAIN Append(list, item) = 1 .. Len(list) + 1
        /\ Append(list, item)[Len(list) + 1] = item
        /\ \A i \in 1 .. Len(list) : Append(list, item)[i] = list[i]
    BY AppendProperties
  <1> QED
    BY <1>1 DEF ToSet

\* The logs are never shortened, and memory never gets ahead of them.
LEMMA LogsKeepMemory ==
  ASSUME ShapeInv, FilesInv, [Next]_vars
  PROVE  /\ ToSet(requestLog) \subseteq ToSet(requestLog')
         /\ ToSet(routeLog) \subseteq ToSet(routeLog')
         /\ ToSet(traces') \subseteq ToSet(requestLog')
         /\ ToSet(routes') \subseteq ToSet(routeLog')
  <1>1. /\ requestLog \in Seq(HonestTraces) /\ traces \in Seq(HonestTraces)
        /\ pending \in HonestTraces
        /\ routeLog \in Seq(RouteTraces) /\ routes \in Seq(RouteTraces)
        /\ RouteTrace(TRUE) \in RouteTraces /\ RouteTrace(FALSE) \in RouteTraces
    BY RouteTraceType
    DEF ShapeInv, RunInv, EvidenceInv, RangeInv, AdmissionInv, RouteOrderInv
  <1>2. CASE LogTrace
    <2>1. /\ requestLog' = Append(requestLog, pending) /\ traces' = Append(traces, pending)
          /\ UNCHANGED << routeLog, routes >>
      BY <1>2 DEF LogTrace
    <2> QED
      BY <1>1, <2>1, ToSetAppend DEF FilesInv
  <1>3. CASE Admit \/ Refuse
    <2>1. PICK violation \in BOOLEAN :
            /\ routeLog' = Append(routeLog, RouteTrace(violation))
            /\ routes' = Append(routes, RouteTrace(violation))
            /\ UNCHANGED << requestLog, traces >>
      BY <1>3 DEF Admit, Refuse, LogRoute
    <2> QED
      BY <1>1, <2>1, ToSetAppend, RouteTraceType DEF FilesInv, ShapeInv
  <1>4. CASE Start \/ Crash
    <2>1. UNCHANGED << requestLog, routeLog >> /\ traces' = << >> /\ routes' = << >>
      BY <1>4 DEF Start, Crash, FreshMemory, files
    <2>2. ToSet(<< >>) = {}
      BY DEF ToSet
    <2> QED
      BY <2>1, <2>2
  <1>5. CASE ~LogTrace /\ ~(Admit \/ Refuse) /\ ~(Start \/ Crash)
    <2>1. UNCHANGED << requestLog, routeLog, traces, routes >>
      BY <1>5
      DEF Next, RunStep, ItemStep, EditWorkload, RouteItem, RouterRaises, FailUncalled, Execute,
          FinishItem, WriteReport, RecordRun, RecordContexts, vars, runVars, memory, files
    <2> QED
      BY <2>1 DEF FilesInv
  <1> QED
    BY <1>2, <1>3, <1>4, <1>5

\* The two transactions at the end store a whole incarnation.
LEMMA RecordingIsWhole ==
  ASSUME ShapeInv, FilesInv, RecordRun \/ RecordContexts
  PROVE  WholeIncarnation'
  <1>1. /\ UNCHANGED << traces, contexts, routes, requestLog, routeLog, incarnation, report >>
        /\ index = WorkloadSize + 1 /\ Len(contexts) = WorkloadSize /\ incarnation # 0
        /\ pc \in {"record", "contexts"}
    BY DEF RecordRun, RecordContexts, memory, history, ShapeInv, PositionInv
  <1>2. Ids(traces) = [i \in 1 .. WorkloadSize |-> << incarnation, i >>]
    <2>1. DOMAIN traces = 1 .. WorkloadSize
      BY <1>1, WorkloadSizeAssumption DEF ShapeInv, PositionInv, RunInv, EvidenceInv
    <2>2. \A i \in 1 .. WorkloadSize : traces[i].id = << incarnation, i >>
      BY <1>1, WorkloadSizeAssumption DEF ShapeInv, PositionInv
    <2> QED
      BY <2>1, <2>2 DEF Ids
  <1>3. contexts = Ids(traces)
    <2>1. DOMAIN contexts = 1 .. WorkloadSize /\ contexts = [i \in DOMAIN contexts |-> contexts[i]]
      BY <1>1 DEF ShapeInv, PositionInv
    <2>2. \A i \in 1 .. WorkloadSize : contexts[i] = << incarnation, i >>
      BY <1>1 DEF ShapeInv, PositionInv
    <2> QED
      BY <1>2, <2>1, <2>2
  <1>4. incarnation \in 1 .. incarnation
    BY <1>1, RunBoundsAssumption DEF ShapeInv, RangeInv
  <1>5. CASE RecordRun
    <2>1. stored' = [report |-> report, traces |-> traces, routes |-> routes, contexts |-> << >>]
          /\ report.requests = WorkloadSize
      BY <1>5 DEF RecordRun, FilesInv
    <2> QED
      BY <1>1, <1>2, <1>4, <2>1 DEF WholeIncarnation, FilesInv, Ids
  <1>6. CASE RecordContexts
    <2>1. stored.traces = traces /\ WholeIncarnation
          /\ DOMAIN stored = {"report", "traces", "routes", "contexts"}
      BY <1>6 DEF RecordContexts, FilesInv, ShapeInv, RecordedInv, RunInv, EvidenceInv
    <2>2. stored' = [stored EXCEPT !.contexts = contexts]
      BY <1>3, <1>6, <2>1 DEF RecordContexts
    <2>3. /\ stored'.report = stored.report /\ stored'.traces = stored.traces
          /\ stored'.routes = stored.routes /\ stored'.contexts = contexts
      BY <2>1, <2>2
    <2> QED
      BY <1>1, <1>3, <2>1, <2>3 DEF WholeIncarnation, Ids
  <1> QED
    BY <1>5, <1>6

\* Every step keeps the files in order.
LEMMA FilesInvNext == ShapeInv /\ FilesInv /\ [Next]_vars => FilesInv'
  <1> SUFFICES ASSUME ShapeInv, FilesInv, [Next]_vars PROVE FilesInv'
    OBVIOUS
  <1>1. pc' = "record" => report'.requests = WorkloadSize
    <2>1. CASE WriteReport
      <3>1. report'.requests = Len(traces) /\ pc = "summarize"
        BY <2>1 DEF WriteReport, Summarize
      <3> QED
        BY <3>1, WorkloadSizeAssumption DEF ShapeInv, PositionInv
    <2>2. CASE EditWorkload \/ UNCHANGED vars
      BY <2>2 DEF EditWorkload, vars, runVars, memory, FilesInv
    <2>3. CASE ~WriteReport /\ ~(EditWorkload \/ UNCHANGED vars)
      BY <2>3
      DEF Next, RunStep, ItemStep, Start, Crash, RouteItem, RouterRaises, Admit, Refuse,
          FailUncalled, Execute, FinishItem, LogTrace, RecordRun, RecordContexts
    <2> QED
      BY <2>1, <2>2, <2>3
  <1>2. stored' # NoRecord \/ pc' = "contexts" => WholeIncarnation'
    <2>1. CASE RecordRun \/ RecordContexts
      BY <2>1, RecordingIsWhole
    <2>2. CASE ~RecordRun /\ ~RecordContexts
      <3>1. /\ UNCHANGED stored /\ incarnation' \in {incarnation, incarnation + 1}
            /\ pc' = "contexts" => pc = "contexts"
        BY <2>2
        DEF Next, RunStep, ItemStep, Start, Crash, EditWorkload, RouteItem, RouterRaises, Admit,
            Refuse, FailUncalled, Execute, FinishItem, LogTrace, WriteReport, vars, runVars,
            files, history
      <3>2. 1 .. incarnation \subseteq 1 .. incarnation'
        BY <3>1, RunBoundsAssumption DEF ShapeInv, RangeInv
      <3>3. WholeIncarnation => WholeIncarnation'
        BY <3>1, <3>2, LogsKeepMemory DEF WholeIncarnation, Ids
      <3> QED
        BY <3>1, <3>3 DEF FilesInv
    <2> QED
      BY <2>1, <2>2
  <1> QED
    BY <1>1, <1>2, LogsKeepMemory DEF FilesInv

\* The ledger holds one whole incarnation or nothing, and everything it holds
\* is in the logs, whatever crashed between the writes.
THEOREM StoredRunsAreWhole == Spec => []StoredRunIsOneWholeIncarnation
  <1>1. Init => FilesInv
    BY DEF Init, FilesInv, ToSet
  <1>2. FilesInv => StoredRunIsOneWholeIncarnation
    BY DEF FilesInv, WholeIncarnation, StoredRunIsOneWholeIncarnation
  <1> QED
    BY <1>1, <1>2, FilesInvNext, ShapeInvariant, PTL DEF Spec

-----------------------------------------------------------------------------
(* Calls *)

\* The requests a provider may have charged that no log line accounts for.
Unlogged == called \ Range(Ids(requestLog))

\* A live process has at most one of them, the request it is executing.
CallsInv ==
  /\ \A r \in called : r \in (1 .. incarnation) \X Nat
  /\ \A r \in Unlogged : Running /\ r[1] = incarnation => r = request /\ pc \in {"infer", "log"}
  /\ AtMostOneUnloggedCall

\* What was logged stays logged.
LEMMA LoggedStaysLogged ==
  ASSUME ShapeInv, NEW item \in HonestTraces, requestLog' = Append(requestLog, item)
  PROVE  Range(Ids(requestLog')) = Range(Ids(requestLog)) \cup {item.id}
  <1>1. requestLog \in Seq(HonestTraces)
    BY DEF ShapeInv, RunInv, EvidenceInv
  <1>2. /\ DOMAIN requestLog = 1 .. Len(requestLog) /\ Len(requestLog) \in Nat
        /\ DOMAIN requestLog' = 1 .. Len(requestLog) + 1
        /\ requestLog'[Len(requestLog) + 1] = item
        /\ \A i \in 1 .. Len(requestLog) : requestLog'[i] = requestLog[i]
    BY <1>1, AppendProperties
  <1>3. Range(Ids(requestLog)) = {requestLog[i].id : i \in 1 .. Len(requestLog)}
    BY <1>2 DEF Range, Ids
  <1>4. Range(Ids(requestLog')) = {requestLog'[i].id : i \in 1 .. Len(requestLog) + 1}
    BY <1>2 DEF Range, Ids
  <1> QED
    BY <1>2, <1>3, <1>4

\* Every step leaves at most one unlogged call per incarnation.
LEMMA CallsInvNext == ShapeInv /\ CallsInv /\ [Next]_vars => CallsInv'
  <1> SUFFICES ASSUME ShapeInv, CallsInv, [Next]_vars PROVE CallsInv'
    OBVIOUS
  <1>1. incarnation \in Nat /\ index \in Nat
    BY DEF ShapeInv, RunInv, CounterInv
  <1>2. CASE Start
    <2>1. UNCHANGED << called, requestLog >> /\ incarnation' = incarnation + 1
      BY <1>2 DEF Start, files
    <2>2. \A r \in called : r \in (1 .. incarnation') \X Nat /\ r[1] # incarnation'
      BY <1>1, <2>1 DEF CallsInv
    <2> QED
      BY <2>1, <2>2 DEF CallsInv, Unlogged, AtMostOneUnloggedCall, Ids, Range
  <1>3. CASE Execute
    <2>1. /\ UNCHANGED << requestLog, pc, index, incarnation >> /\ pc = "infer"
          /\ called' \in {called, called \cup {request}}
      BY <1>3 DEF Execute, memory, files
    <2>2. Running /\ request[1] = incarnation /\ UNCHANGED request
      BY <2>1 DEF Running, request
    <2>3. Unlogged' \subseteq Unlogged \cup {request}
      BY <2>1 DEF Unlogged, Ids, Range
    <2>4. request \in (1 .. incarnation') \X Nat
      <3>1. incarnation # 0
        BY <2>1 DEF ShapeInv, PositionInv
      <3> QED
        BY <1>1, <2>1, <3>1 DEF request
    <2>5. AtMostOneUnloggedCall'
      <3> SUFFICES ASSUME NEW r \in Unlogged', NEW s \in Unlogged', r[1] = s[1] PROVE r = s
        BY DEF AtMostOneUnloggedCall, Unlogged
      <3>1. \A q \in Unlogged : q[1] = incarnation => q = request
        BY <2>2 DEF CallsInv
      <3> QED
        BY <2>2, <2>3, <3>1 DEF CallsInv, AtMostOneUnloggedCall, Unlogged
    <2>6. \A r \in Unlogged' : r[1] = incarnation => r = request
      BY <2>2, <2>3 DEF CallsInv
    <2>7. \A r \in called' : r \in (1 .. incarnation') \X Nat
      BY <2>1, <2>4 DEF CallsInv
    <2> QED
      BY <2>1, <2>2, <2>5, <2>6, <2>7 DEF CallsInv
  <1>4. CASE LogTrace
    <2>1. /\ UNCHANGED << called, incarnation >> /\ pc = "log" /\ pending.id = request
          /\ requestLog' = Append(requestLog, pending)
      BY <1>4 DEF LogTrace, history, ShapeInv, PositionInv
    <2>2. Range(Ids(requestLog')) = Range(Ids(requestLog)) \cup {request}
      BY <2>1, LoggedStaysLogged DEF ShapeInv, RangeInv
    <2>3. Unlogged' = Unlogged \ {request}
      BY <2>1, <2>2 DEF Unlogged
    <2>4. \A r \in Unlogged' : r[1] # incarnation
      BY <2>1, <2>3 DEF CallsInv, Running
    <2>5. AtMostOneUnloggedCall'
      BY <2>3 DEF CallsInv, AtMostOneUnloggedCall, Unlogged
    <2> QED
      BY <2>1, <2>4, <2>5 DEF CallsInv
  <1>5. CASE ~Start /\ ~Execute /\ ~LogTrace
    <2>1. /\ UNCHANGED << called, incarnation, requestLog >>
          /\ Running' => Running /\ UNCHANGED index
          /\ pc \in {"infer", "log"} => pc' \in {"infer", "log", "down"}
      <3>1. CASE FinishItem
        BY <3>1, FinishKeepsShape, FinishedTraceIsValid
        DEF FinishItem, files, history, Running, ShapeInv
      <3>2. CASE ~FinishItem
        BY <1>5, <3>2
        DEF Next, RunStep, ItemStep, Crash, EditWorkload, RouteItem, RouterRaises, Admit, Refuse,
            FailUncalled, WriteReport, RecordRun, RecordContexts, vars, runVars, memory, files,
            history, Running
      <3> QED
        BY <3>1, <3>2
    <2>2. Unlogged' = Unlogged /\ (AtMostOneUnloggedCall' <=> AtMostOneUnloggedCall)
      BY <2>1 DEF Unlogged, AtMostOneUnloggedCall, Ids, Range
    <2>3. \A r \in Unlogged' : Running' /\ r[1] = incarnation' =>
            r = request' /\ pc' \in {"infer", "log"}
      BY <2>1, <2>2 DEF CallsInv, Running, request
    <2> QED
      BY <2>1, <2>2, <2>3 DEF CallsInv
  <1> QED
    BY <1>2, <1>3, <1>4, <1>5

\* However often the process dies, each incarnation leaves at most one request
\* that may have been charged and is not in the request log.
THEOREM CallsAreLogged == Spec => []AtMostOneUnloggedCall
  <1>1. Init => CallsInv
    BY DEF Init, CallsInv, Unlogged, AtMostOneUnloggedCall
  <1>2. CallsInv => AtMostOneUnloggedCall
    BY DEF CallsInv
  <1> QED
    BY <1>1, <1>2, CallsInvNext, ShapeInvariant, PTL DEF Spec

-----------------------------------------------------------------------------
(* What a trace accounts for *)

\* A complete trace prices every attempt at its charge, and claims a cost
\* without a chain only if nothing was invoked; nothing was charged for what
\* counts no attempt.
Accounted(t) ==
  /\ t.complete => AttemptCosts(t.attempts) = t.charged
  /\ t.complete /\ t.attempts = << >> => t.attemptCount = 0
  /\ t.attemptCount = 0 => t.charged = << >>

\* What was charged was admitted: it has a route.
RoutedIfCharged(t, routeRows) == t.charged # << >> => t.id \in IdSet(routeRows)

AllAccounted(executions, routeRows) ==
  \A i \in DOMAIN executions :
    Accounted(executions[i]) /\ RoutedIfCharged(executions[i], routeRows)

\* What a report says of the traces it was made of.
Describes(rep, executions) ==
  /\ rep.requests = Len(executions)
  /\ rep.attempts = Total([i \in DOMAIN executions |-> executions[i].attemptCount])
  /\ rep.complete <=> \A i \in DOMAIN executions : executions[i].complete
  /\ rep.complete => rep.cost = Total(AttemptCosts(executions))

\* The records in memory, the trace in hand included.
MemoryInv ==
  /\ AllAccounted(traces, routes)
  /\ pc = "log" => Accounted(pending) /\ RoutedIfCharged(pending, routes)
  /\ pc = "infer" => request \in IdSet(routes)
  /\ pc = "record" => Describes(report, traces)

\* The rows of the run in the ledger.
Rows(run) ==
  /\ run.traces \in Seq(HonestTraces)
  /\ AllAccounted(run.traces, run.routes)
  /\ IdSet(run.routes) \subseteq IdSet(run.traces)
  /\ Describes(run.report, run.traces)

RowsInv == stored # NoRecord \/ pc = "contexts" => Rows(stored)

\* Every outcome of infer accounts for what was charged.
LEMMA FinishedTraceIsAccounted ==
  ASSUME ShapeInv, FinishItem
  PROVE  Accounted(pending') /\ pending'.id = request
  <1>1. /\ phase = "replied" /\ ExecInv /\ attempts \in Seq(Attempt) /\ attempts # << >>
    BY DEF FinishItem, ShapeInv, RunInv, ExecInv, ExecTypeOK, RepliedInv
  <1>2. pending'.id = request
    BY FinishedTraceIsValid DEF ShapeInv
  <1>3. AttemptCount(<< >>) = 1 /\ AttemptCount(attempts) # 0
    BY <1>1 DEF AttemptCount
  <1>4. ASSUME NEW error, NEW final
        PROVE  Accounted(Trace(request, attempts, AttemptCount(attempts),
                           ExecutionCost(attempts, final, AttemptCount(attempts)), error, charges))
    <2>1. CASE AllCostsKnown(attempts)
      <3>1. AttemptCosts(attempts) = charges
        BY <1>1, <2>1, KnownChainIsCharges
      <3> QED
        BY <1>1, <1>3, <3>1 DEF Accounted, Trace
    <2>2. CASE ~AllCostsKnown(attempts)
      <3>1. ExecutionCost(attempts, final, AttemptCount(attempts)) = UnknownCost
        BY <1>1, <2>2 DEF ExecutionCost
      <3> QED
        BY <1>3, <3>1 DEF Accounted, Trace, UnknownCost
    <2> QED
      BY <2>1, <2>2
  <1>5. ASSUME NEW error
        PROVE  Accounted(Trace(request, << >>, 1, UnknownCost, error, charges))
    BY DEF Accounted, Trace, UnknownCost
  <1>6. CASE Evaluated
    <2>1. reply.attempts = attempts
      BY <1>1, <1>6 DEF Evaluated, ExecInv, EveryInvocationIsRecorded
    <2> QED
      BY <1>2, <1>4, <1>6, <2>1 DEF Evaluated, FromResponse
  <1>7. CASE EvaluationRaises
    BY <1>2, <1>3, <1>5, <1>7, NoChainNoClaim DEF EvaluationRaises, FromError
  <1>8. CASE ProviderFailed
    <2>1. CASE reply.kind = "provider_error"
      <3>1. reply.attempts = attempts
        BY <1>1, <2>1 DEF ExecInv, EveryInvocationIsRecorded
      <3> QED
        BY <1>2, <1>4, <1>8, <3>1 DEF ProviderFailed, FromError
    <2>2. CASE reply.kind = "exception"
      <3>1. reply.attempts = << >>
        BY <1>1, <2>2 DEF ExecInv, RepliedInv
      <3> QED
        BY <1>2, <1>3, <1>5, <1>8, <3>1, NoChainNoClaim DEF ProviderFailed, FromError
    <2> QED
      BY <1>8, <2>1, <2>2 DEF ProviderFailed
  <1> QED
    BY <1>6, <1>7, <1>8 DEF FinishItem

\* A request that is refused, or whose budget cannot be checked, was not
\* charged.
LEMMA UnexecutedTraceIsAccounted ==
  ASSUME ShapeInv, Refuse \/ FailUncalled
  PROVE  Accounted(pending') /\ pending'.charged = << >>
  <1>1. charges = << >>
    BY DEF Refuse, FailUncalled, ShapeInv, RunInv, PhaseInv, ExecInv, LengthInv
  <1>2. AttemptCosts(<< >>) = << >>
    BY DEF AttemptCosts
  <1>3. CASE Refuse
    BY <1>1, <1>2, <1>3 DEF Refuse, NotCharged, KnownCost, Trace, Accounted
  <1>4. CASE FailUncalled
    <2>1. pending' = Trace(request, << >>, 1, UnknownCost, "unknown", << >>)
      BY <1>1, <1>4, NoChainNoClaim DEF FailUncalled, FromError, AttemptCount
    <2> QED
      BY <2>1 DEF UnknownCost, Trace, Accounted
  <1> QED
    BY <1>3, <1>4

\* A longer list of routes has the ids it had, and that of its last line.
LEMMA IdsOfLongerList ==
  ASSUME NEW R, NEW list \in Seq(R), NEW item \in R
  PROVE  IdSet(list) \cup {item.id} \subseteq IdSet(Append(list, item))
  <1> DEFINE longer == Append(list, item)
  <1>1. /\ DOMAIN list \subseteq DOMAIN longer /\ Len(list) + 1 \in DOMAIN longer
        /\ \A i \in DOMAIN list : longer[i] = list[i]
        /\ longer[Len(list) + 1] = item
    OBVIOUS
  <1> HIDE DEF longer
  <1>2. \A i \in DOMAIN longer : longer[i].id \in IdSet(longer)
    BY DEF IdSet, Ids, Range
  <1>3. \A id \in IdSet(list) : \E i \in DOMAIN list : id = list[i].id
    BY DEF IdSet, Ids, Range
  <1> QED
    BY <1>1, <1>2, <1>3 DEF longer

\* More routes account for the same traces.
LEMMA MoreRoutesAccount ==
  ASSUME NEW executions, NEW routeRows, NEW more, AllAccounted(executions, routeRows),
         IdSet(routeRows) \subseteq IdSet(more)
  PROVE  AllAccounted(executions, more)
  BY DEF AllAccounted, RoutedIfCharged

\* The report of a whole run describes it.
LEMMA SummaryDescribes ==
  ASSUME ShapeInv, pc = "summarize"
  PROVE  Describes(Summarize, traces)
  BY DEF Describes, Summarize

\* Writing a route, or a trace, keeps what is in memory accounted for.
LEMMA MemoryInvNext ==
  ASSUME ShapeInv, MemoryInv, [Next]_vars
  PROVE  MemoryInv'
  <1> SUFFICES /\ AllAccounted(traces', routes')
               /\ pc' = "log" => Accounted(pending') /\ RoutedIfCharged(pending', routes')
               /\ pc' = "infer" => request' \in IdSet(routes')
               /\ pc' = "record" => Describes(report', traces')
    BY DEF MemoryInv, AllAccounted, Accounted, RoutedIfCharged, AttemptCosts, IdSet, Ids, Describes
  <1>1. CASE Start \/ Crash
    <2>1. traces' = << >> /\ pc' \in {"route", "down"}
      BY <1>1 DEF Start, Crash, FreshMemory
    <2> QED
      BY <2>1 DEF MemoryInv, AllAccounted
  <1>2. CASE Admit \/ Refuse
    <2>1. PICK violation \in BOOLEAN : LogRoute(violation)
      BY <1>2 DEF Admit, Refuse
    <2>2. routes \in Seq(RouteTraces) /\ RouteTrace(violation) \in RouteTraces
      BY RouteTraceType DEF ShapeInv, RouteOrderInv
    <2>3. IdSet(routes) \cup {RouteTrace(violation).id} \subseteq IdSet(routes')
      BY <2>1, <2>2, IdsOfLongerList DEF LogRoute
    <2>4. RouteTrace(violation).id = request
      BY DEF RouteTrace
    <2>5. UNCHANGED << traces, incarnation, index >> /\ pc' \in {"infer", "log"}
      BY <1>2 DEF Admit, Refuse, history
    <2>6. AllAccounted(traces, routes')
      BY <2>3, MoreRoutesAccount DEF MemoryInv
    <2>7. pc' = "log" => Accounted(pending') /\ pending'.charged = << >>
      BY <1>2, UnexecutedTraceIsAccounted DEF Admit
    <2>8. request' \in IdSet(routes')
      BY <2>3, <2>4, <2>5 DEF request
    <2> QED
      BY <2>5, <2>6, <2>7, <2>8 DEF RoutedIfCharged
  <1>3. CASE FailUncalled
    <2>1. UNCHANGED << traces, routes >> /\ pc' = "log"
      BY <1>3 DEF FailUncalled
    <2>2. Accounted(pending') /\ pending'.charged = << >>
      BY <1>3, UnexecutedTraceIsAccounted
    <2> QED
      BY <2>1, <2>2 DEF MemoryInv, RoutedIfCharged
  <1>4. CASE FinishItem
    <2>1. UNCHANGED << traces, routes >> /\ pc = "infer" /\ pc' \in {"log", "aborted"}
      BY <1>4 DEF FinishItem
    <2>2. Accounted(pending') /\ pending'.id = request
      BY <1>4, FinishedTraceIsAccounted
    <2> QED
      BY <2>1, <2>2 DEF MemoryInv, RoutedIfCharged
  <1>5. CASE LogTrace
    <2>1. UNCHANGED routes /\ traces' = Append(traces, pending) /\ pc = "log"
          /\ pc' \in {"summarize", "route"}
      BY <1>5 DEF LogTrace
    <2>2. traces \in Seq(HonestTraces) /\ pending \in HonestTraces
      BY DEF ShapeInv, RunInv, EvidenceInv, RangeInv
    <2>3. \A i \in DOMAIN traces' :
            \/ i \in DOMAIN traces /\ traces'[i] = traces[i]
            \/ traces'[i] = pending
      BY <2>1, <2>2
    <2>4. AllAccounted(traces', routes)
      BY <2>1, <2>3 DEF MemoryInv, AllAccounted
    <2> QED
      BY <2>1, <2>4 DEF MemoryInv, RoutedIfCharged
  <1>6. CASE WriteReport
    <2>1. UNCHANGED << traces, routes >> /\ report' = Summarize /\ pc' \in {"record", "aborted"}
          /\ pc = "summarize"
      BY <1>6 DEF WriteReport
    <2>2. Describes(report', traces')
      BY <2>1, SummaryDescribes
    <2> QED
      BY <2>1, <2>2 DEF MemoryInv
  <1>7. CASE ~(Start \/ Crash) /\ ~(Admit \/ Refuse) /\ ~FailUncalled /\ ~FinishItem /\ ~LogTrace
             /\ ~WriteReport
    <2>1. /\ UNCHANGED << traces, routes, pending, report, incarnation, index >>
          /\ pc' # pc => pc' \notin {"log", "infer", "record"}
      BY <1>7
      DEF Next, RunStep, ItemStep, EditWorkload, RouteItem, RouterRaises, Execute, RecordRun,
          RecordContexts, vars, runVars, memory, history
    <2> QED
      BY <2>1 DEF MemoryInv, request
  <1> QED
    BY <1>1, <1>2, <1>3, <1>4, <1>5, <1>6, <1>7

\* The run that is recorded has the rows that were in memory.
LEMMA RowsInvNext ==
  ASSUME ShapeInv, MemoryInv, RowsInv, [Next]_vars
  PROVE  RowsInv'
  <1> SUFFICES stored' # NoRecord \/ pc' = "contexts" => Rows(stored')
    BY DEF RowsInv, Rows, AllAccounted, Accounted, RoutedIfCharged, AttemptCosts, IdSet, Ids,
           Describes, HonestTraces
  <1>1. CASE RecordRun
    <2>1. /\ pc = "record"
          /\ stored' = [report |-> report, traces |-> traces, routes |-> routes,
                        contexts |-> << >>]
      BY <1>1 DEF RecordRun
    <2>2. IdSet(routes) \subseteq IdSet(traces)
      <3>1. index = WorkloadSize + 1 /\ Len(contexts) = WorkloadSize
        BY <2>1 DEF ShapeInv, PositionInv
      <3> QED
        BY <2>1, <3>1, WholeWorkloadIsCovered DEF Covered, IdSet
    <2>3. traces \in Seq(HonestTraces) /\ AllAccounted(traces, routes) /\ Describes(report, traces)
      BY <2>1 DEF ShapeInv, RunInv, EvidenceInv, MemoryInv
    <2> QED
      BY <2>1, <2>2, <2>3 DEF RowsInv, Rows
  <1>2. CASE RecordContexts
    <2>1. stored' = stored \/ stored' = [stored EXCEPT !.contexts = contexts]
      BY <1>2 DEF RecordContexts
    <2>2. Rows(stored) /\ DOMAIN stored = {"report", "traces", "routes", "contexts"}
      BY <1>2 DEF RecordContexts, RowsInv, ShapeInv, RunInv, EvidenceInv
    <2>3. /\ stored'.report = stored.report /\ stored'.traces = stored.traces
          /\ stored'.routes = stored.routes
      BY <2>1, <2>2
    <2> QED
      BY <2>2, <2>3 DEF Rows
  <1>3. CASE ~RecordRun /\ ~RecordContexts
    <2>1. UNCHANGED stored /\ (pc' = "contexts" => pc = "contexts")
      BY <1>3
      DEF Next, RunStep, ItemStep, Start, Crash, EditWorkload, RouteItem, RouterRaises, Admit,
          Refuse, FailUncalled, Execute, FinishItem, LogTrace, WriteReport, vars, runVars, files
    <2> QED
      BY <2>1 DEF RowsInv, Rows
  <1> QED
    BY <1>1, <1>2, <1>3

\* What is known of the rows of a stored run.
THEOREM RowsInvariant == Spec => [](ShapeInv /\ FilesInv /\ MemoryInv /\ RowsInv)
  <1>1. Init => FilesInv /\ MemoryInv /\ RowsInv
    BY DEF Init, FilesInv, MemoryInv, RowsInv, AllAccounted, ToSet
  <1>2. ShapeInv /\ MemoryInv /\ RowsInv /\ [Next]_vars => MemoryInv' /\ RowsInv'
    BY MemoryInvNext, RowsInvNext
  <1> QED
    BY <1>1, <1>2, ShapeInvInit, ShapeInvNext, FilesInvNext, PTL DEF Spec

-----------------------------------------------------------------------------
(* Reconciliation *)

\* An id that occurs has a record, which is one of the list.
LEMMA RecordOfId ==
  ASSUME NEW list, NEW id \in IdSet(list)
  PROVE  /\ ById(list, id).id = id
         /\ \E i \in DOMAIN list : ById(list, id) = list[i]
  <1>1. PICK i \in DOMAIN list : id = list[i].id
    BY DEF IdSet, Ids, Range
  <1>2. list[i] \in ToSet(list)
    BY DEF ToSet
  <1>3. ById(list, id) \in ToSet(list) /\ ById(list, id).id = id
    BY <1>1, <1>2 DEF ById
  <1> QED
    BY <1>3 DEF ToSet

\* A sequence that is not empty adds up to its front and its last.
LEMMA TotalOfFrontAndLast ==
  ASSUME NEW amounts \in Seq(Nat), amounts # << >>
  PROVE  /\ Total(Front(amounts)) \in Nat /\ Last(amounts) \in Nat
         /\ Total(amounts) = Total(Front(amounts)) + Last(amounts)
  <1> DEFINE n == Len(amounts)
             front == SubSeq(amounts, 1, n - 1)
  <1>1. n \in Nat \ {0} /\ amounts[n] \in Nat
    OBVIOUS
  <1>2. front \in Seq(Nat) /\ Len(front) = n - 1 /\ \A i \in 1 .. n - 1 : front[i] = amounts[i]
    <2>1. 1 \in Int /\ n - 1 \in Int /\ \A i \in 1 .. n - 1 : amounts[i] \in Nat
      BY <1>1
    <2>2. /\ front \in Seq(Nat)
          /\ Len(front) = IF 1 <= n - 1 THEN n - 1 - 1 + 1 ELSE 0
          /\ \A i \in 1 .. n - 1 - 1 + 1 : front[i] = amounts[1 + i - 1]
      BY <2>1, SubSeqProperties
    <2> HIDE DEF front, n
    <2>3. Len(front) = n - 1
      <3>1. CASE n = 1
        BY <2>2, <3>1
      <3>2. CASE n # 1
        <4>1. 1 <= n - 1 /\ n - 1 - 1 + 1 = n - 1
          BY <1>1, <3>2
        <4> QED
          BY <2>2, <4>1
      <3> QED
        BY <3>1, <3>2
    <2>4. ASSUME NEW i \in 1 .. n - 1 PROVE front[i] = amounts[i]
      <3>1. i \in 1 .. n - 1 - 1 + 1 /\ 1 + i - 1 = i
        BY <1>1
      <3> QED
        BY <2>2, <3>1
    <2> QED
      BY <2>2, <2>3, <2>4
  <1> HIDE DEF front
  <1>3. /\ Append(front, amounts[n]) \in Seq(Nat) /\ Len(Append(front, amounts[n])) = n
        /\ \A i \in 1 .. n - 1 : Append(front, amounts[n])[i] = amounts[i]
        /\ Append(front, amounts[n])[n] = amounts[n]
    BY <1>1, <1>2
  <1>4. \A i \in 1 .. n : i \in 1 .. n - 1 \/ i = n
    BY <1>1
  <1>5. amounts = Append(front, amounts[n])
    BY <1>1, <1>3, <1>4
  <1>6. Front(amounts) = front /\ Last(amounts) = amounts[n]
    BY DEF Front, Last, front
  <1>7. Total(Append(front, amounts[n])) = Total(front) + amounts[n] /\ Total(front) \in Nat
    BY <1>1, <1>2, TotalAppend, TotalType
  <1> QED
    BY <1>1, <1>5, <1>6, <1>7

\* What is attributed to the attempts before the last is what they were
\* charged.
LEMMA NonFinalCostIsCharged ==
  ASSUME NEW t \in HonestTraces, Accounted(t), t.complete, ~NotExecuted(t),
         NonFinalCost(t) # Unknown
  PROVE  NonFinalCost(t) = Total(Front(t.charged))
  <1>1. /\ t.attempts \in Seq(Attempt) /\ t.charged \in Seq(Charges) /\ t.cost = Total(t.charged)
        /\ AttemptCosts(t.attempts) = t.charged
    BY DEF HonestTraces, Accounted
  <1>2. t.attempts # << >>
    BY DEF Accounted, NotExecuted
  <1>3. /\ Len(t.attempts) \in Nat \ {0} /\ DOMAIN t.attempts = 1 .. Len(t.attempts)
        /\ DOMAIN t.charged = DOMAIN t.attempts
    BY <1>1, <1>2 DEF AttemptCosts
  <1>4. Len(t.charged) = Len(t.attempts) /\ t.charged # << >>
    BY <1>1, <1>3
  <1>5. Last(t.attempts).cost = Last(t.charged)
    BY <1>1, <1>3, <1>4 DEF Last, AttemptCosts
  <1>6. FinalAttemptCost(t) # Unknown => FinalAttemptCost(t) = Last(t.charged)
    BY <1>2, <1>5 DEF FinalAttemptCost
  <1>7. NonFinalCost(t) = t.cost - Last(t.charged)
    BY <1>6 DEF NonFinalCost
  <1>8. t.charged \in Seq(Nat)
    BY <1>1, ChargesAssumption, SeqMonotonic
  <1> QED
    BY <1>1, <1>4, <1>7, <1>8, TotalOfFrontAndLast

\* The observed total of a reconciled run is what was charged for the requests
\* it compares, the cost of the attempts before the last is what they were
\* charged, and its gaps hide no spending.
THEOREM ReconciliationsAreTrue == Spec => []ReconciliationIsTrue
  <1>1. RowsInv => ReconciliationIsTrue
    <2> SUFFICES ASSUME RowsInv, stored # NoRecord
                 PROVE  ReconciliationIsTrue
      BY DEF ReconciliationIsTrue
    <2> DEFINE comparable == Comparable(stored.routes, stored.traces)
               status(id) == Status(stored.routes, stored.traces, id)
    <2>1. Rows(stored)
      BY DEF RowsInv
    <2>2. ASSUME NEW id \in IdSet(stored.traces)
          PROVE  /\ ById(stored.traces, id) \in HonestTraces
                 /\ Accounted(ById(stored.traces, id))
                 /\ ChargedFor(id) # << >> => id \in IdSet(stored.routes)
      <3>1. PICK i \in DOMAIN stored.traces : ById(stored.traces, id) = stored.traces[i]
        BY RecordOfId
      <3>2. ById(stored.traces, id).id = id
        BY RecordOfId
      <3> QED
        BY <2>1, <3>1, <3>2 DEF Rows, AllAccounted, RoutedIfCharged, ChargedFor
    <2>3. ASSUME NEW id \in comparable
          PROVE  /\ id \in IdSet(stored.traces) /\ ById(stored.traces, id).complete
                 /\ ~NotExecuted(ById(stored.traces, id))
      <3>1. id \in IdSet(stored.routes) /\ id \in IdSet(stored.traces)
        BY <2>1 DEF Comparable, Status, ComparableStatuses, Rows
      <3> QED
        BY <3>1 DEF Comparable, Status, ComparableStatuses
    <2>4. ReconcileRun(stored.routes, stored.traces).observed =
            Total([id \in comparable |-> Total(ChargedFor(id))])
      <3>1. \A id \in comparable : ById(stored.traces, id).cost = Total(ChargedFor(id))
        BY <2>2, <2>3 DEF HonestTraces, ChargedFor
      <3> QED
        BY <3>1 DEF ReconcileRun
    <2>5. ASSUME NEW id \in comparable, NonFinalCost(ById(stored.traces, id)) # Unknown
          PROVE  NonFinalCost(ById(stored.traces, id)) = Total(Front(ChargedFor(id)))
      BY <2>2, <2>3, <2>5, NonFinalCostIsCharged DEF ChargedFor
    <2>6. ASSUME NEW id \in IdSet(stored.routes) \cup IdSet(stored.traces)
          PROVE  /\ status(id) # "missing_execution"
                 /\ status(id) \in {"not_executed", "missing_route"} => ChargedFor(id) = << >>
      <3>1. id \in IdSet(stored.traces)
        BY <2>1 DEF Rows
      <3>2. CASE id \notin IdSet(stored.routes)
        BY <2>2, <3>1, <3>2 DEF Status
      <3>3. CASE id \in IdSet(stored.routes)
        BY <2>2, <3>1, <3>3 DEF Status, NotExecuted, Accounted, ChargedFor
      <3> QED
        BY <3>2, <3>3
    <2> QED
      BY <2>4, <2>5, <2>6 DEF ReconciliationIsTrue, ReconcileRun
  <1> QED
    BY <1>1, RowsInvariant, PTL

-----------------------------------------------------------------------------
(* Segments *)

\* The executions of one incarnation, one per item of the workload.
Numbered(executions, n) ==
  /\ executions \in Seq(HonestTraces) /\ DOMAIN executions = 1 .. WorkloadSize
  /\ \A i \in 1 .. WorkloadSize : executions[i].id = << n, i >>

\* Every request has exactly one of the tags in "values".
TaggedOnce(ids, values) ==
  \A id \in ids : IsFiniteSet(Tags[id[2]]) /\ Cardinality(Tags[id[2]] \cap values) = 1

\* m has for each position of a run the amount that f has for its id.
Measures(f, m, n) ==
  /\ DOMAIN m = 1 .. WorkloadSize
  /\ \A i \in 1 .. WorkloadSize : m[i] \in Nat /\ f[<< n, i >>] = m[i]

\* g has for each of the tags what f adds up to over the requests that have it.
BySegment(g, f, ids, values) ==
  DOMAIN g = values /\ \A tag \in values : g[tag] = SumOn(f, Members(ids, tag))

\* Each id of a run is that of one position, and finds the record there.
LEMMA NumberedIds ==
  ASSUME NEW executions, NEW n, Numbered(executions, n)
  PROVE  /\ \A i \in 1 .. WorkloadSize : << n, i >> \in IdSet(executions)
         /\ \A id \in IdSet(executions) : \E i \in 1 .. WorkloadSize : id = << n, i >>
         /\ \A i \in 1 .. WorkloadSize : ById(executions, << n, i >>) = executions[i]
  <1>1. /\ DOMAIN executions = 1 .. WorkloadSize
        /\ \A i \in 1 .. WorkloadSize : executions[i].id = << n, i >>
    BY DEF Numbered
  <1>2. \A i \in 1 .. WorkloadSize : << n, i >> \in IdSet(executions)
    BY <1>1 DEF IdSet, Ids, Range
  <1>3. \A id \in IdSet(executions) : \E i \in 1 .. WorkloadSize : id = << n, i >>
    BY <1>1 DEF IdSet, Ids, Range
  <1>4. ASSUME NEW i \in 1 .. WorkloadSize
        PROVE  ById(executions, << n, i >>) = executions[i]
    <2>1. << n, i >> \in IdSet(executions)
      BY <1>2
    <2>2. PICK j \in 1 .. WorkloadSize : ById(executions, << n, i >>) = executions[j]
      BY <1>1, <2>1, RecordOfId
    <2>3. executions[j].id = << n, i >>
      BY <2>1, <2>2, RecordOfId
    <2> QED
      BY <1>1, <2>2, <2>3
  <1> QED
    BY <1>2, <1>3, <1>4

\* A sum over the ids of a run is the sum over its positions.
LEMMA TotalOfRun ==
  ASSUME NEW executions, NEW n, Numbered(executions, n), NEW f, NEW m,
         Measures(f, m, n)
  PROVE  /\ Summable(f, IdSet(executions))
         /\ SumOn(f, IdSet(executions)) = Total(m)
  <1> DEFINE e == [i \in 1 .. WorkloadSize |-> << n, i >>]
             ids == IdSet(executions)
             T == 1 .. WorkloadSize
  <1>1. IsFiniteSet(T)
    BY WorkloadSizeAssumption, FS_Interval
  <1>2. Summable(m, T)
    <2>1. \A i \in T : m[i] \in Nat
      BY DEF Measures
    <2> QED
      BY <1>1, <2>1 DEF Summable
  <1>3. Renames(e, f, m, ids, T)
    BY NumberedIds DEF Renames, Measures
  <1> HIDE DEF e, ids, T
  <1>4. Summable(f, ids) /\ SumOn(f, ids) = SumOn(m, T)
    BY <1>2, <1>3, SumOnRenamed
  <1> QED
    BY <1>4 DEF Total, SumFunction, SumOn, ids, T, Measures

\* The amounts of the segments of a key that every item carries once add up to
\* the amount of the run.
LEMMA SegmentsAddUp ==
  ASSUME NEW ids, NEW values, TaggedOnce(ids, values), IsFiniteSet(values), NEW f, NEW g,
         Summable(f, ids), BySegment(g, f, ids, values)
  PROVE  Total(g) = SumOn(f, ids)
  <1> DEFINE p == [id \in ids |-> CHOOSE tag \in values : tag \in Tags[id[2]]]
  <1>1. ASSUME NEW id \in ids
        PROVE  /\ p[id] \in values
               /\ \A tag \in values : tag \in Tags[id[2]] <=> p[id] = tag
    <2>1. IsFiniteSet(Tags[id[2]] \cap values) /\ Cardinality(Tags[id[2]] \cap values) = 1
      BY FS_Intersection DEF TaggedOnce
    <2>2. PICK tag : Tags[id[2]] \cap values = {tag}
      BY <2>1, FS_Singleton
    <2> QED
      BY <2>2
  <1> HIDE DEF p
  <1>2. \A tag \in values : Members(ids, tag) = {id \in ids : p[id] = tag}
    BY <1>1 DEF Members
  <1>3. PartSums(g, f, ids, values, p)
    BY <1>1, <1>2 DEF PartSums, BySegment
  <1>4. SumOn(g, values) = SumOn(f, ids)
    BY <1>3, SumOnParts
  <1> QED
    BY <1>4 DEF Total, SumFunction, SumOn, BySegment

\* What a segment adds up is a sum over its members.
LEMMA MembersTotal ==
  ASSUME NEW f, NEW members, IsFiniteSet(members), NEW m, DOMAIN m = members,
         \A id \in members : m[id] = f[id]
  PROVE  Total(m) = SumOn(f, members)
  <1>1. SumOn(m, members) = SumOn(f, members)
    BY SumOnCongruence
  <1> QED
    BY <1>1 DEF Total, SumFunction, SumOn

\* The amounts of the segments are, together, those of the executions.
LEMMA AmountsAddUp ==
  ASSUME NEW executions, NEW n, Numbered(executions, n), NEW values,
         TaggedOnce(IdSet(executions), values), IsFiniteSet(values), NEW f, NEW m, NEW g,
         Measures(f, m, n), BySegment(g, f, IdSet(executions), values)
  PROVE  Total(g) = Total(m)
  <1>1. Summable(f, IdSet(executions)) /\ SumOn(f, IdSet(executions)) = Total(m)
    BY TotalOfRun
  <1> QED
    BY <1>1, SegmentsAddUp

\* The fields of a segment.
LEMMA SegmentFields ==
  ASSUME NEW executions, NEW members, NEW segment, segment = Segment(executions, members)
  PROVE  /\ segment.requests = Cardinality(members)
         /\ segment.attempts = Total([id \in members |-> ById(executions, id).attemptCount])
         /\ segment.complete <=> \A id \in members : ById(executions, id).complete
         /\ segment.complete =>
              segment.cost = Total([id \in members |-> ById(executions, id).cost])
  BY DEF Segment

\* The segments of a run, and what a key that every item carries once makes of
\* them.
LEMMA SegmentsOfRun ==
  ASSUME NEW executions, NEW n, Numbered(executions, n), NEW values,
         TaggedOnce(IdSet(executions), values), IsFiniteSet(values), NEW segments,
         \A tag \in values :
           segments[tag] = Segment(executions, Members(IdSet(executions), tag))
  PROVE  /\ Total([tag \in values |-> segments[tag].requests]) = Len(executions)
         /\ Total([tag \in values |-> segments[tag].attempts]) =
              Total([i \in DOMAIN executions |-> executions[i].attemptCount])
         /\ (\A i \in DOMAIN executions : executions[i].complete) <=>
              \A tag \in values : segments[tag].complete
         /\ (\A i \in DOMAIN executions : executions[i].complete) =>
              Total([tag \in values |-> segments[tag].cost]) = Total(AttemptCosts(executions))
  <1> DEFINE ids == IdSet(executions)
             W == 1 .. WorkloadSize
             At(id) == ById(executions, id)
             members(tag) == Members(ids, tag)
  <1>1. /\ \A i \in W : << n, i >> \in ids /\ At(<< n, i >>) = executions[i]
        /\ \A id \in ids : \E i \in W : id = << n, i >>
    BY NumberedIds
  <1>2. /\ executions \in Seq(HonestTraces) /\ DOMAIN executions = W
        /\ Len(executions) = WorkloadSize
    BY WorkloadSizeAssumption DEF Numbered
  <1>3. \A i \in W : executions[i] \in HonestTraces
    BY <1>2
  <1>4. IsFiniteSet(W) /\ Cardinality(W) = WorkloadSize
    BY WorkloadSizeAssumption, FS_Interval
  <1>5. \A tag \in values : members(tag) \subseteq ids
    BY DEF Members
  <1>6. \A id \in ids : \E tag \in values : id \in members(tag)
    <2> SUFFICES ASSUME NEW id \in ids PROVE \E tag \in values : tag \in Tags[id[2]]
      BY DEF Members
    <2>1. IsFiniteSet(Tags[id[2]] \cap values) /\ Cardinality(Tags[id[2]] \cap values) = 1
      BY FS_Intersection DEF TaggedOnce
    <2>2. PICK tag : Tags[id[2]] \cap values = {tag}
      BY <2>1, FS_Singleton
    <2> QED
      BY <2>2
  <1>7. \A tag \in values : segments[tag].complete <=> \A id \in members(tag) : At(id).complete
    BY SegmentFields
  <1>8. (\A i \in DOMAIN executions : executions[i].complete) <=> \A id \in ids : At(id).complete
    BY <1>1, <1>2
  <1>9. (\A id \in ids : At(id).complete) <=> \A tag \in values : segments[tag].complete
    BY <1>5, <1>6, <1>7
  <1>10. IsFiniteSet(ids) /\ \A tag \in values : IsFiniteSet(members(tag))
    <2> DEFINE one == [id \in ids |-> 1]
               ones == [i \in W |-> 1]
    <2>1. Measures(one, ones, n)
      BY <1>1 DEF Measures
    <2> HIDE DEF one, ones
    <2>2. Summable(one, ids)
      BY <2>1, TotalOfRun
    <2> QED
      BY <1>5, <2>2, FS_Subset DEF Summable
  <1>11. Total([tag \in values |-> segments[tag].requests]) = Len(executions)
    <2> DEFINE f == [id \in ids |-> 1]
               m == [i \in W |-> 1]
               g == [tag \in values |-> segments[tag].requests]
    <2>1. Measures(f, m, n) /\ DOMAIN g = values
      BY <1>1 DEF Measures
    <2>2. ASSUME NEW tag \in values PROVE g[tag] = SumOn(f, members(tag))
      <3> DEFINE h == [id \in members(tag) |-> 1]
      <3>1. g[tag] = Cardinality(members(tag))
        BY SegmentFields
      <3>2. SumOn(h, members(tag)) = Cardinality(members(tag))
        BY <1>10, CardinalityIsSum
      <3>3. \A id \in members(tag) : h[id] = f[id]
        BY <1>5
      <3> HIDE DEF h, f, members, g
      <3>4. SumOn(h, members(tag)) = SumOn(f, members(tag))
        BY <1>10, <3>3, SumOnCongruence
      <3> QED
        BY <3>1, <3>2, <3>4
    <2>3. SumOn(m, W) = WorkloadSize
      BY <1>4, CardinalityIsSum
    <2> HIDE DEF f, m, g
    <2>4. Total(g) = Total(m)
      BY <2>1, <2>2, AmountsAddUp DEF BySegment
    <2>5. Total(m) = SumOn(m, W)
      BY <2>1 DEF Total, SumFunction, SumOn, Measures
    <2> QED
      BY <1>2, <2>3, <2>4, <2>5 DEF g
  <1>12. Total([tag \in values |-> segments[tag].attempts]) =
           Total([i \in DOMAIN executions |-> executions[i].attemptCount])
    <2> DEFINE f == [id \in ids |-> At(id).attemptCount]
               m == [i \in DOMAIN executions |-> executions[i].attemptCount]
               g == [tag \in values |-> segments[tag].attempts]
    <2>1. Measures(f, m, n) /\ DOMAIN g = values
      BY <1>1, <1>2, <1>3 DEF HonestTraces, Measures
    <2>2. ASSUME NEW tag \in values PROVE g[tag] = SumOn(f, members(tag))
      <3> DEFINE h == [id \in members(tag) |-> At(id).attemptCount]
      <3>1. g[tag] = Total(h)
        BY SegmentFields
      <3>2. DOMAIN h = members(tag) /\ \A id \in members(tag) : h[id] = f[id]
        BY <1>5
      <3> HIDE DEF h, f, members, g
      <3> QED
        BY <1>10, <3>1, <3>2, MembersTotal
    <2> HIDE DEF f, m, g
    <2>3. Total(g) = Total(m)
      BY <2>1, <2>2, AmountsAddUp DEF BySegment
    <2> QED
      BY <2>3 DEF g, m
  <1>13. ASSUME \A i \in DOMAIN executions : executions[i].complete
         PROVE  Total([tag \in values |-> segments[tag].cost]) = Total(AttemptCosts(executions))
    <2> DEFINE f == [id \in ids |-> At(id).cost]
               m == AttemptCosts(executions)
               g == [tag \in values |-> segments[tag].cost]
    <2>1. \A i \in W : executions[i].cost \in Nat
      <3> SUFFICES ASSUME NEW i \in W PROVE executions[i].cost \in Nat
        OBVIOUS
      <3>1. executions[i].cost = Total(executions[i].charged)
            /\ executions[i].charged \in Seq(Charges)
        BY <1>2, <1>3, <1>13 DEF HonestTraces
      <3>2. executions[i].charged \in Seq(Nat)
        BY <3>1, ChargesAssumption, SeqMonotonic
      <3> QED
        BY <3>1, <3>2, TotalType
    <2>2. Measures(f, m, n) /\ DOMAIN g = values
      BY <1>1, <1>2, <2>1 DEF AttemptCosts, Measures
    <2>3. ASSUME NEW tag \in values PROVE g[tag] = SumOn(f, members(tag))
      <3> DEFINE h == [id \in members(tag) |-> At(id).cost]
      <3>1. \A id \in members(tag) : At(id).complete
        BY <1>5, <1>8, <1>13
      <3>2. g[tag] = Total(h)
        BY <3>1, SegmentFields
      <3>3. DOMAIN h = members(tag) /\ \A id \in members(tag) : h[id] = f[id]
        BY <1>5
      <3> HIDE DEF h, f, members, g
      <3> QED
        BY <1>10, <3>2, <3>3, MembersTotal
    <2> HIDE DEF f, m, g
    <2>4. Total(g) = Total(m)
      BY <2>2, <2>3, AmountsAddUp DEF BySegment
    <2> QED
      BY <2>4 DEF g, m
  <1> QED
    BY <1>8, <1>9, <1>11, <1>12, <1>13

\* A segment that claims a cost claims what was charged for its requests, and
\* over a tag key that every item carries once the segments add up to the
\* report.
THEOREM SegmentsAreTheRun == Spec => []SegmentsReconstructRun
  <1>1. FilesInv /\ RowsInv => SegmentsReconstructRun
    <2> SUFFICES ASSUME FilesInv, RowsInv, stored # NoRecord, stored.contexts # << >>
                 PROVE  SegmentsReconstructRun
      BY DEF SegmentsReconstructRun
    <2> DEFINE ids == Range(stored.contexts)
               tagsInUse == UNION {Tags[id[2]] : id \in ids}
               segments == [tag \in tagsInUse |-> Segment(stored.traces, Members(ids, tag))]
               values(key) == {tag \in tagsInUse : tag[1] = key}
    <2>1. Rows(stored) /\ WholeIncarnation
      BY DEF RowsInv, FilesInv
    <2>2. stored.contexts = Ids(stored.traces)
      BY <2>1 DEF WholeIncarnation
    <2>3. ids = IdSet(stored.traces)
      BY <2>2 DEF IdSet
    <2>4. PICK n : Ids(stored.traces) = [i \in 1 .. WorkloadSize |-> << n, i >>]
      BY <2>1 DEF WholeIncarnation
    <2>5. Numbered(stored.traces, n)
      BY <2>1, <2>4 DEF Numbered, Rows, Ids
    <2>6. \A id \in ids : IsFiniteSet(Tags[id[2]])
      BY <2>3, <2>5, NumberedIds, TagsAssumption
    <2>7. IsFiniteSet(tagsInUse)
      <3> DEFINE sets == {Tags[id[2]] : id \in ids}
                 map == [i \in 1 .. WorkloadSize |-> Tags[i]]
      <3>1. IsFiniteSet(1 .. WorkloadSize)
        BY WorkloadSizeAssumption, FS_Interval
      <3>2. map \in Surjection(1 .. WorkloadSize, sets)
        <4>1. \A i \in 1 .. WorkloadSize : map[i] \in sets
          <5> SUFFICES ASSUME NEW i \in 1 .. WorkloadSize PROVE map[i] \in sets
            OBVIOUS
          <5>1. << n, i >> \in ids /\ map[i] = Tags[<< n, i >>[2]]
            BY <2>3, <2>5, NumberedIds
          <5> QED
            BY <5>1
        <4>2. \A set \in sets : \E i \in 1 .. WorkloadSize : map[i] = set
          BY <2>3, <2>5, NumberedIds
        <4> QED
          BY <4>1, <4>2 DEF Surjection
      <3>3. \A set \in sets : IsFiniteSet(set)
        BY <2>6
      <3> HIDE DEF map, sets
      <3>4. IsFiniteSet(sets)
        BY <3>1, <3>2, FS_Surjection
      <3>5. IsFiniteSet(UNION sets)
        BY <3>3, <3>4, FS_UNION
      <3> QED
        BY <3>5 DEF sets
    <2>8. ASSUME NEW tag \in tagsInUse, segments[tag].complete
          PROVE  segments[tag].cost =
                   Total([id \in Members(ids, tag) |-> Total(ChargedFor(id))])
      <3> DEFINE members == Members(ids, tag)
      <3>1. PICK segment : segment = segments[tag] /\ segment = Segment(stored.traces, members)
        OBVIOUS
      <3> HIDE DEF segments, members
      <3>2. segment.complete
        BY <2>8, <3>1
      <3>3. /\ segment.complete <=> \A id \in members : ById(stored.traces, id).complete
            /\ segment.complete =>
                 segment.cost = Total([id \in members |-> ById(stored.traces, id).cost])
        BY <3>1, SegmentFields
      <3>4. /\ \A id \in members : ById(stored.traces, id).complete
            /\ segments[tag].cost = Total([id \in members |-> ById(stored.traces, id).cost])
        BY <3>1, <3>2, <3>3
      <3>5. ASSUME NEW id \in members
            PROVE  ById(stored.traces, id).cost = Total(ChargedFor(id))
        <4>1. id \in IdSet(stored.traces)
          BY <2>3 DEF Members, members
        <4>2. ById(stored.traces, id) \in HonestTraces
          BY <2>1, <4>1, RecordOfId DEF Rows
        <4> QED
          BY <3>4, <4>2 DEF HonestTraces, ChargedFor
      <3> QED
        BY <3>4, <3>5 DEF members
    <2>9. ASSUME NEW key,
                 \A id \in ids : Cardinality(Tags[id[2]] \cap values(key)) = 1
          PROVE  /\ stored.report.requests = Total([tag \in values(key) |-> segments[tag].requests])
                 /\ stored.report.attempts = Total([tag \in values(key) |-> segments[tag].attempts])
                 /\ stored.report.complete <=> \A tag \in values(key) : segments[tag].complete
                 /\ stored.report.complete =>
                      stored.report.cost = Total([tag \in values(key) |-> segments[tag].cost])
      <3> DEFINE V == values(key)
      <3>1. IsFiniteSet(V)
        BY <2>7, FS_Subset
      <3>2. TaggedOnce(ids, V)
        BY <2>6, <2>9 DEF TaggedOnce
      <3>3. \A tag \in V : segments[tag] = Segment(stored.traces, Members(ids, tag))
        OBVIOUS
      <3> HIDE DEF V, segments, ids
      <3>4. /\ Total([tag \in V |-> segments[tag].requests]) = Len(stored.traces)
            /\ Total([tag \in V |-> segments[tag].attempts]) =
                 Total([i \in DOMAIN stored.traces |-> stored.traces[i].attemptCount])
            /\ (\A i \in DOMAIN stored.traces : stored.traces[i].complete) <=>
                 \A tag \in V : segments[tag].complete
            /\ (\A i \in DOMAIN stored.traces : stored.traces[i].complete) =>
                 Total([tag \in V |-> segments[tag].cost]) = Total(AttemptCosts(stored.traces))
        BY <2>3, <2>5, <3>1, <3>2, <3>3, SegmentsOfRun
      <3> QED
        BY <2>1, <3>4 DEF Rows, Describes, V
    <2> QED
      BY <2>8, <2>9 DEF SegmentsReconstructRun
  <1> QED
    BY <1>1, RowsInvariant, PTL

-----------------------------------------------------------------------------
(* Files *)

\* What a write of a record of R leaves on a line.
Fragments(R) == [record : R, whole : BOOLEAN]

\* read_all does not raise.
Readable(file) == \A i \in DOMAIN file.lines : Parses(file.lines[i])

\* A file of records of R that holds a log, as far as it can be read.
Holds(R, log, file) ==
  /\ log \in Seq(R)
  /\ file \in [lines : Seq(Seq(Fragments(R))), ended : BOOLEAN]
  /\ \A i \in 1 .. Len(file.lines) : file.lines[i] # << >>
  /\ ~file.ended => file.lines # << >>
  /\ Readable(file) =>
       /\ Len(file.lines) = Len(log) + (IF file.ended THEN 0 ELSE 1)
       /\ \A i \in 1 .. Len(log) : file.lines[i][1].record = log[i]

Undamaged(file) == Readable(file) /\ file.ended

IsWritten(new, file, text, ended) == new = Written(file, text, ended)

LogsInv ==
  /\ Holds(HonestTraces, requestLog, requestFile)
  /\ Holds(RouteTraces, routeLog, routeFile)
  /\ ~cut => Undamaged(requestFile) /\ Undamaged(routeFile)

-----------------------------------------------------------------------------
(* One write *)

\* Text written to a file begins a line, which parses if the text is whole, or
\* is added to one, which then does not parse.
LEMMA WrittenText ==
  ASSUME NEW R, NEW log, NEW file, Holds(R, log, file),
         NEW text \in Fragments(R), NEW ended \in BOOLEAN, NEW new,
         IsWritten(new, file, text, ended)
  PROVE  /\ new \in [lines : Seq(Seq(Fragments(R))), ended : BOOLEAN] /\ new.ended = ended
         /\ \A i \in 1 .. Len(new.lines) : new.lines[i] # << >>
         /\ new.lines # << >>
         /\ file.ended =>
              /\ Len(new.lines) = Len(file.lines) + 1
              /\ \A i \in 1 .. Len(file.lines) : new.lines[i] = file.lines[i]
              /\ new.lines[Len(new.lines)] = << text >>
         /\ ~file.ended => ~Readable(new)
  <1> DEFINE Line == Seq(Fragments(R))
  <1>1. /\ file.lines \in Seq(Line) /\ file.ended \in BOOLEAN
        /\ file = [lines |-> file.lines, ended |-> file.ended]
        /\ \A i \in 1 .. Len(file.lines) : file.lines[i] # << >>
        /\ ~file.ended => file.lines # << >>
    BY DEF Holds
  <1>2. << text >> \in Line /\ << text >> # << >>
    OBVIOUS
  <1>3. CASE file.ended
    <2>1. new = [ended |-> ended, lines |-> Append(file.lines, << text >>)]
      BY <1>3 DEF Written, IsWritten
    <2> HIDE DEF Line
    <2> DEFINE piece == << text >>
    <2>2. piece \in Line /\ piece # << >>
      BY <1>2
    <2> HIDE DEF piece
    <2>3. /\ Append(file.lines, piece) \in Seq(Line)
          /\ Len(Append(file.lines, piece)) = Len(file.lines) + 1
          /\ \A i \in 1 .. Len(file.lines) : Append(file.lines, piece)[i] = file.lines[i]
          /\ Append(file.lines, piece)[Len(file.lines) + 1] = piece
      BY <1>1, <2>2
    <2>4. new.lines = Append(file.lines, piece) /\ new.ended = ended
      BY <2>1 DEF piece
    <2>5. \A i \in 1 .. Len(new.lines) : new.lines[i] # << >>
      BY <1>1, <2>2, <2>3, <2>4
    <2>6. new \in [lines : Seq(Line), ended : BOOLEAN]
      BY <2>1, <2>3, <2>4
    <2>7. new.lines # << >>
      BY <1>1, <2>3, <2>4
    <2> QED
      BY <1>1, <1>3, <2>3, <2>4, <2>5, <2>6, <2>7 DEF Line, piece
  <1>4. CASE ~file.ended
    <2> DEFINE last == Len(file.lines)
               longer == Append(file.lines[last], text)
    <2>1. last \in DOMAIN file.lines /\ last \in Nat
      BY <1>1, <1>4
    <2>2. file.lines[last] \in Line /\ file.lines[last] # << >>
      BY <1>1, <2>1
    <2>3. longer \in Line /\ Len(longer) # 1 /\ longer # << >>
      BY <2>2
    <2> HIDE DEF longer, Line
    <2>4. new = [ended |-> ended, lines |-> [file.lines EXCEPT ![last] = longer]]
      BY <1>4 DEF Written, IsWritten, longer
    <2>5. /\ new.lines \in Seq(Line) /\ Len(new.lines) = last
          /\ new.lines[last] = longer /\ last \in DOMAIN new.lines
          /\ \A i \in 1 .. last : i # last => new.lines[i] = file.lines[i]
      BY <1>1, <2>1, <2>3, <2>4
    <2>6. ~Readable(new)
      <3>1. ~Parses(new.lines[last])
        BY <2>3, <2>5 DEF Parses
      <3> QED
        BY <2>5, <3>1 DEF Readable
    <2>7. \A i \in 1 .. Len(new.lines) : new.lines[i] # << >>
      BY <1>1, <2>3, <2>5
    <2>8. new \in [lines : Seq(Line), ended : BOOLEAN] /\ new.ended = ended
      BY <2>4, <2>5
    <2>9. new.lines # << >>
      BY <2>1, <2>5
    <2> QED
      BY <1>4, <2>6, <2>7, <2>8, <2>9 DEF Line
  <1> QED
    BY <1>3, <1>4

\* A file that had a line appended holds the log with that record.
LEMMA AppendedFileHolds ==
  ASSUME NEW R, NEW log, NEW file, Holds(R, log, file), NEW record \in R
  PROVE  /\ Holds(R, Append(log, record), AppendLine(file, record))
         /\ Undamaged(file) => Undamaged(AppendLine(file, record))
  <1> DEFINE new == AppendLine(file, record)
             text == WholeText(record)
  <1>1. text \in Fragments(R) /\ text.record = record /\ text.whole
    BY DEF WholeText, Fragments
  <1>2. IsWritten(new, file, text, TRUE) /\ TRUE \in BOOLEAN
    BY DEF AppendLine, IsWritten
  <1> HIDE DEF new, text
  <1>3. /\ new \in [lines : Seq(Seq(Fragments(R))), ended : BOOLEAN] /\ new.ended = TRUE
        /\ \A i \in 1 .. Len(new.lines) : new.lines[i] # << >>
        /\ new.lines # << >>
        /\ file.ended =>
             /\ Len(new.lines) = Len(file.lines) + 1
             /\ \A i \in 1 .. Len(file.lines) : new.lines[i] = file.lines[i]
             /\ new.lines[Len(new.lines)] = << text >>
        /\ ~file.ended => ~Readable(new)
    BY <1>1, <1>2, WrittenText
  <1>4. /\ log \in Seq(R) /\ Append(log, record) \in Seq(R)
        /\ Len(Append(log, record)) = Len(log) + 1 /\ Len(log) \in Nat
        /\ Append(log, record)[Len(log) + 1] = record
        /\ \A i \in 1 .. Len(log) : Append(log, record)[i] = log[i]
    BY DEF Holds
  <1>5. /\ file.lines \in Seq(Seq(Fragments(R)))
        /\ Readable(file) /\ file.ended =>
             /\ Len(file.lines) = Len(log)
             /\ \A i \in 1 .. Len(log) : file.lines[i][1].record = log[i]
    BY DEF Holds
  <1>6. file.lines \in Seq(Seq(Fragments(R))) /\ Len(file.lines) \in Nat
        /\ DOMAIN file.lines = 1 .. Len(file.lines) /\ DOMAIN new.lines = 1 .. Len(new.lines)
    BY <1>3, <1>5
  <1>7. << text >>[1] = text /\ Len(<< text >>) = 1
    OBVIOUS
  <1>8. CASE file.ended /\ Readable(new)
    <2>1. Readable(file)
      <3>1. \A i \in DOMAIN file.lines : i \in DOMAIN new.lines /\ new.lines[i] = file.lines[i]
        BY <1>3, <1>6, <1>8
      <3> QED
        BY <1>8, <3>1 DEF Readable
    <2>2. /\ Len(new.lines) = Len(log) + 1
          /\ \A i \in 1 .. Len(log) : new.lines[i][1].record = log[i]
          /\ new.lines[Len(log) + 1] = << text >>
      BY <1>3, <1>4, <1>5, <1>8, <2>1
    <2>3. \A i \in 1 .. Len(log) + 1 : i \in 1 .. Len(log) \/ i = Len(log) + 1
      BY <1>4
    <2>4. \A i \in 1 .. Len(log) + 1 : new.lines[i][1].record = Append(log, record)[i]
      BY <1>1, <1>4, <1>7, <2>2, <2>3
    <2> QED
      BY <1>3, <1>4, <2>2, <2>4, <1>8 DEF Holds, new, Undamaged
  <1>9. CASE ~(file.ended /\ Readable(new))
    <2>1. ~Readable(new)
      BY <1>3, <1>9
    <2>2. Holds(R, Append(log, record), new)
      BY <1>3, <1>4, <2>1 DEF Holds
    <2>3. ~Undamaged(file)
      <3>1. SUFFICES ASSUME Undamaged(file) PROVE FALSE
        OBVIOUS
      <3>2. \A i \in DOMAIN file.lines : Parses(new.lines[i])
        BY <1>3, <1>6, <3>1 DEF Undamaged, Readable
      <3>3. Parses(new.lines[Len(new.lines)])
        BY <1>1, <1>3, <1>7, <3>1 DEF Undamaged, Parses
      <3>4. \A i \in DOMAIN new.lines : i \in DOMAIN file.lines \/ i = Len(new.lines)
        BY <1>3, <1>6, <3>1 DEF Undamaged
      <3> QED
        BY <2>1, <3>2, <3>3, <3>4 DEF Readable
    <2> QED
      BY <2>2, <2>3 DEF new
  <1> QED
    BY <1>8, <1>9

\* After a write that was cut short, the file holds the log it held.
LEMMA CutFileHolds ==
  ASSUME NEW R, NEW log, NEW file, Holds(R, log, file), NEW record \in R,
         NEW new \in CutShort(file, record)
  PROVE  Holds(R, log, new)
  <1>1. PICK whole \in BOOLEAN :
          IsWritten(new, file, [record |-> record, whole |-> whole], FALSE)
    BY DEF CutShort, TornText, WholeText, IsWritten
  <1> DEFINE text == [record |-> record, whole |-> whole]
  <1>2. text \in Fragments(R) /\ IsWritten(new, file, text, FALSE) /\ FALSE \in BOOLEAN
    BY <1>1 DEF Fragments
  <1> HIDE DEF text
  <1>3. /\ new \in [lines : Seq(Seq(Fragments(R))), ended : BOOLEAN] /\ new.ended = FALSE
        /\ \A i \in 1 .. Len(new.lines) : new.lines[i] # << >>
        /\ new.lines # << >>
        /\ file.ended =>
             /\ Len(new.lines) = Len(file.lines) + 1
             /\ \A i \in 1 .. Len(file.lines) : new.lines[i] = file.lines[i]
             /\ new.lines[Len(new.lines)] = << text >>
        /\ ~file.ended => ~Readable(new)
    BY <1>2, WrittenText
  <1>4. /\ file.lines \in Seq(Seq(Fragments(R))) /\ log \in Seq(R)
        /\ Readable(file) /\ file.ended =>
             /\ Len(file.lines) = Len(log)
             /\ \A i \in 1 .. Len(log) : file.lines[i][1].record = log[i]
    BY DEF Holds
  <1>5. Len(file.lines) \in Nat
        /\ DOMAIN file.lines = 1 .. Len(file.lines) /\ DOMAIN new.lines = 1 .. Len(new.lines)
    BY <1>3, <1>4
  <1>6. Readable(new) =>
          /\ Len(new.lines) = Len(log) + 1
          /\ \A i \in 1 .. Len(log) : new.lines[i][1].record = log[i]
    <2> SUFFICES ASSUME Readable(new)
                 PROVE  /\ Len(new.lines) = Len(log) + 1
                        /\ \A i \in 1 .. Len(log) : new.lines[i][1].record = log[i]
      OBVIOUS
    <2>1. file.ended
      BY <1>3
    <2>2. Readable(file)
      <3>1. \A i \in DOMAIN file.lines : i \in DOMAIN new.lines /\ new.lines[i] = file.lines[i]
        BY <1>3, <1>5, <2>1
      <3> QED
        BY <3>1 DEF Readable
    <2> QED
      BY <1>3, <1>4, <2>1, <2>2
  <1> QED
    BY <1>3, <1>4, <1>6 DEF Holds

-----------------------------------------------------------------------------
(* Steps *)

\* The process appends at most one record to each of its logs, of the kind
\* that belongs there.
LEMMA LogsAreAppended ==
  ASSUME ShapeInv, [Next]_vars
  PROVE  /\ UNCHANGED requestLog \/ requestLog' = Append(requestLog, pending)
         /\ UNCHANGED routeLog \/ \E violation \in BOOLEAN :
              routeLog' = Append(routeLog, RouteTrace(violation))
  <1>1. CASE LogTrace
    BY <1>1 DEF LogTrace
  <1>2. CASE Admit \/ Refuse
    BY <1>2 DEF Admit, Refuse, LogRoute
  <1>3. CASE ~LogTrace /\ ~(Admit \/ Refuse)
    BY <1>3
    DEF Next, RunStep, ItemStep, Start, Crash, EditWorkload, RouteItem, RouterRaises, FailUncalled,
        Execute, FinishItem, WriteReport, RecordRun, RecordContexts, vars, runVars, files
  <1> QED
    BY <1>1, <1>2, <1>3

\* A file that follows its log holds it.
LEMMA FollowingFileHolds ==
  ASSUME NEW R, NEW log, NEW file, Holds(R, log, file), NEW record \in R, NEW log1, NEW file1,
         log1 = log \/ log1 = Append(log, record),
         file1 = IF log1 = log THEN file ELSE AppendLine(file, Last(log1))
  PROVE  Holds(R, log1, file1) /\ (Undamaged(file) => Undamaged(file1))
  <1>1. CASE log1 = log
    BY <1>1
  <1>2. CASE log1 = Append(log, record)
    <2>1. log \in Seq(R)
      BY DEF Holds
    <2>2. log1 # log /\ Last(log1) = record
      BY <1>2, <2>1 DEF Last
    <2> QED
      BY <1>2, <2>2, AppendedFileHolds
  <1> QED
    BY <1>1, <1>2

\* What the process writes, in each step it takes with its files.
LEMMA FollowPreserves ==
  ASSUME ShapeInv, LogsInv, [Next]_vars, FilesFollow
  PROVE  LogsInv'
  <1>1. pending \in HonestTraces
    BY DEF ShapeInv, RangeInv
  <1>2. \A violation \in BOOLEAN : RouteTrace(violation) \in RouteTraces
    BY RouteTraceType DEF ShapeInv
  <1>3. /\ Holds(HonestTraces, requestLog', requestFile')
        /\ Undamaged(requestFile) => Undamaged(requestFile')
    BY <1>1, LogsAreAppended, FollowingFileHolds DEF LogsInv, FilesFollow
  <1>4. /\ Holds(RouteTraces, routeLog', routeFile')
        /\ Undamaged(routeFile) => Undamaged(routeFile')
    <2>1. PICK violation \in BOOLEAN :
            routeLog' = routeLog \/ routeLog' = Append(routeLog, RouteTrace(violation))
      BY LogsAreAppended
    <2> QED
      BY <1>2, <2>1, FollowingFileHolds DEF LogsInv, FilesFollow
  <1>5. cut' = cut
    BY DEF FilesFollow
  <1> QED
    BY <1>3, <1>4, <1>5 DEF LogsInv, Holds, Undamaged, HonestTraces, RouteTraces

\* What a process that stops while it writes leaves behind.
LEMMA StopPreserves ==
  ASSUME ShapeInv, LogsInv, StopWhileWriting
  PROVE  LogsInv'
  <1>1. pending \in HonestTraces /\ RouteTrace(OverBudget) \in RouteTraces
    <2>1. OverBudget \in BOOLEAN
      BY DEF OverBudget
    <2> QED
      BY <2>1, RouteTraceType DEF ShapeInv, RangeInv
  <1>2. UNCHANGED << requestLog, routeLog >> /\ cut' = TRUE
    BY DEF StopWhileWriting, Crash, files
  <1>3. Holds(HonestTraces, requestLog', requestFile') /\ Holds(RouteTraces, routeLog', routeFile')
    <2>1. CASE UNCHANGED routeFile /\ requestFile' \in CutShort(requestFile, pending)
      BY <1>1, <1>2, <2>1, CutFileHolds DEF LogsInv
    <2>2. CASE UNCHANGED requestFile /\ routeFile' \in CutShort(routeFile, RouteTrace(OverBudget))
      BY <1>1, <1>2, <2>2, CutFileHolds DEF LogsInv
    <2> QED
      BY <2>1, <2>2 DEF StopWhileWriting
  <1> QED
    BY <1>2, <1>3 DEF LogsInv, Holds, HonestTraces, RouteTraces

\* What a route leaves behind that could not be logged.
LEMMA RouteWriteFailsPreserves ==
  ASSUME ShapeInv, LogsInv, RouteWriteFails
  PROVE  LogsInv'
  <1>1. RouteTrace(FALSE) \in RouteTraces
    BY RouteTraceType DEF ShapeInv
  <1>2. UNCHANGED << requestLog, routeLog >> /\ cut' = TRUE
    BY DEF RouteWriteFails, FailUncalled, files
  <1>3. Holds(HonestTraces, requestLog', requestFile') /\ Holds(RouteTraces, routeLog', routeFile')
    BY <1>1, <1>2, CutFileHolds DEF LogsInv, RouteWriteFails
  <1> QED
    BY <1>2, <1>3 DEF LogsInv, Holds, HonestTraces, RouteTraces

\* Every step of the process with its files is a step of the process.
LEMMA LogStepIsRunStep == [LogNext]_<< vars, logVars >> => [Next]_vars
  BY DEF LogNext, StopWhileWriting, RouteWriteFails, Next, RunStep, ItemStep

\* The invariant of the files, step by step.
LEMMA LogsInvNext == ShapeInv /\ LogsInv /\ [LogNext]_<< vars, logVars >> => LogsInv'
  <1> SUFFICES ASSUME ShapeInv, LogsInv, [LogNext]_<< vars, logVars >>
               PROVE  LogsInv'
    OBVIOUS
  <1>1. CASE Next /\ FilesFollow
    BY <1>1, FollowPreserves
  <1>2. CASE StopWhileWriting
    BY <1>2, StopPreserves
  <1>3. CASE RouteWriteFails
    BY <1>3, RouteWriteFailsPreserves
  <1>4. CASE UNCHANGED << vars, logVars >>
    BY <1>4 DEF LogsInv, Holds, Readable, Undamaged, Parses, HonestTraces, RouteTraces, vars,
                runVars, files, logVars
  <1> QED
    BY <1>1, <1>2, <1>3, <1>4 DEF LogNext

\* Both files are empty at first.
LEMMA LogsInvInit == LogInit => LogsInv
  <1>1. \A R : Holds(R, << >>, EmptyFile)
    BY DEF Holds, EmptyFile
  <1>2. Undamaged(EmptyFile)
    BY DEF Undamaged, Readable, EmptyFile
  <1> QED
    BY <1>1, <1>2 DEF LogInit, Init, LogsInv

-----------------------------------------------------------------------------
(* Theorems *)

\* What the process does with its files is what BenchmarkRun says it does.
THEOREM LogsKeepTheRun == LogSpec => Init /\ [][Next]_vars
  BY LogStepIsRunStep, PTL DEF LogSpec, LogInit

\* The shape of the run, with its files.
THEOREM LogsInvariant == LogSpec => [](ShapeInv /\ LogsInv)
  <1>1. LogInit => ShapeInv
    BY ShapeInvInit DEF LogInit
  <1>2. ShapeInv /\ LogsInv /\ [LogNext]_<< vars, logVars >> => ShapeInv'
    BY ShapeInvNext, LogStepIsRunStep
  <1> QED
    BY <1>1, <1>2, LogsInvInit, LogsInvNext, PTL DEF LogSpec

\* A file that holds a log reads as the log, or one record more, or raises.
LEMMA HeldLogIsRead ==
  ASSUME NEW R, NEW log, NEW file, Holds(R, log, file)
  PROVE  /\ ReadAll(file).raised <=> ~Readable(file)
         /\ ~ReadAll(file).raised =>
              \/ ReadAll(file).records = log
              \/ /\ ReadAll(file).records # << >> /\ ~file.ended
                 /\ Front(ReadAll(file).records) = log
  <1>1. ReadAll(file).raised <=> ~Readable(file)
    BY DEF ReadAll, Readable
  <1>2. ASSUME Readable(file)
        PROVE  \/ ReadAll(file).records = log
               \/ /\ ReadAll(file).records # << >> /\ ~file.ended
                  /\ Front(ReadAll(file).records) = log
    <2> DEFINE records == Records(file.lines)
    <2>1. ReadAll(file).records = records
      BY <1>2 DEF ReadAll, Readable
    <2>2. /\ log \in Seq(R) /\ file.lines \in Seq(Seq(Fragments(R))) /\ file.ended \in BOOLEAN
          /\ Len(file.lines) = Len(log) + (IF file.ended THEN 0 ELSE 1)
          /\ \A i \in 1 .. Len(log) : file.lines[i][1].record = log[i]
          /\ \A i \in 1 .. Len(file.lines) : file.lines[i] # << >>
      BY <1>2 DEF Holds
    <2>3. \A i \in 1 .. Len(file.lines) : file.lines[i][1].record \in R
      <3>1. ASSUME NEW i \in 1 .. Len(file.lines)
            PROVE  file.lines[i][1] \in Fragments(R)
        <4>1. file.lines[i] \in Seq(Fragments(R)) /\ file.lines[i] # << >>
          BY <2>2
        <4> QED
          BY <4>1
      <3> QED
        BY <3>1 DEF Fragments
    <2>4. /\ records \in Seq(R) /\ Len(records) = Len(file.lines)
          /\ \A i \in 1 .. Len(file.lines) : records[i] = file.lines[i][1].record
      <3>1. DOMAIN file.lines = 1 .. Len(file.lines) /\ Len(file.lines) \in Nat
        BY <2>2
      <3>2. records = [i \in 1 .. Len(file.lines) |-> file.lines[i][1].record]
        BY <3>1 DEF Records
      <3> HIDE DEF records
      <3>3. records \in [1 .. Len(file.lines) -> R]
        BY <2>3, <3>2
      <3> QED
        BY <3>1, <3>2, <3>3
    <2> HIDE DEF records
    <2>5. CASE file.ended
      BY <2>1, <2>2, <2>4, <2>5
    <2>6. CASE ~file.ended
      <3>1. Len(records) = Len(log) + 1 /\ records # << >>
        BY <2>2, <2>4, <2>6
      <3>2. /\ SubSeq(records, 1, Len(records) - 1) \in Seq(R)
            /\ Len(SubSeq(records, 1, Len(records) - 1)) = Len(log)
            /\ \A i \in 1 .. Len(log) : SubSeq(records, 1, Len(records) - 1)[i] = records[i]
        BY <2>2, <2>4, <3>1
      <3>3. Front(records) = log
        BY <2>2, <2>4, <3>1, <3>2 DEF Front
      <3> QED
        BY <2>1, <2>6, <3>1, <3>3
    <2> QED
      BY <2>5, <2>6
  <1> QED
    BY <1>1, <1>2

\* read_all returns every record that was appended, in order and over all
\* restarts, with at most one more, or raises, and only after a cut write.
THEOREM LogsAreWhole == LogSpec => []LogsAreReadWholeOrNotAtAll
  <1>1. LogsInv => LogsAreReadWholeOrNotAtAll
    BY HeldLogIsRead DEF LogsInv, Undamaged, LogsAreReadWholeOrNotAtAll
  <1> QED
    BY <1>1, LogsInvariant, PTL

\* With the files as they are on disk, a stored run is still one whole
\* incarnation, and still at most one call per incarnation goes unlogged.
THEOREM LogsKeepRunsWhole ==
  LogSpec => []StoredRunIsOneWholeIncarnation /\ []AtMostOneUnloggedCall
  <1>1. Init => ShapeInv /\ FilesInv /\ CallsInv
    BY ShapeInvInit
    DEF Init, FilesInv, CallsInv, Unlogged, AtMostOneUnloggedCall, ToSet
  <1>2. FilesInv /\ CallsInv => StoredRunIsOneWholeIncarnation /\ AtMostOneUnloggedCall
    BY DEF FilesInv, WholeIncarnation, StoredRunIsOneWholeIncarnation, CallsInv
  <1> QED
    BY <1>1, <1>2, LogsKeepTheRun, ShapeInvNext, FilesInvNext, CallsInvNext, PTL
=============================================================================
