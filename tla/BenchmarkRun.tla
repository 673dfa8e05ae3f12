---------------------------- MODULE BenchmarkRun ----------------------------
(***************************************************************************)
(* scripts/run_benchmark.py run: one process executes a workload item by   *)
(* item through OpenAIBackend.infer (ProviderExecutor), writes a route log *)
(* and a request log as it goes, and at the end a report and one record in *)
(* the SQLite ledger.  The process may die at any point and be started     *)
(* again with the same --run-id; the files survive, its memory does not.   *)
(*                                                                         *)
(* A request is << incarnation, position >>: every execution of an item    *)
(* gets a fresh UUID.  Money is what the properties are about: every       *)
(* record keeps, beside what the code claims, what the provider charged.   *)
(***************************************************************************)
EXTENDS ProviderExecutor, SequencesExt, FiniteSets

CONSTANTS
  WorkloadSize,   \* number of items in the workload file
  Estimates,      \* the cost the router may estimate for a request
  Budgets,        \* values of --max-estimated-cost-usd, or NoBudget
  NoBudget,       \* the option is not given
  NoRecord,       \* the ledger holds no run under this --run-id
  MaxStarts,      \* bound: process starts
  MaxEdits        \* bound: edits of the workload file

ASSUME WorkloadSizeAssumption == WorkloadSize \in Nat \ {0}
ASSUME EstimatesAssumption == Estimates \subseteq Nat
ASSUME BudgetsAssumption == NoBudget \notin Int /\ Budgets \subseteq Int \cup {NoBudget}
ASSUME RunBoundsAssumption == MaxStarts \in Nat /\ MaxEdits \in Nat

VARIABLES
  pc,            \* what the process does next
  incarnation,   \* history: how many times the process was started
  budget,        \* --max-estimated-cost-usd of this process
  index,         \* position of the current item
  estimate,      \* estimated cost of the current routing decision
  pending,       \* the trace built for the current request
  traces,        \* the list of RequestTrace
  routes,        \* the list of RouteTrace
  contexts,      \* the list of BenchmarkRequestContext
  report,        \* the BenchmarkReport
  requestLog,    \* request JSONL file
  routeLog,      \* route JSONL file
  stored,        \* rows of this --run-id in the SQLite ledger
  workload,      \* version of the workload file on disk
  executed,      \* history: the version load_workload read
  called         \* history: requests for which the provider was ever called

memory == << budget, index, estimate, pending, traces, routes, contexts, report >>
files == << requestLog, routeLog, stored >>
history == << incarnation, executed, called >>
runVars == << pc, memory, files, history, workload >>
vars == << runVars, execVars >>

request == << incarnation, index >>

\* A process is up.
Running == pc \notin {"down", "done", "aborted"}

-----------------------------------------------------------------------------
(* Derived reports *)

\* Mutant: the known costs are added up and the report claims to be complete.
SummarizeKnown ==
  [ sha |-> workload, executed |-> executed, requests |-> Len(traces),
    failures |-> 0, violations |-> 0, attempts |-> 0, complete |-> TRUE,
    cost |-> Total([i \in DOMAIN traces |->
               IF traces[i].complete THEN traces[i].cost ELSE 0]) ]

\* summarize_traces: counts and cost of the traces in memory; the workload is
\* hashed now, from the file as it is now.
Summarize ==
  LET complete == \A i \in DOMAIN traces : traces[i].complete
  IN  [ sha |-> workload, executed |-> executed,
        requests |-> Len(traces),
        failures |-> Cardinality({i \in DOMAIN traces : traces[i].error # NoError}),
        violations |-> Cardinality({i \in DOMAIN routes : routes[i].violation}),
        attempts |-> Total([i \in DOMAIN traces |-> traces[i].attemptCount]),
        complete |-> complete,
        cost |-> IF complete THEN Total(AttemptCosts(traces)) ELSE Unknown ]

NoReport == [sha |-> 0, executed |-> 0, complete |-> FALSE, cost |-> Unknown, requests |-> 0,
             failures |-> 0, violations |-> 0, attempts |-> 0]

RouteTrace(violation) ==
  [id |-> request, estimate |-> estimate, budget |-> budget, violation |-> violation]

-----------------------------------------------------------------------------
(* Process life cycle *)

NoTrace == Trace(<< 0, 0 >>, << >>, 0, UnknownCost, NoError, << >>)

Init ==
  /\ ExecInit
  /\ budget \in Budgets
  /\ pc = "down" /\ incarnation = 0 /\ index = 1 /\ estimate = 0
  /\ pending = NoTrace /\ report = NoReport
  /\ traces = << >> /\ routes = << >> /\ contexts = << >>
  /\ requestLog = << >> /\ routeLog = << >> /\ stored = NoRecord
  /\ workload = 1 /\ executed = 0 /\ called = {}

FreshMemory ==
  /\ index' = 1 /\ estimate' = 0 /\ pending' = NoTrace /\ report' = NoReport
  /\ traces' = << >> /\ routes' = << >> /\ contexts' = << >>

\* A new process with its options: load_workload, empty lists, fresh ids.
Start ==
  /\ ~Running /\ incarnation < MaxStarts
  /\ pc' = "route" /\ incarnation' = incarnation + 1
  /\ budget' \in Budgets /\ pricing' \in Pricings
  /\ executed' = workload
  /\ FreshMemory
  /\ NoRequest
  /\ UNCHANGED << files, workload, called >>

\* The process dies, or the user interrupts it: an in-flight call is cancelled
\* and what was only in memory is gone.
Crash ==
  /\ Running
  /\ pc' = "down"
  /\ FreshMemory
  /\ NoRequest
  /\ UNCHANGED << budget, pricing, files, history, workload >>

\* Somebody saves another version of the workload file, same item ids.
EditWorkload ==
  /\ workload <= MaxEdits
  /\ workload' = workload + 1
  /\ UNCHANGED << pc, memory, files, history, execVars >>

-----------------------------------------------------------------------------
(* One item *)

\* The request and its context are created and routed.
RouteItem(cost) ==
  /\ pc = "route"
  /\ contexts' = Append(contexts, request)
  /\ estimate' = cost
  /\ pc' = "admit"
  /\ UNCHANGED << budget, index, pending, traces, routes, report, files, history, workload, execVars >>

\* router.route raises outside the try block: the whole run is abandoned.
RouterRaises ==
  /\ pc = "route"
  /\ contexts' = Append(contexts, request)
  /\ pc' = "aborted"
  /\ UNCHANGED << budget, index, estimate, pending, traces, routes, report, files, history,
                  workload, execVars >>

InvalidBudget == budget # NoBudget /\ budget < 0

\* Mutant: a budget of zero is taken for no budget.
OverTrueBudget == budget # NoBudget /\ budget > 0 /\ estimate > budget

OverBudget == budget # NoBudget /\ budget >= 0 /\ estimate > budget

LogRoute(violation) ==
  /\ routeLog' = Append(routeLog, RouteTrace(violation))
  /\ routes' = Append(routes, RouteTrace(violation))

\* Within budget: the route is logged, then the provider is called.
Admit ==
  /\ pc = "admit" /\ ~InvalidBudget /\ ~OverBudget
  /\ LogRoute(FALSE)
  /\ Infer
  /\ pc' = "infer"
  /\ UNCHANGED << budget, index, estimate, pending, traces, contexts, report, requestLog, stored,
                  history, workload >>

\* BudgetViolation: the route is logged as a violation and nothing is called.
Refuse ==
  /\ pc = "admit" /\ OverBudget
  /\ LogRoute(TRUE)
  /\ pending' = NotCharged(request, "budget_violation", charges)
  /\ pc' = "log"
  /\ UNCHANGED << budget, index, estimate, traces, contexts, report, requestLog, stored,
                  history, workload, execVars >>

\* Before anything is called, a negative budget makes the budget check itself
\* raise, or the route log cannot be written: the route is dropped and the
\* request recorded as a failed execution.
FailUncalled ==
  /\ pc = "admit" /\ ~OverBudget
  /\ pending' = FromError(request, << >>, "unknown", charges)
  /\ pc' = "log"
  /\ UNCHANGED << budget, index, estimate, traces, routes, contexts, report, files, history,
                  workload, execVars >>

\* The provider executor runs.
Execute ==
  /\ pc = "infer"
  /\ ExecStep
  /\ called' = IF charges' = << >> THEN called ELSE called \cup {request}
  /\ UNCHANGED << pc, memory, files, incarnation, executed, workload >>

\* infer returned or raised.  Building the trace of a response and scoring its
\* text may raise, which discards that trace.
Evaluated ==
  /\ reply.kind = "response"
  /\ pending' = FromResponse(request, reply.attempts, reply.cost, charges)
  /\ TraceIsValid(pending')

EvaluationRaises ==
  /\ reply.kind = "response"
  /\ pending' = FromError(request, << >>, "unknown", charges)

ProviderFailed ==
  /\ reply.kind \in {"provider_error", "exception"}
  /\ pending' = FromError(request, reply.attempts, reply.error, charges)

\* No handler guards the construction of an error trace.
FinishItem ==
  /\ pc = "infer" /\ phase = "replied"
  /\ Evaluated \/ EvaluationRaises \/ ProviderFailed
  /\ pc' = IF TraceIsValid(pending') THEN "log" ELSE "aborted"
  /\ UNCHANGED << budget, index, estimate, traces, routes, contexts, report, files, history,
                  workload, execVars >>

\* Mutant: the request log is written at the end of the workload.
LogTraceLate ==
  /\ pc = "log"
  /\ requestLog' = IF index = WorkloadSize THEN requestLog \o Append(traces, pending)
                                           ELSE requestLog
  /\ traces' = Append(traces, pending)
  /\ index' = index + 1
  /\ pc' = IF index = WorkloadSize THEN "summarize" ELSE "route"
  /\ IF phase = "replied" THEN Release ELSE UNCHANGED execVars
  /\ UNCHANGED << budget, estimate, pending, routes, contexts, report, routeLog, stored, history,
                  workload >>

\* request_log.append and traces.append; then the next item.
LogTrace ==
  /\ pc = "log"
  /\ requestLog' = Append(requestLog, pending)
  /\ traces' = Append(traces, pending)
  /\ index' = index + 1
  /\ pc' = IF index = WorkloadSize THEN "summarize" ELSE "route"
  /\ IF phase = "replied" THEN Release ELSE UNCHANGED execVars
  /\ UNCHANGED << budget, estimate, pending, routes, contexts, report, routeLog, stored, history,
                  workload >>

-----------------------------------------------------------------------------
(* End of the run *)

Ids(records) == [i \in DOMAIN records |-> records[i].id]

\* Each trace has exactly one context, and each route belongs to a trace.
Covered ==
  /\ IsInjective(contexts) /\ Range(contexts) = Range(Ids(traces))
  /\ IsInjective(Ids(routes)) /\ Range(Ids(routes)) \subseteq Range(Ids(traces))

\* summarize_traces, summarize_segments (which refuses uncovered evidence) and
\* the report files.
WriteReport ==
  /\ pc = "summarize"
  /\ report' = Summarize
  /\ pc' = IF Covered THEN "record" ELSE "aborted"
  /\ UNCHANGED << budget, index, estimate, pending, traces, routes, contexts, files, history,
                  workload, execVars >>

\* Mutant: replacing a run leaves the contexts of the old one.
RecordRunOnly ==
  /\ pc = "record"
  /\ stored' = [report |-> report, traces |-> traces, routes |-> routes,
                contexts |-> IF stored = NoRecord THEN << >> ELSE stored.contexts]
  /\ pc' = "contexts"
  /\ UNCHANGED << memory, requestLog, routeLog, history, workload, execVars >>

\* SQLiteBenchmarkLedger.record_run: one transaction replaces the run; the
\* rows that hung off the old one, its contexts included, are deleted.
RecordRun ==
  /\ pc = "record"
  /\ stored' = [report |-> report, traces |-> traces, routes |-> routes, contexts |-> << >>]
  /\ pc' = "contexts"
  /\ UNCHANGED << memory, requestLog, routeLog, history, workload, execVars >>

\* SQLiteBenchmarkContextStore.record_contexts: a second transaction.
RecordContexts ==
  /\ pc = "contexts"
  /\ IF Range(contexts) = Range(Ids(stored.traces))
       THEN stored' = [stored EXCEPT !.contexts = contexts] /\ pc' = "done"
       ELSE stored' = stored /\ pc' = "aborted"
  /\ UNCHANGED << memory, requestLog, routeLog, history, workload, execVars >>

-----------------------------------------------------------------------------

ItemStep ==
  \/ \E cost \in Estimates : RouteItem(cost)
  \/ RouterRaises
  \/ Admit \/ Refuse \/ FailUncalled
  \/ Execute
  \/ FinishItem
  \/ LogTrace

RunStep == ItemStep \/ WriteReport \/ RecordRun \/ RecordContexts

Next == Start \/ Crash \/ EditWorkload \/ RunStep

\* A process that is up keeps running (its only waits end by the client's
\* timeout or a sleep); nothing obliges anybody to start it again.
Spec == Init /\ [][Next]_vars /\ WF_vars(RunStep)

-----------------------------------------------------------------------------
(* Properties *)

\* Every trace the run has written anywhere.
WrittenTraces ==
  ToSet(requestLog) \cup (IF stored = NoRecord THEN {} ELSE ToSet(stored.traces))

\* Every variable holds a value of the shape the code gives it.
TypeOK ==
  /\ ExecTypeOK
  /\ pc \in {"down", "route", "admit", "infer", "log", "summarize", "record", "contexts",
             "done", "aborted"}
  /\ incarnation \in 0 .. MaxStarts /\ index \in 1 .. WorkloadSize + 1
  /\ budget \in Budgets /\ estimate \in Estimates \cup {0}
  /\ \A t \in WrittenTraces \cup ToSet(traces) \cup {pending} :
       /\ t.attempts \in Seq(Attempt) /\ t.charged \in Seq(Charges)
       /\ t.cost \in Nat \cup {Unknown} /\ t.complete \in BOOLEAN
       /\ t.error \in ErrorTypes \cup {NoError, "budget_violation"}
  /\ workload \in 1 .. MaxEdits + 1

\* A trace that claims complete cost evidence claims exactly what the provider
\* charged for every invocation made for that request, retries, failures,
\* unpriced or unusable answers and refused requests included ("Unknown cost
\* must never be silently converted to zero").
CompleteCostIsTrueCost ==
  \A t \in WrittenTraces : t.complete => t.cost = Total(t.charged)

\* The aggregate cost of a stored run is what the provider charged for all the
\* requests of that run, or it is suppressed.
ReportedCostIsTrueCost ==
  stored # NoRecord /\ stored.report.complete =>
    stored.report.cost =
      Total([i \in DOMAIN stored.traces |-> Total(stored.traces[i].charged)])

\* The provider is never called for a request before its admission was written
\* to the route log with an estimate within the budget of that process; in
\* particular a negative budget admits nothing.
NoCallWithoutLoggedAdmission ==
  \A r \in called :
    \E route \in ToSet(routeLog) :
      /\ route.id = r /\ ~route.violation
      /\ route.budget # NoBudget => route.estimate <= route.budget

\* However often the process dies, each incarnation leaves at most one request
\* that the provider may have charged and the request log does not know of.
AtMostOneUnloggedCall ==
  \A r, s \in called \ Range(Ids(requestLog)) : r[1] = s[1] => r = s

\* The ledger holds one whole incarnation or nothing: one trace per item, all
\* present in the request log too, a report of exactly those traces, and
\* contexts for all of them or for none, whatever crashed in between.
StoredRunIsOneWholeIncarnation ==
  stored # NoRecord =>
    /\ stored.report.requests = WorkloadSize
    /\ \E n \in 1 .. incarnation :
         Ids(stored.traces) = [i \in 1 .. WorkloadSize |-> << n, i >>]
    /\ ToSet(stored.traces) \subseteq ToSet(requestLog)
    /\ ToSet(stored.routes) \subseteq ToSet(routeLog)
    /\ stored.contexts \in {<< >>, Ids(stored.traces)}

\* A run that aborts by itself does so before the last item, with no charge in
\* hand: no validation of its own evidence discards a run already paid for.
OnlyRoutingAborts ==
  pc = "aborted" => Len(traces) < WorkloadSize /\ charges = << >>

\* A started run ends, recorded or not.
RunEnds == Running ~> ~Running


\* paired_comparison.py: the hash in a report identifies the workload the run
\* executed ("Workload identity is strict: hash, item set, tags, ...").
HashIsOfExecutedWorkload ==
  stored # NoRecord => stored.report.sha = stored.report.executed
=============================================================================
