# InferenceLedger in TLA+

InferenceLedger sends a benchmark workload to an LLM provider, keeps evidence of
what every provider invocation cost, and stores that evidence so that runs can be
compared and reconciled later. Its one rule, in `README.md:55` of the repository, is
"Unknown cost must never be silently converted to zero". These modules model the
part of the program that gathers, stores and compares the evidence; they are
translated from the source, and paths below are relative to the inner `src/`
(`scripts/`, `src/inference_engine/...`).

Run a check with `tlc -workers 2 -config X.cfg M` and a proof with `tlapm M.tla`.

## 1. Inventory

### Parts, their state and how they interact

| Part | State it keeps | Operations | Talks to |
|---|---|---|---|
| Provider executor (`infrastructure/models/openai_backend.py`, `errors.py`, `domain/models/execution.py`) | per request: local list of `ProviderAttempt`, suspended at `await create` or `await sleep` | `infer`, `_create_completion`, `_handle_provider_exception`, `classify_openai_error`, pricing of usage, `infer_batch`, `stream`, `health_check` | the provider (external); the pricing table; called by the runner, the smoke command and the API |
| Request and route traces (`infrastructure/telemetry/request_log.py`, `domain/models/response.py`) | two append-only JSONL files | `from_response`, `from_error`, `__post_init__`, `append`, `read_all` | written by the runner |
| Benchmark runner (`scripts/run_benchmark.py`, `benchmarking/budget.py`, `benchmarking/harness.py`) | lists of traces, routes, contexts; position; budget | `run`, `compare`, `export`, `summarize_usage`; `evaluate`, `summarize_traces`, `load_workload` | router, executor, evaluator, logs, ledger, context store |
| Benchmark ledger (`benchmarking/sqlite_ledger.py`) | nine SQLite tables, schema version | `initialize` (upgrade), `record_run`, `get_report`, `get_traces`, `get_provider_usage_summary`, ... | several processes, each with its own connections |
| Context store (`benchmarking/context_store.py`) | `benchmark_request_contexts`, foreign key to traces | `record_contexts`, `get_contexts` | same database file, other connections |
| Paired comparison (`scripts/compare_paired.py`, `benchmarking/paired_comparison.py`, `statistics.py`) | none | eight queries, then validation, pairing and statistics | ledger, context store |
| Comparison and export (`run_benchmark.py compare`, `export`, `benchmarking/export.py`) | none | queries, then a verdict or files | ledger, context store |
| Segmentation (`benchmarking/segmentation.py`) | none | coverage check, aggregates | runner |
| Reconciliation (`benchmarking/reconciliation.py`) | none | admission of allocated costs, residuals | ledger |
| Routers (`domain/routing/*`) | round-robin counter, load per model | `route` | runner |
| Pricing and cost models (`domain/cost/*`) | price records with validity dates | `price_for`, `calculate` | executor, routers |
| Cost attribution (`domain/cost/attribution.py`) | attributions by user | `attribute`, `get_user_costs`, `get_feature_costs` | nothing calls it yet |
| Caches (`domain/caching/*`, `infrastructure/embeddings/*`) | bounded dictionaries, usage counters | `get`, `put`, `evict` | services |
| Batchers (`domain/batching/*`) | queues per lane, window statistics | `add_request`, `get_batch` | services |
| Model pool, vLLM and TGI clients (`infrastructure/models/*`) | registered backends | `register_backend`, `health_check_all`, `close_all` | nothing calls the pool yet |
| Bounded concurrency (`utils/concurrency.py`) | a semaphore | `gather_limited` | nothing calls it yet |
| API and smoke command (`app.py`, `api/`, `cli.py`) | none; the command appends to a log | `POST /inference`, `inference-smoke` | a backend of their own |
| Evaluation, application services, configuration | none | | |

`run` is one sequential coroutine: create a request and its context, route it, check
the budget, log the route, call the executor, evaluate, log the trace; at the end
summarise, check segment coverage, write the report files, `record_run`, then
`record_contexts` in a second transaction. What is concurrent is outside it: the
provider, which may charge for calls whose answer never arrives; a user who kills
or restarts the process with the same `--run-id`, or edits the workload file;
other processes recording, upgrading or reading the same database.

### Hard behaviours and what correctness means for each part

- *Executor*: an attempt chain rebuilt across retries, timeouts, failures after
  billing, cancellation. Correct when every invocation has exactly one record, a
  known amount is the charge of that very invocation, retries are bounded and follow
  transient failures only, and every call is answered.
- *Traces and reports*: a claim of complete cost must be the amount charged,
  whatever failed; otherwise the amount is suppressed.
- *Runner*: admission before spending, the log before the call, loss of at most the
  request in flight when the process dies, one whole execution in the ledger,
  no validation failing after the money is spent, and the run ends.
- *Ledger and context store*: several transactions, two of them preceded by reads
  outside them; a run must never mix rows of two recordings.
- *Upgrade*: DDL that Python's `sqlite3` commits statement by statement, with
  several processes upgrading at once and dying in between; history must not be
  lost, nor an unproven cost exposed.
- *Readers* (paired comparison, compare, export): up to eight queries, each in a
  connection of its own, while others record the same run ids. Correct when no claim mixes
  two executions and every compared cost was charged.
- *Logs*: a line may be cut short; what is read back must be all or an exception.
- *Front ends*: a batch or an HTTP response drops what it does not return.
- *Caches, batchers, pool, routers*: capacity and eviction order, lane starvation,
  a dictionary iterated across awaits, an index taken modulo a changing number.

PROJECT.json lists each of these hazards at its line with the properties that
cover it, or the reason why none does.

## 2. Modules

An arrow points from a module to one that extends it.

```
Evidence -> ProviderExecutor -> FrontEnds -> MCFrontEnds
                             -> BenchmarkRun -> Reconciliation -> MCBenchmarkRun
                                                               -> EvidenceLogs -> MCEvidenceLogs
         -> StoredEvidence   -> LedgerMigration -> MCLedgerMigration
                             -> PairedStatistics --+
EvidenceStore <-(refines)- BenchmarkLedger --------+-> EvidenceReaders -> MCEvidenceReaders

Caching, Routing, ModelPool, BoundedGather, CostAttribution -> Services -> MCServices
Batching -> MCBatching

Evidence -> Evidence_proofs -+-> LedgerMigration_proofs   (with LedgerMigration)
                             +-> EvidenceReaders_proofs   (with EvidenceReaders, BenchmarkLedger)
                             +-> Services_proofs          (with Services)
                             +-> FrontEnds_proofs         (with FrontEnds, ProviderExecutor_proofs)
                             +-> EvidenceLogs_proofs      (with EvidenceLogs, ProviderExecutor_proofs)
Batching, Routing -> Primitives_proofs
```

**Evidence** holds the value objects: attempts, the cost an attempt chain proves
(`ExecutionCost` is `execution_cost`), traces (`FromResponse`, `FromError`,
`NotCharged`) and what `RequestTrace.__post_init__` accepts (`TraceIsValid`).
Amounts are naturals, `Unknown` is `None`; tokens, latencies and texts are left out.

**ProviderExecutor** is one call of `OpenAIBackend.infer`. `phase` is where the
coroutine is suspended; `Invoke` is the call leaving, `CallFails` and `CallReturns`
the two ways `create` ends, `BackoffEnds` the sleep, `Cancel` a `CancelledError` at
an `await`. `CallReturns` distinguishes four bodies: usable usage, no usage, no
choices, and usage with more cached than input tokens; the last two raise outside
the `try` that keeps the attempts. `charges` is a history variable: what the provider
charged, decided when the invocation reaches it.

**BenchmarkRun** extends it with the `run` command. `pc` names the next statement
group; a request is the pair incarnation and position (each execution of an item
gets a fresh UUID). `Start`, `Crash` and `EditWorkload` are the environment; files
and the ledger survive a crash, lists in memory do not. The ledger is one record
here, because `record_run` is one transaction: BenchmarkLedger shows that this is
what other processes see. A router is an arbitrary estimate, or an exception.

**Reconciliation** adds what is derived from a stored run when it is exported, as
operators over its rows: the status of each request, the totals over the comparable
ones and the cost of the attempts before the last (`reconciliation.py`), and the
evidence of each segment (`segmentation.py`). `Tags` gives each workload item its tags.
In this runner a failed attempt never has a price, so a comparable failure and a
non-zero retry cost do not arise; the operators have them because the code has.

**BenchmarkLedger** is `record_run` and `record_contexts` statement by statement, by
any number of recorders that may share a run id. Every recorder has one finished
execution to record; a row is a request id. SQLite is external: one writer, rollback
when a statement fails or the process dies, cascading deletes, the foreign key of
the context table. `Fail` may happen at any step: a death, a failing statement, a
lock timeout.

**EvidenceStore** is what the database promises: under each run id the evidence of
at most one recording, whole, with the contexts of that recording or none.
BenchmarkLedger implements it under `evidence <- EvidenceOf(db, r)`, where the
uncommitted draft is invisible.

**StoredEvidence** is cost evidence at rest: a record as each version of the program
wrote it, and what the present readers make of it. `ReadLine` parses a line of the
request log, `ReadRow` a row of the trace or usage table, `ReadReport` and
`UsageSummary` are `get_report` and `get_provider_usage_summary`; the `...Downgraded`
operators are the UPDATE passes of the upgrade. A column that an old version did not
write has the default the code gives it.

**PairedStatistics** is `paired_comparison.py` and `statistics.py` as functions: which
pairs a metric has, which are discordant, whether there is an interval and which claim
each metric ends with. Means are kept as sums; the bounds of the interval, which come
from a seeded bootstrap, are left out, and whether there is one is kept.

**EvidenceReaders** puts the commands that read beside the recorders of
BenchmarkLedger. `Plan` is the list of queries of a command in the order Python makes
them: `get_report` makes two, over the report and over the traces, so `compare_paired`
makes eight, `compare` four and `export` six. `Read` is one query, `Conclude` what the
command does when it has them all: an unavailable comparison, a `ValueError`, a claim.
`Outcome` gives every item of every recording its evidence, and with it, as history,
what was charged.

**FrontEnds** is what calls `infer` outside a benchmark: `infer_batch`, one request
after the other; `inference-smoke`, which logs one trace; the `/inference` route, which
turns a `ProviderError` into a status and leaves any other exception to the
framework. `made` is history: what each request was charged.

**EvidenceLogs** makes the request and route logs of BenchmarkRun the text files they
are. A file is a sequence of lines, a line the fragments written on it. `FilesFollow` appends
to the files what the runner appends to its logs, in the same step. A write may be cut
short: `StopWhileWriting` is a death in the middle of it, or an `OSError` that nothing
catches, which is where a full disk leaves the request log or the route of a refused
request. The route of an admitted request is written inside the `try`
(`run_benchmark.py:199`, caught at `:246`): `RouteWriteFails` records that request as failed
and the run goes on. `ReadAll` is `read_all`.

**LedgerMigration** is `initialize` on an old database, statement by statement, in
several processes, with the transaction rules of Python's `sqlite3` (DDL outside a
transaction is committed at once, the first DML opens one). A process whose upgrade has
returned records a run of one request and then its contexts. `OpenContexts` creates the
context table, and renaming the trace table takes the foreign key of that table along
(`ReferencesRenamed`), dropping it deletes the rows that reference it
(`OrphansDropped`).

**Services** composes what lives in one process and shares nothing: **Caching**,
**Routing**, **ModelPool**, **BoundedGather** and **CostAttribution**. A behaviour is about
one of them. ModelPool has the iterator of a Python dictionary, which remembers a position and
the size: `BackendAnswers` resumes the loop after an `await`, `RegisterBackend` comes in
between. BoundedGather has asyncio's semaphore and `gather`, external, with the first
exception raised while the other tasks go on. CostAttribution files a cost under its
user, or nowhere.

**Routing**, **Batching** and **Caching** are the primitives of `domain/`. Each has a
variable saying which implementation of the common interface a behaviour is about;
no method suspends itself, so one call is one step.

- Routing: eligibility, quotes, the filters, scores, reasons and fallbacks of the
  policy, rule-based, cost-aware and round-robin routers. Scores are compared exactly
  where the code compares floats. BenchmarkRun does not use it: there a router is an
  arbitrary estimate, which covers all of these.
- Batching: the lanes and batch sizes of the adaptive, priority and semantic batchers.
  Ages stop at the only value they are compared with. `_oldest_request_age_ms` looks at
  the heads of the lanes, so an old request added behind a young one is not noticed.
- Caching: `CacheService` over the exact and prefix tiers, and the embedding cache. A
  request is its text, the parameters that are in the cache key and those that are not;
  `Key` is `InferenceRequest.cache_key`, so unequal requests may share an entry. An expired entry keeps its place until it is overwritten or evicted, as in the code.
  What the code orders by `last_accessed`, and a dictionary by insertion, is here an
  order: for each key, or prefix, the set of those before it.

Operators commented `Mutant:` are plausible bugs of the definition that follows
them (a dropped reset, an off-by-one, a swapped order). No action uses them; they
serve to see that each property really depends on the code it is about.

## 3. Runs

| Run | Instance | What it shows |
|---|---|---|
| `executor` | `MCFrontEnds.cfg`, 435 036 states | two requests of up to three attempts, every error class and pricing set-up, cancellation anywhere, under each front end: the chain accounts for the charges, no answer makes a request look cheaper, infer answers |
| `benchmark_costs` | `MCBenchmarkCosts.cfg`, 1 506 519 states | two items, every budget, charges 0..2, a crash and an edit of the workload anywhere: no claim differs from the charges; admission precedes every call; nothing aborts after the last charge; reconciliation and segments agree with the charges |
| `benchmark_restart` | `MCEvidenceLogs.cfg`, 645 616 states | two starts under one run id, a death at any step or within a line, a route line whose write fails and the run goes on: files lose at most one request per start and are read whole or not at all, the ledger holds one whole incarnation, a run that is up ends |
| `paired_reader` | `MCEvidenceReaders.cfg`, 76 060 states | three recorders, two under one run id, beside each reading command: whole evidence, refinement, no claim over mixed executions or over costs nobody was charged, no recorder waits for ever |
| `ledger_migration` | `MCLedgerMigration.cfg`, 33 213 states | two processes, four calls, deaths anywhere, new runs and contexts: nothing recorded is lost, every reader sees exactly the proven costs, and the upgrade is complete when nothing failed |
| `batching` | `MCBatching.cfg`, 240 067 states | four requests of any lane, age and text, any latencies: each batcher serves every request once, in order, the urgent first, and in the end |
| `services` | `MCServices.cfg`, 318 952 states | caches: hits are current for their key, capacity holds, eviction takes the entries it should; routers: over 512 fleets and none, selections are justified and say why, and round robin takes turns; pool: sweeps are whole or raise; gather: its limit, and no result lost; attribution: each cost filed once |
| `attempt_counts`, `workload_hash`, `paired_hash`, `migration_summary`, `cache_key` | violations, see section 6 | |

The properties by run, each stated in a comment beside its definition:

- *executor*: `ChainAccountsForCharges`, `RetriesOnlyAfterTransientFailure`,
  `FrontEndsReportHonestly`, `InferAnswers`.
- *benchmark_costs*: `TypeOK`, `CompleteCostIsTrueCost`, `ReportedCostIsTrueCost`,
  `NoCallWithoutLoggedAdmission`, `OnlyRoutingAborts`, `ReconciliationIsTrue`,
  `SegmentsReconstructRun`.
- *benchmark_restart*: `LogsAreReadWholeOrNotAtAll`, `AtMostOneUnloggedCall`,
  `StoredRunIsOneWholeIncarnation`, `RunEnds`.
- *paired_reader*: `EvidenceIsWhole`, `ReadersHoldOneExecution`,
  `ComparedCostsAreCharges`, `RefinesEvidenceStore`, `RecordersFinish`.
- *ledger_migration*: `HistoryIsNeverLost`, `ContextsSurvive`,
  `EveryReaderSeesProvenCost`, `ReportsFollowTraces`, `UpgradeWithoutFailureIsComplete`,
  `UpgradeEnds`.
- *batching*: `BatchingTypeOK`, `RequestsAreServedInOrder`, `NothingMoreUrgentIsLeft`,
  `EveryRequestIsCollected`.
- *services*: `SweepsAreWhole`, `GatherKeepsItsPromise`, `CostsAreFiledOnce`,
  `CachingTypeOK`, `HitsAreCurrent`, `RecentlyUsedIsKept`, `UsedPrefixesStay`,
  `SelectionIsJustified`, `RoundRobinTakesTurns`, `EveryJobEnds`.

Deadlock is not checked, because each of these systems may stop: the requests of a
front end are answered, a finished benchmark need not be started again, recorders,
readers and sweepers are done after one pass. What must not stop early is stated as
liveness instead.

### Bounds and why they are enough

- `MaxAttempts` 3 in FrontEnds is one more than the default of `RetryPolicy`, so that a
  chain has a first, a middle and a last attempt; in BenchmarkRun it is that default, 2. `MaxRequests` 2 in FrontEnds: a batch with a response
  before the request that fails.
- `Charges` {0, 1, 2}: a free invocation, and two amounts so that an amount filed
  with the wrong attempt, or a sum missing a term, shows. FrontEnds has {0, 1}:
  a chain of three with a free one among them.
- `SdkErrors`: in the executor every combination of name and status the
  classification tells apart; elsewhere one transient and one permanent failure.
- `WorkloadSize` 2: a first and a last item, and a total of two. `Estimates`
  {1, 3} against budgets none, 2, 0 and -1: admitted, refused, all refused, invalid.
- `MaxEdits` 1 in `benchmark_costs`: one edit between the load and the hash.
  `benchmark_restart` has none, because none of its properties looks at which version of
  the workload was executed.
- `MaxStarts` 2 in `benchmark_restart`: one crash and restart. A third start
  meets the same files as the second. Here one charge, one transient error and the budgets
  0 and 2 are enough: the logs do not look at amounts, and a budget decides whether a
  request is called or only logged. Both logs can be cut.
- Three recorders: two that race for a run id and one for the other side of the
  comparison, three items each, so that a metric can have all pairs, some or too
  few. One item of one recording failed without a price. One tag is on every item, one
  tells two items from the third, one is on the third alone. `MinimumSamples` 2 is the least the code accepts
  and `MinimumDiscordant` 1 (10 in the code) the least that can fail: three pairs
  fall on both sides of each.
- Migration: two processes and four calls, so that one may fail and be repeated while
  the other is half way; seven historical requests, one of each kind that the upgrade or a
  reader tells apart (single, failed, retried, refused, unproven, proven and partly
  priced); each process records one more. `ReportsFollowTraces` looks at every run that
  could be formed of them.
- Batching: sizes 2 to 3, so that a size grows, shrinks and meets both limits; four
  requests fill a background batch and leave one; of four texts one begins another, and
  one differs only beyond the seed.
- Caches: four requests, two of which share a key and a third differs from them only in a
  parameter of the key, so three keys for a capacity of two; three texts, one of which
  begins another and may therefore be its prefix; two responses, so that a stale one
  shows; one use of a prefix, which tells used from unused.
- Pool: two sweeps at once, two models and four registrations: a new model and a
  replaced one within a sweep, and again after `close_all`. Gather: three
  coroutines against limits of -1, 0, 1 and 2: refused, never served, one after the
  other, two at a time with one waiting. Attribution: two users and nobody, a feature and
  none, a net cost that is negative.
- Routing: two models with two or three values of each attribute, around a fixed one, so
  that every order of cost, latency, quality and load occurs; requests of which one fits
  every model, one some, and one only the largest; `MaxRoutes` 5 gives three models a turn
  each and two of them a second one. The empty fleet: a router that can only raise.

### Fairness

- Front ends: weak fairness of the executor's own steps and of receiving what it
  returns, not of `Cancel`, `Interrupted` or the next request. The client is built with a
  timeout, so a call in flight ends, and a sleep ends.
- Runner: weak fairness of `RunStep`, in EvidenceLogs together with the writing of the
  files. A process that is up keeps executing; its only waits are the two above. Nothing
  obliges `Start`, `Crash`, `StopWhileWriting`, `RouteWriteFails` or `EditWorkload`.
- Ledger and upgrade: weak fairness per process. A process waiting for the write lock
  waits for transactions that contain no other wait, and gives up at SQLite's
  timeout (`Fail`, `Interrupted`, which no fairness forces). Nothing obliges a reader.
- Batching: weak fairness of time and of collecting: whoever owns a batcher polls it. No
  fairness of arrivals, which the bound ends; under endless express traffic the other
  lanes do starve.
- Gather: weak fairness of `GatherRuns`: the event loop runs the tasks that are ready, and a
  coroutine that was given to it ends. `EveryJobEnds` says for which limits that suffices.

## 4. What is proved

Eight modules of proofs are checked by TLAPS to the last leaf, for every value of the
constants that satisfies the named ASSUMEs. These say: bounds are naturals (where the
code requires it, positive), charges and prices are naturals and `Unknown` is none,
`NoName` is no user, run ids are assigned to recorders, every recording has an item. Six
say what a constant that stands for *data* may be, and are facts about the program that
wrote it:

- `OutcomeAssumption` (EvidenceReaders): a recorded outcome that claims a cost claims what
  was charged. `TracesClaimTrueCost` proves this of every trace a run writes.
- `RecordedAssumption` and `RoutesAssumption` (LedgerMigration): what any version of the
  program can have recorded, as its constructors checked it: a total exactly where
  completeness is claimed, and the sum of the attempts where they were kept. Nothing is
  assumed about provenance in old records: that is what the upgrade is for.
- `TagsAssumption` (Reconciliation): each workload item has finitely many tags.
- `RoutingAssumption` (Routing): fleets are finite dictionaries, rates and token counts
  naturals, weights naturals as `PolicyRouterConfig` requires; loads, latencies, limits
  and contexts are any integers. The weight of `cost_aware.py` is a percentage.
- In `BatchingAssumption`: texts are finite sequences of symbols, and none is a priority.

TLC evaluates every one of them on the instances of section 3.

- **Sums** (`Evidence_proofs`). What the other proofs need of `Total`: it is an amount, one
  amount more adds itself (`TotalAppend`), a sum depends on its values only
  (`SumOnCongruence`), may be indexed by other names (`SumOnRenamed`) and dealt out to parts
  (`SumOnParts`); a count is a sum of ones. Each by the smallest counterexample among the
  subsets of the index set (`MinimalSet`).
- **Executor**. `ExecInv` ties the attempt list to the charges phase by phase:
  their lengths, that every attempt before the last failed transiently, and that a
  known amount is the charge at the same position. The last part is what makes it
  inductive: the code never indexes into the chain, it only appends. From it:
  `ExecTypes`, `InvocationsRecorded`, `AmountsAreCharges`, `RetriesAreBounded`,
  `CompleteChains`, and `ChainsAccount`, which is the conjunction that the run checks.
- **Front ends**. `FrontInv` carries `ExecInv` over (`CallersKeepTheExecutor`) with one
  addition: the cost of a response is the charge of the last invocation or unknown. Records
  of earlier requests never change, so honesty is a fact about one reply
  (`FrontEndsAreHonest`).
- **Runner**. Four invariants. `RunInv`: whatever list holds traces (memory, request log,
  ledger) holds honest ones, and a report about to be stored is honest about the traces in
  memory. A chain whose costs are all known *is* the sequence of charges
  (`KnownChainIsCharges`), so both totals are the same term. From it `TracesClaimTrueCost` and
  `ReportsClaimTrueCost`; with an invariant about the current request, `CallsAreAdmitted`.
  `ShapeInv`: positions, ids and counts of the lists in memory, and with them that every
  check the run makes of its own evidence succeeds (`RunTypes`, `RunsAbortUnpaid`).
  `FilesInv`: the logs hold what memory and the ledger hold (`StoredRunsAreWhole`).
  `CallsInv`: at most one called request of each incarnation is not in the log, and in a live
  process it is the one being executed (`CallsAreLogged`).
- **Derived evidence and logs** (`EvidenceLogs_proofs`). `RowsInv`: every stored trace
  accounts for its charges and nothing was charged without a route, so what is attributed
  to any part of the requests is what was charged for it (`ReconciliationsAreTrue`). That the
  segments add up to the report (`SegmentsAreTheRun`) is a sum over ids taken apart by tag
  against one over positions. `LogsInv`: as long as every line parses, the file is the log,
  perhaps with one more record whose newline is missing, and a line that once failed to
  parse never parses again (`LogsAreWhole`). `LogsKeepTheRun` shows that this system behaves as
  BenchmarkRun, and `LogsKeepRunsWhole` restates its properties for it.
- **Ledger** (`EvidenceReaders_proofs`). `LedgerInv` says at each statement what the writer
  has done to its draft, that exactly the writer is at a writing step, and that the draft
  differs from the committed tables in its own run only. The delicate step is the insertion
  of contexts after a stale coverage check: foreign keys and fresh ids make it safe
  (`ForeignKeyProtects`, `IdsAreFresh`). From it `LedgerTypes`, `RunsStayWhole`,
  `ContextsStayCovering`, their conjunction `EvidenceStaysWhole`, which the run checks, and
  `LedgerRefinesStore`: each commit is a `Publish` or a `Segment` of EvidenceStore and
  every other step a stutter.
- **Readers** (in the same module). `ReadersInv` adds what the queries so far have returned:
  each answer was whole when it was read, rows name their recording, and a recording that
  was replaced does not come back, so one that is found at the first and at the last query
  was there throughout (`ReadersSeeOneExecution`). `ComparisonsAreOfCharges` then follows the
  sums of the verdicts term by term.
- **Upgrade**. `HistoryInv`: a process that may write sees the draft; the draft holds every
  recorded trace in one of the two trace tables, save between the copy and the drop, which
  are in one transaction; the disk always does (`HistoryIsKept`). `EvidenceInv`: every row is
  what was recorded, copied or downgraded, and settled once an upgrade has committed. For each
  of these forms the readers' result is computed from what the constructors guaranteed
  (`ReadersSeeProvenCost`, `ReportsAgreeWithUsage`). `ContextsInv`: without overlap only one
  process upgrades, and traces are rebuilt only before the first commit
  (`ContextsAreKept`). `CompleteInv`: without failure a renamed table has an owner that will
  drop it (`UpgradesWithoutFailureComplete`).
- **Services**. One invariant for each. Gather: every started task is in one place, waiting
  tasks are in order, a slot is never free while one waits. Pool: an undisturbed sweep has
  visited the first of its backends in the order of the pool. Caches: what is stored under a
  key is what was written last under it, for a request of that very key; `recency` is an
  order of what is cached, and a key that comes before another in it was not used since that
  one was; so what eviction takes has seen all others used (`RecentUseIsKept`). Attribution: the
  invariant is the property with types, and each call adds the same amount to both sides.
- **Batching** (`Primitives_proofs`). The three batchers differ in how they split a lane
  into what is taken and what is left, and agree in this: each lane stays ordered, and
  whoever is taken comes before whoever is left, in every lane (`Splits`, `Serves`).
  `BatchingInv` is inductive from that alone: `LanesInv` (each request in one lane, ids
  ascending), `SizeInv`, `BatchesInv` (no batch is empty or too large) and `CollectedInv`
  (what was collected comes before what waits, and nothing is lost). It speaks of the
  set of ids; that their number is right, as the property says, is a count at the end
  (`RequestsStayInOrder`). `BatchingTypes` needs that a grown or shrunk size is clamped,
  and `TheMostUrgentGoFirst` looks at each of the three splits again.
- **Routing** (in the same module, of `RoutingSpec`: the routers of Services take these steps
  beside variables that stay as they are). `Least` and `SortedBy` choose; that there is something to
  choose follows from keys that end in the id of their model, so no two are equal
  (`KeyIsLeast`, `SortedList`). The scores multiply variables, which the provers do not:
  `BestIsNotWorse` factors the difference of two scores into a sum of products that are each
  of one sign, for any weights that are not negative. Each router is then taken by
  itself (`SelectionsAreJustified`). Taking turns is about a circle: since the eligible
  models last changed the index has passed c times over all of them and once more over an arc
  that begins where it then stood (`Round`), whatever that place was; a call that raises
  changes neither the index nor the counts (`RoundRobinIsFair`).

Only model-checked:

- all liveness (`InferAnswers`, `RunEnds`, `RecordersFinish`, `UpgradeEnds`,
  `EveryRequestIsCollected`, `EveryJobEnds`), which the prover cannot do under fairness;
- what the five violation runs show: a theorem says that something holds, and these say that
  something does not.

Every safety invariant and every action property of a passing run is a theorem.

## 5. Not modelled, and why

- Executor: `stream`, `health_check` and `close` keep no evidence. Messages and token
  counts are left out: usage is there, absent or inconsistent. A client that cannot be
  built (the `openai` package is missing) fails before any call.
- Runner: how arguments become a router and its models, and the report files.
- Ledger: columns added by `_ensure_columns` (constant defaults), text columns, latencies.
- Paired comparison: the bounds of bootstrap and binomial intervals (floating point over a
  seeded generator) and the latency metrics, which are treated like the cost
  metric without its provenance.
- Export and compare: the layout of Markdown, JSON and CSV.
- Of reconciliation and segments: latencies, quality rates, models and paths, and ratios
  of two derived amounts.
- vLLM and TGI clients: transport of requests to servers, no state of their own.
- `app.py`, `BatchService` and `InferenceService` wire parts together or raise
  `NotImplementedError`; argument parsing and settings keep no state.
- Of the primitives: the complexity heuristic (an arbitrary tier in Routing), provenance
  and validity dates of prices, hit counters and saved-token metrics of the caches, and
  what nothing calls: `algorithms.py`, `eviction.py`, the semantic cache, which is a shell
  that always misses.

## 6. Disagreements found

1. `attempt_counts`: an exception that is not a `ProviderError` loses the attempt
   chain and is logged as one attempt, although `execution.py:24-27` makes every
   retry an attempt (`scripts/run_benchmark.py:246`). The cost claim stays right.
2. `workload_hash`: the workload is hashed from the file when the report is written,
   not when it was loaded (`benchmarking/harness.py:156`).
3. `paired_hash`: report and traces of a run are read through different connections, so
   a run recorded again in between is compared under the other workload's hash
   (`scripts/compare_paired.py:42`).
4. `migration_summary`: a death between the committed RENAME of `benchmark_traces`
   (`sqlite_ledger.py:986`) and the copy leaves the traces in the renamed table. The next
   `initialize` creates an empty trace table and, in a database older than the usage table,
   fills that one from the empty trace table (`:227-266`); it succeeds, and the usage summary
   of a recorded run claims a complete cost of zero. (A death after the rename of the usage
   table at `:1044` does no such harm: the backfill restores its rows from the traces.)
5. `cache_key`: requests that differ in `top_k`, a penalty or the stop sequences share a cache
   key (`domain/models/request.py:83-97`), so one is answered with the response of the
   other, although `request.py:35` calls the `ModelParameters` "Generation parameters that
   affect model output and cache keys". `HitsAreCurrent` is what does hold, over the key.

Behaviours that no document of the repository rules out, met while modelling. They are
the reason for a condition in a property, and worth knowing:

- Two upgrades at once can lose filed contexts: one process has opened the context
  store while another renames and drops the trace table (`ContextsSurvive` holds when
  no two upgrades overlap).
- An export of a run without contexts may describe one recording in its report and another in
  its usage, as no coverage check applies (`ReadersHoldOneExecution` asks of such an
  export only that estimates are set against costs of the same execution).
- A torn line makes the whole log unreadable, and the next record is appended to it. It
  takes no death: a route line whose write failed stays torn while the run goes on.
- Two `close_all` at once, with registrations in between, can drop a backend unclosed.
- `gather_limited` with a limit of zero waits for ever; its results are in the order in
  which the coroutines ended.
- `infer_batch` drops the billed responses of its earlier requests when a later one fails.
- A permanent 4xx whose message mentions a timeout is classified as a timeout and retried
  (`errors.py:51`); `RetriesOnlyAfterTransientFailure` is about the category an error got.
- When every prefix was used, a prefix added to a full cache is evicted at once
  (`prefix.py:43-47`): `UsedPrefixesStay` is the other side of it.
- Round robin may pass over a model for ever when the eligible models alternate
  (`load_balanced.py:29`); `RoundRobinTakesTurns` is about calls that have the same ones.

## 7. Order of work and what is left

Written in this order, the behaviour that handles money first: Evidence,
ProviderExecutor, BenchmarkRun, BenchmarkLedger with EvidenceStore, LedgerMigration,
the first proofs, Reconciliation, Routing, Batching, Caching; then
StoredEvidence with the readers of every version, the context table in the upgrade,
FrontEnds, EvidenceLogs, PairedStatistics with EvidenceReaders, and the services; then the
other proofs of section 4, those of Batching and Routing last. Left:

1. `stream` and `health_check` of the executor; the path divergence of Reconciliation.
