---------------------------- MODULE EvidenceReaders ----------------------------
(***************************************************************************)
(* The commands that read the benchmark database while others record into  *)
(* it (BenchmarkLedger): scripts/compare_paired.py, and compare and export *)
(* of scripts/run_benchmark.py.  Every query has a connection of its own,  *)
(* get_report even makes two, so another recording of the same run id may  *)
(* commit between any two; what the command then writes is a function of   *)
(* what it has read.                                                       *)
(*                                                                         *)
(* A command works on the runs Baseline and Candidate; export on Baseline  *)
(* alone.  usage-summary makes one of the queries of export.               *)
(***************************************************************************)
EXTENDS BenchmarkLedger, PairedStatistics

CONSTANTS
  Baseline, Candidate,   \* the run ids
  ShaOf,                 \* the workload hash in the report of each recording
  TagsOf,                \* the tags its workload gave to each item, << key, value >>
  RoutedBy,              \* the items of which a recording has a route
  Outcome                \* the record of each item of each recording; "charged",
                         \* which is history, is what the provider charged for it

ASSUME ReaderAssumption == Baseline \in Runs /\ Candidate \in Runs

\* A record that claims a cost claims what was charged: BenchmarkRun proves it
\* of every trace an execution writes (CompleteCostIsTrueCost).
ASSUME OutcomeAssumption ==
  \A w \in Recorders :
    /\ IsFiniteSet(ItemsOf[w])
    /\ \A i \in ItemsOf[w] :
         /\ IsFiniteSet(TagsOf[w][i])
         /\ Outcome[w][i].charged \in Nat /\ Outcome[w][i].attemptCount \in Nat
         /\ HasCost(Outcome[w][i]) => Outcome[w][i].cost = Outcome[w][i].charged

VARIABLES
  command,   \* the command that is run
  reads,     \* how many of its queries were made
  seen,      \* what they returned
  verdict    \* what became of it

readerVars == << command, reads, seen, verdict >>
readersVars == << ledgerVars, readerVars >>

Commands == {"compare_paired", "compare", "export"}

\* The arguments of compare_paired_runs, and the queries of _compare and
\* _export, in the order they are made.  "costs" is the second query of
\* get_report, over the traces.
Queries(r) == << << "reports", r >>, << "costs", r >> >>

Plan ==
  CASE command = "compare_paired" ->
         Queries(Baseline) \o Queries(Candidate) \o
         << << "contexts", Baseline >>, << "contexts", Candidate >>,
            << "traces", Baseline >>, << "traces", Candidate >> >>
    [] command = "compare" -> Queries(Baseline) \o Queries(Candidate)
    [] command = "export" ->
         Queries(Baseline) \o
         << << "traces", Baseline >>, << "routes", Baseline >>, << "usage", Baseline >>,
            << "contexts", Baseline >> >>

\* The committed rows of a run that a query selects.  A recording inserts its
\* routes in the transaction, and in the model in the step, of its usage rows.
Rows(table, r) ==
  CASE table = "costs" -> db.traces[r]
    [] table = "routes" -> {id \in db.usage[r] : id[2] \in RoutedBy[id[1]]}
    [] OTHER -> db[table][r]

ReaderInit ==
  /\ command \in Commands
  /\ reads = 0
  /\ seen = [table \in {"reports", "costs", "contexts", "traces", "routes", "usage"} |->
               [r \in {Baseline, Candidate} |-> {}]]
  /\ verdict = "pending"

\* One query; get_report and get_contexts raise KeyError for a run that is not
\* there.
Read ==
  LET table == Plan[reads + 1][1]
      r == Plan[reads + 1][2]
  IN  /\ verdict = "pending" /\ reads < Len(Plan)
      /\ IF table \in {"reports", "contexts"} /\ db.reports[r] = NoRecording
           THEN verdict' = "raised" /\ UNCHANGED << reads, seen >>
           ELSE /\ seen' = [seen EXCEPT ![table][r] = Rows(table, r)]
                /\ reads' = reads + 1
                /\ UNCHANGED verdict
      /\ UNCHANGED command

-----------------------------------------------------------------------------
(* Reports *)

RecordOf(id) == Outcome[id[1]][id[2]]

RecordsOf(ids) == {RecordOf(id) : id \in ids}

\* The report recording w stored, of all its traces (BenchmarkRun!Summarize).
StoredReport(w) ==
  LET complete == \A i \in ItemsOf[w] : HasCost(Outcome[w][i])
      evaluated == {i \in ItemsOf[w] :
                      Outcome[w][i].error = NoError /\ Outcome[w][i].accepted # Undetermined}
  IN  [ sha |-> ShaOf[w], requests |-> Cardinality(ItemsOf[w]),
        flag |-> IF complete THEN "set" ELSE "cleared",
        cost |-> IF complete THEN Total([i \in ItemsOf[w] |-> Outcome[w][i].cost]) ELSE Unknown,
        evaluated |-> Cardinality(evaluated),
        passed |-> Cardinality({i \in evaluated : Outcome[w][i].accepted}) ]

ReportOf(r) == StoredReport(seen.reports[r])

\* The cost of the report as get_report returns it.
ReportCost(r) == ReadReport(ReportOf(r), RecordsOf(seen.costs[r]))

-----------------------------------------------------------------------------
(* compare_paired *)

\* The context of an item, and the tags in it.
ContextIdOf(r, i) == CHOOSE id \in seen.contexts[r] : id[2] = i

ItemsIn(ids) == {id[2] : id \in ids}

TagsIn(r) == [i \in ItemsIn(seen.contexts[r]) |-> TagsOf[ContextIdOf(r, i)[1]][i]]

\* _validate_workload_identity: same hash, contexts for both, as many as the
\* report counts requests, and the same items with the same tags.
SameWorkload ==
  /\ ReportOf(Baseline).sha = ReportOf(Candidate).sha
  /\ \A r \in {Baseline, Candidate} :
       seen.contexts[r] # {} /\ ReportOf(r).requests = Cardinality(seen.contexts[r])
  /\ TagsIn(Baseline) = TagsIn(Candidate)

\* Mutant: the coverage of the traces is not required.
ContextsNeedNoTraces == TRUE

\* _require_context_trace_coverage: ValueError otherwise.
ContextsMatchTraces ==
  \A r \in {Baseline, Candidate} : seen.contexts[r] = seen.traces[r]

PairedVerdict ==
  CASE ~SameWorkload -> "unavailable"
    [] SameWorkload /\ ~ContextsMatchTraces -> "raised"
    [] OTHER -> "available"

\* _pair_observations, for the items that carry a tag, or all of them.
Observations(items) ==
  [i \in items |-> [ baseline |-> RecordOf(ContextIdOf(Baseline, i)),
                     candidate |-> RecordOf(ContextIdOf(Candidate, i)) ]]

Tagged(tag) == {i \in ItemsIn(seen.contexts[Baseline]) : tag \in TagsIn(Baseline)[i]}

-----------------------------------------------------------------------------
(* compare and export *)

\* compare_reports; the workload path and the provider are the same.
CompareVerdict ==
  LET base == ReportOf(Baseline)
      other == ReportOf(Candidate)
  IN  IF /\ base.sha = other.sha /\ base.requests = other.requests
         /\ base.evaluated = other.evaluated /\ base.evaluated > 0
         /\ other.passed >= base.passed
         /\ ReportCost(Baseline).complete /\ ReportCost(Candidate).complete
        THEN "comparable" ELSE "not_comparable"

CostDelta == ReportCost(Candidate).cost - ReportCost(Baseline).cost

\* _export: the run files are written first; summarize_segments then raises
\* unless the contexts, if there are any, cover the traces and the routes.
ExportVerdict ==
  LET covered == /\ seen.contexts[Baseline] = seen.traces[Baseline]
                 /\ seen.routes[Baseline] \subseteq seen.traces[Baseline]
  IN  CASE seen.contexts[Baseline] = {} -> "unsegmented"
        [] seen.contexts[Baseline] # {} /\ covered -> "segmented"
        [] OTHER -> "raised"

\* The requests whose cost the exported reconciliation sets against an estimate.
Reconciled ==
  {id \in seen.traces[Baseline] \cap seen.routes[Baseline] :
     HasCost(RecordOf(id)) /\ RecordOf(id).attemptCount > 0}

ExportedUsage == UsageSummary([id \in seen.usage[Baseline] |-> RecordOf(id)])

Conclude ==
  /\ verdict = "pending" /\ reads = Len(Plan)
  /\ verdict' = CASE command = "compare_paired" -> PairedVerdict
                  [] command = "compare" -> CompareVerdict
                  [] command = "export" -> ExportVerdict
  /\ UNCHANGED << command, reads, seen >>

-----------------------------------------------------------------------------

ReadersInit == LedgerInit /\ ReaderInit

ReadersNext ==
  \/ LedgerNext /\ UNCHANGED readerVars
  \/ (Read \/ Conclude) /\ UNCHANGED ledgerVars

ReadersSpec == ReadersInit /\ [][ReadersNext]_readersVars /\ LedgerFairness

-----------------------------------------------------------------------------
(* Properties *)

\* What was read of a run comes from recording w and is all of it.
OneExecution(r, w, tables) ==
  /\ RunOf[w] = r
  /\ \A table \in tables :
       seen[table][r] = {id \in Ids(w) : table = "routes" => id[2] \in RoutedBy[w]}

\* However often the runs are recorded again between the queries, a paired
\* claim compares one execution on each side, of the same items; an export
\* with segments holds the traces, routes, usage and contexts of one execution;
\* and one without sets no estimate against the cost of another execution.
ReadersHoldOneExecution ==
  /\ verdict = "available" =>
       \E b, c \in Recorders :
         /\ OneExecution(Baseline, b, {"contexts", "traces"})
         /\ OneExecution(Candidate, c, {"contexts", "traces"})
         /\ ItemsOf[b] = ItemsOf[c]
  /\ verdict = "segmented" =>
       \E w \in Recorders : OneExecution(Baseline, w, {"traces", "routes", "usage", "contexts"})
  /\ verdict = "unsegmented" /\ Reconciled # {} =>
       \E w \in Recorders : OneExecution(Baseline, w, {"traces", "routes"})

ChargedFor(ids) == Total([id \in ids |-> RecordOf(id).charged])

\* What a paired claim says over some of the items: a cost effect over exactly
\* the pairs with a cost on both sides, and an interval only over enough pairs
\* that differ.
ClaimIsHonest(items) ==
  LET observations == Observations(items)
      metrics == MetricBundle(observations)
      priced == {i \in items : HasCost(observations[i].baseline) /\ HasCost(observations[i].candidate)}
      ids(r) == {ContextIdOf(r, i) : i \in priced}
      change(i) == observations[i].candidate.charged - observations[i].baseline.charged
  IN  /\ metrics.cost.pairs = Cardinality(priced)
      /\ metrics.cost.difference = ChargedFor(ids(Candidate)) - ChargedFor(ids(Baseline))
      /\ metrics.cost.interval => \E i, j \in priced : change(i) # change(j)
      /\ \A m \in DOMAIN metrics :
           metrics[m].interval => metrics[m].pairs >= MinimumSamples

\* Over a tag key that every item carries once, the segments add up to the run.
SegmentsAddUp(key) ==
  LET tags == {tag \in UNION Range(TagsIn(Baseline)) : tag[1] = key}
      items == ItemsIn(seen.contexts[Baseline])
      all == MetricBundle(Observations(items))
      segments == [tag \in tags |-> MetricBundle(Observations(Tagged(tag)))]
  IN  (\A i \in items : Cardinality(TagsIn(Baseline)[i] \cap tags) = 1) =>
        \A m \in DOMAIN all :
          /\ all[m].pairs = Total([tag \in tags |-> segments[tag][m].pairs])
          /\ all[m].difference = Total([tag \in tags |-> segments[tag][m].difference])

\* Every cost a command sets against another is what the provider charged:
\* the cost effect of a paired claim and of each of its segments, which add up
\* to it; the delta of two comparable reports; the cost and the usage of an
\* exported run.
ComparedCostsAreCharges ==
  /\ verdict = "available" =>
       /\ ClaimIsHonest(ItemsIn(seen.contexts[Baseline]))
       /\ \A tag \in UNION Range(TagsIn(Baseline)) :
            ClaimIsHonest(Tagged(tag)) /\ SegmentsAddUp(tag[1])
  /\ verdict = "comparable" =>
       CostDelta = ChargedFor(Ids(seen.reports[Candidate])) - ChargedFor(Ids(seen.reports[Baseline]))
  /\ verdict \in {"segmented", "unsegmented"} =>
       /\ ReportCost(Baseline).complete =>
            ReportCost(Baseline).cost = ChargedFor(Ids(seen.reports[Baseline]))
       /\ ExportedUsage.complete => ExportedUsage.cost = ChargedFor(seen.usage[Baseline])

\* paired_comparison.py: "Workload identity is strict": the two executions a
\* claim compares ran workloads with the same hash.
ClaimComparesOneWorkload ==
  verdict = "available" =>
    \A b, c \in Recorders :
      seen.traces[Baseline] = Ids(b) /\ seen.traces[Candidate] = Ids(c) => ShaOf[b] = ShaOf[c]
=============================================================================
