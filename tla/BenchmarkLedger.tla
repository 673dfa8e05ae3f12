--------------------------- MODULE BenchmarkLedger ---------------------------
(***************************************************************************)
(* The SQLite benchmark database as several processes record into it.      *)
(* A recorder stores its run (SQLiteBenchmarkLedger.record_run) in one     *)
(* transaction and its contexts (SQLiteBenchmarkContextStore.              *)
(* record_contexts) in another, preceded by reads that are not part of it. *)
(* Recorders may share a run id: the same --run-id is run again, or two    *)
(* processes use it at once.                                               *)
(*                                                                         *)
(* SQLite is external and modelled by what the code relies on: one writer  *)
(* at a time, whose changes nobody sees before the commit; a rollback when *)
(* the process dies or a statement fails; ON DELETE CASCADE and the        *)
(* immediate foreign key of the context table.                             *)
(*                                                                         *)
(* Rows are sets of request ids.  A request id << w, i >> is the UUID that *)
(* recording w gave to workload item i: no two recordings share one.       *)
(***************************************************************************)
CONSTANTS
  Runs,          \* run ids
  Recorders,     \* processes, each with one finished execution to record
  RunOf,         \* the --run-id of each
  ItemsOf,       \* the workload items each executed
  NoRecording,   \* benchmark_runs has no row
  Nobody         \* no write transaction is open

ASSUME RecordersAssumption ==
  /\ RunOf \in [Recorders -> Runs]
  /\ \A w \in Recorders : ItemsOf[w] # {}
  /\ NoRecording \notin Recorders /\ Nobody \notin Recorders

VARIABLES
  db,        \* the committed tables
  draft,     \* the tables as the open write transaction sees them
  writer,    \* the recorder whose write transaction is open
  step       \* what each recorder does next

ledgerVars == << db, draft, writer, step >>

\* The request ids of a recording.
Ids(w) == {<< w, i >> : i \in ItemsOf[w]}

EmptyDb ==
  [ reports  |-> [r \in Runs |-> NoRecording],   \* benchmark_runs
    traces   |-> [r \in Runs |-> {}],            \* benchmark_traces
    usage    |-> [r \in Runs |-> {}],            \* benchmark_provider_usage
    contexts |-> [r \in Runs |-> {}] ]           \* benchmark_request_contexts

-----------------------------------------------------------------------------
(* Transactions *)

\* Mutant: every statement is committed on its own.
BeginAutocommit(w, tables) ==
  /\ writer = Nobody
  /\ writer' = w
  /\ draft' = tables
  /\ db' = tables

\* The first statement that writes takes the write lock.
Begin(w, tables) ==
  /\ writer = Nobody
  /\ writer' = w
  /\ draft' = tables
  /\ UNCHANGED db

\* The with block ends normally.
CommitDraft ==
  /\ db' = draft
  /\ writer' = Nobody
  /\ UNCHANGED draft

\* The with block ends with an exception, or the process is gone.
Rollback(w) ==
  /\ IF writer = w THEN draft' = db /\ writer' = Nobody ELSE UNCHANGED << draft, writer >>
  /\ UNCHANGED db

Goto(w, next) == step' = [step EXCEPT ![w] = next]

-----------------------------------------------------------------------------
(* record_run *)

LedgerInit ==
  /\ db = EmptyDb /\ draft = EmptyDb
  /\ writer = Nobody
  /\ step = [w \in Recorders |-> "record"]

\* Mutant: the contexts of the replaced run stay.
ReplaceRunKeepsContexts(w) ==
  LET r == RunOf[w]
  IN  /\ step[w] = "record"
      /\ Begin(w, [db EXCEPT !.reports[r] = w, !.traces[r] = {}, !.usage[r] = {}])
      /\ Goto(w, "insert")

\* INSERT OR REPLACE of the run row and the three DELETEs: whatever hung off
\* the old run, its contexts through their traces included, goes with it.
ReplaceRun(w) ==
  LET r == RunOf[w]
  IN  /\ step[w] = "record"
      /\ Begin(w, [db EXCEPT !.reports[r] = w, !.traces[r] = {}, !.usage[r] = {},
                             !.contexts[r] = {}])
      /\ Goto(w, "insert")

InsertTraces(w) ==
  /\ step[w] = "insert"
  /\ draft' = [draft EXCEPT !.traces[RunOf[w]] = Ids(w)]
  /\ Goto(w, "insert_usage")
  /\ UNCHANGED << db, writer >>

\* The provider usage rows, then the routes and their quotes.
InsertUsage(w) ==
  /\ step[w] = "insert_usage"
  /\ draft' = [draft EXCEPT !.usage[RunOf[w]] = Ids(w)]
  /\ Goto(w, "commit_run")
  /\ UNCHANGED << db, writer >>

CommitRun(w) ==
  /\ step[w] = "commit_run"
  /\ CommitDraft
  /\ Goto(w, "check_run")

-----------------------------------------------------------------------------
(* record_contexts *)

\* SELECT 1 FROM benchmark_runs: KeyError when the run is unknown.
CheckRun(w) ==
  /\ step[w] = "check_run"
  /\ Goto(w, IF db.reports[RunOf[w]] = NoRecording THEN "failed" ELSE "check_ids")
  /\ UNCHANGED << db, draft, writer >>

\* The contexts must cover exactly the stored traces: ValueError otherwise.
CheckIds(w) ==
  /\ step[w] = "check_ids"
  /\ Goto(w, IF db.traces[RunOf[w]] = Ids(w) THEN "delete_contexts" ELSE "failed")
  /\ UNCHANGED << db, draft, writer >>

DeleteContexts(w) ==
  /\ step[w] = "delete_contexts"
  /\ Begin(w, [db EXCEPT !.contexts[RunOf[w]] = {}])
  /\ Goto(w, "insert_contexts")

\* Every context row must reference a trace that is still there.
ForeignKeyHolds(w) == Ids(w) \subseteq draft.traces[RunOf[w]]

InsertContexts(w) ==
  /\ step[w] = "insert_contexts" /\ ForeignKeyHolds(w)
  /\ draft' = [draft EXCEPT !.contexts[RunOf[w]] = Ids(w)]
  /\ Goto(w, "commit_contexts")
  /\ UNCHANGED << db, writer >>

\* Mutant: the transaction is left open.
ContextsRejectedOpen(w) ==
  /\ step[w] = "insert_contexts" /\ ~ForeignKeyHolds(w)
  /\ Goto(w, "failed")
  /\ UNCHANGED << db, draft, writer >>

\* IntegrityError: the traces were replaced after they were checked.
ContextsRejected(w) ==
  /\ step[w] = "insert_contexts" /\ ~ForeignKeyHolds(w)
  /\ Rollback(w)
  /\ Goto(w, "failed")

CommitContexts(w) ==
  /\ step[w] = "commit_contexts"
  /\ CommitDraft
  /\ Goto(w, "done")

-----------------------------------------------------------------------------

\* The process dies, a statement fails, or the wait for the write lock times
\* out ("database is locked").
Fail(w) ==
  /\ step[w] \notin {"done", "failed"}
  /\ Rollback(w)
  /\ Goto(w, "failed")

Record(w) ==
  \/ ReplaceRun(w) \/ InsertTraces(w) \/ InsertUsage(w) \/ CommitRun(w)
  \/ CheckRun(w) \/ CheckIds(w)
  \/ DeleteContexts(w) \/ InsertContexts(w) \/ ContextsRejected(w) \/ CommitContexts(w)

LedgerNext == \E w \in Recorders : Record(w) \/ Fail(w)

\* A live process executes its next statement; one that waits for the lock
\* waits at most for the transactions of the others, which never wait.
LedgerFairness == \A w \in Recorders : WF_ledgerVars(Record(w))

LedgerSpec == LedgerInit /\ [][LedgerNext]_ledgerVars /\ LedgerFairness

-----------------------------------------------------------------------------
(* Properties *)

Steps == {"record", "insert", "insert_usage", "commit_run", "check_run", "check_ids",
          "delete_contexts", "insert_contexts", "commit_contexts", "done", "failed"}

\* The steps at which a recorder holds the write lock.
Writing == {"insert", "insert_usage", "commit_run", "insert_contexts", "commit_contexts"}

RequestIds == UNION {Ids(w) : w \in Recorders}

Tables ==
  [ reports  : [Runs -> Recorders \cup {NoRecording}],
    traces   : [Runs -> SUBSET RequestIds],
    usage    : [Runs -> SUBSET RequestIds],
    contexts : [Runs -> SUBSET RequestIds] ]

\* Every variable holds a value of the shape the code gives it.
LedgerTypeOK ==
  /\ db \in Tables /\ draft \in Tables
  /\ writer \in Recorders \cup {Nobody}
  /\ step \in [Recorders -> Steps]

\* The rows of a run all come from the recording that wrote its report: a
\* reader of one committed state never finds the report of one execution over
\* the traces or the usage of another, nor some of them.
WholeRun(tables, r) ==
  LET w == tables.reports[r]
      rows == IF w = NoRecording THEN {} ELSE Ids(w)
  IN  tables.traces[r] = rows /\ tables.usage[r] = rows

RunsAreWhole == \A r \in Runs : WholeRun(db, r)

\* A run has contexts for every trace or for none ("partial tagging" never
\* biases a segment), although the coverage check of record_contexts reads a
\* state that another process may replace before the contexts are written.
ContextsCoverTraces == \A r \in Runs : db.contexts[r] \in {{}, db.traces[r]}

\* Under every run id there is a whole recording or nothing, and its contexts
\* or none, in every committed state.
EvidenceIsWhole == RunsAreWhole /\ ContextsCoverTraces

\* The database refines the store of whole evidence.
EvidenceOf(tables, r) ==
  IF tables.reports[r] = NoRecording THEN {}
  ELSE {[by |-> tables.reports[r], contexts |-> {id[1] : id \in tables.contexts[r]}]}

Store == INSTANCE EvidenceStore WITH evidence <- [r \in Runs |-> EvidenceOf(db, r)]

RefinesEvidenceStore == Store!StoreSpec

\* No recorder waits for the write lock forever, whoever fails or dies while
\* holding it.
RecordersFinish == \A w \in Recorders : <>(step[w] \in {"done", "failed"})
=============================================================================
