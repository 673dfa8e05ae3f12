--------------------------- MODULE LedgerMigration ---------------------------
(***************************************************************************)
(* SQLiteBenchmarkLedger.initialize on a database an older version wrote.  *)
(* Every operation of the ledger calls it first, so several processes may  *)
(* run it at once, and any of them may die or fail half way.               *)
(*                                                                         *)
(* Python's sqlite3 opens a transaction only before INSERT, UPDATE, DELETE *)
(* or REPLACE: a CREATE, RENAME or DROP executed before the first of those *)
(* is committed on its own, later ones belong to the open transaction.     *)
(* SQLite itself (one writer at a time, rollback on failure) is external.  *)
(*                                                                         *)
(* What matters of a row is its cost evidence (StoredEvidence).  The       *)
(* columns _ensure_columns adds have constant defaults, so adding them     *)
(* changes nothing else and can be repeated.  A process whose upgrade has  *)
(* returned may record a run of one request, named after it, and the       *)
(* contexts of that run, whose table references the trace table.           *)
(***************************************************************************)
EXTENDS StoredEvidence, FiniteSets

CONSTANTS
  Processes,     \* processes that use the database
  History,       \* the requests of the runs recorded before the upgrade
  Recorded,      \* what was recorded of each request, old or new
  Routes,        \* routes as the versions of the program recorded them
  Nobody,        \* no write transaction is open
  MaxCalls       \* bound: calls of initialize

ASSUME MigrationAssumption ==
  /\ History \cap Processes = {} /\ DOMAIN Recorded = History \cup Processes
  /\ Nobody \notin Processes /\ MaxCalls \in Nat

\* What any version of the program can have recorded: a total exactly when it
\* claims to be complete, the sum of the attempts where they were kept, nothing
\* for a request that called nobody.  The present version records only valid
\* traces and only amounts with their price record (RequestTrace.__post_init__,
\* ProviderAttempt.__post_init__).
ASSUME RecordedAssumption ==
  \A h \in DOMAIN Recorded :
    LET record == Recorded[h]
    IN  /\ record \in [ attempts : Seq([cost : Nat \cup {Unknown}, proven : BOOLEAN]),
                        attemptCount : Nat, error : STRING, cost : Nat \cup {Unknown},
                        complete : BOOLEAN ]
        /\ record.complete <=> record.cost # Unknown
        /\ record.attempts # << >> =>
             /\ record.complete <=> AllCostsKnown(record.attempts)
             /\ record.complete => record.cost = Total(AttemptCosts(record.attempts))
        /\ record.attempts = << >> /\ record.attemptCount = 0 => record.cost \in {0, Unknown}
        /\ h \in Processes =>
             /\ TraceIsValid(record)
             /\ \A i \in DOMAIN record.attempts :
                  CostIsKnown(record.attempts[i]) => record.attempts[i].proven

\* A route with a quote has its amount (RouteTrace.__post_init__).
ASSUME RoutesAssumption ==
  /\ Routes \subseteq [cost : Nat \cup {Unknown}, quote : Nat \cup {Unknown}]
  /\ \A route \in Routes : route.quote # Unknown => route.cost = route.quote

VARIABLES
  disk,      \* committed tables
  draft,     \* tables as the open write transaction sees them
  writer,    \* the process whose write transaction is open
  step,      \* the next statement of each process
  calls,     \* how often initialize was called
  migrated,  \* history: some call of initialize has returned
  failed,    \* history: some call has raised or died
  overlap,   \* history: two calls of initialize were under way at once
  filed      \* history: the processes whose run, and whose contexts, are recorded

histories == << calls, migrated, failed, overlap, filed >>
migrationVars == << disk, draft, writer, step, histories >>

-----------------------------------------------------------------------------
(* Tables *)

NoTable == [schema |-> "absent", rows |-> {}]

\* The estimated_cost_usd column allows NULL ("nullable") or not ("strict").
Table(schema, rows) == [schema |-> schema, rows |-> rows]

RowIds(table) == {row.id : row \in table.rows}

Exists(table) == table.schema # "absent"

\* The table a strict table is renamed to while it is rebuilt.
Legacy == [traces |-> "traces_legacy", usage |-> "usage_legacy"]

Row(h) == [id |-> h, evidence |-> Recorded[h]]

\* The mandatory column of an old table held a number whatever was known.
StrictRow(h) == [Row(h) EXCEPT !.evidence.cost = IF @ = Unknown THEN 0 ELSE @]

OldTables ==
  {Table("strict", {StrictRow(h) : h \in History}), Table("nullable", {Row(h) : h \in History})}

\* The context table, and the trace table its foreign key names.
NoContexts == [parent |-> "none", rows |-> {}]

\* Databases of earlier schema versions: the cost column was mandatory, and
\* the usage table may not exist yet.  A database already upgraded is one too.
OldDatabases ==
  { [ traces |-> traces, traces_legacy |-> NoTable, usage |-> usage, usage_legacy |-> NoTable,
      contexts |-> NoContexts ] : traces \in OldTables, usage \in OldTables \cup {NoTable} }

-----------------------------------------------------------------------------
(* Statements *)

Goto(p, next) == step' = [step EXCEPT ![p] = next]

View(p) == IF writer = p THEN draft ELSE disk

\* A statement that writes.  It waits for another writer; outside a
\* transaction DDL is committed at once, DML opens one.
Write(p, kind, tables) ==
  /\ writer \in {Nobody, p}
  /\ draft' = tables
  /\ IF writer = p \/ kind = "dml" THEN writer' = p /\ UNCHANGED disk
                                   ELSE disk' = tables /\ UNCHANGED writer
  /\ UNCHANGED histories

\* A whole transaction of one process, which begins and commits it.
Transaction(p, tables) ==
  /\ writer = Nobody
  /\ disk' = tables /\ draft' = tables
  /\ UNCHANGED writer

\* Mutant: the transaction is left open.
AbandonOpen(p) ==
  /\ Goto(p, << "failed" >>)
  /\ failed' = TRUE
  /\ UNCHANGED << disk, draft, writer, calls, migrated, overlap, filed >>

\* The call raises, or the process dies: the open transaction is undone.
Abandon(p) ==
  /\ IF writer = p THEN draft' = disk /\ writer' = Nobody ELSE UNCHANGED << draft, writer >>
  /\ Goto(p, << "failed" >>)
  /\ failed' = TRUE
  /\ UNCHANGED << disk, calls, migrated, overlap, filed >>

-----------------------------------------------------------------------------
(* initialize *)

MigrationInit ==
  /\ disk \in OldDatabases /\ draft = disk
  /\ writer = Nobody
  /\ step = [p \in Processes |-> << "idle" >>]
  /\ calls = 0 /\ migrated = FALSE /\ failed = FALSE /\ overlap = FALSE
  /\ filed = [runs |-> {}, contexts |-> {}]

Active(p) == step[p][1] \notin {"idle", "done", "failed"}

Upgrading(p) == Active(p) /\ step[p][1] \notin {"open_contexts", "record_contexts"}

Initialize(p) ==
  /\ ~Active(p) /\ calls < MaxCalls
  /\ calls' = calls + 1
  /\ overlap' = (overlap \/ \E q \in Processes : Upgrading(q))
  /\ Goto(p, << "create", "traces" >>)
  /\ UNCHANGED << disk, draft, writer, migrated, failed, filed >>

\* CREATE TABLE IF NOT EXISTS: nothing is written when the table exists.
CreateIfMissing(p, t) ==
  IF Exists(View(p)[t]) THEN UNCHANGED << disk, draft, writer, histories >>
  ELSE Write(p, "ddl", [View(p) EXCEPT ![t] = Table("nullable", {})])

CreateTable(p, t) ==
  /\ step[p] = << "create", t >>
  /\ CreateIfMissing(p, t)
  /\ Goto(p, << "inspect", t >>)

\* Mutant: the usage rows are not backfilled.
AfterTableDowngrade(t) == IF t = "traces" THEN << "create", "usage" >> ELSE << "downgrade" >>

AfterTable(t) == IF t = "traces" THEN << "create", "usage" >> ELSE << "backfill" >>

\* _ensure_columns and _column_is_not_null: both fail on a missing table.
InspectTable(p, t) ==
  LET schema == View(p)[t].schema
  IN  /\ step[p] = << "inspect", t >>
      /\ schema # "absent"
      /\ Goto(p, IF schema = "strict" THEN << "rename", t >> ELSE AfterTable(t))
      /\ UNCHANGED << disk, draft, writer, histories >>

\* With foreign keys on, a RENAME rewrites the references to the table.
ReferencesRenamed(contexts, t) ==
  IF contexts.parent = t THEN [contexts EXCEPT !.parent = Legacy[t]] ELSE contexts

\* ALTER TABLE ... RENAME TO ..._legacy_cost.
RenameTable(p, t) ==
  LET tables == View(p)
  IN  /\ step[p] = << "rename", t >>
      /\ Exists(tables[t]) /\ ~Exists(tables[Legacy[t]])
      /\ Write(p, "ddl", [tables EXCEPT ![Legacy[t]] = tables[t], ![t] = NoTable,
                                        !.contexts = ReferencesRenamed(@, t)])
      /\ Goto(p, << "recreate", t >>)

RecreateTable(p, t) ==
  /\ step[p] = << "recreate", t >>
  /\ CreateIfMissing(p, t)
  /\ Goto(p, << "copy", t >>)

\* Mutant: only the rows with evidence are carried over.
CopiedEvidence(legacy) == {row \in legacy.rows : ~AmbiguousLegacy(row.evidence)}

\* INSERT ... SELECT: every legacy row, cost NULL unless it claims one.
CopiedRows(legacy) ==
  {[row EXCEPT !.evidence = IF @.complete THEN @ ELSE WithoutCost(@)] : row \in legacy.rows}

CopyRows(p, t) ==
  LET tables == View(p)
  IN  /\ step[p] = << "copy", t >>
      /\ Exists(tables[t]) /\ Exists(tables[Legacy[t]])
      /\ RowIds(tables[t]) \cap RowIds(tables[Legacy[t]]) = {}
      /\ Write(p, "dml", [tables EXCEPT ![t].rows = @ \cup CopiedRows(tables[Legacy[t]])])
      /\ Goto(p, << "drop", t >>)

\* With foreign keys on, a DROP deletes the rows first, and what hangs off them.
OrphansDropped(contexts, table) ==
  IF contexts.parent = table THEN [contexts EXCEPT !.rows = {}] ELSE contexts

\* DROP TABLE, in the transaction the copy opened.
DropLegacy(p, t) ==
  /\ step[p] = << "drop", t >>
  /\ Write(p, "ddl", [View(p) EXCEPT ![Legacy[t]] = NoTable,
                                     !.contexts = OrphansDropped(@, Legacy[t])])
  /\ Goto(p, AfterTable(t))

\* A statement finds the schema or the rows other than it needs them: no such
\* table, a table that already exists, a duplicate key.
StatementFails(p, t) ==
  LET tables == View(p)
  IN  /\ \/ step[p] = << "inspect", t >> /\ ~Exists(tables[t])
         \/ step[p] = << "rename", t >> /\ (~Exists(tables[t]) \/ Exists(tables[Legacy[t]]))
         \/ /\ step[p] = << "copy", t >>
            /\ \/ ~Exists(tables[t]) \/ ~Exists(tables[Legacy[t]])
               \/ RowIds(tables[t]) \cap RowIds(tables[Legacy[t]]) # {}
      /\ Abandon(p)

\* INSERT OR IGNORE of a usage row for every trace.
Backfill(p) ==
  LET tables == View(p)
  IN  /\ step[p] = << "backfill" >>
      /\ Exists(tables.usage) /\ Exists(tables.traces)
      /\ Write(p, "dml", [tables EXCEPT !.usage.rows =
           @ \cup {row \in tables.traces.rows : row.id \notin RowIds(tables.usage)}])
      /\ Goto(p, << "downgrade" >>)

BackfillFails(p) ==
  /\ step[p] = << "backfill" >>
  /\ ~Exists(View(p).usage) \/ ~Exists(View(p).traces)
  /\ Abandon(p)

\* Mutant: only the attempts without provenance are looked at.
DowngradedProvenance(rows) ==
  {[row EXCEPT !.evidence = ProvenanceDowngraded(@)] : row \in rows}

Downgraded(rows) ==
  {[row EXCEPT !.evidence = ProvenanceDowngraded(AmbiguityDowngraded(@))] : row \in rows}

\* The four UPDATE passes, all in the open transaction.
Downgrade(p) ==
  /\ step[p] = << "downgrade" >>
  /\ Write(p, "dml", [View(p) EXCEPT !.traces.rows = Downgraded(@),
                                     !.usage.rows = Downgraded(@)])
  /\ Goto(p, << "commit" >>)

CommitMigration(p) ==
  /\ step[p] = << "commit" >>
  /\ disk' = draft /\ writer' = Nobody
  /\ migrated' = TRUE
  /\ Goto(p, << "done" >>)
  /\ UNCHANGED << draft, calls, failed, overlap, filed >>

-----------------------------------------------------------------------------
(* record_run and record_contexts (BenchmarkLedger has their statements) *)

\* initialize has returned, and the run of p is recorded.
RecordRun(p) ==
  /\ step[p] = << "done" >> /\ p \notin filed.runs
  /\ Exists(disk.traces) /\ Exists(disk.usage)
  /\ Transaction(p, [disk EXCEPT !.traces.rows = @ \cup {Row(p)}, !.usage.rows = @ \cup {Row(p)}])
  /\ filed' = [filed EXCEPT !.runs = @ \cup {p}]
  /\ Goto(p, << "open_contexts" >>)
  /\ UNCHANGED << calls, migrated, failed, overlap >>

\* A table it inserts into is gone.
RecordRunFails(p) ==
  /\ step[p] = << "done" >> /\ p \notin filed.runs
  /\ ~Exists(disk.traces) \/ ~Exists(disk.usage)
  /\ Abandon(p)

\* Mutant: the context table is created before the ledger has upgraded.
OpenContextsFirst(p) ==
  /\ step[p] \in {<< "idle" >>, << "open_contexts" >>}
  /\ Transaction(p, IF disk.contexts = NoContexts
                      THEN [disk EXCEPT !.contexts.parent = "traces"] ELSE disk)
  /\ Goto(p, IF step[p] = << "idle" >> THEN step[p] ELSE << "record_contexts" >>)
  /\ UNCHANGED histories

\* SQLiteBenchmarkContextStore.initialize.
OpenContexts(p) ==
  /\ step[p] = << "open_contexts" >>
  /\ Transaction(p, IF disk.contexts = NoContexts
                      THEN [disk EXCEPT !.contexts.parent = "traces"] ELSE disk)
  /\ Goto(p, << "record_contexts" >>)
  /\ UNCHANGED histories

\* The trace must be in its table, and in the table the foreign key names.
ContextAccepted(p) ==
  p \in RowIds(disk.traces) /\ p \in RowIds(disk[disk.contexts.parent])

RecordContexts(p) ==
  /\ step[p] = << "record_contexts" >> /\ ContextAccepted(p)
  /\ Transaction(p, [disk EXCEPT !.contexts.rows = @ \cup {p}])
  /\ filed' = [filed EXCEPT !.contexts = @ \cup {p}]
  /\ Goto(p, << "done" >>)
  /\ UNCHANGED << calls, migrated, failed, overlap >>

ContextsFail(p) ==
  /\ step[p] = << "record_contexts" >> /\ ~ContextAccepted(p)
  /\ Abandon(p)

-----------------------------------------------------------------------------

\* The process dies, or waits for the write lock until the timeout.
Interrupted(p) == Active(p) /\ Abandon(p)

Migrate(p) ==
  \/ \E t \in {"traces", "usage"} :
       \/ CreateTable(p, t) \/ InspectTable(p, t)
       \/ RenameTable(p, t) \/ RecreateTable(p, t) \/ CopyRows(p, t) \/ DropLegacy(p, t)
       \/ StatementFails(p, t)
  \/ Backfill(p) \/ BackfillFails(p) \/ Downgrade(p) \/ CommitMigration(p)
  \/ OpenContexts(p) \/ RecordContexts(p) \/ ContextsFail(p)

MigrationNext == \E p \in Processes :
  Initialize(p) \/ RecordRun(p) \/ RecordRunFails(p) \/ Migrate(p) \/ Interrupted(p)

\* A live process executes its next statement.
MigrationSpec ==
  /\ MigrationInit /\ [][MigrationNext]_migrationVars
  /\ \A p \in Processes : WF_migrationVars(Migrate(p))

-----------------------------------------------------------------------------
(* Properties *)

\* Neither the upgrade nor what runs beside it ever destroys a recorded trace,
\* wherever it stops: each is in the trace table or in the renamed one, exactly
\* once.
HistoryIsNeverLost ==
  \A h \in History \cup filed.runs :
    (h \in RowIds(disk.traces)) # (h \in RowIds(disk.traces_legacy))

\* Contexts that were filed stay, and more can be filed, however often the
\* database is opened and wherever an upgrade stops, as long as no two upgrades
\* ran at once: a process that opens the context store has upgraded the
\* ledger first, so nobody renames the table its foreign key names.
ContextsSurvive ==
  ~overlap =>
    /\ filed.contexts \subseteq disk.contexts.rows
    /\ disk.contexts.parent \in {"none", "traces"}

\* A cost that the recorded evidence of a request proves: one priced attempt or
\* more, each with its price record; a single success without attempt records;
\* or no call at all.
ProvenCost(record) ==
  IF ~record.complete THEN Unknown
  ELSE CASE record.attempts # << >> ->
              IF \A i \in DOMAIN record.attempts : record.attempts[i].proven
                THEN Total(AttemptCosts(record.attempts)) ELSE Unknown
         [] record.attempts = << >> /\ record.attemptCount = 1 /\ record.error = NoError ->
              record.cost
         [] record.attempts = << >> /\ record.attemptCount = 0 -> 0
         [] OTHER -> Unknown

\* Once any initialize has returned, whoever reads a request, from a line of
\* the request log or from a row of the trace or of the usage table, gets the
\* same evidence, valid, with exactly the cost it proves ("fail-closed economic
\* provenance semantics"); not even another process rebuilding the table again
\* changes it.  Neither store exposes a route estimate without its quote.
EveryReaderSeesProvenCost ==
  /\ migrated =>
       \A t \in {"traces", "usage"} : \A row \in disk[t].rows :
         LET read == ReadRow(row.evidence)
         IN  /\ read = ReadLine(Recorded[row.id])
             /\ TraceIsValid(read)
             /\ read.cost = ProvenCost(Recorded[row.id])
  /\ \A route \in Routes :
       /\ RouteIsValid(ReadRouteLine(route))
       /\ ReadRouteRow(route) = ReadRouteLine(route)

\* The report a version of the program stored for a run: the sum of what its
\* traces claimed, with the flag that says so, or without it.
OldReport(run, flagged) ==
  LET complete == \A h \in run : Recorded[h].complete
      failures == {h \in run : Recorded[h].error # NoError}
      again == {h \in run : Recorded[h].attemptCount > 1}
  IN  [ flag |-> IF ~flagged THEN "absent" ELSE IF complete THEN "set" ELSE "cleared",
        cost |-> IF complete THEN Total([h \in run |-> Recorded[h].cost]) ELSE Unknown,
        failures |-> Cardinality(failures), retries |-> Cardinality(again) ]

\* Whatever run the historical requests formed and whichever version reported
\* it, once its rows are upgraded its report claims a cost only if the usage
\* summary of the run claims the same.
ReportsFollowTraces ==
  migrated =>
    \A run \in SUBSET (History \cap RowIds(disk.traces) \cap RowIds(disk.usage)) \ {{}} :
      LET evidence(t) == {row.evidence : row \in {r \in disk[t].rows : r.id \in run}}
          usage == [h \in run |->
                      ReadRow((CHOOSE row \in disk.usage.rows : row.id = h).evidence)]
      IN  \A flagged \in BOOLEAN :
            LET report == ReadReport(OldReport(run, flagged), evidence("traces"))
            IN  report.complete => UsageSummary(usage) = report

\* If no call of initialize failed, then when none is under way every recorded
\* request is in both tables that are read and no renamed table is left.
UpgradeWithoutFailureIsComplete ==
  migrated /\ ~failed /\ (\A p \in Processes : ~Active(p)) =>
    /\ RowIds(disk.traces) = History \cup filed.runs
    /\ RowIds(disk.usage) = History \cup filed.runs
    /\ ~Exists(disk.traces_legacy) /\ ~Exists(disk.usage_legacy)

\* Two processes that upgrade at once never wait for each other forever.
UpgradeEnds == \A p \in Processes : Active(p) ~> ~Active(p)

\* README: "Unknown cost must never be silently converted to zero": once a call
\* of initialize has returned and none is under way, the usage summary of a
\* historical run that claims a complete cost covers every request of the run.
SummaryCoversHistory ==
  migrated /\ (\A p \in Processes : ~Active(p)) /\ Exists(disk.usage) =>
    \A run \in SUBSET History \ {{}} :
      LET rows == {row \in disk.usage.rows : row.id \in run}
      IN  (\A row \in rows : ReadRow(row.evidence).complete) => {row.id : row \in rows} = run
=============================================================================
