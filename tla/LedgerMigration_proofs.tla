------------------------ MODULE LedgerMigration_proofs ------------------------
(***************************************************************************)
(* Proofs about LedgerMigration, for any number of processes, any history, *)
(* any number of calls and failures, and every interleaving of statements. *)
(*                                                                         *)
(* Every statement of a process that may write works on the draft (the     *)
(* draft is the disk when no transaction is open), and the disk is always  *)
(* a draft that was once committed.  So the invariants describe the draft, *)
(* with the one window in which it is not whole: between the copy of the   *)
(* trace table and the drop of the renamed one, which the same transaction *)
(* holds.                                                                  *)
(***************************************************************************)
EXTENDS LedgerMigration, Evidence_proofs

-----------------------------------------------------------------------------
(* Tables and steps *)

\* Every request that is on record.
OnRecord == History \cup filed.runs

RowTables == {"traces", "traces_legacy", "usage", "usage_legacy"}

Rebuilt == {"traces", "usage"}

EvidenceType ==
  [ attempts : Seq([cost : Nat \cup {Unknown}, proven : BOOLEAN]), attemptCount : Nat,
    error : STRING, cost : Nat \cup {Unknown}, complete : BOOLEAN ]

RowType == [id : History \cup Processes, evidence : EvidenceType]

\* Tables of the database: an absent one has no rows.
IsDatabase(T) ==
  /\ DOMAIN T = RowTables \cup {"contexts"}
  /\ DOMAIN T.contexts = {"parent", "rows"}
  /\ \A n \in RowTables :
       /\ DOMAIN T[n] = {"schema", "rows"}
       /\ T[n].schema \in {"absent", "strict", "nullable"}
       /\ T[n].rows \subseteq RowType
       /\ T[n].schema = "absent" => T[n].rows = {}

\* Every request on record has its trace in one of two tables.
Whole(T) ==
  /\ RowIds(T.traces) \cup RowIds(T.traces_legacy) = OnRecord
  /\ RowIds(T.traces) \cap RowIds(T.traces_legacy) = {}

RebuildSteps == {"create", "inspect", "rename", "recreate", "copy", "drop"}

Steps ==
  { << "idle" >>, << "backfill" >>, << "downgrade" >>, << "commit" >>, << "done" >>,
    << "failed" >>, << "open_contexts" >>, << "record_contexts" >> }
  \cup (RebuildSteps \X Rebuilt)

\* Where a process may be while it holds the write transaction.
Held ==
  {<< "drop", "traces" >>, << "backfill" >>, << "downgrade" >>, << "commit" >>}
  \cup (RebuildSteps \X {"usage"})

CopiedTraces == << "drop", "traces" >>

\* Statements, the write transaction, and where the traces are.
HistoryInv ==
  /\ step \in [Processes -> Steps] /\ writer \in Processes \cup {Nobody}
  /\ DOMAIN filed = {"runs", "contexts"} /\ filed.runs \subseteq Processes
  /\ IsDatabase(disk) /\ IsDatabase(draft)
  /\ writer = Nobody => draft = disk
  /\ \A p \in Processes :
       /\ writer = p => step[p] \in Held
       /\ step[p][1] \in {"drop", "downgrade", "commit"} => writer = p
       /\ step[p] = CopiedTraces => RowIds(draft.traces) = OnRecord
  /\ Whole(disk)
  /\ (\A p \in Processes : step[p] # CopiedTraces) => Whole(draft)

\* A process that can write sees the draft, and unless it is itself between
\* copy and drop the draft is whole.
LEMMA WriterSeesDraft ==
  ASSUME HistoryInv, NEW p \in Processes, writer \in {Nobody, p}
  PROVE  View(p) = draft /\ (step[p] # CopiedTraces => Whole(draft))
  BY MigrationAssumption DEF HistoryInv, View, CopiedTraces

\* A statement that writes has the transaction, or waited for it.
LEMMA WriteWaits ==
  ASSUME NEW p, NEW kind, NEW tables, Write(p, kind, tables)
  PROVE  writer \in {Nobody, p}
  BY DEF Write

\* The move of one process.
LEMMA GotoType ==
  ASSUME HistoryInv, NEW p \in Processes, NEW next \in Steps, Goto(p, next)
  PROVE  /\ step' \in [Processes -> Steps] /\ step'[p] = next
         /\ \A q \in Processes \ {p} : step'[q] = step[q]
  BY DEF HistoryInv, Goto

\* Moving on without a statement that writes.
LEMMA MoveKeepsHistory ==
  ASSUME HistoryInv, NEW p \in Processes, NEW next \in Steps, Goto(p, next),
         UNCHANGED << disk, draft, writer, filed >>,
         writer = p => next \in Held,
         next[1] \in {"drop", "downgrade", "commit"} => writer = p,
         step[p] # CopiedTraces, next # CopiedTraces
  PROVE  HistoryInv'
  <1>1. /\ step' \in [Processes -> Steps] /\ step'[p] = next
        /\ \A q \in Processes \ {p} : step'[q] = step[q]
    BY GotoType
  <1>2. OnRecord' = OnRecord
    BY DEF OnRecord
  <1>3. (\A q \in Processes : step'[q] # CopiedTraces) => Whole(draft)
    BY <1>1 DEF HistoryInv
  <1> QED
    BY <1>1, <1>2, <1>3 DEF HistoryInv, Whole

\* A statement that writes keeps the history if the tables it leaves do.
LEMMA WriteKeepsHistory ==
  ASSUME HistoryInv, NEW p \in Processes, NEW next \in Steps, Goto(p, next),
         NEW kind, NEW tables, Write(p, kind, tables), IsDatabase(tables),
         writer = p \/ kind = "dml" => next \in Held,
         next[1] \in {"drop", "downgrade", "commit"} => writer = p \/ kind = "dml",
         next = CopiedTraces => RowIds(tables.traces) = OnRecord,
         next # CopiedTraces => Whole(tables)
  PROVE  HistoryInv'
  <1>1. /\ step' \in [Processes -> Steps] /\ step'[p] = next
        /\ \A q \in Processes \ {p} : step'[q] = step[q]
    BY GotoType
  <1>2. /\ writer \in {Nobody, p} /\ draft' = tables /\ UNCHANGED filed
        /\ writer' \in {writer, p} /\ disk' \in {disk, tables}
        /\ writer = p \/ kind = "dml" => writer' = p /\ disk' = disk
        /\ ~(writer = p \/ kind = "dml") => writer' = Nobody /\ disk' = tables
    BY DEF Write, histories
  <1>3. OnRecord' = OnRecord /\ (\A T : Whole(T)' <=> Whole(T))
    BY <1>2 DEF OnRecord, Whole
  <1>4. \A q \in Processes \ {p} :
          /\ writer' # q /\ step[q][1] \notin {"drop", "downgrade", "commit"}
          /\ step[q] # CopiedTraces
    BY <1>2, MigrationAssumption DEF HistoryInv, CopiedTraces
  <1>5. \A q \in Processes :
          /\ writer' = q => step'[q] \in Held
          /\ step'[q][1] \in {"drop", "downgrade", "commit"} => writer' = q
          /\ step'[q] = CopiedTraces => RowIds(tables.traces) = OnRecord
    BY <1>1, <1>2, <1>4, MigrationAssumption
  <1>6. Whole(disk')
    <2>1. CASE writer = p \/ kind = "dml"
      BY <1>2, <2>1 DEF HistoryInv
    <2>2. CASE ~(writer = p \/ kind = "dml")
      BY <1>2, <2>2 DEF CopiedTraces
    <2> QED
      BY <2>1, <2>2
  <1>7. (\A q \in Processes : step'[q] # CopiedTraces) => Whole(draft')
    BY <1>1, <1>2
  <1>8. IsDatabase(disk') /\ IsDatabase(draft') /\ writer' \in Processes \cup {Nobody}
    BY <1>2 DEF HistoryInv
  <1>9. writer' = Nobody => draft' = disk'
    BY <1>2, MigrationAssumption
  <1>10. DOMAIN filed' = {"runs", "contexts"} /\ filed'.runs \subseteq Processes
    BY <1>2 DEF HistoryInv
  <1>11. Whole(disk)' /\ ((\A q \in Processes : step'[q] # CopiedTraces) => Whole(draft)')
    BY <1>3, <1>6, <1>7 DEF Whole
  <1> QED
    BY <1>1, <1>2, <1>3, <1>5, <1>8, <1>9, <1>10, <1>11 DEF HistoryInv, IsDatabase

\* What is abandoned is forgotten: the disk is what it was.
LEMMA AbandonKeepsHistory ==
  ASSUME HistoryInv, NEW p \in Processes, Abandon(p)
  PROVE  HistoryInv'
  <1>1. << "failed" >> \in Steps /\ Goto(p, << "failed" >>)
    BY DEF Steps, Abandon
  <1>2. /\ step' \in [Processes -> Steps] /\ step'[p] = << "failed" >>
        /\ \A q \in Processes \ {p} : step'[q] = step[q]
    BY <1>1, GotoType
  <1>3. UNCHANGED << disk, filed >> /\ OnRecord' = OnRecord
    BY DEF Abandon, OnRecord
  <1>4. CASE writer = p
    <2>1. writer' = Nobody /\ draft' = disk
      BY <1>4 DEF Abandon
    <2>2. \A q \in Processes : step'[q][1] \notin {"drop", "downgrade", "commit"}
      BY <1>2, <1>4 DEF HistoryInv
    <2> QED
      BY <1>2, <1>3, <2>1, <2>2, MigrationAssumption DEF HistoryInv, Whole, CopiedTraces
  <1>5. CASE writer # p
    <2>1. UNCHANGED << draft, writer >>
      BY <1>5 DEF Abandon
    <2>2. step[p] # CopiedTraces
      BY <1>5 DEF HistoryInv, CopiedTraces
    <2> QED
      BY <1>2, <1>3, <1>5, <2>1, <2>2 DEF HistoryInv, Whole, CopiedTraces
  <1> QED
    BY <1>4, <1>5
-----------------------------------------------------------------------------
(* The statements on the tables *)

\* The tables as each statement that writes leaves them.
Created(T, t) == [T EXCEPT ![t] = Table("nullable", {})]

Renamed(T, t) ==
  [T EXCEPT ![Legacy[t]] = T[t], ![t] = NoTable, !.contexts = ReferencesRenamed(@, t)]

Copied(T, t) == [T EXCEPT ![t].rows = @ \cup CopiedRows(T[Legacy[t]])]

Dropped(T, t) == [T EXCEPT ![Legacy[t]] = NoTable, !.contexts = OrphansDropped(@, Legacy[t])]

Backfilled(T) ==
  [T EXCEPT !.usage.rows = @ \cup {row \in T.traces.rows : row.id \notin RowIds(T.usage)}]

DowngradedBoth(T) == [T EXCEPT !.traces.rows = Downgraded(@), !.usage.rows = Downgraded(@)]

WithRun(T, p) == [T EXCEPT !.traces.rows = @ \cup {Row(p)}, !.usage.rows = @ \cup {Row(p)}]

WithContextTable(T) ==
  IF T.contexts = NoContexts THEN [T EXCEPT !.contexts.parent = "traces"] ELSE T

WithContext(T, p) == [T EXCEPT !.contexts.rows = @ \cup {p}]

\* The renamed tables are tables of their own.
LEMMA LegacyNames ==
  ASSUME NEW t \in Rebuilt
  PROVE  /\ t \in RowTables /\ Legacy[t] \in RowTables \ Rebuilt /\ Legacy[t] # "contexts"
         /\ t = "traces" <=> Legacy[t] = "traces_legacy"
  BY DEF Rebuilt, RowTables, Legacy

\* Where a step of a table leads.
LEMMA TableSteps ==
  ASSUME NEW t \in Rebuilt
  PROVE  /\ \A s \in RebuildSteps : << s, t >> \in Steps
         /\ AfterTable(t) \in Steps /\ AfterTable(t) # CopiedTraces
         /\ AfterTable(t)[1] \notin {"drop", "downgrade", "commit"}
         /\ AfterTable(t) \in Held
  BY DEF Rebuilt, RebuildSteps, Steps, AfterTable, Held, CopiedTraces

\* Creating a table that is missing.
LEMMA CreatedTable ==
  ASSUME NEW T, IsDatabase(T), NEW t \in Rebuilt, ~Exists(T[t])
  PROVE  /\ IsDatabase(Created(T, t)) /\ RowIds(Created(T, t).traces) = RowIds(T.traces)
         /\ Created(T, t).traces_legacy = T.traces_legacy
  BY DEF Created, IsDatabase, RowTables, Rebuilt, Exists, Table, RowIds

\* Renaming a table moves its rows.
LEMMA RenamedTable ==
  ASSUME NEW T, IsDatabase(T), NEW t \in Rebuilt, Exists(T[t]), ~Exists(T[Legacy[t]]),
         Whole(T)
  PROVE  IsDatabase(Renamed(T, t)) /\ Whole(Renamed(T, t))
  <1> DEFINE U == Renamed(T, t)
  <1>1. CASE t = "traces"
    <2>1. /\ Legacy[t] = "traces_legacy"
          /\ U.traces = NoTable /\ U.traces_legacy = T.traces
          /\ U.usage = T.usage /\ U.usage_legacy = T.usage_legacy
          /\ U.contexts = ReferencesRenamed(T.contexts, t) /\ DOMAIN U = DOMAIN T
      BY <1>1 DEF Renamed, Legacy, IsDatabase, RowTables
    <2>2. DOMAIN U.contexts = {"parent", "rows"}
      BY <2>1 DEF ReferencesRenamed, IsDatabase
    <2>3. IsDatabase(U)
      BY <2>1, <2>2 DEF IsDatabase, RowTables, NoTable
    <2>4. RowIds(U.traces) = {} /\ RowIds(T.traces_legacy) = {}
      BY <2>1, <1>1 DEF RowIds, NoTable, IsDatabase, RowTables, Exists
    <2> QED
      BY <2>1, <2>3, <2>4 DEF Whole
  <1>2. CASE t = "usage"
    <2>1. /\ Legacy[t] = "usage_legacy"
          /\ U.usage = NoTable /\ U.usage_legacy = T.usage
          /\ U.traces = T.traces /\ U.traces_legacy = T.traces_legacy
          /\ U.contexts = ReferencesRenamed(T.contexts, t) /\ DOMAIN U = DOMAIN T
      BY <1>2 DEF Renamed, Legacy, IsDatabase, RowTables
    <2>2. DOMAIN U.contexts = {"parent", "rows"}
      BY <2>1 DEF ReferencesRenamed, IsDatabase
    <2>3. IsDatabase(U)
      BY <2>1, <2>2 DEF IsDatabase, RowTables, NoTable
    <2> QED
      BY <2>1, <2>3 DEF Whole
  <1> QED
    BY <1>1, <1>2 DEF Rebuilt

\* Normalized attempts are attempts.
LEMMA NormalizedType ==
  ASSUME NEW attempts \in Seq([cost : Nat \cup {Unknown}, proven : BOOLEAN])
  PROVE  Normalized(attempts) \in Seq([cost : Nat \cup {Unknown}, proven : BOOLEAN])
  <1> DEFINE A == [cost : Nat \cup {Unknown}, proven : BOOLEAN]
  <1>1. attempts \in Seq(A) /\ \A a \in A : NormalizedAttempt(a) \in A
    BY DEF NormalizedAttempt
  <1> HIDE DEF A
  <1>2. DOMAIN attempts = 1..Len(attempts) /\ Len(attempts) \in Nat
    BY <1>1
  <1>3. \A i \in 1..Len(attempts) : attempts[i] \in A
    BY <1>1
  <1>4. Normalized(attempts) = [i \in 1..Len(attempts) |-> NormalizedAttempt(attempts[i])]
    BY <1>2 DEF Normalized
  <1> QED
    BY <1>1, <1>2, <1>3, <1>4 DEF A

\* What the statements make of evidence is evidence.
LEMMA EvidenceStays ==
  ASSUME NEW x \in EvidenceType
  PROVE  /\ WithoutCost(x) \in EvidenceType
         /\ AmbiguityDowngraded(x) \in EvidenceType
         /\ ProvenanceDowngraded(x) \in EvidenceType
  <1>1. WithoutCost(x) \in EvidenceType
    BY DEF EvidenceType, WithoutCost
  <1>2. AmbiguityDowngraded(x) \in EvidenceType
    BY <1>1 DEF AmbiguityDowngraded
  <1>5. Normalized(x.attempts) \in Seq([cost : Nat \cup {Unknown}, proven : BOOLEAN])
    BY NormalizedType DEF EvidenceType
  <1>6. [WithoutCost(x) EXCEPT !.attempts = Normalized(@)] \in EvidenceType
    BY <1>5 DEF EvidenceType, WithoutCost
  <1>7. ProvenanceDowngraded(x) \in EvidenceType
    BY <1>6 DEF ProvenanceDowngraded
  <1> QED
    BY <1>1, <1>2, <1>7

\* What was recorded is evidence, in either kind of table.
LEMMA RecordedRows ==
  ASSUME NEW h \in History \cup Processes
  PROVE  Row(h) \in RowType /\ StrictRow(h) \in RowType
  <1>1. Recorded[h] \in EvidenceType
    BY MigrationAssumption, RecordedAssumption DEF EvidenceType
  <1>2. Row(h) \in RowType
    BY <1>1 DEF Row, RowType
  <1> QED
    BY <1>2 DEF StrictRow, RowType, EvidenceType

\* Copied rows are the rows of the legacy table, by request.
LEMMA CopiedIds ==
  ASSUME NEW L, L.rows \subseteq RowType
  PROVE  CopiedRows(L) \subseteq RowType /\ {row.id : row \in CopiedRows(L)} = RowIds(L)
  <1> DEFINE CopyOf(row) == [row EXCEPT !.evidence = IF @.complete THEN @ ELSE WithoutCost(@)]
  <1>1. \A row \in L.rows : CopyOf(row) \in RowType /\ CopyOf(row).id = row.id
    BY EvidenceStays DEF RowType
  <1>2. CopiedRows(L) = {CopyOf(row) : row \in L.rows}
    BY DEF CopiedRows
  <1> HIDE DEF CopyOf
  <1> QED
    BY <1>1, <1>2 DEF RowIds

\* So are downgraded rows.
LEMMA DowngradedIds ==
  ASSUME NEW R, R \subseteq RowType
  PROVE  Downgraded(R) \subseteq RowType /\ {row.id : row \in Downgraded(R)} = {row.id : row \in R}
  <1> DEFINE Down(row) == [row EXCEPT !.evidence = ProvenanceDowngraded(AmbiguityDowngraded(@))]
  <1>1. \A row \in R : Down(row) \in RowType /\ Down(row).id = row.id
    BY EvidenceStays DEF RowType
  <1>2. Downgraded(R) = {Down(row) : row \in R}
    BY DEF Downgraded
  <1> HIDE DEF Down
  <1> QED
    BY <1>1, <1>2

\* Copying appends the rows of the renamed table.
LEMMA CopiedTable ==
  ASSUME NEW T, IsDatabase(T), NEW t \in Rebuilt, Exists(T[t])
  PROVE  /\ IsDatabase(Copied(T, t))
         /\ RowIds(Copied(T, t)[t]) = RowIds(T[t]) \cup RowIds(T[Legacy[t]])
         /\ \A n \in RowTables \ {t} : Copied(T, t)[n] = T[n]
  <1> DEFINE U == Copied(T, t)
  <1>1. t \in RowTables /\ Legacy[t] \in RowTables
    BY DEF Rebuilt, RowTables, Legacy
  <1>2. T[Legacy[t]].rows \subseteq RowType
    BY <1>1 DEF IsDatabase
  <1>3. /\ CopiedRows(T[Legacy[t]]) \subseteq RowType
        /\ {row.id : row \in CopiedRows(T[Legacy[t]])} = RowIds(T[Legacy[t]])
    BY <1>2, CopiedIds
  <1>4. /\ DOMAIN U = DOMAIN T /\ \A n \in DOMAIN T \ {t} : U[n] = T[n]
        /\ U[t] = [T[t] EXCEPT !.rows = @ \cup CopiedRows(T[Legacy[t]])]
    BY <1>1 DEF Copied, IsDatabase
  <1>5. /\ DOMAIN U[t] = {"schema", "rows"} /\ U[t].schema = T[t].schema
        /\ U[t].rows = T[t].rows \cup CopiedRows(T[Legacy[t]])
    BY <1>1, <1>4 DEF IsDatabase
  <1>6. RowIds(U[t]) = RowIds(T[t]) \cup RowIds(T[Legacy[t]])
    BY <1>3, <1>5 DEF RowIds
  <1>7. \A n \in RowTables \ {t} : U[n] = T[n]
    BY <1>4 DEF IsDatabase
  <1>8. U.contexts = T.contexts
    BY <1>1, <1>4 DEF IsDatabase, RowTables
  <1>9. IsDatabase(U)
    BY <1>1, <1>3, <1>4, <1>5, <1>7, <1>8 DEF IsDatabase, Exists
  <1> QED
    BY <1>6, <1>7, <1>9

\* Dropping a renamed table.
LEMMA DroppedTable ==
  ASSUME NEW T, IsDatabase(T), NEW t \in Rebuilt
  PROVE  /\ IsDatabase(Dropped(T, t)) /\ Dropped(T, t)[Legacy[t]] = NoTable
         /\ \A n \in RowTables \ {Legacy[t]} : Dropped(T, t)[n] = T[n]
  <1> DEFINE U == Dropped(T, t)
  <1>1. Legacy[t] \in RowTables /\ Legacy[t] # "contexts"
    BY LegacyNames
  <1>2. /\ DOMAIN U = DOMAIN T /\ U[Legacy[t]] = NoTable
        /\ U.contexts = OrphansDropped(T.contexts, Legacy[t])
        /\ \A n \in RowTables \ {Legacy[t]} : U[n] = T[n]
    BY <1>1 DEF Dropped, IsDatabase, RowTables
  <1>3. DOMAIN U.contexts = {"parent", "rows"}
    BY <1>2 DEF OrphansDropped, IsDatabase
  <1>4. \A n \in RowTables : U[n] = NoTable \/ U[n] = T[n]
    BY <1>2
  <1>5. NoTable.schema = "absent" /\ NoTable.rows = {} /\ DOMAIN NoTable = {"schema", "rows"}
    BY DEF NoTable
  <1> HIDE DEF NoTable
  <1>6. IsDatabase(U)
    <2>1. ASSUME NEW n \in RowTables
          PROVE  /\ DOMAIN U[n] = {"schema", "rows"}
                 /\ U[n].schema \in {"absent", "strict", "nullable"}
                 /\ U[n].rows \subseteq RowType
                 /\ U[n].schema = "absent" => U[n].rows = {}
      BY <1>4, <1>5 DEF IsDatabase
    <2> QED
      BY <1>2, <1>3, <2>1 DEF IsDatabase
  <1> QED
    BY <1>2, <1>6

\* Filling the usage table up.
LEMMA BackfilledTable ==
  ASSUME NEW T, IsDatabase(T), Exists(T.usage)
  PROVE  /\ IsDatabase(Backfilled(T))
         /\ \A n \in RowTables \ {"usage"} : Backfilled(T)[n] = T[n]
         /\ RowIds(Backfilled(T).usage) = RowIds(T.usage) \cup RowIds(T.traces)
         /\ Backfilled(T).usage.rows \subseteq T.usage.rows \cup T.traces.rows
  <1> DEFINE U == Backfilled(T)
  <1>1. /\ DOMAIN U = DOMAIN T /\ U.contexts = T.contexts
        /\ \A n \in RowTables \ {"usage"} : U[n] = T[n]
        /\ DOMAIN U.usage = {"schema", "rows"} /\ U.usage.schema = T.usage.schema
        /\ U.usage.rows = T.usage.rows
             \cup {row \in T.traces.rows : row.id \notin RowIds(T.usage)}
    BY DEF Backfilled, IsDatabase, RowTables
  <1>2. "traces" \in RowTables /\ "usage" \in RowTables
    BY DEF RowTables
  <1>3. IsDatabase(U)
    BY <1>1, <1>2 DEF IsDatabase, Exists
  <1>4. RowIds(U.usage) = RowIds(T.usage) \cup RowIds(T.traces)
    <2>1. RowIds(U.usage) = RowIds(T.usage)
            \cup {row.id : row \in {r \in T.traces.rows : r.id \notin RowIds(T.usage)}}
      BY <1>1 DEF RowIds
    <2>2. ASSUME NEW i \in RowIds(T.traces), i \notin RowIds(T.usage)
          PROVE  i \in {row.id : row \in {r \in T.traces.rows : r.id \notin RowIds(T.usage)}}
      BY <2>2 DEF RowIds
    <2>3. {row.id : row \in {r \in T.traces.rows : r.id \notin RowIds(T.usage)}}
            \subseteq RowIds(T.traces)
      BY DEF RowIds
    <2> QED
      BY <2>1, <2>2, <2>3
  <1> QED
    BY <1>1, <1>3, <1>4

\* Downgrading the rows of both tables.
LEMMA DowngradedTables ==
  ASSUME NEW T, IsDatabase(T)
  PROVE  /\ IsDatabase(DowngradedBoth(T))
         /\ \A n \in RowTables : RowIds(DowngradedBoth(T)[n]) = RowIds(T[n])
         /\ DowngradedBoth(T).traces_legacy = T.traces_legacy
         /\ DowngradedBoth(T).usage_legacy = T.usage_legacy
         /\ \A t \in Rebuilt :
              /\ DowngradedBoth(T)[t].rows = Downgraded(T[t].rows)
              /\ DowngradedBoth(T)[t].schema = T[t].schema
         /\ DowngradedBoth(T).contexts = T.contexts
  <1> DEFINE U == DowngradedBoth(T)
  <1>1. /\ DOMAIN U = DOMAIN T /\ U.contexts = T.contexts
        /\ U.traces_legacy = T.traces_legacy /\ U.usage_legacy = T.usage_legacy
        /\ \A t \in Rebuilt :
             /\ DOMAIN U[t] = {"schema", "rows"} /\ U[t].schema = T[t].schema
             /\ U[t].rows = Downgraded(T[t].rows)
    BY DEF DowngradedBoth, IsDatabase, RowTables, Rebuilt
  <1>2. \A n \in RowTables : T[n].rows \subseteq RowType
    BY DEF IsDatabase
  <1>3. \A t \in Rebuilt : U[t].rows \subseteq RowType /\ RowIds(U[t]) = RowIds(T[t])
    <2> SUFFICES ASSUME NEW t \in Rebuilt
                 PROVE  U[t].rows \subseteq RowType /\ RowIds(U[t]) = RowIds(T[t])
      OBVIOUS
    <2>1. T[t].rows \subseteq RowType
      BY <1>2, LegacyNames
    <2>2. U[t].rows = Downgraded(T[t].rows)
      BY <1>1
    <2> QED
      BY <2>1, <2>2, DowngradedIds DEF RowIds
  <1>4. RowTables = Rebuilt \cup {"traces_legacy", "usage_legacy"} /\ Rebuilt \subseteq RowTables
    BY DEF RowTables, Rebuilt
  <1>5. \A n \in RowTables : RowIds(U[n]) = RowIds(T[n])
    BY <1>1, <1>3, <1>4
  <1>6. Downgraded({}) = {}
    BY DEF Downgraded
  <1>7. ASSUME NEW n \in RowTables
        PROVE  /\ DOMAIN U[n] = {"schema", "rows"}
               /\ U[n].schema \in {"absent", "strict", "nullable"}
               /\ U[n].rows \subseteq RowType
               /\ U[n].schema = "absent" => U[n].rows = {}
    <2>1. CASE n \in Rebuilt
      <3>1. /\ T[n].schema \in {"absent", "strict", "nullable"}
            /\ T[n].schema = "absent" => T[n].rows = {}
        BY DEF IsDatabase
      <3>2. /\ DOMAIN U[n] = {"schema", "rows"} /\ U[n].schema = T[n].schema
            /\ U[n].rows = Downgraded(T[n].rows) /\ U[n].rows \subseteq RowType
        BY <1>1, <1>3, <2>1
      <3> QED
        BY <1>6, <3>1, <3>2
    <2>2. CASE n \in {"traces_legacy", "usage_legacy"}
      BY <1>1, <2>2 DEF IsDatabase
    <2> QED
      BY <1>4, <2>1, <2>2
  <1>8. IsDatabase(U)
    BY <1>1, <1>7 DEF IsDatabase
  <1> QED
    BY <1>1, <1>5, <1>8

\* The rows of a run.
LEMMA RunTables ==
  ASSUME NEW T, IsDatabase(T), Exists(T.traces), Exists(T.usage), NEW p \in Processes
  PROVE  /\ IsDatabase(WithRun(T, p))
         /\ WithRun(T, p).contexts = T.contexts
         /\ WithRun(T, p).traces_legacy = T.traces_legacy
         /\ WithRun(T, p).usage_legacy = T.usage_legacy
         /\ \A t \in Rebuilt :
              /\ WithRun(T, p)[t].rows = T[t].rows \cup {Row(p)}
              /\ WithRun(T, p)[t].schema = T[t].schema
              /\ RowIds(WithRun(T, p)[t]) = RowIds(T[t]) \cup {p}
  <1> DEFINE U == WithRun(T, p)
  <1>1. /\ DOMAIN U = DOMAIN T /\ U.contexts = T.contexts
        /\ U.traces_legacy = T.traces_legacy /\ U.usage_legacy = T.usage_legacy
        /\ \A t \in Rebuilt :
             /\ DOMAIN U[t] = {"schema", "rows"} /\ U[t].schema = T[t].schema
             /\ U[t].rows = T[t].rows \cup {Row(p)}
    BY DEF WithRun, IsDatabase, RowTables, Rebuilt
  <1>2. Row(p) \in RowType /\ Row(p).id = p
    BY RecordedRows DEF Row
  <1>3. \A t \in Rebuilt : RowIds(U[t]) = RowIds(T[t]) \cup {p}
    BY <1>1, <1>2 DEF RowIds
  <1>4. RowTables = Rebuilt \cup {"traces_legacy", "usage_legacy"} /\ Rebuilt \subseteq RowTables
    BY DEF RowTables, Rebuilt
  <1>5. ASSUME NEW n \in RowTables
        PROVE  /\ DOMAIN U[n] = {"schema", "rows"}
               /\ U[n].schema \in {"absent", "strict", "nullable"}
               /\ U[n].rows \subseteq RowType
               /\ U[n].schema = "absent" => U[n].rows = {}
    <2>1. CASE n \in Rebuilt
      <3>1. T[n].rows \subseteq RowType /\ T[n].schema \in {"strict", "nullable"}
        BY <2>1 DEF IsDatabase, Rebuilt, Exists
      <3> QED
        BY <1>1, <1>2, <2>1, <3>1
    <2>2. CASE n \in {"traces_legacy", "usage_legacy"}
      BY <1>1, <2>2 DEF IsDatabase
    <2> QED
      BY <1>4, <2>1, <2>2
  <1>6. IsDatabase(U)
    BY <1>1, <1>5 DEF IsDatabase
  <1> QED
    BY <1>1, <1>3, <1>6

\* Only the contexts of the database change.
LEMMA ContextTables ==
  ASSUME NEW T, IsDatabase(T), NEW p
  PROVE  /\ IsDatabase(WithContextTable(T)) /\ IsDatabase(WithContext(T, p))
         /\ \A n \in RowTables : WithContextTable(T)[n] = T[n] /\ WithContext(T, p)[n] = T[n]
         /\ WithContextTable(T).contexts.rows = T.contexts.rows
         /\ WithContextTable(T).contexts.parent
              = IF T.contexts = NoContexts THEN "traces" ELSE T.contexts.parent
         /\ WithContext(T, p).contexts.rows = T.contexts.rows \cup {p}
         /\ WithContext(T, p).contexts.parent = T.contexts.parent
  BY DEF WithContextTable, WithContext, IsDatabase, RowTables

-----------------------------------------------------------------------------
(* What the statements of a process do to the draft *)

\* A rename is written to the draft, before any transaction of its own is open.
LEMMA RenameWrites ==
  ASSUME HistoryInv, NEW p \in Processes, NEW t \in Rebuilt, RenameTable(p, t)
  PROVE  /\ step[p] = << "rename", t >> /\ Exists(draft[t]) /\ ~Exists(draft[Legacy[t]])
         /\ writer \in {Nobody, p}
         /\ Write(p, "ddl", Renamed(draft, t)) /\ Goto(p, << "recreate", t >>)
  <1>1. writer \in {Nobody, p}
    BY DEF RenameTable, Write
  <1>2. View(p) = draft
    BY <1>1, WriterSeesDraft
  <1> QED
    BY <1>1, <1>2 DEF RenameTable, Renamed

\* A copy opens the transaction.
LEMMA CopyWrites ==
  ASSUME HistoryInv, NEW p \in Processes, NEW t \in Rebuilt, CopyRows(p, t)
  PROVE  /\ step[p] = << "copy", t >> /\ Exists(draft[t]) /\ Exists(draft[Legacy[t]])
         /\ writer \in {Nobody, p}
         /\ Write(p, "dml", Copied(draft, t)) /\ Goto(p, << "drop", t >>)
  <1>1. writer \in {Nobody, p}
    BY DEF CopyRows, Write
  <1>2. View(p) = draft
    BY <1>1, WriterSeesDraft
  <1> QED
    BY <1>1, <1>2 DEF CopyRows, Copied

\* A drop belongs to the transaction of the copy.
LEMMA DropWrites ==
  ASSUME HistoryInv, NEW p \in Processes, NEW t \in Rebuilt, DropLegacy(p, t)
  PROVE  /\ step[p] = << "drop", t >> /\ writer = p
         /\ Write(p, "ddl", Dropped(draft, t)) /\ Goto(p, AfterTable(t))
  <1>1. step[p] = << "drop", t >>
    BY DEF DropLegacy
  <1>2. writer = p
    BY <1>1 DEF HistoryInv
  <1>3. View(p) = draft
    BY <1>2, WriterSeesDraft
  <1> QED
    BY <1>1, <1>2, <1>3 DEF DropLegacy, Dropped

\* The usage rows are filled up inside the transaction, which this may open.
LEMMA BackfillWrites ==
  ASSUME HistoryInv, NEW p \in Processes, Backfill(p)
  PROVE  /\ step[p] = << "backfill" >> /\ Exists(draft.usage) /\ Exists(draft.traces)
         /\ writer \in {Nobody, p}
         /\ Write(p, "dml", Backfilled(draft)) /\ Goto(p, << "downgrade" >>)
  <1>1. writer \in {Nobody, p}
    BY DEF Backfill, Write
  <1>2. View(p) = draft
    BY <1>1, WriterSeesDraft
  <1> QED
    BY <1>1, <1>2 DEF Backfill, Backfilled

\* Rows are downgraded in the transaction of the backfill.
LEMMA DowngradeWrites ==
  ASSUME HistoryInv, NEW p \in Processes, Downgrade(p)
  PROVE  /\ step[p] = << "downgrade" >> /\ writer = p
         /\ Write(p, "dml", DowngradedBoth(draft)) /\ Goto(p, << "commit" >>)
  <1>1. step[p] = << "downgrade" >>
    BY DEF Downgrade
  <1>2. writer = p
    BY <1>1 DEF HistoryInv
  <1>3. View(p) = draft
    BY <1>2, WriterSeesDraft
  <1> QED
    BY <1>1, <1>2, <1>3 DEF Downgrade, DowngradedBoth

\* CREATE TABLE IF NOT EXISTS writes an empty table to the draft, or nothing.
LEMMA CreateWrites ==
  ASSUME HistoryInv, NEW p \in Processes, NEW t \in Rebuilt, CreateIfMissing(p, t)
  PROVE  \/ /\ Exists(View(p)[t]) /\ UNCHANGED << disk, draft, writer, histories >>
         \/ /\ ~Exists(draft[t]) /\ writer \in {Nobody, p} /\ Write(p, "ddl", Created(draft, t))
  <1>1. CASE ~Exists(View(p)[t])
    <2>1. writer \in {Nobody, p}
      BY <1>1 DEF CreateIfMissing, Write
    <2>2. View(p) = draft
      BY <2>1, WriterSeesDraft
    <2> QED
      BY <1>1, <2>1, <2>2 DEF CreateIfMissing, Created
  <1> QED
    BY <1>1 DEF CreateIfMissing

-----------------------------------------------------------------------------
(* The history *)

\* A call that begins has changed no table yet.
LEMMA InitializeKeepsHistory ==
  ASSUME HistoryInv, NEW p \in Processes, Initialize(p)
  PROVE  HistoryInv'
  <1>1. step[p] \in {<< "idle" >>, << "done" >>, << "failed" >>}
    <2>1. step[p] \in Steps
      BY DEF HistoryInv
    <2> QED
      BY <2>1 DEF Initialize, Active, Steps, RebuildSteps, Rebuilt
  <1>2. writer # p
    BY <1>1 DEF HistoryInv, Held, RebuildSteps
  <1>3. << "create", "traces" >> \in Steps
    BY DEF Steps, RebuildSteps, Rebuilt
  <1> QED
    BY <1>1, <1>2, <1>3, MoveKeepsHistory DEF Initialize, CopiedTraces

\* CREATE TABLE IF NOT EXISTS, before either of the statements it precedes.
LEMMA CreateKeepsHistory ==
  ASSUME HistoryInv, NEW p \in Processes, NEW t \in Rebuilt, NEW s \in {"inspect", "copy"},
         step[p] \in {<< "create", t >>, << "recreate", t >>},
         CreateIfMissing(p, t), Goto(p, << s, t >>)
  PROVE  HistoryInv'
  <1>1. << s, t >> \in Steps /\ s \in RebuildSteps
    BY TableSteps DEF RebuildSteps
  <1>2. writer = p => << s, t >> \in Held
    BY <1>1 DEF HistoryInv, Held, Rebuilt
  <1>3. CASE UNCHANGED << disk, draft, writer, histories >>
    BY <1>1, <1>2, <1>3, MoveKeepsHistory DEF CopiedTraces, histories
  <1>4. CASE /\ ~Exists(draft[t]) /\ writer \in {Nobody, p}
             /\ Write(p, "ddl", Created(draft, t))
    <2>1. Whole(draft)
      BY <1>4, WriterSeesDraft DEF CopiedTraces
    <2>2. IsDatabase(Created(draft, t)) /\ Whole(Created(draft, t))
      BY <1>4, <2>1, CreatedTable DEF HistoryInv, Whole
    <2> QED
      BY <1>1, <1>2, <1>4, <2>2, WriteKeepsHistory DEF CopiedTraces
  <1> QED
    BY <1>3, <1>4, CreateWrites

\* Looking at a table changes none.
LEMMA InspectKeepsHistory ==
  ASSUME HistoryInv, NEW p \in Processes, NEW t \in Rebuilt, InspectTable(p, t)
  PROVE  HistoryInv'
  <1> DEFINE next == IF View(p)[t].schema = "strict" THEN << "rename", t >> ELSE AfterTable(t)
  <1>1. /\ step[p] = << "inspect", t >> /\ Goto(p, next)
        /\ UNCHANGED << disk, draft, writer, filed >>
    BY DEF InspectTable, histories
  <1>2. << "rename", t >> \in Steps
    BY TableSteps DEF RebuildSteps
  <1>3. /\ next \in Steps /\ next # CopiedTraces
        /\ next[1] \notin {"drop", "downgrade", "commit"}
    BY <1>2, TableSteps DEF CopiedTraces
  <1>4. writer = p => next \in Held
    BY <1>1, TableSteps DEF HistoryInv, Held, Rebuilt, RebuildSteps
  <1> HIDE DEF next
  <1> QED
    BY <1>1, <1>3, <1>4, MoveKeepsHistory DEF CopiedTraces

\* A rename carries the rows along.
LEMMA RenameKeepsHistory ==
  ASSUME HistoryInv, NEW p \in Processes, NEW t \in Rebuilt, RenameTable(p, t)
  PROVE  HistoryInv'
  <1>1. /\ step[p] = << "rename", t >> /\ Exists(draft[t]) /\ ~Exists(draft[Legacy[t]])
        /\ writer \in {Nobody, p}
        /\ Write(p, "ddl", Renamed(draft, t)) /\ Goto(p, << "recreate", t >>)
    BY RenameWrites
  <1>2. Whole(draft)
    BY <1>1, WriterSeesDraft DEF CopiedTraces
  <1>3. IsDatabase(Renamed(draft, t)) /\ Whole(Renamed(draft, t))
    BY <1>1, <1>2, RenamedTable DEF HistoryInv
  <1>4. << "recreate", t >> \in Steps /\ (writer = p => << "recreate", t >> \in Held)
    BY <1>1, TableSteps DEF HistoryInv, Held, Rebuilt, RebuildSteps
  <1> QED
    BY <1>1, <1>3, <1>4, WriteKeepsHistory DEF CopiedTraces

\* A copy puts every row into the new table before the old one may go.
LEMMA CopyKeepsHistory ==
  ASSUME HistoryInv, NEW p \in Processes, NEW t \in Rebuilt, CopyRows(p, t)
  PROVE  HistoryInv'
  <1> DEFINE U == Copied(draft, t)
  <1>1. /\ step[p] = << "copy", t >> /\ Exists(draft[t]) /\ writer \in {Nobody, p}
        /\ Write(p, "dml", U) /\ Goto(p, << "drop", t >>)
    BY CopyWrites
  <1>2. Whole(draft)
    BY <1>1, WriterSeesDraft DEF CopiedTraces
  <1>3. /\ IsDatabase(U) /\ RowIds(U[t]) = RowIds(draft[t]) \cup RowIds(draft[Legacy[t]])
        /\ \A n \in RowTables \ {t} : U[n] = draft[n]
    BY <1>1, CopiedTable DEF HistoryInv
  <1> HIDE DEF U
  <1>4. << "drop", t >> \in Steps /\ << "drop", t >> \in Held
    BY TableSteps DEF Held, Rebuilt, RebuildSteps
  <1>5. << "drop", t >> = CopiedTraces => RowIds(U.traces) = OnRecord
    BY <1>2, <1>3 DEF CopiedTraces, Whole, Legacy
  <1>6. << "drop", t >> # CopiedTraces => Whole(U)
    BY <1>2, <1>3 DEF CopiedTraces, Whole, Rebuilt, RowTables
  <1> QED
    BY <1>1, <1>3, <1>4, <1>5, <1>6, WriteKeepsHistory

\* What is dropped has been copied.
LEMMA DropKeepsHistory ==
  ASSUME HistoryInv, NEW p \in Processes, NEW t \in Rebuilt, DropLegacy(p, t)
  PROVE  HistoryInv'
  <1> DEFINE U == Dropped(draft, t)
  <1>1. /\ step[p] = << "drop", t >> /\ writer = p
        /\ Write(p, "ddl", U) /\ Goto(p, AfterTable(t))
    BY DropWrites
  <1>2. t # "traces" => Whole(draft)
    BY <1>1, WriterSeesDraft DEF CopiedTraces
  <1>3. /\ IsDatabase(U) /\ U[Legacy[t]] = NoTable
        /\ \A n \in RowTables \ {Legacy[t]} : U[n] = draft[n]
    BY DroppedTable DEF HistoryInv
  <1> HIDE DEF U
  <1>4. Whole(U)
    <2>1. CASE t = "traces"
      <3>1. RowIds(U.traces) = OnRecord
        BY <1>1, <1>3, <2>1 DEF HistoryInv, CopiedTraces, Legacy, RowTables
      <3>2. RowIds(U.traces_legacy) = {}
        BY <1>3, <2>1 DEF Legacy, NoTable, RowIds
      <3> QED
        BY <3>1, <3>2 DEF Whole
    <2>2. CASE t = "usage"
      BY <1>2, <1>3, <2>2 DEF Whole, Legacy, RowTables
    <2> QED
      BY <2>1, <2>2 DEF Rebuilt
  <1> QED
    BY <1>1, <1>3, <1>4, TableSteps, WriteKeepsHistory

\* The backfill only adds usage.
LEMMA BackfillKeepsHistory ==
  ASSUME HistoryInv, NEW p \in Processes, Backfill(p)
  PROVE  HistoryInv'
  <1> DEFINE U == Backfilled(draft)
  <1>1. /\ step[p] = << "backfill" >> /\ Exists(draft.usage) /\ writer \in {Nobody, p}
        /\ Write(p, "dml", U) /\ Goto(p, << "downgrade" >>)
    BY BackfillWrites
  <1>2. Whole(draft)
    BY <1>1, WriterSeesDraft DEF CopiedTraces
  <1>3. IsDatabase(U) /\ \A n \in RowTables \ {"usage"} : U[n] = draft[n]
    BY <1>1, BackfilledTable DEF HistoryInv
  <1> HIDE DEF U
  <1>4. Whole(U)
    BY <1>2, <1>3 DEF Whole, RowTables
  <1>5. << "downgrade" >> \in Steps /\ << "downgrade" >> \in Held
    BY DEF Steps, Held
  <1> QED
    BY <1>1, <1>3, <1>4, <1>5, WriteKeepsHistory DEF CopiedTraces

\* The downgrade rewrites rows, and leaves their number and names.
LEMMA DowngradeKeepsHistory ==
  ASSUME HistoryInv, NEW p \in Processes, Downgrade(p)
  PROVE  HistoryInv'
  <1> DEFINE U == DowngradedBoth(draft)
  <1>1. /\ step[p] = << "downgrade" >> /\ writer = p
        /\ Write(p, "dml", U) /\ Goto(p, << "commit" >>)
    BY DowngradeWrites
  <1>2. Whole(draft)
    BY <1>1, WriterSeesDraft DEF CopiedTraces
  <1>3. IsDatabase(U) /\ \A n \in RowTables : RowIds(U[n]) = RowIds(draft[n])
    BY DowngradedTables DEF HistoryInv
  <1> HIDE DEF U
  <1>4. Whole(U)
    BY <1>2, <1>3 DEF Whole, RowTables
  <1>5. << "commit" >> \in Steps /\ << "commit" >> \in Held
    BY DEF Steps, Held
  <1> QED
    BY <1>1, <1>3, <1>4, <1>5, WriteKeepsHistory DEF CopiedTraces

\* A commit publishes a draft that is whole.
LEMMA CommitKeepsHistory ==
  ASSUME HistoryInv, NEW p \in Processes, CommitMigration(p)
  PROVE  HistoryInv'
  <1>1. << "done" >> \in Steps /\ Goto(p, << "done" >>) /\ step[p] = << "commit" >> /\ writer = p
    BY DEF Steps, CommitMigration, HistoryInv
  <1>2. /\ step' \in [Processes -> Steps] /\ step'[p] = << "done" >>
        /\ \A q \in Processes \ {p} : step'[q] = step[q]
    BY <1>1, GotoType
  <1>3. /\ disk' = draft /\ draft' = draft /\ writer' = Nobody /\ filed' = filed
        /\ OnRecord' = OnRecord
    BY DEF CommitMigration, OnRecord
  <1>4. \A q \in Processes :
          step'[q][1] \notin {"drop", "downgrade", "commit"} /\ step[q] # CopiedTraces
    BY <1>1, <1>2 DEF HistoryInv, CopiedTraces
  <1>5. Whole(draft)
    BY <1>4 DEF HistoryInv
  <1> QED
    BY <1>2, <1>3, <1>4, <1>5, MigrationAssumption DEF HistoryInv, Whole, CopiedTraces

\* A whole transaction finds the disk whole and leaves it whole.
LEMMA TransactionKeepsHistory ==
  ASSUME HistoryInv, NEW p \in Processes, NEW next \in {<< "done" >>, << "open_contexts" >>,
         << "record_contexts" >>}, Goto(p, next),
         NEW tables, Transaction(p, tables), IsDatabase(tables),
         DOMAIN filed' = {"runs", "contexts"}, filed'.runs \subseteq Processes,
         RowIds(tables.traces) \cup RowIds(tables.traces_legacy) = OnRecord',
         RowIds(tables.traces) \cap RowIds(tables.traces_legacy) = {}
  PROVE  HistoryInv'
  <1>1. next \in Steps /\ next[1] \notin {"drop", "downgrade", "commit"} /\ next # CopiedTraces
    BY DEF Steps, CopiedTraces
  <1>2. /\ step' \in [Processes -> Steps] /\ step'[p] = next
        /\ \A q \in Processes \ {p} : step'[q] = step[q]
    BY <1>1, GotoType
  <1>3. disk' = tables /\ draft' = tables /\ writer' = writer /\ writer = Nobody
    BY DEF Transaction
  <1>4. \A q \in Processes : step'[q][1] \notin {"drop", "downgrade", "commit"}
    BY <1>1, <1>2, <1>3, MigrationAssumption DEF HistoryInv
  <1>5. Whole(disk)' /\ Whole(draft)'
    BY <1>3 DEF Whole
  <1> QED
    BY <1>2, <1>3, <1>4, <1>5, MigrationAssumption DEF HistoryInv, CopiedTraces

\* A run is filed in one transaction.
LEMMA RecordRunKeepsHistory ==
  ASSUME HistoryInv, NEW p \in Processes, RecordRun(p)
  PROVE  HistoryInv'
  <1> DEFINE U == WithRun(disk, p)
  <1>1. /\ Transaction(p, U) /\ Goto(p, << "open_contexts" >>)
        /\ Exists(disk.traces) /\ Exists(disk.usage) /\ p \notin filed.runs
        /\ filed' = [filed EXCEPT !.runs = @ \cup {p}]
    BY DEF RecordRun, WithRun
  <1>2. /\ DOMAIN filed' = {"runs", "contexts"} /\ filed'.runs = filed.runs \cup {p}
        /\ OnRecord' = OnRecord \cup {p} /\ p \notin OnRecord
    BY <1>1, MigrationAssumption DEF HistoryInv, OnRecord
  <1>3. /\ IsDatabase(U) /\ U.traces_legacy = disk.traces_legacy
        /\ RowIds(U.traces) = RowIds(disk.traces) \cup {p}
    BY <1>1, RunTables DEF HistoryInv, Rebuilt
  <1> HIDE DEF U
  <1>4. /\ RowIds(U.traces) \cup RowIds(U.traces_legacy) = OnRecord'
        /\ RowIds(U.traces) \cap RowIds(U.traces_legacy) = {}
    BY <1>2, <1>3 DEF HistoryInv, Whole
  <1>5. filed'.runs \subseteq Processes
    BY <1>2 DEF HistoryInv
  <1> QED
    BY <1>1, <1>2, <1>3, <1>4, <1>5, TransactionKeepsHistory

\* Opening the context store touches no other table.
LEMMA OpenContextsKeepsHistory ==
  ASSUME HistoryInv, NEW p \in Processes, OpenContexts(p)
  PROVE  HistoryInv'
  <1> DEFINE U == WithContextTable(disk)
  <1>1. Transaction(p, U) /\ Goto(p, << "record_contexts" >>) /\ UNCHANGED filed
    BY DEF OpenContexts, WithContextTable, histories
  <1>2. IsDatabase(U) /\ U.traces = disk.traces /\ U.traces_legacy = disk.traces_legacy
    BY ContextTables DEF HistoryInv, RowTables
  <1> HIDE DEF U
  <1>3. OnRecord' = OnRecord
    BY <1>1 DEF OnRecord
  <1>4. /\ RowIds(U.traces) \cup RowIds(U.traces_legacy) = OnRecord'
        /\ RowIds(U.traces) \cap RowIds(U.traces_legacy) = {}
    BY <1>2, <1>3 DEF HistoryInv, Whole
  <1>5. DOMAIN filed' = {"runs", "contexts"} /\ filed'.runs \subseteq Processes
    BY <1>1 DEF HistoryInv
  <1> QED
    BY <1>1, <1>2, <1>4, <1>5, TransactionKeepsHistory

\* Nor does recording contexts.
LEMMA RecordContextsKeepsHistory ==
  ASSUME HistoryInv, NEW p \in Processes, RecordContexts(p)
  PROVE  HistoryInv'
  <1> DEFINE U == WithContext(disk, p)
  <1>1. /\ Transaction(p, U) /\ Goto(p, << "done" >>)
        /\ filed' = [filed EXCEPT !.contexts = @ \cup {p}]
    BY DEF RecordContexts, WithContext
  <1>2. IsDatabase(U) /\ U.traces = disk.traces /\ U.traces_legacy = disk.traces_legacy
    BY ContextTables DEF HistoryInv, RowTables
  <1> HIDE DEF U
  <1>3. /\ DOMAIN filed' = {"runs", "contexts"} /\ filed'.runs = filed.runs
        /\ OnRecord' = OnRecord
    BY <1>1 DEF HistoryInv, OnRecord
  <1>4. /\ RowIds(U.traces) \cup RowIds(U.traces_legacy) = OnRecord'
        /\ RowIds(U.traces) \cap RowIds(U.traces_legacy) = {}
    BY <1>2, <1>3 DEF HistoryInv, Whole
  <1>5. filed'.runs \subseteq Processes
    BY <1>3 DEF HistoryInv
  <1> QED
    BY <1>1, <1>2, <1>3, <1>4, <1>5, TransactionKeepsHistory

\* The steps of a process, one by one.
LEMMA ProcessSteps ==
  ASSUME NEW p \in Processes,
         \/ Initialize(p) \/ RecordRun(p) \/ RecordRunFails(p) \/ Migrate(p) \/ Interrupted(p)
  PROVE  \/ \E t \in Rebuilt :
               \/ CreateTable(p, t) \/ InspectTable(p, t) \/ RenameTable(p, t)
               \/ RecreateTable(p, t) \/ CopyRows(p, t) \/ DropLegacy(p, t)
         \/ Initialize(p) \/ Backfill(p) \/ Downgrade(p) \/ CommitMigration(p)
         \/ RecordRun(p) \/ OpenContexts(p) \/ RecordContexts(p) \/ Abandon(p)
  BY DEF Migrate, Rebuilt, StatementFails, BackfillFails, ContextsFail, RecordRunFails, Interrupted

\* The invariant holds of every database an upgrade may find.
LEMMA HistoryInvInit == MigrationInit => HistoryInv
  <1> SUFFICES ASSUME MigrationInit PROVE HistoryInv
    OBVIOUS
  <1>1. PICK traces \in OldTables, usage \in OldTables \cup {NoTable} :
          disk = [ traces |-> traces, traces_legacy |-> NoTable, usage |-> usage,
                   usage_legacy |-> NoTable, contexts |-> NoContexts ]
    BY DEF MigrationInit, OldDatabases
  <1>2. /\ draft = disk /\ writer = Nobody /\ step = [p \in Processes |-> << "idle" >>]
        /\ filed = [runs |-> {}, contexts |-> {}]
    BY DEF MigrationInit
  <1>3. \A table \in OldTables :
          /\ DOMAIN table = {"schema", "rows"} /\ table.schema \in {"strict", "nullable"}
          /\ table.rows \subseteq RowType /\ RowIds(table) = History
    <2>1. \A h \in History : Row(h).id = h /\ StrictRow(h).id = h
      BY DEF Row, StrictRow
    <2>2. \A h \in History : Row(h) \in RowType /\ StrictRow(h) \in RowType
      BY RecordedRows
    <2>3. /\ RowIds(Table("strict", {StrictRow(h) : h \in History})) = History
          /\ RowIds(Table("nullable", {Row(h) : h \in History})) = History
      BY <2>1 DEF RowIds, Table
    <2> DEFINE S == {StrictRow(h) : h \in History}
               N == {Row(h) : h \in History}
    <2>4. S \subseteq RowType /\ N \subseteq RowType
      BY <2>2
    <2>5. RowIds(Table("strict", S)) = History /\ RowIds(Table("nullable", N)) = History
      BY <2>3
    <2>6. OldTables = {Table("strict", S), Table("nullable", N)}
      BY DEF OldTables
    <2> HIDE DEF S, N
    <2>7. \A schema, rows :
            /\ DOMAIN Table(schema, rows) = {"schema", "rows"}
            /\ Table(schema, rows).schema = schema /\ Table(schema, rows).rows = rows
      BY DEF Table
    <2> QED
      BY <2>4, <2>5, <2>6, <2>7
  <1>4. /\ DOMAIN NoTable = {"schema", "rows"} /\ NoTable.schema = "absent" /\ NoTable.rows = {}
        /\ RowIds(NoTable) = {} /\ DOMAIN NoContexts = {"parent", "rows"}
    BY DEF NoTable, RowIds, NoContexts
  <1>5. IsDatabase(disk)
    BY <1>1, <1>3, <1>4 DEF IsDatabase, RowTables
  <1>6. Whole(disk)
    BY <1>1, <1>2, <1>3, <1>4 DEF Whole, OnRecord
  <1>7. << "idle" >> \in Steps
    BY DEF Steps
  <1> QED
    BY <1>2, <1>5, <1>6, <1>7, MigrationAssumption DEF HistoryInv, CopiedTraces

\* Every step preserves it.
LEMMA HistoryInvNext == HistoryInv /\ [MigrationNext]_migrationVars => HistoryInv'
  <1> SUFFICES ASSUME HistoryInv, [MigrationNext]_migrationVars PROVE HistoryInv'
    OBVIOUS
  <1>1. CASE UNCHANGED migrationVars
    BY <1>1 DEF migrationVars, histories, HistoryInv, IsDatabase, Whole, OnRecord
  <1>2. ASSUME NEW p \in Processes,
               \/ Initialize(p) \/ RecordRun(p) \/ RecordRunFails(p) \/ Migrate(p)
               \/ Interrupted(p)
        PROVE  HistoryInv'
    <2>1. ASSUME NEW t \in Rebuilt, CreateTable(p, t) \/ RecreateTable(p, t)
          PROVE  HistoryInv'
      BY <2>1, CreateKeepsHistory DEF CreateTable, RecreateTable
    <2>2. ASSUME NEW t \in Rebuilt,
                 InspectTable(p, t) \/ RenameTable(p, t) \/ CopyRows(p, t) \/ DropLegacy(p, t)
          PROVE  HistoryInv'
      BY <2>2, InspectKeepsHistory, RenameKeepsHistory, CopyKeepsHistory, DropKeepsHistory
    <2>3. Initialize(p) \/ Backfill(p) \/ Downgrade(p) \/ CommitMigration(p) => HistoryInv'
      BY InitializeKeepsHistory, BackfillKeepsHistory, DowngradeKeepsHistory, CommitKeepsHistory
    <2>4. RecordRun(p) \/ OpenContexts(p) \/ RecordContexts(p) \/ Abandon(p) => HistoryInv'
      BY RecordRunKeepsHistory, OpenContextsKeepsHistory, RecordContextsKeepsHistory,
         AbandonKeepsHistory
    <2> QED
      BY <1>2, <2>1, <2>2, <2>3, <2>4, ProcessSteps
  <1> QED
    BY <1>1, <1>2 DEF MigrationNext

\* In every reachable state each statement of each process finds the tables as
\* described, with every recorded trace in exactly one of two of them.
THEOREM MigrationInvariant == MigrationSpec => []HistoryInv
  <1> QED
    BY HistoryInvInit, HistoryInvNext, PTL DEF MigrationSpec

\* Neither the upgrade nor what runs beside it destroys a recorded trace,
\* whoever fails or dies and wherever (SQLiteBenchmarkLedger.initialize).
THEOREM HistoryIsKept == MigrationSpec => []HistoryIsNeverLost
  <1>1. HistoryInv => HistoryIsNeverLost
    BY DEF HistoryInv, Whole, OnRecord, HistoryIsNeverLost
  <1> QED
    BY <1>1, MigrationInvariant, PTL

-----------------------------------------------------------------------------
(* What the readers and the upgrade make of recorded evidence *)

Attempts == Seq([cost : Nat \cup {Unknown}, proven : BOOLEAN])

Normalize(x) == [x EXCEPT !.attempts = Normalized(@)]

\* RecordedAssumption, for one request.
IsRecording(x) ==
  /\ x \in EvidenceType
  /\ x.complete <=> x.cost # Unknown
  /\ x.attempts # << >> =>
       /\ x.complete <=> AllCostsKnown(x.attempts)
       /\ x.complete => x.cost = Total(AttemptCosts(x.attempts))
  /\ x.attempts = << >> /\ x.attemptCount = 0 => x.cost \in {0, Unknown}

\* The evidence of a request as a table of an older version holds it.
Raw(h) == {Row(h).evidence, StrictRow(h).evidence}

\* Evidence of a request that the upgrade has looked at.
Settled(h, x) ==
  /\ ReadRow(x) = ReadLine(Recorded[h])
  /\ Normalized(x.attempts) = x.attempts
  /\ x.complete => ~AmbiguousLegacy(x) /\ ~HasUnknownAttempt(x.attempts)

\* What normalizing attempts keeps.
LEMMA NormalizedAttempts ==
  ASSUME NEW attempts \in Attempts
  PROVE  /\ Normalized(attempts) \in Attempts
         /\ Normalized(attempts) = << >> <=> attempts = << >>
         /\ Normalized(Normalized(attempts)) = Normalized(attempts)
         /\ Normalized(attempts) # attempts =>
              Normalized(attempts) # << >> /\ ~AllCostsKnown(Normalized(attempts))
         /\ Normalized(attempts) = attempts <=>
              \A i \in DOMAIN attempts : CostIsKnown(attempts[i]) => attempts[i].proven
  <1> DEFINE n == Normalized(attempts)
  <1>1. n \in Attempts
    BY NormalizedType DEF Attempts
  <1>2. DOMAIN n = DOMAIN attempts /\ \A i \in DOMAIN attempts : n[i] = NormalizedAttempt(attempts[i])
    BY DEF Normalized
  <1>3. DOMAIN attempts = 1..Len(attempts) /\ Len(attempts) \in Nat
    BY DEF Attempts
  <1>4. DOMAIN n = 1..Len(n) /\ Len(n) \in Nat
    BY <1>1 DEF Attempts
  <1>5. n = << >> <=> attempts = << >>
    <2>1. \A s \in Attempts : s = << >> <=> DOMAIN s = {}
      <3> SUFFICES ASSUME NEW s \in Attempts, DOMAIN s = {} PROVE s = << >>
        OBVIOUS
      <3>1. Len(s) = 0
        BY DEF Attempts
      <3> QED
        BY <3>1 DEF Attempts
    <2> QED
      BY <1>1, <1>2, <2>1
  <1>6. \A i \in DOMAIN attempts :
          /\ attempts[i] \in [cost : Nat \cup {Unknown}, proven : BOOLEAN]
          /\ NormalizedAttempt(NormalizedAttempt(attempts[i])) = NormalizedAttempt(attempts[i])
          /\ NormalizedAttempt(attempts[i]) # attempts[i] =>
               ~CostIsKnown(NormalizedAttempt(attempts[i]))
          /\ NormalizedAttempt(attempts[i]) = attempts[i] <=>
               (CostIsKnown(attempts[i]) => attempts[i].proven)
    <2> SUFFICES ASSUME NEW i \in DOMAIN attempts,
                        NEW a, a = attempts[i]
                 PROVE  /\ a \in [cost : Nat \cup {Unknown}, proven : BOOLEAN]
                        /\ NormalizedAttempt(NormalizedAttempt(a)) = NormalizedAttempt(a)
                        /\ NormalizedAttempt(a) # a => ~CostIsKnown(NormalizedAttempt(a))
                        /\ NormalizedAttempt(a) = a <=> (CostIsKnown(a) => a.proven)
      OBVIOUS
    <2>1. a \in [cost : Nat \cup {Unknown}, proven : BOOLEAN]
      <3> DEFINE A == [cost : Nat \cup {Unknown}, proven : BOOLEAN]
      <3>1. attempts \in Seq(A)
        BY DEF Attempts
      <3> HIDE DEF A
      <3>2. a \in A
        BY <3>1
      <3> QED
        BY <3>2 DEF A
    <2> QED
      BY <2>1 DEF NormalizedAttempt, CostIsKnown
  <1>7. Normalized(n) = n
    <2>1. Normalized(n) = [i \in DOMAIN attempts |-> NormalizedAttempt(n[i])]
      BY <1>2 DEF Normalized
    <2>2. n = [i \in DOMAIN attempts |-> n[i]]
      BY DEF Normalized
    <2> QED
      BY <1>2, <1>6, <2>1, <2>2
  <1>8. n = attempts <=> \A i \in DOMAIN attempts : n[i] = attempts[i]
    <2>1. n = [i \in DOMAIN attempts |-> n[i]] /\ attempts = [i \in DOMAIN attempts |-> attempts[i]]
      BY <1>3 DEF Normalized, Attempts
    <2> QED
      BY <2>1
  <1> HIDE DEF n
  <1>9. ASSUME n # attempts PROVE n # << >> /\ ~AllCostsKnown(n)
    <2>1. PICK i \in DOMAIN attempts : n[i] # attempts[i]
      BY <1>8, <1>9
    <2> QED
      BY <1>2, <1>6, <2>1 DEF AllCostsKnown
  <1>10. n = attempts <=> \A i \in DOMAIN attempts : CostIsKnown(attempts[i]) => attempts[i].proven
    BY <1>2, <1>6, <1>8
  <1> QED
    BY <1>1, <1>5, <1>7, <1>9, <1>10 DEF n

\* The fields of evidence that was normalized, or whose cost was given up.
LEMMA EvidenceFields ==
  ASSUME NEW x \in EvidenceType
  PROVE  /\ WithoutCost(x).attempts = x.attempts /\ WithoutCost(x).error = x.error
         /\ WithoutCost(x).attemptCount = x.attemptCount
         /\ WithoutCost(x).cost = Unknown /\ WithoutCost(x).complete = FALSE
         /\ Normalize(x).attempts = Normalized(x.attempts) /\ Normalize(x).error = x.error
         /\ Normalize(x).attemptCount = x.attemptCount
         /\ Normalize(x).cost = x.cost /\ Normalize(x).complete = x.complete
         /\ WithoutCost(Normalize(x)) = Normalize(WithoutCost(x))
         /\ WithoutCost(WithoutCost(x)) = WithoutCost(x)
         /\ ~x.complete /\ x.cost = Unknown => WithoutCost(x) = x
         /\ Normalized(x.attempts) = x.attempts => Normalize(x) = x
         /\ Normalize(x) \in EvidenceType /\ WithoutCost(x) \in EvidenceType
  <1>1. Normalized(x.attempts) \in Attempts
    BY NormalizedType DEF EvidenceType, Attempts
  <1> QED
    BY <1>1 DEF WithoutCost, Normalize, EvidenceType, Attempts

\* The readers, in those terms.
LEMMA Readers ==
  ASSUME NEW x \in EvidenceType
  PROVE  /\ ReadLine(x) = IF AmbiguousLegacy(Normalize(x)) \/ HasUnknownAttempt(Normalized(x.attempts))
                             THEN WithoutCost(Normalize(x)) ELSE Normalize(x)
         /\ ReadRow(x) = IF ~x.complete \/ HasUnknownAttempt(Normalized(x.attempts))
                            THEN WithoutCost(Normalize(x)) ELSE Normalize(x)
         /\ AmbiguousLegacy(Normalize(x)) <=> AmbiguousLegacy(x)
  <1>1. Normalized(x.attempts) = << >> <=> x.attempts = << >>
    BY NormalizedAttempts DEF EvidenceType, Attempts
  <1>2. AmbiguousLegacy(Normalize(x)) <=> AmbiguousLegacy(x)
    BY <1>1, EvidenceFields DEF AmbiguousLegacy
  <1> QED
    BY <1>2, EvidenceFields DEF ReadLine, ReadRow, Normalize

\* What an old table holds of a request is what was recorded, or a zero for
\* the cost that was not known.
LEMMA RawEvidence ==
  ASSUME NEW h \in History \cup Processes, NEW x \in Raw(h)
  PROVE  /\ IsRecording(Recorded[h]) /\ x \in EvidenceType
         /\ x.attempts = Recorded[h].attempts /\ x.attemptCount = Recorded[h].attemptCount
         /\ x.error = Recorded[h].error /\ x.complete = Recorded[h].complete
         /\ x.complete => x = Recorded[h]
         /\ WithoutCost(x) = WithoutCost(Recorded[h])
  <1>1. IsRecording(Recorded[h])
    BY MigrationAssumption, RecordedAssumption DEF IsRecording, EvidenceType
  <1>2. Row(h).evidence = Recorded[h]
    BY DEF Row
  <1>3. StrictRow(h).evidence = [Recorded[h] EXCEPT !.cost = IF @ = Unknown THEN 0 ELSE @]
    BY DEF Row, StrictRow
  <1> DEFINE r == Recorded[h]
  <1>4. x = r \/ x = [r EXCEPT !.cost = IF @ = Unknown THEN 0 ELSE @]
    BY <1>2, <1>3 DEF Raw
  <1>5. IsRecording(r)
    BY <1>1
  <1> HIDE DEF r
  <1>6. /\ x \in EvidenceType
        /\ x.attempts = r.attempts /\ x.attemptCount = r.attemptCount
        /\ x.error = r.error /\ x.complete = r.complete
        /\ x.complete => x = r
        /\ WithoutCost(x) = WithoutCost(r)
    <2>1. CASE x = r
      BY <1>5, <2>1 DEF IsRecording
    <2>2. CASE r.cost # Unknown /\ x = [r EXCEPT !.cost = IF @ = Unknown THEN 0 ELSE @]
      <3>1. x = [r EXCEPT !.cost = r.cost]
        BY <2>2
      <3>2. x = r
        BY <1>5, <3>1 DEF IsRecording, EvidenceType
      <3> QED
        BY <1>5, <3>2 DEF IsRecording
    <2>3. CASE r.cost = Unknown /\ x = [r EXCEPT !.cost = IF @ = Unknown THEN 0 ELSE @]
      <3>1. x = [r EXCEPT !.cost = 0] /\ ~r.complete
        BY <1>5, <2>3 DEF IsRecording
      <3> QED
        BY <1>5, <3>1 DEF IsRecording, EvidenceType, WithoutCost
    <2> QED
      BY <1>4, <2>1, <2>2, <2>3
  <1> QED
    BY <1>1, <1>6 DEF r

\* The copy of a rebuilt table leaves evidence of either kind as it was.
LEMMA CopiedStays ==
  ASSUME NEW h \in History \cup Processes, NEW x \in EvidenceType,
         x \in Raw(h) \/ Settled(h, x)
  PROVE  LET y == IF x.complete THEN x ELSE WithoutCost(x)
         IN  y \in Raw(h) \/ Settled(h, y)
  <1>1. CASE x.complete
    BY <1>1
  <1>2. CASE ~x.complete /\ x \in Raw(h)
    <2> DEFINE r == Recorded[h]
    <2>2. IsRecording(r) /\ WithoutCost(x) = WithoutCost(r) /\ ~r.complete
      BY <1>2, RawEvidence
    <2> HIDE DEF r
    <2>3. r \in EvidenceType /\ r.cost = Unknown
      BY <2>2 DEF IsRecording
    <2>4. WithoutCost(r) = r
      BY <2>2, <2>3, EvidenceFields
    <2>1. WithoutCost(x) = Recorded[h]
      BY <2>2, <2>4 DEF r
    <2> QED
      BY <1>2, <2>1 DEF Raw, Row
  <1>3. CASE ~x.complete /\ Settled(h, x)
    <2>1. WithoutCost(x) \in EvidenceType /\ ~WithoutCost(x).complete
      BY EvidenceFields
    <2>2. ReadRow(WithoutCost(x)) = WithoutCost(Normalize(WithoutCost(x)))
      BY <2>1, Readers
    <2>3. ReadRow(x) = WithoutCost(Normalize(x))
      BY <1>3, Readers
    <2>4. Normalize(x) = x
      BY <1>3, EvidenceFields DEF Settled
    <2>5. Normalize(WithoutCost(x)) = WithoutCost(x)
      BY <2>4, EvidenceFields
    <2>6. ReadRow(WithoutCost(x)) = ReadRow(x)
      <3> DEFINE w == WithoutCost(x)
      <3>1. WithoutCost(w) = w
        BY EvidenceFields
      <3>2. ReadRow(w) = w /\ ReadRow(x) = w
        BY <2>2, <2>3, <2>4, <2>5, <3>1
      <3> QED
        BY <3>2
    <2> QED
      BY <1>3, <2>1, <2>6, EvidenceFields DEF Settled
  <1> QED
    BY <1>1, <1>2, <1>3

\* The downgrade settles it.
LEMMA DowngradeSettles ==
  ASSUME NEW h \in History \cup Processes, NEW x \in EvidenceType,
         x \in Raw(h) \/ Settled(h, x)
  PROVE  Settled(h, ProvenanceDowngraded(AmbiguityDowngraded(x)))
  <1> DEFINE r == Recorded[h]
             y == ProvenanceDowngraded(AmbiguityDowngraded(x))
  <1>1. CASE Settled(h, x)
    <2>1. CASE ~AmbiguousLegacy(x)
      BY <1>1, <2>1 DEF Settled, AmbiguityDowngraded, ProvenanceDowngraded
    <2>2. CASE AmbiguousLegacy(x)
      <3>1. ~x.complete /\ Normalize(x) = x
        BY <1>1, <2>2, EvidenceFields DEF Settled
      <3>2. y = WithoutCost(x)
        BY <1>1, <2>2, EvidenceFields DEF Settled, AmbiguityDowngraded, ProvenanceDowngraded
      <3>3. /\ WithoutCost(x) \in EvidenceType /\ ~WithoutCost(x).complete
            /\ WithoutCost(x).attempts = x.attempts
            /\ Normalize(WithoutCost(x)) = WithoutCost(x)
            /\ WithoutCost(WithoutCost(x)) = WithoutCost(x)
        <4>1. Normalize(WithoutCost(x)) = WithoutCost(Normalize(x))
          BY EvidenceFields
        <4> QED
          BY <3>1, <4>1, EvidenceFields
      <3>4. ReadRow(WithoutCost(x)) = WithoutCost(x)
        <4>1. ReadRow(WithoutCost(x)) = WithoutCost(Normalize(WithoutCost(x)))
          BY <3>3, Readers
        <4> QED
          BY <3>3, <4>1
      <3>5. ReadRow(x) = WithoutCost(x)
        <4>1. ReadRow(x) = WithoutCost(Normalize(x))
          BY <3>1, Readers
        <4> QED
          BY <3>1, <4>1
      <3> QED
        BY <1>1, <3>2, <3>3, <3>4, <3>5 DEF Settled
    <2> QED
      BY <2>1, <2>2
  <1>2. CASE x \in Raw(h)
    <2>1. /\ IsRecording(r) /\ r \in EvidenceType
          /\ x.attempts = r.attempts /\ x.attemptCount = r.attemptCount
          /\ x.error = r.error /\ x.complete = r.complete
          /\ x.complete => x = r
          /\ WithoutCost(x) = WithoutCost(r)
      BY <1>2, RawEvidence DEF IsRecording
    <2>2. AmbiguousLegacy(x) <=> AmbiguousLegacy(r)
      BY <2>1 DEF AmbiguousLegacy
    <2>3. r.attempts \in Attempts
      BY <2>1 DEF EvidenceType, Attempts
    <2> HIDE DEF r
    <2>7. WithoutCost(r) \in EvidenceType /\ ~WithoutCost(r).complete
      BY <2>1, EvidenceFields
    <2>4. CASE AmbiguousLegacy(r)
      <3>1. r.attempts = << >>
        BY <2>4 DEF AmbiguousLegacy
      <3>2. Normalized(r.attempts) = r.attempts /\ Normalize(r) = r
        BY <2>1, <2>3, <3>1, NormalizedAttempts, EvidenceFields
      <3>3. /\ WithoutCost(r).attempts = r.attempts
            /\ Normalize(WithoutCost(r)) = WithoutCost(r)
            /\ WithoutCost(WithoutCost(r)) = WithoutCost(r)
        <4>1. Normalize(WithoutCost(r)) = WithoutCost(Normalize(r))
          BY <2>1, EvidenceFields
        <4> QED
          BY <2>1, <3>2, <4>1, EvidenceFields
      <3>4. AmbiguityDowngraded(x) = WithoutCost(r)
        BY <2>1, <2>2, <2>4 DEF AmbiguityDowngraded
      <3>5. y = WithoutCost(r)
        BY <3>2, <3>3, <3>4 DEF ProvenanceDowngraded
      <3>6. ReadLine(r) = WithoutCost(r)
        BY <2>1, <2>4, <3>2, Readers
      <3>7. ReadRow(WithoutCost(r)) = WithoutCost(r)
        <4>1. ReadRow(WithoutCost(r)) = WithoutCost(Normalize(WithoutCost(r)))
          BY <2>7, Readers
        <4> QED
          BY <3>3, <4>1
      <3> QED
        BY <2>7, <3>2, <3>3, <3>5, <3>6, <3>7 DEF Settled, r
    <2>5. CASE ~AmbiguousLegacy(r) /\ Normalized(r.attempts) = r.attempts
      <3>1. y = x
        BY <2>1, <2>2, <2>5 DEF AmbiguityDowngraded, ProvenanceDowngraded
      <3>2. ReadLine(r) = IF HasUnknownAttempt(r.attempts) THEN WithoutCost(r) ELSE r
        <4>1. Normalize(r) = r
          BY <2>1, <2>5, EvidenceFields
        <4>2. ReadLine(r) = IF AmbiguousLegacy(Normalize(r)) \/ HasUnknownAttempt(Normalized(r.attempts))
                             THEN WithoutCost(Normalize(r)) ELSE Normalize(r)
          BY <2>1, Readers
        <4> QED
          BY <2>5, <4>1, <4>2
      <3>3. Normalize(x) = x
        BY <2>1, <2>5, EvidenceFields
      <3>4. ReadRow(x) = IF ~x.complete \/ HasUnknownAttempt(r.attempts) THEN WithoutCost(r) ELSE x
        <4>1. ReadRow(x) = IF ~x.complete \/ HasUnknownAttempt(Normalized(x.attempts))
                             THEN WithoutCost(Normalize(x)) ELSE Normalize(x)
          BY Readers
        <4> QED
          BY <2>1, <2>5, <3>3, <4>1
      <3>5. ~r.complete => WithoutCost(r) = r
        BY <2>1, EvidenceFields DEF IsRecording
      <3>6. r.complete => ~HasUnknownAttempt(r.attempts)
        BY <2>1 DEF IsRecording, HasUnknownAttempt
      <3> QED
        BY <2>1, <2>2, <2>5, <3>1, <3>2, <3>4, <3>5, <3>6 DEF Settled, r
    <2>6. CASE ~AmbiguousLegacy(r) /\ Normalized(r.attempts) # r.attempts
      <3>1. y = Normalize(WithoutCost(r))
        BY <2>1, <2>2, <2>6 DEF AmbiguityDowngraded, ProvenanceDowngraded, Normalize
      <3>2. HasUnknownAttempt(Normalized(r.attempts))
        BY <2>3, <2>6, NormalizedAttempts DEF HasUnknownAttempt
      <3>3. ReadLine(r) = Normalize(WithoutCost(r))
        <4>1. ReadLine(r) = WithoutCost(Normalize(r))
          BY <2>1, <3>2, Readers
        <4> QED
          BY <2>1, <4>1, EvidenceFields
      <3>4. y \in EvidenceType /\ ~y.complete /\ y.attempts = Normalized(r.attempts)
        <4> DEFINE w == WithoutCost(r)
        <4>1. w \in EvidenceType /\ ~w.complete /\ w.attempts = r.attempts
          BY <2>1, EvidenceFields
        <4> HIDE DEF w
        <4>2. /\ Normalize(w) \in EvidenceType /\ ~Normalize(w).complete
              /\ Normalize(w).attempts = Normalized(w.attempts)
          BY <4>1, EvidenceFields
        <4>3. y = Normalize(w)
          BY <3>1 DEF w
        <4> HIDE DEF y
        <4> QED
          BY <4>1, <4>2, <4>3
      <3>5. Normalized(y.attempts) = y.attempts
        BY <2>3, <3>4, NormalizedAttempts
      <3>6. ReadRow(y) = y
        <4> HIDE DEF y
        <4>1. ReadRow(y) = WithoutCost(y)
          <5>1. Normalize(y) = y
            BY <3>4, <3>5, EvidenceFields
          <5>2. ReadRow(y) = WithoutCost(Normalize(y))
            BY <3>4, Readers
          <5> QED
            BY <5>1, <5>2
        <4>2. WithoutCost(Normalize(WithoutCost(r))) = Normalize(WithoutCost(r))
          BY <2>1, EvidenceFields
        <4> QED
          BY <3>1, <4>1, <4>2
      <3> QED
        BY <3>1, <3>3, <3>4, <3>5, <3>6 DEF Settled, r
    <2> QED
      BY <2>4, <2>5, <2>6
  <1> QED
    BY <1>1, <1>2

\* Amounts that are all known can be added up.
LEMMA KnownAttemptCosts ==
  ASSUME NEW attempts \in Attempts, AllCostsKnown(attempts)
  PROVE  Total(AttemptCosts(attempts)) \in Nat
  <1> DEFINE A == [cost : Nat \cup {Unknown}, proven : BOOLEAN]
  <1>1. attempts \in Seq(A)
    BY DEF Attempts
  <1> HIDE DEF A
  <1>2. DOMAIN attempts = 1..Len(attempts) /\ Len(attempts) \in Nat
        /\ \A i \in DOMAIN attempts : attempts[i] \in A
    BY <1>1
  <1>3. \A i \in DOMAIN attempts : attempts[i].cost \in Nat
    BY <1>2 DEF A, AllCostsKnown, CostIsKnown
  <1>4. AttemptCosts(attempts) \in Seq(Nat)
    BY <1>2, <1>3 DEF AttemptCosts
  <1> QED
    BY <1>4, TotalType

\* What the readers return for what any version recorded is valid, and claims
\* exactly the cost the recorded evidence proves.
LEMMA ReadersProveCost ==
  ASSUME NEW r, IsRecording(r)
  PROVE  TraceIsValid(ReadLine(r)) /\ ReadLine(r).cost = ProvenCost(r)
  <1> DEFINE n == Normalized(r.attempts)
             l == Normalize(r)
  <1>1. r \in EvidenceType /\ r.attempts \in Attempts
        /\ r.attemptCount \in Nat /\ r.complete \in BOOLEAN
    BY DEF IsRecording, EvidenceType, Attempts
  <1>2. /\ n \in Attempts /\ n = << >> <=> r.attempts = << >>
        /\ n # r.attempts => n # << >> /\ ~AllCostsKnown(n)
        /\ n = r.attempts <=>
             \A i \in DOMAIN r.attempts : CostIsKnown(r.attempts[i]) => r.attempts[i].proven
    BY <1>1, NormalizedAttempts
  <1>3. /\ l \in EvidenceType /\ l.attempts = n /\ l.error = r.error
        /\ l.attemptCount = r.attemptCount /\ l.cost = r.cost /\ l.complete = r.complete
        /\ n = r.attempts => l = r
    BY <1>1, EvidenceFields
  <1>4. ReadLine(r) = IF AmbiguousLegacy(r) \/ HasUnknownAttempt(n) THEN WithoutCost(l) ELSE l
    BY <1>1, Readers
  <1>5. /\ WithoutCost(l).attempts = n /\ WithoutCost(l).error = r.error
        /\ WithoutCost(l).attemptCount = r.attemptCount
        /\ WithoutCost(l).cost = Unknown /\ WithoutCost(l).complete = FALSE
    <2> HIDE DEF l, n
    <2> QED
      BY <1>3, EvidenceFields
  <1> HIDE DEF n, l
  <1>6. CASE AmbiguousLegacy(r)
    <2>1. r.attempts = << >> /\ n = << >> /\ ReadLine(r) = WithoutCost(l)
      BY <1>2, <1>4, <1>6 DEF AmbiguousLegacy
    <2>2. ProvenCost(r) = Unknown
      BY <1>1, <1>6 DEF ProvenCost, AmbiguousLegacy
    <2> QED
      BY <1>5, <2>1, <2>2 DEF TraceIsValid
  <1>7. CASE ~AmbiguousLegacy(r) /\ HasUnknownAttempt(n)
    <2>1. n # << >> /\ ~AllCostsKnown(n) /\ r.attempts # << >> /\ ReadLine(r) = WithoutCost(l)
      BY <1>2, <1>4, <1>7 DEF HasUnknownAttempt
    <2>2. TraceIsValid(ReadLine(r)) /\ ReadLine(r).cost = Unknown
      BY <1>5, <2>1 DEF TraceIsValid
    <2>3. ASSUME r.complete
          PROVE  ~ \A i \in DOMAIN r.attempts : r.attempts[i].proven
      BY <1>2, <2>1, <2>3 DEF IsRecording
    <2>4. ProvenCost(r) = Unknown
      BY <1>1, <2>1, <2>3 DEF ProvenCost
    <2> QED
      BY <2>2, <2>4
  <1>8. CASE ~AmbiguousLegacy(r) /\ ~HasUnknownAttempt(n)
    <2>1. n = r.attempts /\ ReadLine(r) = r
      BY <1>2, <1>3, <1>4, <1>8 DEF HasUnknownAttempt
    <2>2. TraceIsValid(r)
      BY <1>8 DEF IsRecording, TraceIsValid, AmbiguousLegacy
    <2>3. CASE ~r.complete
      <3>1. r.cost = Unknown
        BY <1>1, <2>3 DEF IsRecording
      <3>2. ProvenCost(r) = Unknown
        BY <2>3 DEF ProvenCost
      <3> QED
        BY <2>1, <2>2, <3>1, <3>2
    <2>4. CASE r.complete /\ r.attempts # << >>
      <3>1. AllCostsKnown(r.attempts) /\ r.cost = Total(AttemptCosts(r.attempts))
        BY <2>4 DEF IsRecording
      <3>2. \A i \in DOMAIN r.attempts : r.attempts[i].proven
        BY <1>2, <2>1, <3>1 DEF AllCostsKnown
      <3>3. ProvenCost(r) = Total(AttemptCosts(r.attempts))
        BY <2>4, <3>2 DEF ProvenCost
      <3> QED
        BY <2>1, <2>2, <3>1, <3>3
    <2>5. CASE r.complete /\ r.attempts = << >>
      <3>1. r.attemptCount \in {0, 1} /\ (r.attemptCount = 1 => r.error = NoError)
        BY <1>1, <1>8, <2>5 DEF AmbiguousLegacy
      <3>2. r.attemptCount = 0 => r.cost = 0
        BY <2>5 DEF IsRecording
      <3> QED
        BY <2>1, <2>2, <2>5, <3>1, <3>2 DEF ProvenCost
    <2> QED
      BY <1>1, <2>3, <2>4, <2>5
  <1> QED
    BY <1>6, <1>7, <1>8

\* The present version records only settled evidence.
LEMMA NewRowsAreSettled ==
  ASSUME NEW p \in Processes
  PROVE  Settled(p, Row(p).evidence)
  <1> DEFINE r == Recorded[p]
  <1>1. IsRecording(r) /\ Row(p).evidence = r
    BY RawEvidence DEF Raw, Row
  <1>2. /\ TraceIsValid(r)
        /\ \A i \in DOMAIN r.attempts : CostIsKnown(r.attempts[i]) => r.attempts[i].proven
    BY MigrationAssumption, RecordedAssumption
  <1> HIDE DEF r
  <1>3. r \in EvidenceType /\ r.attempts \in Attempts /\ r.complete \in BOOLEAN
    BY <1>1 DEF IsRecording, EvidenceType, Attempts
  <1>4. Normalized(r.attempts) = r.attempts /\ Normalize(r) = r
    BY <1>2, <1>3, NormalizedAttempts, EvidenceFields
  <1>5. r.complete => ~AmbiguousLegacy(r) /\ ~HasUnknownAttempt(r.attempts)
    BY <1>2 DEF TraceIsValid, AmbiguousLegacy, HasUnknownAttempt
  <1>6. ~r.complete => WithoutCost(r) = r
    BY <1>1, <1>3, EvidenceFields DEF IsRecording
  <1>7. ReadLine(r) = r
    BY <1>3, <1>4, <1>5, <1>6, Readers
  <1>8. ReadRow(r) = r
    BY <1>3, <1>4, <1>5, <1>6, Readers
  <1> QED
    BY <1>1, <1>4, <1>5, <1>7, <1>8 DEF Settled, r

-----------------------------------------------------------------------------
(* The evidence in the tables *)

EvidenceOf(rows) ==
  \A row \in rows : row.evidence \in Raw(row.id) \/ Settled(row.id, row.evidence)

AllSettled(rows) == \A row \in rows : Settled(row.id, row.evidence)

EvidenceKept(T) == \A n \in RowTables : EvidenceOf(T[n].rows)

TablesSettled(T) == \A t \in Rebuilt : AllSettled(T[t].rows)

\* Every row holds the evidence of its request, raw or looked at; and once an
\* upgrade is committed nobody sees a raw row in the tables that are read.
EvidenceInv ==
  /\ EvidenceKept(disk) /\ EvidenceKept(draft)
  /\ migrated => TablesSettled(disk)
  /\ \A p \in Processes :
       /\ step[p] = << "commit" >> => TablesSettled(draft)
       /\ step[p][1] \in {"done", "open_contexts", "record_contexts"} => migrated

\* Settled rows are evidence, whatever rows they are taken from.
LEMMA EvidenceOfRows ==
  ASSUME NEW R, NEW S
  PROVE  /\ EvidenceOf(R) /\ EvidenceOf(S) => EvidenceOf(R \cup S)
         /\ AllSettled(R) /\ AllSettled(S) => AllSettled(R \cup S)
         /\ AllSettled(R) => EvidenceOf(R)
         /\ S \subseteq R /\ EvidenceOf(R) => EvidenceOf(S)
         /\ EvidenceOf({}) /\ AllSettled({})
  BY DEF EvidenceOf, AllSettled

\* The statements that rewrite rows.
LEMMA RewrittenRows ==
  ASSUME NEW L, L.rows \subseteq RowType, EvidenceOf(L.rows)
  PROVE  EvidenceOf(CopiedRows(L)) /\ AllSettled(Downgraded(L.rows))
  <1>1. ASSUME NEW row \in L.rows,
               NEW copy, copy = [row EXCEPT !.evidence = IF @.complete THEN @ ELSE WithoutCost(@)]
        PROVE  copy.evidence \in Raw(copy.id) \/ Settled(copy.id, copy.evidence)
    <2>1. /\ row.id \in History \cup Processes /\ row.evidence \in EvidenceType
          /\ DOMAIN row = {"id", "evidence"}
          /\ row.evidence \in Raw(row.id) \/ Settled(row.id, row.evidence)
      BY <1>1 DEF RowType, EvidenceOf
    <2>2. /\ copy.id = row.id
          /\ copy.evidence = IF row.evidence.complete THEN row.evidence ELSE WithoutCost(row.evidence)
      BY <1>1, <2>1
    <2> QED
      BY <2>1, <2>2, CopiedStays
  <1>2. ASSUME NEW row \in L.rows,
               NEW new, new = [row EXCEPT !.evidence = ProvenanceDowngraded(AmbiguityDowngraded(@))]
        PROVE  Settled(new.id, new.evidence)
    <2>1. /\ row.id \in History \cup Processes /\ row.evidence \in EvidenceType
          /\ DOMAIN row = {"id", "evidence"}
          /\ row.evidence \in Raw(row.id) \/ Settled(row.id, row.evidence)
      BY <1>2 DEF RowType, EvidenceOf
    <2>2. /\ new.id = row.id
          /\ new.evidence = ProvenanceDowngraded(AmbiguityDowngraded(row.evidence))
      BY <1>2, <2>1
    <2> QED
      BY <2>1, <2>2, DowngradeSettles
  <1>3. EvidenceOf(CopiedRows(L))
    BY <1>1 DEF CopiedRows, EvidenceOf
  <1>4. AllSettled(Downgraded(L.rows))
    BY <1>2 DEF Downgraded, AllSettled
  <1> QED
    BY <1>3, <1>4

\* What each statement makes of the evidence in the tables.
LEMMA CreatedEvidence ==
  ASSUME NEW T, IsDatabase(T), NEW t \in Rebuilt, EvidenceKept(T)
  PROVE  /\ EvidenceKept(Created(T, t))
         /\ TablesSettled(T) => TablesSettled(Created(T, t))
  <1> DEFINE U == Created(T, t)
  <1>1. \A n \in RowTables : U[n].rows = {} \/ U[n].rows = T[n].rows
    BY LegacyNames DEF Created, Table, IsDatabase
  <1> HIDE DEF U
  <1>2. EvidenceKept(U)
    BY <1>1, EvidenceOfRows DEF EvidenceKept
  <1>3. TablesSettled(T) => TablesSettled(U)
    BY <1>1, EvidenceOfRows, LegacyNames DEF TablesSettled
  <1> QED
    BY <1>2, <1>3 DEF U

\* What each change of the tables does to the evidence: a rename keeps it.
LEMMA RenamedEvidence ==
  ASSUME NEW T, IsDatabase(T), NEW t \in Rebuilt, EvidenceKept(T)
  PROVE  /\ EvidenceKept(Renamed(T, t))
         /\ TablesSettled(T) => TablesSettled(Renamed(T, t))
  <1> DEFINE U == Renamed(T, t)
  <1>1. /\ \A n \in RowTables : U[n].rows \in {{}, T[n].rows, T[t].rows}
        /\ \A n \in Rebuilt : U[n].rows = {} \/ U[n].rows = T[n].rows
    BY LegacyNames DEF Renamed, NoTable, IsDatabase, RowTables, Rebuilt
  <1> HIDE DEF U
  <1>2. EvidenceKept(U)
    BY <1>1, EvidenceOfRows, LegacyNames DEF EvidenceKept
  <1>3. TablesSettled(T) => TablesSettled(U)
    BY <1>1, EvidenceOfRows DEF TablesSettled
  <1> QED
    BY <1>2, <1>3 DEF U

\* So does the copy, whatever schema the rows come from.
LEMMA CopiedTableEvidence ==
  ASSUME NEW T, IsDatabase(T), NEW t \in Rebuilt, EvidenceKept(T), Exists(T[t])
  PROVE  EvidenceKept(Copied(T, t))
  <1> DEFINE U == Copied(T, t)
  <1>1. /\ U[t].rows = T[t].rows \cup CopiedRows(T[Legacy[t]])
        /\ \A n \in RowTables \ {t} : U[n] = T[n]
    BY LegacyNames DEF Copied, IsDatabase
  <1> HIDE DEF U
  <1>2. EvidenceOf(CopiedRows(T[Legacy[t]])) /\ EvidenceOf(T[t].rows)
    BY RewrittenRows, LegacyNames DEF EvidenceKept, IsDatabase
  <1>3. EvidenceOf(U[t].rows)
    BY <1>1, <1>2, EvidenceOfRows
  <1> QED
    BY <1>1, <1>3 DEF EvidenceKept, U

\* So does the drop.
LEMMA DroppedEvidence ==
  ASSUME NEW T, IsDatabase(T), NEW t \in Rebuilt, EvidenceKept(T)
  PROVE  EvidenceKept(Dropped(T, t))
  <1> DEFINE U == Dropped(T, t)
  <1>1. U[Legacy[t]] = NoTable /\ \A n \in RowTables \ {Legacy[t]} : U[n] = T[n]
    BY DroppedTable
  <1> HIDE DEF U
  <1> QED
    BY <1>1, EvidenceOfRows DEF EvidenceKept, NoTable, U

\* Usage that is backfilled has the evidence of its trace.
LEMMA BackfilledEvidence ==
  ASSUME NEW T, IsDatabase(T), Exists(T.usage), EvidenceKept(T)
  PROVE  EvidenceKept(Backfilled(T))
  <1> DEFINE U == Backfilled(T)
  <1>1. /\ \A n \in RowTables \ {"usage"} : U[n] = T[n]
        /\ U.usage.rows \subseteq T.usage.rows \cup T.traces.rows
    BY BackfilledTable
  <1> HIDE DEF U
  <1>2. EvidenceOf(T.usage.rows) /\ EvidenceOf(T.traces.rows)
    BY DEF EvidenceKept, RowTables
  <1>3. EvidenceOf(U.usage.rows)
    BY <1>1, <1>2, EvidenceOfRows
  <1> QED
    BY <1>1, <1>3 DEF EvidenceKept, U

\* The downgrade settles every row.
LEMMA DowngradedEvidence ==
  ASSUME NEW T, IsDatabase(T), EvidenceKept(T)
  PROVE  EvidenceKept(DowngradedBoth(T)) /\ TablesSettled(DowngradedBoth(T))
  <1> DEFINE U == DowngradedBoth(T)
  <1>1. /\ \A t \in Rebuilt : U[t].rows = Downgraded(T[t].rows)
        /\ U.traces_legacy = T.traces_legacy /\ U.usage_legacy = T.usage_legacy
    BY DowngradedTables
  <1> HIDE DEF U
  <1>2. \A t \in Rebuilt : AllSettled(U[t].rows)
    BY <1>1, RewrittenRows, LegacyNames DEF EvidenceKept, IsDatabase
  <1>3. RowTables = Rebuilt \cup {"traces_legacy", "usage_legacy"}
    BY DEF RowTables, Rebuilt
  <1>4. \A n \in RowTables : EvidenceOf(U[n].rows)
    BY <1>1, <1>2, <1>3, EvidenceOfRows DEF EvidenceKept
  <1> QED
    BY <1>2, <1>4 DEF EvidenceKept, TablesSettled, U

\* A run files settled rows.
LEMMA RunEvidence ==
  ASSUME NEW T, IsDatabase(T), Exists(T.traces), Exists(T.usage), NEW p \in Processes,
         EvidenceKept(T)
  PROVE  /\ EvidenceKept(WithRun(T, p))
         /\ TablesSettled(T) => TablesSettled(WithRun(T, p))
  <1> DEFINE U == WithRun(T, p)
  <1>1. /\ \A t \in Rebuilt : U[t].rows = T[t].rows \cup {Row(p)}
        /\ U.traces_legacy = T.traces_legacy /\ U.usage_legacy = T.usage_legacy
    BY RunTables
  <1> HIDE DEF U
  <1>2. AllSettled({Row(p)})
    BY NewRowsAreSettled DEF AllSettled, Row
  <1>3. RowTables = Rebuilt \cup {"traces_legacy", "usage_legacy"}
    BY DEF RowTables, Rebuilt
  <1>4. EvidenceKept(U)
    BY <1>1, <1>2, <1>3, EvidenceOfRows DEF EvidenceKept
  <1>5. ASSUME TablesSettled(T) PROVE TablesSettled(U)
    <2>1. ASSUME NEW t \in Rebuilt PROVE AllSettled(U[t].rows)
      <3>1. AllSettled(T[t].rows) /\ U[t].rows = T[t].rows \cup {Row(p)}
        BY <1>1, <1>5 DEF TablesSettled
      <3> QED
        BY <1>2, <3>1, EvidenceOfRows
    <2> QED
      BY <2>1 DEF TablesSettled
  <1> QED
    BY <1>4, <1>5 DEF U

\* Where the writers' moves lead.
LEMMA MovesBeforeCommit ==
  /\ \A t \in Rebuilt :
       /\ \A s \in RebuildSteps :
            /\ << s, t >> \in Steps /\ << s, t >> # << "commit" >>
            /\ << s, t >>[1] \notin {"done", "open_contexts", "record_contexts"}
       /\ AfterTable(t) \in Steps /\ AfterTable(t) # << "commit" >>
       /\ AfterTable(t)[1] \notin {"done", "open_contexts", "record_contexts"}
  /\ << "downgrade" >> \in Steps /\ << "commit" >> \in Steps /\ << "failed" >> \in Steps
  BY DEF Steps, RebuildSteps, Rebuilt, AfterTable

\* A step that leaves the tables alone, and does not reach a commit.
LEMMA MoveKeepsEvidence ==
  ASSUME HistoryInv, EvidenceInv, NEW p \in Processes, NEW next \in Steps, Goto(p, next),
         UNCHANGED << disk, draft, migrated >>, next # << "commit" >>,
         next[1] \notin {"done", "open_contexts", "record_contexts"}
  PROVE  EvidenceInv'
  <1>1. step'[p] = next /\ \A q \in Processes \ {p} : step'[q] = step[q]
    BY GotoType
  <1> QED
    BY <1>1 DEF EvidenceInv, EvidenceKept, TablesSettled, EvidenceOf, AllSettled

\* A write of tables that keep the evidence, settled if it is the last.
LEMMA WriteKeepsEvidence ==
  ASSUME HistoryInv, EvidenceInv, NEW p \in Processes, NEW next \in Steps, Goto(p, next),
         NEW kind, NEW tables, Write(p, kind, tables), EvidenceKept(tables),
         next = << "commit" >> => TablesSettled(tables),
         next[1] \notin {"done", "open_contexts", "record_contexts"},
         writer # p /\ kind # "dml" => (TablesSettled(draft) => TablesSettled(tables))
  PROVE  EvidenceInv'
  <1>1. step'[p] = next /\ \A q \in Processes \ {p} : step'[q] = step[q]
    BY GotoType
  <1>2. /\ writer \in {Nobody, p} /\ draft' = tables /\ migrated' = migrated
        /\ disk' \in {disk, tables}
        /\ writer = p \/ kind = "dml" => disk' = disk
    BY DEF Write, histories
  <1>3. \A q \in Processes \ {p} : step[q] # << "commit" >>
    BY <1>2, MigrationAssumption DEF HistoryInv
  <1>4. EvidenceKept(disk') /\ EvidenceKept(draft')
    BY <1>2 DEF EvidenceInv
  <1>5. migrated => TablesSettled(disk')
    <2>1. CASE writer = p \/ kind = "dml"
      BY <1>2, <2>1 DEF EvidenceInv
    <2>2. CASE writer # p /\ kind # "dml"
      BY <1>2, <2>2 DEF EvidenceInv, HistoryInv
    <2> QED
      BY <2>1, <2>2
  <1>6. \A q \in Processes :
          /\ step'[q] = << "commit" >> => TablesSettled(draft')
          /\ step'[q][1] \in {"done", "open_contexts", "record_contexts"} => migrated
    BY <1>1, <1>2, <1>3 DEF EvidenceInv
  <1> QED
    BY <1>2, <1>4, <1>5, <1>6
    DEF EvidenceInv, EvidenceKept, TablesSettled, EvidenceOf, AllSettled

\* A failed upgrade rolls back to what was committed.
LEMMA AbandonKeepsEvidence ==
  ASSUME HistoryInv, EvidenceInv, NEW p \in Processes, Abandon(p)
  PROVE  EvidenceInv'
  <1>1. Goto(p, << "failed" >>) /\ UNCHANGED << disk, migrated >> /\ draft' \in {draft, disk}
        /\ (writer # p => draft' = draft)
    BY DEF Abandon
  <1>2. step'[p] = << "failed" >> /\ \A q \in Processes \ {p} : step'[q] = step[q]
    BY <1>1, MovesBeforeCommit, GotoType
  <1>3. \A q \in Processes :
          /\ step'[q] = << "commit" >> => TablesSettled(draft')
          /\ step'[q][1] \in {"done", "open_contexts", "record_contexts"} => migrated
    BY <1>1, <1>2 DEF EvidenceInv, HistoryInv
  <1>4. EvidenceKept(draft')
    BY <1>1 DEF EvidenceInv
  <1> QED
    BY <1>1, <1>3, <1>4
    DEF EvidenceInv, EvidenceKept, TablesSettled, EvidenceOf, AllSettled

\* A table that is created is empty.
LEMMA CreateKeepsEvidence ==
  ASSUME HistoryInv, EvidenceInv, NEW p \in Processes, NEW t \in Rebuilt,
         NEW s \in RebuildSteps, CreateIfMissing(p, t), Goto(p, << s, t >>)
  PROVE  EvidenceInv'
  <1>1. CASE UNCHANGED << disk, draft, writer, histories >>
    BY <1>1, MovesBeforeCommit, MoveKeepsEvidence DEF histories
  <1>2. CASE Write(p, "ddl", Created(draft, t))
    <2>1. /\ EvidenceKept(Created(draft, t))
          /\ TablesSettled(draft) => TablesSettled(Created(draft, t))
      BY CreatedEvidence DEF HistoryInv, EvidenceInv
    <2> QED
      BY <1>2, <2>1, MovesBeforeCommit, WriteKeepsEvidence
  <1> QED
    BY <1>1, <1>2, CreateWrites

\* The three steps of a rebuild.
LEMMA RebuildKeepsEvidence ==
  ASSUME HistoryInv, EvidenceInv, NEW p \in Processes, NEW t \in Rebuilt,
         RenameTable(p, t) \/ CopyRows(p, t) \/ DropLegacy(p, t)
  PROVE  EvidenceInv'
  <1>1. CASE RenameTable(p, t)
    <2>1. Write(p, "ddl", Renamed(draft, t)) /\ Goto(p, << "recreate", t >>)
      BY <1>1, RenameWrites
    <2>2. /\ EvidenceKept(Renamed(draft, t))
          /\ TablesSettled(draft) => TablesSettled(Renamed(draft, t))
      BY RenamedEvidence DEF HistoryInv, EvidenceInv
    <2> QED
      BY <2>1, <2>2, MovesBeforeCommit, WriteKeepsEvidence DEF RebuildSteps
  <1>2. CASE CopyRows(p, t)
    <2>1. /\ Write(p, "dml", Copied(draft, t)) /\ Goto(p, << "drop", t >>)
          /\ Exists(draft[t])
      BY <1>2, CopyWrites
    <2>2. EvidenceKept(Copied(draft, t))
      BY <2>1, CopiedTableEvidence DEF HistoryInv, EvidenceInv
    <2> QED
      BY <2>1, <2>2, MovesBeforeCommit, WriteKeepsEvidence DEF RebuildSteps
  <1>3. CASE DropLegacy(p, t)
    <2>1. /\ Write(p, "ddl", Dropped(draft, t)) /\ Goto(p, AfterTable(t))
          /\ writer = p
      BY <1>3, DropWrites
    <2>2. EvidenceKept(Dropped(draft, t))
      BY DroppedEvidence DEF HistoryInv, EvidenceInv
    <2> QED
      BY <2>1, <2>2, MovesBeforeCommit, WriteKeepsEvidence
  <1> QED
    BY <1>1, <1>2, <1>3

\* The two steps that update rows.
LEMMA UpdatesKeepEvidence ==
  ASSUME HistoryInv, EvidenceInv, NEW p \in Processes, Backfill(p) \/ Downgrade(p)
  PROVE  EvidenceInv'
  <1>1. CASE Backfill(p)
    <2>1. /\ Write(p, "dml", Backfilled(draft)) /\ Goto(p, << "downgrade" >>)
          /\ Exists(draft.usage)
      BY <1>1, BackfillWrites
    <2>2. EvidenceKept(Backfilled(draft))
      BY <2>1, BackfilledEvidence DEF HistoryInv, EvidenceInv
    <2> QED
      BY <2>1, <2>2, MovesBeforeCommit, WriteKeepsEvidence
  <1>2. CASE Downgrade(p)
    <2>1. Write(p, "dml", DowngradedBoth(draft)) /\ Goto(p, << "commit" >>)
      BY <1>2, DowngradeWrites
    <2>2. EvidenceKept(DowngradedBoth(draft)) /\ TablesSettled(DowngradedBoth(draft))
      BY DowngradedEvidence DEF HistoryInv, EvidenceInv
    <2> QED
      BY <2>1, <2>2, MovesBeforeCommit, WriteKeepsEvidence
  <1> QED
    BY <1>1, <1>2

\* Only a settled draft is committed.
LEMMA CommitKeepsEvidence ==
  ASSUME HistoryInv, EvidenceInv, NEW p \in Processes, CommitMigration(p)
  PROVE  EvidenceInv'
  <1>1. /\ disk' = draft /\ draft' = draft /\ migrated' /\ step[p] = << "commit" >>
        /\ Goto(p, << "done" >>) /\ writer = p
    BY DEF CommitMigration, HistoryInv
  <1>2. step'[p] = << "done" >> /\ \A q \in Processes \ {p} : step'[q] = step[q]
    BY <1>1, GotoType DEF Steps
  <1>3. TablesSettled(draft) /\ EvidenceKept(draft)
    BY <1>1 DEF EvidenceInv
  <1> QED
    BY <1>1, <1>2, <1>3 DEF EvidenceInv, EvidenceKept, TablesSettled, EvidenceOf, AllSettled

\* The transactions of the ledger and of the context store.
LEMMA TransactionKeepsEvidence ==
  ASSUME HistoryInv, EvidenceInv, NEW p \in Processes, NEW next \in Steps, Goto(p, next),
         step[p][1] \in {"done", "open_contexts", "record_contexts"}, next # << "commit" >>,
         NEW tables, Transaction(p, tables), UNCHANGED migrated,
         EvidenceKept(tables), TablesSettled(disk) => TablesSettled(tables)
  PROVE  EvidenceInv'
  <1>1. step'[p] = next /\ \A q \in Processes \ {p} : step'[q] = step[q]
    BY GotoType
  <1>2. disk' = tables /\ draft' = tables /\ writer = Nobody /\ migrated
    BY DEF Transaction, EvidenceInv
  <1>5. \A q \in Processes : step[q] # << "commit" >>
    BY <1>2, MigrationAssumption DEF HistoryInv
  <1>3. \A q \in Processes : step'[q] # << "commit" >>
    BY <1>1, <1>5
  <1>4. TablesSettled(tables)
    BY <1>2 DEF EvidenceInv
  <1> QED
    BY <1>2, <1>3, <1>4 DEF EvidenceInv, EvidenceKept, TablesSettled, EvidenceOf, AllSettled

\* The writes that come after an upgrade.
LEMMA RecordingKeepsEvidence ==
  ASSUME HistoryInv, EvidenceInv, NEW p \in Processes,
         RecordRun(p) \/ OpenContexts(p) \/ RecordContexts(p)
  PROVE  EvidenceInv'
  <1>1. << "open_contexts" >> \in Steps /\ << "record_contexts" >> \in Steps /\ << "done" >> \in Steps
    BY DEF Steps
  <1>2. CASE RecordRun(p)
    <2>1. /\ Transaction(p, WithRun(disk, p)) /\ Goto(p, << "open_contexts" >>)
          /\ Exists(disk.traces) /\ Exists(disk.usage) /\ step[p] = << "done" >>
          /\ UNCHANGED migrated
      BY <1>2 DEF RecordRun, WithRun
    <2>2. /\ EvidenceKept(WithRun(disk, p))
          /\ TablesSettled(disk) => TablesSettled(WithRun(disk, p))
      BY <2>1, RunEvidence DEF HistoryInv, EvidenceInv
    <2> QED
      BY <1>1, <2>1, <2>2, TransactionKeepsEvidence
  <1>3. CASE OpenContexts(p)
    <2>1. /\ Transaction(p, WithContextTable(disk)) /\ Goto(p, << "record_contexts" >>)
          /\ step[p] = << "open_contexts" >> /\ UNCHANGED migrated
      BY <1>3 DEF OpenContexts, WithContextTable, histories
    <2>2. \A n \in RowTables : WithContextTable(disk)[n] = disk[n]
      BY ContextTables DEF HistoryInv
    <2>3. /\ EvidenceKept(WithContextTable(disk))
          /\ TablesSettled(disk) => TablesSettled(WithContextTable(disk))
      BY <2>2, LegacyNames DEF EvidenceInv, EvidenceKept, TablesSettled
    <2> QED
      BY <1>1, <2>1, <2>3, TransactionKeepsEvidence
  <1>4. CASE RecordContexts(p)
    <2>1. /\ Transaction(p, WithContext(disk, p)) /\ Goto(p, << "done" >>)
          /\ step[p] = << "record_contexts" >> /\ UNCHANGED migrated
      BY <1>4 DEF RecordContexts, WithContext
    <2>2. \A n \in RowTables : WithContext(disk, p)[n] = disk[n]
      BY ContextTables DEF HistoryInv
    <2>3. /\ EvidenceKept(WithContext(disk, p))
          /\ TablesSettled(disk) => TablesSettled(WithContext(disk, p))
      BY <2>2, LegacyNames DEF EvidenceInv, EvidenceKept, TablesSettled
    <2> QED
      BY <1>1, <2>1, <2>3, TransactionKeepsEvidence
  <1> QED
    BY <1>2, <1>3, <1>4

\* The evidence of an old ledger is what its rows prove.
LEMMA EvidenceInvInit == MigrationInit => EvidenceInv
  <1> SUFFICES ASSUME MigrationInit PROVE EvidenceInv
    OBVIOUS
  <1>1. PICK traces \in OldTables, usage \in OldTables \cup {NoTable} :
          disk = [ traces |-> traces, traces_legacy |-> NoTable, usage |-> usage,
                   usage_legacy |-> NoTable, contexts |-> NoContexts ]
    BY DEF MigrationInit, OldDatabases
  <1>2. draft = disk /\ ~migrated /\ \A p \in Processes : step[p] = << "idle" >>
    BY DEF MigrationInit
  <1>3. \A table \in OldTables \cup {NoTable} : EvidenceOf(table.rows)
    <2>1. \A h \in History : Row(h).id = h /\ StrictRow(h).id = h
      BY DEF Row, StrictRow
    <2>2. EvidenceOf({StrictRow(h) : h \in History}) /\ EvidenceOf({Row(h) : h \in History})
      BY <2>1 DEF EvidenceOf, Raw
    <2>3. EvidenceOf({})
      BY EvidenceOfRows
    <2> QED
      BY <2>2, <2>3 DEF OldTables, Table, NoTable
  <1>4. EvidenceKept(disk)
    BY <1>1, <1>3 DEF EvidenceKept, RowTables
  <1> QED
    BY <1>2, <1>4 DEF EvidenceInv

\* Every step preserves it.
LEMMA EvidenceInvNext ==
  HistoryInv /\ EvidenceInv /\ [MigrationNext]_migrationVars => EvidenceInv'
  <1> SUFFICES ASSUME HistoryInv, EvidenceInv, [MigrationNext]_migrationVars PROVE EvidenceInv'
    OBVIOUS
  <1>1. CASE UNCHANGED migrationVars
    BY <1>1 DEF migrationVars, histories, EvidenceInv, EvidenceKept, TablesSettled, EvidenceOf,
                AllSettled
  <1>2. ASSUME NEW p \in Processes,
               \/ Initialize(p) \/ RecordRun(p) \/ RecordRunFails(p) \/ Migrate(p)
               \/ Interrupted(p)
        PROVE  EvidenceInv'
    <2>1. ASSUME NEW t \in Rebuilt, CreateTable(p, t) \/ RecreateTable(p, t)
          PROVE  EvidenceInv'
      BY <2>1, CreateKeepsEvidence DEF CreateTable, RecreateTable, RebuildSteps
    <2>2. ASSUME NEW t \in Rebuilt, InspectTable(p, t) PROVE EvidenceInv'
      <3>1. /\ UNCHANGED << disk, draft, migrated >>
            /\ Goto(p, << "rename", t >>) \/ Goto(p, AfterTable(t))
        BY <2>2 DEF InspectTable, histories
      <3> QED
        BY <3>1, MovesBeforeCommit, MoveKeepsEvidence DEF RebuildSteps
    <2>3. ASSUME NEW t \in Rebuilt, RenameTable(p, t) \/ CopyRows(p, t) \/ DropLegacy(p, t)
          PROVE  EvidenceInv'
      BY <2>3, RebuildKeepsEvidence
    <2>4. Backfill(p) \/ Downgrade(p) \/ CommitMigration(p) => EvidenceInv'
      BY UpdatesKeepEvidence, CommitKeepsEvidence
    <2>5. RecordRun(p) \/ OpenContexts(p) \/ RecordContexts(p) \/ Abandon(p) => EvidenceInv'
      BY RecordingKeepsEvidence, AbandonKeepsEvidence
    <2>6. ASSUME Initialize(p) PROVE EvidenceInv'
      <3>1. UNCHANGED << disk, draft, migrated >> /\ Goto(p, << "create", "traces" >>)
        BY <2>6 DEF Initialize
      <3> QED
        BY <3>1, MovesBeforeCommit, MoveKeepsEvidence DEF RebuildSteps, Rebuilt
    <2> QED
      BY <1>2, <2>1, <2>2, <2>3, <2>4, <2>5, <2>6, ProcessSteps
  <1> QED
    BY <1>1, <1>2 DEF MigrationNext

\* In every reachable state each row holds the evidence of its request.
LEMMA EvidenceIsKept == MigrationSpec => [](HistoryInv /\ EvidenceInv)
  <1>1. MigrationInit => HistoryInv /\ EvidenceInv
    BY HistoryInvInit, EvidenceInvInit
  <1>2. HistoryInv /\ EvidenceInv /\ [MigrationNext]_migrationVars => (HistoryInv /\ EvidenceInv)'
    BY HistoryInvNext, EvidenceInvNext
  <1> QED
    BY <1>1, <1>2, PTL DEF MigrationSpec

\* The route stores agree, and neither keeps an estimate without its quote.
LEMMA RoutesAreRead ==
  ASSUME NEW route \in Routes
  PROVE  /\ RouteIsValid(ReadRouteLine(route))
         /\ ReadRouteRow(route) = ReadRouteLine(route)
  BY RoutesAssumption DEF RouteIsValid, ReadRouteLine, ReadRouteRow

\* Once any upgrade has returned, every reader of a request gets the same valid
\* evidence with exactly the cost it proves, from either store and whoever is
\* rebuilding a table at the time ("fail-closed economic provenance").
THEOREM ReadersSeeProvenCost == MigrationSpec => []EveryReaderSeesProvenCost
  <1>1. HistoryInv /\ EvidenceInv => EveryReaderSeesProvenCost
    <2> SUFFICES ASSUME HistoryInv, EvidenceInv PROVE EveryReaderSeesProvenCost
      OBVIOUS
    <2>1. ASSUME migrated, NEW t \in Rebuilt, NEW row \in disk[t].rows
          PROVE  /\ ReadRow(row.evidence) = ReadLine(Recorded[row.id])
                 /\ TraceIsValid(ReadRow(row.evidence))
                 /\ ReadRow(row.evidence).cost = ProvenCost(Recorded[row.id])
      <3>1. ReadRow(row.evidence) = ReadLine(Recorded[row.id])
        BY <2>1 DEF EvidenceInv, TablesSettled, AllSettled, Settled
      <3>2. row.id \in History \cup Processes
        BY LegacyNames DEF HistoryInv, IsDatabase, RowType
      <3>3. IsRecording(Recorded[row.id])
        BY <3>2, RawEvidence DEF Raw
      <3> QED
        BY <3>1, <3>3, ReadersProveCost
    <2> QED
      BY <2>1, RoutesAreRead DEF EveryReaderSeesProvenCost, Rebuilt
  <1> QED
    BY <1>1, EvidenceIsKept, PTL

\* A settled row that claims a cost is a request that was recorded with it,
\* and every reader says the same.
LEMMA ClaimedCostWasRecorded ==
  ASSUME NEW h \in History \cup Processes, NEW x \in EvidenceType, Settled(h, x), x.complete
  PROVE  /\ Recorded[h].complete /\ Recorded[h].cost # Unknown
         /\ ReadLine(Recorded[h]).complete
         /\ ReadLine(Recorded[h]).cost = Recorded[h].cost
  <1> DEFINE r == Recorded[h]
  <1>1. IsRecording(r)
    BY RawEvidence DEF Raw
  <1> HIDE DEF r
  <1>2. r \in EvidenceType /\ (r.complete <=> r.cost # Unknown)
    BY <1>1 DEF IsRecording
  <1>3. ReadRow(x) = x
    BY Readers, EvidenceFields DEF Settled
  <1>4. ReadLine(r).complete
    BY <1>3 DEF Settled, r
  <1>5. /\ Normalize(r).cost = r.cost /\ Normalize(r).complete = r.complete
        /\ WithoutCost(Normalize(r)).complete = FALSE
    <2>1. Normalize(r) \in EvidenceType
      BY <1>2, EvidenceFields
    <2> QED
      BY <1>2, <2>1, EvidenceFields
  <1>6. ReadLine(r) = WithoutCost(Normalize(r)) \/ ReadLine(r) = Normalize(r)
    BY <1>2, Readers
  <1> QED
    BY <1>2, <1>4, <1>5, <1>6 DEF r

\* Whatever run the requests formed and whichever version reported it, its
\* report claims a cost only if the usage summary of the run claims the same.
THEOREM ReportsAgreeWithUsage == MigrationSpec => []ReportsFollowTraces
  <1>1. HistoryInv /\ EvidenceInv => ReportsFollowTraces
    <2> SUFFICES
          ASSUME HistoryInv, EvidenceInv, migrated,
                 NEW run \in SUBSET (History \cap RowIds(disk.traces) \cap RowIds(disk.usage)),
                 NEW flagged \in BOOLEAN,
                 NEW evidence, evidence = {row.evidence : row \in {r \in disk.traces.rows : r.id \in run}},
                 NEW usage, usage = [h \in run |->
                      ReadRow((CHOOSE row \in disk.usage.rows : row.id = h).evidence)],
                 NEW report, report = ReadReport(OldReport(run, flagged), evidence),
                 report.complete
          PROVE  UsageSummary(usage) = report
      BY DEF ReportsFollowTraces
    <2>1. \A row \in evidence : row.complete /\ row.cost # Unknown
      BY DEF ReadReport
    <2>2. ASSUME NEW h \in run
          PROVE  /\ Recorded[h].complete /\ Recorded[h].cost # Unknown
                 /\ usage[h].complete /\ usage[h].cost = Recorded[h].cost
      <3>1. PICK row \in disk.traces.rows : row.id = h
        BY DEF RowIds
      <3>2. row \in RowType /\ Settled(h, row.evidence) /\ row.evidence.complete
        BY <2>1, <3>1 DEF HistoryInv, IsDatabase, RowTables, EvidenceInv, TablesSettled, AllSettled,
                          Rebuilt
      <3>3. /\ Recorded[h].complete /\ Recorded[h].cost # Unknown
            /\ ReadLine(Recorded[h]).complete
            /\ ReadLine(Recorded[h]).cost = Recorded[h].cost
        BY <3>2, ClaimedCostWasRecorded DEF RowType
      <3> DEFINE used == CHOOSE r \in disk.usage.rows : r.id = h
      <3>4. used \in disk.usage.rows /\ used.id = h
        BY DEF RowIds
      <3> HIDE DEF used
      <3>5. ReadRow(used.evidence) = ReadLine(Recorded[h])
        BY <3>4 DEF EvidenceInv, TablesSettled, AllSettled, Rebuilt, Settled
      <3>6. usage[h] = ReadRow(used.evidence)
        BY DEF used
      <3> QED
        BY <3>3, <3>5, <3>6
    <2>3. DOMAIN usage = run
      OBVIOUS
    <2>4. UsageSummary(usage) = [complete |-> TRUE, cost |-> Total([h \in run |-> Recorded[h].cost])]
      <3>1. [h \in DOMAIN usage |-> usage[h].cost] = [h \in run |-> Recorded[h].cost]
        BY <2>2, <2>3
      <3>2. \A h \in DOMAIN usage : usage[h].complete /\ usage[h].cost # Unknown
        BY <2>2, <2>3
      <3> QED
        BY <3>1, <3>2 DEF UsageSummary
    <2>5. OldReport(run, flagged).cost = Total([h \in run |-> Recorded[h].cost])
      BY <2>2 DEF OldReport
    <2>6. report = [complete |-> TRUE, cost |-> OldReport(run, flagged).cost]
      BY DEF ReadReport
    <2> QED
      BY <2>4, <2>5, <2>6
  <1> QED
    BY <1>1, EvidenceIsKept, PTL

-----------------------------------------------------------------------------
(* One upgrade at a time: what happens to the contexts *)

UpgradeSteps ==
  (RebuildSteps \X Rebuilt) \cup {<< "backfill" >>, << "downgrade" >>, << "commit" >>}

\* The steps of a rebuild of the trace table, and those after one.
TracesRebuilt == {"rename", "recreate", "copy", "drop"} \X {"traces"}

TracesReady ==
  {<< "copy", "traces" >>, << "drop", "traces" >>, << "backfill" >>, << "downgrade" >>,
   << "commit" >>} \cup (RebuildSteps \X {"usage"})

\* The trace table is rebuilt only before the first upgrade has been committed,
\* and every step of an upgrade finds it as the steps before have left it.
StepFits(s, traces, m) ==
  /\ s \in TracesRebuilt => ~m
  /\ s = << "recreate", "traces" >> => traces.schema # "strict"
  /\ s \in TracesReady => traces.schema = "nullable"

\* As long as no two upgrades were under way at once.
ContextsInv ==
  ~overlap =>
    /\ \A p, q \in Processes : step[p] \in UpgradeSteps /\ step[q] \in UpgradeSteps => p = q
    /\ draft.contexts = disk.contexts
    /\ filed.contexts \subseteq disk.contexts.rows
    /\ disk.contexts.parent \in {"none", "traces"}
    /\ ~migrated => disk.contexts = NoContexts
    /\ migrated => disk.traces.schema = "nullable"
    /\ \A p \in Processes : StepFits(step[p], draft.traces, migrated)

\* Who upgrades can be told from the step, and only who upgrades writes.
LEMMA UpgradeStepNames ==
  ASSUME HistoryInv, NEW p \in Processes
  PROVE  /\ Upgrading(p) <=> step[p] \in UpgradeSteps
         /\ writer = p => step[p] \in UpgradeSteps
  <1>1. step[p] \in Steps
    BY DEF HistoryInv
  <1>2. Upgrading(p) <=> step[p] \in UpgradeSteps
    BY <1>1 DEF Upgrading, Active, UpgradeSteps, Steps, RebuildSteps
  <1>3. Held \subseteq UpgradeSteps
    BY DEF Held, UpgradeSteps, RebuildSteps, Rebuilt
  <1> QED
    BY <1>2, <1>3 DEF HistoryInv

\* The steps that are not of an upgrade fit anything.
LEMMA OtherStepsFit ==
  ASSUME NEW s, s \notin UpgradeSteps, NEW traces, NEW m
  PROVE  StepFits(s, traces, m)
  BY DEF StepFits, UpgradeSteps, TracesRebuilt, TracesReady, RebuildSteps, Rebuilt

\* The process that upgrades sees the draft: there is nobody else to write one.
LEMMA UpgraderSeesDraft ==
  ASSUME HistoryInv, ContextsInv, ~overlap, NEW p \in Processes, step[p] \in UpgradeSteps
  PROVE  writer \in {Nobody, p} /\ View(p) = draft
  <1>1. writer \in {Nobody, p}
    BY UpgradeStepNames DEF HistoryInv, ContextsInv
  <1> QED
    BY <1>1, WriterSeesDraft

\* A process moves on and the tables stay.
LEMMA MoveKeepsContexts ==
  ASSUME HistoryInv, ContextsInv, ~overlap, NEW p \in Processes, NEW next \in Steps,
         Goto(p, next), UNCHANGED << disk, migrated, filed >>, draft' \in {draft, disk},
         \A q \in Processes \ {p} : step[q] \in UpgradeSteps => next \notin UpgradeSteps /\ draft' = draft,
         StepFits(next, draft'.traces, migrated)
  PROVE  ContextsInv'
  <1>1. step'[p] = next /\ \A q \in Processes \ {p} : step'[q] = step[q]
    BY GotoType
  <1>2. \A q \in Processes : StepFits(step'[q], draft'.traces, migrated)
    BY <1>1, OtherStepsFit DEF ContextsInv
  <1>3. \A q, r \in Processes : step'[q] \in UpgradeSteps /\ step'[r] \in UpgradeSteps => q = r
    BY <1>1 DEF ContextsInv
  <1> QED
    BY <1>2, <1>3 DEF ContextsInv, StepFits

\* A statement of the upgrade that writes.
LEMMA WriteKeepsContexts ==
  ASSUME HistoryInv, ContextsInv, ~overlap, NEW p \in Processes, step[p] \in UpgradeSteps,
         NEW next \in Steps, Goto(p, next),
         NEW kind, NEW tables, Write(p, kind, tables), tables.contexts = draft.contexts,
         migrated => tables.traces.schema = "nullable",
         StepFits(next, tables.traces, migrated)
  PROVE  ContextsInv'
  <1>1. step'[p] = next /\ \A q \in Processes \ {p} : step'[q] = step[q]
    BY GotoType
  <1>2. /\ draft' = tables /\ disk' \in {disk, tables} /\ UNCHANGED << migrated, filed, overlap >>
    BY DEF Write, histories
  <1>3. \A q \in Processes \ {p} : step[q] \notin UpgradeSteps
    BY DEF ContextsInv
  <1>4. \A q \in Processes : StepFits(step'[q], draft'.traces, migrated)
    BY <1>1, <1>2, <1>3, OtherStepsFit
  <1>5. \A q, r \in Processes : step'[q] \in UpgradeSteps /\ step'[r] \in UpgradeSteps => q = r
    BY <1>1, <1>3
  <1>6. /\ draft'.contexts = disk'.contexts /\ disk'.contexts = disk.contexts
        /\ migrated => disk'.traces.schema = "nullable"
    BY <1>2 DEF ContextsInv
  <1> QED
    BY <1>2, <1>4, <1>5, <1>6 DEF ContextsInv, StepFits

\* Contexts survive an upgrade that fails.
LEMMA AbandonKeepsContexts ==
  ASSUME HistoryInv, ContextsInv, ~overlap, NEW p \in Processes, Abandon(p)
  PROVE  ContextsInv'
  <1>1. /\ Goto(p, << "failed" >>) /\ UNCHANGED << disk, migrated, filed >>
        /\ draft' \in {draft, disk} /\ (writer # p => draft' = draft)
    BY DEF Abandon
  <1>2. << "failed" >> \in Steps /\ << "failed" >> \notin UpgradeSteps
    BY DEF Steps, UpgradeSteps, RebuildSteps
  <1>3. ASSUME NEW q \in Processes \ {p}, step[q] \in UpgradeSteps PROVE draft' = draft
    BY <1>1, <1>3, UpgradeStepNames DEF ContextsInv
  <1> QED
    BY <1>1, <1>2, <1>3, OtherStepsFit, MoveKeepsContexts

\* Without overlap nobody else upgrades when one begins.
LEMMA InitializeKeepsContexts ==
  ASSUME HistoryInv, ContextsInv, NEW p \in Processes, Initialize(p), ~overlap'
  PROVE  ContextsInv'
  <1>1. /\ Goto(p, << "create", "traces" >>) /\ UNCHANGED << disk, draft, migrated, filed >>
        /\ ~overlap /\ \A q \in Processes : ~Upgrading(q)
    BY DEF Initialize
  <1>2. \A q \in Processes : step[q] \notin UpgradeSteps
    BY <1>1, UpgradeStepNames
  <1>3. << "create", "traces" >> \in Steps
    BY DEF Steps, RebuildSteps, Rebuilt
  <1>4. StepFits(<< "create", "traces" >>, draft.traces, migrated)
    BY DEF StepFits, TracesRebuilt, TracesReady
  <1> QED
    BY <1>1, <1>2, <1>3, <1>4, MoveKeepsContexts

\* The steps that leave no more than one of them in an upgrade.
LEMMA UpgraderKeepsContexts ==
  ASSUME HistoryInv, ContextsInv, ~overlap, NEW p \in Processes, step[p] \in UpgradeSteps,
         NEW next \in Steps, Goto(p, next), UNCHANGED << disk, draft, writer, histories >>,
         StepFits(next, draft.traces, migrated)
  PROVE  ContextsInv'
  <1>1. \A q \in Processes \ {p} : step[q] \notin UpgradeSteps
    BY DEF ContextsInv
  <1> QED
    BY <1>1, MoveKeepsContexts DEF histories

\* The steps that follow the ones on a table fit what has been done so far.
LEMMA StepsOfUpgrades ==
  ASSUME NEW t \in Rebuilt
  PROVE  /\ \A s \in RebuildSteps : << s, t >> \in Steps /\ << s, t >> \in UpgradeSteps
         /\ AfterTable(t) \in Steps
         /\ \A traces, m : traces.schema = "nullable" => StepFits(AfterTable(t), traces, m)
         /\ \A s \in RebuildSteps : << s, "usage" >> \in TracesReady
         /\ \A s \in RebuildSteps : \A traces, m :
              traces.schema = "nullable" => StepFits(<< s, "usage" >>, traces, m)
  <1>1. \A s \in RebuildSteps : << s, t >> \in Steps /\ << s, t >> \in UpgradeSteps
    BY DEF UpgradeSteps, Steps
  <1>2. AfterTable(t) \in Steps /\ AfterTable(t) \notin TracesRebuilt
        /\ AfterTable(t) # << "recreate", "traces" >>
    BY DEF AfterTable, Steps, RebuildSteps, Rebuilt, TracesRebuilt
  <1>3. \A s \in RebuildSteps : << s, "usage" >> \in TracesReady /\ << s, "usage" >> \notin TracesRebuilt
    BY DEF TracesReady, TracesRebuilt
  <1> QED
    BY <1>1, <1>2, <1>3 DEF StepFits

\* Creating a table leaves the contexts alone.
LEMMA CreateKeepsContexts ==
  ASSUME HistoryInv, ContextsInv, ~overlap, NEW p \in Processes, NEW t \in Rebuilt,
         CreateTable(p, t) \/ RecreateTable(p, t)
  PROVE  ContextsInv'
  <1> DEFINE next == IF step[p] = << "create", t >> THEN << "inspect", t >> ELSE << "copy", t >>
  <1>1. /\ CreateIfMissing(p, t) /\ Goto(p, next)
        /\ step[p] \in {<< "create", t >>, << "recreate", t >>}
    BY DEF CreateTable, RecreateTable
  <1>2. step[p] \in UpgradeSteps /\ next \in Steps
    BY <1>1, StepsOfUpgrades DEF RebuildSteps
  <1>3. View(p) = draft
    BY <1>2, UpgraderSeesDraft
  <1>4. StepFits(step[p], draft.traces, migrated)
    BY DEF ContextsInv
  <1>5. CASE Exists(draft[t]) /\ UNCHANGED << disk, draft, writer, histories >>
    <2>1. draft.traces.schema \in {"absent", "strict", "nullable"}
      BY DEF HistoryInv, IsDatabase, RowTables
    <2>2. StepFits(next, draft.traces, migrated)
      <3>1. CASE t = "usage"
        BY <1>1, <1>4, <3>1, StepsOfUpgrades DEF StepFits, RebuildSteps
      <3>2. CASE t = "traces" /\ step[p] = << "create", t >>
        BY <3>2 DEF StepFits, TracesRebuilt, TracesReady
      <3>3. CASE t = "traces" /\ step[p] = << "recreate", t >>
        <4>1. draft.traces.schema = "nullable" /\ ~migrated
          BY <1>4, <1>5, <2>1, <3>3 DEF StepFits, Exists, TracesRebuilt
        <4> QED
          BY <4>1 DEF StepFits, TracesRebuilt
      <3> QED
        BY <1>1, <3>1, <3>2, <3>3 DEF Rebuilt
    <2> HIDE DEF next
    <2> QED
      BY <1>1, <1>2, <1>5, <2>2, UpgraderKeepsContexts
  <1>6. CASE ~Exists(draft[t]) /\ Write(p, "ddl", Created(draft, t))
    <2>1. /\ Created(draft, t).contexts = draft.contexts
          /\ t = "traces" => Created(draft, t).traces.schema = "nullable"
          /\ t = "usage" => Created(draft, t).traces = draft.traces
      BY LegacyNames DEF Created, Table, HistoryInv, IsDatabase, RowTables, Rebuilt
    <2>2. migrated => disk.traces.schema = "nullable"
      BY DEF ContextsInv
    <2>3. migrated => Created(draft, t).traces.schema = "nullable"
      <3>1. CASE t = "traces"
        BY <2>1, <3>1
      <3>2. CASE t = "usage"
        <4>1. step[p] \in TracesReady
          BY <1>1, <3>2, StepsOfUpgrades DEF RebuildSteps
        <4> QED
          BY <1>4, <2>1, <3>2, <4>1 DEF StepFits
      <3> QED
        BY <3>1, <3>2 DEF Rebuilt
    <2>4. StepFits(next, Created(draft, t).traces, migrated)
      <3>1. CASE t = "usage"
        BY <1>1, <1>4, <2>1, <3>1, StepsOfUpgrades DEF StepFits, RebuildSteps
      <3>2. CASE t = "traces" /\ step[p] = << "create", t >>
        BY <3>2 DEF StepFits, TracesRebuilt, TracesReady
      <3>3. CASE t = "traces" /\ step[p] = << "recreate", t >>
        <4>1. Created(draft, t).traces.schema = "nullable" /\ ~migrated
          BY <1>4, <2>1, <3>3 DEF StepFits, TracesRebuilt
        <4> QED
          BY <4>1 DEF StepFits, TracesRebuilt
      <3> QED
        BY <1>1, <3>1, <3>2, <3>3 DEF Rebuilt
    <2> HIDE DEF next
    <2> QED
      BY <1>1, <1>2, <1>6, <2>1, <2>3, <2>4, WriteKeepsContexts
  <1> QED
    BY <1>1, <1>3, <1>5, <1>6, CreateWrites

\* An upgrade that looks at traces of the new schema rebuilds no other.
LEMMA InspectKeepsContexts ==
  ASSUME HistoryInv, ContextsInv, ~overlap, NEW p \in Processes, NEW t \in Rebuilt,
         InspectTable(p, t)
  PROVE  ContextsInv'
  <1> DEFINE next == IF draft[t].schema = "strict" THEN << "rename", t >> ELSE AfterTable(t)
  <1>1. step[p] = << "inspect", t >> /\ step[p] \in UpgradeSteps /\ next \in Steps
    BY StepsOfUpgrades DEF InspectTable, RebuildSteps
  <1>2. View(p) = draft /\ writer \in {Nobody, p}
    BY <1>1, UpgraderSeesDraft
  <1>3. /\ Goto(p, next) /\ UNCHANGED << disk, draft, writer, histories >>
        /\ draft[t].schema # "absent"
    BY <1>2 DEF InspectTable
  <1>4. StepFits(step[p], draft.traces, migrated)
    BY DEF ContextsInv
  <1>5. CASE t = "usage"
    <2>1. draft.traces.schema = "nullable"
      BY <1>1, <1>4, <1>5, StepsOfUpgrades DEF StepFits, RebuildSteps
    <2>2. StepFits(next, draft.traces, migrated)
      BY <1>5, <2>1, StepsOfUpgrades DEF RebuildSteps
    <2> HIDE DEF next
    <2> QED
      BY <1>1, <1>3, <2>2, UpgraderKeepsContexts
  <1>6. CASE t = "traces"
    <2>1. writer = Nobody /\ draft = disk
      BY <1>1, <1>2, <1>6 DEF HistoryInv, Held
    <2>2. draft.traces.schema \in {"strict", "nullable"}
      BY <1>3, <1>6 DEF HistoryInv, IsDatabase, RowTables
    <2>3. CASE draft.traces.schema = "strict"
      <3>1. ~migrated
        BY <2>1, <2>3 DEF ContextsInv
      <3>2. StepFits(<< "rename", t >>, draft.traces, migrated)
        BY <1>6, <3>1 DEF StepFits, TracesReady
      <3>3. next = << "rename", t >>
        BY <1>6, <2>3
      <3> HIDE DEF next
      <3> QED
        BY <1>1, <1>3, <3>2, <3>3, UpgraderKeepsContexts
    <2>4. CASE draft.traces.schema = "nullable"
      <3>1. StepFits(AfterTable(t), draft.traces, migrated) /\ next = AfterTable(t)
        BY <1>6, <2>4, StepsOfUpgrades
      <3> HIDE DEF next
      <3> QED
        BY <1>1, <1>3, <3>1, UpgraderKeepsContexts
    <2> QED
      BY <2>2, <2>3, <2>4
  <1> QED
    BY <1>5, <1>6 DEF Rebuilt

\* Traces are rebuilt only before there are contexts that refer to them.
LEMMA RebuildKeepsContexts ==
  ASSUME HistoryInv, ContextsInv, ~overlap, NEW p \in Processes, NEW t \in Rebuilt,
         RenameTable(p, t) \/ CopyRows(p, t) \/ DropLegacy(p, t)
  PROVE  ContextsInv'
  <1>1. StepFits(step[p], draft.traces, migrated)
    BY DEF ContextsInv
  <1>2. \A s \in RebuildSteps : << s, t >> \in Steps /\ << s, t >> \in UpgradeSteps
    BY StepsOfUpgrades
  <1>3. \A s \in RebuildSteps : t = "usage" /\ step[p] = << s, t >> => draft.traces.schema = "nullable"
    BY <1>1, StepsOfUpgrades DEF StepFits
  <1>4. /\ draft.contexts = disk.contexts /\ disk.contexts.parent \in {"none", "traces"}
        /\ ~migrated => disk.contexts = NoContexts
    BY DEF ContextsInv
  <1>5. Legacy[t] # t /\ Legacy[t] # "traces" /\ Legacy[t] # "none" /\ Legacy[t] # "contexts"
    BY DEF Legacy, Rebuilt
  <1>6. DOMAIN draft = RowTables \cup {"contexts"} /\ t # "contexts" /\ t \in RowTables
        /\ Legacy[t] \in RowTables /\ "traces" \in RowTables /\ "contexts" \notin RowTables
    BY LegacyNames DEF HistoryInv, IsDatabase, RowTables, Rebuilt
  <1>7. CASE RenameTable(p, t)
    <2>1. /\ step[p] = << "rename", t >>
          /\ Write(p, "ddl", Renamed(draft, t)) /\ Goto(p, << "recreate", t >>)
      BY <1>7, RenameWrites
    <2>2. /\ Renamed(draft, t).contexts = ReferencesRenamed(draft.contexts, t)
          /\ Renamed(draft, t).traces = IF t = "traces" THEN NoTable ELSE draft.traces
      BY <1>5, <1>6 DEF Renamed
    <2>3. t = "traces" => ~migrated
      BY <1>1, <2>1 DEF StepFits, TracesRebuilt
    <2>4. ReferencesRenamed(draft.contexts, t) = draft.contexts
      BY <1>4, <2>3 DEF ReferencesRenamed, NoContexts, Rebuilt
    <2>5. StepFits(<< "recreate", t >>, Renamed(draft, t).traces, migrated)
      <3>1. CASE t = "traces"
        BY <2>2, <2>3, <3>1 DEF StepFits, TracesReady, NoTable
      <3>2. CASE t = "usage"
        BY <1>3, <2>1, <2>2, <3>2, StepsOfUpgrades DEF RebuildSteps
      <3> QED
        BY <3>1, <3>2 DEF Rebuilt
    <2>6. migrated => Renamed(draft, t).traces.schema = "nullable"
      BY <1>3, <2>1, <2>2, <2>3 DEF RebuildSteps, Rebuilt
    <2> QED
      BY <1>2, <2>1, <2>2, <2>4, <2>5, <2>6, WriteKeepsContexts DEF RebuildSteps
  <1>8. CASE CopyRows(p, t)
    <2>1. /\ step[p] = << "copy", t >>
          /\ Write(p, "dml", Copied(draft, t)) /\ Goto(p, << "drop", t >>)
      BY <1>8, CopyWrites
    <2>2. /\ Copied(draft, t).contexts = draft.contexts
          /\ Copied(draft, t).traces.schema = draft.traces.schema
      BY <1>6 DEF Copied, HistoryInv, IsDatabase
    <2>3. draft.traces.schema = "nullable" /\ (t = "traces" => ~migrated)
      BY <1>1, <1>3, <2>1 DEF StepFits, TracesRebuilt, TracesReady, RebuildSteps, Rebuilt
    <2>4. StepFits(<< "drop", t >>, Copied(draft, t).traces, migrated)
      BY <2>2, <2>3 DEF StepFits, TracesRebuilt
    <2> QED
      BY <1>2, <2>1, <2>2, <2>3, <2>4, WriteKeepsContexts DEF RebuildSteps
  <1>9. CASE DropLegacy(p, t)
    <2>1. /\ step[p] = << "drop", t >>
          /\ Write(p, "ddl", Dropped(draft, t)) /\ Goto(p, AfterTable(t))
      BY <1>9, DropWrites
    <2>2. /\ Dropped(draft, t).contexts = OrphansDropped(draft.contexts, Legacy[t])
          /\ Dropped(draft, t).traces = draft.traces
      BY <1>5, <1>6 DEF Dropped
    <2>3. OrphansDropped(draft.contexts, Legacy[t]) = draft.contexts
      BY <1>4, <1>5 DEF OrphansDropped
    <2>4. draft.traces.schema = "nullable"
      BY <1>1, <1>3, <2>1 DEF StepFits, TracesReady, RebuildSteps, Rebuilt
    <2>5. StepFits(AfterTable(t), Dropped(draft, t).traces, migrated) /\ AfterTable(t) \in Steps
      BY <2>2, <2>4, StepsOfUpgrades
    <2> QED
      BY <1>2, <2>1, <2>2, <2>3, <2>4, <2>5, WriteKeepsContexts DEF RebuildSteps
  <1> QED
    BY <1>7, <1>8, <1>9

\* The updates do not touch the contexts.
LEMMA UpdatesKeepContexts ==
  ASSUME HistoryInv, ContextsInv, ~overlap, NEW p \in Processes, Backfill(p) \/ Downgrade(p)
  PROVE  ContextsInv'
  <1>1. StepFits(step[p], draft.traces, migrated)
    BY DEF ContextsInv
  <1>2. << "backfill" >> \in UpgradeSteps /\ << "downgrade" >> \in UpgradeSteps
        /\ << "downgrade" >> \in Steps /\ << "commit" >> \in Steps
    BY DEF UpgradeSteps, Steps
  <1>3. \A traces, m : traces.schema = "nullable" =>
          StepFits(<< "downgrade" >>, traces, m) /\ StepFits(<< "commit" >>, traces, m)
    BY DEF StepFits, TracesRebuilt
  <1>4. << "backfill" >> \in TracesReady /\ << "downgrade" >> \in TracesReady
    BY DEF TracesReady
  <1>5. CASE Backfill(p)
    <2>1. /\ step[p] = << "backfill" >> /\ Exists(draft.usage)
          /\ Write(p, "dml", Backfilled(draft)) /\ Goto(p, << "downgrade" >>)
      BY <1>5, BackfillWrites
    <2>2. Backfilled(draft).traces = draft.traces /\ Backfilled(draft).contexts = draft.contexts
      BY DEF Backfilled, HistoryInv, IsDatabase, RowTables
    <2>3. draft.traces.schema = "nullable"
      BY <1>1, <1>4, <2>1 DEF StepFits
    <2>4. StepFits(<< "downgrade" >>, Backfilled(draft).traces, migrated)
      BY <1>3, <2>2, <2>3
    <2> QED
      BY <1>2, <2>1, <2>2, <2>3, <2>4, WriteKeepsContexts
  <1>6. CASE Downgrade(p)
    <2>1. /\ step[p] = << "downgrade" >>
          /\ Write(p, "dml", DowngradedBoth(draft)) /\ Goto(p, << "commit" >>)
      BY <1>6, DowngradeWrites
    <2>2. /\ DowngradedBoth(draft).traces.schema = draft.traces.schema
          /\ DowngradedBoth(draft).contexts = draft.contexts
      BY DowngradedTables DEF HistoryInv, Rebuilt
    <2>3. draft.traces.schema = "nullable"
      BY <1>1, <1>4, <2>1 DEF StepFits
    <2>4. StepFits(<< "commit" >>, DowngradedBoth(draft).traces, migrated)
      BY <1>3, <2>2, <2>3
    <2> QED
      BY <1>2, <2>1, <2>2, <2>3, <2>4, WriteKeepsContexts
  <1> QED
    BY <1>5, <1>6

\* What is committed has the contexts that were on disk.
LEMMA CommitKeepsContexts ==
  ASSUME HistoryInv, ContextsInv, ~overlap, NEW p \in Processes, CommitMigration(p)
  PROVE  ContextsInv'
  <1>1. /\ step[p] = << "commit" >> /\ Goto(p, << "done" >>) /\ disk' = draft /\ draft' = draft
        /\ migrated' /\ UNCHANGED filed
    BY DEF CommitMigration
  <1>2. << "done" >> \in Steps /\ << "done" >> \notin UpgradeSteps /\ << "commit" >> \in UpgradeSteps
        /\ << "commit" >> \in TracesReady
    BY DEF Steps, UpgradeSteps, RebuildSteps, TracesReady
  <1>3. step'[p] = << "done" >> /\ \A q \in Processes \ {p} : step'[q] = step[q]
    BY <1>1, <1>2, GotoType
  <1>4. \A q \in Processes : step'[q] \notin UpgradeSteps
    BY <1>1, <1>2, <1>3 DEF ContextsInv
  <1>5. draft.traces.schema = "nullable"
    BY <1>1, <1>2 DEF ContextsInv, StepFits
  <1>6. \A q \in Processes : StepFits(step'[q], draft'.traces, migrated')
    BY <1>4, OtherStepsFit
  <1> QED
    BY <1>1, <1>4, <1>5, <1>6 DEF ContextsInv, StepFits

\* Contexts are filed in a table whose parent is there.
LEMMA RecordingKeepsContexts ==
  ASSUME HistoryInv, EvidenceInv, ContextsInv, ~overlap, NEW p \in Processes,
         RecordRun(p) \/ OpenContexts(p) \/ RecordContexts(p)
  PROVE  ContextsInv'
  <1> SUFFICES
        ASSUME NEW tables, NEW next \in {<< "done" >>, << "open_contexts" >>, << "record_contexts" >>},
               Goto(p, next), Transaction(p, tables), UNCHANGED migrated, migrated,
               tables.traces.schema = disk.traces.schema,
               filed'.contexts \subseteq tables.contexts.rows,
               tables.contexts.parent \in {"none", "traces"}
        PROVE  ContextsInv'
    <2>1. CASE RecordRun(p)
      <3>1. /\ Transaction(p, WithRun(disk, p)) /\ Goto(p, << "open_contexts" >>)
            /\ Exists(disk.traces) /\ Exists(disk.usage) /\ step[p] = << "done" >>
            /\ UNCHANGED migrated /\ filed' = [filed EXCEPT !.runs = @ \cup {p}]
        BY <2>1 DEF RecordRun, WithRun
      <3>2. /\ WithRun(disk, p).contexts = disk.contexts
            /\ WithRun(disk, p).traces.schema = disk.traces.schema
        BY <3>1, RunTables DEF HistoryInv, Rebuilt
      <3>3. filed'.contexts = filed.contexts /\ migrated
        BY <3>1 DEF HistoryInv, EvidenceInv
      <3> QED
        BY <3>1, <3>2, <3>3 DEF ContextsInv
    <2>2. CASE OpenContexts(p)
      <3>1. /\ Transaction(p, WithContextTable(disk)) /\ Goto(p, << "record_contexts" >>)
            /\ step[p] = << "open_contexts" >> /\ UNCHANGED << migrated, filed >>
        BY <2>2 DEF OpenContexts, WithContextTable, histories
      <3>2. /\ WithContextTable(disk).traces = disk.traces
            /\ WithContextTable(disk).contexts.rows = disk.contexts.rows
            /\ WithContextTable(disk).contexts.parent \in {"traces", disk.contexts.parent}
        BY ContextTables DEF HistoryInv, RowTables
      <3>3. migrated
        BY <3>1 DEF EvidenceInv
      <3> QED
        BY <3>1, <3>2, <3>3 DEF ContextsInv
    <2>3. CASE RecordContexts(p)
      <3>1. /\ Transaction(p, WithContext(disk, p)) /\ Goto(p, << "done" >>)
            /\ step[p] = << "record_contexts" >> /\ UNCHANGED migrated
            /\ filed' = [filed EXCEPT !.contexts = @ \cup {p}]
        BY <2>3 DEF RecordContexts, WithContext
      <3>2. /\ WithContext(disk, p).traces = disk.traces
            /\ WithContext(disk, p).contexts.rows = disk.contexts.rows \cup {p}
            /\ WithContext(disk, p).contexts.parent = disk.contexts.parent
        BY ContextTables DEF HistoryInv, RowTables
      <3>3. filed'.contexts = filed.contexts \cup {p} /\ migrated
        BY <3>1 DEF HistoryInv, EvidenceInv
      <3> QED
        BY <3>1, <3>2, <3>3 DEF ContextsInv
    <2> QED
      BY <2>1, <2>2, <2>3
  <1>1. next \in Steps /\ next \notin UpgradeSteps
    BY DEF Steps, UpgradeSteps, RebuildSteps
  <1>2. step'[p] = next /\ \A q \in Processes \ {p} : step'[q] = step[q]
    BY <1>1, GotoType
  <1>3. disk' = tables /\ draft' = tables /\ writer = Nobody /\ draft = disk
    BY DEF Transaction, HistoryInv
  <1>4. \A q \in Processes : StepFits(step'[q], draft'.traces, migrated)
    <2>1. \A q \in Processes : StepFits(step[q], draft.traces, migrated)
      BY DEF ContextsInv
    <2>2. ASSUME NEW q \in Processes \ {p} PROVE StepFits(step'[q], draft'.traces, migrated)
      BY <1>2, <1>3, <2>1, <2>2 DEF StepFits
    <2> QED
      BY <1>1, <1>2, <2>2, OtherStepsFit
  <1>5. \A q, r \in Processes : step'[q] \in UpgradeSteps /\ step'[r] \in UpgradeSteps => q = r
    BY <1>1, <1>2 DEF ContextsInv
  <1>6. migrated => disk'.traces.schema = "nullable"
    BY <1>3 DEF ContextsInv
  <1> QED
    BY <1>3, <1>4, <1>5, <1>6 DEF ContextsInv, StepFits

\* No context has been filed before the first upgrade.
LEMMA ContextsInvInit == MigrationInit => ContextsInv
  <1> SUFFICES ASSUME MigrationInit PROVE ContextsInv
    OBVIOUS
  <1>1. disk.contexts = NoContexts /\ draft = disk /\ ~migrated /\ filed.contexts = {}
        /\ \A p \in Processes : step[p] = << "idle" >>
    BY DEF MigrationInit, OldDatabases
  <1>2. << "idle" >> \notin UpgradeSteps
    BY DEF UpgradeSteps, RebuildSteps
  <1>3. \A p \in Processes : StepFits(step[p], draft.traces, migrated)
    BY <1>1, <1>2, OtherStepsFit
  <1> QED
    BY <1>1, <1>2, <1>3 DEF ContextsInv, NoContexts

\* Every step preserves it.
LEMMA ContextsInvNext ==
  HistoryInv /\ EvidenceInv /\ ContextsInv /\ [MigrationNext]_migrationVars => ContextsInv'
  <1> SUFFICES ASSUME HistoryInv, EvidenceInv, ContextsInv, [MigrationNext]_migrationVars, ~overlap'
               PROVE  ContextsInv'
    BY DEF ContextsInv
  <1>1. CASE UNCHANGED migrationVars
    BY <1>1 DEF migrationVars, histories, ContextsInv, StepFits
  <1>2. ASSUME NEW p \in Processes,
               \/ Initialize(p) \/ RecordRun(p) \/ RecordRunFails(p) \/ Migrate(p)
               \/ Interrupted(p)
        PROVE  ContextsInv'
    <2>1. CASE Initialize(p)
      BY <2>1, InitializeKeepsContexts
    <2>2. CASE ~overlap
      <3>1. ASSUME NEW t \in Rebuilt, CreateTable(p, t) \/ RecreateTable(p, t)
            PROVE  ContextsInv'
        BY <2>2, <3>1, CreateKeepsContexts
      <3>2. ASSUME NEW t \in Rebuilt,
                   InspectTable(p, t) \/ RenameTable(p, t) \/ CopyRows(p, t) \/ DropLegacy(p, t)
            PROVE  ContextsInv'
        BY <2>2, <3>2, InspectKeepsContexts, RebuildKeepsContexts
      <3>3. Backfill(p) \/ Downgrade(p) \/ CommitMigration(p) => ContextsInv'
        BY <2>2, UpdatesKeepContexts, CommitKeepsContexts
      <3>4. RecordRun(p) \/ OpenContexts(p) \/ RecordContexts(p) \/ Abandon(p) => ContextsInv'
        BY <2>2, RecordingKeepsContexts, AbandonKeepsContexts
      <3> QED
        BY <1>2, <2>1, <3>1, <3>2, <3>3, <3>4, ProcessSteps
    <2>3. CASE ~Initialize(p) /\ overlap
      <3>1. overlap' = overlap
        BY <1>2, <2>3, ProcessSteps
        DEF CreateTable, CreateIfMissing, InspectTable, RenameTable, RecreateTable, CopyRows,
            DropLegacy, Backfill, Downgrade, CommitMigration, RecordRun, OpenContexts,
            RecordContexts, Abandon, Write, histories
      <3> QED
        BY <2>3, <3>1
    <2> QED
      BY <2>1, <2>2, <2>3
  <1> QED
    BY <1>1, <1>2 DEF MigrationNext

\* Contexts that were filed stay, and more can be filed, wherever upgrades stop,
\* as long as no two of them were under way at once.
THEOREM ContextsAreKept == MigrationSpec => []ContextsSurvive
  <1>1. MigrationInit => HistoryInv /\ EvidenceInv /\ ContextsInv
    BY HistoryInvInit, EvidenceInvInit, ContextsInvInit
  <1>2. HistoryInv /\ EvidenceInv /\ ContextsInv /\ [MigrationNext]_migrationVars
          => (HistoryInv /\ EvidenceInv /\ ContextsInv)'
    BY HistoryInvNext, EvidenceInvNext, ContextsInvNext
  <1>3. ContextsInv => ContextsSurvive
    BY DEF ContextsInv, ContextsSurvive
  <1> QED
    BY <1>1, <1>2, <1>3, PTL DEF MigrationSpec

-----------------------------------------------------------------------------
(* No failure: what every upgrade leaves behind *)

\* The steps during which a renamed table may be waiting for its rows to move.
LegacyInUse(t) == {<< "recreate", t >>, << "copy", t >>, << "drop", t >>}

BeforeBackfill(s) == s[1] \in RebuildSteps \cup {"backfill"}

UsageOnRecord(T) == RowIds(T.usage) \cup RowIds(T.usage_legacy) \subseteq OnRecord

\* As long as no call failed, a renamed table belongs to a process that will
\* still drop it, and past the backfill of the last process the usage table
\* lacks nothing.
CompleteInv ==
  /\ UsageOnRecord(disk) /\ UsageOnRecord(draft)
  /\ ~failed =>
       /\ \A t \in Rebuilt :
            Exists(draft[Legacy[t]]) => \E q \in Processes : step[q] \in LegacyInUse(t)
       /\ (\A q \in Processes : ~BeforeBackfill(step[q])) /\ (migrated \/ writer # Nobody)
            => RowIds(draft.usage) = OnRecord

\* A step of an upgrade that does not fail: what it must make of the tables,
\* and where it must lead, for this to go on.
LEMMA StepKeepsComplete ==
  ASSUME HistoryInv, CompleteInv, NEW p \in Processes, NEW next \in Steps, Goto(p, next),
         UNCHANGED << filed, failed >>, disk' \in {disk, draft, draft'}, UsageOnRecord(draft'),
         \A t \in Rebuilt :
           Exists(draft'[Legacy[t]]) =>
             \/ next \in LegacyInUse(t)
             \/ Exists(draft[Legacy[t]]) /\ step[p] \notin LegacyInUse(t),
         ~failed /\ ~BeforeBackfill(next) /\ (migrated' \/ writer' # Nobody)
           /\ (\A q \in Processes \ {p} : ~BeforeBackfill(step[q]))
           => RowIds(draft'.usage) = OnRecord
  PROVE  CompleteInv'
  <1>1. step'[p] = next /\ \A q \in Processes \ {p} : step'[q] = step[q]
    BY GotoType
  <1>2. OnRecord' = OnRecord
    BY DEF OnRecord
  <1>3. UsageOnRecord(disk)' /\ UsageOnRecord(draft)'
    BY <1>2 DEF CompleteInv, UsageOnRecord
  <1>4. ASSUME ~failed, NEW t \in Rebuilt, Exists(draft'[Legacy[t]])
        PROVE  \E q \in Processes : step'[q] \in LegacyInUse(t)
    BY <1>1, <1>4 DEF CompleteInv
  <1>5. ASSUME ~failed, \A q \in Processes : ~BeforeBackfill(step'[q]), migrated' \/ writer' # Nobody
        PROVE  RowIds(draft'.usage) = OnRecord
    BY <1>1, <1>5
  <1>6. (\A q \in Processes : ~BeforeBackfill(step'[q])) <=> (\A q \in Processes : ~BeforeBackfill(step[q]))'
    BY DEF BeforeBackfill
  <1> QED
    BY <1>2, <1>3, <1>4, <1>5, <1>6 DEF CompleteInv, LegacyInUse, Exists, RowIds, Legacy, BeforeBackfill

\* The steps in terms of those conditions.
LEMMA BackfillSteps ==
  ASSUME NEW t \in Rebuilt
  PROVE  /\ \A s \in RebuildSteps : << s, t >> \in Steps /\ BeforeBackfill(<< s, t >>)
         /\ AfterTable(t) \in Steps /\ BeforeBackfill(AfterTable(t))
         /\ \A u \in Rebuilt, s \in RebuildSteps :
              << s, t >> \in LegacyInUse(u) <=> t = u /\ s \in {"recreate", "copy", "drop"}
         /\ \A u \in Rebuilt : Legacy[t] = Legacy[u] => t = u
         /\ \A s \in {"backfill", "downgrade", "commit", "idle", "done", "failed"} :
              << s >> \in Steps /\ << s >> \notin LegacyInUse(t)
  <1>1. \A s \in RebuildSteps : << s, t >> \in Steps /\ BeforeBackfill(<< s, t >>)
    BY DEF Steps, BeforeBackfill
  <1>2. AfterTable(t) \in Steps /\ BeforeBackfill(AfterTable(t))
    BY DEF Steps, BeforeBackfill, AfterTable, RebuildSteps, Rebuilt
  <1>3. \A u \in Rebuilt, s \in RebuildSteps :
          << s, t >> \in LegacyInUse(u) <=> t = u /\ s \in {"recreate", "copy", "drop"}
    BY DEF LegacyInUse
  <1>4. \A u \in Rebuilt : Legacy[t] = Legacy[u] => t = u
    BY DEF Legacy, Rebuilt
  <1>5. \A s \in {"backfill", "downgrade", "commit", "idle", "done", "failed"} :
          << s >> \in Steps /\ << s >> \notin LegacyInUse(t)
    BY DEF Steps, LegacyInUse
  <1> QED
    BY <1>1, <1>2, <1>3, <1>4, <1>5

\* What a write leaves of the disk.
LEMMA WriteLeaves ==
  ASSUME NEW p, NEW kind, NEW tables, Write(p, kind, tables)
  PROVE  /\ draft' = tables /\ disk' \in {disk, draft, draft'}
         /\ UNCHANGED << filed, failed, migrated >>
  BY DEF Write, histories

\* Each step of an upgrade that does not fail: it begins,
LEMMA InitializeKeepsComplete ==
  ASSUME HistoryInv, CompleteInv, NEW p \in Processes, Initialize(p)
  PROVE  CompleteInv'
  <1>1. /\ Goto(p, << "create", "traces" >>) /\ UNCHANGED << disk, draft, writer, filed, failed, migrated >>
        /\ ~Active(p)
    BY DEF Initialize
  <1>2. step[p][1] \in {"idle", "done", "failed"}
    BY <1>1 DEF Active
  <1>3. \A t \in Rebuilt : step[p] \notin LegacyInUse(t)
    BY <1>2 DEF LegacyInUse
  <1>4. << "create", "traces" >> \in Steps /\ BeforeBackfill(<< "create", "traces" >>)
    BY BackfillSteps DEF RebuildSteps, Rebuilt
  <1> QED
    BY <1>1, <1>3, <1>4, StepKeepsComplete DEF CompleteInv

\* it creates a table,
LEMMA CreateKeepsComplete ==
  ASSUME HistoryInv, CompleteInv, NEW p \in Processes, NEW t \in Rebuilt,
         CreateTable(p, t) \/ RecreateTable(p, t)
  PROVE  CompleteInv'
  <1> DEFINE s == IF step[p] = << "create", t >> THEN "inspect" ELSE "copy"
  <1>1. /\ CreateIfMissing(p, t) /\ Goto(p, << s, t >>)
        /\ step[p] = << "create", t >> \/ (step[p] = << "recreate", t >> /\ s = "copy")
    BY DEF CreateTable, RecreateTable
  <1>2. s \in RebuildSteps /\ "create" \in RebuildSteps /\ "recreate" \in RebuildSteps
    BY DEF RebuildSteps
  <1> HIDE DEF s
  <1>3. \A u \in Rebuilt : step[p] \in LegacyInUse(u) => << s, t >> \in LegacyInUse(u)
    BY <1>1, <1>2, BackfillSteps
  <1>4. CASE UNCHANGED << disk, draft, writer, histories >>
    BY <1>1, <1>2, <1>3, <1>4, BackfillSteps, StepKeepsComplete DEF histories, CompleteInv
  <1>5. CASE ~Exists(draft[t]) /\ Write(p, "ddl", Created(draft, t))
    <2>1. /\ \A u \in Rebuilt : Created(draft, t)[Legacy[u]] = draft[Legacy[u]]
          /\ RowIds(Created(draft, t).usage) = RowIds(draft.usage)
          /\ RowIds(Created(draft, t).usage_legacy) = RowIds(draft.usage_legacy)
      <3>1. \A n \in RowTables \ {t} : Created(draft, t)[n] = draft[n]
        BY DEF Created, HistoryInv, IsDatabase
      <3>2. RowIds(Created(draft, t)[t]) = {} /\ RowIds(draft[t]) = {}
        BY <1>5, LegacyNames DEF Created, HistoryInv, IsDatabase, Table, RowIds, Exists
      <3>3. t \in {"traces", "usage"} /\ \A u \in Rebuilt : Legacy[u] \in RowTables \ {t}
        BY LegacyNames DEF Rebuilt
      <3> QED
        BY <3>1, <3>2, <3>3 DEF RowTables
    <2>2. UsageOnRecord(Created(draft, t))
      BY <2>1 DEF CompleteInv, UsageOnRecord
    <2> QED
      BY <1>1, <1>2, <1>3, <1>5, <2>1, <2>2, WriteLeaves, BackfillSteps, StepKeepsComplete
  <1> QED
    BY <1>1, <1>4, <1>5, CreateWrites

\* looks at one,
LEMMA InspectKeepsComplete ==
  ASSUME HistoryInv, CompleteInv, NEW p \in Processes, NEW t \in Rebuilt, InspectTable(p, t)
  PROVE  CompleteInv'
  <1>1. /\ step[p] = << "inspect", t >>
        /\ Goto(p, << "rename", t >>) \/ Goto(p, AfterTable(t))
        /\ UNCHANGED << disk, draft, writer, filed, failed, migrated >>
    BY DEF InspectTable, histories
  <1>2. "inspect" \in RebuildSteps /\ "rename" \in RebuildSteps
    BY DEF RebuildSteps
  <1>3. \A u \in Rebuilt : step[p] \notin LegacyInUse(u)
    BY <1>1, <1>2, BackfillSteps
  <1>4. \A next \in Steps : BeforeBackfill(next) /\ Goto(p, next) => CompleteInv'
    BY <1>1, <1>3, StepKeepsComplete DEF CompleteInv
  <1> QED
    BY <1>1, <1>2, <1>4, BackfillSteps

\* rebuilds one and leaves no legacy table behind,
LEMMA RebuildKeepsComplete ==
  ASSUME HistoryInv, CompleteInv, NEW p \in Processes, NEW t \in Rebuilt,
         RenameTable(p, t) \/ CopyRows(p, t) \/ DropLegacy(p, t)
  PROVE  CompleteInv'
  <1>1. {"rename", "recreate", "copy", "drop"} \subseteq RebuildSteps
    BY DEF RebuildSteps
  <1>2. \A s \in {"rename", "recreate", "copy", "drop"} :
          /\ << s, t >> \in Steps /\ BeforeBackfill(<< s, t >>)
          /\ \A u \in Rebuilt : << s, t >> \in LegacyInUse(u) <=> t = u /\ s # "rename"
    BY <1>1, BackfillSteps
  <1>3. /\ t \in {"traces", "usage"} /\ RowTables = {"traces", "traces_legacy", "usage", "usage_legacy"}
        /\ Legacy["traces"] = "traces_legacy" /\ Legacy["usage"] = "usage_legacy"
        /\ Rebuilt = {"traces", "usage"}
    BY DEF Rebuilt, RowTables, Legacy
  <1>4. UsageOnRecord(draft)
    BY DEF CompleteInv
  <1>5. CASE RenameTable(p, t)
    <2> DEFINE U == Renamed(draft, t)
    <2>1. /\ step[p] = << "rename", t >>
          /\ Write(p, "ddl", U) /\ Goto(p, << "recreate", t >>)
      BY <1>5, RenameWrites
    <2>2. /\ U[Legacy[t]] = draft[t] /\ U[t] = NoTable
          /\ \A n \in RowTables \ {t, Legacy[t]} : U[n] = draft[n]
      BY <1>3, LegacyNames DEF Renamed, HistoryInv, IsDatabase
    <2> HIDE DEF U
    <2>3. RowIds(NoTable) = {}
      BY DEF NoTable, RowIds
    <2>4. UsageOnRecord(U)
      <3>1. CASE t = "usage"
        BY <1>3, <1>4, <2>2, <2>3, <3>1 DEF UsageOnRecord
      <3>2. CASE t = "traces"
        BY <1>3, <1>4, <2>2, <3>2 DEF UsageOnRecord
      <3> QED
        BY <1>3, <3>1, <3>2
    <2>5. \A u \in Rebuilt : u # t => U[Legacy[u]] = draft[Legacy[u]]
      BY <1>3, <2>2
    <2> QED
      BY <1>2, <2>1, <2>4, <2>5, WriteLeaves, StepKeepsComplete
  <1>6. CASE CopyRows(p, t)
    <2> DEFINE U == Copied(draft, t)
    <2>1. /\ step[p] = << "copy", t >> /\ Exists(draft[t])
          /\ Write(p, "dml", U) /\ Goto(p, << "drop", t >>)
      BY <1>6, CopyWrites
    <2>2. /\ RowIds(U[t]) = RowIds(draft[t]) \cup RowIds(draft[Legacy[t]])
          /\ \A n \in RowTables \ {t} : U[n] = draft[n]
      BY <2>1, CopiedTable DEF HistoryInv
    <2> HIDE DEF U
    <2>4. UsageOnRecord(U)
      <3>1. CASE t = "usage"
        BY <1>3, <1>4, <2>2, <3>1 DEF UsageOnRecord
      <3>2. CASE t = "traces"
        BY <1>3, <1>4, <2>2, <3>2 DEF UsageOnRecord
      <3> QED
        BY <1>3, <3>1, <3>2
    <2>5. \A u \in Rebuilt : U[Legacy[u]] = draft[Legacy[u]]
      BY <1>3, <2>2
    <2> QED
      BY <1>2, <2>1, <2>4, <2>5, WriteLeaves, StepKeepsComplete
  <1>7. CASE DropLegacy(p, t)
    <2> DEFINE U == Dropped(draft, t)
    <2>1. /\ step[p] = << "drop", t >>
          /\ Write(p, "ddl", U) /\ Goto(p, AfterTable(t))
      BY <1>7, DropWrites
    <2>2. /\ U[Legacy[t]] = NoTable
          /\ \A n \in RowTables \ {Legacy[t]} : U[n] = draft[n]
      BY DroppedTable DEF HistoryInv
    <2> HIDE DEF U
    <2>3. RowIds(NoTable) = {} /\ ~Exists(NoTable)
      BY DEF NoTable, RowIds, Exists
    <2>4. UsageOnRecord(U)
      <3>1. CASE t = "usage"
        BY <1>3, <1>4, <2>2, <2>3, <3>1 DEF UsageOnRecord
      <3>2. CASE t = "traces"
        BY <1>3, <1>4, <2>2, <3>2 DEF UsageOnRecord
      <3> QED
        BY <1>3, <3>1, <3>2
    <2>5. \A u \in Rebuilt : u # t => U[Legacy[u]] = draft[Legacy[u]]
      BY <1>3, <2>2
    <2>6. AfterTable(t) \in Steps /\ BeforeBackfill(AfterTable(t))
      BY BackfillSteps
    <2> QED
      BY <1>2, <2>1, <2>2, <2>3, <2>4, <2>5, <2>6, WriteLeaves, StepKeepsComplete
  <1> QED
    BY <1>5, <1>6, <1>7

\* gives every trace its usage,
LEMMA UpdatesKeepComplete ==
  ASSUME HistoryInv, CompleteInv, NEW p \in Processes, Backfill(p) \/ Downgrade(p)
  PROVE  CompleteInv'
  <1>1. \A s \in {"backfill", "downgrade", "commit"} :
          /\ << s >> \in Steps /\ \A t \in Rebuilt : << s >> \notin LegacyInUse(t)
    BY BackfillSteps DEF Steps, Rebuilt
  <1>2. ~BeforeBackfill(<< "downgrade" >>)
    BY DEF BeforeBackfill, RebuildSteps
  <1>3. \A t \in Rebuilt : Legacy[t] \in RowTables \ Rebuilt
    BY LegacyNames
  <1>4. UsageOnRecord(draft)
    BY DEF CompleteInv
  <1>5. CASE Backfill(p)
    <2> DEFINE U == Backfilled(draft)
    <2>1. /\ step[p] = << "backfill" >> /\ Exists(draft.usage) /\ writer \in {Nobody, p}
          /\ Write(p, "dml", U) /\ Goto(p, << "downgrade" >>)
      BY <1>5, BackfillWrites
    <2>2. /\ RowIds(U.usage) = RowIds(draft.usage) \cup RowIds(draft.traces)
          /\ \A n \in RowTables \ {"usage"} : U[n] = draft[n]
      BY <2>1, BackfilledTable DEF HistoryInv
    <2> HIDE DEF U
    <2>3. Whole(draft)
      BY <2>1, WriterSeesDraft DEF CopiedTraces
    <2>4. UsageOnRecord(U)
      BY <1>4, <2>2, <2>3 DEF UsageOnRecord, Whole, RowTables
    <2>5. \A t \in Rebuilt : U[Legacy[t]] = draft[Legacy[t]]
      BY <1>3, <2>2 DEF Rebuilt
    <2>6. ASSUME ~failed, \A q \in Processes \ {p} : ~BeforeBackfill(step[q])
          PROVE  RowIds(U.usage) = OnRecord
      <3>1. \A q \in Processes : step[q] \notin LegacyInUse("traces")
        BY <1>1, <2>1, <2>6 DEF LegacyInUse, BeforeBackfill, RebuildSteps, Rebuilt
      <3>2. ~Exists(draft.traces_legacy)
        BY <2>6, <3>1 DEF CompleteInv, Rebuilt, Legacy
      <3>3. RowIds(draft.traces_legacy) = {}
        BY <3>2 DEF HistoryInv, IsDatabase, RowTables, Exists, RowIds
      <3> QED
        BY <1>4, <2>2, <2>3, <3>3 DEF Whole, UsageOnRecord
    <2> QED
      BY <1>1, <2>1, <2>4, <2>5, <2>6, WriteLeaves, StepKeepsComplete
  <1>6. CASE Downgrade(p)
    <2> DEFINE U == DowngradedBoth(draft)
    <2>1. /\ step[p] = << "downgrade" >> /\ writer = p
          /\ Write(p, "dml", U) /\ Goto(p, << "commit" >>)
      BY <1>6, DowngradeWrites
    <2>2. /\ \A n \in RowTables : RowIds(U[n]) = RowIds(draft[n])
          /\ U.traces_legacy = draft.traces_legacy /\ U.usage_legacy = draft.usage_legacy
      BY DowngradedTables DEF HistoryInv
    <2> HIDE DEF U
    <2>3. UsageOnRecord(U)
      BY <1>4, <2>2 DEF UsageOnRecord, RowTables
    <2>4. \A t \in Rebuilt : U[Legacy[t]] = draft[Legacy[t]]
      BY <2>2 DEF Rebuilt, Legacy
    <2>5. ASSUME ~failed, \A q \in Processes \ {p} : ~BeforeBackfill(step[q])
          PROVE  RowIds(U.usage) = OnRecord
      <3>1. \A q \in Processes : ~BeforeBackfill(step[q])
        BY <1>2, <2>1, <2>5
      <3>2. writer # Nobody
        BY <2>1, MigrationAssumption
      <3>3. RowIds(draft.usage) = OnRecord
        BY <2>5, <3>1, <3>2 DEF CompleteInv
      <3> QED
        BY <2>2, <3>3 DEF RowTables
    <2> QED
      BY <1>1, <2>1, <2>3, <2>4, <2>5, WriteLeaves, StepKeepsComplete
  <1> QED
    BY <1>5, <1>6

\* and commits.
LEMMA CommitKeepsComplete ==
  ASSUME HistoryInv, CompleteInv, NEW p \in Processes, CommitMigration(p)
  PROVE  CompleteInv'
  <1>1. /\ step[p] = << "commit" >> /\ Goto(p, << "done" >>) /\ disk' = draft /\ draft' = draft
        /\ UNCHANGED << filed, failed >> /\ writer = p
    BY DEF CommitMigration, HistoryInv
  <1>2. << "done" >> \in Steps /\ \A t \in Rebuilt : step[p] \notin LegacyInUse(t)
    BY <1>1 DEF Steps, LegacyInUse
  <1>3. UsageOnRecord(draft')
    BY <1>1 DEF CompleteInv
  <1>4. ASSUME ~failed, \A q \in Processes \ {p} : ~BeforeBackfill(step[q])
        PROVE  RowIds(draft'.usage) = OnRecord
    <2>1. \A q \in Processes : ~BeforeBackfill(step[q])
      BY <1>1, <1>4 DEF BeforeBackfill, RebuildSteps
    <2>2. writer # Nobody
      BY <1>1, MigrationAssumption
    <2> QED
      BY <1>1, <1>4, <2>1, <2>2 DEF CompleteInv
  <1> QED
    BY <1>1, <1>2, <1>3, <1>4, StepKeepsComplete

\* A call that fails ends the claim; what is left is on record all the same.
LEMMA AbandonKeepsComplete ==
  ASSUME CompleteInv, NEW p \in Processes, Abandon(p)
  PROVE  CompleteInv'
  <1>1. failed' /\ draft' \in {disk, draft} /\ UNCHANGED << disk, filed >>
    BY DEF Abandon
  <1>2. OnRecord' = OnRecord
    BY <1>1 DEF OnRecord
  <1>3. UsageOnRecord(disk)' /\ UsageOnRecord(draft)'
    BY <1>1, <1>2 DEF CompleteInv, UsageOnRecord
  <1> QED
    BY <1>1, <1>3 DEF CompleteInv

\* A whole transaction, of a process that is not upgrading.
LEMMA TransactionKeepsComplete ==
  ASSUME HistoryInv, CompleteInv, NEW p \in Processes,
         NEW next \in {<< "done" >>, << "open_contexts" >>, << "record_contexts" >>}, Goto(p, next),
         step[p] \in {<< "done" >>, << "open_contexts" >>, << "record_contexts" >>},
         NEW tables, Transaction(p, tables), UNCHANGED << migrated, failed >>,
         NEW more, OnRecord' = OnRecord \cup more,
         RowIds(tables.usage) = RowIds(disk.usage) \cup more,
         tables.usage_legacy = disk.usage_legacy, tables.traces_legacy = disk.traces_legacy
  PROVE  CompleteInv'
  <1>1. next \in Steps /\ ~BeforeBackfill(next) /\ ~BeforeBackfill(step[p])
        /\ \A t \in Rebuilt : step[p] \notin LegacyInUse(t)
    BY DEF Steps, BeforeBackfill, RebuildSteps, LegacyInUse
  <1>2. step'[p] = next /\ \A q \in Processes \ {p} : step'[q] = step[q]
    BY <1>1, GotoType
  <1>3. /\ disk' = tables /\ draft' = tables /\ writer' = writer /\ writer = Nobody /\ draft = disk
    BY DEF Transaction, HistoryInv
  <1>4. UsageOnRecord(disk)' /\ UsageOnRecord(draft)'
    BY <1>3 DEF CompleteInv, UsageOnRecord
  <1>5. ASSUME ~failed, NEW t \in Rebuilt, Exists(draft'[Legacy[t]])
        PROVE  \E q \in Processes : step'[q] \in LegacyInUse(t)
    <2>1. draft'[Legacy[t]] = draft[Legacy[t]]
      BY <1>3 DEF Rebuilt, Legacy
    <2> QED
      BY <1>1, <1>2, <1>5, <2>1 DEF CompleteInv
  <1>6. ASSUME ~failed, \A q \in Processes : ~BeforeBackfill(step'[q]), migrated
        PROVE  RowIds(draft'.usage) = OnRecord'
    <2>1. \A q \in Processes : ~BeforeBackfill(step[q])
      BY <1>1, <1>2, <1>6
    <2>2. RowIds(draft.usage) = OnRecord
      BY <1>6, <2>1 DEF CompleteInv
    <2> QED
      BY <1>3, <2>2
  <1> QED
    BY <1>3, <1>4, <1>5, <1>6 DEF CompleteInv, LegacyInUse, Exists, RowIds, Legacy, BeforeBackfill

\* A run files its usage with its traces.
LEMMA RecordingKeepsComplete ==
  ASSUME HistoryInv, CompleteInv, NEW p \in Processes,
         RecordRun(p) \/ OpenContexts(p) \/ RecordContexts(p)
  PROVE  CompleteInv'
  <1>1. CASE RecordRun(p)
    <2>1. /\ Transaction(p, WithRun(disk, p)) /\ Goto(p, << "open_contexts" >>)
          /\ Exists(disk.traces) /\ Exists(disk.usage) /\ step[p] = << "done" >>
          /\ UNCHANGED << migrated, failed >> /\ filed' = [filed EXCEPT !.runs = @ \cup {p}]
      BY <1>1 DEF RecordRun, WithRun
    <2>2. OnRecord' = OnRecord \cup {p}
      BY <2>1 DEF OnRecord, HistoryInv
    <2>3. /\ RowIds(WithRun(disk, p).usage) = RowIds(disk.usage) \cup {p}
          /\ WithRun(disk, p).usage_legacy = disk.usage_legacy
          /\ WithRun(disk, p).traces_legacy = disk.traces_legacy
      BY <2>1, RunTables DEF HistoryInv, Rebuilt
    <2> QED
      BY <2>1, <2>2, <2>3, TransactionKeepsComplete
  <1>2. CASE OpenContexts(p)
    <2>1. /\ Transaction(p, WithContextTable(disk)) /\ Goto(p, << "record_contexts" >>)
          /\ step[p] = << "open_contexts" >> /\ UNCHANGED << migrated, failed, filed >>
      BY <1>2 DEF OpenContexts, WithContextTable, histories
    <2>2. OnRecord' = OnRecord \cup {}
      BY <2>1 DEF OnRecord
    <2>3. /\ RowIds(WithContextTable(disk).usage) = RowIds(disk.usage) \cup {}
          /\ WithContextTable(disk).usage_legacy = disk.usage_legacy
          /\ WithContextTable(disk).traces_legacy = disk.traces_legacy
      BY ContextTables DEF HistoryInv, RowTables
    <2> QED
      BY <2>1, <2>2, <2>3, TransactionKeepsComplete
  <1>3. CASE RecordContexts(p)
    <2>1. /\ Transaction(p, WithContext(disk, p)) /\ Goto(p, << "done" >>)
          /\ step[p] = << "record_contexts" >> /\ UNCHANGED << migrated, failed >>
          /\ filed' = [filed EXCEPT !.contexts = @ \cup {p}]
      BY <1>3 DEF RecordContexts, WithContext
    <2>2. OnRecord' = OnRecord \cup {}
      BY <2>1 DEF OnRecord, HistoryInv
    <2>3. /\ RowIds(WithContext(disk, p).usage) = RowIds(disk.usage) \cup {}
          /\ WithContext(disk, p).usage_legacy = disk.usage_legacy
          /\ WithContext(disk, p).traces_legacy = disk.traces_legacy
      BY ContextTables DEF HistoryInv, RowTables
    <2> QED
      BY <2>1, <2>2, <2>3, TransactionKeepsComplete
  <1> QED
    BY <1>1, <1>2, <1>3

\* No legacy table is there before the first upgrade.
LEMMA CompleteInvInit == MigrationInit => CompleteInv
  <1> SUFFICES ASSUME MigrationInit PROVE CompleteInv
    OBVIOUS
  <1>1. PICK traces \in OldTables, usage \in OldTables \cup {NoTable} :
          disk = [ traces |-> traces, traces_legacy |-> NoTable, usage |-> usage,
                   usage_legacy |-> NoTable, contexts |-> NoContexts ]
    BY DEF MigrationInit, OldDatabases
  <1>2. draft = disk /\ ~migrated /\ writer = Nobody
    BY DEF MigrationInit
  <1>3. \A h \in History : Row(h).id = h /\ StrictRow(h).id = h
    BY DEF Row, StrictRow
  <1>4. /\ RowIds(Table("strict", {StrictRow(h) : h \in History})) = History
        /\ RowIds(Table("nullable", {Row(h) : h \in History})) = History
        /\ RowIds(NoTable) = {} /\ ~Exists(NoTable)
    BY <1>3 DEF RowIds, Table, NoTable, Exists
  <1>5. RowIds(usage) \subseteq History
    BY <1>4 DEF OldTables
  <1>6. UsageOnRecord(disk)
    BY <1>1, <1>4, <1>5 DEF UsageOnRecord, OnRecord
  <1>7. \A t \in Rebuilt : ~Exists(draft[Legacy[t]])
    BY <1>1, <1>2, <1>4 DEF Rebuilt, Legacy
  <1> QED
    BY <1>2, <1>6, <1>7 DEF CompleteInv

\* Every step preserves it.
LEMMA CompleteInvNext ==
  HistoryInv /\ CompleteInv /\ [MigrationNext]_migrationVars => CompleteInv'
  <1> SUFFICES ASSUME HistoryInv, CompleteInv, [MigrationNext]_migrationVars PROVE CompleteInv'
    OBVIOUS
  <1>1. CASE UNCHANGED migrationVars
    BY <1>1 DEF migrationVars, histories, CompleteInv, UsageOnRecord, OnRecord, LegacyInUse, Exists,
                RowIds, Legacy, BeforeBackfill
  <1>2. ASSUME NEW p \in Processes,
               \/ Initialize(p) \/ RecordRun(p) \/ RecordRunFails(p) \/ Migrate(p)
               \/ Interrupted(p)
        PROVE  CompleteInv'
    <2>1. ASSUME NEW t \in Rebuilt, CreateTable(p, t) \/ RecreateTable(p, t)
          PROVE  CompleteInv'
      BY <2>1, CreateKeepsComplete
    <2>2. ASSUME NEW t \in Rebuilt,
                 InspectTable(p, t) \/ RenameTable(p, t) \/ CopyRows(p, t) \/ DropLegacy(p, t)
          PROVE  CompleteInv'
      BY <2>2, InspectKeepsComplete, RebuildKeepsComplete
    <2>3. Initialize(p) \/ Backfill(p) \/ Downgrade(p) \/ CommitMigration(p) => CompleteInv'
      BY InitializeKeepsComplete, UpdatesKeepComplete, CommitKeepsComplete
    <2>4. RecordRun(p) \/ OpenContexts(p) \/ RecordContexts(p) \/ Abandon(p) => CompleteInv'
      BY RecordingKeepsComplete, AbandonKeepsComplete
    <2> QED
      BY <1>2, <2>1, <2>2, <2>3, <2>4, ProcessSteps
  <1> QED
    BY <1>1, <1>2 DEF MigrationNext

\* If no call of initialize failed, then when none is under way every request on
\* record is in both tables that are read, and no renamed table is left.
THEOREM UpgradesWithoutFailureComplete == MigrationSpec => []UpgradeWithoutFailureIsComplete
  <1>1. MigrationInit => HistoryInv /\ CompleteInv
    BY HistoryInvInit, CompleteInvInit
  <1>2. HistoryInv /\ CompleteInv /\ [MigrationNext]_migrationVars => (HistoryInv /\ CompleteInv)'
    BY HistoryInvNext, CompleteInvNext
  <1>3. HistoryInv /\ CompleteInv => UpgradeWithoutFailureIsComplete
    <2> SUFFICES ASSUME HistoryInv, CompleteInv, migrated, ~failed,
                        \A p \in Processes : ~Active(p)
                 PROVE  /\ RowIds(disk.traces) = OnRecord /\ RowIds(disk.usage) = OnRecord
                        /\ ~Exists(disk.traces_legacy) /\ ~Exists(disk.usage_legacy)
      BY DEF UpgradeWithoutFailureIsComplete, OnRecord
    <2>1. \A p \in Processes : step[p][1] \in {"idle", "done", "failed"}
      BY DEF Active
    <2>2. \A p \in Processes : writer # p /\ ~BeforeBackfill(step[p])
      BY <2>1 DEF HistoryInv, Held, RebuildSteps, BeforeBackfill
    <2>3. draft = disk /\ Whole(disk)
      BY <2>2 DEF HistoryInv
    <2>4. \A p \in Processes, t \in Rebuilt : step[p] \notin LegacyInUse(t)
      BY <2>1 DEF LegacyInUse
    <2>5. ~Exists(disk.traces_legacy) /\ ~Exists(disk.usage_legacy)
      BY <2>3, <2>4 DEF CompleteInv, Rebuilt, Legacy
    <2>6. RowIds(disk.traces_legacy) = {}
      BY <2>5 DEF HistoryInv, IsDatabase, RowTables, Exists, RowIds
    <2>7. RowIds(disk.usage) = OnRecord
      BY <2>2, <2>3 DEF CompleteInv
    <2> QED
      BY <2>3, <2>5, <2>6, <2>7 DEF Whole
  <1> QED
    BY <1>1, <1>2, <1>3, PTL DEF MigrationSpec

=============================================================================
