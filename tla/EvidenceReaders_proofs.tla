------------------------ MODULE EvidenceReaders_proofs ------------------------
(***************************************************************************)
(* Proofs about BenchmarkLedger and, on top of it, EvidenceReaders, for    *)
(* any number of runs and recordings and any run ids given to them.        *)
(*                                                                         *)
(* The ledger.  The committed tables are right because the draft of the    *)
(* writer is right at every statement, so its invariant says, step by      *)
(* step, what the writer has done to the tables it will commit.  The one   *)
(* step that could go wrong is the insertion of contexts whose coverage    *)
(* was checked in an older state: the foreign key makes it safe because    *)
(* request ids are fresh, hence rows of another recording share none with  *)
(* it.                                                                     *)
(*                                                                         *)
(* The readers.  The queries of a reader see different states of the       *)
(* database.  Two facts tie them together.  Rows identify their recording, *)
(* since request ids are fresh.  And a recording that is replaced never    *)
(* comes back: what a run holds at the first and at the last query, it has *)
(* held throughout.                                                        *)
(***************************************************************************)
EXTENDS EvidenceReaders, Evidence_proofs

\* Two table states agree on everything filed under run r.
SameRun(s, t, r) ==
  /\ s.reports[r] = t.reports[r] /\ s.traces[r] = t.traces[r]
  /\ s.usage[r] = t.usage[r] /\ s.contexts[r] = t.contexts[r]

\* Run r holds exactly what recording w stored, with the given contexts.
Holds(t, r, w, contexts) ==
  /\ t.reports[r] = w /\ t.traces[r] = Ids(w) /\ t.usage[r] = Ids(w)
  /\ t.contexts[r] = contexts

\* What the writer has done so far to its own run.
DraftOf(w) ==
  LET r == RunOf[w]
  IN  /\ step[w] = "insert" => draft.reports[r] = w /\ draft.contexts[r] = {}
      /\ step[w] = "insert_usage" =>
           draft.reports[r] = w /\ draft.traces[r] = Ids(w) /\ draft.contexts[r] = {}
      /\ step[w] = "commit_run" => Holds(draft, r, w, {})
      /\ step[w] = "insert_contexts" =>
           WholeRun(draft, r) /\ draft.reports[r] = db.reports[r] /\ draft.contexts[r] = {}
      /\ step[w] = "commit_contexts" =>
           Holds(draft, r, w, Ids(w)) /\ db.reports[r] = w

\* Exactly the writer is at a writing step, and it changes only its own run.
WriterInv ==
  /\ writer = Nobody => draft = db
  /\ \A w \in Recorders : writer = w <=> step[w] \in Writing
  /\ \A w \in Recorders : writer = w =>
       /\ DraftOf(w)
       /\ \A r \in Runs \ {RunOf[w]} : SameRun(draft, db, r)

LedgerInv == LedgerTypeOK /\ RunsAreWhole /\ ContextsCoverTraces /\ WriterInv

-----------------------------------------------------------------------------
(* Request ids *)

\* Rows that all belong to one recording belong to no other.
LEMMA IdsAreFresh ==
  ASSUME NEW w \in Recorders, NEW v \in Recorders, Ids(w) \subseteq Ids(v)
  PROVE  w = v
  <1>1. PICK i \in ItemsOf[w] : TRUE
    BY RecordersAssumption
  <1>2. << w, i >> \in Ids(v)
    BY <1>1 DEF Ids
  <1> QED
    BY <1>2 DEF Ids

\* Every recording has rows, and they are request ids.
LEMMA IdsType ==
  \A w \in Recorders :
    /\ Ids(w) \in SUBSET RequestIds /\ Ids(w) # {}
    /\ {id[1] : id \in Ids(w)} = {w}
  <1> SUFFICES ASSUME NEW w \in Recorders
               PROVE  Ids(w) \in SUBSET RequestIds /\ Ids(w) # {} /\ {id[1] : id \in Ids(w)} = {w}
    OBVIOUS
  <1>1. PICK i \in ItemsOf[w] : TRUE
    BY RecordersAssumption
  <1>2. << w, i >> \in Ids(w)
    BY <1>1 DEF Ids
  <1>3. \A id \in Ids(w) : id[1] = w
    BY DEF Ids
  <1>4. {id[1] : id \in Ids(w)} = {w}
    BY <1>2, <1>3
  <1> QED
    BY <1>2, <1>4 DEF RequestIds

-----------------------------------------------------------------------------
(* The invariant *)

\* It holds of the empty database.
LEMMA LedgerInvInit == LedgerInit => LedgerInv
  <1> SUFFICES ASSUME LedgerInit PROVE LedgerInv
    OBVIOUS
  <1>1. EmptyDb \in Tables
    BY DEF EmptyDb, Tables
  <1>2. LedgerTypeOK
    BY <1>1 DEF LedgerInit, LedgerTypeOK, Steps
  <1>3. RunsAreWhole /\ ContextsCoverTraces
    BY RecordersAssumption DEF LedgerInit, EmptyDb, RunsAreWhole, WholeRun, ContextsCoverTraces
  <1>4. WriterInv
    BY RecordersAssumption DEF LedgerInit, WriterInv, Writing
  <1> QED
    BY <1>2, <1>3, <1>4 DEF LedgerInv

\* While the tables, the draft and the lock stay as they are, a recorder may
\* move between steps at which it does not write.
LEMMA MovePreserves ==
  ASSUME LedgerInv, NEW w \in Recorders, NEW next \in Steps, step[w] \notin Writing,
         next \notin Writing, Goto(w, next), UNCHANGED << db, draft, writer >>
  PROVE  LedgerInv'
  <1>1. /\ step' \in [Recorders -> Steps] /\ step'[w] = next
        /\ \A v \in Recorders \ {w} : step'[v] = step[v]
    BY DEF LedgerInv, LedgerTypeOK, Goto
  <1>2. LedgerTypeOK'
    BY <1>1 DEF LedgerInv, LedgerTypeOK
  <1>3. RunsAreWhole' /\ ContextsCoverTraces'
    BY DEF LedgerInv, RunsAreWhole, ContextsCoverTraces, WholeRun
  <1>4. WriterInv'
    BY <1>1 DEF LedgerInv, WriterInv, DraftOf, Holds, WholeRun, SameRun
  <1> QED
    BY <1>2, <1>3, <1>4 DEF LedgerInv

\* A transaction opens with a draft that differs from the tables in the
\* writer's own run only, in the way its first step says.
LEMMA BeginPreserves ==
  ASSUME LedgerInv, NEW w \in Recorders, NEW next \in Writing, step[w] \notin Writing,
         NEW tables \in Tables, Begin(w, tables), Goto(w, next), DraftOf(w)',
         \A r \in Runs \ {RunOf[w]} : SameRun(tables, db, r)
  PROVE  LedgerInv'
  <1>1. /\ step' \in [Recorders -> Steps] /\ step'[w] = next
        /\ \A v \in Recorders \ {w} : step'[v] = step[v]
    BY DEF LedgerInv, LedgerTypeOK, Goto, Writing, Steps
  <1>2. writer = Nobody /\ writer' = w /\ draft' = tables /\ db' = db
    BY DEF Begin
  <1>3. LedgerTypeOK'
    BY <1>1, <1>2 DEF LedgerInv, LedgerTypeOK
  <1>4. RunsAreWhole' /\ ContextsCoverTraces'
    BY <1>2 DEF LedgerInv, RunsAreWhole, ContextsCoverTraces, WholeRun
  <1>5. \A v \in Recorders : writer' = v <=> step'[v] \in Writing
    BY <1>1, <1>2, RecordersAssumption DEF LedgerInv, WriterInv
  <1>6. WriterInv'
    <2>1. SUFFICES ASSUME NEW v \in Recorders, writer' = v
                   PROVE  DraftOf(v)' /\ \A r \in Runs \ {RunOf[v]} : SameRun(draft, db, r)'
      BY <1>2, <1>5, RecordersAssumption DEF WriterInv
    <2>2. v = w
      BY <1>2, <2>1
    <2> QED
      BY <1>2, <2>2 DEF SameRun
  <1> QED
    BY <1>3, <1>4, <1>6 DEF LedgerInv

\* A statement of the open transaction changes the writer's own run only.
LEMMA StatementPreserves ==
  ASSUME LedgerInv, NEW w \in Recorders, NEW next \in Writing, step[w] \in Writing,
         draft' \in Tables, UNCHANGED << db, writer >>, Goto(w, next), DraftOf(w)',
         \A r \in Runs \ {RunOf[w]} : SameRun(draft', draft, r)
  PROVE  LedgerInv'
  <1>1. /\ step' \in [Recorders -> Steps] /\ step'[w] = next
        /\ \A v \in Recorders \ {w} : step'[v] = step[v]
    BY DEF LedgerInv, LedgerTypeOK, Goto, Writing, Steps
  <1>2. writer = w /\ \A r \in Runs \ {RunOf[w]} : SameRun(draft, db, r)
    BY DEF LedgerInv, WriterInv
  <1>3. LedgerTypeOK'
    BY <1>1 DEF LedgerInv, LedgerTypeOK
  <1>4. RunsAreWhole' /\ ContextsCoverTraces'
    BY DEF LedgerInv, RunsAreWhole, ContextsCoverTraces, WholeRun
  <1>5. \A v \in Recorders : writer' = v <=> step'[v] \in Writing
    BY <1>1, <1>2 DEF LedgerInv, WriterInv
  <1>6. WriterInv'
    <2>1. SUFFICES ASSUME NEW v \in Recorders, writer' = v
                   PROVE  DraftOf(v)' /\ \A r \in Runs \ {RunOf[v]} : SameRun(draft, db, r)'
      BY <1>2, <1>5, RecordersAssumption DEF WriterInv
    <2>2. v = w
      BY <1>2, <2>1
    <2> QED
      BY <1>2, <2>2 DEF SameRun
  <1> QED
    BY <1>3, <1>4, <1>6 DEF LedgerInv

\* A commit makes the draft the tables.
LEMMA CommitPreserves ==
  ASSUME LedgerInv, NEW w \in Recorders, NEW next \in Steps \ Writing, step[w] \in Writing,
         CommitDraft, Goto(w, next),
         WholeRun(draft, RunOf[w]), draft.contexts[RunOf[w]] \in {{}, draft.traces[RunOf[w]]}
  PROVE  LedgerInv'
  <1>1. /\ step' \in [Recorders -> Steps] /\ step'[w] = next
        /\ \A v \in Recorders \ {w} : step'[v] = step[v]
    BY DEF LedgerInv, LedgerTypeOK, Goto
  <1>2. writer = w /\ \A r \in Runs \ {RunOf[w]} : SameRun(draft, db, r)
    BY DEF LedgerInv, WriterInv
  <1>3. db' = draft /\ draft' = draft /\ writer' = Nobody
    BY DEF CommitDraft
  <1>4. LedgerTypeOK'
    BY <1>1, <1>3 DEF LedgerInv, LedgerTypeOK
  <1>5. \A r \in Runs : WholeRun(draft, r) /\ draft.contexts[r] \in {{}, draft.traces[r]}
    BY <1>2 DEF LedgerInv, RunsAreWhole, ContextsCoverTraces, WholeRun, SameRun
  <1>6. RunsAreWhole' /\ ContextsCoverTraces'
    BY <1>3, <1>5 DEF RunsAreWhole, ContextsCoverTraces, WholeRun
  <1>7. WriterInv'
    BY <1>1, <1>2, <1>3, RecordersAssumption DEF LedgerInv, WriterInv
  <1> QED
    BY <1>4, <1>6, <1>7 DEF LedgerInv

\* A recorder that fails gives up its draft and the lock.
LEMMA RollbackPreserves ==
  ASSUME LedgerInv, NEW w \in Recorders, Rollback(w), Goto(w, "failed")
  PROVE  LedgerInv'
  <1>1. /\ step' \in [Recorders -> Steps] /\ step'[w] = "failed" /\ "failed" \notin Writing
        /\ \A v \in Recorders \ {w} : step'[v] = step[v]
    BY DEF LedgerInv, LedgerTypeOK, Goto, Steps, Writing
  <1>2. CASE writer = w
    <2>1. draft' = db /\ writer' = Nobody /\ db' = db
      BY <1>2 DEF Rollback
    <2>2. LedgerTypeOK'
      BY <1>1, <2>1 DEF LedgerInv, LedgerTypeOK
    <2>3. RunsAreWhole' /\ ContextsCoverTraces'
      BY <2>1 DEF LedgerInv, RunsAreWhole, ContextsCoverTraces, WholeRun
    <2>4. WriterInv'
      BY <1>1, <1>2, <2>1, RecordersAssumption DEF LedgerInv, WriterInv
    <2> QED
      BY <2>2, <2>3, <2>4 DEF LedgerInv
  <1>3. CASE writer # w
    BY <1>1, <1>3, MovePreserves DEF Rollback, LedgerInv, WriterInv, Steps
  <1> QED
    BY <1>2, <1>3

-----------------------------------------------------------------------------
(* Each statement, in the order of the code *)

\* Tables stay tables when the rows of one run are replaced.
LEMMA TablesType ==
  ASSUME NEW tables \in Tables, NEW r \in Runs
  PROVE  /\ \A w \in Recorders :
              [tables EXCEPT !.reports[r] = w, !.traces[r] = {}, !.usage[r] = {},
                             !.contexts[r] = {}] \in Tables
         /\ \A rows \in SUBSET RequestIds :
              /\ [tables EXCEPT !.traces[r] = rows] \in Tables
              /\ [tables EXCEPT !.usage[r] = rows] \in Tables
              /\ [tables EXCEPT !.contexts[r] = rows] \in Tables
  BY DEF Tables

\* record_run opens its transaction and clears the run.
LEMMA ReplaceRunPreserves ==
  ASSUME LedgerInv, NEW w \in Recorders, ReplaceRun(w)
  PROVE  LedgerInv'
  <1> DEFINE r == RunOf[w]
             tables == [db EXCEPT !.reports[r] = w, !.traces[r] = {}, !.usage[r] = {},
                                  !.contexts[r] = {}]
  <1>1. r \in Runs /\ db \in Tables
    BY RecordersAssumption DEF LedgerInv, LedgerTypeOK
  <1>2. tables \in Tables
    BY <1>1, TablesType
  <1>3. Begin(w, tables) /\ Goto(w, "insert") /\ step[w] \notin Writing
    BY DEF ReplaceRun, Writing
  <1>4. tables.reports[r] = w /\ tables.contexts[r] = {}
    BY <1>1 DEF Tables
  <1>5. \A q \in Runs \ {r} : SameRun(tables, db, q)
    BY <1>1 DEF Tables, SameRun
  <1>6. DraftOf(w)'
    BY <1>3, <1>4 DEF DraftOf, Begin, Goto, LedgerInv, LedgerTypeOK
  <1> HIDE DEF tables
  <1> QED
    BY <1>2, <1>3, <1>5, <1>6, BeginPreserves DEF Writing

\* record_run fills the trace table.
LEMMA InsertTracesPreserves ==
  ASSUME LedgerInv, NEW w \in Recorders, InsertTraces(w)
  PROVE  LedgerInv'
  <1> DEFINE r == RunOf[w]
  <1>1. r \in Runs /\ draft \in Tables /\ writer = w
    BY RecordersAssumption DEF LedgerInv, LedgerTypeOK, WriterInv, InsertTraces, Writing
  <1>2. draft.reports[r] = w /\ draft.contexts[r] = {}
    BY <1>1 DEF LedgerInv, WriterInv, DraftOf, InsertTraces
  <1>3. draft' = [draft EXCEPT !.traces[r] = Ids(w)] /\ draft' \in Tables
    BY <1>1, TablesType, IdsType DEF InsertTraces
  <1>4. \A q \in Runs \ {r} : SameRun(draft', draft, q)
    BY <1>1, <1>3 DEF Tables, SameRun
  <1>5. draft'.reports[r] = w /\ draft'.traces[r] = Ids(w) /\ draft'.contexts[r] = {}
    BY <1>1, <1>2, <1>3 DEF Tables
  <1>6. DraftOf(w)'
    BY <1>5 DEF DraftOf, InsertTraces, Goto, LedgerInv, LedgerTypeOK
  <1> QED
    BY <1>3, <1>4, <1>6, StatementPreserves DEF InsertTraces, Writing

\* record_run fills the usage table.
LEMMA InsertUsagePreserves ==
  ASSUME LedgerInv, NEW w \in Recorders, InsertUsage(w)
  PROVE  LedgerInv'
  <1> DEFINE r == RunOf[w]
  <1>1. r \in Runs /\ draft \in Tables /\ writer = w
    BY RecordersAssumption DEF LedgerInv, LedgerTypeOK, WriterInv, InsertUsage, Writing
  <1>2. draft.reports[r] = w /\ draft.traces[r] = Ids(w) /\ draft.contexts[r] = {}
    BY <1>1 DEF LedgerInv, WriterInv, DraftOf, InsertUsage
  <1>3. draft' = [draft EXCEPT !.usage[r] = Ids(w)] /\ draft' \in Tables
    BY <1>1, TablesType, IdsType DEF InsertUsage
  <1>4. \A q \in Runs \ {r} : SameRun(draft', draft, q)
    BY <1>1, <1>3 DEF Tables, SameRun
  <1>5. draft'.reports[r] = w /\ draft'.traces[r] = Ids(w) /\ draft'.usage[r] = Ids(w)
        /\ draft'.contexts[r] = {}
    BY <1>1, <1>2, <1>3 DEF Tables
  <1>6. DraftOf(w)'
    BY <1>5 DEF DraftOf, Holds, InsertUsage, Goto, LedgerInv, LedgerTypeOK
  <1> QED
    BY <1>3, <1>4, <1>6, StatementPreserves DEF InsertUsage, Writing

\* What record_run commits is its own run, whole and without contexts.
LEMMA CommitRunHolds ==
  ASSUME LedgerInv, NEW w \in Recorders, CommitRun(w)
  PROVE  Holds(draft, RunOf[w], w, {})
  BY DEF CommitRun, LedgerInv, WriterInv, DraftOf, Writing

\* Hence its commit preserves the invariant.
LEMMA CommitRunPreserves ==
  ASSUME LedgerInv, NEW w \in Recorders, CommitRun(w)
  PROVE  LedgerInv'
  BY CommitRunHolds, CommitPreserves, RecordersAssumption
  DEF CommitRun, Holds, WholeRun, Writing, Steps

\* The reads of record_contexts move on or give up.
LEMMA ChecksPreserve ==
  ASSUME LedgerInv, NEW w \in Recorders, CheckRun(w) \/ CheckIds(w)
  PROVE  LedgerInv'
  BY MovePreserves DEF CheckRun, CheckIds, Writing, Steps

\* record_contexts opens its transaction and clears the contexts.
LEMMA DeleteContextsPreserves ==
  ASSUME LedgerInv, NEW w \in Recorders, DeleteContexts(w)
  PROVE  LedgerInv'
  <1> DEFINE r == RunOf[w]
             tables == [db EXCEPT !.contexts[r] = {}]
  <1>1. r \in Runs /\ db \in Tables /\ WholeRun(db, r)
    BY RecordersAssumption DEF LedgerInv, LedgerTypeOK, RunsAreWhole
  <1>2. tables \in Tables
    BY <1>1, TablesType
  <1>3. Begin(w, tables) /\ Goto(w, "insert_contexts") /\ step[w] \notin Writing
    BY DEF DeleteContexts, Writing
  <1>4. WholeRun(tables, r) /\ tables.reports[r] = db.reports[r] /\ tables.contexts[r] = {}
    BY <1>1 DEF Tables, WholeRun
  <1>5. \A q \in Runs \ {r} : SameRun(tables, db, q)
    BY <1>1 DEF Tables, SameRun
  <1>6. DraftOf(w)'
    BY <1>3, <1>4 DEF DraftOf, WholeRun, Begin, Goto, LedgerInv, LedgerTypeOK
  <1> HIDE DEF tables
  <1> QED
    BY <1>2, <1>3, <1>5, <1>6, BeginPreserves DEF Writing

\* The foreign key admits contexts only under the recording's own traces.
LEMMA ForeignKeyProtects ==
  ASSUME LedgerInv, NEW w \in Recorders, step[w] = "insert_contexts", ForeignKeyHolds(w)
  PROVE  Holds(draft, RunOf[w], w, {}) /\ db.reports[RunOf[w]] = w
  <1> DEFINE r == RunOf[w]
             v == draft.reports[r]
  <1>1. /\ r \in Runs /\ draft \in Tables /\ WholeRun(draft, r)
        /\ v = db.reports[r] /\ draft.contexts[r] = {}
    BY RecordersAssumption DEF LedgerInv, LedgerTypeOK, WriterInv, DraftOf, Writing
  <1>2. Ids(w) \subseteq draft.traces[r] /\ Ids(w) # {}
    BY IdsType DEF ForeignKeyHolds
  <1>3. v \in Recorders /\ draft.traces[r] = Ids(v) /\ draft.usage[r] = Ids(v)
    BY <1>1, <1>2 DEF WholeRun, Tables
  <1>4. v = w
    BY <1>2, <1>3, IdsAreFresh
  <1> QED
    BY <1>1, <1>3, <1>4 DEF Holds

\* The contexts that pass the foreign key are inserted.
LEMMA InsertContextsPreserves ==
  ASSUME LedgerInv, NEW w \in Recorders, InsertContexts(w)
  PROVE  LedgerInv'
  <1> DEFINE r == RunOf[w]
  <1>1. r \in Runs /\ draft \in Tables /\ Holds(draft, r, w, {}) /\ db.reports[r] = w
    BY RecordersAssumption, ForeignKeyProtects DEF LedgerInv, LedgerTypeOK, InsertContexts
  <1>2. draft' = [draft EXCEPT !.contexts[r] = Ids(w)] /\ draft' \in Tables
    BY <1>1, TablesType, IdsType DEF InsertContexts
  <1>3. \A q \in Runs \ {r} : SameRun(draft', draft, q)
    BY <1>1, <1>2 DEF Tables, SameRun
  <1>4. Holds(draft', r, w, Ids(w))
    BY <1>1, <1>2 DEF Tables, Holds
  <1>5. DraftOf(w)'
    BY <1>1, <1>4 DEF DraftOf, InsertContexts, Goto, LedgerInv, LedgerTypeOK, Holds
  <1> QED
    BY <1>2, <1>3, <1>5, StatementPreserves DEF InsertContexts, Writing

\* What record_contexts commits is its own run with all its contexts.
LEMMA CommitContextsHolds ==
  ASSUME LedgerInv, NEW w \in Recorders, CommitContexts(w)
  PROVE  Holds(draft, RunOf[w], w, Ids(w)) /\ db.reports[RunOf[w]] = w
  BY DEF CommitContexts, LedgerInv, WriterInv, DraftOf, Writing

\* Hence its commit preserves the invariant.
LEMMA CommitContextsPreserves ==
  ASSUME LedgerInv, NEW w \in Recorders, CommitContexts(w)
  PROVE  LedgerInv'
  BY CommitContextsHolds, CommitPreserves, RecordersAssumption
  DEF CommitContexts, Holds, WholeRun, Writing, Steps

\* Every step of the ledger preserves the invariant.
LEMMA LedgerInvNext == LedgerInv /\ [LedgerNext]_ledgerVars => LedgerInv'
  <1> SUFFICES ASSUME LedgerInv, [LedgerNext]_ledgerVars PROVE LedgerInv'
    OBVIOUS
  <1>1. CASE UNCHANGED ledgerVars
    BY <1>1 DEF LedgerInv, LedgerTypeOK, RunsAreWhole, WholeRun, ContextsCoverTraces, WriterInv,
                DraftOf, Holds, SameRun, ledgerVars
  <1>2. CASE \E w \in Recorders : Fail(w)
    BY <1>2, RollbackPreserves DEF Fail
  <1>3. ASSUME NEW w \in Recorders, Record(w) PROVE LedgerInv'
    <2>1. CASE ReplaceRun(w) \/ InsertTraces(w) \/ InsertUsage(w) \/ CommitRun(w)
      BY <2>1, ReplaceRunPreserves, InsertTracesPreserves, InsertUsagePreserves,
         CommitRunPreserves
    <2>2. CASE CheckRun(w) \/ CheckIds(w)
      BY <2>2, ChecksPreserve
    <2>3. CASE DeleteContexts(w) \/ InsertContexts(w) \/ CommitContexts(w)
      BY <2>3, DeleteContextsPreserves, InsertContextsPreserves, CommitContextsPreserves
    <2>4. CASE ContextsRejected(w)
      BY <2>4, RollbackPreserves DEF ContextsRejected
    <2> QED
      BY <1>3, <2>1, <2>2, <2>3, <2>4 DEF Record
  <1> QED
    BY <1>1, <1>2, <1>3 DEF LedgerNext

-----------------------------------------------------------------------------
(* Theorems *)

\* The strengthened invariant holds in every reachable state.
THEOREM LedgerInvariant == LedgerSpec => []LedgerInv
  BY LedgerInvInit, LedgerInvNext, PTL DEF LedgerSpec

\* Type correctness of the database and its recorders.
THEOREM LedgerTypes == LedgerSpec => []LedgerTypeOK
  <1>1. LedgerInv => LedgerTypeOK
    BY DEF LedgerInv
  <1> QED
    BY <1>1, LedgerInvariant, PTL

\* The committed rows of a run are those of the execution its report
\* describes, all of them, in every interleaving and after every crash.
THEOREM RunsStayWhole == LedgerSpec => []RunsAreWhole
  <1>1. LedgerInv => RunsAreWhole
    BY DEF LedgerInv
  <1> QED
    BY <1>1, LedgerInvariant, PTL

\* Contexts cover the traces of their run exactly or are absent, although
\* their coverage is checked outside the transaction that writes them.
THEOREM ContextsStayCovering == LedgerSpec => []ContextsCoverTraces
  <1>1. LedgerInv => ContextsCoverTraces
    BY DEF LedgerInv
  <1> QED
    BY <1>1, LedgerInvariant, PTL

\* Whatever a reader finds committed under a run id is whole.
THEOREM EvidenceStaysWhole == LedgerSpec => []EvidenceIsWhole
  <1>1. RunsAreWhole /\ ContextsCoverTraces => EvidenceIsWhole
    BY DEF EvidenceIsWhole
  <1> QED
    BY <1>1, RunsStayWhole, ContextsStayCovering, PTL

-----------------------------------------------------------------------------
(* Refinement *)

\* The refinement mapping.
evidenceMap == [r \in Runs |-> EvidenceOf(db, r)]

\* Run r of a state that holds recording w, seen as stored evidence.
LEMMA HeldEvidence ==
  ASSUME NEW t, NEW r \in Runs, NEW w \in Recorders
  PROVE  /\ Holds(t, r, w, {}) => EvidenceOf(t, r) = {[by |-> w, contexts |-> {}]}
         /\ Holds(t, r, w, Ids(w)) => EvidenceOf(t, r) = {[by |-> w, contexts |-> {w}]}
  <1>1. w # NoRecording
    BY RecordersAssumption
  <1>2. ASSUME Holds(t, r, w, {}) PROVE EvidenceOf(t, r) = {[by |-> w, contexts |-> {}]}
    <2>1. {id[1] : id \in {}} = {}
      OBVIOUS
    <2> QED
      BY <1>1, <1>2, <2>1 DEF Holds, EvidenceOf
  <1>3. ASSUME Holds(t, r, w, Ids(w)) PROVE EvidenceOf(t, r) = {[by |-> w, contexts |-> {w}]}
    BY <1>1, <1>3, IdsType DEF Holds, EvidenceOf
  <1> QED
    BY <1>2, <1>3

\* A commit changes the evidence of the writer's run id only.
LEMMA CommittedEvidence ==
  ASSUME LedgerInv, NEW w \in Recorders, step[w] \in Writing, CommitDraft
  PROVE  evidenceMap' = [evidenceMap EXCEPT ![RunOf[w]] = EvidenceOf(draft, RunOf[w])]
  <1>1. db' = draft /\ RunOf[w] \in Runs
    BY RecordersAssumption DEF CommitDraft
  <1>2. \A r \in Runs \ {RunOf[w]} : EvidenceOf(draft, r) = EvidenceOf(db, r)
    BY DEF LedgerInv, WriterInv, SameRun, EvidenceOf
  <1>3. evidenceMap' = [r \in Runs |-> EvidenceOf(draft, r)]
    BY <1>1 DEF evidenceMap
  <1> QED
    BY <1>1, <1>2, <1>3 DEF evidenceMap

\* The empty database is the empty store.
LEMMA RefinesInit == LedgerInit => Store!StoreInit
  BY DEF LedgerInit, Store!StoreInit, EmptyDb, EvidenceOf

\* Only the two commits change the evidence: one publishes, one adds contexts.
LEMMA RefinesNext ==
  LedgerInv /\ [LedgerNext]_ledgerVars => [Store!StoreNext]_evidenceMap
  <1> SUFFICES ASSUME LedgerInv, [LedgerNext]_ledgerVars
               PROVE  Store!StoreNext \/ UNCHANGED evidenceMap
    OBVIOUS
  <1>1. CASE UNCHANGED db
    BY <1>1 DEF evidenceMap, EvidenceOf
  <1>2. ASSUME NEW w \in Recorders, CommitRun(w) PROVE Store!StoreNext
    <2>1. evidenceMap' = [evidenceMap EXCEPT ![RunOf[w]] = EvidenceOf(draft, RunOf[w])]
      BY <1>2, CommittedEvidence DEF CommitRun, Writing
    <2>2. EvidenceOf(draft, RunOf[w]) = {[by |-> w, contexts |-> {}]}
      BY <1>2, CommitRunHolds, HeldEvidence, RecordersAssumption
    <2>3. Store!Publish(w)
      BY <2>1, <2>2 DEF Store!Publish, evidenceMap
    <2> QED
      BY <2>3 DEF Store!StoreNext
  <1>3. ASSUME NEW w \in Recorders, CommitContexts(w) PROVE Store!StoreNext
    <2>1. evidenceMap' = [evidenceMap EXCEPT ![RunOf[w]] = EvidenceOf(draft, RunOf[w])]
      BY <1>3, CommittedEvidence DEF CommitContexts, Writing
    <2>2. EvidenceOf(draft, RunOf[w]) = {[by |-> w, contexts |-> {w}]}
      BY <1>3, CommitContextsHolds, HeldEvidence, RecordersAssumption
    <2>3. \E e \in evidenceMap[RunOf[w]] : e.by = w
      BY <1>3, CommitContextsHolds, RecordersAssumption DEF evidenceMap, EvidenceOf
    <2>4. Store!Segment(w)
      BY <2>1, <2>2, <2>3 DEF Store!Segment, evidenceMap
    <2> QED
      BY <2>4 DEF Store!StoreNext
  <1>4. CASE \E w \in Recorders : Fail(w)
    BY <1>1, <1>4 DEF Fail, Rollback
  <1>5. ASSUME NEW w \in Recorders, Record(w), ~CommitRun(w), ~CommitContexts(w)
        PROVE  UNCHANGED db
    BY <1>5 DEF Record, ReplaceRun, InsertTraces, InsertUsage, CheckRun, CheckIds, DeleteContexts,
                InsertContexts, ContextsRejected, Rollback, Begin
  <1>6. CASE UNCHANGED ledgerVars
    BY <1>1, <1>6 DEF ledgerVars
  <1> QED
    BY <1>1, <1>2, <1>3, <1>4, <1>5, <1>6 DEF LedgerNext

\* The database, with its transactions, crashes and stale checks, implements
\* the store of whole evidence.
THEOREM LedgerRefinesStore == LedgerSpec => RefinesEvidenceStore
  <1>1. LedgerInv /\ [LedgerNext]_ledgerVars =>
          [Store!StoreNext]_([r \in Runs |-> EvidenceOf(db, r)])
    BY RefinesNext DEF evidenceMap
  <1> QED
    BY <1>1, RefinesInit, LedgerInvariant, PTL
    DEF LedgerSpec, RefinesEvidenceStore, Store!StoreSpec

-----------------------------------------------------------------------------
(* The database under the readers *)

\* The steps of a recorder whose run is not committed.
Recording == {"record", "insert", "insert_usage", "commit_run"}

\* A report is filed under the run id of its recording, whose own run is then
\* committed: it can add contexts, and never replaces the run again.
ReportsAreFiled ==
  \A r \in Runs :
    LET w == db.reports[r]
    IN  w # NoRecording => RunOf[w] = r /\ step[w] \notin Recording

\* What a step of the ledger does to the reports: nothing, or a recorder that
\* is about to commit its run files its own.
LEMMA ReportsChangeOnCommit ==
  ASSUME LedgerInv, [LedgerNext]_ledgerVars
  PROVE  \/ \A r \in Runs : db'.reports[r] = db.reports[r]
         \/ \E w \in Recorders :
              /\ step[w] = "commit_run" /\ step'[w] = "check_run"
              /\ db'.reports[RunOf[w]] = w
              /\ \A r \in Runs \ {RunOf[w]} : db'.reports[r] = db.reports[r]
  <1>1. CASE UNCHANGED db
    BY <1>1
  <1>2. ASSUME NEW w \in Recorders, CommitRun(w)
        PROVE  /\ step[w] = "commit_run" /\ step'[w] = "check_run"
               /\ db'.reports[RunOf[w]] = w
               /\ \A r \in Runs \ {RunOf[w]} : db'.reports[r] = db.reports[r]
    <2>1. db' = draft /\ step[w] = "commit_run" /\ step'[w] = "check_run" /\ writer = w
      BY <1>2 DEF CommitRun, CommitDraft, Goto, LedgerInv, LedgerTypeOK, WriterInv, Writing
    <2>2. Holds(draft, RunOf[w], w, {})
      BY <1>2, CommitRunHolds
    <2>3. \A r \in Runs \ {RunOf[w]} : SameRun(draft, db, r)
      BY <2>1 DEF LedgerInv, WriterInv
    <2> QED
      BY <2>1, <2>2, <2>3 DEF Holds, SameRun
  <1>3. ASSUME NEW w \in Recorders, CommitContexts(w)
        PROVE  \A r \in Runs : db'.reports[r] = db.reports[r]
    <2>1. db' = draft /\ writer = w
      BY <1>3 DEF CommitContexts, CommitDraft, LedgerInv, WriterInv, Writing
    <2>2. draft.reports[RunOf[w]] = w /\ db.reports[RunOf[w]] = w
      BY <1>3, CommitContextsHolds DEF Holds
    <2>3. \A r \in Runs \ {RunOf[w]} : SameRun(draft, db, r)
      BY <2>1 DEF LedgerInv, WriterInv
    <2> QED
      BY <2>1, <2>2, <2>3 DEF SameRun
  <1>4. ASSUME NEW w \in Recorders, Record(w) \/ Fail(w), ~CommitRun(w), ~CommitContexts(w)
        PROVE  UNCHANGED db
    BY <1>4 DEF Record, ReplaceRun, InsertTraces, InsertUsage, CheckRun, CheckIds, DeleteContexts,
                InsertContexts, ContextsRejected, Fail, Rollback, Begin
  <1>5. CASE UNCHANGED ledgerVars
    BY <1>1, <1>5 DEF ledgerVars
  <1> QED
    BY <1>1, <1>2, <1>3, <1>4, <1>5 DEF LedgerNext

\* No step takes a recorder back to where its run is not committed.
LEMMA RecordingEnds ==
  ASSUME LedgerInv, [LedgerNext]_ledgerVars, NEW w \in Recorders, step[w] \notin Recording
  PROVE  step'[w] \notin Recording
  <1>1. step \in [Recorders -> Steps]
    BY DEF LedgerInv, LedgerTypeOK
  <1>2. CASE UNCHANGED ledgerVars
    BY <1>2 DEF ledgerVars
  <1>3. ASSUME NEW v \in Recorders, Fail(v) PROVE step'[w] \notin Recording
    BY <1>1, <1>3 DEF Fail, Goto, Recording
  <1>4. ASSUME NEW v \in Recorders, Record(v) PROVE step'[w] \notin Recording
    BY <1>1, <1>4 DEF Record, ReplaceRun, InsertTraces, InsertUsage, CommitRun, CheckRun, CheckIds,
                      DeleteContexts, InsertContexts, ContextsRejected, CommitContexts, Goto,
                      Recording
  <1> QED
    BY <1>2, <1>3, <1>4 DEF LedgerNext

\* Every step of the ledger keeps the reports filed.
LEMMA ReportsStayFiled ==
  ASSUME LedgerInv, ReportsAreFiled, [LedgerNext]_ledgerVars
  PROVE  ReportsAreFiled'
  <1>1. \A r \in Runs : db.reports[r] \in Recorders \cup {NoRecording}
    BY DEF LedgerInv, LedgerTypeOK, Tables
  <1>2. \A w \in Recorders : step[w] \notin Recording => step'[w] \notin Recording
    BY RecordingEnds
  <1>3. "check_run" \notin Recording
    BY DEF Recording
  <1> SUFFICES ASSUME NEW r \in Runs, db'.reports[r] # NoRecording
               PROVE  RunOf[db'.reports[r]] = r /\ step'[db'.reports[r]] \notin Recording
    BY DEF ReportsAreFiled
  <1>4. CASE db'.reports[r] = db.reports[r]
    BY <1>1, <1>2, <1>4 DEF ReportsAreFiled
  <1>5. CASE db'.reports[r] # db.reports[r]
    BY <1>3, <1>5, ReportsChangeOnCommit
  <1> QED
    BY <1>4, <1>5

-----------------------------------------------------------------------------
(* What a query returns *)

Sides == {Baseline, Candidate}

RowTables == {"costs", "contexts", "traces", "routes", "usage"}

\* The rows of recording w that a query of the table can select.
Part(table, w) == {id \in Ids(w) : table = "routes" => id[2] \in RoutedBy[w]}

\* A query returns nothing, or all that the recording the run holds filed in
\* the table; and if that is nothing, then only for contexts or an empty run.
LEMMA RowsOfOneRecording ==
  ASSUME LedgerInv, ReportsAreFiled, NEW table \in RowTables, NEW r \in Runs
  PROVE  LET w == db.reports[r]
         IN  /\ w = NoRecording => Rows(table, r) = {}
             /\ w # NoRecording =>
                  /\ w \in Recorders /\ RunOf[w] = r /\ step[w] \notin Recording
                  /\ \/ Rows(table, r) = Part(table, w)
                     \/ table = "contexts" /\ Rows(table, r) = {}
  <1> DEFINE w == db.reports[r]
  <1>1. w \in Recorders \cup {NoRecording} /\ WholeRun(db, r) /\ db.contexts[r] \in {{}, db.traces[r]}
    BY DEF LedgerInv, LedgerTypeOK, Tables, RunsAreWhole, ContextsCoverTraces
  <1>2. w # NoRecording => RunOf[w] = r /\ step[w] \notin Recording
    BY DEF ReportsAreFiled
  <1>3. ASSUME w # NoRecording
        PROVE  db.traces[r] = Ids(w) /\ db.usage[r] = Ids(w) /\ \A id \in Ids(w) : id[1] = w
    BY <1>1, <1>3 DEF WholeRun, Ids
  <1>4. w = NoRecording => db.traces[r] = {} /\ db.usage[r] = {}
    BY <1>1 DEF WholeRun
  <1> HIDE DEF w
  <1>5. CASE table = "costs"
    BY <1>1, <1>2, <1>3, <1>4, <1>5 DEF Rows, Part, w
  <1>6. CASE table = "contexts"
    BY <1>1, <1>2, <1>3, <1>4, <1>6 DEF Rows, Part, w
  <1>7. CASE table = "traces"
    BY <1>1, <1>2, <1>3, <1>4, <1>7 DEF Rows, Part, w
  <1>8. CASE table = "usage"
    BY <1>1, <1>2, <1>3, <1>4, <1>8 DEF Rows, Part, w
  <1>9. CASE table = "routes"
    <2>1. Rows(table, r) = {id \in db.usage[r] : id[2] \in RoutedBy[id[1]]}
      BY <1>9 DEF Rows
    <2>2. w # NoRecording => Rows(table, r) = Part(table, w)
      BY <1>3, <1>9, <2>1 DEF Part
    <2> QED
      BY <1>1, <1>2, <1>4, <2>1, <2>2 DEF w
  <1> QED
    BY <1>5, <1>6, <1>7, <1>8, <1>9 DEF RowTables

\* Rows that some recording filed, if there are any, tell which one.
LEMMA PartsAreFresh ==
  ASSUME NEW v \in Recorders, NEW w \in Recorders, NEW s, NEW t, Part(s, v) \cap Part(t, w) # {}
  PROVE  v = w
  BY DEF Part, Ids

\* All tables but the routes hold every item of a recording, and there is one.
LEMMA WholeParts ==
  ASSUME NEW w \in Recorders, NEW table, table # "routes"
  PROVE  Part(table, w) = Ids(w) /\ Part(table, w) # {}
  <1>1. Part(table, w) = Ids(w)
    BY DEF Part
  <1> QED
    BY <1>1, IdsType

-----------------------------------------------------------------------------
(* What has been read *)

ReadTables == {"reports", "costs", "contexts", "traces", "routes", "usage"}

\* The recordings of a run.
FiledUnder(r) == {w \in Recorders : RunOf[w] = r}

ReaderTypes ==
  /\ command \in Commands
  /\ reads \in 0 .. Len(Plan)
  /\ seen \in [ReadTables -> [Sides -> (SUBSET RequestIds) \cup Recorders]]

\* Each answer is nothing, or the whole of one recording of the run.
AnswersAreWhole ==
  \A r \in Sides, table \in RowTables :
    seen[table][r] = {} \/ \E w \in FiledUnder(r) : seen[table][r] = Part(table, w)

\* A reader that is past the queries of get_report has a report.
ReportsAreRead ==
  /\ reads >= 1 => seen.reports[Baseline] \in FiledUnder(Baseline)
  /\ command # "export" /\ reads >= 3 => seen.reports[Candidate] \in FiledUnder(Candidate)

\* An export that has read the traces of recording w: w will not be recorded
\* again, so as long as the run holds it, and forever once its contexts were
\* read too, the answers in between are those of w.
ExportHolds(w) ==
  command = "export" /\ reads >= 3 /\ seen.traces[Baseline] = Ids(w) =>
    /\ step[w] \notin Recording
    /\ db.reports[Baseline] = w \/ (reads = 6 /\ seen.contexts[Baseline] = Ids(w)) =>
         /\ reads >= 4 => seen.routes[Baseline] = Part("routes", w)
         /\ reads >= 5 => seen.usage[Baseline] = Part("usage", w)

ExportInv == \A w \in FiledUnder(Baseline) : ExportHolds(w)

\* What each verdict was drawn from.
VerdictInv ==
  /\ verdict = "available" =>
       command = "compare_paired" /\ reads = 8 /\ SameWorkload /\ ContextsMatchTraces
  /\ verdict = "comparable" =>
       command = "compare" /\ reads = 4 /\ CompareVerdict = "comparable"
  /\ verdict \in {"segmented", "unsegmented"} =>
       command = "export" /\ reads = 6 /\ ExportVerdict = verdict

ReadersInv ==
  /\ LedgerInv /\ ReportsAreFiled
  /\ ReaderTypes /\ AnswersAreWhole /\ ReportsAreRead /\ ExportInv /\ VerdictInv

\* What a concatenation of two sequences is, position by position.
LEMMA Concatenation ==
  ASSUME NEW S, NEW s \in Seq(S), NEW t \in Seq(S), NEW u \in Seq(S),
         Len(u) = Len(s) + Len(t),
         \A i \in 1 .. Len(s) : u[i] = s[i],
         \A i \in 1 .. Len(t) : u[Len(s) + i] = t[i]
  PROVE  s \o t = u
  OBVIOUS

\* The queries of each command, in order.
LEMMA PlanOf ==
  /\ command = "export" =>
       /\ Len(Plan) = 6 /\ Plan[1] = << "reports", Baseline >> /\ Plan[2] = << "costs", Baseline >>
       /\ Plan[3] = << "traces", Baseline >> /\ Plan[4] = << "routes", Baseline >>
       /\ Plan[5] = << "usage", Baseline >> /\ Plan[6] = << "contexts", Baseline >>
  /\ command = "compare" =>
       /\ Len(Plan) = 4 /\ Plan[1] = << "reports", Baseline >> /\ Plan[2] = << "costs", Baseline >>
       /\ Plan[3] = << "reports", Candidate >> /\ Plan[4] = << "costs", Candidate >>
  /\ command = "compare_paired" =>
       /\ Len(Plan) = 8 /\ Plan[1] = << "reports", Baseline >> /\ Plan[2] = << "costs", Baseline >>
       /\ Plan[3] = << "reports", Candidate >> /\ Plan[4] = << "costs", Candidate >>
       /\ Plan[5] = << "contexts", Baseline >> /\ Plan[6] = << "contexts", Candidate >>
       /\ Plan[7] = << "traces", Baseline >> /\ Plan[8] = << "traces", Candidate >>
  <1> DEFINE S == ReadTables \X Sides
             one == Queries(Baseline)
             other == Queries(Candidate)
             both == << << "reports", Baseline >>, << "costs", Baseline >>,
                        << "reports", Candidate >>, << "costs", Candidate >> >>
             rows == << << "traces", Baseline >>, << "routes", Baseline >>,
                        << "usage", Baseline >>, << "contexts", Baseline >> >>
             pairs == << << "contexts", Baseline >>, << "contexts", Candidate >>,
                         << "traces", Baseline >>, << "traces", Candidate >> >>
             exported == << << "reports", Baseline >>, << "costs", Baseline >>,
                            << "traces", Baseline >>, << "routes", Baseline >>,
                            << "usage", Baseline >>, << "contexts", Baseline >> >>
             paired == << << "reports", Baseline >>, << "costs", Baseline >>,
                          << "reports", Candidate >>, << "costs", Candidate >>,
                          << "contexts", Baseline >>, << "contexts", Candidate >>,
                          << "traces", Baseline >>, << "traces", Candidate >> >>
  <1>1. one = << << "reports", Baseline >>, << "costs", Baseline >> >> /\ one \in Seq(S)
    BY DEF Queries, ReadTables, Sides
  <1>2. other = << << "reports", Candidate >>, << "costs", Candidate >> >> /\ other \in Seq(S)
    BY DEF Queries, ReadTables, Sides
  <1>3. both \in Seq(S) /\ rows \in Seq(S) /\ pairs \in Seq(S)
    BY DEF ReadTables, Sides
  <1>4. exported \in Seq(S) /\ paired \in Seq(S)
    BY DEF ReadTables, Sides
  <1>5. one \o other = both
    <2>1. one \in Seq(S) /\ other \in Seq(S) /\ both \in Seq(S)
      BY <1>1, <1>2, <1>3, <1>4
    <2>2. Len(one) = 2 /\ Len(other) = 2 /\ Len(both) = Len(one) + Len(other)
      BY <1>1, <1>2
    <2>3. \A i \in 1 .. 2 : both[i] = one[i]
      BY <1>1
    <2>4. \A i \in 1 .. 2 : both[2 + i] = other[i]
      BY <1>2
    <2> HIDE DEF S, one, other, both
    <2>5. \A i \in 1 .. Len(one) : both[i] = one[i]
      BY <2>2, <2>3
    <2>6. \A i \in 1 .. Len(other) : both[Len(one) + i] = other[i]
      BY <2>2, <2>4
    <2> QED
      BY <2>1, <2>2, <2>5, <2>6, Concatenation
  <1>6. one \o rows = exported
    <2>1. one \in Seq(S) /\ rows \in Seq(S) /\ exported \in Seq(S)
      BY <1>1, <1>2, <1>3, <1>4
    <2>2. Len(one) = 2 /\ Len(rows) = 4 /\ Len(exported) = Len(one) + Len(rows)
      BY <1>1, <1>2
    <2>3. \A i \in 1 .. 2 : exported[i] = one[i]
      BY <1>1
    <2>4. \A i \in 1 .. 4 : exported[2 + i] = rows[i]
      BY <1>2
    <2> HIDE DEF S, one, rows, exported
    <2>5. \A i \in 1 .. Len(one) : exported[i] = one[i]
      BY <2>2, <2>3
    <2>6. \A i \in 1 .. Len(rows) : exported[Len(one) + i] = rows[i]
      BY <2>2, <2>4
    <2> QED
      BY <2>1, <2>2, <2>5, <2>6, Concatenation
  <1>7. both \o pairs = paired
    <2>1. both \in Seq(S) /\ pairs \in Seq(S) /\ paired \in Seq(S)
      BY <1>1, <1>2, <1>3, <1>4
    <2>2. Len(both) = 4 /\ Len(pairs) = 4 /\ Len(paired) = Len(both) + Len(pairs)
      BY <1>1, <1>2
    <2>3. \A i \in 1 .. 4 : paired[i] = both[i]
      BY <1>1
    <2>4. \A i \in 1 .. 4 : paired[4 + i] = pairs[i]
      BY <1>2
    <2> HIDE DEF S, both, pairs, paired
    <2>5. \A i \in 1 .. Len(both) : paired[i] = both[i]
      BY <2>2, <2>3
    <2>6. \A i \in 1 .. Len(pairs) : paired[Len(both) + i] = pairs[i]
      BY <2>2, <2>4
    <2> QED
      BY <2>1, <2>2, <2>5, <2>6, Concatenation
  <1>8. command = "export" => Plan = exported
    BY <1>6 DEF Plan
  <1>9. command = "compare" => Plan = both
    BY <1>5 DEF Plan
  <1>10. command = "compare_paired" => Plan = paired
    BY <1>5, <1>7 DEF Plan
  <1> QED
    BY <1>8, <1>9, <1>10

\* Every query is one of a table, over one of the two runs.
LEMMA PlanTypes ==
  ASSUME ReaderTypes
  PROVE  /\ Len(Plan) \in {4, 6, 8} /\ reads \in Nat /\ reads <= Len(Plan)
         /\ reads < Len(Plan) =>
              /\ reads + 1 \in 1 .. Len(Plan)
              /\ Plan[reads + 1][1] \in ReadTables /\ Plan[reads + 1][2] \in Sides
  <1>1. Len(Plan) \in {4, 6, 8}
    BY PlanOf DEF ReaderTypes, Commands
  <1>2. reads \in Nat /\ reads <= Len(Plan)
    BY <1>1 DEF ReaderTypes
  <1>3. \A k \in 1 .. Len(Plan) : Plan[k][1] \in ReadTables /\ Plan[k][2] \in Sides
    <2>1. CASE command = "export"
      <3>1. Len(Plan) = 6 /\ \A k \in 1 .. 6 : k \in {1, 2, 3, 4, 5, 6}
        BY <2>1, PlanOf
      <3>2. \A k \in {1, 2, 3, 4, 5, 6} : Plan[k][1] \in ReadTables /\ Plan[k][2] \in Sides
        BY <2>1, PlanOf DEF ReadTables, Sides
      <3> QED
        BY <3>1, <3>2
    <2>2. CASE command = "compare"
      <3>1. Len(Plan) = 4 /\ \A k \in 1 .. 4 : k \in {1, 2, 3, 4}
        BY <2>2, PlanOf
      <3>2. \A k \in {1, 2, 3, 4} : Plan[k][1] \in ReadTables /\ Plan[k][2] \in Sides
        BY <2>2, PlanOf DEF ReadTables, Sides
      <3> QED
        BY <3>1, <3>2
    <2>3. CASE command = "compare_paired"
      <3>1. Len(Plan) = 8 /\ \A k \in 1 .. 8 : k \in {1, 2, 3, 4, 5, 6, 7, 8}
        BY <2>3, PlanOf
      <3>2. \A k \in {1, 2, 3, 4, 5, 6, 7, 8} : Plan[k][1] \in ReadTables /\ Plan[k][2] \in Sides
        BY <2>3, PlanOf DEF ReadTables, Sides
      <3> QED
        BY <3>1, <3>2
    <2> QED
      BY <2>1, <2>2, <2>3 DEF ReaderTypes, Commands
  <1>4. reads < Len(Plan) => reads + 1 \in 1 .. Len(Plan)
    BY <1>1, <1>2
  <1> QED
    BY <1>1, <1>2, <1>3, <1>4

-----------------------------------------------------------------------------
(* The invariant of the readers *)

\* Nothing has been read at first.
LEMMA ReadersInvInit == ReadersInit => ReadersInv
  <1> SUFFICES ASSUME ReadersInit PROVE ReadersInv
    OBVIOUS
  <1>1. LedgerInv
    BY LedgerInvInit DEF ReadersInit
  <1>2. ReportsAreFiled
    BY DEF ReadersInit, LedgerInit, EmptyDb, ReportsAreFiled
  <1>3. /\ command \in Commands /\ reads = 0 /\ verdict = "pending"
        /\ seen = [table \in ReadTables |-> [r \in Sides |-> {}]]
    BY DEF ReadersInit, ReaderInit, ReadTables, Sides
  <1>4. ReaderTypes
    BY <1>3, PlanOf DEF ReaderTypes, Commands
  <1>5. AnswersAreWhole
    BY <1>3 DEF AnswersAreWhole, RowTables, ReadTables
  <1>6. ReportsAreRead /\ ExportInv /\ VerdictInv
    BY <1>3 DEF ReportsAreRead, ExportInv, ExportHolds, VerdictInv
  <1> QED
    BY <1>1, <1>2, <1>4, <1>5, <1>6 DEF ReadersInv

\* A verdict depends on what was read only.
LEMMA VerdictsFollowAnswers ==
  ASSUME command' = command, seen' = seen
  PROVE  /\ SameWorkload' = SameWorkload /\ ContextsMatchTraces' = ContextsMatchTraces
         /\ CompareVerdict' = CompareVerdict /\ ExportVerdict' = ExportVerdict
  <1>1. \A r : ReportOf(r)' = ReportOf(r)
    BY DEF ReportOf, StoredReport, HasCost
  <1>2. \A r : ReportCost(r)' = ReportCost(r)
    BY <1>1 DEF ReportCost, RecordsOf, RecordOf, ReadReport
  <1>3. \A r : TagsIn(r)' = TagsIn(r)
    BY DEF TagsIn, ContextIdOf, ItemsIn
  <1>4. SameWorkload' = SameWorkload /\ ContextsMatchTraces' = ContextsMatchTraces
    BY <1>1, <1>3 DEF SameWorkload, ContextsMatchTraces
  <1>5. CompareVerdict' = CompareVerdict /\ ExportVerdict' = ExportVerdict
    BY <1>1, <1>2 DEF CompareVerdict, ExportVerdict
  <1> QED
    BY <1>4, <1>5

\* While the database is written, what was read stays what it was, and a
\* recording that was replaced does not return.
LEMMA ReadersInvLedger ==
  ASSUME ReadersInv, [LedgerNext]_ledgerVars, UNCHANGED readerVars
  PROVE  ReadersInv'
  <1>1. LedgerInv' /\ ReportsAreFiled'
    BY LedgerInvNext, ReportsStayFiled DEF ReadersInv
  <1>2. command' = command /\ reads' = reads /\ seen' = seen /\ verdict' = verdict
    BY DEF readerVars
  <1>3. Plan' = Plan
    BY <1>2 DEF Plan, Queries
  <1>4. ReaderTypes' /\ AnswersAreWhole' /\ ReportsAreRead'
    BY <1>2, <1>3 DEF ReadersInv, ReaderTypes, Sides, ReadTables, RequestIds, Ids, AnswersAreWhole,
                      RowTables, FiledUnder, Part, ReportsAreRead, Commands
  <1>5. ASSUME NEW w \in FiledUnder(Baseline) PROVE ExportHolds(w)'
    <2>1. w \in Recorders /\ RunOf[w] = Baseline /\ ExportHolds(w)
      BY <1>5 DEF FiledUnder, ReadersInv, ExportInv
    <2>2. step[w] \notin Recording => step'[w] \notin Recording
      BY <2>1, RecordingEnds DEF ReadersInv
    <2>3. ASSUME step[w] \notin Recording, db'.reports[Baseline] = w
          PROVE  db.reports[Baseline] = w
      <3>1. step[w] # "commit_run"
        BY <2>3 DEF Recording
      <3> QED
        BY <2>1, <2>3, <3>1, ReportsChangeOnCommit, ReaderAssumption DEF ReadersInv
    <2> QED
      BY <1>2, <2>1, <2>2, <2>3 DEF ExportHolds, Ids, Part, Recording
  <1>6. ExportInv'
    BY <1>5 DEF ExportInv, FiledUnder
  <1>7. VerdictInv'
    BY <1>2, VerdictsFollowAnswers DEF ReadersInv, VerdictInv
  <1> QED
    BY <1>1, <1>4, <1>6, <1>7 DEF ReadersInv

\* A query that is answered adds its answer to those before it.
LEMMA ReadersInvRead ==
  ASSUME ReadersInv, Read, UNCHANGED ledgerVars
  PROVE  ReadersInv'
  <1> DEFINE table == Plan[reads + 1][1]
             r == Plan[reads + 1][2]
  <1>1. /\ verdict = "pending" /\ reads < Len(Plan) /\ command' = command
        /\ \/ verdict' = "raised" /\ seen' = seen /\ reads' = reads
           \/ /\ seen' = [seen EXCEPT ![table][r] = Rows(table, r)]
              /\ reads' = reads + 1 /\ verdict' = verdict
              /\ table = "reports" => db.reports[r] # NoRecording
    BY DEF Read
  <1>2. LedgerInv' /\ ReportsAreFiled' /\ Plan' = Plan /\ db' = db /\ step' = step
    <2>1. LedgerInv' /\ ReportsAreFiled'
      BY LedgerInvNext, ReportsStayFiled DEF ReadersInv
    <2> QED
      BY <1>1, <2>1 DEF ledgerVars, Plan, Queries
  <1>3. VerdictInv'
    BY <1>1 DEF ReadersInv, VerdictInv
  <1>4. CASE verdict' = "raised"
    <2>1. seen' = seen /\ reads' = reads
      BY <1>1, <1>4
    <2>2. ReaderTypes' /\ AnswersAreWhole' /\ ReportsAreRead'
      BY <1>1, <1>2, <2>1 DEF ReadersInv, ReaderTypes, Sides, ReadTables, RequestIds, Ids,
                              AnswersAreWhole, RowTables, FiledUnder, Part, ReportsAreRead, Commands
    <2>3. ExportInv'
      BY <1>1, <1>2, <2>1 DEF ReadersInv, ExportInv, ExportHolds, FiledUnder, Ids, Part, Recording
    <2> QED
      BY <1>2, <1>3, <2>2, <2>3 DEF ReadersInv
  <1>5. CASE verdict' # "raised"
    <2>1. /\ seen' = [seen EXCEPT ![table][r] = Rows(table, r)] /\ reads' = reads + 1
          /\ table = "reports" => db.reports[r] # NoRecording
      BY <1>1, <1>5
    <2>2. /\ reads \in Nat /\ reads + 1 \in 1 .. Len(Plan) /\ table \in ReadTables /\ r \in Sides
          /\ Len(Plan) \in Nat
      BY <1>1, PlanTypes DEF ReadersInv
    <2>3. r \in Runs
      BY <2>2, ReaderAssumption DEF Sides
    <2>4. table \in RowTables => Rows(table, r) = {} \/ \E w \in FiledUnder(r) : Rows(table, r) = Part(table, w)
      BY <2>3, RowsOfOneRecording DEF ReadersInv, FiledUnder
    <2>5. table = "reports" => Rows(table, r) = db.reports[r] /\ db.reports[r] \in FiledUnder(r)
      BY <2>1, <2>3 DEF ReadersInv, LedgerInv, LedgerTypeOK, Tables, ReportsAreFiled, FiledUnder, Rows
    <2>6. Rows(table, r) \in (SUBSET RequestIds) \cup Recorders
      <3>1. \A w \in Recorders : Part(table, w) \in SUBSET RequestIds
        BY DEF Part, RequestIds
      <3> QED
        BY <2>2, <2>4, <2>5, <3>1 DEF FiledUnder, RowTables, ReadTables
    <2> HIDE DEF table, r
    <2>7. /\ seen \in [ReadTables -> [Sides -> (SUBSET RequestIds) \cup Recorders]]
          /\ seen' \in [ReadTables -> [Sides -> (SUBSET RequestIds) \cup Recorders]]
      BY <2>1, <2>2, <2>6 DEF ReadersInv, ReaderTypes
    <2>8. /\ seen'[table][r] = Rows(table, r)
          /\ \A t \in ReadTables, q \in Sides : t # table \/ q # r => seen'[t][q] = seen[t][q]
      BY <2>1, <2>2, <2>7
    <2>9. ReaderTypes'
      BY <1>1, <1>2, <2>1, <2>2, <2>7 DEF ReadersInv, ReaderTypes, Commands, ReadTables, Sides,
                                         RequestIds, Ids
    <2>10. AnswersAreWhole'
      BY <2>4, <2>8 DEF ReadersInv, AnswersAreWhole, RowTables, ReadTables, FiledUnder, Part, Ids, Sides
    <2>11. ReportsAreRead'
      <3>1. reads = 0 => table = "reports" /\ r = Baseline
        BY PlanOf DEF ReadersInv, ReaderTypes, Commands, table, r
      <3>2. command # "export" /\ reads = 2 => table = "reports" /\ r = Candidate
        BY PlanOf DEF ReadersInv, ReaderTypes, Commands, table, r
      <3>3. reads >= 1 => seen.reports[Baseline] \in FiledUnder(Baseline)
        BY DEF ReadersInv, ReportsAreRead
      <3>4. command # "export" /\ reads >= 3 => seen.reports[Candidate] \in FiledUnder(Candidate)
        BY DEF ReadersInv, ReportsAreRead
      <3>5. \A q \in Sides : \/ seen'.reports[q] = seen.reports[q]
                             \/ table = "reports" /\ q = r /\ seen'.reports[q] \in FiledUnder(q)
        BY <2>5, <2>8 DEF ReadTables
      <3>6. seen'.reports[Baseline] \in FiledUnder(Baseline)
        BY <2>2, <2>5, <2>8, <3>1, <3>3, <3>5 DEF Sides
      <3>7. command # "export" /\ reads + 1 >= 3 => seen'.reports[Candidate] \in FiledUnder(Candidate)
        BY <2>2, <2>5, <2>8, <3>2, <3>4, <3>5 DEF Sides
      <3> QED
        BY <1>1, <2>1, <3>6, <3>7 DEF ReportsAreRead, FiledUnder
    <2>12. ExportInv'
      <3> SUFFICES ASSUME NEW w \in FiledUnder(Baseline), command = "export", reads + 1 >= 3,
                          seen'.traces[Baseline] = Ids(w)
                   PROVE  /\ step[w] \notin Recording
                          /\ db.reports[Baseline] = w
                               \/ (reads + 1 = 6 /\ seen'.contexts[Baseline] = Ids(w)) =>
                               /\ reads + 1 >= 4 => seen'.routes[Baseline] = Part("routes", w)
                               /\ reads + 1 >= 5 => seen'.usage[Baseline] = Part("usage", w)
        BY <1>1, <1>2, <2>1 DEF ExportInv, ExportHolds, FiledUnder, Ids, Part, Recording
      <3>1. /\ w \in Recorders /\ RunOf[w] = Baseline /\ ExportHolds(w) /\ Baseline \in Sides
            /\ Ids(w) # {}
        BY IdsType DEF FiledUnder, ReadersInv, ExportInv, Sides
      <3>2. /\ reads \in {2, 3, 4, 5} /\ r = Baseline
            /\ reads = 2 => table = "traces"
            /\ reads = 3 => table = "routes"
            /\ reads = 4 => table = "usage"
            /\ reads = 5 => table = "contexts"
        <4>1. reads \in {2, 3, 4, 5}
          <5>1. Len(Plan) = 6 /\ reads + 1 <= Len(Plan) /\ reads + 1 >= 3
            BY <2>2, PlanOf
          <5> QED
            BY <2>2, <5>1
        <4> QED
          BY <4>1, PlanOf DEF table, r
      <3> DEFINE v == db.reports[Baseline]
      <3>3. /\ v = NoRecording => Rows(table, Baseline) = {}
            /\ v # NoRecording =>
                  /\ v \in Recorders /\ step[v] \notin Recording
                  /\ \/ Rows(table, Baseline) = Part(table, v)
                     \/ table = "contexts" /\ Rows(table, Baseline) = {}
        BY <2>3, <3>2, RowsOfOneRecording DEF ReadersInv, RowTables
      <3> HIDE DEF v
      <3>4. CASE reads = 2
        <4>1. Rows(table, Baseline) = Ids(w) /\ table = "traces"
          BY <2>8, <3>2, <3>4
        <4>2. v \in Recorders /\ Part(table, v) = Ids(w) /\ step[v] \notin Recording
          BY <3>1, <3>3, <4>1
        <4>3. v = w
          BY <3>1, <4>1, <4>2, WholeParts, IdsAreFresh
        <4> QED
          BY <3>4, <4>2, <4>3
      <3>5. CASE reads \in {3, 4, 5}
        <4>1. seen'.traces[Baseline] = seen.traces[Baseline]
          BY <2>8, <3>1, <3>2, <3>5 DEF ReadTables
        <4>2. /\ step[w] \notin Recording
              /\ v = w => /\ reads >= 4 => seen.routes[Baseline] = Part("routes", w)
                          /\ reads >= 5 => seen.usage[Baseline] = Part("usage", w)
          BY <3>1, <3>5, <4>1 DEF ExportHolds, v
        <4>3. v = w => Rows(table, Baseline) = Part(table, w) \/ table = "contexts"
          BY <3>1, <3>3, RecordersAssumption
        <4>4. reads = 5 /\ seen'.contexts[Baseline] = Ids(w) => v = w
          <5>1. SUFFICES ASSUME reads = 5, Rows(table, Baseline) = Ids(w), table = "contexts"
                         PROVE  v = w
            BY <2>8, <3>1, <3>2 DEF ReadTables
          <5>2. v \in Recorders /\ Part(table, v) = Ids(w)
            BY <3>1, <3>3, <5>1
          <5> QED
            BY <3>1, <5>1, <5>2, WholeParts, IdsAreFresh
        <4>5. \A t \in ReadTables : seen'[t][Baseline] = IF t = table THEN Rows(table, Baseline)
                                                         ELSE seen[t][Baseline]
          BY <2>8, <3>1, <3>2
        <4>6. /\ seen'.routes[Baseline] = IF reads = 3 THEN Rows(table, Baseline) ELSE seen.routes[Baseline]
              /\ seen'.usage[Baseline] = IF reads = 4 THEN Rows(table, Baseline) ELSE seen.usage[Baseline]
          BY <3>2, <3>5, <4>5 DEF ReadTables
        <4>7. v = w => /\ reads + 1 >= 4 => seen'.routes[Baseline] = Part("routes", w)
                       /\ reads + 1 >= 5 => seen'.usage[Baseline] = Part("usage", w)
          BY <3>2, <3>5, <4>2, <4>3, <4>6
        <4> QED
          BY <3>5, <4>2, <4>4, <4>7 DEF v
      <3> QED
        BY <3>2, <3>4, <3>5
    <2> QED
      BY <1>2, <1>3, <2>9, <2>10, <2>11, <2>12 DEF ReadersInv
  <1> QED
    BY <1>4, <1>5

\* A command concludes after its last query, from all its answers.
LEMMA ReadersInvConclude ==
  ASSUME ReadersInv, Conclude, UNCHANGED ledgerVars
  PROVE  ReadersInv'
  <1>1. /\ verdict = "pending" /\ reads = Len(Plan)
        /\ command' = command /\ reads' = reads /\ seen' = seen
        /\ command = "compare_paired" => verdict' = PairedVerdict
        /\ command = "compare" => verdict' = CompareVerdict
        /\ command = "export" => verdict' = ExportVerdict
    BY DEF Conclude
  <1>2. LedgerInv' /\ ReportsAreFiled' /\ Plan' = Plan /\ db' = db /\ step' = step
    <2>1. LedgerInv' /\ ReportsAreFiled'
      BY LedgerInvNext, ReportsStayFiled DEF ReadersInv
    <2> QED
      BY <1>1, <2>1 DEF ledgerVars, Plan, Queries
  <1>3. ReaderTypes' /\ AnswersAreWhole' /\ ReportsAreRead' /\ ExportInv'
    <2>1. ReaderTypes' /\ AnswersAreWhole' /\ ReportsAreRead'
      BY <1>1, <1>2 DEF ReadersInv, ReaderTypes, Sides, ReadTables, RequestIds, Ids,
                        AnswersAreWhole, RowTables, FiledUnder, Part, ReportsAreRead, Commands
    <2>2. ExportInv'
      BY <1>1, <1>2 DEF ReadersInv, ExportInv, ExportHolds, FiledUnder, Ids, Part, Recording
    <2> QED
      BY <2>1, <2>2
  <1>4. /\ PairedVerdict \in {"unavailable", "raised", "available"}
        /\ PairedVerdict = "available" => SameWorkload /\ ContextsMatchTraces
        /\ CompareVerdict \in {"comparable", "not_comparable"}
        /\ ExportVerdict \in {"unsegmented", "segmented", "raised"}
    BY DEF PairedVerdict, CompareVerdict, ExportVerdict
  <1>5. /\ command \in Commands
        /\ command = "compare_paired" => reads = 8
        /\ command = "compare" => reads = 4
        /\ command = "export" => reads = 6
    BY <1>1, PlanOf DEF ReadersInv, ReaderTypes
  <1>6. /\ verdict' = "available" =>
             command = "compare_paired" /\ reads = 8 /\ SameWorkload /\ ContextsMatchTraces
        /\ verdict' = "comparable" =>
             command = "compare" /\ reads = 4 /\ CompareVerdict = "comparable"
        /\ verdict' \in {"segmented", "unsegmented"} =>
             command = "export" /\ reads = 6 /\ ExportVerdict = verdict'
    BY <1>1, <1>4, <1>5 DEF Commands
  <1>7. SameWorkload' = SameWorkload /\ ContextsMatchTraces' = ContextsMatchTraces
        /\ CompareVerdict' = CompareVerdict /\ ExportVerdict' = ExportVerdict
    BY <1>1, VerdictsFollowAnswers
  <1>8. VerdictInv'
    BY <1>1, <1>6, <1>7 DEF VerdictInv
  <1> QED
    BY <1>2, <1>3, <1>8 DEF ReadersInv

\* Every step preserves the invariant.
LEMMA ReadersInvNext == ReadersInv /\ [ReadersNext]_readersVars => ReadersInv'
  <1> SUFFICES ASSUME ReadersInv, [ReadersNext]_readersVars PROVE ReadersInv'
    OBVIOUS
  <1>1. CASE [LedgerNext]_ledgerVars /\ UNCHANGED readerVars
    BY <1>1, ReadersInvLedger
  <1>2. CASE Read /\ UNCHANGED ledgerVars
    BY <1>2, ReadersInvRead
  <1>3. CASE Conclude /\ UNCHANGED ledgerVars
    BY <1>3, ReadersInvConclude
  <1> QED
    BY <1>1, <1>2, <1>3 DEF ReadersNext, readersVars

\* The invariant holds in every state readers and recorders reach.
THEOREM ReadersInvariant == ReadersSpec => []ReadersInv
  BY ReadersInvInit, ReadersInvNext, PTL DEF ReadersSpec

-----------------------------------------------------------------------------
(* One execution *)

\* The items of the request ids of a recording are its items.
LEMMA IdsItems == \A w \in Recorders : ItemsIn(Ids(w)) = ItemsOf[w]
  <1> SUFFICES ASSUME NEW w \in Recorders PROVE ItemsIn(Ids(w)) = ItemsOf[w]
    OBVIOUS
  <1>1. ASSUME NEW i \in ItemsOf[w] PROVE i \in ItemsIn(Ids(w))
    <2>1. << w, i >> \in Ids(w) /\ << w, i >>[2] = i
      BY DEF Ids
    <2> QED
      BY <2>1 DEF ItemsIn
  <1>2. ASSUME NEW i \in ItemsIn(Ids(w)) PROVE i \in ItemsOf[w]
    BY <1>2 DEF ItemsIn, Ids
  <1> QED
    BY <1>1, <1>2

\* What the answers of a concluded command say about their recordings.
LEMMA HoldOneExecution == ReadersInv => ReadersHoldOneExecution
  <1> SUFFICES ASSUME ReadersInv PROVE ReadersHoldOneExecution
    OBVIOUS
  <1>1. ASSUME NEW r \in Sides, NEW table \in RowTables, seen[table][r] # {}
        PROVE  \E w \in Recorders : RunOf[w] = r /\ seen[table][r] = Part(table, w)
    BY <1>1 DEF ReadersInv, AnswersAreWhole, FiledUnder
  <1>2. Baseline \in Sides /\ Candidate \in Sides
    BY DEF Sides
  <1>3. ASSUME verdict = "available"
        PROVE  \E b, c \in Recorders :
                 /\ OneExecution(Baseline, b, {"contexts", "traces"})
                 /\ OneExecution(Candidate, c, {"contexts", "traces"})
                 /\ ItemsOf[b] = ItemsOf[c]
    <2>1. SameWorkload /\ ContextsMatchTraces
      BY <1>3 DEF ReadersInv, VerdictInv
    <2>2. \A r \in Sides : seen.contexts[r] # {} /\ seen.contexts[r] = seen.traces[r]
      BY <2>1 DEF SameWorkload, ContextsMatchTraces, Sides
    <2>3. \A r \in Sides : \E w \in Recorders : RunOf[w] = r /\ seen.contexts[r] = Ids(w)
      BY <1>1, <2>2, WholeParts DEF RowTables
    <2>4. PICK b \in Recorders, c \in Recorders :
            /\ RunOf[b] = Baseline /\ seen.contexts[Baseline] = Ids(b)
            /\ RunOf[c] = Candidate /\ seen.contexts[Candidate] = Ids(c)
      BY <1>2, <2>3
    <2>5. OneExecution(Baseline, b, {"contexts", "traces"})
          /\ OneExecution(Candidate, c, {"contexts", "traces"})
      BY <1>2, <2>2, <2>4 DEF OneExecution
    <2>6. ItemsIn(seen.contexts[Baseline]) = ItemsIn(seen.contexts[Candidate])
      <3>1. TagsIn(Baseline) = TagsIn(Candidate)
        BY <2>1 DEF SameWorkload
      <3>2. \A r \in Sides : DOMAIN TagsIn(r) = ItemsIn(seen.contexts[r])
        BY DEF TagsIn
      <3> QED
        BY <1>2, <3>1, <3>2
    <2>7. \A w \in Recorders : ItemsIn(Ids(w)) = ItemsOf[w]
      BY IdsItems
    <2> QED
      BY <2>4, <2>5, <2>6, <2>7
  <1>4. ASSUME verdict = "segmented"
        PROVE  \E w \in Recorders :
                 OneExecution(Baseline, w, {"traces", "routes", "usage", "contexts"})
    <2>1. command = "export" /\ reads = 6 /\ ExportVerdict = "segmented"
      BY <1>4 DEF ReadersInv, VerdictInv
    <2>2. seen.contexts[Baseline] # {} /\ seen.contexts[Baseline] = seen.traces[Baseline]
      BY <2>1 DEF ExportVerdict
    <2>3. PICK w \in Recorders : RunOf[w] = Baseline /\ seen.contexts[Baseline] = Ids(w)
      BY <1>1, <1>2, <2>2, WholeParts DEF RowTables
    <2>4. ExportHolds(w)
      BY <2>3 DEF ReadersInv, ExportInv, FiledUnder
    <2>5. seen.routes[Baseline] = Part("routes", w) /\ seen.usage[Baseline] = Part("usage", w)
      BY <2>1, <2>2, <2>3, <2>4 DEF ExportHolds
    <2> QED
      BY <2>2, <2>3, <2>5 DEF OneExecution, Part
  <1>5. ASSUME verdict = "unsegmented", Reconciled # {}
        PROVE  \E w \in Recorders : OneExecution(Baseline, w, {"traces", "routes"})
    <2>1. seen.traces[Baseline] \cap seen.routes[Baseline] # {}
      BY <1>5 DEF Reconciled
    <2>2. PICK v \in Recorders, w \in Recorders :
            /\ RunOf[v] = Baseline /\ seen.traces[Baseline] = Part("traces", v)
            /\ RunOf[w] = Baseline /\ seen.routes[Baseline] = Part("routes", w)
      <3>1. seen.traces[Baseline] # {} /\ seen.routes[Baseline] # {}
        BY <2>1
      <3>2. "traces" \in RowTables /\ "routes" \in RowTables
        BY DEF RowTables
      <3> QED
        BY <1>1, <1>2, <3>1, <3>2
    <2>3. v = w
      BY <2>1, <2>2, PartsAreFresh
    <2> QED
      BY <2>2, <2>3 DEF OneExecution, Part
  <1> QED
    BY <1>3, <1>4, <1>5 DEF ReadersHoldOneExecution

\* However often the runs are recorded again between its queries, a paired
\* claim compares one execution on each side, and an export that sets rows of
\* two tables against each other has both from one execution.
THEOREM ReadersSeeOneExecution == ReadersSpec => []ReadersHoldOneExecution
  BY HoldOneExecution, ReadersInvariant, PTL

\* Readers do not disturb the recorders: what is proved of the database alone
\* holds with them.
THEOREM ReadersKeepTheLedger == ReadersSpec => LedgerSpec
  <1>1. ReadersInit => LedgerInit
    BY DEF ReadersInit
  <1>2. [ReadersNext]_readersVars => [LedgerNext]_ledgerVars
    BY DEF ReadersNext, readersVars
  <1> QED
    BY <1>1, <1>2, PTL DEF ReadersSpec, LedgerSpec

-----------------------------------------------------------------------------
(* Estimates *)

Metrics == {"cost", "failures", "accepted", "attempts"}

\* What _metric_bundle asks of a record for each metric, and takes from it.
Eligible(m, record) ==
  CASE m = "cost" -> HasCost(record)
    [] m = "accepted" -> AcceptanceIsKnown(record)
    [] m \in {"failures", "attempts"} -> TRUE

ValueOf(m, record) ==
  CASE m = "cost" -> CostOf(record)
    [] m = "accepted" -> AcceptanceOf(record)
    [] m = "failures" -> FailureOf(record)
    [] m = "attempts" -> AttemptsOf(record)

Threshold(m) == IF m \in {"failures", "accepted"} THEN MinimumDiscordant ELSE 0

\* The observations a metric can be told of, and its two values for each.
Comparable(m, observations) ==
  {i \in DOMAIN observations :
     Eligible(m, observations[i].baseline) /\ Eligible(m, observations[i].candidate)}

Measured(m, observations) ==
  [i \in Comparable(m, observations) |->
     [ baseline |-> ValueOf(m, observations[i].baseline),
       candidate |-> ValueOf(m, observations[i].candidate) ]]

Change(pairs) == [i \in DOMAIN pairs |-> pairs[i].candidate - pairs[i].baseline]

\* Every metric of the bundle is the estimate over its measured observations.
LEMMA MetricsAreEstimates ==
  ASSUME NEW observations
  PROVE  /\ DOMAIN MetricBundle(observations) = Metrics
         /\ \A m \in Metrics :
              MetricBundle(observations)[m] = Estimate(Measured(m, observations), Threshold(m))
  <1> DEFINE o == observations
  <1>1. DOMAIN MetricBundle(o) = Metrics
    BY DEF MetricBundle, Metrics
  <1>2. CostEvidence(o) = Estimate(Measured("cost", o), Threshold("cost"))
    <2>1. Comparable("cost", o) = {i \in DOMAIN o : HasCost(o[i].baseline) /\ HasCost(o[i].candidate)}
      BY DEF Comparable, Eligible
    <2>2. Measured("cost", o) = [i \in Comparable("cost", o) |->
            [baseline |-> CostOf(o[i].baseline), candidate |-> CostOf(o[i].candidate)]]
      BY DEF Measured, ValueOf
    <2>3. Threshold("cost") = 0
      BY DEF Threshold
    <2> QED
      BY <2>1, <2>2, <2>3 DEF CostEvidence, MetricEvidence
  <1>3. FailureEvidence(o) = Estimate(Measured("failures", o), Threshold("failures"))
    <2>1. Comparable("failures", o) = {i \in DOMAIN o : Always(o[i].baseline) /\ Always(o[i].candidate)}
      BY DEF Comparable, Eligible, Always
    <2>2. Measured("failures", o) = [i \in Comparable("failures", o) |->
            [baseline |-> FailureOf(o[i].baseline), candidate |-> FailureOf(o[i].candidate)]]
      BY DEF Measured, ValueOf
    <2>3. Threshold("failures") = MinimumDiscordant
      BY DEF Threshold
    <2> QED
      BY <2>1, <2>2, <2>3 DEF FailureEvidence, MetricEvidence
  <1>4. AcceptanceEvidence(o) = Estimate(Measured("accepted", o), Threshold("accepted"))
    <2>1. Comparable("accepted", o) =
            {i \in DOMAIN o : AcceptanceIsKnown(o[i].baseline) /\ AcceptanceIsKnown(o[i].candidate)}
      BY DEF Comparable, Eligible
    <2>2. Measured("accepted", o) = [i \in Comparable("accepted", o) |->
            [baseline |-> AcceptanceOf(o[i].baseline), candidate |-> AcceptanceOf(o[i].candidate)]]
      BY DEF Measured, ValueOf
    <2>3. Threshold("accepted") = MinimumDiscordant
      BY DEF Threshold
    <2> QED
      BY <2>1, <2>2, <2>3 DEF AcceptanceEvidence, MetricEvidence
  <1>5. MetricEvidence(o, Always, AttemptsOf, 0) = Estimate(Measured("attempts", o), Threshold("attempts"))
    <2>1. Comparable("attempts", o) = {i \in DOMAIN o : Always(o[i].baseline) /\ Always(o[i].candidate)}
      BY DEF Comparable, Eligible, Always
    <2>2. Measured("attempts", o) = [i \in Comparable("attempts", o) |->
            [baseline |-> AttemptsOf(o[i].baseline), candidate |-> AttemptsOf(o[i].candidate)]]
      BY DEF Measured, ValueOf
    <2>3. Threshold("attempts") = 0
      BY DEF Threshold
    <2> QED
      BY <2>1, <2>2, <2>3 DEF MetricEvidence
  <1> HIDE DEF o
  <1>6. /\ MetricBundle(o)["cost"] = CostEvidence(o) /\ MetricBundle(o)["failures"] = FailureEvidence(o)
        /\ MetricBundle(o)["accepted"] = AcceptanceEvidence(o)
        /\ MetricBundle(o)["attempts"] = MetricEvidence(o, Always, AttemptsOf, 0)
    BY DEF MetricBundle
  <1>7. \A m \in Metrics : MetricBundle(o)[m] = Estimate(Measured(m, o), Threshold(m))
    BY <1>2, <1>3, <1>4, <1>5, <1>6 DEF Metrics
  <1> QED
    BY <1>1, <1>7 DEF o

\* An estimate counts its pairs and adds up their changes; it has an interval
\* only over enough pairs, of which two differ in their change.
LEMMA EstimateOf ==
  ASSUME NEW pairs, NEW k, IsFiniteSet(DOMAIN pairs)
  PROVE  LET e == Estimate(pairs, k)
         IN  /\ e.pairs = Cardinality(DOMAIN pairs)
             /\ e.difference = SumOn(Change(pairs), DOMAIN pairs)
             /\ e.interval => /\ Cardinality(DOMAIN pairs) >= MinimumSamples
                              /\ \E i, j \in DOMAIN pairs : Change(pairs)[i] # Change(pairs)[j]
  <1> DEFINE e == Estimate(pairs, k)
             items == DOMAIN pairs
             changed == {i \in items : Change(pairs)[i] # 0}
  <1>1. e.pairs = Cardinality(items)
    BY DEF Estimate
  <1>2. e.difference = SumOn(Change(pairs), items)
    <2>1. e.difference = Total(Change(pairs)) /\ DOMAIN Change(pairs) = items
      BY DEF Estimate, Change
    <2> QED
      BY <2>1 DEF Total, SumFunction, SumOn
  <1>3. ASSUME e.interval
        PROVE  items # {} /\ Cardinality(items) >= MinimumSamples
               /\ Cardinality(Range(Change(pairs))) # 1
    <2> DEFINE sum == Total(Change(pairs))
               status == CASE items = {} -> "no_evidence"
                  [] items # {} /\ Cardinality(items) < MinimumSamples -> "insufficient_sample"
                  [] Cardinality(items) >= MinimumSamples
                       /\ (\/ Cardinality(Range(Change(pairs))) = 1
                           \/ Cardinality(changed) < k) -> "insufficient_variation"
                  [] OTHER -> "sufficient"
    <2>1. e = [ status |-> status, pairs |-> Cardinality(items), difference |-> sum,
                interval |-> status = "sufficient" ]
      BY DEF Estimate, Change
    <2> HIDE DEF sum, changed, status, e
    <2>2. status = "sufficient"
      BY <1>3, <2>1
    <2>3. Cardinality(items) \in Nat /\ MinimumSamples \in Nat
      BY FS_CardinalityType, StatisticsAssumption
    <2>4. items # {} /\ ~(Cardinality(items) < MinimumSamples)
      BY <2>2 DEF status
    <2>5. Cardinality(items) >= MinimumSamples
      BY <2>3, <2>4
    <2> QED
      BY <2>2, <2>4, <2>5 DEF status
  <1>4. ASSUME items # {}, Cardinality(Range(Change(pairs))) # 1
        PROVE  \E i, j \in items : Change(pairs)[i] # Change(pairs)[j]
    <2> SUFFICES ASSUME \A i, j \in items : Change(pairs)[i] = Change(pairs)[j] PROVE FALSE
      OBVIOUS
    <2>1. PICK i \in items : TRUE
      BY <1>4
    <2>2. DOMAIN Change(pairs) = items
      BY DEF Change
    <2>3. Range(Change(pairs)) = {Change(pairs)[i]}
      BY <2>1, <2>2 DEF Range
    <2> QED
      BY <1>4, <2>3, FS_Singleton
  <1> QED
    BY <1>1, <1>2, <1>3, <1>4

-----------------------------------------------------------------------------
(* Paired claims *)

\* The contexts that were read are all those of recordings b and c, which ran
\* the same items.
Compares(b, c) ==
  /\ b \in Recorders /\ seen.contexts[Baseline] = Ids(b)
  /\ c \in Recorders /\ seen.contexts[Candidate] = Ids(c)
  /\ ItemsOf[b] = ItemsOf[c]

\* The rows, the tags and the observations of a claim are those of b and c.
LEMMA ComparedRows ==
  ASSUME NEW b, NEW c, Compares(b, c)
  PROVE  /\ \A i \in ItemsOf[b] : /\ ContextIdOf(Baseline, i) = << b, i >>
                                  /\ ContextIdOf(Candidate, i) = << c, i >>
         /\ ItemsIn(seen.contexts[Baseline]) = ItemsOf[b]
         /\ TagsIn(Baseline) = [i \in ItemsOf[b] |-> TagsOf[b][i]]
  <1>1. \A w \in Recorders : \A i \in ItemsOf[w] :
          (CHOOSE id \in Ids(w) : id[2] = i) = << w, i >>
    <2> SUFFICES ASSUME NEW w \in Recorders, NEW i \in ItemsOf[w]
                 PROVE  (CHOOSE id \in Ids(w) : id[2] = i) = << w, i >>
      OBVIOUS
    <2>1. << w, i >> \in Ids(w) /\ \A id \in Ids(w) : id[2] = i => id = << w, i >>
      BY DEF Ids
    <2> QED
      BY <2>1
  <1>2. \A i \in ItemsOf[b] : /\ ContextIdOf(Baseline, i) = << b, i >>
                             /\ ContextIdOf(Candidate, i) = << c, i >>
    BY <1>1 DEF Compares, ContextIdOf
  <1>3. ItemsIn(seen.contexts[Baseline]) = ItemsOf[b]
    BY IdsItems DEF Compares
  <1>4. TagsIn(Baseline) = [i \in ItemsOf[b] |-> TagsOf[b][i]]
    BY <1>2, <1>3 DEF TagsIn
  <1> QED
    BY <1>2, <1>3, <1>4

\* An observation holds the records of its item in b and in c.
LEMMA ComparedObservations ==
  ASSUME NEW b, NEW c, Compares(b, c), NEW items \in SUBSET ItemsOf[b]
  PROVE  /\ IsFiniteSet(items)
         /\ DOMAIN Observations(items) = items
         /\ \A i \in items : /\ Observations(items)[i].baseline = Outcome[b][i]
                             /\ Observations(items)[i].candidate = Outcome[c][i]
  <1>1. IsFiniteSet(items)
    BY OutcomeAssumption, FS_Subset DEF Compares
  <1>2. DOMAIN Observations(items) = items
    BY DEF Observations
  <1>3. ASSUME NEW i \in items
        PROVE  /\ Observations(items)[i].baseline = Outcome[b][i]
               /\ Observations(items)[i].candidate = Outcome[c][i]
    <2>1. ContextIdOf(Baseline, i) = << b, i >> /\ ContextIdOf(Candidate, i) = << c, i >>
      BY <1>3, ComparedRows
    <2> QED
      BY <1>3, <2>1 DEF Observations, RecordOf
  <1> QED
    BY <1>1, <1>2, <1>3

\* The values a metric takes from the records are integers, and the cost it
\* takes is what was charged.
LEMMA MeasuredValues ==
  ASSUME NEW w \in Recorders, NEW i \in ItemsOf[w], NEW m \in Metrics, Eligible(m, Outcome[w][i])
  PROVE  /\ ValueOf(m, Outcome[w][i]) \in Int
         /\ m = "cost" => ValueOf(m, Outcome[w][i]) = Outcome[w][i].charged
  <1> DEFINE record == Outcome[w][i]
  <1>1. /\ record.charged \in Nat /\ record.attemptCount \in Nat
        /\ HasCost(record) => record.cost = record.charged
    BY OutcomeAssumption
  <1> HIDE DEF record
  <1>2. Eligible(m, record)
    BY DEF record
  <1>3. CASE m = "cost"
    BY <1>1, <1>2, <1>3 DEF ValueOf, CostOf, Eligible, record
  <1>4. CASE m = "accepted"
    BY <1>4 DEF ValueOf, AcceptanceOf
  <1>5. CASE m = "failures"
    BY <1>5 DEF ValueOf, FailureOf
  <1>6. CASE m = "attempts"
    BY <1>1, <1>6 DEF ValueOf, AttemptsOf, record
  <1> QED
    BY <1>3, <1>4, <1>5, <1>6 DEF Metrics

\* The items that a metric can be told of, in b and in c.
SharedItems(m, b, c, items) ==
  {i \in items : Eligible(m, Outcome[b][i]) /\ Eligible(m, Outcome[c][i])}

\* What is measured over some of the items.
LEMMA MeasuredPairs ==
  ASSUME NEW b, NEW c, Compares(b, c), NEW items \in SUBSET ItemsOf[b], NEW m \in Metrics
  PROVE  /\ DOMAIN Measured(m, Observations(items)) = SharedItems(m, b, c, items)
         /\ Summable(Change(Measured(m, Observations(items))), SharedItems(m, b, c, items))
         /\ \A i \in SharedItems(m, b, c, items) :
              Change(Measured(m, Observations(items)))[i] =
                ValueOf(m, Outcome[c][i]) - ValueOf(m, Outcome[b][i])
  <1> DEFINE o == Observations(items)
             pairs == Measured(m, o)
             eligible == SharedItems(m, b, c, items)
  <1>1. /\ IsFiniteSet(items) /\ DOMAIN o = items
        /\ \A i \in items : o[i].baseline = Outcome[b][i] /\ o[i].candidate = Outcome[c][i]
    BY ComparedObservations
  <1> HIDE DEF o
  <1>2. Comparable(m, o) = eligible /\ DOMAIN pairs = eligible
    BY <1>1 DEF Comparable, Measured, SharedItems
  <1>3. \A i \in eligible :
          Change(pairs)[i] = ValueOf(m, Outcome[c][i]) - ValueOf(m, Outcome[b][i])
    BY <1>1, <1>2 DEF Measured, Change, SharedItems
  <1>4. \A i \in eligible : Change(pairs)[i] \in Int
    <2> SUFFICES ASSUME NEW i \in eligible PROVE Change(pairs)[i] \in Int
      OBVIOUS
    <2>1. b \in Recorders /\ c \in Recorders /\ i \in ItemsOf[b] /\ i \in ItemsOf[c]
          /\ Eligible(m, Outcome[b][i]) /\ Eligible(m, Outcome[c][i])
      BY DEF Compares, SharedItems
    <2>2. ValueOf(m, Outcome[b][i]) \in Int /\ ValueOf(m, Outcome[c][i]) \in Int
      BY <2>1, MeasuredValues
    <2> QED
      BY <1>3, <2>2
  <1>5. IsFiniteSet(eligible)
    BY <1>1, FS_Subset DEF SharedItems
  <1> QED
    BY <1>2, <1>3, <1>4, <1>5 DEF Summable, o

\* The charges for some items of a recording, item by item.
LEMMA ChargesByItem ==
  ASSUME NEW w \in Recorders, NEW items \in SUBSET ItemsOf[w], NEW charges,
         \A i \in items : charges[i] = Outcome[w][i].charged
  PROVE  /\ Summable(charges, items)
         /\ ChargedFor({<< w, i >> : i \in items}) = SumOn(charges, items)
  <1> DEFINE e == [i \in items |-> << w, i >>]
             rows == {<< w, i >> : i \in items}
             f == [id \in rows |-> RecordOf(id).charged]
  <1>1. Summable(charges, items)
    BY OutcomeAssumption, FS_Subset DEF Summable
  <1>2. \A id \in rows : \E i \in items : id = e[i]
    OBVIOUS
  <1>3. \A i \in items : e[i] \in rows /\ f[e[i]] = charges[i]
    BY DEF RecordOf
  <1>4. \A i, j \in items : e[i] = e[j] => i = j
    OBVIOUS
  <1>5. ChargedFor(rows) = SumOn(f, rows)
    BY DEF ChargedFor, Total, SumFunction, SumOn
  <1> HIDE DEF e, f, rows
  <1>6. SumOn(f, rows) = SumOn(charges, items)
    BY <1>1, <1>2, <1>3, <1>4, SumOnRenamed DEF Renames
  <1> QED
    BY <1>1, <1>5, <1>6 DEF rows

\* A claim over any of the items is honest.
LEMMA ClaimsAreHonest ==
  ASSUME NEW b, NEW c, Compares(b, c), NEW items \in SUBSET ItemsOf[b]
  PROVE  ClaimIsHonest(items)
  <1> DEFINE o == Observations(items)
             metrics == MetricBundle(o)
             priced == {i \in items : HasCost(o[i].baseline) /\ HasCost(o[i].candidate)}
             ids(r) == {ContextIdOf(r, i) : i \in priced}
             change(i) == o[i].candidate.charged - o[i].baseline.charged
             pairs(m) == Measured(m, o)
  <1>1. /\ IsFiniteSet(items) /\ DOMAIN o = items
        /\ \A i \in items : o[i].baseline = Outcome[b][i] /\ o[i].candidate = Outcome[c][i]
    BY ComparedObservations
  <1>2. \A m \in Metrics :
          /\ metrics[m] = Estimate(pairs(m), Threshold(m))
          /\ IsFiniteSet(DOMAIN pairs(m))
    <2> SUFFICES ASSUME NEW m \in Metrics
                 PROVE  metrics[m] = Estimate(pairs(m), Threshold(m)) /\ IsFiniteSet(DOMAIN pairs(m))
      OBVIOUS
    <2>1. metrics[m] = Estimate(pairs(m), Threshold(m))
      BY MetricsAreEstimates
    <2>2. /\ DOMAIN pairs(m) = SharedItems(m, b, c, items)
          /\ Summable(Change(pairs(m)), SharedItems(m, b, c, items))
      BY MeasuredPairs
    <2> QED
      BY <2>1, <2>2 DEF Summable
  <1>3. \A m \in Metrics :
          /\ metrics[m].pairs = Cardinality(DOMAIN pairs(m))
          /\ metrics[m].difference = SumOn(Change(pairs(m)), DOMAIN pairs(m))
          /\ metrics[m].interval =>
               /\ Cardinality(DOMAIN pairs(m)) >= MinimumSamples
               /\ \E i, j \in DOMAIN pairs(m) : Change(pairs(m))[i] # Change(pairs(m))[j]
    BY <1>2, EstimateOf
  <1>4. \A m \in DOMAIN metrics : metrics[m].interval => metrics[m].pairs >= MinimumSamples
    BY <1>3, MetricsAreEstimates
  <1>5. /\ "cost" \in Metrics /\ metrics.cost = metrics["cost"]
        /\ DOMAIN pairs("cost") = priced
        /\ priced \subseteq items
    <2>1. "cost" \in Metrics
      BY DEF Metrics
    <2>2. DOMAIN pairs("cost") = {i \in items : HasCost(Outcome[b][i]) /\ HasCost(Outcome[c][i])}
      <3>1. DOMAIN pairs("cost") = SharedItems("cost", b, c, items)
        BY <2>1, MeasuredPairs
      <3>2. \A record : Eligible("cost", record) = HasCost(record)
        BY DEF Eligible
      <3> QED
        BY <3>1, <3>2 DEF SharedItems
    <2> HIDE DEF metrics, o
    <2> QED
      BY <1>1, <2>1, <2>2
  <1>6. \A i \in priced : Change(pairs("cost"))[i] = change(i)
    <2>1. \A i \in priced :
            Change(pairs("cost"))[i] = ValueOf("cost", Outcome[c][i]) - ValueOf("cost", Outcome[b][i])
      <3>1. priced = SharedItems("cost", b, c, items)
        BY <1>5, MeasuredPairs
      <3> QED
        BY <1>5, <3>1, MeasuredPairs
    <2>2. \A i \in priced : /\ ValueOf("cost", Outcome[c][i]) = Outcome[c][i].charged
                            /\ ValueOf("cost", Outcome[b][i]) = Outcome[b][i].charged
      BY <1>1, <1>5, MeasuredValues DEF Eligible, Compares
    <2> HIDE DEF o
    <2> QED
      BY <1>1, <1>5, <2>1, <2>2
  <1>7. /\ ids(Baseline) = {<< b, i >> : i \in priced}
        /\ ids(Candidate) = {<< c, i >> : i \in priced}
    <2>1. \A i \in priced : /\ ContextIdOf(Baseline, i) = << b, i >>
                            /\ ContextIdOf(Candidate, i) = << c, i >>
      BY ComparedRows
    <2> HIDE DEF priced
    <2> QED
      BY <2>1
  <1>8. metrics.cost.difference = ChargedFor(ids(Candidate)) - ChargedFor(ids(Baseline))
    <2> DEFINE paid(w) == [i \in priced |-> Outcome[w][i].charged]
    <2>1. \A w \in {b, c} : /\ Summable(paid(w), priced)
                            /\ ChargedFor({<< w, i >> : i \in priced}) = SumOn(paid(w), priced)
      <3>1. \A w \in {b, c} : w \in Recorders /\ priced \in SUBSET ItemsOf[w]
        BY <1>5 DEF Compares
      <3> HIDE DEF priced
      <3>2. \A w \in {b, c} : \A i \in priced : paid(w)[i] = Outcome[w][i].charged
        OBVIOUS
      <3> HIDE DEF paid
      <3> QED
        BY <3>1, <3>2, ChargesByItem
    <2>2. \A i \in priced : Change(pairs("cost"))[i] = paid(c)[i] - paid(b)[i]
      BY <1>1, <1>5, <1>6
    <2> HIDE DEF paid, priced, metrics, pairs, o
    <2>3. SumOn(Change(pairs("cost")), priced) = SumOn(paid(c), priced) - SumOn(paid(b), priced)
      BY <2>1, <2>2, SumOnDifference
    <2> QED
      BY <1>3, <1>5, <1>7, <2>1, <2>3
  <1>9. metrics.cost.pairs = Cardinality(priced)
    BY <1>3, <1>5
  <1>10. metrics.cost.interval => \E i, j \in priced : change(i) # change(j)
    <2> HIDE DEF metrics, pairs, priced, o
    <2>1. metrics.cost.interval =>
            \E i, j \in priced : Change(pairs("cost"))[i] # Change(pairs("cost"))[j]
      BY <1>3, <1>5
    <2> QED
      BY <1>6, <2>1
  <1> HIDE DEF metrics, priced, pairs
  <1> QED
    BY <1>4, <1>8, <1>9, <1>10 DEF ClaimIsHonest, metrics, priced, o

\* The pairs measured over the items with a tag are those measured over all
\* items that carry it: the metrics of segments that share out the items add up.
LEMMA SegmentsOfMetric ==
  ASSUME NEW b, NEW c, Compares(b, c), NEW m \in Metrics, NEW tags, IsFiniteSet(tags), NEW p,
         \A i \in ItemsOf[b] : p[i] \in tags,
         \A tag \in tags : Tagged(tag) = {i \in ItemsOf[b] : p[i] = tag}
  PROVE  LET all == MetricBundle(Observations(ItemsOf[b]))
         IN  /\ all[m].pairs = Total([tag \in tags |-> MetricBundle(Observations(Tagged(tag)))[m].pairs])
             /\ all[m].difference =
                  Total([tag \in tags |-> MetricBundle(Observations(Tagged(tag)))[m].difference])
  <1> DEFINE whole == ItemsOf[b]
             pairs(items) == Measured(m, Observations(items))
             shared(items) == SharedItems(m, b, c, items)
             one == [i \in shared(whole) |-> 1]
             counts == [tag \in tags |-> MetricBundle(Observations(Tagged(tag)))[m].pairs]
             differences == [tag \in tags |-> MetricBundle(Observations(Tagged(tag)))[m].difference]
  <1>1. ASSUME NEW items \in SUBSET whole
        PROVE  /\ DOMAIN pairs(items) = shared(items)
               /\ Summable(Change(pairs(items)), shared(items))
               /\ MetricBundle(Observations(items))[m].pairs = Cardinality(shared(items))
               /\ MetricBundle(Observations(items))[m].difference =
                    SumOn(Change(pairs(items)), shared(items))
               /\ \A i \in shared(items) : i \in shared(whole)
                    /\ Change(pairs(items))[i] = Change(pairs(whole))[i]
    <2>1. /\ DOMAIN pairs(items) = shared(items) /\ Summable(Change(pairs(items)), shared(items))
          /\ \A i \in shared(items) :
               Change(pairs(items))[i] = ValueOf(m, Outcome[c][i]) - ValueOf(m, Outcome[b][i])
      BY MeasuredPairs
    <2>2. \A i \in shared(whole) :
            Change(pairs(whole))[i] = ValueOf(m, Outcome[c][i]) - ValueOf(m, Outcome[b][i])
      BY MeasuredPairs
    <2>3. MetricBundle(Observations(items))[m] = Estimate(pairs(items), Threshold(m))
      BY MetricsAreEstimates
    <2>4. \A i \in shared(items) : i \in shared(whole)
      BY DEF SharedItems
    <2> HIDE DEF pairs, shared
    <2>5. IsFiniteSet(DOMAIN pairs(items))
      BY <2>1 DEF Summable
    <2>6. /\ Estimate(pairs(items), Threshold(m)).pairs = Cardinality(DOMAIN pairs(items))
          /\ Estimate(pairs(items), Threshold(m)).difference =
               SumOn(Change(pairs(items)), DOMAIN pairs(items))
      BY <2>5, EstimateOf
    <2> QED
      BY <2>1, <2>2, <2>3, <2>4, <2>6
  <1>2. \A tag \in tags : shared(Tagged(tag)) = {i \in shared(whole) : p[i] = tag}
    BY DEF SharedItems
  <1>3. \A tag \in tags : Tagged(tag) \in SUBSET whole
    OBVIOUS
  <1>4. Summable(Change(pairs(whole)), shared(whole)) /\ IsFiniteSet(shared(whole))
    BY <1>1 DEF Summable
  <1>5. \A i \in shared(whole) : p[i] \in tags
    BY DEF SharedItems
  <1> HIDE DEF pairs, shared, whole
  <1>6. Total(differences) = SumOn(differences, tags) /\ Total(counts) = SumOn(counts, tags)
    BY DEF Total, SumFunction, SumOn
  <1>7. SumOn(differences, tags) = SumOn(Change(pairs(whole)), shared(whole))
    <2> DEFINE f == Change(pairs(whole))
    <2>1. ASSUME NEW tag \in tags
          PROVE  differences[tag] = SumOn(f, {i \in shared(whole) : p[i] = tag})
      <3>1. differences[tag] = SumOn(Change(pairs(Tagged(tag))), shared(Tagged(tag)))
        BY <1>1, <1>3
      <3>2. /\ IsFiniteSet(shared(Tagged(tag)))
            /\ \A i \in shared(Tagged(tag)) : Change(pairs(Tagged(tag)))[i] = f[i]
        BY <1>1, <1>3 DEF Summable
      <3>3. SumOn(Change(pairs(Tagged(tag))), shared(Tagged(tag))) = SumOn(f, shared(Tagged(tag)))
        BY <3>2, SumOnCongruence
      <3>4. shared(Tagged(tag)) = {i \in shared(whole) : p[i] = tag}
        BY <1>2
      <3> QED
        BY <3>1, <3>3, <3>4
    <2>2. Summable(f, shared(whole))
      BY <1>4
    <2>3. PartSums(differences, f, shared(whole), tags, p)
      BY <1>5, <2>1 DEF PartSums
    <2> HIDE DEF f, differences
    <2>4. SumOn(differences, tags) = SumOn(f, shared(whole))
      BY <2>2, <2>3, SumOnParts
    <2> QED
      BY <2>4 DEF f
  <1>8. SumOn(counts, tags) = Cardinality(shared(whole))
    <2>1. ASSUME NEW tag \in tags
          PROVE  counts[tag] = SumOn(one, {i \in shared(whole) : p[i] = tag})
      <3> DEFINE some == {i \in shared(whole) : p[i] = tag}
                 ones == [i \in some |-> 1]
      <3>1. counts[tag] = Cardinality(some)
        BY <1>1, <1>2, <1>3
      <3>2. IsFiniteSet(some)
        BY <1>4, FS_Subset
      <3>3. \A i \in some : ones[i] = one[i]
        OBVIOUS
      <3> HIDE DEF some
      <3>4. SumOn(ones, some) = Cardinality(some)
        BY <3>2, CardinalityIsSum
      <3> HIDE DEF ones, one, counts
      <3>5. SumOn(ones, some) = SumOn(one, some)
        BY <3>2, <3>3, SumOnCongruence
      <3> QED
        BY <3>1, <3>4, <3>5 DEF some
    <2>2. Summable(one, shared(whole))
      BY <1>4 DEF Summable
    <2>3. SumOn(one, shared(whole)) = Cardinality(shared(whole))
      BY <1>4, CardinalityIsSum
    <2> HIDE DEF one, counts
    <2>4. PartSums(counts, one, shared(whole), tags, p)
      BY <1>5, <2>1 DEF PartSums
    <2>5. SumOn(counts, tags) = SumOn(one, shared(whole))
      BY <2>2, <2>4, SumOnParts
    <2> QED
      BY <2>3, <2>5
  <1>9. /\ MetricBundle(Observations(whole))[m].pairs = Cardinality(shared(whole))
        /\ MetricBundle(Observations(whole))[m].difference = SumOn(Change(pairs(whole)), shared(whole))
    BY <1>1
  <1> QED
    BY <1>6, <1>7, <1>8, <1>9 DEF whole

\* The tags that were read are finitely many.
LEMMA ComparedTags ==
  ASSUME NEW b, NEW c, Compares(b, c)
  PROVE  /\ IsFiniteSet(UNION Range(TagsIn(Baseline)))
         /\ \A tag : Tagged(tag) = {i \in ItemsOf[b] : tag \in TagsOf[b][i]}
  <1>1. /\ ItemsIn(seen.contexts[Baseline]) = ItemsOf[b]
        /\ TagsIn(Baseline) = [i \in ItemsOf[b] |-> TagsOf[b][i]]
    BY ComparedRows
  <1>2. IsFiniteSet(ItemsOf[b]) /\ \A i \in ItemsOf[b] : IsFiniteSet(TagsOf[b][i])
    BY OutcomeAssumption DEF Compares
  <1>3. TagsIn(Baseline) \in Surjection(ItemsOf[b], Range(TagsIn(Baseline)))
    BY <1>1 DEF Surjection, Range
  <1>4. IsFiniteSet(Range(TagsIn(Baseline)))
    BY <1>2, <1>3, FS_Surjection
  <1>5. \A s \in Range(TagsIn(Baseline)) : IsFiniteSet(s)
    BY <1>1, <1>2 DEF Range
  <1>6. IsFiniteSet(UNION Range(TagsIn(Baseline)))
    BY <1>4, <1>5, FS_UNION
  <1>7. \A tag : Tagged(tag) = {i \in ItemsOf[b] : tag \in TagsOf[b][i]}
    BY <1>1 DEF Tagged
  <1> QED
    BY <1>6, <1>7

\* The segments of a tag key that every item carries once add up to the run.
LEMMA ComparedSegments ==
  ASSUME NEW b, NEW c, Compares(b, c), NEW key
  PROVE  SegmentsAddUp(key)
  <1> DEFINE every == UNION Range(TagsIn(Baseline))
             tags == {tag \in every : tag[1] = key}
             items == ItemsIn(seen.contexts[Baseline])
             all == MetricBundle(Observations(items))
             segments == [tag \in tags |-> MetricBundle(Observations(Tagged(tag)))]
  <1>1. /\ items = ItemsOf[b] /\ TagsIn(Baseline) = [i \in ItemsOf[b] |-> TagsOf[b][i]]
        /\ DOMAIN all = Metrics
    BY ComparedRows, MetricsAreEstimates
  <1>2. IsFiniteSet(every) /\ \A tag : Tagged(tag) = {i \in ItemsOf[b] : tag \in TagsOf[b][i]}
    BY ComparedTags
  <1> HIDE DEF every
  <1>3. IsFiniteSet(tags)
    BY <1>2, FS_Subset
  <1> SUFFICES ASSUME \A i \in items : Cardinality(TagsIn(Baseline)[i] \cap tags) = 1,
                      NEW m \in Metrics
               PROVE  /\ all[m].pairs = Total([tag \in tags |-> segments[tag][m].pairs])
                      /\ all[m].difference = Total([tag \in tags |-> segments[tag][m].difference])
    BY <1>1 DEF SegmentsAddUp, every
  <1> DEFINE p == [i \in ItemsOf[b] |-> CHOOSE tag \in tags : tag \in TagsOf[b][i]]
  <1> HIDE DEF tags
  <1>4. ASSUME NEW i \in ItemsOf[b]
        PROVE  /\ p[i] \in tags /\ p[i] \in TagsOf[b][i]
               /\ \A tag \in tags : tag \in TagsOf[b][i] => tag = p[i]
    <2> DEFINE own == TagsOf[b][i] \cap tags
    <2>1. Cardinality(own) = 1
      BY <1>1
    <2>2. IsFiniteSet(own)
      BY <1>3, FS_Subset
    <2> HIDE DEF own
    <2>3. PICK tag : own = {tag}
      BY <2>1, <2>2, FS_Singleton
    <2>4. tag \in tags /\ tag \in TagsOf[b][i] /\ \A t \in tags : t \in TagsOf[b][i] => t = tag
      BY <2>3 DEF own
    <2> QED
      BY <2>4
  <1>5. \A tag \in tags : Tagged(tag) = {i \in ItemsOf[b] : p[i] = tag}
    BY <1>2, <1>4
  <1>6. \A i \in ItemsOf[b] : p[i] \in tags
    BY <1>4
  <1> HIDE DEF p
  <1>7. /\ [tag \in tags |-> segments[tag][m].pairs] =
              [tag \in tags |-> MetricBundle(Observations(Tagged(tag)))[m].pairs]
        /\ [tag \in tags |-> segments[tag][m].difference] =
              [tag \in tags |-> MetricBundle(Observations(Tagged(tag)))[m].difference]
    OBVIOUS
  <1> HIDE DEF segments
  <1> QED
    BY <1>1, <1>3, <1>5, <1>6, <1>7, SegmentsOfMetric

-----------------------------------------------------------------------------
(* Reports and usage *)

\* A report with a cost claims what was charged for all its requests.
LEMMA ReportsAreCharges ==
  ASSUME NEW r, seen.reports[r] \in Recorders, ReportCost(r).complete
  PROVE  ReportCost(r).cost = ChargedFor(Ids(seen.reports[r]))
  <1> DEFINE w == seen.reports[r]
             report == StoredReport(w)
             whole == \A i \in ItemsOf[w] : HasCost(Outcome[w][i])
             costs == [i \in ItemsOf[w] |-> Outcome[w][i].cost]
  <1>1. /\ report.flag = (IF whole THEN "set" ELSE "cleared")
        /\ report.cost = (IF whole THEN Total(costs) ELSE Unknown)
    BY DEF StoredReport
  <1>2. ReportCost(r) = ReadReport(report, RecordsOf(seen.costs[r]))
    BY DEF ReportCost, ReportOf
  <1> HIDE DEF report, whole, costs
  <1>3. report.flag = "set" /\ ReportCost(r).cost = report.cost
    <2>1. report.flag # "absent"
      BY <1>1
    <2> DEFINE unknown == \E row \in RecordsOf(seen.costs[r]) : ~row.complete \/ row.cost = Unknown
               complete == CASE unknown -> FALSE
                             [] ~unknown /\ report.flag = "absent" ->
                                  report.failures = 0 /\ report.retries = 0
                             [] OTHER -> report.flag = "set"
    <2>2. ReportCost(r) = [complete |-> complete, cost |-> IF complete THEN report.cost ELSE Unknown]
      BY <1>2 DEF ReadReport
    <2> HIDE DEF unknown
    <2>3. complete = (~unknown /\ report.flag = "set")
      BY <2>1
    <2> HIDE DEF complete
    <2>4. ReportCost(r).complete = complete
      BY <2>2
    <2>5. complete
      BY <2>4
    <2>6. ReportCost(r).cost = report.cost
      BY <2>2, <2>5
    <2> QED
      BY <2>3, <2>5, <2>6
  <1>4. whole /\ ReportCost(r).cost = Total(costs)
    BY <1>1, <1>3
  <1>5. \A i \in ItemsOf[w] : costs[i] = Outcome[w][i].charged
    BY <1>4, OutcomeAssumption DEF whole, costs
  <1>6. Total(costs) = SumOn(costs, ItemsOf[w])
    BY DEF Total, SumFunction, SumOn, costs
  <1>7. ChargedFor(Ids(w)) = SumOn(costs, ItemsOf[w])
    <2>1. w \in Recorders /\ Ids(w) = {<< w, i >> : i \in ItemsOf[w]}
      BY DEF Ids
    <2> HIDE DEF w
    <2>2. ChargedFor({<< w, i >> : i \in ItemsOf[w]}) = SumOn(costs, ItemsOf[w])
      BY <1>5, <2>1, ChargesByItem
    <2> QED
      BY <2>1, <2>2
  <1> QED
    BY <1>4, <1>6, <1>7

\* A usage summary with a cost claims what was charged for the rows it read.
LEMMA UsageIsCharged ==
  ASSUME ReadersInv, ExportedUsage.complete
  PROVE  ExportedUsage.cost = ChargedFor(seen.usage[Baseline])
  <1> DEFINE rows == seen.usage[Baseline]
             usage == [id \in rows |-> RecordOf(id)]
             costs == [id \in rows |-> RecordOf(id).cost]
             charges == [id \in rows |-> RecordOf(id).charged]
  <1>1. rows = {} \/ \E w \in Recorders : rows = Ids(w)
    BY WholeParts DEF ReadersInv, AnswersAreWhole, FiledUnder, Sides, RowTables
  <1>2. \A id \in rows : \E w \in Recorders : \E i \in ItemsOf[w] : id = << w, i >>
    BY <1>1 DEF Ids
  <1>3. (\A id \in rows : HasCost(RecordOf(id))) /\ ExportedUsage.cost = Total(costs)
    <2> DEFINE complete == \A id \in DOMAIN usage : usage[id].complete /\ usage[id].cost # Unknown
    <2>1. ExportedUsage = [ complete |-> complete,
            cost |-> IF complete THEN Total([id \in DOMAIN usage |-> usage[id].cost]) ELSE Unknown ]
      BY DEF ExportedUsage, UsageSummary
    <2>2. complete => \A id \in rows : HasCost(RecordOf(id))
      BY DEF HasCost
    <2>3. [id \in DOMAIN usage |-> usage[id].cost] = costs
      OBVIOUS
    <2> HIDE DEF complete, usage, costs
    <2> QED
      BY <2>1, <2>2, <2>3
  <1>4. \A id \in rows : costs[id] = charges[id]
    BY <1>2, <1>3, OutcomeAssumption DEF RecordOf
  <1>5. IsFiniteSet(rows)
    <2>1. \A w \in Recorders : IsFiniteSet(Ids(w))
      <3> SUFFICES ASSUME NEW w \in Recorders PROVE IsFiniteSet(Ids(w))
        OBVIOUS
      <3> DEFINE map == [i \in ItemsOf[w] |-> << w, i >>]
      <3>1. map \in Surjection(ItemsOf[w], Ids(w))
        BY DEF Surjection, Ids
      <3> HIDE DEF map
      <3> QED
        BY <3>1, OutcomeAssumption, FS_Surjection
    <2> QED
      BY <1>1, <2>1, FS_EmptySet
  <1>6. Total(costs) = SumOn(costs, rows) /\ ChargedFor(rows) = SumOn(charges, rows)
    BY DEF ChargedFor, Total, SumFunction, SumOn
  <1> HIDE DEF rows, costs, charges
  <1>7. SumOn(costs, rows) = SumOn(charges, rows)
    BY <1>4, <1>5, SumOnCongruence
  <1> QED
    BY <1>3, <1>6, <1>7 DEF rows

\* What the verdicts set against each other.
LEMMA CompareCharges == ReadersInv => ComparedCostsAreCharges
  <1> SUFFICES ASSUME ReadersInv PROVE ComparedCostsAreCharges
    OBVIOUS
  <1>1. ASSUME verdict = "available"
        PROVE  /\ ClaimIsHonest(ItemsIn(seen.contexts[Baseline]))
               /\ \A tag \in UNION Range(TagsIn(Baseline)) :
                    ClaimIsHonest(Tagged(tag)) /\ SegmentsAddUp(tag[1])
    <2>1. PICK b \in Recorders, c \in Recorders : Compares(b, c)
      <3>1. PICK b \in Recorders, c \in Recorders :
              /\ OneExecution(Baseline, b, {"contexts", "traces"})
              /\ OneExecution(Candidate, c, {"contexts", "traces"})
              /\ ItemsOf[b] = ItemsOf[c]
        BY <1>1, HoldOneExecution DEF ReadersHoldOneExecution
      <3>2. Part("contexts", b) = Ids(b) /\ Part("contexts", c) = Ids(c)
        BY WholeParts
      <3>3. seen.contexts[Baseline] = Ids(b) /\ seen.contexts[Candidate] = Ids(c)
        BY <3>1, <3>2 DEF OneExecution, Part
      <3> QED
        BY <3>1, <3>3 DEF Compares
    <2>2. ItemsIn(seen.contexts[Baseline]) = ItemsOf[b]
      BY <2>1, ComparedRows
    <2>3. \A tag : Tagged(tag) \in SUBSET ItemsOf[b]
      BY <2>1, ComparedTags
    <2> QED
      BY <2>1, <2>2, <2>3, ClaimsAreHonest, ComparedSegments
  <1>2. ASSUME verdict = "comparable"
        PROVE  CostDelta = ChargedFor(Ids(seen.reports[Candidate])) -
                             ChargedFor(Ids(seen.reports[Baseline]))
    <2>1. command = "compare" /\ reads = 4 /\ CompareVerdict = "comparable"
      BY <1>2 DEF ReadersInv, VerdictInv
    <2>2. ReportCost(Baseline).complete /\ ReportCost(Candidate).complete
      BY <2>1 DEF CompareVerdict
    <2>3. seen.reports[Baseline] \in Recorders /\ seen.reports[Candidate] \in Recorders
      BY <2>1 DEF ReadersInv, ReportsAreRead, FiledUnder
    <2> QED
      BY <2>2, <2>3, ReportsAreCharges DEF CostDelta
  <1>3. ASSUME verdict \in {"segmented", "unsegmented"}
        PROVE  /\ ReportCost(Baseline).complete =>
                    ReportCost(Baseline).cost = ChargedFor(Ids(seen.reports[Baseline]))
               /\ ExportedUsage.complete => ExportedUsage.cost = ChargedFor(seen.usage[Baseline])
    <2>1. reads = 6
      BY <1>3 DEF ReadersInv, VerdictInv
    <2>2. seen.reports[Baseline] \in Recorders
      BY <2>1 DEF ReadersInv, ReportsAreRead, FiledUnder
    <2> QED
      BY <2>2, ReportsAreCharges, UsageIsCharged
  <1> QED
    BY <1>1, <1>2, <1>3 DEF ComparedCostsAreCharges

\* Every cost a command sets against another is what the provider charged,
\* however many items and tags the workload has.
THEOREM ComparisonsAreOfCharges == ReadersSpec => []ComparedCostsAreCharges
  BY CompareCharges, ReadersInvariant, PTL
=============================================================================
