----------------------------- MODULE EvidenceLogs -----------------------------
(***************************************************************************)
(* The request and route logs of BenchmarkRun as the text files they are:  *)
(* JsonlRequestLog and JsonlRouteLog append one JSON line per record, and  *)
(* read_all parses the file line by line.  A line may be cut short because *)
(* the process or its machine stops while it is written, or because the    *)
(* write fails, say on a full disk; what was written stays, and whatever   *)
(* is appended next comes after it.                                        *)
(*                                                                         *)
(* A file is a sequence of lines and says whether the last one is ended by *)
(* a newline; a line is the sequence of the fragments written on it, each  *)
(* the whole text of a record or only a beginning of it.                   *)
(***************************************************************************)
EXTENDS Reconciliation

VARIABLES
  requestFile, routeFile,
  cut    \* history: a write was cut short

logVars == << requestFile, routeFile, cut >>

EmptyFile == [lines |-> << >>, ended |-> TRUE]

WholeText(record) == [record |-> record, whole |-> TRUE]

TornText(record) == [record |-> record, whole |-> FALSE]

\* Text is written at the end of a file, which may be within a line.
Written(file, text, ended) ==
  [ ended |-> ended,
    lines |-> IF file.ended THEN Append(file.lines, << text >>)
              ELSE [file.lines EXCEPT ![Len(file.lines)] = Append(@, text)] ]

\* append: the whole line and its newline.
AppendLine(file, record) == Written(file, WholeText(record), TRUE)

\* What a write that was cut short may have left: a part of the text, or all
\* of it but the newline.  (A Crash leaves nothing.)
CutShort(file, record) ==
  {Written(file, TornText(record), FALSE), Written(file, WholeText(record), FALSE)}

-----------------------------------------------------------------------------
(* read_all *)

\* A line parses if it holds the text of one record and nothing else.
Parses(line) == Len(line) = 1 /\ line[1].whole

Records(lines) == [i \in DOMAIN lines |-> lines[i][1].record]

\* Mutant: lines that do not parse are skipped.
ReadSkipping(file) == [raised |-> FALSE, records |-> Records(SelectSeq(file.lines, Parses))]

\* The records in order, or the exception of the first line that does not parse.
ReadAll(file) ==
  IF \A i \in DOMAIN file.lines : Parses(file.lines[i])
    THEN [raised |-> FALSE, records |-> Records(file.lines)]
    ELSE [raised |-> TRUE, records |-> << >>]

-----------------------------------------------------------------------------
(* The benchmark process and its files *)

LogInit == Init /\ requestFile = EmptyFile /\ routeFile = EmptyFile /\ cut = FALSE

\* Whatever BenchmarkRun appends to a log is appended to its file.
FilesFollow ==
  /\ requestFile' = IF requestLog' = requestLog THEN requestFile
                    ELSE AppendLine(requestFile, Last(requestLog'))
  /\ routeFile' = IF routeLog' = routeLog THEN routeFile
                  ELSE AppendLine(routeFile, Last(routeLog'))
  /\ UNCHANGED cut

\* The process ends while LogTrace, or Admit or Refuse, writes its line; it
\* also ends when the write of LogTrace or of Refuse fails.
StopWhileWriting ==
  /\ Crash
  /\ \/ pc = "log" /\ requestFile' \in CutShort(requestFile, pending) /\ UNCHANGED routeFile
     \/ /\ pc = "admit" /\ ~InvalidBudget
        /\ routeFile' \in CutShort(routeFile, RouteTrace(OverBudget))
        /\ UNCHANGED requestFile
  /\ cut' = TRUE

\* The write of Admit fails within its line, which the run survives.
RouteWriteFails ==
  /\ FailUncalled /\ ~InvalidBudget
  /\ routeFile' \in CutShort(routeFile, RouteTrace(FALSE))
  /\ cut' = TRUE
  /\ UNCHANGED requestFile

LogNext == (Next /\ FilesFollow) \/ StopWhileWriting \/ RouteWriteFails

LogSpec ==
  /\ LogInit /\ [][LogNext]_<< vars, logVars >>
  /\ WF_<< vars, logVars >>(RunStep /\ FilesFollow)

-----------------------------------------------------------------------------
(* Properties *)

\* read_all returns every record that was appended, once each and in order,
\* over all restarts, with at most one more whose newline was lost; or it
\* raises, which it does only after a write was cut short.  It never leaves out
\* a record because of a damaged line and never returns a damaged one.
LogsAreReadWholeOrNotAtAll ==
  \A log \in {<< requestLog, requestFile >>, << routeLog, routeFile >>} :
    LET read == ReadAll(log[2])
    IN  /\ read.raised => cut
        /\ ~read.raised =>
             \/ read.records = log[1]
             \/ read.records # << >> /\ Front(read.records) = log[1] /\ ~log[2].ended
=============================================================================
