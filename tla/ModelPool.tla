------------------------------- MODULE ModelPool -------------------------------
(***************************************************************************)
(* infrastructure/models/model_pool.py: a dictionary of backends that      *)
(* tasks of one event loop sweep, checking or closing one backend after    *)
(* the other, while others register backends.                              *)
(*                                                                         *)
(* A dictionary keeps its keys in the order they were first registered.    *)
(* Its iterator, part of Python, remembers a position and the size the     *)
(* dictionary had: it raises RuntimeError when the size has changed, and   *)
(* otherwise goes on at its position, whatever is there by now.            *)
(***************************************************************************)
EXTENDS Naturals, Sequences, SequencesExt

CONSTANTS
  ModelIds,          \* model_id values
  Sweepers,          \* tasks that call health_check_all or close_all, once each
  MaxRegistrations   \* bound: calls of register_backend

VARIABLES
  pool,          \* the entries of the dictionaries, [model, backend], in order
  sweeps,        \* the sweep of each task
  registrations  \* history: calls of register_backend so far

poolVars == << pool, sweeps, registrations >>

\* "begun" and "disturbed" are history: the pool the sweep began with, and
\* whether a backend of it was replaced or removed since.
NoSweep ==
  [kind |-> "none", status |-> "idle", size |-> 0, visited |-> << >>, begun |-> << >>,
   disturbed |-> FALSE]

PoolInit ==
  /\ pool = << >> /\ registrations = 0
  /\ sweeps = [t \in Sweepers |-> NoSweep]

\* The sweeps under way lose an entry they began with.
Disturbed == [t \in Sweepers |->
  [sweeps[t] EXCEPT !.disturbed = @ \/ sweeps[t].status = "awaiting"]]

\* register_backend: the new backend of a known model takes the old one's place.
RegisterBackend(model) ==
  LET entry == [model |-> model, backend |-> registrations + 1]
      known == {i \in DOMAIN pool : pool[i].model = model}
  IN  /\ registrations < MaxRegistrations
      /\ registrations' = registrations + 1
      /\ IF known = {} THEN pool' = Append(pool, entry) /\ UNCHANGED sweeps
         ELSE /\ pool' = [i \in DOMAIN pool |-> IF i \in known THEN entry ELSE pool[i]]
              /\ sweeps' = Disturbed

\* backends.clear() and configs.clear(), at the end of close_all.
ClearEntries(t, sweep) ==
  /\ pool' = << >>
  /\ sweeps' = [Disturbed EXCEPT ![t] = sweep]

\* The iterator raises, or yields the entry at its position, or is exhausted.
NextTurn(t, sweep) ==
  LET position == Len(sweep.visited) + 1
      Unchanged == Len(pool) = sweep.size
      Becomes(next) == sweeps' = [sweeps EXCEPT ![t] = next] /\ UNCHANGED pool
      returned == [sweep EXCEPT !.status = "returned"]
  IN  \/ ~Unchanged /\ Becomes([sweep EXCEPT !.status = "raised"])
      \/ /\ Unchanged /\ position <= sweep.size
         /\ Becomes([sweep EXCEPT !.status = "awaiting",
                                  !.visited = Append(@, pool[position])])
      \/ /\ Unchanged /\ position > sweep.size
         /\ \/ sweep.kind = "health" /\ Becomes(returned)
            \/ sweep.kind = "close" /\ ClearEntries(t, returned)

\* health_check_all or close_all is called.
BeginSweep(t, kind) ==
  /\ sweeps[t].status = "idle"
  /\ NextTurn(t, [NoSweep EXCEPT !.kind = kind, !.size = Len(pool), !.begun = pool])
  /\ UNCHANGED registrations

\* Mutant: a backend that raises ends the sweep.
BackendAnswersOrEnds(t, ok) ==
  /\ sweeps[t].status = "awaiting"
  /\ IF ok THEN NextTurn(t, sweeps[t])
     ELSE sweeps' = [sweeps EXCEPT ![t].status = "returned"] /\ UNCHANGED pool
  /\ UNCHANGED registrations

\* The awaited backend answers, or raises, which is caught and reported as
\* unhealthy, or logged: either way the loop goes on.
BackendAnswers(t, ok) ==
  /\ sweeps[t].status = "awaiting"
  /\ NextTurn(t, sweeps[t])
  /\ UNCHANGED registrations

PoolNext ==
  \/ \E model \in ModelIds : RegisterBackend(model)
  \/ \E t \in Sweepers :
       \/ \E kind \in {"health", "close"} : BeginSweep(t, kind)
       \/ \E ok \in BOOLEAN : BackendAnswers(t, ok)

-----------------------------------------------------------------------------
(* Properties *)

\* A sweep that returns visited the backends that were in the pool when it
\* began, each once and in order, whatever was registered meanwhile and
\* whichever backend raised, unless one of them was replaced or removed under
\* way; and a close_all that was left alone emptied the pool of exactly the
\* backends it closed: none stays behind and none is dropped unclosed.
SweepsAreWhole ==
  \A t \in Sweepers :
    LET sweep == sweeps[t]
    IN  sweep.status = "returned" /\ ~sweep.disturbed =>
          /\ sweep.visited = sweep.begun
          /\ sweep.kind = "close" => ToSet(sweep.visited) \cap ToSet(pool) = {}
=============================================================================
