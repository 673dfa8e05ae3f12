------------------------------- MODULE Batching -------------------------------
(***************************************************************************)
(* The batchers of domain/batching: requests are added one by one and      *)
(* collected in batches.  The three implementations of AbstractBatcher     *)
(* share this module; `batcher` says which one a behaviour is about.       *)
(*                                                                         *)
(* Of a request only what its batcher looks at is kept: the priority, or   *)
(* for the semantic batcher the text.  Its age is counted in ticks and     *)
(* stops at MaxWait, the only age the code compares it with; it may be old *)
(* when it is added, since its timestamp is that of its construction.      *)
(* Latencies are 0, 1 or 2: below 80% of the target, up to the target, and *)
(* above it.  The methods never await, so each is one step.                *)
(***************************************************************************)
EXTENDS Naturals, Sequences, SequencesExt

CONSTANTS
  MinBatch, MaxBatch, MaxWait,   \* BatchStrategy
  ExpressBatch,                  \* requests of an express batch (4 in the code)
  Window,                        \* latencies remembered (100 in the code)
  SeedLength,                    \* symbols of the leading text (32 in the code)
  Content,                       \* text -> its symbols, a sequence
  MaxRequests                    \* bound: requests added

ASSUME BatchingAssumption ==
  /\ {MinBatch, MaxBatch, ExpressBatch, Window, SeedLength, MaxRequests} \subseteq Nat \ {0}
  /\ MaxWait \in Nat
  /\ MinBatch <= MaxBatch
  /\ \A text \in DOMAIN Content : Content[text] \in Seq(Nat)
  /\ {"express", "standard", "batch"} \cap DOMAIN Content = {}

VARIABLES
  batcher,       \* the implementation
  queues,        \* lane -> queued requests, oldest first
  currentSize,   \* current_batch_size
  latencies,     \* recent_latencies
  added,         \* history: requests added so far
  batches        \* history: batches collected so far

batchingVars == << batcher, queues, currentSize, latencies, added, batches >>

Batchers == {"adaptive", "priority", "semantic"}

Priorities == {"express", "standard", "batch"}

Texts == DOMAIN Content

\* What the batcher sees of a request.
Keys == IF batcher = "semantic" THEN Texts ELSE Priorities

Requests == [id : 1 .. MaxRequests, key : Priorities \cup Texts, age : 0 .. MaxWait]

\* The only queue of a semantic batcher is its standard lane.
LaneOf(key) == IF batcher = "semantic" THEN "standard" ELSE key

Prefix(queue, n) == SubSeq(queue, 1, Min({n, Len(queue)}))

Rest(queue, n) == SubSeq(queue, n + 1, Len(queue))

BatchingInit ==
  /\ batcher \in Batchers
  /\ queues = [lane \in Priorities |-> << >>]
  /\ currentSize = MinBatch
  /\ latencies = << >>
  /\ added = 0
  /\ batches = << >>

\* add_request.
AddRequest ==
  /\ added < MaxRequests
  /\ \E key \in Keys, age \in 0 .. MaxWait :
       queues' = [queues EXCEPT ![LaneOf(key)] =
                    Append(@, [id |-> added + 1, key |-> key, age |-> age])]
  /\ added' = added + 1
  /\ UNCHANGED << batcher, currentSize, latencies, batches >>

\* Time passes for the requests that wait.
Tick ==
  /\ \E lane \in Priorities : \E i \in DOMAIN queues[lane] : queues[lane][i].age < MaxWait
  /\ queues' = [lane \in Priorities |->
                  [i \in DOMAIN queues[lane] |->
                     [queues[lane][i] EXCEPT !.age = Min({@ + 1, MaxWait})]]]
  /\ UNCHANGED << batcher, currentSize, latencies, added, batches >>

\* record_batch_metrics.
RecordBatchMetrics ==
  /\ batcher = "adaptive" /\ batches # << >>
  /\ \E latency \in 0 .. 2 :
       LET longer == Append(latencies, latency)
       IN  latencies' = IF Len(longer) > Window THEN Tail(longer) ELSE longer
  /\ UNCHANGED << batcher, queues, currentSize, added, batches >>

-----------------------------------------------------------------------------
(* The adaptive batcher *)

\* The latency at index min(n - 1, int(0.95 n)) of the sorted ones.
P95 ==
  LET n == Len(latencies)
      index == Min({n - 1, (95 * n) \div 100})
  IN  Min({level \in 0 .. 2 :
             Cardinality({i \in 1 .. n : latencies[i] <= level}) > index})

\* Mutant: growth is not clamped.
UnclampedBatchSize ==
  CASE latencies = << >> -> currentSize
    [] latencies # << >> /\ P95 = 0 -> Max({currentSize + 1, (6 * currentSize) \div 5})
    [] latencies # << >> /\ P95 = 1 -> currentSize
    [] OTHER -> Max({MinBatch, (4 * currentSize) \div 5})

\* _calculate_optimal_batch_size: the new current_batch_size.
OptimalBatchSize ==
  CASE latencies = << >> -> currentSize
    [] latencies # << >> /\ P95 = 0 ->
         Min({MaxBatch, Max({currentSize + 1, (6 * currentSize) \div 5})})
    [] latencies # << >> /\ P95 = 1 -> currentSize
    [] OTHER -> Max({MinBatch, (4 * currentSize) \div 5})

\* Mutant: the background lane is forgotten.
OldestForegroundAge ==
  Max({0} \cup {Head(queues[lane]).age :
                  lane \in {l \in {"express", "standard"} : queues[l] # << >>}})

\* _oldest_request_age_ms: of the requests at the head of a lane.
OldestRequestAge ==
  Max({0} \cup {Head(queues[lane]).age : lane \in {l \in Priorities : queues[l] # << >>}})

\* Mutant: the newest requests are popped.
TakeNewest(lane, n) ==
  LET rest == Len(queues[lane]) - Min({n, Len(queues[lane])})
  IN  /\ queues' = [queues EXCEPT ![lane] = Prefix(@, rest)]
      /\ batches' = Append(batches, Rest(queues[lane], rest))

\* A batch of the n first requests of a lane.
Take(lane, n) ==
  /\ queues' = [queues EXCEPT ![lane] = Rest(@, n)]
  /\ batches' = Append(batches, Prefix(queues[lane], n))

StandardIsFull == Len(queues["standard"]) >= currentSize

BackgroundIsFull == Len(queues["batch"]) >= MaxBatch

CollectExpress ==
  /\ queues["express"] # << >>
  /\ Take("express", ExpressBatch)
  /\ UNCHANGED currentSize

CollectStandard ==
  /\ queues["express"] = << >> /\ StandardIsFull
  /\ currentSize' = OptimalBatchSize
  /\ Take("standard", currentSize')

CollectBackground ==
  /\ queues["express"] = << >> /\ ~StandardIsFull /\ BackgroundIsFull
  /\ Take("batch", MaxBatch)
  /\ UNCHANGED currentSize

\* Standard requests, topped up with background ones.
CollectTimed ==
  /\ queues["express"] = << >> /\ ~StandardIsFull /\ ~BackgroundIsFull
  /\ OldestRequestAge >= MaxWait
  /\ currentSize' = OptimalBatchSize
  /\ LET standard == Prefix(queues["standard"], currentSize')
         room == currentSize' - Len(standard)
         batch == standard \o Prefix(queues["batch"], room)
     IN  /\ queues' = [queues EXCEPT !["standard"] = Rest(@, currentSize'),
                                     !["batch"] = Rest(@, room)]
         /\ batches' = IF batch = << >> THEN batches ELSE Append(batches, batch)

CollectAdaptive ==
  /\ batcher = "adaptive"
  /\ CollectExpress \/ CollectStandard \/ CollectBackground \/ CollectTimed
  /\ UNCHANGED << batcher, latencies, added >>

-----------------------------------------------------------------------------
(* The priority batcher *)

\* Mutant: the lanes served in another order.
ServiceOrderReversed == << "express", "batch", "standard" >>

ServiceOrder == << "express", "standard", "batch" >>

CollectPriority ==
  /\ batcher = "priority"
  /\ \E i \in DOMAIN ServiceOrder :
       LET lane == ServiceOrder[i]
       IN  /\ queues[lane] # << >>
           /\ \A j \in 1 .. i - 1 : queues[ServiceOrder[j]] = << >>
           /\ Take(lane, IF lane = "express" THEN ExpressBatch ELSE MaxBatch)
  /\ UNCHANGED << batcher, currentSize, latencies, added >>

-----------------------------------------------------------------------------
(* The semantic batcher *)

\* The list [request for request in queue if request in wanted].  (SelectSeq in
\* other words: the prover has no definition of that.)
Kept(queue, wanted) ==
  LET kept[n \in 0 .. Len(queue)] ==
        CASE n = 0 -> << >>
          [] n > 0 /\ queue[n] \in wanted -> Append(kept[n - 1], queue[n])
          [] OTHER -> kept[n - 1]
  IN  kept[Len(queue)]

\* The requests whose text starts with the leading text of the first one.
Similar(queue) ==
  LET seed == Prefix(Content[Head(queue).key], SeedLength)
  IN  Kept(queue, {request \in ToSet(queue) : IsPrefix(seed, Content[request.key])})

\* Mutant: everything similar leaves the queue, selected or not.
WithoutSimilar(queue, selected) ==
  Kept(queue, ToSet(queue) \ ToSet(Similar(queue)))

Without(queue, selected) ==
  Kept(queue, {request \in ToSet(queue) :
                 \A taken \in ToSet(selected) : request.id # taken.id})

CollectSemantic ==
  /\ batcher = "semantic"
  /\ Len(queues["standard"]) >= MinBatch
  /\ batches' = Append(batches, Prefix(Similar(queues["standard"]), MaxBatch))
  /\ queues' = [queues EXCEPT !["standard"] = Without(@, Last(batches'))]
  /\ UNCHANGED << batcher, currentSize, latencies, added >>

-----------------------------------------------------------------------------
\* collect_batch, when it returns a batch; otherwise it changes nothing.
CollectBatch == CollectAdaptive \/ CollectPriority \/ CollectSemantic

BatchingNext == AddRequest \/ Tick \/ RecordBatchMetrics \/ CollectBatch

\* Time passes, and whoever owns the batcher keeps collecting.
BatchingSpec ==
  /\ BatchingInit /\ [][BatchingNext]_batchingVars
  /\ WF_batchingVars(Tick) /\ WF_batchingVars(CollectBatch)

-----------------------------------------------------------------------------
(* Properties *)

\* Types; the adaptive size stays within the strategy, and so does every batch
\* but an express one, which may be larger; no batch is empty.
BatchingTypeOK ==
  /\ batcher \in Batchers
  /\ \A lane \in Priorities : \A i \in DOMAIN queues[lane] : queues[lane][i] \in Requests
  /\ currentSize \in MinBatch .. MaxBatch
  /\ Len(latencies) <= Window /\ \A i \in DOMAIN latencies : latencies[i] \in 0 .. 2
  /\ added \in 0 .. MaxRequests
  /\ \A i \in DOMAIN batches :
       Len(batches[i]) \in 1 .. IF Head(batches[i]).key = "express" THEN ExpressBatch ELSE MaxBatch

Collected == FlattenSeq(batches)

Queued == queues["express"] \o queues["standard"] \o queues["batch"]

\* A request that was added is in exactly one place, once: in its lane, or in
\* one batch.  Those the batcher cannot tell apart are collected in the order in
\* which they were added, also when a batch mixes lanes or skips other texts.
RequestsAreServedInOrder ==
  LET all == Collected \o Queued
  IN  /\ Len(all) = added /\ {all[i].id : i \in DOMAIN all} = 1 .. added
      /\ \A i, j \in DOMAIN all : i < j /\ all[i].key = all[j].key => all[i].id < all[j].id

\* A batch never leaves behind what should have gone first.  The priority
\* batcher leaves nothing more urgent than what it takes; the adaptive one no
\* express request, unless the batch is itself full of express ones, nor a
\* standard one behind a background one with which it shares a batch; the
\* semantic one takes the request that was added first.
NothingMoreUrgentIsLeft ==
  [][batches' # batches =>
       LET batch == ToSet(Last(batches'))
           Left(lane) == queues'[lane] # << >>
       IN  CASE batcher = "semantic" -> Head(queues["standard"]) \in batch
             [] batcher = "priority" ->
                  \A r \in batch :
                    /\ Left("express") => r.key = "express"
                    /\ Left("standard") => r.key # "batch"
             [] OTHER ->
                  /\ Left("express") => \A r \in batch : r.key = "express"
                  /\ Left("standard") => Cardinality({r.key : r \in batch}) = 1]_batchingVars

\* Every request is collected in the end, whatever its lane and whatever the
\* sizes of the lanes, once requests stop arriving.  The semantic batcher alone
\* keeps what does not fill a batch.
EveryRequestIsCollected ==
  \A id \in 1 .. MaxRequests :
    (\E i \in DOMAIN Queued : Queued[i].id = id) ~>
      \/ \E i \in DOMAIN Collected : Collected[i].id = id
      \/ batcher = "semantic" /\ Len(queues["standard"]) < MinBatch
=============================================================================
