---------------------------- MODULE Services_proofs ----------------------------
(***************************************************************************)
(* Proofs about Services: the promise of a bounded gather, the sweeps over *)
(* the model pool, the caches and the cost attributor, each from an        *)
(* inductive invariant of its own (what the routers keep is in             *)
(* Primitives_proofs).  That every coroutine of a gather ends is left to   *)
(* TLC.                                                                    *)
(***************************************************************************)
EXTENDS Services, Evidence_proofs

(* The bounded gather *)

Increasing(s) == \A i, k \in DOMAIN s : i < k => s[i] < s[k]

GatherTypes ==
  /\ limit \in Int /\ jobs \in Nat /\ started \in 0 .. jobs
  /\ outcome \in {"idle", "refused", "pending", "raised", "returned"}
  /\ waiting \in Seq(Nat) /\ results \in Seq(Nat) /\ IsFiniteSet(running)
  /\ outcome \in {"idle", "refused"} => started = 0
  /\ outcome \notin {"idle", "refused"} => limit >= 0

\* Every task that has started is in one place: it waits, runs, or has ended.
PlacesInv ==
  /\ ToSet(waiting) \cup running \cup failed \cup ToSet(results) = 1 .. started
  /\ ToSet(waiting) \cap running = {}
  /\ (failed \cup ToSet(results)) \cap (ToSet(waiting) \cup running) = {}
  /\ failed \cap ToSet(results) = {}
  /\ Increasing(waiting) /\ IsInjective(results)

SlotsInv ==
  /\ Cardinality(running) <= limit \/ running = {}
  /\ waiting # << >> => Cardinality(running) = limit

\* With one slot, and until a coroutine raises, they end as they were given.
OneSlotInv ==
  limit = 1 /\ failed = {} =>
    /\ \A i \in DOMAIN results : results[i] = i
    /\ running \subseteq {Len(results) + 1}

OutcomeInv ==
  /\ outcome \in {"pending", "returned"} => failed = {}
  /\ outcome = "returned" => Len(results) = jobs /\ ToSet(results) = 1 .. jobs

GatherInv == GatherTypes /\ PlacesInv /\ SlotsInv /\ OneSlotInv /\ OutcomeInv

\* One element more.
LEMMA AppendedSet ==
  ASSUME NEW s \in Seq(Nat), NEW x \in Nat
  PROVE  /\ Append(s, x) \in Seq(Nat) /\ ToSet(Append(s, x)) = ToSet(s) \cup {x}
         /\ Len(Append(s, x)) = Len(s) + 1 /\ Append(s, x)[Len(s) + 1] = x
         /\ \A i \in DOMAIN s : Append(s, x)[i] = s[i]
         /\ DOMAIN Append(s, x) = DOMAIN s \cup {Len(s) + 1}
         /\ DOMAIN s = 1 .. Len(s) /\ Len(s) \in Nat
         /\ Append(s, x) # << >>
  <1>1. /\ Append(s, x) \in Seq(Nat) /\ Len(Append(s, x)) = Len(s) + 1
        /\ Append(s, x)[Len(s) + 1] = x /\ \A i \in DOMAIN s : Append(s, x)[i] = s[i]
        /\ DOMAIN s = 1 .. Len(s) /\ Len(s) \in Nat /\ Append(s, x) # << >>
        /\ DOMAIN Append(s, x) = 1 .. Len(s) + 1
    OBVIOUS
  <1>2. DOMAIN Append(s, x) = DOMAIN s \cup {Len(s) + 1}
    BY <1>1
  <1>3. ToSet(Append(s, x)) = ToSet(s) \cup {x}
    <2>1. \A i \in DOMAIN Append(s, x) : Append(s, x)[i] \in ToSet(s) \cup {x}
      BY <1>1, <1>2 DEF ToSet
    <2>2. \A i \in DOMAIN s : s[i] \in ToSet(Append(s, x))
      BY <1>1, <1>2 DEF ToSet
    <2>3. x \in ToSet(Append(s, x))
      BY <1>1, <1>2 DEF ToSet
    <2> QED
      BY <2>1, <2>2, <2>3 DEF ToSet
  <1> QED
    BY <1>1, <1>2, <1>3

\* The first element of an increasing sequence is the least, and the others
\* stay increasing without it.
LEMMA IncreasingTail ==
  ASSUME NEW s \in Seq(Nat), s # << >>, Increasing(s)
  PROVE  /\ Tail(s) \in Seq(Nat) /\ Increasing(Tail(s))
         /\ Head(s) \in ToSet(s) /\ Head(s) \in Nat /\ \A x \in ToSet(s) : Head(s) <= x
         /\ ToSet(Tail(s)) = ToSet(s) \ {Head(s)}
  <1>1. /\ Tail(s) \in Seq(Nat) /\ Head(s) = s[1] /\ 1 \in DOMAIN s /\ Len(s) \in Nat \ {0}
        /\ DOMAIN s = 1 .. Len(s) /\ DOMAIN Tail(s) = 1 .. Len(s) - 1
        /\ \A i \in 1 .. Len(s) - 1 : Tail(s)[i] = s[i + 1]
        /\ \A i \in DOMAIN s : s[i] \in Nat
    OBVIOUS
  <1>2. \A i \in DOMAIN s : i = 1 \/ s[1] < s[i]
    BY <1>1 DEF Increasing
  <1>3. Increasing(Tail(s))
    BY <1>1 DEF Increasing
  <1>4. ToSet(Tail(s)) \subseteq ToSet(s) \ {Head(s)}
    <2> SUFFICES ASSUME NEW i \in DOMAIN Tail(s) PROVE Tail(s)[i] \in ToSet(s) \ {Head(s)}
      BY DEF ToSet
    <2>1. i + 1 \in DOMAIN s /\ Tail(s)[i] = s[i + 1] /\ i + 1 # 1
      BY <1>1
    <2> QED
      BY <1>1, <1>2, <2>1 DEF ToSet
  <1>5. ToSet(s) \ {Head(s)} \subseteq ToSet(Tail(s))
    <2> SUFFICES ASSUME NEW i \in DOMAIN s, s[i] # Head(s) PROVE s[i] \in ToSet(Tail(s))
      BY DEF ToSet
    <2>1. i - 1 \in DOMAIN Tail(s) /\ Tail(s)[i - 1] = s[i]
      BY <1>1
    <2> QED
      BY <2>1 DEF ToSet
  <1>6. Head(s) \in ToSet(s) /\ \A x \in ToSet(s) : Head(s) <= x
    BY <1>1, <1>2 DEF ToSet
  <1> QED
    BY <1>1, <1>3, <1>4, <1>5, <1>6

\* Nothing is in an empty sequence, and nothing but that is empty.
LEMMA EmptyToSet == ToSet(<< >>) = {} /\ \A s \in Seq(Nat) : ToSet(s) = {} <=> s = << >>
  <1>1. ToSet(<< >>) = {}
    BY DEF ToSet
  <1>2. ASSUME NEW s \in Seq(Nat), s # << >> PROVE ToSet(s) # {}
    <2>1. 1 \in DOMAIN s
      BY <1>2
    <2> QED
      BY <2>1 DEF ToSet
  <1> QED
    BY <1>1, <1>2

\* A list without repetition that holds as many numbers as there are up to its
\* length holds each of them.
LEMMA FullList ==
  ASSUME NEW s \in Seq(Nat), NEW n \in Nat, IsInjective(s), ToSet(s) \subseteq 1 .. n, Len(s) = n
  PROVE  ToSet(s) = 1 .. n
  <1>1. s \in [1 .. n -> 1 .. n] /\ DOMAIN s = 1 .. n
    BY DEF ToSet
  <1>2. s \in Injection(1 .. n, 1 .. n)
    BY <1>1 DEF Injection, IsInjective
  <1>3. IsFiniteSet(1 .. n)
    BY FS_Interval
  <1>4. s \in Surjection(1 .. n, 1 .. n)
    BY <1>2, <1>3, FS_Injection
  <1> QED
    BY <1>1, <1>4 DEF Surjection, ToSet

\* An interval that begins with one tells its other end.
LEMMA SameInterval == \A m, n \in Nat : 1 .. m = 1 .. n => m = n
  <1> SUFFICES ASSUME NEW m \in Nat, NEW n \in Nat, 1 .. m = 1 .. n PROVE m = n
    OBVIOUS
  <1>1. m = 0 \/ m \in 1 .. n
    OBVIOUS
  <1>2. n = 0 \/ n \in 1 .. m
    OBVIOUS
  <1> QED
    BY <1>1, <1>2

\* It holds before the call.
LEMMA GatherInvInit == GatherInit => GatherInv
  <1> SUFFICES ASSUME GatherInit PROVE GatherInv
    OBVIOUS
  <1>1. ToSet(<< >>) = {} /\ IsFiniteSet({}) /\ Cardinality({}) = 0
    BY EmptyToSet, FS_EmptySet
  <1>2. GatherTypes
    BY <1>1 DEF GatherInit, GatherTypes
  <1>3. PlacesInv
    BY <1>1 DEF GatherInit, PlacesInv, Increasing, IsInjective
  <1> QED
    BY <1>1, <1>2, <1>3 DEF GatherInit, GatherInv, SlotsInv, OneSlotInv, OutcomeInv

\* The call.
LEMMA CallGatherPreserves ==
  ASSUME NEW n \in 0 .. MaxJobs, NEW slots \in Limits, GatherInv, CallGather(n, slots)
  PROVE  GatherInv'
  <1> USE DEF GatherInv, CallGather
  <1>1. started = 0 /\ 1 .. started = {}
    BY DEF GatherTypes
  <1>2. ToSet(waiting) = {} /\ running = {} /\ failed = {} /\ ToSet(results) = {}
    BY <1>1 DEF PlacesInv
  <1>3. waiting = << >> /\ results = << >>
    BY <1>2, EmptyToSet DEF GatherTypes
  <1>4. GatherTypes'
    BY <1>1, GatherAssumption DEF GatherTypes
  <1>5. PlacesInv'
    BY DEF PlacesInv
  <1> QED
    BY <1>2, <1>3, <1>4, <1>5 DEF SlotsInv, OneSlotInv, OutcomeInv

\* A task starts: it runs if a slot is free and nobody waits, and waits else.
LEMMA StartJobPreserves ==
  ASSUME GatherInv, StartJob
  PROVE  GatherInv'
  <1> DEFINE j == started + 1
  <1> USE DEF GatherInv
  <1>1. /\ outcome \notin {"idle", "refused"} /\ started' = j /\ j \in Nat /\ j <= jobs
        /\ UNCHANGED << limit, jobs, failed, results, outcome >>
        /\ 1 .. started' = (1 .. started) \cup {j} /\ j \notin 1 .. started
        /\ limit \in Int /\ limit >= 0 /\ Cardinality(running) \in Nat
    BY FS_CardinalityType DEF StartJob, GatherTypes
  <1>2. outcome # "returned"
    <2> SUFFICES ASSUME outcome = "returned" PROVE FALSE
      OBVIOUS
    <2>1. 1 .. jobs \subseteq 1 .. started
      BY DEF OutcomeInv, PlacesInv
    <2> QED
      BY <1>1, <2>1 DEF GatherTypes
  <1> HIDE DEF j
  <1>3. CASE Cardinality(running) < limit /\ waiting = << >>
    <2>1. running' = running \cup {j} /\ waiting' = waiting
      BY <1>3 DEF StartJob, j
    <2>2. IsFiniteSet(running') /\ Cardinality(running') <= limit
      <3>1. j \notin running /\ IsFiniteSet(running)
        BY <1>1 DEF GatherTypes, PlacesInv
      <3>2. IsFiniteSet(running \cup {j}) /\ Cardinality(running \cup {j}) = Cardinality(running) + 1
        BY <3>1, FS_AddElement
      <3> QED
        BY <1>1, <1>3, <2>1, <3>2
    <2>3. GatherTypes'
      BY <1>1, <2>1, <2>2 DEF GatherTypes
    <2>4. PlacesInv'
      BY <1>1, <2>1 DEF PlacesInv
    <2>5. OneSlotInv'
      <3> SUFFICES ASSUME limit = 1, failed = {}
                   PROVE  /\ \A i \in DOMAIN results : results[i] = i
                          /\ running' \subseteq {Len(results) + 1}
        BY <1>1 DEF OneSlotInv
      <3>1. running = {}
        BY <1>1, <1>3, FS_EmptySet DEF GatherTypes
      <3>2. /\ \A i \in DOMAIN results : results[i] = i
            /\ DOMAIN results = 1 .. Len(results) /\ Len(results) \in Nat
        BY DEF OneSlotInv, GatherTypes
      <3>3. ToSet(results) = 1 .. started
        BY <1>3, <3>1, EmptyToSet DEF PlacesInv
      <3>4. ToSet(results) = 1 .. Len(results)
        BY <3>2 DEF ToSet
      <3>5. Len(results) = started
        <4>1. started \in Nat
          BY DEF GatherTypes
        <4>2. 1 .. Len(results) = 1 .. started
          BY <3>3, <3>4
        <4> QED
          BY <3>2, <4>1, <4>2, SameInterval
      <3> QED
        BY <2>1, <3>1, <3>2, <3>5 DEF j
    <2> QED
      BY <1>1, <1>2, <1>3, <2>1, <2>2, <2>3, <2>4, <2>5 DEF SlotsInv, OutcomeInv
  <1>4. CASE ~(Cardinality(running) < limit /\ waiting = << >>)
    <2>1. waiting' = Append(waiting, j) /\ running' = running
      BY <1>4 DEF StartJob, j
    <2>2. /\ waiting' \in Seq(Nat) /\ ToSet(waiting') = ToSet(waiting) \cup {j}
          /\ waiting'[Len(waiting) + 1] = j
          /\ \A i \in DOMAIN waiting : waiting'[i] = waiting[i]
          /\ DOMAIN waiting' = DOMAIN waiting \cup {Len(waiting) + 1}
          /\ DOMAIN waiting = 1 .. Len(waiting) /\ Len(waiting) \in Nat
      BY <1>1, <2>1, AppendedSet DEF GatherTypes
    <2>3. GatherTypes'
      BY <1>1, <2>1, <2>2 DEF GatherTypes
    <2>4. Increasing(waiting')
      <3>1. \A i \in DOMAIN waiting : waiting[i] \in 1 .. started
        BY DEF PlacesInv, ToSet
      <3>2. \A i \in DOMAIN waiting : waiting[i] < j
        BY <1>1, <3>1 DEF j, GatherTypes
      <3> QED
        BY <2>2, <3>2 DEF Increasing, PlacesInv
    <2>5. PlacesInv'
      BY <1>1, <2>1, <2>2, <2>4 DEF PlacesInv
    <2>6. Cardinality(running) = limit
      <3>1. running = {} => Cardinality(running) = 0
        BY FS_EmptySet
      <3> QED
        BY <1>1, <1>4, <3>1 DEF SlotsInv
    <2> QED
      BY <1>1, <1>2, <2>1, <2>3, <2>5, <2>6 DEF SlotsInv, OutcomeInv, OneSlotInv
  <1> QED
    BY <1>3, <1>4

\* The slot a task leaves goes to the first that waits, if any does.
LEMMA ReleaseSlotKeeps ==
  ASSUME GatherInv, NEW j \in running, ReleaseSlot(j), UNCHANGED << limit, started >>
  PROVE  /\ IsFiniteSet(running') /\ waiting' \in Seq(Nat) /\ Increasing(waiting')
         /\ ToSet(waiting') \cup running' = (ToSet(waiting) \cup running) \ {j}
         /\ ToSet(waiting') \cap running' = {}
         /\ SlotsInv'
         /\ \/ running' = running \ {j} /\ waiting = << >>
            \/ /\ waiting # << >>
               /\ running' = (running \ {j}) \cup {Head(waiting)}
  <1> USE DEF GatherInv
  <1>1. IsFiniteSet(running \ {j}) /\ Cardinality(running \ {j}) = Cardinality(running) - 1
        /\ Cardinality(running) \in Nat /\ limit \in Int
    BY FS_RemoveElement, FS_CardinalityType DEF GatherTypes
  <1>2. Cardinality(running) <= limit
    BY DEF SlotsInv
  <1>3. CASE waiting = << >>
    <2>1. running' = running \ {j} /\ waiting' = waiting
      BY <1>3 DEF ReleaseSlot
    <2>2. ToSet(waiting) = {}
      BY <1>3, EmptyToSet
    <2>3. SlotsInv'
      BY <1>1, <1>2, <1>3, <2>1 DEF SlotsInv
    <2> QED
      BY <1>1, <1>3, <2>1, <2>2, <2>3 DEF GatherTypes, PlacesInv
  <1>4. CASE waiting # << >>
    <2>1. running' = (running \ {j}) \cup {Head(waiting)} /\ waiting' = Tail(waiting)
      BY <1>4 DEF ReleaseSlot
    <2>2. /\ waiting' \in Seq(Nat) /\ Increasing(waiting') /\ Head(waiting) \in ToSet(waiting)
          /\ ToSet(waiting') = ToSet(waiting) \ {Head(waiting)}
      BY <1>4, <2>1, IncreasingTail DEF GatherTypes, PlacesInv
    <2>3. Head(waiting) \notin running
      BY <2>2 DEF PlacesInv
    <2>4. IsFiniteSet(running') /\ Cardinality(running') = Cardinality(running)
      <3> DEFINE rest == running \ {j}
      <3>1. Head(waiting) \notin rest /\ IsFiniteSet(rest)
        BY <1>1, <2>3
      <3>2. IsFiniteSet(rest \cup {Head(waiting)})
            /\ Cardinality(rest \cup {Head(waiting)}) = Cardinality(rest) + 1
        BY <3>1, FS_AddElement
      <3> QED
        BY <1>1, <2>1, <3>2
    <2>5. SlotsInv'
      BY <1>2, <1>4, <2>4 DEF SlotsInv
    <2> QED
      BY <1>4, <2>1, <2>2, <2>3, <2>4, <2>5 DEF PlacesInv
  <1> QED
    BY <1>3, <1>4

\* A coroutine returns.
LEMMA JobReturnsPreserves ==
  ASSUME NEW j \in 1 .. MaxJobs, GatherInv, JobReturns(j)
  PROVE  GatherInv'
  <1> USE DEF GatherInv
  <1>1. /\ j \in running /\ results' = Append(results, j) /\ ReleaseSlot(j)
        /\ UNCHANGED << limit, jobs, started, failed, outcome >>
    BY DEF JobReturns
  <1>2. j \in Nat /\ j \notin ToSet(results)
    BY <1>1, GatherAssumption DEF PlacesInv
  <1>3. /\ results' \in Seq(Nat) /\ ToSet(results') = ToSet(results) \cup {j}
        /\ Len(results') = Len(results) + 1 /\ results'[Len(results) + 1] = j
        /\ \A i \in DOMAIN results : results'[i] = results[i]
        /\ DOMAIN results' = DOMAIN results \cup {Len(results) + 1}
        /\ DOMAIN results = 1 .. Len(results) /\ Len(results) \in Nat
    BY <1>1, <1>2, AppendedSet DEF GatherTypes
  <1>4. /\ IsFiniteSet(running') /\ waiting' \in Seq(Nat) /\ Increasing(waiting')
        /\ ToSet(waiting') \cup running' = (ToSet(waiting) \cup running) \ {j}
        /\ ToSet(waiting') \cap running' = {}
        /\ SlotsInv'
        /\ \/ running' = running \ {j} /\ waiting = << >>
           \/ /\ waiting # << >>
              /\ running' = (running \ {j}) \cup {Head(waiting)}
    BY <1>1, ReleaseSlotKeeps
  <1>5. GatherTypes'
    BY <1>1, <1>3, <1>4 DEF GatherTypes
  <1>6. PlacesInv'
    <2>1. IsInjective(results')
      <3>1. \A i \in DOMAIN results : results[i] # j
        BY <1>2 DEF ToSet
      <3> QED
        BY <1>3, <3>1 DEF IsInjective, PlacesInv
    <2> QED
      BY <1>1, <1>3, <1>4, <2>1 DEF PlacesInv
  <1>7. OneSlotInv'
    <2> SUFFICES ASSUME limit = 1, failed = {}
                 PROVE  /\ \A i \in DOMAIN results' : results'[i] = i
                        /\ running' \subseteq {Len(results') + 1}
      BY <1>1 DEF OneSlotInv
    <2>1. j = Len(results) + 1 /\ running = {j}
      BY <1>1 DEF OneSlotInv
    <2>2. \A i \in DOMAIN results' : results'[i] = i
      BY <1>3, <2>1 DEF OneSlotInv
    <2>3. ASSUME waiting # << >> PROVE Head(waiting) = j + 1
      <3> DEFINE h == Head(waiting)
      <3>1. h \in ToSet(waiting) /\ h \in Nat /\ \A x \in ToSet(waiting) : h <= x
        BY <2>3, IncreasingTail DEF GatherTypes, PlacesInv
      <3>2. ToSet(results) = 1 .. j - 1
        BY <1>3, <2>1 DEF OneSlotInv, ToSet
      <3>3. h \in 1 .. started /\ h \notin 1 .. j - 1 /\ h # j
        BY <1>1, <3>1, <3>2 DEF PlacesInv
      <3>4. h >= j + 1 /\ j + 1 \in 1 .. started
        BY <1>2, <3>1, <3>3 DEF GatherTypes
      <3>5. j + 1 \in ToSet(waiting)
        BY <1>2, <2>1, <3>2, <3>4 DEF PlacesInv
      <3> QED
        BY <1>2, <3>1, <3>4, <3>5
    <2> QED
      BY <1>2, <1>3, <1>4, <2>1, <2>2, <2>3
  <1>8. OutcomeInv'
    <2>1. outcome # "returned"
      BY <1>1 DEF OutcomeInv, PlacesInv, GatherTypes
    <2> QED
      BY <1>1, <2>1 DEF OutcomeInv
  <1> QED
    BY <1>4, <1>5, <1>6, <1>7, <1>8

\* A coroutine raises.
LEMMA JobRaisesPreserves ==
  ASSUME NEW j \in 1 .. MaxJobs, GatherInv, JobRaises(j)
  PROVE  GatherInv'
  <1> USE DEF GatherInv
  <1>1. /\ j \in running /\ failed' = failed \cup {j} /\ ReleaseSlot(j)
        /\ outcome' = (IF outcome = "pending" THEN "raised" ELSE outcome)
        /\ UNCHANGED << limit, jobs, started, results >>
    BY DEF JobRaises
  <1>2. /\ IsFiniteSet(running') /\ waiting' \in Seq(Nat) /\ Increasing(waiting')
        /\ ToSet(waiting') \cup running' = (ToSet(waiting) \cup running) \ {j}
        /\ ToSet(waiting') \cap running' = {}
        /\ SlotsInv'
    BY <1>1, ReleaseSlotKeeps
  <1>3. GatherTypes'
    BY <1>1, <1>2 DEF GatherTypes
  <1>4. PlacesInv'
    BY <1>1, <1>2 DEF PlacesInv
  <1>5. OneSlotInv'
    BY <1>1 DEF OneSlotInv
  <1>6. outcome # "returned"
    BY <1>1 DEF OutcomeInv, PlacesInv, GatherTypes
  <1>7. OutcomeInv'
    BY <1>1, <1>6 DEF OutcomeInv, GatherTypes
  <1> QED
    BY <1>2, <1>3, <1>4, <1>5, <1>7

\* The call returns.
LEMMA GatherReturnsPreserves ==
  ASSUME GatherInv, GatherReturns
  PROVE  GatherInv'
  <1> USE DEF GatherInv, GatherReturns
  <1>1. ToSet(results) \subseteq 1 .. jobs
    BY DEF PlacesInv, GatherTypes
  <1>2. ToSet(results) = 1 .. jobs
    BY <1>1, FullList DEF PlacesInv, GatherTypes
  <1>3. GatherTypes'
    BY DEF GatherTypes
  <1> QED
    BY <1>2, <1>3 DEF PlacesInv, SlotsInv, OneSlotInv, OutcomeInv

\* Every step preserves the invariant.
LEMMA GatherInvNext == GatherInv /\ [GatherNext]_gatherVars => GatherInv'
  <1> SUFFICES ASSUME GatherInv, [GatherNext]_gatherVars PROVE GatherInv'
    OBVIOUS
  <1>1. CASE UNCHANGED gatherVars
    BY <1>1 DEF gatherVars, GatherInv, GatherTypes, PlacesInv, SlotsInv, OneSlotInv, OutcomeInv
  <1> QED
    BY <1>1, CallGatherPreserves, StartJobPreserves, JobReturnsPreserves, JobRaisesPreserves,
       GatherReturnsPreserves
    DEF GatherNext, JobStep

\* The invariant implies the promise of gather_limited.
LEMMA GatherInvPromise == GatherInv => GatherKeepsItsPromise
  <1> SUFFICES ASSUME GatherInv PROVE GatherKeepsItsPromise
    OBVIOUS
  <1>1. ASSUME outcome = "returned", limit = 1 PROVE results = [j \in 1 .. jobs |-> j]
    <2>1. /\ \A i \in DOMAIN results : results[i] = i
          /\ DOMAIN results = 1 .. jobs /\ results \in Seq(Nat)
      BY <1>1 DEF GatherInv, OneSlotInv, OutcomeInv, GatherTypes
    <2>2. results = [i \in 1 .. jobs |-> results[i]]
      BY <2>1
    <2> QED
      BY <2>1, <2>2
  <1> QED
    BY <1>1 DEF GatherInv, PlacesInv, SlotsInv, OutcomeInv, GatherKeepsItsPromise

-----------------------------------------------------------------------------
(* The model pool *)

PoolEntry == [model : ModelIds, backend : Nat]

Sweep ==
  [kind : {"none", "health", "close"}, status : {"idle", "awaiting", "returned", "raised"},
   size : Nat, visited : Seq(PoolEntry), begun : Seq(PoolEntry), disturbed : BOOLEAN]

PoolTypes ==
  /\ pool \in Seq(PoolEntry) /\ registrations \in Nat
  /\ sweeps \in [Sweepers -> Sweep]

\* No backend in this list is yet to be registered.
Known(entries, count) == \A i \in DOMAIN entries : entries[i].backend <= count

\* Where an undisturbed sweep stands: the pool still begins with the entries
\* the sweep began with, and it has visited the first of them in their order.
OnItsWay(sweep, entries) ==
  /\ sweep.size = Len(sweep.begun) /\ Len(sweep.begun) <= Len(entries)
  /\ \A i \in DOMAIN sweep.begun : entries[i] = sweep.begun[i]
  /\ Len(sweep.visited) <= Len(sweep.begun)
  /\ \A i \in DOMAIN sweep.visited : sweep.visited[i] = sweep.begun[i]

\* What SweepsAreWhole asks of one that has returned.
IsWhole(sweep, entries) ==
  /\ sweep.visited = sweep.begun
  /\ sweep.kind = "close" => ToSet(sweep.visited) \cap ToSet(entries) = {}

SweepFits(sweep, entries) ==
  ~sweep.disturbed =>
    /\ sweep.status = "awaiting" => OnItsWay(sweep, entries)
    /\ sweep.status = "returned" => IsWhole(sweep, entries)

PoolInv ==
  /\ PoolTypes /\ Known(pool, registrations)
  /\ \A t \in Sweepers :
       Known(sweeps[t].visited, registrations) /\ SweepFits(sweeps[t], pool)

\* It holds at first.
LEMMA PoolInvInit == PoolInit => PoolInv
  <1> SUFFICES ASSUME PoolInit PROVE PoolInv
    OBVIOUS
  <1>1. NoSweep \in Sweep
    BY DEF NoSweep, Sweep
  <1>2. PoolTypes
    BY <1>1 DEF PoolInit, PoolTypes
  <1> QED
    BY <1>2 DEF PoolInit, PoolInv, Known, SweepFits, NoSweep

\* What becomes of the sweeps when an entry is replaced, or all are removed.
LEMMA DisturbedSweeps ==
  ASSUME PoolTypes
  PROVE  /\ Disturbed \in [Sweepers -> Sweep]
         /\ \A t \in Sweepers :
              /\ Disturbed[t].status = sweeps[t].status /\ Disturbed[t].kind = sweeps[t].kind
              /\ Disturbed[t].visited = sweeps[t].visited
              /\ Disturbed[t].begun = sweeps[t].begun
              /\ ~Disturbed[t].disturbed =>
                   ~sweeps[t].disturbed /\ sweeps[t].status # "awaiting"
  BY DEF PoolTypes, Disturbed, Sweep

\* The numbers of known backends.
LEMMA KnownNumbers ==
  ASSUME NEW list \in Seq(PoolEntry), NEW count \in Nat, Known(list, count)
  PROVE  \A i \in DOMAIN list : list[i].backend \in Nat /\ list[i].backend <= count
  <1>1. \A i \in DOMAIN list : list[i] \in PoolEntry
    OBVIOUS
  <1> QED
    BY <1>1 DEF Known, PoolEntry

\* An entry is new to a list of known ones.
LEMMA NewEntry ==
  ASSUME PoolTypes, NEW list \in Seq(PoolEntry), Known(list, registrations),
         NEW entry, entry.backend = registrations + 1
  PROVE  entry \notin ToSet(list) /\ Known(list, registrations + 1)
  <1>1. \A i \in DOMAIN list : list[i].backend \in Nat /\ list[i].backend <= registrations
    BY KnownNumbers DEF PoolTypes
  <1> QED
    BY <1>1 DEF PoolTypes, Known, ToSet

\* A backend is registered.
LEMMA RegisterBackendPreserves ==
  ASSUME NEW model \in ModelIds, PoolInv, RegisterBackend(model)
  PROVE  PoolInv'
  <1> DEFINE entry == [model |-> model, backend |-> registrations + 1]
             known == {i \in DOMAIN pool : pool[i].model = model}
  <1>1. PoolTypes /\ registrations' = registrations + 1 /\ registrations \in Nat
    BY DEF RegisterBackend, PoolInv, PoolTypes
  <1>2. entry \in PoolEntry /\ entry.backend = registrations + 1
    BY <1>1 DEF PoolEntry
  <1>3. \A t \in Sweepers : sweeps[t] \in Sweep /\ sweeps[t].visited \in Seq(PoolEntry)
    BY <1>1 DEF PoolTypes, Sweep
  <1>4. \A t \in Sweepers : entry \notin ToSet(sweeps[t].visited)
                            /\ Known(sweeps[t].visited, registrations')
    BY <1>1, <1>2, <1>3, NewEntry DEF PoolInv
  <1>5. CASE known = {}
    <2>1. pool' = Append(pool, entry) /\ sweeps' = sweeps
      BY <1>5 DEF RegisterBackend
    <2> HIDE DEF entry
    <2>2. /\ pool \in Seq(PoolEntry) /\ pool' \in Seq(PoolEntry) /\ Len(pool') = Len(pool) + 1
          /\ \A i \in DOMAIN pool : pool'[i] = pool[i] /\ i \in DOMAIN pool'
          /\ \A i \in DOMAIN pool' : i \in DOMAIN pool \/ pool'[i] = entry
          /\ Len(pool) \in Nat /\ DOMAIN pool = 1 .. Len(pool)
      BY <1>1, <1>2, <2>1 DEF PoolTypes
    <2>3. Known(pool', registrations')
      <3>1. \A i \in DOMAIN pool : pool[i].backend \in Nat /\ pool[i].backend <= registrations
        BY <1>1, <2>2, KnownNumbers DEF PoolInv
      <3> QED
        BY <1>1, <1>2, <2>2, <3>1 DEF Known
    <2>4. ToSet(pool') \subseteq ToSet(pool) \cup {entry}
      BY <2>2 DEF ToSet
    <2>5. ASSUME NEW t \in Sweepers PROVE SweepFits(sweeps[t], pool')
      <3>1. SweepFits(sweeps[t], pool)
        BY DEF PoolInv
      <3>2. OnItsWay(sweeps[t], pool) => OnItsWay(sweeps[t], pool')
        <4>1. /\ sweeps[t].begun \in Seq(PoolEntry)
              /\ DOMAIN sweeps[t].begun = 1 .. Len(sweeps[t].begun)
              /\ Len(sweeps[t].begun) \in Nat
          BY <1>3 DEF Sweep
        <4> QED
          BY <2>2, <4>1 DEF OnItsWay
      <3>3. IsWhole(sweeps[t], pool) => IsWhole(sweeps[t], pool')
        BY <1>4, <2>4 DEF IsWhole
      <3> QED
        BY <3>1, <3>2, <3>3 DEF SweepFits
    <2>6. PoolTypes'
      BY <1>1, <2>1, <2>2 DEF PoolTypes
    <2> QED
      BY <1>4, <2>1, <2>3, <2>5, <2>6 DEF PoolInv
  <1>6. CASE known # {}
    <2>1. pool' = [i \in DOMAIN pool |-> IF i \in known THEN entry ELSE pool[i]]
          /\ sweeps' = Disturbed
      BY <1>6 DEF RegisterBackend
    <2> HIDE DEF entry, known
    <2>2. /\ pool \in Seq(PoolEntry) /\ pool' \in Seq(PoolEntry) /\ DOMAIN pool' = DOMAIN pool
          /\ \A i \in DOMAIN pool' : pool'[i] = entry \/ pool'[i] = pool[i]
      BY <1>1, <1>2, <2>1 DEF PoolTypes
    <2>3. Known(pool', registrations')
      <3>1. \A i \in DOMAIN pool : pool[i].backend \in Nat /\ pool[i].backend <= registrations
        BY <1>1, <2>2, KnownNumbers DEF PoolInv
      <3> QED
        BY <1>1, <1>2, <2>2, <3>1 DEF Known
    <2>4. ToSet(pool') \subseteq ToSet(pool) \cup {entry}
      BY <2>2 DEF ToSet
    <2>5. ASSUME NEW t \in Sweepers
          PROVE  Known(sweeps'[t].visited, registrations') /\ SweepFits(sweeps'[t], pool')
      <3>1. SweepFits(sweeps[t], pool)
        BY DEF PoolInv
      <3>2. IsWhole(sweeps[t], pool) => IsWhole(sweeps'[t], pool')
        BY <1>1, <1>4, <2>1, <2>4, DisturbedSweeps DEF IsWhole
      <3> QED
        BY <1>1, <1>4, <2>1, <3>1, <3>2, DisturbedSweeps DEF SweepFits
    <2>6. PoolTypes'
      BY <1>1, <2>1, <2>2, DisturbedSweeps DEF PoolTypes
    <2> QED
      BY <2>3, <2>5, <2>6 DEF PoolInv
  <1> QED
    BY <1>5, <1>6

\* One sweep goes on to a state that fits; the pool and the others stay.
LEMMA OneSweepGoesOn ==
  ASSUME PoolInv, NEW t \in Sweepers, NEW next \in Sweep,
         sweeps' = [sweeps EXCEPT ![t] = next], UNCHANGED << pool, registrations >>,
         Known(next.visited, registrations), SweepFits(next, pool)
  PROVE  PoolInv'
  <1>1. PoolTypes'
    BY DEF PoolInv, PoolTypes
  <1>2. \A u \in Sweepers : sweeps'[u] = IF u = t THEN next ELSE sweeps[u]
    BY DEF PoolInv, PoolTypes
  <1> QED
    BY <1>1, <1>2 DEF PoolInv

\* The next turn of a sweep that is on its way, or was disturbed.
LEMMA NextTurnPreserves ==
  ASSUME PoolInv, NEW t \in Sweepers, NEW sweep \in Sweep, NextTurn(t, sweep),
         UNCHANGED registrations, Known(sweep.visited, registrations),
         sweep.disturbed \/ OnItsWay(sweep, pool)
  PROVE  PoolInv'
  <1> DEFINE position == Len(sweep.visited) + 1
             raised == [sweep EXCEPT !.status = "raised"]
             visiting == [sweep EXCEPT !.status = "awaiting",
                                       !.visited = Append(@, pool[position])]
             returned == [sweep EXCEPT !.status = "returned"]
  <1>1. /\ sweep.visited \in Seq(PoolEntry) /\ sweep.begun \in Seq(PoolEntry)
        /\ sweep.size \in Nat /\ sweep.disturbed \in BOOLEAN
        /\ pool \in Seq(PoolEntry) /\ registrations \in Nat /\ position \in Nat
        /\ Len(sweep.visited) \in Nat /\ Len(sweep.begun) \in Nat /\ Len(pool) \in Nat
        /\ DOMAIN sweep.visited = 1 .. Len(sweep.visited)
        /\ DOMAIN sweep.begun = 1 .. Len(sweep.begun) /\ DOMAIN pool = 1 .. Len(pool)
    BY DEF PoolInv, PoolTypes, Sweep
  <1>2. CASE sweeps' = [sweeps EXCEPT ![t] = raised] /\ UNCHANGED pool
    <2>1. raised \in Sweep /\ raised.status = "raised" /\ raised.visited = sweep.visited
      BY DEF Sweep
    <2>2. SweepFits(raised, pool)
      BY <2>1 DEF SweepFits
    <2> HIDE DEF raised
    <2> QED
      BY <1>2, <2>1, <2>2, OneSweepGoesOn
  <1>3. CASE /\ Len(pool) = sweep.size /\ position <= sweep.size
             /\ sweeps' = [sweeps EXCEPT ![t] = visiting] /\ UNCHANGED pool
    <2>1. position \in DOMAIN pool /\ pool[position] \in PoolEntry
      BY <1>1, <1>3
    <2>2. /\ visiting.status = "awaiting" /\ visiting.visited = Append(sweep.visited, pool[position])
          /\ visiting.begun = sweep.begun /\ visiting.size = sweep.size
          /\ visiting.disturbed = sweep.disturbed
      BY DEF Sweep
    <2>3. Append(sweep.visited, pool[position]) \in Seq(PoolEntry)
      BY <1>1, <2>1
    <2>4. visiting \in Sweep
      BY <2>3 DEF Sweep
    <2> HIDE DEF visiting
    <2>5. /\ Len(visiting.visited) = position /\ visiting.visited[position] = pool[position]
          /\ DOMAIN visiting.visited = 1 .. position
          /\ \A i \in 1 .. position : i = position \/ i \in DOMAIN sweep.visited
          /\ \A i \in DOMAIN sweep.visited : visiting.visited[i] = sweep.visited[i]
      BY <1>1, <2>1, <2>2
    <2>6. Known(visiting.visited, registrations)
      <3>1. pool[position].backend <= registrations
        BY <2>1 DEF PoolInv, Known
      <3> HIDE DEF position
      <3> QED
        BY <2>5, <3>1 DEF Known
    <2>7. SweepFits(visiting, pool)
      <3> SUFFICES ASSUME ~visiting.disturbed PROVE OnItsWay(visiting, pool)
        BY <2>2 DEF SweepFits
      <3>1. OnItsWay(sweep, pool)
        BY <2>2
      <3>2. position <= Len(sweep.begun) /\ position \in DOMAIN sweep.begun
        BY <1>1, <1>3, <3>1 DEF OnItsWay
      <3> HIDE DEF position
      <3> QED
        BY <2>2, <2>5, <3>1, <3>2 DEF OnItsWay
    <2> QED
      BY <1>3, <2>4, <2>6, <2>7, OneSweepGoesOn
  <1>4. ASSUME Len(pool) = sweep.size, position > sweep.size, ~sweep.disturbed
        PROVE  sweep.visited = sweep.begun
    <2>1. OnItsWay(sweep, pool)
      BY <1>4
    <2>2. Len(sweep.visited) = Len(sweep.begun)
      BY <1>1, <1>4, <2>1 DEF OnItsWay
    <2> QED
      BY <1>1, <2>1, <2>2, SeqEqual DEF OnItsWay
  <1>5. /\ returned \in Sweep /\ returned.status = "returned" /\ returned.kind = sweep.kind
        /\ returned.visited = sweep.visited /\ returned.begun = sweep.begun
        /\ returned.disturbed = sweep.disturbed
    BY DEF Sweep
  <1> HIDE DEF returned
  <1>6. CASE /\ Len(pool) = sweep.size /\ position > sweep.size /\ sweep.kind = "health"
             /\ sweeps' = [sweeps EXCEPT ![t] = returned] /\ UNCHANGED pool
    <2>1. SweepFits(returned, pool)
      BY <1>4, <1>5, <1>6 DEF SweepFits, IsWhole
    <2> QED
      BY <1>5, <1>6, <2>1, OneSweepGoesOn
  <1>7. CASE /\ Len(pool) = sweep.size /\ position > sweep.size /\ sweep.kind = "close"
             /\ ClearEntries(t, returned)
    <2>1. pool' = << >> /\ sweeps' = [Disturbed EXCEPT ![t] = returned] /\ ToSet(<< >>) = {}
      BY <1>7 DEF ClearEntries, ToSet
    <2>2. \A u \in Sweepers : sweeps'[u] = IF u = t THEN returned ELSE Disturbed[u]
      BY <2>1, DisturbedSweeps DEF PoolInv
    <2>3. PoolTypes'
      BY <1>5, <2>1, DisturbedSweeps DEF PoolInv, PoolTypes
    <2>4. Known(pool', registrations')
      BY <2>1 DEF Known
    <2>5. Known(returned.visited, registrations) /\ SweepFits(returned, pool')
      BY <1>4, <1>5, <1>7, <2>1 DEF SweepFits, IsWhole
    <2>6. ASSUME NEW u \in Sweepers
          PROVE  Known(Disturbed[u].visited, registrations) /\ SweepFits(Disturbed[u], pool')
      <3>1. Known(sweeps[u].visited, registrations) /\ SweepFits(sweeps[u], pool) /\ PoolTypes
        BY DEF PoolInv
      <3> QED
        BY <2>1, <3>1, DisturbedSweeps DEF SweepFits, IsWhole
    <2> QED
      BY <2>2, <2>3, <2>4, <2>5, <2>6 DEF PoolInv
  <1> QED
    BY <1>2, <1>3, <1>6, <1>7 DEF NextTurn, returned

\* A sweep begins.
LEMMA BeginSweepPreserves ==
  ASSUME PoolInv, NEW t \in Sweepers, NEW kind \in {"health", "close"}, BeginSweep(t, kind)
  PROVE  PoolInv'
  <1> DEFINE sweep == [NoSweep EXCEPT !.kind = kind, !.size = Len(pool), !.begun = pool]
  <1>1. NextTurn(t, sweep) /\ UNCHANGED registrations
    BY DEF BeginSweep
  <1>2. pool \in Seq(PoolEntry) /\ Len(pool) \in Nat /\ << >> \in Seq(PoolEntry)
    BY DEF PoolInv, PoolTypes
  <1>3. sweep.visited = << >> /\ sweep.begun = pool /\ sweep.size = Len(pool) /\ sweep \in Sweep
    BY <1>2 DEF NoSweep, Sweep
  <1> HIDE DEF sweep
  <1>4. Known(sweep.visited, registrations) /\ OnItsWay(sweep, pool)
    BY <1>2, <1>3 DEF Known, OnItsWay
  <1> QED
    BY <1>1, <1>3, <1>4, NextTurnPreserves

\* The awaited backend answers or raises.
LEMMA BackendAnswersPreserves ==
  ASSUME PoolInv, NEW t \in Sweepers, NEW ok \in BOOLEAN, BackendAnswers(t, ok)
  PROVE  PoolInv'
  <1>1. sweeps[t].status = "awaiting" /\ NextTurn(t, sweeps[t]) /\ UNCHANGED registrations
    BY DEF BackendAnswers
  <1>2. sweeps[t] \in Sweep /\ Known(sweeps[t].visited, registrations)
        /\ SweepFits(sweeps[t], pool)
    BY DEF PoolInv, PoolTypes
  <1>3. sweeps[t].disturbed \/ OnItsWay(sweeps[t], pool)
    BY <1>1, <1>2 DEF SweepFits
  <1> QED
    BY <1>1, <1>2, <1>3, NextTurnPreserves

\* Every step preserves the invariant.
LEMMA PoolInvNext == PoolInv /\ [PoolNext]_poolVars => PoolInv'
  <1> SUFFICES ASSUME PoolInv, [PoolNext]_poolVars PROVE PoolInv'
    OBVIOUS
  <1>1. CASE UNCHANGED poolVars
    BY <1>1 DEF poolVars, PoolInv, PoolTypes
  <1>2. ASSUME NEW model \in ModelIds, RegisterBackend(model) PROVE PoolInv'
    BY <1>2, RegisterBackendPreserves
  <1>3. ASSUME NEW t \in Sweepers, NEW kind \in {"health", "close"}, BeginSweep(t, kind)
        PROVE  PoolInv'
    BY <1>3, BeginSweepPreserves
  <1>4. ASSUME NEW t \in Sweepers, NEW ok \in BOOLEAN, BackendAnswers(t, ok) PROVE PoolInv'
    BY <1>4, BackendAnswersPreserves
  <1> QED
    BY <1>1, <1>2, <1>3, <1>4 DEF PoolNext

\* The invariant implies that sweeps are whole.
LEMMA PoolInvWhole == PoolInv => SweepsAreWhole
  BY DEF PoolInv, SweepFits, IsWhole, SweepsAreWhole

-----------------------------------------------------------------------------
(* Orders of keys *)

\* A key that is put last comes after all others, whose order stays.
LEMMA AsLastOrders ==
  ASSUME NEW order, NEW keys, NEW key, Orders(order, keys)
  PROVE  /\ Orders(AsLast(order, key), keys \cup {key})
         /\ AsLast(order, key)[key] = keys \ {key}
         /\ \A other \in keys \ {key} : AsLast(order, key)[other] = order[other] \ {key}
  <1> DEFINE new == AsLast(order, key)
  <1>1. /\ DOMAIN new = keys \cup {key} /\ new[key] = keys \ {key}
        /\ \A other \in keys \ {key} : new[other] = order[other] \ {key}
    BY DEF AsLast, Orders
  <1> HIDE DEF new
  <1>2. Orders(new, keys \cup {key})
    BY <1>1 DEF Orders
  <1> QED
    BY <1>1, <1>2 DEF new

\* Keys that are forgotten leave the order of the others as it is.
LEMMA ForgetOrders ==
  ASSUME NEW order, NEW keys, NEW gone, Orders(order, keys)
  PROVE  /\ Orders(Forget(order, gone), keys \ gone)
         /\ \A key \in keys \ gone : Forget(order, gone)[key] = order[key] \ gone
  <1> DEFINE new == Forget(order, gone)
  <1>1. /\ DOMAIN new = keys \ gone
        /\ \A key \in keys \ gone : new[key] = order[key] \ gone
    BY DEF Forget, Orders
  <1> HIDE DEF new
  <1>2. Orders(new, keys \ gone)
    BY <1>1 DEF Orders
  <1> QED
    BY <1>1, <1>2 DEF new

\* Among finitely many keys one is the first.
LEMMA FirstOfSome ==
  ASSUME NEW order, NEW keys, NEW some, Orders(order, keys), IsFiniteSet(keys),
         some \subseteq keys, some # {}
  PROVE  First(order, some) \in some /\ order[First(order, some)] \cap some = {}
  <1> DEFINE C == {order[key] \cap some : key \in some}
  <1>1. C \in SUBSET (SUBSET keys) /\ C # {}
    <2>1. \A key \in some : order[key] \cap some \subseteq keys
      OBVIOUS
    <2> QED
      BY <2>1
  <1>2. PICK s \in C : \A t \in C : t \subseteq s => t = s
    <2> HIDE DEF C
    <2> QED
      BY <1>1, MinimalSet
  <1>3. PICK key \in some : s = order[key] \cap some
    OBVIOUS
  <1>4. order[key] \cap some = {}
    <2> SUFFICES ASSUME NEW other \in order[key] \cap some PROVE FALSE
      OBVIOUS
    <2>1. order[other] \cap some \subseteq s /\ order[other] \cap some \in C
      BY <1>3 DEF Orders
    <2>2. other \notin order[other] /\ other \in s
      BY <1>3 DEF Orders
    <2> QED
      BY <1>2, <2>1, <2>2
  <1> QED
    BY <1>4 DEF First

-----------------------------------------------------------------------------
(* The caches *)

ExactInv ==
  /\ DOMAIN exact \subseteq Keys /\ \A key \in DOMAIN exact : exact[key] \in Entries
  /\ IsFiniteSet(DOMAIN exact) /\ Cardinality(DOMAIN exact) <= MaxEntries
  /\ Orders(recency, DOMAIN exact)

PrefixInv ==
  /\ DOMAIN prefixes \subseteq Texts
  /\ \A text \in DOMAIN prefixes : prefixes[text] \in 0 .. MaxUses
  /\ IsFiniteSet(DOMAIN prefixes) /\ Cardinality(DOMAIN prefixes) <= MaxPrefixes
  /\ Orders(insertion, DOMAIN prefixes)

EmbeddingInv ==
  /\ embeddings \in Seq(Texts) /\ IsInjective(embeddings)
  /\ Len(embeddings) <= Max({1, MaxEmbeddings})

\* What is cached is what was stored last, for a request with this key.
WrittenInv ==
  \A key \in DOMAIN exact :
    /\ key \in DOMAIN written
    /\ written[key] = [request |-> written[key].request, entry |-> exact[key]]
    /\ Key(written[key].request) = key

\* A cached key that others follow in the order was not used since they were.
SinceInv ==
  /\ DOMAIN exact \subseteq DOMAIN since
  /\ \A key \in DOMAIN since : IsFiniteSet(since[key])
  /\ \A key, other \in DOMAIN exact : key \in recency[other] => other \in since[key]

CachingInv ==
  /\ object \in {"service", "embeddings"}
  /\ ExactInv /\ PrefixInv /\ EmbeddingInv /\ WrittenInv /\ SinceInv
  /\ HitsAreCurrent /\ RecentlyUsedIsKept

\* The invariant has the types in it.
LEMMA CachingInvTypes == CachingInv => CachingTypeOK
  <1> SUFFICES ASSUME CachingInv PROVE CachingTypeOK
    OBVIOUS
  <1>1. Range(exact) \subseteq Entries /\ Range(prefixes) \subseteq 0 .. MaxUses
    BY DEF CachingInv, ExactInv, PrefixInv, Range
  <1>2. ToSet(embeddings) \subseteq Texts
    BY DEF CachingInv, EmbeddingInv, ToSet
  <1> QED
    BY <1>1, <1>2 DEF CachingInv, ExactInv, PrefixInv, EmbeddingInv, CachingTypeOK

\* The larger and the smaller of two numbers.
LEMMA LargerOfTwo ==
  ASSUME NEW m \in Nat, NEW n \in Nat
  PROVE  /\ Max({m, n}) \in Nat /\ Max({m, n}) >= m /\ Max({m, n}) >= n
         /\ Min({m, n}) \in {m, n} /\ Min({m, n}) <= n
  <1>1. \E x \in {m, n} : \A y \in {m, n} : x >= y
    BY m >= n \/ n >= m
  <1>2. \E x \in {m, n} : \A y \in {m, n} : x <= y
    BY m >= n \/ n >= m
  <1>3. Max({m, n}) \in {m, n} /\ \A y \in {m, n} : Max({m, n}) >= y
    BY <1>1 DEF Max
  <1>4. Min({m, n}) \in {m, n} /\ \A y \in {m, n} : Min({m, n}) <= y
    BY <1>2 DEF Min
  <1> QED
    BY <1>3, <1>4

\* It holds of empty caches.
LEMMA CachingInvInit == CachingInit => CachingInv
  <1> SUFFICES ASSUME CachingInit PROVE CachingInv
    OBVIOUS
  <1> USE DEF CachingInit
  <1>1. /\ DOMAIN << >> = {} /\ IsFiniteSet({}) /\ Cardinality({}) = 0
        /\ {MaxEntries, MaxPrefixes, MaxEmbeddings} \subseteq Nat
    BY FS_EmptySet, CachingAssumption
  <1>2. Orders(<< >>, {})
    BY <1>1 DEF Orders
  <1>3. ExactInv /\ PrefixInv
    BY <1>1, <1>2 DEF ExactInv, PrefixInv
  <1>4. EmbeddingInv
    <2>1. Max({1, MaxEmbeddings}) \in Nat
      BY <1>1, LargerOfTwo
    <2> QED
      BY <1>1, <2>1 DEF EmbeddingInv, IsInjective
  <1>5. WrittenInv /\ SinceInv /\ HitsAreCurrent /\ RecentlyUsedIsKept
    BY <1>1 DEF WrittenInv, SinceInv, HitsAreCurrent, RecentlyUsedIsKept
  <1> QED
    BY <1>3, <1>4, <1>5 DEF CachingInv

-----------------------------------------------------------------------------
(* The exact tier *)

\* A use is one more for every key but the one used.
LEMMA UseGrows ==
  ASSUME SinceInv, NEW key
  PROVE  /\ DOMAIN Use(key) = DOMAIN since \cup {key} /\ Use(key)[key] = {}
         /\ \A other \in DOMAIN since \ {key} :
              /\ Use(key)[other] = since[other] \cup {key}
              /\ IsFiniteSet(Use(key)[other])
              /\ Cardinality(since[other]) \in Nat /\ Cardinality(Use(key)[other]) \in Nat
              /\ Cardinality(since[other]) <= Cardinality(Use(key)[other])
  <1>1. /\ DOMAIN Use(key) = DOMAIN since \cup {key} /\ Use(key)[key] = {}
        /\ \A other \in DOMAIN since \ {key} : Use(key)[other] = since[other] \cup {key}
    BY DEF Use
  <1>2. ASSUME NEW other \in DOMAIN since \ {key}
        PROVE  LET used == since[other] \cup {key}
               IN  /\ IsFiniteSet(used)
                   /\ Cardinality(since[other]) \in Nat /\ Cardinality(used) \in Nat
                   /\ Cardinality(since[other]) <= Cardinality(used)
    <2>1. IsFiniteSet(since[other])
      BY DEF SinceInv
    <2> DEFINE used == since[other] \cup {key}
    <2>2. IsFiniteSet(used)
          /\ Cardinality(used) \in {Cardinality(since[other]), Cardinality(since[other]) + 1}
      BY <2>1, FS_AddElement
    <2>3. Cardinality(since[other]) \in Nat
      BY <2>1, FS_CardinalityType
    <2> HIDE DEF used
    <2>4. Cardinality(used) \in Nat /\ Cardinality(since[other]) <= Cardinality(used)
      BY <2>2, <2>3
    <2> QED
      BY <2>2, <2>3, <2>4 DEF used
  <1> QED
    BY <1>1, <1>2

\* What a use of a key that is cached, and then the latest, does to the
\* history: `keys` is what is cached afterwards.
LEMMA UsedKeyIsLast ==
  ASSUME ExactInv, SinceInv, NEW key, since' = Use(key), NEW order, order = Touched(key)
  PROVE  /\ Orders(order, DOMAIN exact \cup {key})
         /\ order[key] = DOMAIN exact \ {key}
         /\ DOMAIN exact \cup {key} \subseteq DOMAIN since'
         /\ \A other \in DOMAIN since' : IsFiniteSet(since'[other])
         /\ \A one, other \in DOMAIN exact \cup {key} :
              one \in order[other] => other \in since'[one]
  <1>1. /\ Orders(order, DOMAIN exact \cup {key})
        /\ order[key] = DOMAIN exact \ {key}
        /\ \A other \in DOMAIN exact \ {key} : order[other] = recency[other] \ {key}
    BY AsLastOrders DEF Touched, ExactInv
  <1>2. DOMAIN exact \cup {key} \subseteq DOMAIN since'
        /\ \A other \in DOMAIN since' : IsFiniteSet(since'[other])
    <2>1. DOMAIN since' = DOMAIN since \cup {key} /\ since'[key] = {} /\ IsFiniteSet({})
      BY UseGrows, FS_EmptySet
    <2>2. \A other \in DOMAIN since \ {key} : IsFiniteSet(since'[other])
      BY UseGrows
    <2> QED
      BY <2>1, <2>2 DEF SinceInv
  <1>3. ASSUME NEW one \in DOMAIN exact \cup {key}, NEW other \in DOMAIN exact \cup {key},
               one \in order[other]
        PROVE  other \in since'[one]
    <2>1. one # key
      BY <1>1, <1>3
    <2>2. one \in DOMAIN exact /\ one \in DOMAIN since \ {key}
      BY <2>1 DEF SinceInv
    <2>3. since'[one] = since[one] \cup {key}
      BY <2>2, UseGrows
    <2>4. other = key \/ other \in since[one]
      BY <1>1, <1>3, <2>2 DEF SinceInv
    <2> QED
      BY <2>3, <2>4
  <1> QED
    BY <1>1, <1>2, <1>3

\* A hit.
LEMMA GetHitPreserves ==
  ASSUME CachingInv, NEW req \in Requests, GetHit(req), UNCHANGED << object, embeddings >>
  PROVE  CachingInv'
  <1> DEFINE key == Key(req)
  <1> USE DEF CachingInv, GetHit
  <1>1. DOMAIN exact \cup {key} = DOMAIN exact /\ key \in DOMAIN exact
    OBVIOUS
  <1>2. /\ Orders(recency', DOMAIN exact)
        /\ DOMAIN exact \subseteq DOMAIN since'
        /\ \A other \in DOMAIN since' : IsFiniteSet(since'[other])
        /\ \A one, other \in DOMAIN exact : one \in recency'[other] => other \in since'[one]
    BY <1>1, UsedKeyIsLast
  <1>3. ExactInv' /\ SinceInv'
    BY <1>2 DEF ExactInv, SinceInv
  <1>4. PrefixInv' /\ EmbeddingInv' /\ WrittenInv'
    BY DEF PrefixInv, EmbeddingInv, WrittenInv
  <1>5. HitsAreCurrent'
    <2>1. /\ key \in DOMAIN written /\ written[key].entry = exact[key]
          /\ Key(written[key].request) = key
      <3> HIDE DEF key
      <3>1. /\ key \in DOMAIN written
            /\ written[key] = [request |-> written[key].request, entry |-> exact[key]]
            /\ Key(written[key].request) = key
        BY <1>1 DEF WrittenInv
      <3> QED
        BY <3>1
    <2>2. exact[key].age <= exact[key].ttl
      <3>1. exact[key] \in Entries
        BY <1>1 DEF ExactInv
      <3>2. exact[key].age \in 0 .. MaxAge /\ exact[key].ttl \in 0 .. MaxAge
        BY <3>1 DEF Entries
      <3> QED
        BY <3>2, CachingAssumption DEF IsExpired
    <2>3. reply'[1] = req /\ reply'[2] = exact[key].answer /\ written' = written
      OBVIOUS
    <2>4. written[key].request.text = req.text /\ written[key].request.keyed = req.keyed
      BY <2>1 DEF Key
    <2> QED
      BY <2>1, <2>2, <2>3, <2>4 DEF HitsAreCurrent
  <1>6. RecentlyUsedIsKept'
    <2> SUFFICES ASSUME NEW other \in DOMAIN since', Cardinality(since'[other]) < MaxEntries
                 PROVE  other \in DOMAIN exact
      BY DEF RecentlyUsedIsKept
    <2>1. CASE other = key
      BY <1>1, <2>1
    <2>2. CASE other # key
      <3>1. other \in DOMAIN since \ {key}
        <4>1. DOMAIN since' = DOMAIN since \cup {key}
          BY UseGrows
        <4> QED
          BY <2>2, <4>1
      <3>2. Cardinality(since[other]) < MaxEntries
        <4>1. /\ Cardinality(since[other]) \in Nat /\ Cardinality(since'[other]) \in Nat
              /\ Cardinality(since[other]) <= Cardinality(since'[other]) /\ MaxEntries \in Nat
          BY <3>1, UseGrows, CachingAssumption
        <4> QED
          BY <4>1
      <3> QED
        BY <3>1, <3>2 DEF RecentlyUsedIsKept
    <2> QED
      BY <2>1, <2>2
  <1> QED
    BY <1>3, <1>4, <1>5, <1>6

\* What is dropped when there is one key too many makes room.
LEMMA RoomIsMade ==
  ASSUME NEW keys, IsFiniteSet(keys), NEW n \in Nat, Cardinality(keys) <= n + 1,
         NEW victim \in keys, NEW dropped,
         dropped = IF Cardinality(keys) > n THEN {victim} ELSE {}
  PROVE  IsFiniteSet(keys \ dropped) /\ Cardinality(keys \ dropped) <= n
  <1>1. IsFiniteSet(keys \ {victim}) /\ Cardinality(keys \ {victim}) = Cardinality(keys) - 1
        /\ Cardinality(keys) \in Nat
    BY FS_RemoveElement, FS_CardinalityType
  <1>2. CASE Cardinality(keys) > n
    BY <1>1, <1>2
  <1>3. CASE ~(Cardinality(keys) > n)
    <2>1. keys \ dropped = keys
      BY <1>3
    <2> QED
      BY <1>1, <1>3, <2>1
  <1> QED
    BY <1>2, <1>3

\* A response is stored, and the key unused for longest leaves a full cache.
LEMMA SetPreserves ==
  ASSUME CachingInv, NEW req \in Requests, Set(req), UNCHANGED << object, embeddings >>
  PROVE  CachingInv'
  <1> USE DEF CachingInv
  <1>1. PICK answer \in Answers, ttl \in 0 .. MaxAge :
          LET key == Key(req)
              entry == [answer |-> answer, age |-> 0, ttl |-> ttl]
              larger == With(exact, key, entry)
              order == Touched(key)
              evicted == IF IsOverfull(larger) THEN {First(order, DOMAIN order)} ELSE {}
          IN  /\ exact' = Without(larger, evicted)
              /\ recency' = Forget(order, evicted)
              /\ written' =
                   Without(With(written, key, [request |-> req, entry |-> entry]), evicted)
    BY DEF Set
  <1> DEFINE key == Key(req)
             entry == [answer |-> answer, age |-> 0, ttl |-> ttl]
             larger == With(exact, key, entry)
             order == Touched(key)
             keys == DOMAIN exact \cup {key}
             victim == First(order, DOMAIN order)
             evicted == IF IsOverfull(larger) THEN {victim} ELSE {}
  <1>2. /\ since' = Use(key) /\ reply' = << >> /\ UNCHANGED << prefixes, insertion >>
    BY DEF Set
  <1>3. exact' = Without(larger, evicted) /\ recency' = Forget(order, evicted)
        /\ written' = Without(With(written, key, [request |-> req, entry |-> entry]), evicted)
    BY <1>1
  <1>4. /\ DOMAIN larger = keys /\ larger[key] = entry
        /\ \A other \in DOMAIN exact \ {key} : larger[other] = exact[other]
    BY DEF With
  <1>5. entry \in Entries
    BY CachingAssumption DEF Entries
  <1>6. /\ Orders(order, keys) /\ order[key] = DOMAIN exact \ {key}
        /\ keys \subseteq DOMAIN since'
        /\ \A other \in DOMAIN since' : IsFiniteSet(since'[other])
        /\ \A one, other \in keys : one \in order[other] => other \in since'[one]
    BY <1>2, UsedKeyIsLast
  <1>7. IsFiniteSet(keys) /\ Cardinality(keys) <= MaxEntries + 1 /\ Cardinality(keys) \in Nat
        /\ MaxEntries \in Nat
    <2>1. /\ IsFiniteSet(DOMAIN exact) /\ Cardinality(DOMAIN exact) \in Nat
          /\ Cardinality(DOMAIN exact) <= MaxEntries /\ MaxEntries \in Nat
      BY FS_CardinalityType, CachingAssumption DEF ExactInv
    <2>2. IsFiniteSet(keys)
          /\ Cardinality(keys) \in {Cardinality(DOMAIN exact), Cardinality(DOMAIN exact) + 1}
      BY <2>1, FS_AddElement
    <2> HIDE DEF keys
    <2> QED
      BY <2>1, <2>2
  <1>8. DOMAIN order = keys /\ (IsOverfull(larger) <=> Cardinality(keys) > MaxEntries)
    BY <1>4, <1>6 DEF Orders, IsOverfull
  <1> HIDE DEF entry, larger, order
  <1>9. victim \in keys /\ order[victim] \cap keys = {}
    BY <1>6, <1>7, <1>8, FirstOfSome
  <1> HIDE DEF victim, keys
  <1>10. evicted = IF Cardinality(keys) > MaxEntries THEN {victim} ELSE {}
    BY <1>8
  <1>11. IsFiniteSet(keys \ evicted) /\ Cardinality(keys \ evicted) <= MaxEntries
    BY <1>7, <1>9, <1>10, RoomIsMade
  <1> HIDE DEF evicted
  <1>12. /\ DOMAIN exact' = keys \ evicted
         /\ \A other \in keys \ evicted : exact'[other] = larger[other]
    BY <1>3, <1>4 DEF Without, keys
  <1>13. /\ Orders(recency', keys \ evicted)
         /\ \A other \in keys \ evicted : recency'[other] = order[other] \ evicted
    BY <1>3, <1>6, ForgetOrders
  <1>14. ExactInv'
    <2>1. key \in Keys
      BY DEF Keys
    <2> QED
      BY <1>4, <1>5, <1>11, <1>12, <1>13, <2>1 DEF ExactInv, keys
  <1>15. WrittenInv'
    <2> SUFFICES ASSUME NEW other \in keys \ evicted
                 PROVE  /\ other \in DOMAIN written'
                        /\ written'[other] = [request |-> written'[other].request,
                                             entry |-> larger[other]]
                        /\ Key(written'[other].request) = other
      BY <1>12 DEF WrittenInv
    <2>1. CASE other = key
      BY <1>3, <1>4, <2>1 DEF With, Without
    <2>2. CASE other # key
      <3>1. other \in DOMAIN exact /\ larger[other] = exact[other]
        BY <1>4, <2>2 DEF keys
      <3>2. /\ other \in DOMAIN written
            /\ written[other] = [request |-> written[other].request, entry |-> exact[other]]
            /\ Key(written[other].request) = other
        BY <3>1 DEF WrittenInv
      <3>3. other \in DOMAIN written' /\ written'[other] = written[other]
        BY <1>3, <2>2, <3>2 DEF With, Without
      <3> QED
        BY <3>1, <3>2, <3>3
    <2> QED
      BY <2>1, <2>2
  <1>16. SinceInv'
    BY <1>6, <1>12, <1>13 DEF SinceInv
  <1>17. PrefixInv' /\ EmbeddingInv' /\ HitsAreCurrent'
    BY <1>2 DEF PrefixInv, EmbeddingInv, HitsAreCurrent
  <1>18. RecentlyUsedIsKept'
    <2> SUFFICES ASSUME NEW other \in DOMAIN since', Cardinality(since'[other]) < MaxEntries,
                        other \notin keys \ evicted
                 PROVE  FALSE
      BY <1>12 DEF RecentlyUsedIsKept
    <2>1. CASE other \in keys
      <3>1. other = victim /\ Cardinality(keys) > MaxEntries
        BY <1>10, <2>1
      <3>2. keys \ {victim} \subseteq since'[victim]
        BY <1>6, <1>9 DEF Orders
      <3>3. Cardinality(keys \ {victim}) = Cardinality(keys) - 1
        BY <1>7, <1>9, FS_RemoveElement
      <3>4. IsFiniteSet(since'[victim])
        BY <3>1, <1>6
      <3>5. Cardinality(keys \ {victim}) <= Cardinality(since'[victim])
            /\ Cardinality(since'[victim]) \in Nat
        BY <3>2, <3>4, FS_Subset, FS_CardinalityType
      <3> QED
        BY <1>7, <3>1, <3>3, <3>5
    <2>2. CASE other \notin keys
      <3>1. other \in DOMAIN since \ {key} /\ other \notin DOMAIN exact
        BY <1>2, <2>2, UseGrows DEF keys
      <3>2. Cardinality(since[other]) < MaxEntries
        <4>1. /\ Cardinality(since[other]) \in Nat /\ Cardinality(since'[other]) \in Nat
              /\ Cardinality(since[other]) <= Cardinality(since'[other]) /\ MaxEntries \in Nat
          BY <1>2, <1>7, <3>1, UseGrows
        <4> QED
          BY <4>1
      <3> QED
        BY <3>1, <3>2 DEF RecentlyUsedIsKept
    <2> QED
      BY <2>1, <2>2
  <1> QED
    BY <1>14, <1>15, <1>16, <1>17, <1>18

\* Entries are invalidated.
LEMMA InvalidatePreserves ==
  ASSUME CachingInv, Invalidate, UNCHANGED << object, embeddings >>
  PROVE  CachingInv'
  <1> USE DEF CachingInv
  <1>1. PICK keys : /\ exact' = Without(exact, keys)
                     /\ recency' = Forget(recency, keys)
                     /\ written' = Without(written, keys)
                     /\ since' = Without(since, keys)
                     /\ reply' = << >>
                     /\ UNCHANGED << prefixes, insertion >>
    BY DEF Invalidate
  <1>2. /\ DOMAIN exact' = DOMAIN exact \ keys /\ DOMAIN written' = DOMAIN written \ keys
        /\ DOMAIN since' = DOMAIN since \ keys
        /\ \A key \in DOMAIN exact \ keys : exact'[key] = exact[key]
        /\ \A key \in DOMAIN written \ keys : written'[key] = written[key]
        /\ \A key \in DOMAIN since \ keys : since'[key] = since[key]
    BY <1>1 DEF Without
  <1>3. /\ Orders(recency', DOMAIN exact \ keys)
        /\ \A key \in DOMAIN exact \ keys : recency'[key] = recency[key] \ keys
    BY <1>1, ForgetOrders DEF ExactInv
  <1>4. IsFiniteSet(DOMAIN exact \ keys) /\ Cardinality(DOMAIN exact \ keys) <= MaxEntries
    <2>1. /\ IsFiniteSet(DOMAIN exact) /\ Cardinality(DOMAIN exact) \in Nat
          /\ Cardinality(DOMAIN exact) <= MaxEntries /\ MaxEntries \in Nat
      BY FS_CardinalityType, CachingAssumption DEF ExactInv
    <2>2. DOMAIN exact \ keys \in SUBSET DOMAIN exact
      OBVIOUS
    <2>3. IsFiniteSet(DOMAIN exact \ keys)
          /\ Cardinality(DOMAIN exact \ keys) <= Cardinality(DOMAIN exact)
      BY <2>1, <2>2, FS_Subset
    <2> QED
      BY <2>1, <2>3, FS_CardinalityType
  <1>5. ExactInv'
    BY <1>2, <1>3, <1>4 DEF ExactInv
  <1>6. WrittenInv'
    BY <1>2 DEF WrittenInv
  <1>7. SinceInv'
    BY <1>2, <1>3 DEF SinceInv
  <1>8. RecentlyUsedIsKept'
    BY <1>2 DEF RecentlyUsedIsKept
  <1>9. PrefixInv' /\ EmbeddingInv' /\ HitsAreCurrent'
    BY <1>1 DEF PrefixInv, EmbeddingInv, HitsAreCurrent
  <1> QED
    BY <1>5, <1>6, <1>7, <1>8, <1>9

\* Time passes: a cached entry and the last one stored grow old together.
LEMMA TickPreserves ==
  ASSUME CachingInv, Tick, UNCHANGED << object, embeddings >>
  PROVE  CachingInv'
  <1> USE DEF CachingInv
  <1> DEFINE Aged(entry) == [entry EXCEPT !.age = Min({@ + 1, MaxAge})]
  <1>1. /\ exact' = [key \in DOMAIN exact |-> Aged(exact[key])]
        /\ written' = [key \in DOMAIN written |-> [written[key] EXCEPT !.entry = Aged(@)]]
        /\ reply' = << >>
        /\ UNCHANGED << recency, prefixes, insertion, since >>
    BY DEF Tick
  <1>2. \A entry \in Entries : Aged(entry) \in Entries
    <2> SUFFICES ASSUME NEW entry \in Entries PROVE Aged(entry) \in Entries
      OBVIOUS
    <2>1. entry.age \in 0 .. MaxAge /\ MaxAge \in Nat
      BY CachingAssumption DEF Entries
    <2>2. Min({entry.age + 1, MaxAge}) \in {entry.age + 1, MaxAge}
          /\ Min({entry.age + 1, MaxAge}) <= MaxAge
      BY <2>1, LargerOfTwo
    <2>3. Min({entry.age + 1, MaxAge}) \in 0 .. MaxAge
      BY <2>1, <2>2
    <2> QED
      BY <2>3 DEF Entries
  <1> HIDE DEF Aged
  <1>3. ExactInv'
    BY <1>1, <1>2 DEF ExactInv
  <1>4. WrittenInv'
    <2> SUFFICES ASSUME NEW key \in DOMAIN exact
                 PROVE  /\ key \in DOMAIN written'
                        /\ written'[key] = [request |-> written'[key].request,
                                           entry |-> Aged(exact[key])]
                        /\ Key(written'[key].request) = key
      BY <1>1 DEF WrittenInv
    <2>1. /\ key \in DOMAIN written
          /\ written[key] = [request |-> written[key].request, entry |-> exact[key]]
          /\ Key(written[key].request) = key
      BY DEF WrittenInv
    <2>2. written'[key] = [request |-> written[key].request, entry |-> Aged(exact[key])]
      BY <1>1, <2>1
    <2> QED
      BY <1>1, <2>1, <2>2
  <1>5. SinceInv' /\ RecentlyUsedIsKept'
    BY <1>1 DEF SinceInv, RecentlyUsedIsKept
  <1>6. PrefixInv' /\ EmbeddingInv' /\ HitsAreCurrent'
    BY <1>1 DEF PrefixInv, EmbeddingInv, HitsAreCurrent
  <1> QED
    BY <1>3, <1>4, <1>5, <1>6

-----------------------------------------------------------------------------
(* The prefix tier *)

\* Nothing of the exact tier has changed, and no hit is reported.
ExactStays == UNCHANGED << object, exact, recency, embeddings, written, since >> /\ reply' = << >>

\* It is enough then that the prefixes are in order.
LEMMA ExactStaysKeeps ==
  ASSUME CachingInv, ExactStays, PrefixInv'
  PROVE  CachingInv'
  BY DEF CachingInv, ExactStays, ExactInv, EmbeddingInv, WrittenInv, SinceInv, HitsAreCurrent,
         RecentlyUsedIsKept

\* A miss counts a use of the first prefix that matches, if one does.
LEMMA GetMissPreserves ==
  ASSUME CachingInv, NEW req \in Requests, GetMiss(req), UNCHANGED << object, embeddings >>
  PROVE  /\ CachingInv'
         /\ DOMAIN prefixes' = DOMAIN prefixes
  <1> DEFINE matching == {prefix \in DOMAIN prefixes : StartsWith(req.text, prefix)}
             first == First(insertion, matching)
  <1>1. ExactStays /\ UsePrefix(req.text) /\ insertion' = insertion /\ PrefixInv
    BY DEF GetMiss, ExactStays, CachingInv
  <1>2. CASE matching = {} /\ UNCHANGED prefixes
    BY <1>1, <1>2, ExactStaysKeeps DEF PrefixInv
  <1>3. CASE /\ matching # {} /\ prefixes[first] < MaxUses
             /\ prefixes' = [prefixes EXCEPT ![first] = @ + 1]
    <2>1. first \in DOMAIN prefixes
      <3>1. matching \subseteq DOMAIN prefixes
        OBVIOUS
      <3> HIDE DEF matching
      <3> QED
        BY <1>1, <1>3, <3>1, FirstOfSome DEF PrefixInv
    <2> HIDE DEF first
    <2>2. /\ DOMAIN prefixes' = DOMAIN prefixes
          /\ \A other \in DOMAIN prefixes :
               prefixes'[other] = IF other = first THEN prefixes[first] + 1 ELSE prefixes[other]
      BY <1>3, <2>1
    <2>3. \A other \in DOMAIN prefixes' : prefixes'[other] \in 0 .. MaxUses
      BY <1>1, <1>3, <2>1, <2>2, CachingAssumption DEF PrefixInv
    <2>4. PrefixInv'
      BY <1>1, <2>2, <2>3 DEF PrefixInv
    <2> QED
      BY <1>1, <2>2, <2>4, ExactStaysKeeps
  <1> QED
    BY <1>1, <1>2, <1>3 DEF UsePrefix

\* What a prefix cache does to make room: of the prefixes with the new one
\* among them, one that was used least is dropped if there is one too many.
LEMMA StorePrefixDrops ==
  ASSUME PrefixInv, NEW text \in Texts, StorePrefix(text)
  PROVE  LET texts == DOMAIN prefixes \cup {text}
         IN  \E victim \in texts, dropped \in SUBSET texts :
               /\ dropped = IF Cardinality(texts) > MaxPrefixes THEN {victim} ELSE {}
               /\ victim \in DOMAIN prefixes \ {text} => prefixes[victim] <= 0
               /\ IsFiniteSet(texts) /\ Cardinality(texts) <= MaxPrefixes + 1
               /\ DOMAIN prefixes' = texts \ dropped
               /\ \A other \in texts \ dropped :
                    prefixes'[other] = IF other = text THEN 0 ELSE prefixes[other]
               /\ Orders(insertion', texts \ dropped)
  <1> DEFINE texts == DOMAIN prefixes \cup {text}
             larger == With(prefixes, text, 0)
             order == Stored(insertion, text)
             least == {t \in DOMAIN larger : \A u \in DOMAIN larger : larger[t] <= larger[u]}
             victim == FirstLeastUsed(larger, order)
             dropped == IF Cardinality(DOMAIN larger) > MaxPrefixes THEN {victim} ELSE {}
  <1>1. prefixes' = Without(larger, dropped) /\ insertion' = Forget(order, dropped)
    BY DEF StorePrefix
  <1>2. /\ DOMAIN larger = texts
        /\ \A other \in texts : larger[other] = IF other = text THEN 0 ELSE prefixes[other]
    BY DEF With
  <1>3. \A other \in texts : larger[other] \in Nat
    BY <1>2, CachingAssumption DEF PrefixInv
  <1>4. Orders(order, texts)
    <2>1. CASE text \in DOMAIN prefixes
      <3>1. texts = DOMAIN prefixes
        BY <2>1
      <3>2. order = insertion
        BY <2>1 DEF Stored, PrefixInv, Orders
      <3> QED
        BY <3>1, <3>2 DEF PrefixInv
    <2>2. CASE text \notin DOMAIN prefixes
      <3>1. order = AsLast(insertion, text)
        BY <2>2 DEF Stored, PrefixInv, Orders
      <3> QED
        BY <3>1, AsLastOrders DEF PrefixInv
    <2> QED
      BY <2>1, <2>2
  <1>5. IsFiniteSet(texts) /\ Cardinality(texts) <= MaxPrefixes + 1
    <2>1. /\ IsFiniteSet(DOMAIN prefixes) /\ Cardinality(DOMAIN prefixes) \in Nat
          /\ Cardinality(DOMAIN prefixes) <= MaxPrefixes /\ MaxPrefixes \in Nat
      BY FS_CardinalityType, CachingAssumption DEF PrefixInv
    <2>2. IsFiniteSet(texts)
          /\ Cardinality(texts) \in {Cardinality(DOMAIN prefixes), Cardinality(DOMAIN prefixes) + 1}
      BY <2>1, FS_AddElement
    <2> HIDE DEF texts
    <2> QED
      BY <2>1, <2>2
  <1> HIDE DEF larger, order
  <1>6. text \in texts /\ larger[text] = 0 /\ text \in least
    BY <1>2, <1>3
  <1>7. victim \in least
    <2>1. least \subseteq texts /\ least # {} /\ victim = First(order, least)
      BY <1>2, <1>6 DEF FirstLeastUsed
    <2> HIDE DEF least, victim, texts
    <2> QED
      BY <1>4, <1>5, <2>1, FirstOfSome
  <1>8. victim \in texts /\ (victim \in DOMAIN prefixes \ {text} => prefixes[victim] <= 0)
    <2> HIDE DEF victim
    <2> QED
      BY <1>2, <1>6, <1>7
  <1> HIDE DEF victim, least
  <1>9. dropped = IF Cardinality(texts) > MaxPrefixes THEN {victim} ELSE {}
    BY <1>2
  <1>10. dropped \in SUBSET texts
    BY <1>8
  <1> HIDE DEF dropped
  <1>11. Orders(insertion', texts \ dropped)
    BY <1>1, <1>4, ForgetOrders
  <1>12. /\ DOMAIN prefixes' = texts \ dropped
         /\ \A other \in texts \ dropped :
              prefixes'[other] = IF other = text THEN 0 ELSE prefixes[other]
    BY <1>1, <1>2 DEF Without
  <1> QED
    BY <1>5, <1>8, <1>9, <1>10, <1>11, <1>12

\* A prefix is stored: the cache stays within its capacity, and no prefix in
\* use leaves a full one.
LEMMA SetPrefixPreserves ==
  ASSUME CachingInv, NEW text \in Texts, SetPrefix(text), UNCHANGED << object, embeddings >>
  PROVE  /\ CachingInv'
         /\ \A other \in DOMAIN prefixes : prefixes[other] > 0 => other \in DOMAIN prefixes'
  <1> DEFINE texts == DOMAIN prefixes \cup {text}
  <1>1. ExactStays /\ PrefixInv /\ StorePrefix(text)
    BY DEF SetPrefix, ExactStays, CachingInv
  <1>2. PICK victim \in texts, dropped \in SUBSET texts :
          /\ dropped = IF Cardinality(texts) > MaxPrefixes THEN {victim} ELSE {}
          /\ victim \in DOMAIN prefixes \ {text} => prefixes[victim] <= 0
          /\ IsFiniteSet(texts) /\ Cardinality(texts) <= MaxPrefixes + 1
          /\ DOMAIN prefixes' = texts \ dropped
          /\ \A other \in texts \ dropped :
               prefixes'[other] = IF other = text THEN 0 ELSE prefixes[other]
          /\ Orders(insertion', texts \ dropped)
    BY <1>1, StorePrefixDrops
  <1>3. MaxPrefixes \in Nat /\ 0 \in 0 .. MaxUses /\ MaxUses \in Nat
    BY CachingAssumption
  <1>4. IsFiniteSet(texts \ dropped) /\ Cardinality(texts \ dropped) <= MaxPrefixes
    <2> HIDE DEF texts
    <2> QED
      BY <1>2, <1>3, RoomIsMade
  <1>5. PrefixInv'
    BY <1>1, <1>2, <1>3, <1>4 DEF PrefixInv
  <1>6. ASSUME NEW other \in DOMAIN prefixes, prefixes[other] > 0
        PROVE  other \in DOMAIN prefixes'
    <2>1. CASE other \notin dropped
      BY <1>2, <2>1
    <2>2. CASE other \in dropped
      <3>1. Cardinality(texts) > MaxPrefixes /\ other = victim
        BY <1>2, <2>2
      <3>2. CASE other = text
        <4>1. texts = DOMAIN prefixes
          BY <3>2
        <4>2. Cardinality(DOMAIN prefixes) \in Nat /\ Cardinality(DOMAIN prefixes) <= MaxPrefixes
          BY <1>1, FS_CardinalityType DEF PrefixInv
        <4> QED
          BY <1>3, <3>1, <4>1, <4>2
      <3>3. CASE other # text
        <4>1. prefixes[other] <= 0 /\ prefixes[other] \in Nat
          BY <1>1, <1>2, <1>3, <3>1, <3>3 DEF PrefixInv
        <4> QED
          BY <1>6, <4>1
      <3> QED
        BY <3>2, <3>3
    <2> QED
      BY <2>1, <2>2
  <1> QED
    BY <1>1, <1>5, <1>6, ExactStaysKeeps

\* Prefixes are invalidated; a cache that loses one is not full afterwards.
LEMMA InvalidatePrefixesPreserves ==
  ASSUME CachingInv, InvalidatePrefixes, UNCHANGED << object, embeddings >>
  PROVE  /\ CachingInv'
         /\ Cardinality(DOMAIN prefixes') = MaxPrefixes => DOMAIN prefixes' = DOMAIN prefixes
  <1>1. PICK texts : prefixes' = Without(prefixes, texts) /\ insertion' = Forget(insertion, texts)
    BY DEF InvalidatePrefixes
  <1>2. ExactStays /\ PrefixInv
    BY DEF InvalidatePrefixes, ExactStays, CachingInv
  <1>3. /\ DOMAIN prefixes' = DOMAIN prefixes \ texts
        /\ \A text \in DOMAIN prefixes \ texts : prefixes'[text] = prefixes[text]
    BY <1>1 DEF Without
  <1>4. /\ IsFiniteSet(DOMAIN prefixes) /\ Cardinality(DOMAIN prefixes) \in Nat
        /\ Cardinality(DOMAIN prefixes) <= MaxPrefixes /\ MaxPrefixes \in Nat
    BY <1>2, FS_CardinalityType, CachingAssumption DEF PrefixInv
  <1>5. DOMAIN prefixes' \in SUBSET DOMAIN prefixes
    BY <1>3
  <1>6. /\ IsFiniteSet(DOMAIN prefixes') /\ Cardinality(DOMAIN prefixes') \in Nat
        /\ Cardinality(DOMAIN prefixes') <= Cardinality(DOMAIN prefixes)
        /\ Cardinality(DOMAIN prefixes') = Cardinality(DOMAIN prefixes) =>
             DOMAIN prefixes' = DOMAIN prefixes
    BY <1>4, <1>5, FS_Subset, FS_CardinalityType
  <1>7. Orders(insertion', DOMAIN prefixes')
    BY <1>1, <1>2, <1>3, ForgetOrders DEF PrefixInv
  <1>8. PrefixInv'
    BY <1>2, <1>3, <1>4, <1>6, <1>7 DEF PrefixInv
  <1> QED
    BY <1>2, <1>4, <1>6, <1>8, ExactStaysKeeps

-----------------------------------------------------------------------------
(* The embedding cache *)

\* An embedding is stored; the oldest leaves a full cache.
LEMMA SetEmbeddingPreserves ==
  ASSUME EmbeddingInv, NEW text \in Texts, SetEmbedding(text)
  PROVE  EmbeddingInv'
  <1> DEFINE room == Max({1, MaxEmbeddings})
             fits == IF Len(embeddings) >= MaxEmbeddings /\ embeddings # << >>
                     THEN Tail(embeddings) ELSE embeddings
  <1>1. room \in Nat /\ room >= 1 /\ room >= MaxEmbeddings /\ MaxEmbeddings \in Nat
    BY LargerOfTwo, CachingAssumption
  <1> HIDE DEF room
  <1>2. /\ embeddings \in Seq(Texts) /\ IsInjective(embeddings) /\ Len(embeddings) <= room
        /\ Len(embeddings) \in Nat /\ DOMAIN embeddings = 1 .. Len(embeddings)
    BY DEF EmbeddingInv, room
  <1>3. fits \in Seq(Texts) /\ IsInjective(fits) /\ Len(fits) + 1 <= room
    <2>1. CASE Len(embeddings) >= MaxEmbeddings /\ embeddings # << >>
      <3>1. /\ fits = Tail(embeddings) /\ fits \in Seq(Texts) /\ Len(fits) = Len(embeddings) - 1
            /\ DOMAIN fits = 1 .. Len(embeddings) - 1
            /\ \A i \in DOMAIN fits : fits[i] = embeddings[i + 1]
        BY <1>2, <2>1
      <3> HIDE DEF fits
      <3>2. IsInjective(fits)
        BY <1>2, <3>1 DEF IsInjective
      <3> QED
        BY <1>1, <1>2, <3>1, <3>2
    <2>2. CASE ~(Len(embeddings) >= MaxEmbeddings /\ embeddings # << >>)
      <3>1. fits = embeddings
        BY <2>2
      <3>2. Len(embeddings) < MaxEmbeddings \/ Len(embeddings) = 0
        BY <1>1, <1>2, <2>2
      <3>3. Len(embeddings) + 1 <= room
        BY <1>1, <1>2, <3>2
      <3> HIDE DEF fits
      <3> QED
        BY <1>2, <3>1, <3>3
    <2> QED
      BY <2>1, <2>2
  <1>4. embeddings' = IF text \in ToSet(fits) THEN fits ELSE Append(fits, text)
    BY DEF SetEmbedding
  <1> HIDE DEF fits
  <1>5. Len(fits) \in Nat /\ DOMAIN fits = 1 .. Len(fits)
    BY <1>3
  <1>6. CASE text \in ToSet(fits)
    BY <1>1, <1>3, <1>4, <1>5, <1>6 DEF EmbeddingInv, room
  <1>7. CASE text \notin ToSet(fits)
    <2>1. /\ embeddings' \in Seq(Texts) /\ Len(embeddings') = Len(fits) + 1
          /\ DOMAIN embeddings' = 1 .. Len(fits) + 1
          /\ \A i \in DOMAIN fits : embeddings'[i] = fits[i] /\ fits[i] # text
          /\ embeddings'[Len(fits) + 1] = text
      BY <1>3, <1>4, <1>5, <1>7 DEF ToSet
    <2>2. IsInjective(embeddings')
      <3> SUFFICES ASSUME NEW a \in DOMAIN embeddings', NEW b \in DOMAIN embeddings',
                          embeddings'[a] = embeddings'[b]
                   PROVE  a = b
        BY DEF IsInjective
      <3>1. (a \in DOMAIN fits \/ a = Len(fits) + 1) /\ (b \in DOMAIN fits \/ b = Len(fits) + 1)
        BY <1>5, <2>1
      <3> QED
        BY <1>3, <2>1, <3>1 DEF IsInjective
    <2> QED
      BY <1>3, <2>1, <2>2 DEF EmbeddingInv, room
  <1> QED
    BY <1>6, <1>7

\* A step of the embedding cache leaves the service alone.
LEMMA EmbeddingStepPreserves == CachingInv /\ EmbeddingStep => CachingInv' /\ prefixes' = prefixes
  <1> SUFFICES ASSUME CachingInv, EmbeddingStep PROVE CachingInv' /\ prefixes' = prefixes
    OBVIOUS
  <1>1. EmbeddingInv'
    <2>1. ASSUME NEW text \in Texts, SetEmbedding(text) PROVE EmbeddingInv'
      BY <2>1, SetEmbeddingPreserves DEF CachingInv
    <2>2. CASE embeddings' = << >>
      <3>1. Max({1, MaxEmbeddings}) \in Nat
        BY LargerOfTwo, CachingAssumption
      <3> QED
        BY <2>2, <3>1 DEF EmbeddingInv, IsInjective
    <2> QED
      BY <2>1, <2>2 DEF EmbeddingStep
  <1> QED
    BY <1>1 DEF CachingInv, EmbeddingStep, ExactInv, PrefixInv, WrittenInv, SinceInv,
                HitsAreCurrent, RecentlyUsedIsKept

-----------------------------------------------------------------------------

UsedPrefixStays ==
  \A text \in DOMAIN prefixes :
    prefixes[text] > 0 /\ Cardinality(DOMAIN prefixes') = MaxPrefixes =>
      text \in DOMAIN prefixes'

\* Every step of the caches preserves the invariant, and no used prefix leaves
\* a cache that is full afterwards.
LEMMA CachingInvNext ==
  CachingInv /\ [CachingNext]_cachingVars => CachingInv' /\ UsedPrefixStays
  <1> SUFFICES ASSUME CachingInv, [CachingNext]_cachingVars PROVE CachingInv' /\ UsedPrefixStays
    OBVIOUS
  <1> USE DEF UsedPrefixStays
  <1>1. CASE UNCHANGED cachingVars
    BY <1>1 DEF cachingVars, CachingInv, ExactInv, PrefixInv, EmbeddingInv, WrittenInv, SinceInv,
                HitsAreCurrent, RecentlyUsedIsKept
  <1>2. CASE EmbeddingStep
    BY <1>2, EmbeddingStepPreserves
  <1>3. CASE ServiceStep
    <2>1. UNCHANGED << object, embeddings >>
      BY <1>3 DEF ServiceStep
    <2>2. ASSUME NEW req \in Requests, GetHit(req) PROVE CachingInv' /\ UsedPrefixStays
      BY <2>1, <2>2, GetHitPreserves DEF GetHit
    <2>3. ASSUME NEW req \in Requests, GetMiss(req) PROVE CachingInv' /\ UsedPrefixStays
      BY <2>1, <2>3, GetMissPreserves
    <2>4. ASSUME NEW req \in Requests, Set(req) PROVE CachingInv' /\ UsedPrefixStays
      BY <2>1, <2>4, SetPreserves DEF Set
    <2>5. ASSUME NEW text \in Texts, SetPrefix(text) PROVE CachingInv' /\ UsedPrefixStays
      BY <2>1, <2>5, SetPrefixPreserves
    <2>6. CASE Invalidate
      BY <2>1, <2>6, InvalidatePreserves DEF Invalidate
    <2>7. CASE InvalidatePrefixes
      BY <2>1, <2>7, InvalidatePrefixesPreserves
    <2>8. CASE Tick
      BY <2>1, <2>8, TickPreserves DEF Tick
    <2> QED
      BY <1>3, <2>2, <2>3, <2>4, <2>5, <2>6, <2>7, <2>8 DEF ServiceStep
  <1> QED
    BY <1>1, <1>2, <1>3 DEF CachingNext

-----------------------------------------------------------------------------
(* The cost attributor *)

Names == Users \cup {NoName}
Topics == Features \cup {NoName}
Attributions == [user : Names, feature : Topics, cost : NetCosts]

AttributionTypes ==
  /\ attributed \in Seq(Attributions)
  /\ IsFiniteSet(DOMAIN attributions) /\ DOMAIN attributions \subseteq Users
  /\ \A user \in DOMAIN attributions : attributions[user] \in Seq(Attributions)

AttributionInv == AttributionTypes /\ CostsAreFiledOnce

\* What a record adds to a sum over the records that some test picks.
Share(cost, counts) == IF counts THEN cost ELSE 0

\* A record adds its cost to a sum of costs if it is in a place that counts.
LEMMA CostsAtAppend ==
  ASSUME NEW records \in Seq(Attributions), NEW record \in Attributions,
         NEW places \in SUBSET DOMAIN records, NEW counts \in BOOLEAN,
         NEW more, more = places \cup (IF counts THEN {Len(records) + 1} ELSE {})
  PROVE  /\ CostsAt(places, records) \in Int
         /\ CostsAt(more, Append(records, record)) =
              CostsAt(places, records) + Share(record.cost, counts)
  <1> DEFINE longer == Append(records, record)
             n == Len(records) + 1
             f == [i \in places |-> records[i].cost]
             g == [i \in more |-> longer[i].cost]
  <1>1. /\ DOMAIN records = 1 .. Len(records) /\ Len(records) \in Nat
        /\ longer[n] = record /\ \A i \in DOMAIN records : longer[i] = records[i]
        /\ \A i \in DOMAIN records : records[i] \in Attributions
    OBVIOUS
  <1>2. CostsAt(places, records) = SumOn(f, places) /\ CostsAt(more, longer) = SumOn(g, more)
    BY DEF CostsAt, SumFunction, SumOn
  <1>3. \A a \in Attributions : a.cost \in Int
    BY AttributionAssumption DEF Attributions
  <1>4. IsFiniteSet(places)
    <2>1. IsFiniteSet(1 .. Len(records))
      BY <1>1, FS_Interval
    <2> QED
      BY <1>1, <2>1, FS_Subset
  <1>5. Summable(f, places)
    BY <1>1, <1>3, <1>4 DEF Summable
  <1>6. SumOn(f, places) \in Int
    BY <1>5, SumOnType
  <1>7. n \notin places /\ \A i \in places : g[i] = f[i]
    BY <1>1
  <1>8. SumOn(g, places) = SumOn(f, places)
    <2> HIDE DEF f, g
    <2> QED
      BY <1>4, <1>7, SumOnCongruence
  <1>9. CASE ~counts
    <2>1. more = places
      BY <1>9
    <2> HIDE DEF f, g, longer
    <2> QED
      BY <1>2, <1>6, <1>8, <1>9, <2>1 DEF Share, longer
  <1>10. CASE counts
    <2>1. more = places \cup {n} /\ n \in more /\ more \ {n} = places /\ g[n] = record.cost
      BY <1>1, <1>7, <1>10
    <2>2. Summable(g, more)
      <3>1. IsFiniteSet(more)
        BY <1>4, <2>1, FS_AddElement
      <3>2. \A i \in more : g[i] \in Int
        BY <1>3, <1>5, <1>7, <2>1 DEF Summable
      <3> HIDE DEF g
      <3> QED
        BY <3>1, <3>2 DEF Summable
    <2> HIDE DEF f, g, longer, n
    <2>3. SumOn(g, more) = g[n] + SumOn(g, more \ {n})
      BY <2>1, <2>2, SumOnSplits
    <2>4. record.cost \in Int
      BY <1>3
    <2>5. SumOn(g, more) = record.cost + SumOn(f, places)
      BY <1>8, <2>1, <2>3
    <2>6. CostsAt(more, longer) = CostsAt(places, records) + record.cost
      BY <1>2, <1>6, <2>4, <2>5
    <2> QED
      BY <1>2, <1>6, <1>10, <2>6 DEF Share, longer
  <1>11. CostsAt(places, records) \in Int
    BY <1>2, <1>6
  <1> HIDE DEF longer, n, f, g
  <1> QED
    BY <1>9, <1>10, <1>11 DEF longer

\* g is f but for one summand, which is new or has grown.
HasShareMore(g, f, S, x, amount) ==
  /\ Summable(f, S) /\ amount \in Int
  /\ \A y \in S \ {x} : g[y] = f[y]
  /\ g[x] = IF x \in S THEN f[x] + amount ELSE amount

\* The sum over the users when what one of them has grows by an amount, which
\* is all that a user has who had nothing.
LEMMA OneShareMore ==
  ASSUME NEW f, NEW g, NEW S, NEW x, NEW amount, HasShareMore(g, f, S, x, amount)
  PROVE  SumOn(g, S \cup {x}) = SumOn(f, S) + amount
  <1> USE DEF HasShareMore
  <1> DEFINE T == S \cup {x}
             rest == S \ {x}
  <1>1. T \ {x} = rest /\ x \in T
    OBVIOUS
  <1>2. IsFiniteSet(T) /\ IsFiniteSet(rest)
    BY FS_AddElement, FS_Subset DEF Summable
  <1>3. \A y \in T : g[y] \in Int
    BY DEF Summable
  <1> HIDE DEF T
  <1>4. SumOn(g, T) = g[x] + SumOn(g, rest)
    <2>1. Summable(g, T)
      BY <1>2, <1>3 DEF Summable
    <2>2. SumOn(g, T) = g[x] + SumOn(g, T \ {x})
      BY <1>1, <2>1, SumOnSplits
    <2> QED
      BY <1>1, <2>2
  <1>5. SumOn(g, rest) = SumOn(f, rest)
    BY <1>2, SumOnCongruence
  <1>6. SumOn(f, rest) \in Int
    <2>1. Summable(f, rest)
      BY <1>2 DEF Summable
    <2> HIDE DEF rest
    <2> QED
      BY <2>1, SumOnType
  <1>7. CASE x \in S
    <2>1. SumOn(f, S) = f[x] + SumOn(f, rest) /\ f[x] \in Int
      BY <1>7, SumOnSplits DEF Summable
    <2> HIDE DEF rest
    <2> QED
      BY <1>4, <1>5, <1>6, <1>7, <2>1 DEF T
  <1>8. CASE x \notin S
    <2>1. rest = S
      BY <1>8
    <2> HIDE DEF rest
    <2> QED
      BY <1>4, <1>5, <1>6, <1>8, <2>1 DEF T
  <1> QED
    BY <1>7, <1>8

\* Nothing filed costs nothing.
LEMMA NoCosts == \A records : CostsAt({}, records) = 0
  <1> SUFFICES ASSUME NEW records PROVE CostsAt({}, records) = 0
    OBVIOUS
  <1> DEFINE f == [i \in {} |-> records[i].cost]
  <1>1. CostsAt({}, records) = SumOn(f, {})
    BY DEF CostsAt, SumFunction, SumOn
  <1>2. IsFiniteSet({})
    BY FS_EmptySet
  <1> HIDE DEF f
  <1> QED
    BY <1>1, <1>2, SumOnUnfolds

\* It holds before the first request.
LEMMA AttributionInvInit == AttributionInit => AttributionInv
  <1> SUFFICES ASSUME AttributionInit PROVE AttributionInv
    OBVIOUS
  <1>1. attributions = << >> /\ attributed = << >> /\ DOMAIN << >> = {} /\ IsFiniteSet({})
    BY FS_EmptySet DEF AttributionInit
  <1>2. AttributionTypes
    BY <1>1 DEF AttributionTypes
  <1>3. \A users, features : Returned(users, features) = 0
    <2> SUFFICES ASSUME NEW users, NEW features PROVE Returned(users, features) = 0
      OBVIOUS
    <2>1. {i \in DOMAIN attributed :
             attributed[i].user \in users /\ attributed[i].feature \in features} = {}
      BY <1>1
    <2> QED
      BY <2>1, NoCosts DEF Returned
  <1>4. \A user : UserCosts(user) = 0
    BY <1>1, NoCosts DEF UserCosts, FiledFor
  <1>5. \A feature : FeatureCosts(feature) = 0
    <2> SUFFICES ASSUME NEW feature PROVE FeatureCosts(feature) = 0
      OBVIOUS
    <2> DEFINE f == [user \in {} |->
                      CostsAt(PlacesOf(feature, attributions[user]), attributions[user])]
    <2>1. FeatureCosts(feature) = SumOn(f, {})
      BY <1>1 DEF FeatureCosts, SumFunction, SumOn
    <2> HIDE DEF f
    <2> QED
      BY <1>1, <2>1, SumOnUnfolds
  <1> QED
    BY <1>2, <1>3, <1>4, <1>5 DEF AttributionInv, CostsAreFiledOnce

\* What attribute returned grows by the new attribution, where it counts.
LEMMA ReturnedGrows ==
  ASSUME AttributionTypes, NEW a \in Attributions, attributed' = Append(attributed, a),
         NEW users, NEW features
  PROVE  /\ Returned(users, features) \in Int
         /\ Returned(users, features)' =
              Returned(users, features) + Share(a.cost, a.user \in users /\ a.feature \in features)
  <1> DEFINE Counted(records) ==
               {i \in DOMAIN records : records[i].user \in users /\ records[i].feature \in features}
             counts == a.user \in users /\ a.feature \in features
  <1>1. /\ DOMAIN attributed = 1 .. Len(attributed) /\ Len(attributed) \in Nat
        /\ DOMAIN attributed' = DOMAIN attributed \cup {Len(attributed) + 1}
        /\ attributed'[Len(attributed) + 1] = a
        /\ \A i \in DOMAIN attributed : attributed'[i] = attributed[i]
    BY DEF AttributionTypes
  <1>2. Counted(attributed') =
          Counted(attributed) \cup (IF counts THEN {Len(attributed) + 1} ELSE {})
    BY <1>1
  <1>3. /\ Returned(users, features) = CostsAt(Counted(attributed), attributed)
        /\ Returned(users, features)' = CostsAt(Counted(attributed'), attributed')
    BY DEF Returned, CostsAt
  <1>4. Counted(attributed) \in SUBSET DOMAIN attributed /\ counts \in BOOLEAN
    OBVIOUS
  <1> HIDE DEF Counted, counts
  <1>5. /\ CostsAt(Counted(attributed), attributed) \in Int
        /\ CostsAt(Counted(attributed'), Append(attributed, a)) =
             CostsAt(Counted(attributed), attributed) + Share(a.cost, counts)
    BY <1>2, <1>4, CostsAtAppend DEF AttributionTypes
  <1> QED
    BY <1>3, <1>5 DEF counts

\* The costs of a user grow by an attribution that is filed.
LEMMA UserCostsGrow ==
  ASSUME NEW filed \in Seq(Attributions), NEW a \in Attributions
  PROVE  /\ CostsAt(DOMAIN filed, filed) \in Int
         /\ CostsAt(DOMAIN Filed(filed, a), Filed(filed, a)) =
              CostsAt(DOMAIN filed, filed) + Share(a.cost, TRUE)
  <1> USE DEF Filed
  <1> DEFINE n == Len(filed) + 1
             longer == Append(filed, a)
  <1>1. /\ DOMAIN filed = 1 .. Len(filed) /\ Len(filed) \in Nat
        /\ DOMAIN longer = DOMAIN filed \cup {n}
    OBVIOUS
  <1>2. DOMAIN longer = DOMAIN filed \cup (IF TRUE THEN {n} ELSE {})
    BY <1>1
  <1>3. DOMAIN filed \in SUBSET DOMAIN filed /\ TRUE \in BOOLEAN
    OBVIOUS
  <1> QED
    BY <1>2, <1>3, CostsAtAppend

\* So do the costs of a user with a feature, if it is the feature's.
LEMMA FiledCostsGrow ==
  ASSUME NEW filed \in Seq(Attributions), NEW a \in Attributions, NEW feature
  PROVE  /\ CostsAt(PlacesOf(feature, filed), filed) \in Int
         /\ CostsAt(PlacesOf(feature, Filed(filed, a)), Filed(filed, a)) =
              CostsAt(PlacesOf(feature, filed), filed) + Share(a.cost, a.feature = feature)
  <1> USE DEF Filed
  <1> DEFINE n == Len(filed) + 1
             longer == Append(filed, a)
             counts == a.feature = feature
  <1>1. /\ DOMAIN filed = 1 .. Len(filed) /\ Len(filed) \in Nat
        /\ DOMAIN longer = DOMAIN filed \cup {n}
        /\ longer[n] = a /\ \A i \in DOMAIN filed : longer[i] = filed[i]
    OBVIOUS
  <1>2. PlacesOf(feature, longer) = PlacesOf(feature, filed) \cup (IF counts THEN {n} ELSE {})
    BY <1>1 DEF PlacesOf
  <1>3. PlacesOf(feature, filed) \in SUBSET DOMAIN filed /\ counts \in BOOLEAN
    BY DEF PlacesOf
  <1> HIDE DEF counts
  <1>4. /\ CostsAt(PlacesOf(feature, filed), filed) \in Int
        /\ CostsAt(PlacesOf(feature, longer), longer) =
             CostsAt(PlacesOf(feature, filed), filed) + Share(a.cost, counts)
    BY <1>2, <1>3, CostsAtAppend
  <1> QED
    BY <1>4 DEF counts

\* A call of attribute keeps the two ways of adding up equal.
LEMMA AttributePreserves ==
  ASSUME AttributionInv, NEW user \in Names, NEW feature \in Topics, NEW cost \in NetCosts,
         Attribute(user, feature, cost)
  PROVE  AttributionInv'
  <1> DEFINE a == [user |-> user, feature |-> feature, cost |-> cost]
  <1>1. /\ a \in Attributions /\ a.user = user /\ a.feature = feature /\ a.cost = cost
        /\ cost \in Int /\ NoName \notin Users
    BY AttributionAssumption DEF Attributions
  <1>2. /\ attributed' = Append(attributed, a)
        /\ attributions' =
             IF user = NoName THEN attributions
             ELSE [u \in DOMAIN attributions \cup {user} |->
                     IF u = user THEN Filed(FiledFor(user), a) ELSE attributions[u]]
    BY DEF Attribute
  <1>3. AttributionTypes /\ CostsAreFiledOnce
    BY DEF AttributionInv
  <1> HIDE DEF a
  <1>4. \A users, features :
          /\ Returned(users, features) \in Int
          /\ Returned(users, features)' =
               Returned(users, features) + Share(cost, user \in users /\ feature \in features)
    BY <1>1, <1>2, <1>3, ReturnedGrows
  <1>5. attributed' \in Seq(Attributions)
    BY <1>1, <1>2, <1>3 DEF AttributionTypes
  <1>6. CASE user = NoName
    <2>1. attributions' = attributions
      BY <1>2, <1>6
    <2>2. /\ \A u : UserCosts(u)' = UserCosts(u)
          /\ \A topic : FeatureCosts(topic)' = FeatureCosts(topic)
      BY <2>1 DEF UserCosts, FiledFor, FeatureCosts
    <2>3. AttributionTypes'
      BY <1>3, <1>5, <2>1 DEF AttributionTypes
    <2>4. \A u \in Users : UserCosts(u)' = Returned({u}, Topics)'
      <3> SUFFICES ASSUME NEW u \in Users PROVE UserCosts(u)' = Returned({u}, Topics)'
        OBVIOUS
      <3>1. Share(cost, user \in {u} /\ feature \in Topics) = 0
        BY <1>1, <1>6 DEF Share
      <3>2. Returned({u}, Topics)' = Returned({u}, Topics) /\ Returned({u}, Topics) \in Int
        BY <1>4, <3>1
      <3>3. UserCosts(u) = Returned({u}, Topics)
        BY <1>3 DEF CostsAreFiledOnce, Topics
      <3> QED
        BY <2>2, <3>2, <3>3
    <2>5. ASSUME NEW topic \in Topics
          PROVE  FeatureCosts(topic)' = Returned(Names, {topic})' - Returned({NoName}, {topic})'
      <3>1. /\ Share(cost, user \in Names /\ feature \in {topic}) = Share(cost, feature = topic)
            /\ Share(cost, user \in {NoName} /\ feature \in {topic}) = Share(cost, feature = topic)
            /\ Share(cost, feature = topic) \in Int
        BY <1>1, <1>6 DEF Share
      <3>2. /\ Returned(Names, {topic})' = Returned(Names, {topic}) + Share(cost, feature = topic)
            /\ Returned({NoName}, {topic})' =
                 Returned({NoName}, {topic}) + Share(cost, feature = topic)
            /\ Returned(Names, {topic}) \in Int /\ Returned({NoName}, {topic}) \in Int
        BY <1>4, <3>1
      <3>3. FeatureCosts(topic) = Returned(Names, {topic}) - Returned({NoName}, {topic})
        BY <1>3 DEF CostsAreFiledOnce, Names, Topics
      <3> QED
        BY <2>2, <3>1, <3>2, <3>3
    <2>6. UserCosts(NoName)' = 0
      BY <1>3, <2>2 DEF CostsAreFiledOnce
    <2> QED
      BY <2>3, <2>4, <2>5, <2>6 DEF AttributionInv, CostsAreFiledOnce, Names, Topics
  <1>7. CASE user # NoName
    <2> DEFINE D == DOMAIN attributions
               filed == FiledFor(user)
    <2>1. /\ user \in Users /\ DOMAIN attributions' = D \cup {user}
          /\ attributions'[user] = Filed(filed, a)
          /\ \A u \in D \ {user} : attributions'[u] = attributions[u]
          /\ NoName \notin D
      BY <1>1, <1>2, <1>3, <1>7 DEF Names, AttributionTypes
    <2>2. filed \in Seq(Attributions)
      BY <1>3 DEF FiledFor, AttributionTypes
    <2>3. Filed(filed, a) \in Seq(Attributions)
      BY <1>1, <2>2 DEF Filed
    <2>4. IsFiniteSet(D) /\ D \subseteq Users /\ \A u \in D : attributions[u] \in Seq(Attributions)
      BY <1>3 DEF AttributionTypes
    <2> HIDE DEF D, filed
    <2>5. AttributionTypes'
      <3>1. IsFiniteSet(D \cup {user})
        BY <2>4, FS_AddElement
      <3> QED
        BY <1>5, <2>1, <2>3, <2>4, <3>1 DEF AttributionTypes
    <2>6. FiledFor(user)' = Filed(filed, a) /\ \A u : u # user => FiledFor(u)' = FiledFor(u)
      BY <2>1 DEF FiledFor, D
    <2>7. UserCosts(user)' = UserCosts(user) + cost /\ UserCosts(user) \in Int
      <3>1. /\ UserCosts(user)' = CostsAt(DOMAIN Filed(filed, a), Filed(filed, a))
            /\ UserCosts(user) = CostsAt(DOMAIN filed, filed)
        BY <2>6 DEF UserCosts, filed, CostsAt
      <3>2. Share(a.cost, TRUE) = cost
        BY <1>1 DEF Share
      <3>3. /\ CostsAt(DOMAIN filed, filed) \in Int
            /\ CostsAt(DOMAIN Filed(filed, a), Filed(filed, a)) =
                 CostsAt(DOMAIN filed, filed) + Share(a.cost, TRUE)
        BY <1>1, <2>2, UserCostsGrow
      <3> QED
        BY <3>1, <3>2, <3>3
    <2>8. \A u : u # user => UserCosts(u)' = UserCosts(u)
      BY <2>6 DEF UserCosts, CostsAt
    <2>9. ASSUME NEW u \in Users
          PROVE  UserCosts(u)' = Returned({u}, Topics)'
      <3>1. Share(cost, user \in {u} /\ feature \in Topics) = IF u = user THEN cost ELSE 0
        BY DEF Share
      <3>2. Returned({u}, Topics)' = Returned({u}, Topics) + (IF u = user THEN cost ELSE 0)
            /\ Returned({u}, Topics) \in Int
        BY <1>4, <3>1
      <3>3. UserCosts(u) = Returned({u}, Topics)
        BY <1>3 DEF CostsAreFiledOnce, Topics
      <3>4. CASE u = user
        BY <2>7, <3>2, <3>3, <3>4
      <3>5. CASE u # user
        BY <2>8, <3>2, <3>3, <3>5
      <3> QED
        BY <3>4, <3>5
    <2>10. UserCosts(NoName)' = 0
      BY <1>3, <1>7, <2>8 DEF CostsAreFiledOnce
    <2>11. ASSUME NEW topic \in Topics
           PROVE  FeatureCosts(topic)' = FeatureCosts(topic) + Share(cost, feature = topic)
      <3> DEFINE CostOf(records) == CostsAt(PlacesOf(topic, records), records)
                 f == [u \in D |-> CostOf(attributions[u])]
                 g == [u \in D \cup {user} |-> CostOf(attributions'[u])]
                 more == Share(cost, feature = topic)
      <3>1. FeatureCosts(topic) = SumOn(f, D)
        BY DEF FeatureCosts, SumFunction, SumOn, D
      <3>2. FeatureCosts(topic)' = SumOn(g, D \cup {user})
        BY <2>1 DEF FeatureCosts, SumFunction, SumOn, CostsAt, PlacesOf
      <3>3. /\ CostOf(filed) \in Int
            /\ CostOf(Filed(filed, a)) = CostOf(filed) + Share(cost, feature = topic)
        <4>1. /\ CostOf(filed) \in Int
              /\ CostOf(Filed(filed, a)) = CostOf(filed) + Share(a.cost, a.feature = topic)
          BY <1>1, <2>2, FiledCostsGrow
        <4> HIDE DEF CostOf
        <4> QED
          BY <1>1, <4>1
      <3>4. \A u \in D : CostOf(attributions[u]) \in Int
        BY <1>1, <2>4, FiledCostsGrow
      <3>5. Share(cost, feature = topic) \in Int
        BY <1>1 DEF Share
      <3>6. user \notin D => CostOf(filed) = 0
        <4> SUFFICES ASSUME user \notin D PROVE CostOf(filed) = 0
          OBVIOUS
        <4>1. filed = << >> /\ PlacesOf(topic, << >>) = {}
          BY DEF filed, FiledFor, D, PlacesOf
        <4> QED
          BY <4>1, NoCosts
      <3>7. user \in D => filed = attributions[user]
        BY DEF filed, FiledFor, D
      <3> HIDE DEF CostOf
      <3>8. /\ \A u \in D \ {user} : g[u] = f[u]
            /\ g[user] = IF user \in D THEN f[user] + more ELSE more
        BY <2>1, <3>3, <3>5, <3>6, <3>7
      <3>9. Summable(f, D)
        BY <2>4, <3>4 DEF Summable
      <3>10. more \in Int
        BY <3>5
      <3> HIDE DEF f, g, more
      <3>11. SumOn(g, D \cup {user}) = SumOn(f, D) + more
        <4>1. HasShareMore(g, f, D, user, more)
          BY <3>8, <3>9, <3>10 DEF HasShareMore
        <4> QED
          BY <4>1, OneShareMore
      <3> QED
        BY <3>1, <3>2, <3>11 DEF more
    <2>12. ASSUME NEW topic \in Topics
           PROVE  FeatureCosts(topic)' = Returned(Names, {topic})' - Returned({NoName}, {topic})'
      <3>1. /\ Share(cost, user \in Names /\ feature \in {topic}) = Share(cost, feature = topic)
            /\ Share(cost, user \in {NoName} /\ feature \in {topic}) = 0
            /\ Share(cost, feature = topic) \in Int
        BY <1>1, <1>7 DEF Share
      <3>2. /\ Returned(Names, {topic})' = Returned(Names, {topic}) + Share(cost, feature = topic)
            /\ Returned({NoName}, {topic})' = Returned({NoName}, {topic})
            /\ Returned(Names, {topic}) \in Int /\ Returned({NoName}, {topic}) \in Int
        BY <1>4, <3>1
      <3>3. FeatureCosts(topic) = Returned(Names, {topic}) - Returned({NoName}, {topic})
        BY <1>3 DEF CostsAreFiledOnce, Names, Topics
      <3> QED
        BY <2>11, <3>1, <3>2, <3>3
    <2> QED
      BY <2>5, <2>9, <2>10, <2>12 DEF AttributionInv, CostsAreFiledOnce, Names, Topics
  <1> QED
    BY <1>6, <1>7

\* Every step of the attributor preserves the invariant.
LEMMA AttributionInvNext == AttributionInv /\ [AttributionNext]_attributionVars => AttributionInv'
  <1> SUFFICES ASSUME AttributionInv, [AttributionNext]_attributionVars PROVE AttributionInv'
    OBVIOUS
  <1>1. CASE AttributionNext
    BY <1>1, AttributePreserves DEF AttributionNext, Names, Topics
  <1>2. CASE UNCHANGED attributionVars
    BY <1>2 DEF attributionVars, AttributionInv, AttributionTypes, CostsAreFiledOnce, UserCosts,
                FiledFor, FeatureCosts, Returned
  <1> QED
    BY <1>1, <1>2

-----------------------------------------------------------------------------
(* The services together *)

ServicesInv == GatherInv /\ PoolInv /\ CachingInv /\ AttributionInv

\* The invariants of the four hold before any of them is used.
LEMMA ServicesInvInit == ServicesInit => ServicesInv
  BY GatherInvInit, PoolInvInit, CachingInvInit, AttributionInvInit DEF ServicesInit, ServicesInv

\* A step of the services is a step of one and leaves the others alone.
LEMMA ServicesStep ==
  [ServicesNext]_serviceVars =>
    /\ [GatherNext]_gatherVars /\ [PoolNext]_poolVars
    /\ [CachingNext]_cachingVars /\ [RoutingNext]_routingVars /\ [AttributionNext]_attributionVars
  BY DEF ServicesNext, CacheStep, RouterStep, PoolStep, GatherStep, AttributorStep, serviceVars

\* Every step preserves them, and keeps the prefixes in use.
LEMMA ServicesInvNext ==
  ServicesInv /\ [ServicesNext]_serviceVars => ServicesInv' /\ UsedPrefixStays
  BY ServicesStep, GatherInvNext, PoolInvNext, CachingInvNext, AttributionInvNext DEF ServicesInv

\* The invariants hold in every reachable state.
LEMMA ServicesInvariant == ServicesSpec => []ServicesInv
  BY ServicesInvInit, ServicesInvNext, PTL DEF ServicesSpec

\* gather_limited keeps to its limit, and one that returns has run every
\* coroutine, once.
THEOREM GathersKeepTheirPromise == ServicesSpec => []GatherKeepsItsPromise
  BY ServicesInvariant, GatherInvPromise, PTL DEF ServicesInv

\* A sweep that loses none of the backends it began with visits them all, each
\* once, whatever is registered in between and however many sweeps there are;
\* a close_all that is left alone leaves no backend of its own behind.
THEOREM SweepsStayWhole == ServicesSpec => []SweepsAreWhole
  BY ServicesInvariant, PoolInvWhole, PTL DEF ServicesInv

\* The caches keep their types, their capacities and their orders.
THEOREM CachesAreTyped == ServicesSpec => []CachingTypeOK
  BY ServicesInvariant, CachingInvTypes, PTL DEF ServicesInv

\* A hit of the exact cache is what was stored last for a request with the same
\* text and the same parameters of the key, and has not expired.
THEOREM HitsStayCurrent == ServicesSpec => []HitsAreCurrent
  <1>1. ServicesInv => HitsAreCurrent
    BY DEF ServicesInv, CachingInv
  <1> QED
    BY <1>1, ServicesInvariant, PTL

\* The exact cache evicts nothing while there is room for what was used since.
THEOREM RecentUseIsKept == ServicesSpec => []RecentlyUsedIsKept
  <1>1. ServicesInv => RecentlyUsedIsKept
    BY DEF ServicesInv, CachingInv
  <1> QED
    BY <1>1, ServicesInvariant, PTL

\* A prefix that was used leaves no prefix cache that is full afterwards.
THEOREM UsedPrefixesAreKept == ServicesSpec => UsedPrefixesStay
  <1>1. ServicesInv /\ [ServicesNext]_serviceVars => [UsedPrefixStays]_cachingVars
    BY ServicesInvNext
  <1> QED
    BY <1>1, ServicesInvariant, PTL DEF ServicesSpec, UsedPrefixesStay, UsedPrefixStays

\* Every cost is filed once, under its user and its feature, whatever costs
\* are attributed to whom and in whatever order.
THEOREM CostsStayFiledOnce == ServicesSpec => []CostsAreFiledOnce
  <1>1. ServicesInv => CostsAreFiledOnce
    BY DEF ServicesInv, AttributionInv
  <1> QED
    BY <1>1, ServicesInvariant, PTL
=============================================================================
