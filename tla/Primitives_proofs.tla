-------------------------- MODULE Primitives_proofs --------------------------
(***************************************************************************)
(* Proofs about the primitives of domain/batching and domain/routing: for  *)
(* every size of batch, age, seed and text, in whatever order requests are *)
(* added and collected; for every fleet of models, every policy and every  *)
(* request.                                                                *)
(*                                                                         *)
(* Batching: a batch splits each lane into what is taken and what is left, *)
(* and whoever is taken comes before whoever is left (Splits, Serves); the *)
(* three batchers differ in the split only.                                *)
(*                                                                         *)
(* Routing: there is a least key and a sorted list because keys end in the *)
(* id of their model (KeyIsLeast, SortedList); a model worse in every      *)
(* respect than another cannot have the least score, whatever the weights  *)
(* (BestIsNotWorse); and the index that walks over the eligible models has *)
(* passed a part of the circle once more than the rest (Round).            *)
(*                                                                         *)
(* Induction is over sets: a set of numbers that holds 0 and the successor *)
(* of every member holds all (CountUp).                                    *)
(***************************************************************************)
EXTENDS Batching, Routing, FiniteSets, FiniteSetTheorems, FunctionTheorems,
        WellFoundedInduction, SequenceTheorems, TLAPS

-----------------------------------------------------------------------------
(* Numbers *)

\* Of some numbers one is the smallest.
LEMMA SmallestNumber ==
  ASSUME NEW S \in SUBSET Nat, S # {}
  PROVE  \E n \in S : \A m \in S : n <= m
  <1> DEFINE R == OpToRel(<, Nat)
  <1>1. IsWellFoundedOn(R, Nat)
    BY NatLessThanWellFounded
  <1>2. \A m, n \in Nat : m < n => << m, n >> \in R
    BY DEF OpToRel
  <1> HIDE DEF R
  <1>3. PICK n \in S : \A m \in S : ~(<< m, n >> \in R)
    BY <1>1, WFMin
  <1>4. ASSUME NEW m \in S PROVE n <= m
    <2>1. m \in Nat /\ n \in Nat /\ ~(m < n)
      BY <1>2, <1>3
    <2> QED
      BY <2>1
  <1> QED
    BY <1>4

\* Up to a bound, S is closed under successors.
Inductive(S, N) == 0 \in S /\ \A n \in 1 .. N : n - 1 \in S => n \in S

\* Induction up to a bound.
LEMMA CountUp ==
  ASSUME NEW N \in Nat, NEW S, Inductive(S, N)
  PROVE  0 .. N \subseteq S /\ N \in S
  <1> DEFINE Missing == {n \in 0 .. N : n \notin S}
  <1> SUFFICES ASSUME Missing # {} PROVE FALSE
    <2>1. 0 .. N \subseteq S => N \in S
      OBVIOUS
    <2> QED
      BY <2>1
  <1>1. PICK n \in Missing : \A m \in Missing : n <= m
    <2>1. Missing \in SUBSET Nat
      OBVIOUS
    <2> HIDE DEF Missing
    <2> QED
      BY <2>1, SmallestNumber
  <1>2. n \in 1 .. N /\ n \notin S
    BY <1>1 DEF Inductive
  <1>3. n - 1 \in 0 .. N /\ n - 1 \notin Missing
    BY <1>1, <1>2
  <1> QED
    BY <1>2, <1>3 DEF Inductive

\* f is computed step by step up to a bound.
Computed(f, N, first, step) ==
  f[0] = first /\ \A n \in 1 .. N : f[n] = step[n][f[n - 1]]

\* There is such a function.
LEMMA Recursion ==
  ASSUME NEW N \in Nat, NEW V, NEW first \in V, NEW step \in [1 .. N -> [V -> V]]
  PROVE  \E f \in [0 .. N -> V] : Computed(f, N, first, step)
  <1> DEFINE S == {m \in 0 .. N : \E f \in [0 .. m -> V] : Computed(f, m, first, step)}
  <1>1. 0 \in S
    <2> DEFINE g == [n \in 0 .. 0 |-> first]
    <2>1. g \in [0 .. 0 -> V] /\ g[0] = first /\ 1 .. 0 = {}
      OBVIOUS
    <2> HIDE DEF g
    <2>2. Computed(g, 0, first, step)
      BY <2>1 DEF Computed
    <2> QED
      BY <2>1, <2>2
  <1>2. ASSUME NEW m \in 1 .. N, m - 1 \in S PROVE m \in S
    <2>1. PICK f \in [0 .. m - 1 -> V] : Computed(f, m - 1, first, step)
      BY <1>2
    <2> DEFINE last == step[m][f[m - 1]]
               g == [n \in 0 .. m |-> IF n = m THEN last ELSE f[n]]
    <2>2. last \in V
      OBVIOUS
    <2> HIDE DEF last
    <2>3. g \in [0 .. m -> V]
      BY <2>2
    <2>4. \A n \in 1 .. m : g[n - 1] = f[n - 1]
      OBVIOUS
    <2>5. g[0] = first
      BY <2>1 DEF Computed
    <2>6. ASSUME NEW n \in 1 .. m PROVE g[n] = step[n][g[n - 1]]
      <3>1. CASE n = m
        <4>1. g[m] = last /\ g[m - 1] = f[m - 1]
          BY <2>4
        <4> HIDE DEF g
        <4> QED
          BY <3>1, <4>1 DEF last
      <3>2. CASE n # m
        <4>1. n \in 1 .. m - 1 /\ g[n] = f[n]
          BY <3>2
        <4> HIDE DEF g
        <4> QED
          BY <2>1, <2>4, <4>1 DEF Computed
      <3> QED
        BY <3>1, <3>2
    <2> HIDE DEF g
    <2>7. Computed(g, m, first, step)
      BY <2>5, <2>6 DEF Computed
    <2> QED
      BY <2>3, <2>7
  <1>3. N \in S
    <2> HIDE DEF S
    <2>1. Inductive(S, N)
      BY <1>1, <1>2 DEF Inductive
    <2> QED
      BY <2>1, CountUp
  <1> QED
    BY <1>3

-----------------------------------------------------------------------------
(* Lists *)

\* The function behind FlattenSeq.
Flattens(f, seqs) ==
  f = [i \in 1 .. Len(seqs) |-> IF i = 1 THEN seqs[i] ELSE f[i - 1] \o seqs[i]]

\* Its value at one place.
LEMMA FlattensAt ==
  ASSUME NEW seqs, NEW f, Flattens(f, seqs), NEW i \in 1 .. Len(seqs)
  PROVE  f[i] = IF i = 1 THEN seqs[i] ELSE f[i - 1] \o seqs[i]
  <1> DEFINE Value(k) == IF k = 1 THEN seqs[k] ELSE f[k - 1] \o seqs[k]
  <1>1. f = [k \in 1 .. Len(seqs) |-> Value(k)]
    BY DEF Flattens
  <1> HIDE DEF Value
  <1>2. f[i] = Value(i)
    BY <1>1
  <1> QED
    BY <1>2 DEF Value

\* There is such a function, for every list of lists.
LEMMA FlattensExists ==
  ASSUME NEW T, NEW seqs \in Seq(Seq(T))
  PROVE  \E f : Flattens(f, seqs)
  <1> DEFINE N == Len(seqs)
             V == Seq(T)
             empty == << >>
             step == [i \in 1 .. N |-> [list \in V |-> list \o seqs[i]]]
  <1>1. N \in Nat /\ empty \in V /\ \A i \in 1 .. N : seqs[i] \in V
    OBVIOUS
  <1>2. step \in [1 .. N -> [V -> V]]
    BY <1>1
  <1>3. PICK f \in [0 .. N -> V] : Computed(f, N, empty, step)
    <2>1. N \in Nat /\ empty \in V
      BY <1>1
    <2> HIDE DEF step, N, V, empty
    <2> QED
      BY <1>2, <2>1, Recursion
  <1> DEFINE g == [i \in 1 .. N |-> f[i]]
  <1>4. ASSUME NEW i \in 1 .. N PROVE g[i] = IF i = 1 THEN seqs[i] ELSE g[i - 1] \o seqs[i]
    <2>1. f[i] = f[i - 1] \o seqs[i]
      <3>1. i - 1 \in 0 .. N
        BY <1>1
      <3>2. f[i - 1] \in V
        BY <1>3, <3>1
      <3> QED
        BY <1>3, <3>2 DEF Computed
    <2>2. CASE i = 1
      <3>1. << >> \o seqs[1] = seqs[1] /\ g[i] = f[i]
        BY <1>1, <2>2
      <3>2. f[i - 1] = << >>
        BY <1>3, <2>2 DEF Computed
      <3> QED
        BY <2>1, <2>2, <3>1, <3>2
    <2>3. CASE i # 1
      <3>1. i - 1 \in 1 .. N /\ g[i] = f[i] /\ g[i - 1] = f[i - 1]
        BY <1>1, <2>3
      <3> HIDE DEF g
      <3> QED
        BY <2>1, <2>3, <3>1
    <2> QED
      BY <2>2, <2>3
  <1>5. DOMAIN g = 1 .. N /\ g = [i \in 1 .. N |-> g[i]]
    OBVIOUS
  <1> HIDE DEF g
  <1>6. g = [i \in 1 .. N |-> IF i = 1 THEN seqs[i] ELSE g[i - 1] \o seqs[i]]
    BY <1>4, <1>5
  <1> QED
    BY <1>6 DEF Flattens

\* FlattenSeq is its last value.
LEMMA FlattenIsLast ==
  ASSUME NEW T, NEW seqs \in Seq(Seq(T)), seqs # << >>
  PROVE  \E f : Flattens(f, seqs) /\ FlattenSeq(seqs) = f[Len(seqs)]
  <1> DEFINE f == CHOOSE g : Flattens(g, seqs)
  <1>1. Flattens(f, seqs)
    BY FlattensExists
  <1>2. FlattenSeq(seqs) = f[Len(seqs)]
    BY DEF FlattenSeq, Flattens
  <1> QED
    BY <1>1, <1>2

\* A list of lists of T flattens to a list of T.
LEMMA FlattenType ==
  ASSUME NEW T, NEW seqs \in Seq(Seq(T))
  PROVE  FlattenSeq(seqs) \in Seq(T)
  <1>1. CASE seqs = << >>
    BY <1>1 DEF FlattenSeq
  <1>2. CASE seqs # << >>
    <2> DEFINE N == Len(seqs)
    <2>1. PICK f : Flattens(f, seqs) /\ FlattenSeq(seqs) = f[N]
      BY <1>2, FlattenIsLast
    <2>2. N \in Nat /\ N # 0 /\ \A n \in 1 .. N : seqs[n] \in Seq(T)
      BY <1>2
    <2> DEFINE S == {n \in 0 .. N : n = 0 \/ f[n] \in Seq(T)}
    <2>3. ASSUME NEW n \in 1 .. N, n - 1 \in S PROVE n \in S
      <3>1. f[n] = IF n = 1 THEN seqs[n] ELSE f[n - 1] \o seqs[n]
        BY <2>1, FlattensAt
      <3>2. n # 1 => f[n - 1] \in Seq(T)
        BY <2>3
      <3>3. seqs[n] \in Seq(T)
        BY <2>2
      <3>4. f[n] \in Seq(T)
        BY <3>1, <3>2, <3>3
      <3> QED
        BY <3>4
    <2>4. Inductive(S, N)
      BY <2>2, <2>3 DEF Inductive
    <2>5. N \in S
      <3> HIDE DEF S
      <3> QED
        BY <2>2, <2>4, CountUp
    <2> QED
      BY <2>1, <2>2, <2>5
  <1> QED
    BY <1>1, <1>2

\* One batch more goes to the end of the list.
LEMMA FlattenAppend ==
  ASSUME NEW T, NEW seqs \in Seq(Seq(T)), NEW x \in Seq(T)
  PROVE  FlattenSeq(Append(seqs, x)) = FlattenSeq(seqs) \o x
  <1> DEFINE N == Len(seqs)
             longer == Append(seqs, x)
  <1>1. /\ longer \in Seq(Seq(T)) /\ longer # << >> /\ Len(longer) = N + 1 /\ N \in Nat
        /\ longer[N + 1] = x /\ \A n \in 1 .. N : longer[n] = seqs[n]
    <2> DEFINE V == Seq(T)
    <2>1. seqs \in Seq(V) /\ x \in V
      OBVIOUS
    <2> HIDE DEF V
    <2>2. /\ longer \in Seq(V) /\ Len(longer) = N + 1 /\ N \in Nat
          /\ longer[N + 1] = x /\ \A n \in 1 .. N : longer[n] = seqs[n]
      BY <2>1
    <2> HIDE DEF longer
    <2> QED
      BY <2>2 DEF V
  <1> HIDE DEF longer
  <1>2. PICK g : Flattens(g, longer) /\ FlattenSeq(longer) = g[N + 1]
    BY <1>1, FlattenIsLast
  <1>3. CASE seqs = << >>
    <2>1. N = 0 /\ FlattenSeq(seqs) = << >>
      BY <1>3 DEF FlattenSeq
    <2>2. g[1] = longer[1]
      BY <1>1, <1>2, <2>1, FlattensAt
    <2>3. << >> \o x = x
      OBVIOUS
    <2> QED
      BY <1>1, <1>2, <2>1, <2>2, <2>3 DEF longer
  <1>4. CASE seqs # << >>
    <2>1. PICK f : Flattens(f, seqs) /\ FlattenSeq(seqs) = f[N]
      BY <1>4, FlattenIsLast
    <2>2. N # 0
      BY <1>4
    <2> DEFINE S == {n \in 0 .. N : n = 0 \/ f[n] = g[n]}
    <2>3. ASSUME NEW n \in 1 .. N, n - 1 \in S PROVE n \in S
      <3>1. f[n] = IF n = 1 THEN seqs[n] ELSE f[n - 1] \o seqs[n]
        BY <2>1, FlattensAt
      <3>2. n \in 1 .. Len(longer)
        BY <1>1
      <3>3. g[n] = IF n = 1 THEN longer[n] ELSE g[n - 1] \o longer[n]
        BY <1>2, <3>2, FlattensAt
      <3>4. n # 1 => f[n - 1] = g[n - 1]
        BY <2>3
      <3>5. f[n] = g[n]
        BY <1>1, <3>1, <3>3, <3>4
      <3> QED
        BY <3>5
    <2>4. Inductive(S, N)
      BY <1>1, <2>3 DEF Inductive
    <2>5. N \in S
      <3> HIDE DEF S
      <3> QED
        BY <1>1, <2>4, CountUp
    <2>6. f[N] = g[N]
      BY <2>2, <2>5
    <2>7. N + 1 \in 1 .. Len(longer) /\ N + 1 # 1 /\ (N + 1) - 1 = N
      BY <1>1, <2>2
    <2>8. g[N + 1] = g[N] \o longer[N + 1]
      <3>1. \A n \in 1 .. Len(longer) : n # 1 => g[n] = g[n - 1] \o longer[n]
        BY <1>2, FlattensAt
      <3> QED
        BY <2>7, <3>1
    <2> QED
      BY <1>1, <1>2, <2>1, <2>6, <2>8 DEF longer
  <1> QED
    BY <1>3, <1>4

\* The function behind Kept.
Keeps(f, queue, wanted) ==
  f = [n \in 0 .. Len(queue) |->
         CASE n = 0 -> << >>
           [] n > 0 /\ queue[n] \in wanted -> Append(f[n - 1], queue[n])
           [] OTHER -> f[n - 1]]

\* Its value at one place.
LEMMA KeepsAt ==
  ASSUME NEW T, NEW queue \in Seq(T), NEW wanted, NEW f, Keeps(f, queue, wanted)
  PROVE  /\ f[0] = << >>
         /\ \A n \in 1 .. Len(queue) :
              f[n] = IF queue[n] \in wanted THEN Append(f[n - 1], queue[n]) ELSE f[n - 1]
  <1> DEFINE Value(n) == CASE n = 0 -> << >>
                           [] n > 0 /\ queue[n] \in wanted -> Append(f[n - 1], queue[n])
                           [] OTHER -> f[n - 1]
  <1>1. f = [n \in 0 .. Len(queue) |-> Value(n)]
    BY DEF Keeps
  <1> HIDE DEF Value
  <1>2. \A n \in 0 .. Len(queue) : f[n] = Value(n)
    BY <1>1
  <1>3. 0 \in 0 .. Len(queue) /\ Value(0) = << >>
    BY DEF Value
  <1>4. ASSUME NEW n \in 1 .. Len(queue)
        PROVE  f[n] = IF queue[n] \in wanted THEN Append(f[n - 1], queue[n]) ELSE f[n - 1]
    <2>1. n \in 0 .. Len(queue) /\ n # 0 /\ n > 0
      OBVIOUS
    <2>2. f[n] = Value(n)
      BY <1>2, <2>1
    <2> QED
      BY <2>1, <2>2 DEF Value
  <1>5. f[0] = << >>
    BY <1>2, <1>3
  <1> QED
    BY <1>4, <1>5

\* There is such a function, and Kept is its last value.
LEMMA KeptIsLast ==
  ASSUME NEW T, NEW queue \in Seq(T), NEW wanted
  PROVE  \E f : Keeps(f, queue, wanted) /\ Kept(queue, wanted) = f[Len(queue)]
  <1> DEFINE N == Len(queue)
             V == Seq(T)
             empty == << >>
             step == [i \in 1 .. N |->
                        [list \in V |-> IF queue[i] \in wanted THEN Append(list, queue[i]) ELSE list]]
  <1>1. N \in Nat /\ empty \in V /\ \A i \in 1 .. N : queue[i] \in T
    OBVIOUS
  <1>2. step \in [1 .. N -> [V -> V]]
    BY <1>1
  <1>3. PICK g \in [0 .. N -> V] : Computed(g, N, empty, step)
    <2>1. N \in Nat /\ empty \in V
      BY <1>1
    <2> HIDE DEF step, N, V, empty
    <2> QED
      BY <1>2, <2>1, Recursion
  <1> DEFINE Value(n) == CASE n = 0 -> << >>
                           [] n > 0 /\ queue[n] \in wanted -> Append(g[n - 1], queue[n])
                           [] OTHER -> g[n - 1]
  <1>4. ASSUME NEW n \in 0 .. N PROVE g[n] = Value(n)
    <2>1. CASE n = 0
      BY <1>3, <2>1 DEF Computed
    <2>2. CASE n # 0
      <3>1. n \in 1 .. N /\ n - 1 \in 0 .. N
        BY <1>1, <2>2
      <3>2. g[n - 1] \in V
        BY <1>3, <3>1
      <3>3. g[n] = IF queue[n] \in wanted THEN Append(g[n - 1], queue[n]) ELSE g[n - 1]
        BY <1>3, <3>1, <3>2 DEF Computed
      <3> QED
        BY <3>1, <3>3
    <2> QED
      BY <2>1, <2>2
  <1>5. g = [n \in 0 .. N |-> Value(n)]
    <2> HIDE DEF Value
    <2> QED
      BY <1>3, <1>4
  <1>6. Keeps(g, queue, wanted)
    BY <1>5 DEF Keeps
  <1> DEFINE f == CHOOSE h : Keeps(h, queue, wanted)
  <1>7. Keeps(f, queue, wanted)
    BY <1>6
  <1>8. Kept(queue, wanted) = f[Len(queue)]
    BY DEF Kept, Keeps
  <1> QED
    BY <1>7, <1>8

\* In the order in which they were added.
IsOrdered(list) == \A i, j \in DOMAIN list : i < j => list[i].id < list[j].id

\* One more at the end, added after the others.
LEMMA OrderedAppend ==
  ASSUME NEW list \in Seq(Requests), IsOrdered(list), NEW r \in Requests,
         \A q \in ToSet(list) : q.id < r.id
  PROVE  IsOrdered(Append(list, r)) /\ ToSet(Append(list, r)) = ToSet(list) \cup {r}
  <1> DEFINE longer == Append(list, r)
             N == Len(list)
  <1>1. /\ N \in Nat /\ DOMAIN list = 1 .. N /\ DOMAIN longer = 1 .. N + 1
        /\ longer[N + 1] = r /\ \A n \in 1 .. N : longer[n] = list[n]
    OBVIOUS
  <1> HIDE DEF longer, N
  <1>2. ToSet(longer) = ToSet(list) \cup {r}
    <2>1. 1 .. N + 1 = (1 .. N) \cup {N + 1}
      BY <1>1
    <2> QED
      BY <1>1, <2>1 DEF ToSet
  <1>3. ASSUME NEW i \in 1 .. N + 1, NEW j \in 1 .. N + 1, i < j
        PROVE  longer[i].id < longer[j].id
    <2>1. i \in 1 .. N /\ longer[i] = list[i] /\ list[i] \in ToSet(list)
      BY <1>1, <1>3 DEF ToSet
    <2>2. CASE j = N + 1
      BY <1>1, <2>1, <2>2
    <2>3. CASE j # N + 1
      <3>1. j \in 1 .. N /\ longer[j] = list[j]
        BY <1>1, <2>3
      <3> QED
        BY <1>1, <1>3, <2>1, <3>1 DEF IsOrdered
    <2> QED
      BY <2>2, <2>3
  <1> QED
    BY <1>1, <1>2, <1>3 DEF IsOrdered, longer

\* What is kept is what was wanted, in the order of the queue.
LEMMA KeptRequests ==
  ASSUME NEW queue \in Seq(Requests), IsOrdered(queue), NEW wanted
  PROVE  /\ Kept(queue, wanted) \in Seq(Requests) /\ IsOrdered(Kept(queue, wanted))
         /\ ToSet(Kept(queue, wanted)) = ToSet(queue) \cap wanted
  <1> DEFINE N == Len(queue)
             First(n) == {queue[i] : i \in 1 .. n} \cap wanted
  <1>1. N \in Nat /\ DOMAIN queue = 1 .. N /\ \A n \in 1 .. N : queue[n] \in Requests
    OBVIOUS
  <1>2. PICK f : Keeps(f, queue, wanted) /\ Kept(queue, wanted) = f[N]
    BY KeptIsLast
  <1>3. /\ f[0] = << >>
        /\ \A n \in 1 .. N :
             f[n] = IF queue[n] \in wanted THEN Append(f[n - 1], queue[n]) ELSE f[n - 1]
    BY <1>2, KeepsAt
  <1> DEFINE S == {n \in 0 .. N : /\ f[n] \in Seq(Requests) /\ IsOrdered(f[n])
                                  /\ ToSet(f[n]) = First(n)}
  <1>4. 0 \in S
    <2>1. << >> \in Seq(Requests) /\ IsOrdered(<< >>) /\ ToSet(<< >>) = {}
      BY DEF IsOrdered, ToSet
    <2>2. First(0) = {}
      OBVIOUS
    <2> HIDE DEF First
    <2>3. f[0] \in Seq(Requests) /\ IsOrdered(f[0]) /\ ToSet(f[0]) = First(0)
      BY <1>3, <2>1, <2>2
    <2> QED
      BY <1>1, <2>3
  <1>5. ASSUME NEW n \in 1 .. N, n - 1 \in S PROVE n \in S
    <2>1. f[n - 1] \in Seq(Requests) /\ IsOrdered(f[n - 1]) /\ ToSet(f[n - 1]) = First(n - 1)
      BY <1>5
    <2>2. 1 .. n = (1 .. n - 1) \cup {n}
      BY <1>1
    <2>3. First(n) = IF queue[n] \in wanted THEN First(n - 1) \cup {queue[n]} ELSE First(n - 1)
      BY <2>2
    <2>4. \A q \in First(n - 1) : q.id < queue[n].id
      BY <1>1 DEF IsOrdered
    <2>5. queue[n] \in Requests
      BY <1>1
    <2> HIDE DEF First
    <2>6. f[n] \in Seq(Requests) /\ IsOrdered(f[n]) /\ ToSet(f[n]) = First(n)
      <3>1. CASE queue[n] \in wanted
        <4>1. f[n] = Append(f[n - 1], queue[n])
          BY <1>3, <3>1
        <4>2. /\ IsOrdered(Append(f[n - 1], queue[n]))
              /\ ToSet(Append(f[n - 1], queue[n])) = ToSet(f[n - 1]) \cup {queue[n]}
          BY <2>1, <2>4, <2>5, OrderedAppend
        <4>3. Append(f[n - 1], queue[n]) \in Seq(Requests)
          BY <2>1, <2>5
        <4> QED
          BY <2>1, <2>3, <3>1, <4>1, <4>2, <4>3
      <3>2. CASE queue[n] \notin wanted
        BY <1>3, <2>1, <2>3, <3>2
      <3> QED
        BY <3>1, <3>2
    <2> QED
      BY <2>6
  <1>6. N \in S
    <2> HIDE DEF S
    <2>1. Inductive(S, N)
      BY <1>4, <1>5 DEF Inductive
    <2> QED
      BY <1>1, <2>1, CountUp
  <1>7. First(N) = ToSet(queue) \cap wanted
    BY <1>1 DEF ToSet
  <1> QED
    BY <1>2, <1>6, <1>7

\* What is served before what is left: another request, and of those with the
\* same key the one that was added first.
Before(r, q) == r.id # q.id /\ (r.key = q.key => r.id < q.id)

\* taken leaves a queue of which rest remains, in turn.
Splits(queue, taken, rest) ==
  /\ taken \in Seq(Requests) /\ rest \in Seq(Requests)
  /\ IsOrdered(taken) /\ IsOrdered(rest)
  /\ ToSet(taken) \cup ToSet(rest) = ToSet(queue)
  /\ \A r \in ToSet(taken), q \in ToSet(rest) : Before(r, q)

\* The Min and Max of the library, of two numbers.
LEMMA OfTwo ==
  ASSUME NEW m \in Int, NEW n \in Int
  PROVE  /\ Min({m, n}) = IF m <= n THEN m ELSE n
         /\ Max({m, n}) = IF m <= n THEN n ELSE m
  <1>1. ASSUME NEW k \in {m, n}, \A j \in {m, n} : k <= j PROVE Min({m, n}) = k
    BY <1>1 DEF Min
  <1>2. ASSUME NEW k \in {m, n}, \A j \in {m, n} : k >= j PROVE Max({m, n}) = k
    BY <1>2 DEF Max
  <1>3. CASE m <= n
    BY <1>1, <1>2, <1>3
  <1>4. CASE ~(m <= n)
    BY <1>1, <1>2, <1>4
  <1> QED
    BY <1>3, <1>4

\* Ids are numbers.
LEMMA RequestIds == \A r \in Requests : r.id \in Nat
  BY DEF Requests

\* The first requests of a queue split it.
LEMMA PrefixSplits ==
  ASSUME NEW queue \in Seq(Requests), IsOrdered(queue), NEW n \in Nat
  PROVE  /\ Splits(queue, Prefix(queue, n), Rest(queue, n))
         /\ Len(Prefix(queue, n)) = IF n <= Len(queue) THEN n ELSE Len(queue)
         /\ \A i \in DOMAIN Prefix(queue, n) : i \in DOMAIN queue /\ Prefix(queue, n)[i] = queue[i]
         /\ Len(Rest(queue, n)) = IF n <= Len(queue) THEN Len(queue) - n ELSE 0
         /\ \A r \in ToSet(Prefix(queue, n)), q \in ToSet(Rest(queue, n)) : r.id < q.id
  <1> DEFINE N == Len(queue)
             m == IF n <= N THEN n ELSE N
             taken == Prefix(queue, n)
             rest == Rest(queue, n)
  <1>1. /\ N \in Nat /\ DOMAIN queue = 1 .. N /\ \A i \in 1 .. N : queue[i] \in Requests
        /\ m \in 0 .. N
    OBVIOUS
  <1>2. Min({n, N}) = m
    BY <1>1, OfTwo
  <1>3. /\ taken \in Seq(Requests) /\ Len(taken) = m /\ DOMAIN taken = 1 .. m
        /\ \A i \in 1 .. m : taken[i] = queue[i]
    <2>1. taken = SubSeq(queue, 1, m)
      BY <1>2 DEF Prefix
    <2> HIDE DEF taken, m
    <2> QED
      BY <1>1, <2>1
  <1>4. /\ rest \in Seq(Requests) /\ Len(rest) = N - m /\ DOMAIN rest = 1 .. N - m
        /\ \A i \in 1 .. N - m : rest[i] = queue[m + i]
    <2>1. rest = SubSeq(queue, n + 1, N)
      BY DEF Rest
    <2>2. CASE n <= N
      <3>1. m = n
        BY <2>2
      <3>2. m + 1 \in 1 .. N + 1 /\ N \in m .. N
        BY <1>1
      <3>3. rest = SubSeq(queue, m + 1, N)
        BY <2>1, <3>1
      <3> HIDE DEF rest, m, N
      <3>4. /\ SubSeq(queue, m + 1, N) \in Seq(Requests)
            /\ Len(SubSeq(queue, m + 1, N)) = N - m
            /\ \A i \in 1 .. N - m : SubSeq(queue, m + 1, N)[i] = queue[m + i]
        <4> DEFINE k == m + 1
        <4>1. k \in Int /\ N \in Int /\ \A i \in k .. N : queue[i] \in Requests
          BY <1>1
        <4>2. /\ N - k + 1 = N - m /\ (IF k <= N THEN N - k + 1 ELSE 0) = N - m
              /\ \A i \in 1 .. N - m : k + i - 1 = m + i
          BY <1>1
        <4> HIDE DEF k
        <4>3. /\ SubSeq(queue, k, N) \in Seq(Requests)
              /\ Len(SubSeq(queue, k, N)) = IF k <= N THEN N - k + 1 ELSE 0
              /\ \A i \in 1 .. N - k + 1 : SubSeq(queue, k, N)[i] = queue[k + i - 1]
          BY <4>1, SubSeqProperties
        <4>4. \A i \in 1 .. N - m : SubSeq(queue, k, N)[i] = queue[m + i]
          BY <4>2, <4>3
        <4> QED
          BY <4>2, <4>3, <4>4 DEF k
      <3>5. DOMAIN rest = 1 .. Len(rest)
        BY <3>3, <3>4
      <3> QED
        BY <3>3, <3>4, <3>5
    <2>3. CASE ~(n <= N)
      <3>1. m = N
        BY <2>3
      <3>2. rest = << >>
        BY <1>1, <2>1, <2>3
      <3>3. /\ << >> \in Seq(Requests) /\ Len(<< >>) = 0 /\ DOMAIN << >> = {}
            /\ N - N = 0 /\ 1 .. 0 = {}
        BY <1>1
      <3> HIDE DEF rest, m, N
      <3> QED
        BY <3>1, <3>2, <3>3
    <2> QED
      BY <2>2, <2>3
  <1> HIDE DEF taken, rest
  <1>5. Len(taken) = (IF n <= N THEN n ELSE N) /\ Len(rest) = (IF n <= N THEN N - n ELSE 0)
    <2> HIDE DEF N
    <2>1. N - N = 0
      BY <1>1
    <2> QED
      BY <1>3, <1>4, <2>1
  <1> HIDE DEF taken, rest, m, N
  <1>6. IsOrdered(taken)
    <2>1. ASSUME NEW i \in 1 .. m, NEW j \in 1 .. m, i < j PROVE taken[i].id < taken[j].id
      <3>1. i \in 1 .. N /\ j \in 1 .. N
        BY <1>1
      <3> QED
        BY <1>1, <1>3, <2>1, <3>1 DEF IsOrdered
    <2> QED
      BY <1>3, <2>1 DEF IsOrdered
  <1>7. IsOrdered(rest)
    <2>1. ASSUME NEW i \in 1 .. N - m, NEW j \in 1 .. N - m, i < j PROVE rest[i].id < rest[j].id
      <3>1. m + i \in 1 .. N /\ m + j \in 1 .. N /\ m + i < m + j
        BY <1>1, <2>1
      <3> QED
        BY <1>1, <1>4, <3>1 DEF IsOrdered
    <2> QED
      BY <1>4, <2>1 DEF IsOrdered
  <1>8. ToSet(taken) \cup ToSet(rest) = ToSet(queue)
    <2>1. ASSUME NEW i \in 1 .. N PROVE queue[i] \in ToSet(taken) \cup ToSet(rest)
      <3>1. CASE i <= m
        <4>1. i \in 1 .. m
          BY <1>1, <3>1
        <4> QED
          BY <1>3, <4>1 DEF ToSet
      <3>2. CASE ~(i <= m)
        <4>1. i - m \in 1 .. N - m /\ m + (i - m) = i
          BY <1>1, <3>2
        <4> QED
          BY <1>4, <4>1 DEF ToSet
      <3> QED
        BY <3>1, <3>2
    <2>2. \A i \in 1 .. m : i \in 1 .. N
      BY <1>1
    <2>3. \A i \in 1 .. N - m : m + i \in 1 .. N
      BY <1>1
    <2>4. \A r \in ToSet(taken) : r \in ToSet(queue)
      BY <1>1, <1>3, <2>2 DEF ToSet
    <2>5. \A r \in ToSet(rest) : r \in ToSet(queue)
      BY <1>1, <1>4, <2>3 DEF ToSet
    <2>6. \A r \in ToSet(queue) : r \in ToSet(taken) \cup ToSet(rest)
      <3>1. \A r \in ToSet(queue) : \E i \in 1 .. N : r = queue[i]
        BY <1>1 DEF ToSet
      <3> QED
        BY <2>1, <3>1
    <2> QED
      BY <2>4, <2>5, <2>6
  <1>9. ASSUME NEW r \in ToSet(taken), NEW q \in ToSet(rest)
        PROVE  r.id < q.id /\ Before(r, q)
    <2>1. PICK i \in 1 .. m : r = queue[i]
      BY <1>3 DEF ToSet
    <2>2. PICK j \in 1 .. N - m : q = queue[m + j]
      BY <1>4 DEF ToSet
    <2>3. i \in 1 .. N /\ m + j \in 1 .. N /\ i < m + j
      BY <1>1
    <2>4. r.id < q.id
      BY <1>1, <2>1, <2>2, <2>3 DEF IsOrdered
    <2>5. r.id \in Nat /\ q.id \in Nat
      <3>1. r \in Requests /\ q \in Requests
        BY <1>1, <2>1, <2>2, <2>3
      <3> QED
        BY <3>1, RequestIds
    <2> QED
      BY <2>4, <2>5 DEF Before
  <1>10. \A i \in DOMAIN taken : i \in DOMAIN queue /\ taken[i] = queue[i]
    BY <1>1, <1>3
  <1>11. Splits(queue, taken, rest)
    BY <1>3, <1>4, <1>6, <1>7, <1>8, <1>9 DEF Splits
  <1> QED
    BY <1>5, <1>9, <1>10, <1>11 DEF taken, rest, N

-----------------------------------------------------------------------------
(* What is invariant of the batchers *)

\* Requests wait in their lanes, in the order in which they were added, each in
\* one lane only.
LanesInv ==
  /\ batcher \in Batchers /\ added \in 0 .. MaxRequests
  /\ queues \in [Priorities -> Seq(Requests)]
  /\ \A lane \in Priorities :
       /\ IsOrdered(queues[lane])
       /\ \A r \in ToSet(queues[lane]) :
            /\ r.id <= added /\ r.key \in Keys /\ LaneOf(r.key) = lane
            /\ \A other \in Priorities \ {lane} : \A q \in ToSet(queues[other]) : r.id # q.id

\* The size and the latencies of the adaptive batcher.
SizeInv ==
  /\ currentSize \in MinBatch .. MaxBatch
  /\ latencies \in Seq(0 .. 2) /\ Len(latencies) <= Window

\* How many requests a batch may hold.
Fits(batch) ==
  Len(batch) \in 1 .. IF Head(batch).key = "express" THEN ExpressBatch ELSE MaxBatch

BatchesInv ==
  /\ batches \in Seq(Seq(Requests))
  /\ \A i \in DOMAIN batches : Fits(batches[i])

\* Each of the list comes before those after it.
InTurn(list) == \A i, j \in DOMAIN list : i < j => Before(list[i], list[j])

\* What was collected came in turn, and before all that waits; what was added is
\* somewhere.
CollectedInv ==
  /\ InTurn(Collected)
  /\ \A r \in ToSet(Collected) :
       /\ r.id <= added
       /\ \A lane \in Priorities : \A q \in ToSet(queues[lane]) : Before(r, q)
  /\ \A id \in 1 .. added :
       \/ \E r \in ToSet(Collected) : r.id = id
       \/ \E lane \in Priorities : \E r \in ToSet(queues[lane]) : r.id = id

BatchingInv == LanesInv /\ SizeInv /\ BatchesInv /\ CollectedInv

BatchingConstants ==
  /\ MinBatch \in Nat \ {0} /\ MaxBatch \in Nat \ {0} /\ ExpressBatch \in Nat \ {0}
  /\ Window \in Nat \ {0} /\ SeedLength \in Nat \ {0} /\ MaxRequests \in Nat \ {0}
  /\ MaxWait \in Nat /\ MinBatch <= MaxBatch
  /\ \A text \in Texts : Content[text] \in Seq(Nat)
  /\ Priorities \cap Texts = {}

\* This is what BatchingAssumption says.
LEMMA BatchingConstantsHold == BatchingConstants
  BY BatchingAssumption DEF BatchingAssumption, BatchingConstants, Priorities, Texts

\* It holds at first: nothing was added, nothing was collected.
LEMMA BatchingInvInit == BatchingInit => BatchingInv
  <1> SUFFICES ASSUME BatchingInit PROVE BatchingInv
    OBVIOUS
  <1> USE BatchingConstantsHold
  <1>1. ToSet(<< >>) = {} /\ IsOrdered(<< >>) /\ InTurn(<< >>)
    BY DEF ToSet, IsOrdered, InTurn
  <1>2. Collected = << >>
    BY DEF BatchingInit, Collected, FlattenSeq
  <1>3. \A lane \in Priorities : queues[lane] = << >>
    BY DEF BatchingInit
  <1>4. LanesInv
    <2>1. queues \in [Priorities -> Seq(Requests)]
      BY DEF BatchingInit
    <2>2. batcher \in Batchers /\ added \in 0 .. MaxRequests
      BY DEF BatchingInit, BatchingConstants
    <2> QED
      BY <1>1, <1>3, <2>1, <2>2 DEF LanesInv
  <1>5. SizeInv
    BY DEF BatchingInit, SizeInv, BatchingConstants
  <1>6. BatchesInv
    BY DEF BatchingInit, BatchesInv
  <1>7. CollectedInv
    BY <1>1, <1>2 DEF CollectedInv, BatchingInit
  <1> QED
    BY <1>4, <1>5, <1>6, <1>7 DEF BatchingInv

\* A batch served in turn: who is in it leaves its lane, and comes before
\* everybody who stays.
Serves(batch) ==
  /\ batch \in Seq(Requests) /\ InTurn(batch)
  /\ queues' \in [Priorities -> Seq(Requests)]
  /\ \A r \in ToSet(batch) : \E lane \in Priorities : r \in ToSet(queues[lane])
  /\ \A lane \in Priorities :
       /\ IsOrdered(queues'[lane])
       /\ \A q \in ToSet(queues'[lane]) :
            q \in ToSet(queues[lane]) /\ \A r \in ToSet(batch) : Before(r, q)
       /\ \A r \in ToSet(queues[lane]) : r \in ToSet(batch) \/ r \in ToSet(queues'[lane])

\* What is in two lists is in their concatenation.
LEMMA ConcatSet ==
  ASSUME NEW T, NEW s \in Seq(T), NEW t \in Seq(T)
  PROVE  ToSet(s \o t) = ToSet(s) \cup ToSet(t)
  <1> DEFINE m == Len(s)
             n == Len(t)
             both == s \o t
  <1>1. /\ m \in Nat /\ n \in Nat /\ DOMAIN s = 1 .. m /\ DOMAIN t = 1 .. n
        /\ DOMAIN both = 1 .. m + n /\ \A i \in 1 .. m : both[i] = s[i]
        /\ \A i \in 1 .. n : both[m + i] = t[i]
    OBVIOUS
  <1> HIDE DEF m, n, both
  <1>2. ASSUME NEW i \in 1 .. m + n PROVE both[i] \in ToSet(s) \cup ToSet(t)
    <2>1. CASE i <= m
      <3>1. i \in 1 .. m
        BY <1>1, <2>1
      <3> QED
        BY <1>1, <3>1 DEF ToSet
    <2>2. CASE ~(i <= m)
      <3>1. i - m \in 1 .. n /\ m + (i - m) = i
        BY <1>1, <2>2
      <3> QED
        BY <1>1, <3>1 DEF ToSet
    <2> QED
      BY <2>1, <2>2
  <1>3. \A i \in 1 .. m : i \in 1 .. m + n
    BY <1>1
  <1>4. \A i \in 1 .. n : m + i \in 1 .. m + n
    BY <1>1
  <1>5. \A x \in ToSet(both) : x \in ToSet(s) \cup ToSet(t)
    <2>1. \A x \in ToSet(both) : \E i \in 1 .. m + n : x = both[i]
      BY <1>1 DEF ToSet
    <2> QED
      BY <1>2, <2>1
  <1>6. \A x \in ToSet(s) : x \in ToSet(both)
    BY <1>1, <1>3 DEF ToSet
  <1>7. \A x \in ToSet(t) : x \in ToSet(both)
    BY <1>1, <1>4 DEF ToSet
  <1> QED
    BY <1>5, <1>6, <1>7 DEF both

\* Two lists in turn, the first before the second.
LEMMA ConcatInTurn ==
  ASSUME NEW s \in Seq(Requests), NEW t \in Seq(Requests), InTurn(s), InTurn(t),
         \A r \in ToSet(s), q \in ToSet(t) : Before(r, q)
  PROVE  InTurn(s \o t)
  <1> DEFINE m == Len(s)
             n == Len(t)
             both == s \o t
  <1>1. /\ m \in Nat /\ n \in Nat /\ DOMAIN s = 1 .. m /\ DOMAIN t = 1 .. n
        /\ DOMAIN both = 1 .. m + n /\ \A i \in 1 .. m : both[i] = s[i]
        /\ \A i \in m + 1 .. m + n : both[i] = t[i - m]
    OBVIOUS
  <1> HIDE DEF m, n, both
  <1>2. ASSUME NEW i \in 1 .. m + n, NEW j \in 1 .. m + n, i < j PROVE Before(both[i], both[j])
    <2>1. CASE j <= m
      <3>1. i \in 1 .. m /\ j \in 1 .. m
        BY <1>1, <1>2, <2>1
      <3> QED
        BY <1>1, <1>2, <3>1 DEF InTurn
    <2>2. CASE i <= m /\ ~(j <= m)
      <3>1. i \in 1 .. m /\ j \in m + 1 .. m + n /\ j - m \in 1 .. n
        BY <1>1, <2>2
      <3>2. both[i] \in ToSet(s) /\ both[j] \in ToSet(t)
        BY <1>1, <3>1 DEF ToSet
      <3> QED
        BY <3>2
    <2>3. CASE ~(i <= m)
      <3>1. /\ i \in m + 1 .. m + n /\ j \in m + 1 .. m + n
            /\ i - m \in 1 .. n /\ j - m \in 1 .. n /\ i - m < j - m
        BY <1>1, <1>2, <2>3
      <3> QED
        BY <1>1, <3>1 DEF InTurn
    <2> QED
      BY <1>1, <2>1, <2>2, <2>3
  <1> QED
    BY <1>1, <1>2 DEF InTurn, both

\* What was collected is a list of requests.
LEMMA CollectedType ==
  ASSUME BatchesInv
  PROVE  Collected \in Seq(Requests)
  BY FlattenType DEF BatchesInv, Collected

\* A batch served in turn keeps the order of the history; an empty one is none.
LEMMA ServesKeeps ==
  ASSUME LanesInv, BatchesInv, CollectedInv, NEW batch, Serves(batch),
         batch # << >> => Fits(batch),
         batches' = IF batch = << >> THEN batches ELSE Append(batches, batch),
         UNCHANGED << batcher, added >>
  PROVE  LanesInv' /\ BatchesInv' /\ CollectedInv'
  <1>1. batch \in Seq(Requests) /\ batches \in Seq(Seq(Requests)) /\ Collected \in Seq(Requests)
    BY CollectedType DEF Serves, BatchesInv
  <1>2. Collected' = Collected \o batch
    <2>1. CASE batch = << >>
      <3>1. Collected' = Collected
        BY <2>1 DEF Collected
      <3>2. Collected \o << >> = Collected
        BY <1>1
      <3> QED
        BY <2>1, <3>1, <3>2
    <2>2. CASE batch # << >>
      BY <1>1, <2>2, FlattenAppend DEF Collected
    <2> QED
      BY <2>1, <2>2
  <1>3. ToSet(Collected') = ToSet(Collected) \cup ToSet(batch)
    BY <1>1, <1>2, ConcatSet
  <1>4. LanesInv'
    <2>1. /\ batcher' \in Batchers /\ added' \in 0 .. MaxRequests
          /\ queues' \in [Priorities -> Seq(Requests)]
      BY DEF LanesInv, Serves
    <2>2. ASSUME NEW lane \in Priorities, NEW r \in ToSet(queues'[lane])
          PROVE  /\ r.id <= added' /\ r.key \in Keys' /\ LaneOf(r.key)' = lane
                 /\ \A other \in Priorities \ {lane} : \A q \in ToSet(queues'[other]) : r.id # q.id
      <3>1. r \in ToSet(queues[lane])
        BY DEF Serves
      <3>2. ASSUME NEW other \in Priorities \ {lane}, NEW q \in ToSet(queues'[other])
            PROVE  r.id # q.id
        <4>1. q \in ToSet(queues[other])
          BY DEF Serves
        <4> QED
          BY <3>1, <4>1 DEF LanesInv
      <3>3. Keys' = Keys /\ LaneOf(r.key)' = LaneOf(r.key)
        BY DEF Keys, LaneOf
      <3> QED
        BY <3>1, <3>2, <3>3 DEF LanesInv
    <2>3. \A lane \in Priorities : IsOrdered(queues'[lane])
      BY DEF Serves
    <2> QED
      BY <2>1, <2>2, <2>3 DEF LanesInv
  <1>5. ASSUME batch # << >> PROVE BatchesInv'
    <2>1. batches' \in Seq(Seq(Requests))
      <3> DEFINE V == Seq(Requests)
      <3>1. batch \in V /\ batches \in Seq(V)
        BY <1>1
      <3> HIDE DEF V
      <3>2. Append(batches, batch) \in Seq(V)
        BY <3>1
      <3> QED
        BY <1>5, <3>2 DEF V
    <2>2. ASSUME NEW i \in DOMAIN batches' PROVE Fits(batches'[i])
      <3>1. CASE i \in DOMAIN batches
        BY <1>1, <1>5, <3>1 DEF BatchesInv
      <3>2. CASE i \notin DOMAIN batches
        BY <1>1, <1>5, <2>2, <3>2
      <3> QED
        BY <3>1, <3>2
    <2> QED
      BY <2>1, <2>2 DEF BatchesInv, Fits
  <1>6. BatchesInv'
    <2>1. batch = << >> => batches' = batches
      OBVIOUS
    <2> QED
      BY <1>5, <2>1 DEF BatchesInv, Fits
  <1>7. InTurn(Collected')
    <2>1. ASSUME NEW r \in ToSet(Collected), NEW q \in ToSet(batch) PROVE Before(r, q)
      <3>1. PICK lane \in Priorities : q \in ToSet(queues[lane])
        BY DEF Serves
      <3> QED
        BY <3>1 DEF CollectedInv
    <2>2. InTurn(Collected) /\ InTurn(batch)
      BY DEF CollectedInv, Serves
    <2> QED
      BY <1>1, <1>2, <2>1, <2>2, ConcatInTurn
  <1>8. ASSUME NEW r \in ToSet(Collected')
        PROVE  /\ r.id <= added'
               /\ \A lane \in Priorities : \A q \in ToSet(queues'[lane]) : Before(r, q)
    <2>1. CASE r \in ToSet(Collected)
      <3>1. r.id <= added'
        BY <2>1 DEF CollectedInv
      <3>2. \A lane \in Priorities : \A q \in ToSet(queues'[lane]) : q \in ToSet(queues[lane])
        BY DEF Serves
      <3> QED
        BY <2>1, <3>1, <3>2 DEF CollectedInv
    <2>2. CASE r \in ToSet(batch)
      <3>1. PICK lane \in Priorities : r \in ToSet(queues[lane])
        BY <2>2 DEF Serves
      <3>2. r.id <= added'
        BY <3>1 DEF LanesInv
      <3> QED
        BY <2>2, <3>2 DEF Serves
    <2> QED
      BY <1>3, <2>1, <2>2
  <1>9. ASSUME NEW id \in 1 .. added'
        PROVE  \/ \E r \in ToSet(Collected') : r.id = id
               \/ \E lane \in Priorities : \E r \in ToSet(queues'[lane]) : r.id = id
    <2>1. CASE \E r \in ToSet(Collected) : r.id = id
      BY <1>3, <2>1
    <2>2. CASE \E lane \in Priorities : \E r \in ToSet(queues[lane]) : r.id = id
      <3>1. PICK lane \in Priorities : \E r \in ToSet(queues[lane]) : r.id = id
        BY <2>2
      <3>2. PICK r \in ToSet(queues[lane]) : r.id = id
        BY <3>1
      <3>3. r \in ToSet(batch) \/ r \in ToSet(queues'[lane])
        BY DEF Serves
      <3> QED
        BY <1>3, <3>2, <3>3
    <2>3. id \in 1 .. added
      OBVIOUS
    <2> QED
      BY <2>1, <2>2, <2>3 DEF CollectedInv
  <1>10. CollectedInv'
    BY <1>7, <1>8, <1>9 DEF CollectedInv
  <1> QED
    BY <1>4, <1>6, <1>10

\* Ordered requests come in turn.
LEMMA OrderedInTurn ==
  ASSUME NEW list \in Seq(Requests), IsOrdered(list)
  PROVE  InTurn(list)
  <1>1. ASSUME NEW i \in DOMAIN list, NEW j \in DOMAIN list, i < j PROVE Before(list[i], list[j])
    <2>1. list[i] \in Requests /\ list[j] \in Requests
      OBVIOUS
    <2>2. list[i].id \in Nat /\ list[j].id \in Nat
      BY <2>1, RequestIds
    <2>3. list[i].id < list[j].id
      BY <1>1 DEF IsOrdered
    <2> QED
      BY <2>2, <2>3 DEF Before
  <1> QED
    BY <1>1 DEF InTurn

\* Requests in different lanes can be told apart.
LEMMA LanesApart ==
  ASSUME LanesInv, NEW lane \in Priorities, NEW other \in Priorities, lane # other,
         NEW r \in ToSet(queues[lane]), NEW q \in ToSet(queues[other])
  PROVE  r.id # q.id /\ r.key # q.key
  BY DEF LanesInv

\* A batch from one lane.
LEMMA OneLaneServes ==
  ASSUME LanesInv, NEW lane \in Priorities, NEW taken, NEW rest,
         Splits(queues[lane], taken, rest), queues' = [queues EXCEPT ![lane] = rest]
  PROVE  Serves(taken)
  <1>1. /\ taken \in Seq(Requests) /\ rest \in Seq(Requests) /\ IsOrdered(taken) /\ IsOrdered(rest)
        /\ ToSet(taken) \cup ToSet(rest) = ToSet(queues[lane])
        /\ \A r \in ToSet(taken), q \in ToSet(rest) : Before(r, q)
    BY DEF Splits
  <1>2. /\ queues \in [Priorities -> Seq(Requests)]
        /\ \A other \in Priorities : IsOrdered(queues[other])
    BY DEF LanesInv
  <1>3. InTurn(taken)
    BY <1>1, OrderedInTurn
  <1>4. queues' \in [Priorities -> Seq(Requests)] /\ queues'[lane] = rest
    BY <1>1, <1>2
  <1>5. \A other \in Priorities : other # lane => queues'[other] = queues[other]
    BY <1>2
  <1>6. ASSUME NEW other \in Priorities, NEW q \in ToSet(queues'[other])
        PROVE  q \in ToSet(queues[other]) /\ \A r \in ToSet(taken) : Before(r, q)
    <2>1. CASE other = lane
      BY <1>1, <1>4, <2>1
    <2>2. CASE other # lane
      <3>1. q \in ToSet(queues[other])
        BY <1>5, <2>2
      <3>2. ASSUME NEW r \in ToSet(taken) PROVE Before(r, q)
        <4>1. r \in ToSet(queues[lane])
          BY <1>1
        <4>2. r.id # q.id /\ r.key # q.key
          BY <2>2, <3>1, <4>1, LanesApart
        <4> QED
          BY <4>2 DEF Before
      <3> QED
        BY <3>1, <3>2
    <2> QED
      BY <2>1, <2>2
  <1>7. \A other \in Priorities : IsOrdered(queues'[other])
    BY <1>1, <1>2, <1>4, <1>5
  <1>8. \A other \in Priorities : \A r \in ToSet(queues[other]) :
          r \in ToSet(taken) \/ r \in ToSet(queues'[other])
    BY <1>1, <1>4, <1>5
  <1>9. \A r \in ToSet(taken) : \E other \in Priorities : r \in ToSet(queues[other])
    BY <1>1
  <1> QED
    BY <1>1, <1>3, <1>4, <1>6, <1>7, <1>8, <1>9 DEF Serves

\* An id identifies a request of a queue, and the head has the least one.
LEMMA OrderedIds ==
  ASSUME NEW queue \in Seq(Requests), IsOrdered(queue)
  PROVE  /\ \A r, q \in ToSet(queue) : r.id = q.id => r = q
         /\ queue # << >> => /\ Head(queue) \in ToSet(queue)
                             /\ \A r \in ToSet(queue) : Head(queue).id <= r.id
  <1>1. /\ DOMAIN queue = 1 .. Len(queue) /\ Len(queue) \in Nat
        /\ \A i \in DOMAIN queue : queue[i].id \in Nat
    <2>1. \A i \in DOMAIN queue : queue[i] \in Requests
      OBVIOUS
    <2> QED
      BY <2>1, RequestIds
  <1>2. ASSUME NEW r \in ToSet(queue), NEW q \in ToSet(queue), r.id = q.id PROVE r = q
    <2>1. PICK i \in DOMAIN queue : r = queue[i]
      BY DEF ToSet
    <2>2. PICK j \in DOMAIN queue : q = queue[j]
      BY DEF ToSet
    <2>3. ~(i < j) /\ ~(j < i)
      BY <1>1, <1>2, <2>1, <2>2 DEF IsOrdered
    <2> QED
      BY <1>1, <2>1, <2>2, <2>3
  <1>3. ASSUME queue # << >>
        PROVE  Head(queue) \in ToSet(queue) /\ \A r \in ToSet(queue) : Head(queue).id <= r.id
    <2>1. Head(queue) = queue[1] /\ 1 \in DOMAIN queue
      BY <1>3
    <2>2. ASSUME NEW i \in DOMAIN queue PROVE queue[1].id <= queue[i].id
      <3>1. CASE i = 1
        BY <1>1, <3>1
      <3>2. CASE i # 1
        <4>1. 1 < i
          BY <1>1, <3>2
        <4>2. queue[1].id < queue[i].id
          BY <2>1, <4>1 DEF IsOrdered
        <4> QED
          BY <1>1, <2>1, <4>2
      <3> QED
        BY <3>1, <3>2
    <2> QED
      BY <2>1, <2>2 DEF ToSet
  <1> QED
    BY <1>2, <1>3

\* A text starts with its own leading text.
LEMMA OwnSeed ==
  ASSUME NEW text \in Seq(Nat), NEW n \in Nat
  PROVE  IsPrefix(Prefix(text, n), text)
  <1> DEFINE N == Len(text)
             m == IF n <= N THEN n ELSE N
             seed == Prefix(text, n)
  <1>1. N \in Nat /\ m \in 0 .. N /\ \A i \in 1 .. N : text[i] \in Nat
    OBVIOUS
  <1>2. seed = SubSeq(text, 1, m)
    <2>1. Min({n, N}) = m
      BY <1>1, OfTwo
    <2> QED
      BY <2>1 DEF Prefix
  <1> HIDE DEF seed, m, N
  <1>3. seed \in Seq(Nat) /\ Len(seed) = m /\ \A i \in 1 .. m : seed[i] = text[i]
    BY <1>1, <1>2 DEF N
  <1>4. SubSeq(seed, 1, m) = seed
    BY <1>1, <1>3
  <1>5. Len(seed) <= Len(text) /\ SubSeq(seed, 1, Len(seed)) = SubSeq(text, 1, Len(seed))
    BY <1>1, <1>2, <1>3, <1>4 DEF N
  <1> QED
    BY <1>5 DEF IsPrefix, seed

\* What the semantic batcher selects: requests from one queue that their head
\* belongs to, and none that shares its text with an earlier one left behind.
LEMMA SimilarSplits ==
  ASSUME NEW queue \in Seq(Requests), IsOrdered(queue), queue # << >>,
         \A r \in ToSet(queue) : r.key \in Texts
  PROVE  LET selected == Prefix(Similar(queue), MaxBatch)
         IN  /\ Splits(queue, selected, Without(queue, selected))
             /\ Len(selected) \in 1 .. MaxBatch /\ Head(queue) \in ToSet(selected)
  <1> DEFINE seed == Prefix(Content[Head(queue).key], SeedLength)
             alike == {r \in ToSet(queue) : IsPrefix(seed, Content[r.key])}
             similar == Similar(queue)
             selected == Prefix(similar, MaxBatch)
             other == {r \in ToSet(queue) : \A q \in ToSet(selected) : r.id # q.id}
             without == Without(queue, selected)
  <1>1. similar = Kept(queue, alike) /\ without = Kept(queue, other)
    BY DEF Similar, Without
  <1>2. /\ Head(queue) \in ToSet(queue) /\ \A r \in ToSet(queue) : Head(queue).id <= r.id
        /\ \A r, q \in ToSet(queue) : r.id = q.id => r = q
    BY OrderedIds
  <1>3. Head(queue) \in alike
    <2>1. Content[Head(queue).key] \in Seq(Nat) /\ SeedLength \in Nat
      BY <1>2, BatchingConstantsHold DEF BatchingConstants
    <2>2. IsPrefix(seed, Content[Head(queue).key])
      BY <2>1, OwnSeed
    <2> QED
      BY <1>2, <2>2
  <1>4. \A r \in alike, q \in ToSet(queue) : r.key = q.key => q \in alike
    OBVIOUS
  <1>5. alike \subseteq ToSet(queue) /\ other \subseteq ToSet(queue)
    OBVIOUS
  <1>6. \A r \in ToSet(queue) : r \in other <=> \A q \in ToSet(selected) : r.id # q.id
    OBVIOUS
  <1> HIDE DEF alike, similar, other, without, seed
  <1>7. similar \in Seq(Requests) /\ IsOrdered(similar) /\ ToSet(similar) = alike
    BY <1>1, <1>5, KeptRequests
  <1>8. without \in Seq(Requests) /\ IsOrdered(without) /\ ToSet(without) = other
    BY <1>1, <1>5, KeptRequests
  <1> DEFINE later == Rest(similar, MaxBatch)
  <1>9. MaxBatch \in Nat /\ MaxBatch >= 1
    BY BatchingConstantsHold DEF BatchingConstants
  <1>10. /\ Splits(similar, selected, later)
         /\ Len(selected) = IF MaxBatch <= Len(similar) THEN MaxBatch ELSE Len(similar)
         /\ \A r \in ToSet(selected), q \in ToSet(later) : r.id < q.id
    BY <1>7, <1>9, PrefixSplits
  <1> HIDE DEF selected, later
  <1>11. /\ selected \in Seq(Requests) /\ IsOrdered(selected)
         /\ ToSet(selected) \cup ToSet(later) = alike
    BY <1>7, <1>10 DEF Splits
  <1>12. Len(selected) \in 1 .. MaxBatch
    <2>1. similar # << >>
      <3>1. ToSet(<< >>) = {}
        BY DEF ToSet
      <3> QED
        BY <1>3, <1>7, <3>1
    <2>2. Len(similar) \in Nat /\ Len(similar) >= 1
      BY <1>7, <2>1
    <2> QED
      BY <1>9, <1>10, <2>2
  <1>13. ToSet(selected) \cup ToSet(without) = ToSet(queue)
    <2>1. ASSUME NEW r \in ToSet(queue), r \notin other PROVE r \in ToSet(selected)
      <3>1. PICK q \in ToSet(selected) : r.id = q.id
        BY <1>6, <2>1
      <3>2. q \in ToSet(queue)
        BY <1>5, <1>11
      <3> QED
        BY <1>2, <3>1, <3>2
    <2> QED
      BY <1>5, <1>8, <1>11, <2>1
  <1>14. ASSUME NEW r \in ToSet(selected), NEW q \in ToSet(without) PROVE Before(r, q)
    <2>1. q \in ToSet(queue) /\ q.id # r.id /\ q \notin ToSet(selected)
      BY <1>5, <1>6, <1>8
    <2>2. r.key = q.key => q \in ToSet(later)
      BY <1>4, <1>11, <2>1
    <2> QED
      BY <1>10, <2>1, <2>2 DEF Before
  <1>15. Head(queue) \in ToSet(selected)
    <2> SUFFICES ASSUME Head(queue) \notin ToSet(selected) PROVE FALSE
      OBVIOUS
    <2>1. Head(queue) \in ToSet(later)
      BY <1>3, <1>11
    <2>2. selected[1] \in ToSet(selected)
      BY <1>11, <1>12 DEF ToSet
    <2>3. selected[1].id < Head(queue).id /\ selected[1] \in ToSet(queue)
      BY <1>5, <1>10, <1>11, <2>1, <2>2
    <2>4. selected[1].id \in Nat /\ Head(queue).id \in Nat
      <3>1. selected[1] \in Requests /\ Head(queue) \in Requests
        BY <1>11, <1>12
      <3> QED
        BY <3>1, RequestIds
    <2> QED
      BY <1>2, <2>3, <2>4
  <1>16. Splits(queue, selected, without)
    BY <1>8, <1>11, <1>13, <1>14 DEF Splits
  <1> QED
    BY <1>12, <1>15, <1>16 DEF selected, without, similar

\* The lane of a request tells its key.
LEMMA LaneKeys ==
  ASSUME LanesInv, NEW lane \in Priorities, NEW r \in ToSet(queues[lane])
  PROVE  IF batcher = "semantic" THEN lane = "standard" /\ r.key \in Texts /\ r.key # "express"
         ELSE r.key = lane
  <1>1. r.key \in Keys /\ LaneOf(r.key) = lane
    BY DEF LanesInv
  <1>2. Priorities \cap Texts = {} /\ "express" \in Priorities
    BY BatchingConstantsHold DEF BatchingConstants, Priorities
  <1> QED
    BY <1>1, <1>2 DEF Keys, LaneOf

\* The size of a batch stays within the strategy.
LEMMA SizeStaysWithin ==
  ASSUME SizeInv
  PROVE  OptimalBatchSize \in MinBatch .. MaxBatch
  <1> DEFINE faster == (6 * currentSize) \div 5
             slower == (4 * currentSize) \div 5
  <1>1. /\ MinBatch \in Nat /\ MaxBatch \in Nat /\ currentSize \in Nat
        /\ MinBatch <= currentSize /\ currentSize <= MaxBatch
    BY BatchingConstantsHold DEF SizeInv, BatchingConstants
  <1>2. faster \in Int /\ slower \in Int /\ slower <= MaxBatch
    BY <1>1
  <1> HIDE DEF faster, slower
  <1>3. Max({MinBatch, slower}) \in MinBatch .. MaxBatch
    <2>1. Max({MinBatch, slower}) = IF MinBatch <= slower THEN slower ELSE MinBatch
      BY <1>1, <1>2, OfTwo
    <2> QED
      BY <1>1, <1>2, <2>1
  <1>4. Min({MaxBatch, Max({currentSize + 1, faster})}) \in MinBatch .. MaxBatch
    <2> DEFINE most == Max({currentSize + 1, faster})
    <2>1. currentSize + 1 \in Int
      BY <1>1
    <2>2. most = IF currentSize + 1 <= faster THEN faster ELSE currentSize + 1
      BY <1>2, <2>1, OfTwo
    <2>3. most \in Int /\ currentSize <= most
      BY <1>1, <1>2, <2>2
    <2> HIDE DEF most
    <2>4. Min({MaxBatch, most}) = IF MaxBatch <= most THEN MaxBatch ELSE most
      BY <1>1, <2>3, OfTwo
    <2>5. Min({MaxBatch, most}) \in MinBatch .. MaxBatch
      BY <1>1, <2>3, <2>4
    <2> QED
      BY <2>5 DEF most
  <1>5. currentSize \in MinBatch .. MaxBatch
    BY DEF SizeInv
  <1> QED
    BY <1>3, <1>4, <1>5 DEF OptimalBatchSize, faster, slower

\* What NothingMoreUrgentIsLeft says of one batch.
NothingMoreUrgent(batch) ==
  LET Left(lane) == queues'[lane] # << >>
  IN  CASE batcher = "semantic" -> Head(queues["standard"]) \in batch
        [] batcher = "priority" ->
             \A r \in batch :
               /\ Left("express") => r.key = "express"
               /\ Left("standard") => r.key # "batch"
        [] OTHER ->
             /\ Left("express") => \A r \in batch : r.key = "express"
             /\ Left("standard") => Cardinality({r.key : r \in batch}) = 1

\* A batch as collect_batch returns it; an empty one is not returned.
Collects(batch) ==
  /\ Serves(batch)
  /\ batch # << >> => Fits(batch) /\ NothingMoreUrgent(ToSet(batch))
  /\ batches' = IF batch = << >> THEN batches ELSE Append(batches, batch)

\* A batch that takes the first requests of a lane.
LEMMA TakeServes ==
  ASSUME LanesInv, batcher # "semantic", NEW lane \in Priorities, NEW n \in Nat \ {0},
         n <= IF lane = "express" THEN ExpressBatch ELSE MaxBatch,
         queues[lane] # << >>, Take(lane, n)
  PROVE  LET batch == Prefix(queues[lane], n)
         IN  /\ Serves(batch) /\ Fits(batch) /\ batch # << >>
             /\ {r.key : r \in ToSet(batch)} = {lane}
             /\ \A other \in Priorities \ {lane} : queues'[other] = queues[other]
             /\ batches' = Append(batches, batch)
  <1> DEFINE queue == queues[lane]
             batch == Prefix(queue, n)
             rest == Rest(queue, n)
  <1>1. queue \in Seq(Requests) /\ IsOrdered(queue) /\ queues \in [Priorities -> Seq(Requests)]
    BY DEF LanesInv
  <1>2. queues' = [queues EXCEPT ![lane] = rest] /\ batches' = Append(batches, batch)
    BY DEF Take
  <1> HIDE DEF queue, batch, rest
  <1>3. /\ Splits(queue, batch, rest)
        /\ Len(batch) = IF n <= Len(queue) THEN n ELSE Len(queue)
    BY <1>1, PrefixSplits DEF batch, rest
  <1>4. batch \in Seq(Requests) /\ ToSet(batch) \subseteq ToSet(queue)
    BY <1>3 DEF Splits
  <1>5. Len(queue) \in Nat /\ Len(queue) >= 1
    BY <1>1 DEF queue
  <1>6. Len(batch) \in 1 .. n
    BY <1>3, <1>5
  <1>7. batch # << >> /\ Head(batch) \in ToSet(batch)
    <2>1. batch # << >> /\ Head(batch) = batch[1] /\ 1 \in DOMAIN batch
      BY <1>4, <1>6
    <2> QED
      BY <2>1 DEF ToSet
  <1>8. \A r \in ToSet(batch) : r.key = lane
    BY <1>4, LaneKeys DEF queue
  <1>9. Fits(batch)
    <2>1. Head(batch).key = lane
      BY <1>7, <1>8
    <2>2. ExpressBatch \in Nat /\ MaxBatch \in Nat
      BY BatchingConstantsHold DEF BatchingConstants
    <2>3. Len(batch) \in 1 .. IF lane = "express" THEN ExpressBatch ELSE MaxBatch
      BY <1>6, <2>2
    <2> QED
      BY <2>1, <2>3 DEF Fits
  <1>10. Serves(batch)
    BY <1>2, <1>3, OneLaneServes DEF queue
  <1>11. {r.key : r \in ToSet(batch)} = {lane}
    BY <1>7, <1>8
  <1>12. \A other \in Priorities \ {lane} : queues'[other] = queues[other]
    BY <1>1, <1>2
  <1> QED
    BY <1>2, <1>7, <1>9, <1>10, <1>11, <1>12 DEF batch, queue

\* Of a batch with one key, one key is in it.
LEMMA OneKey ==
  ASSUME NEW batch, NEW lane, {r.key : r \in batch} = {lane}
  PROVE  Cardinality({r.key : r \in batch}) = 1 /\ \A r \in batch : r.key = lane
  <1>1. Cardinality({lane}) = 1
    BY FS_Singleton
  <1> QED
    BY <1>1

\* An express batch, or one of another lane while no express request waits.
LEMMA AdaptiveTakes ==
  ASSUME LanesInv, batcher = "adaptive", NEW lane \in Priorities, NEW n \in Nat \ {0},
         n <= IF lane = "express" THEN ExpressBatch ELSE MaxBatch,
         queues[lane] # << >>, Take(lane, n),
         lane # "express" => queues["express"] = << >>
  PROVE  Collects(Prefix(queues[lane], n))
  <1> DEFINE batch == Prefix(queues[lane], n)
  <1>1. /\ Serves(batch) /\ Fits(batch) /\ batch # << >>
        /\ {r.key : r \in ToSet(batch)} = {lane}
        /\ \A other \in Priorities \ {lane} : queues'[other] = queues[other]
        /\ batches' = Append(batches, batch)
    BY TakeServes
  <1> HIDE DEF batch
  <1>2. /\ Cardinality({r.key : r \in ToSet(batch)}) = 1
        /\ \A r \in ToSet(batch) : r.key = lane
    BY <1>1, OneKey
  <1>3. queues'["express"] # << >> => lane = "express"
    BY <1>1 DEF Priorities
  <1>4. NothingMoreUrgent(ToSet(batch))
    BY <1>2, <1>3 DEF NothingMoreUrgent
  <1> QED
    BY <1>1, <1>4 DEF Collects, batch

\* The priority batcher takes from the first lane that is not empty.
LEMMA CollectPriorityCollects ==
  ASSUME LanesInv, CollectPriority
  PROVE  \E batch : Collects(batch)
  <1>1. batcher = "priority"
    BY DEF CollectPriority
  <1>2. /\ DOMAIN ServiceOrder = 1 .. 3 /\ ServiceOrder[1] = "express"
        /\ ServiceOrder[2] = "standard" /\ ServiceOrder[3] = "batch"
    BY DEF ServiceOrder
  <1>3. PICK i \in 1 .. 3 :
          /\ queues[ServiceOrder[i]] # << >>
          /\ \A j \in 1 .. i - 1 : queues[ServiceOrder[j]] = << >>
          /\ Take(ServiceOrder[i], IF ServiceOrder[i] = "express" THEN ExpressBatch ELSE MaxBatch)
    BY <1>2 DEF CollectPriority
  <1> DEFINE lane == ServiceOrder[i]
             n == IF lane = "express" THEN ExpressBatch ELSE MaxBatch
             batch == Prefix(queues[lane], n)
  <1>4. lane \in Priorities
    BY <1>2 DEF Priorities
  <1>5. /\ lane # "express" => queues["express"] = << >>
        /\ lane = "batch" => queues["standard"] = << >>
    <2>1. lane # "express" => i \in 2 .. 3
      BY <1>2
    <2>2. lane = "batch" => i = 3
      BY <1>2
    <2>3. i \in 2 .. 3 => 1 \in 1 .. i - 1
      OBVIOUS
    <2>4. i = 3 => 2 \in 1 .. i - 1
      OBVIOUS
    <2> HIDE DEF lane
    <2> QED
      BY <1>2, <1>3, <2>1, <2>2, <2>3, <2>4
  <1>6. n \in Nat \ {0} /\ n <= IF lane = "express" THEN ExpressBatch ELSE MaxBatch
    BY BatchingConstantsHold DEF BatchingConstants
  <1>7. queues[lane] # << >> /\ Take(lane, n)
    BY <1>3
  <1> HIDE DEF lane, n
  <1>8. /\ Serves(batch) /\ Fits(batch) /\ batch # << >>
        /\ {r.key : r \in ToSet(batch)} = {lane}
        /\ \A other \in Priorities \ {lane} : queues'[other] = queues[other]
        /\ batches' = Append(batches, batch)
    BY <1>1, <1>4, <1>6, <1>7, TakeServes
  <1> HIDE DEF batch
  <1>9. \A r \in ToSet(batch) : r.key = lane
    BY <1>8, OneKey
  <1>10. queues'["express"] # << >> => lane = "express"
    BY <1>5, <1>8 DEF Priorities
  <1>11. queues'["standard"] # << >> => lane # "batch"
    BY <1>5, <1>8 DEF Priorities
  <1>12. NothingMoreUrgent(ToSet(batch))
    BY <1>1, <1>9, <1>10, <1>11 DEF NothingMoreUrgent
  <1> QED
    BY <1>8, <1>12 DEF Collects

\* The last batch is the one just collected.
LEMMA LastOfAppend ==
  ASSUME NEW T, NEW list \in Seq(T), NEW x \in T
  PROVE  Last(Append(list, x)) = x
  BY DEF Last

\* The semantic batcher takes what is similar to the head of its lane.
LEMMA CollectSemanticCollects ==
  ASSUME LanesInv, BatchesInv, CollectSemantic
  PROVE  \E batch : Collects(batch)
  <1> DEFINE queue == queues["standard"]
             batch == Prefix(Similar(queue), MaxBatch)
             rest == Without(queue, batch)
  <1>1. batcher = "semantic" /\ "standard" \in Priorities
    BY DEF CollectSemantic, Priorities
  <1>2. queue \in Seq(Requests) /\ IsOrdered(queue) /\ queues \in [Priorities -> Seq(Requests)]
    BY <1>1 DEF LanesInv
  <1>3. queue # << >>
    <2>1. Len(queue) >= MinBatch /\ MinBatch \in Nat \ {0}
      BY BatchingConstantsHold DEF CollectSemantic, BatchingConstants
    <2> HIDE DEF queue
    <2> QED
      BY <1>2, <2>1
  <1>4. \A r \in ToSet(queue) : r.key \in Texts /\ r.key # "express"
    BY <1>1, LaneKeys
  <1> HIDE DEF queue
  <1>5. /\ Splits(queue, batch, rest)
        /\ Len(batch) \in 1 .. MaxBatch /\ Head(queue) \in ToSet(batch)
    BY <1>2, <1>3, <1>4, SimilarSplits
  <1>6. batch \in Seq(Requests) /\ ToSet(batch) \subseteq ToSet(queue)
    BY <1>5 DEF Splits
  <1> HIDE DEF rest, batch
  <1>7. batch # << >> /\ Head(batch) \in ToSet(batch)
    <2>1. batch # << >> /\ Head(batch) = batch[1] /\ 1 \in DOMAIN batch
      BY <1>5, <1>6
    <2> QED
      BY <2>1 DEF ToSet
  <1>8. Fits(batch)
    <2>1. Head(batch).key # "express"
      BY <1>4, <1>6, <1>7
    <2> QED
      BY <1>5, <2>1 DEF Fits
  <1>9. batches' = Append(batches, batch)
    BY DEF CollectSemantic, batch, queue
  <1>10. queues' = [queues EXCEPT !["standard"] = rest]
    <2>1. queues' = [queues EXCEPT !["standard"] = Without(@, Last(batches'))]
      BY DEF CollectSemantic
    <2>2. Last(batches') = batch
      <3>1. batches \in Seq(Seq(Requests)) /\ batch \in Seq(Requests)
        BY <1>6 DEF BatchesInv
      <3> QED
        BY <1>9, <3>1, LastOfAppend
    <2> QED
      BY <2>1, <2>2 DEF rest, queue
  <1>11. Serves(batch)
    BY <1>1, <1>5, <1>10, OneLaneServes DEF queue
  <1>12. NothingMoreUrgent(ToSet(batch))
    BY <1>1, <1>5 DEF NothingMoreUrgent, queue
  <1> QED
    BY <1>7, <1>8, <1>9, <1>11, <1>12 DEF Collects

\* A timed batch: standard requests, and background ones in the room they leave.
LEMMA CollectTimedCollects ==
  ASSUME LanesInv, SizeInv, batcher = "adaptive", CollectTimed
  PROVE  \E batch : Collects(batch)
  <1> DEFINE size == currentSize'
             foreground == queues["standard"]
             background == queues["batch"]
             first == Prefix(foreground, size)
             room == size - Len(first)
             second == Prefix(background, room)
             batch == first \o second
  <1>1. {"express", "standard", "batch"} = Priorities
    BY DEF Priorities
  <1>2. /\ foreground \in Seq(Requests) /\ IsOrdered(foreground)
        /\ background \in Seq(Requests) /\ IsOrdered(background)
        /\ queues \in [Priorities -> Seq(Requests)]
    BY <1>1 DEF LanesInv
  <1>3. size \in 1 .. MaxBatch /\ MaxBatch \in Nat
    <2>1. size \in MinBatch .. MaxBatch
      BY SizeStaysWithin DEF CollectTimed
    <2>2. MinBatch \in Nat \ {0} /\ MaxBatch \in Nat
      BY BatchingConstantsHold DEF BatchingConstants
    <2> HIDE DEF size
    <2> QED
      BY <2>1, <2>2
  <1>4. queues' = [queues EXCEPT !["standard"] = Rest(foreground, size),
                                 !["batch"] = Rest(background, room)]
    BY <1>1, <1>2 DEF CollectTimed
  <1>5. queues["express"] = << >> /\ batches' = IF batch = << >> THEN batches ELSE Append(batches, batch)
    BY DEF CollectTimed
  <1> HIDE DEF foreground, background, size
  <1>6. /\ Splits(foreground, first, Rest(foreground, size))
        /\ Len(first) = IF size <= Len(foreground) THEN size ELSE Len(foreground)
        /\ Len(Rest(foreground, size)) = IF size <= Len(foreground) THEN Len(foreground) - size ELSE 0
    BY <1>2, <1>3, PrefixSplits
  <1> HIDE DEF first
  <1>7. room \in Nat /\ room = size - Len(first) /\ Len(first) <= size /\ Len(first) \in Nat
    BY <1>2, <1>3, <1>6
  <1> HIDE DEF room
  <1>8. /\ Splits(background, second, Rest(background, room))
        /\ Len(second) = IF room <= Len(background) THEN room ELSE Len(background)
    BY <1>2, <1>7, PrefixSplits
  <1> HIDE DEF second
  <1> DEFINE later == Rest(foreground, size)
             latest == Rest(background, room)
  <1>9. /\ first \in Seq(Requests) /\ later \in Seq(Requests) /\ IsOrdered(first) /\ IsOrdered(later)
        /\ ToSet(first) \cup ToSet(later) = ToSet(foreground)
        /\ \A r \in ToSet(first), q \in ToSet(later) : Before(r, q)
    BY <1>6 DEF Splits
  <1>10. /\ second \in Seq(Requests) /\ latest \in Seq(Requests) /\ IsOrdered(second) /\ IsOrdered(latest)
         /\ ToSet(second) \cup ToSet(latest) = ToSet(background)
         /\ \A r \in ToSet(second), q \in ToSet(latest) : Before(r, q)
    BY <1>8 DEF Splits
  <1> HIDE DEF later, latest
  <1>11. /\ queues' \in [Priorities -> Seq(Requests)]
         /\ queues'["express"] = << >> /\ queues'["standard"] = later /\ queues'["batch"] = latest
    BY <1>1, <1>2, <1>4, <1>5, <1>9, <1>10 DEF later, latest
  <1>12. ToSet(batch) = ToSet(first) \cup ToSet(second)
    BY <1>9, <1>10, ConcatSet
  <1>13. \A r \in ToSet(foreground), q \in ToSet(background) : Before(r, q) /\ Before(q, r)
    <2>1. "standard" \in Priorities /\ "batch" \in Priorities /\ "standard" # "batch"
      BY <1>1
    <2>2. ASSUME NEW r \in ToSet(foreground), NEW q \in ToSet(background)
          PROVE  r.id # q.id /\ r.key # q.key
      BY <2>1, LanesApart DEF foreground, background
    <2> QED
      BY <2>2 DEF Before
  <1>14. batch \in Seq(Requests) /\ InTurn(batch)
    <2>1. InTurn(first) /\ InTurn(second)
      BY <1>9, <1>10, OrderedInTurn
    <2>2. \A r \in ToSet(first), q \in ToSet(second) : Before(r, q)
      BY <1>9, <1>10, <1>13
    <2> QED
      BY <1>9, <1>10, <2>1, <2>2, ConcatInTurn
  <1> HIDE DEF batch
  <1>15. Serves(batch)
    <2>1. \A r \in ToSet(batch) : \E lane \in Priorities : r \in ToSet(queues[lane])
      BY <1>1, <1>9, <1>10, <1>12 DEF foreground, background
    <2>2. ToSet(<< >>) = {} /\ IsOrdered(<< >>)
      BY DEF ToSet, IsOrdered
    <2>3. \A lane \in Priorities : IsOrdered(queues'[lane])
      BY <1>1, <1>9, <1>10, <1>11, <2>2
    <2>4. ASSUME NEW q \in ToSet(later) PROVE \A r \in ToSet(batch) : Before(r, q)
      BY <1>9, <1>10, <1>12, <1>13
    <2>5. ASSUME NEW q \in ToSet(latest) PROVE \A r \in ToSet(batch) : Before(r, q)
      BY <1>9, <1>10, <1>12, <1>13
    <2>6. \A lane \in Priorities : \A q \in ToSet(queues'[lane]) :
            q \in ToSet(queues[lane]) /\ \A r \in ToSet(batch) : Before(r, q)
      BY <1>1, <1>9, <1>10, <1>11, <2>2, <2>4, <2>5 DEF foreground, background
    <2>7. \A lane \in Priorities : \A r \in ToSet(queues[lane]) :
            r \in ToSet(batch) \/ r \in ToSet(queues'[lane])
      BY <1>1, <1>5, <1>9, <1>10, <1>11, <1>12, <2>2 DEF foreground, background
    <2> QED
      BY <1>11, <1>14, <2>1, <2>3, <2>6, <2>7 DEF Serves
  <1>16. ASSUME batch # << >> PROVE Fits(batch) /\ NothingMoreUrgent(ToSet(batch))
    <2>1. Head(batch) \in ToSet(batch) /\ Len(batch) >= 1 /\ Len(batch) \in Nat
      <3>1. Head(batch) = batch[1] /\ 1 \in DOMAIN batch /\ Len(batch) >= 1
        BY <1>14, <1>16
      <3> QED
        BY <1>14, <3>1 DEF ToSet
    <2>2. Len(batch) = Len(first) + Len(second)
      BY <1>9, <1>10 DEF batch
    <2>3. Len(batch) <= MaxBatch
      <3>1. Len(second) <= room /\ Len(second) \in Nat
        BY <1>2, <1>7, <1>8
      <3> QED
        BY <1>3, <1>7, <2>2, <3>1
    <2>4. \A r \in ToSet(first) : r.key = "standard"
      BY <1>1, <1>9, LaneKeys DEF foreground
    <2>5. \A r \in ToSet(second) : r.key = "batch"
      BY <1>1, <1>10, LaneKeys DEF background
    <2>6. Fits(batch)
      <3>1. Head(batch).key # "express"
        BY <1>12, <2>1, <2>4, <2>5
      <3> QED
        BY <1>3, <2>1, <2>3, <3>1 DEF Fits
    <2>7. ASSUME queues'["standard"] # << >>
          PROVE  Cardinality({r.key : r \in ToSet(batch)}) = 1
      <3>1. Len(later) \in Nat /\ Len(later) # 0
        BY <1>9, <1>11, <2>7
      <3>2. room = 0
        BY <1>2, <1>3, <1>6, <1>7, <3>1 DEF later
      <3>3. Len(second) = 0
        BY <1>2, <1>8, <3>2
      <3>4. ToSet(second) = {}
        BY <1>10, <3>3 DEF ToSet
      <3>5. {r.key : r \in ToSet(batch)} = {"standard"}
        BY <1>12, <2>1, <2>4, <3>4
      <3> QED
        BY <3>5, OneKey
    <2>8. NothingMoreUrgent(ToSet(batch))
      BY <1>11, <2>7 DEF NothingMoreUrgent
    <2> QED
      BY <2>6, <2>8
  <1> QED
    BY <1>5, <1>15, <1>16 DEF Collects

\* Whatever the batcher, collect_batch returns a batch served in turn.
LEMMA CollectBatchCollects ==
  ASSUME LanesInv, SizeInv, BatchesInv, CollectBatch
  PROVE  /\ \E batch : Collects(batch)
         /\ currentSize' \in MinBatch .. MaxBatch /\ UNCHANGED << batcher, latencies, added >>
  <1>1. /\ MinBatch \in Nat \ {0} /\ MaxBatch \in Nat \ {0} /\ ExpressBatch \in Nat \ {0}
        /\ currentSize \in MinBatch .. MaxBatch
    BY BatchingConstantsHold DEF BatchingConstants, SizeInv
  <1>2. /\ "express" \in Priorities /\ "standard" \in Priorities /\ "batch" \in Priorities
        /\ "express" # "standard" /\ "express" # "batch"
    BY DEF Priorities
  <1>3. OptimalBatchSize \in MinBatch .. MaxBatch
    BY SizeStaysWithin
  <1>4. \A lane \in Priorities : Len(queues[lane]) > 0 => queues[lane] # << >>
    OBVIOUS
  <1>5. UNCHANGED << batcher, latencies, added >>
    BY DEF CollectBatch, CollectAdaptive, CollectPriority, CollectSemantic
  <1>6. ASSUME CollectAdaptive
        PROVE  (\E batch : Collects(batch)) /\ currentSize' \in MinBatch .. MaxBatch
    <2>1. batcher = "adaptive"
      BY <1>6 DEF CollectAdaptive
    <2>2. CASE CollectExpress
      <3>1. queues["express"] # << >> /\ Take("express", ExpressBatch) /\ currentSize' = currentSize
        BY <2>2 DEF CollectExpress
      <3>2. Collects(Prefix(queues["express"], ExpressBatch))
        BY <1>1, <1>2, <2>1, <3>1, AdaptiveTakes
      <3> QED
        BY <1>1, <3>1, <3>2
    <2>3. CASE CollectStandard
      <3>1. /\ queues["express"] = << >> /\ Len(queues["standard"]) >= currentSize
            /\ currentSize' = OptimalBatchSize /\ Take("standard", currentSize')
        BY <2>3 DEF CollectStandard, StandardIsFull
      <3>2. queues["standard"] # << >>
        BY <1>1, <1>2, <1>4, <3>1
      <3>3. currentSize' \in Nat \ {0} /\ currentSize' <= MaxBatch /\ currentSize' \in MinBatch .. MaxBatch
        BY <1>1, <1>3, <3>1
      <3>4. Collects(Prefix(queues["standard"], currentSize'))
        BY <1>2, <2>1, <3>1, <3>2, <3>3, AdaptiveTakes
      <3> QED
        BY <3>3, <3>4
    <2>4. CASE CollectBackground
      <3>1. /\ queues["express"] = << >> /\ Len(queues["batch"]) >= MaxBatch
            /\ currentSize' = currentSize /\ Take("batch", MaxBatch)
        BY <2>4 DEF CollectBackground, BackgroundIsFull
      <3>2. queues["batch"] # << >>
        BY <1>1, <1>2, <1>4, <3>1
      <3>3. Collects(Prefix(queues["batch"], MaxBatch))
        BY <1>1, <1>2, <2>1, <3>1, <3>2, AdaptiveTakes
      <3> QED
        BY <1>1, <3>1, <3>3
    <2>5. CASE CollectTimed
      <3>1. currentSize' = OptimalBatchSize
        BY <2>5 DEF CollectTimed
      <3> QED
        BY <1>3, <2>1, <2>5, <3>1, CollectTimedCollects
    <2> QED
      BY <1>6, <2>2, <2>3, <2>4, <2>5 DEF CollectAdaptive
  <1>7. CASE CollectPriority
    <2>1. currentSize' = currentSize
      BY <1>7 DEF CollectPriority
    <2> QED
      BY <1>1, <1>5, <1>7, <2>1, CollectPriorityCollects
  <1>8. CASE CollectSemantic
    <2>1. currentSize' = currentSize
      BY <1>8 DEF CollectSemantic
    <2> QED
      BY <1>1, <1>5, <1>8, <2>1, CollectSemanticCollects
  <1> QED
    BY <1>5, <1>6, <1>7, <1>8 DEF CollectBatch

\* An added request goes to the end of its lane, with an id of its own.
LEMMA AddRequestKeeps ==
  ASSUME BatchingInv, AddRequest
  PROVE  BatchingInv'
  <1>1. PICK key \in Keys, age \in 0 .. MaxWait :
          queues' = [queues EXCEPT ![LaneOf(key)] =
                       Append(@, [id |-> added + 1, key |-> key, age |-> age])]
    BY DEF AddRequest
  <1>2. /\ added < MaxRequests /\ added' = added + 1
        /\ UNCHANGED << batcher, currentSize, latencies, batches >>
    BY DEF AddRequest
  <1>3. LanesInv /\ SizeInv /\ BatchesInv /\ CollectedInv
    BY DEF BatchingInv
  <1> DEFINE own == LaneOf(key)
             r == [id |-> added + 1, key |-> key, age |-> age]
             queue == queues[own]
             longer == Append(queue, r)
  <1>4. added \in Nat /\ MaxRequests \in Nat /\ queues \in [Priorities -> Seq(Requests)]
    BY <1>3, BatchingConstantsHold DEF LanesInv, BatchingConstants
  <1>5. own \in Priorities
    BY <1>3 DEF LaneOf, Keys, Priorities, LanesInv
  <1>6. r \in Requests /\ r.id = added + 1 /\ r.key = key
    <2>1. added + 1 \in 1 .. MaxRequests
      BY <1>2, <1>4
    <2>2. key \in Priorities \cup Texts
      BY DEF Keys
    <2> QED
      BY <2>1, <2>2 DEF Requests
  <1>7. queues' = [queues EXCEPT ![own] = longer]
    BY <1>1
  <1>8. \A lane \in Priorities : \A q \in ToSet(queues[lane]) : q.id <= added /\ q.id \in Nat
    <2>1. ASSUME NEW lane \in Priorities, NEW q \in ToSet(queues[lane])
          PROVE  q.id <= added /\ q.id \in Nat
      <3>1. queues[lane] \in Seq(Requests)
        BY <1>4
      <3>2. q \in Requests
        BY <3>1 DEF ToSet
      <3> QED
        BY <1>3, <3>2, RequestIds DEF LanesInv
    <2> QED
      BY <2>1
  <1> HIDE DEF r, own
  <1>9. IsOrdered(longer) /\ ToSet(longer) = ToSet(queue) \cup {r} /\ longer \in Seq(Requests)
    <2>1. queue \in Seq(Requests) /\ IsOrdered(queue)
      BY <1>3, <1>4, <1>5 DEF LanesInv
    <2>2. \A q \in ToSet(queue) : q.id < r.id
      BY <1>4, <1>5, <1>6, <1>8
    <2> HIDE DEF queue
    <2> QED
      BY <1>6, <2>1, <2>2, OrderedAppend
  <1> HIDE DEF longer
  <1>10. /\ queues' \in [Priorities -> Seq(Requests)] /\ queues'[own] = longer
         /\ \A lane \in Priorities : lane # own => queues'[lane] = queues[lane]
    BY <1>4, <1>5, <1>7, <1>9
  <1>11. \A lane \in Priorities : \A q \in ToSet(queues'[lane]) :
           q \in ToSet(queues[lane]) \/ (q = r /\ lane = own)
    BY <1>9, <1>10
  <1>12. \A lane \in Priorities : \A q \in ToSet(queues[lane]) : q \in ToSet(queues'[lane])
    BY <1>9, <1>10
  <1>13. r \in ToSet(queues'[own])
    BY <1>9, <1>10
  <1>14. LanesInv'
    <2>1. ASSUME NEW lane \in Priorities, NEW q \in ToSet(queues'[lane])
          PROVE  /\ q.id <= added' /\ q.key \in Keys' /\ LaneOf(q.key)' = lane
                 /\ \A other \in Priorities \ {lane} : \A p \in ToSet(queues'[other]) : q.id # p.id
      <3>1. Keys' = Keys /\ \A k : LaneOf(k)' = LaneOf(k)
        BY <1>2 DEF Keys, LaneOf
      <3>2. CASE q \in ToSet(queues[lane])
        <4>1. q.id <= added' /\ q.id \in Nat /\ q.id <= added
          BY <1>2, <1>4, <1>8, <3>2
        <4>2. ASSUME NEW other \in Priorities \ {lane}, NEW p \in ToSet(queues'[other])
              PROVE  q.id # p.id
          <5>1. CASE p \in ToSet(queues[other])
            BY <1>3, <3>2, <5>1 DEF LanesInv
          <5>2. CASE p = r
            BY <1>4, <1>6, <4>1, <5>2
          <5> QED
            BY <1>11, <5>1, <5>2
        <4>3. q.key \in Keys /\ LaneOf(q.key) = lane
          BY <1>3, <3>2 DEF LanesInv
        <4> QED
          BY <3>1, <4>1, <4>2, <4>3
      <3>3. CASE q = r /\ lane = own
        <4>1. q.id <= added'
          BY <1>2, <1>4, <1>6, <3>3
        <4>2. ASSUME NEW other \in Priorities \ {lane}, NEW p \in ToSet(queues'[other])
              PROVE  q.id # p.id
          <5>1. p \in ToSet(queues[other])
            BY <1>11, <3>3
          <5>2. p.id <= added /\ p.id \in Nat
            BY <1>8, <5>1
          <5> QED
            BY <1>4, <1>6, <3>3, <5>2
        <4>3. q.key \in Keys /\ LaneOf(q.key) = lane
          BY <1>6, <3>3 DEF own
        <4> QED
          BY <3>1, <4>1, <4>2, <4>3
      <3> QED
        BY <1>11, <3>2, <3>3
    <2>2. \A lane \in Priorities : IsOrdered(queues'[lane])
      BY <1>3, <1>9, <1>10 DEF LanesInv
    <2>3. batcher' \in Batchers /\ added' \in 0 .. MaxRequests
      BY <1>2, <1>3, <1>4 DEF LanesInv
    <2> QED
      BY <1>10, <2>1, <2>2, <2>3 DEF LanesInv
  <1>15. SizeInv' /\ BatchesInv'
    BY <1>2, <1>3 DEF SizeInv, BatchesInv, Fits
  <1>16. Collected' = Collected
    BY <1>2 DEF Collected
  <1>17. CollectedInv'
    <2>1. InTurn(Collected')
      BY <1>3, <1>16 DEF CollectedInv
    <2>2. ASSUME NEW q \in ToSet(Collected')
          PROVE  /\ q.id <= added'
                 /\ \A lane \in Priorities : \A p \in ToSet(queues'[lane]) : Before(q, p)
      <3>1. q \in ToSet(Collected) /\ q.id <= added
        BY <1>3, <1>16 DEF CollectedInv
      <3>2. q.id \in Nat
        <4>1. q \in Requests
          BY <1>3, <3>1, CollectedType DEF ToSet
        <4> QED
          BY <4>1, RequestIds
      <3>3. Before(q, r)
        BY <1>4, <1>6, <3>1, <3>2 DEF Before
      <3>4. \A lane \in Priorities : \A p \in ToSet(queues[lane]) : Before(q, p)
        BY <1>3, <3>1 DEF CollectedInv
      <3> QED
        BY <1>2, <1>4, <1>11, <3>1, <3>2, <3>3, <3>4
    <2>3. ASSUME NEW id \in 1 .. added'
          PROVE  \/ \E q \in ToSet(Collected') : q.id = id
                 \/ \E lane \in Priorities : \E q \in ToSet(queues'[lane]) : q.id = id
      <3>1. CASE id = added + 1
        BY <1>5, <1>6, <1>13, <3>1
      <3>2. CASE id # added + 1
        <4>1. id \in 1 .. added
          BY <1>2, <1>4, <3>2
        <4>2. \/ \E q \in ToSet(Collected) : q.id = id
              \/ \E lane \in Priorities : \E q \in ToSet(queues[lane]) : q.id = id
          BY <1>3, <4>1 DEF CollectedInv
        <4> QED
          BY <1>12, <1>16, <4>2
      <3> QED
        BY <3>1, <3>2
    <2> QED
      BY <2>1, <2>2, <2>3 DEF CollectedInv
  <1> QED
    BY <1>14, <1>15, <1>17 DEF BatchingInv

\* The same requests a tick later.
Older(queue, older) ==
  older = [i \in DOMAIN queue |-> [queue[i] EXCEPT !.age = Min({@ + 1, MaxWait})]]

\* They keep their ids, their keys and their places.
LEMMA OlderRequests ==
  ASSUME NEW queue \in Seq(Requests), NEW older, Older(queue, older)
  PROVE  /\ older \in Seq(Requests) /\ DOMAIN older = DOMAIN queue
         /\ \A i \in DOMAIN queue : older[i].id = queue[i].id /\ older[i].key = queue[i].key
  <1>1. DOMAIN queue = 1 .. Len(queue) /\ Len(queue) \in Nat
    OBVIOUS
  <1>2. ASSUME NEW i \in DOMAIN queue
        PROVE  /\ older[i] \in Requests
               /\ older[i].id = queue[i].id /\ older[i].key = queue[i].key
    <2> DEFINE r == queue[i]
               age == Min({r.age + 1, MaxWait})
    <2>1. r \in Requests
      OBVIOUS
    <2>2. older[i] = [r EXCEPT !.age = age]
      BY DEF Older
    <2>3. age \in 0 .. MaxWait
      <3>1. r.age \in 0 .. MaxWait /\ MaxWait \in Nat
        BY <2>1, BatchingConstantsHold DEF Requests, BatchingConstants
      <3>2. r.age + 1 \in Int /\ MaxWait \in Int
        BY <3>1
      <3>3. age = IF r.age + 1 <= MaxWait THEN r.age + 1 ELSE MaxWait
        BY <3>2, OfTwo
      <3> QED
        BY <3>1, <3>3
    <2> HIDE DEF r, age
    <2>4. [r EXCEPT !.age = age] \in Requests
      BY <2>1, <2>3 DEF Requests
    <2>5. [r EXCEPT !.age = age].id = r.id /\ [r EXCEPT !.age = age].key = r.key
      BY <2>1 DEF Requests
    <2> QED
      BY <2>2, <2>4, <2>5 DEF r
  <1>3. DOMAIN older = DOMAIN queue
    BY DEF Older
  <1>4. older = [i \in 1 .. Len(queue) |-> older[i]]
    BY <1>1 DEF Older
  <1>5. older \in Seq(Requests)
    <2> DEFINE N == Len(queue)
    <2>1. N \in Nat /\ older = [i \in 1 .. N |-> older[i]] /\ \A i \in 1 .. N : older[i] \in Requests
      BY <1>1, <1>2, <1>4
    <2>2. older \in [1 .. N -> Requests]
      BY <2>1
    <2> HIDE DEF N
    <2> QED
      BY <2>1, <2>2, SeqDef
  <1> QED
    BY <1>2, <1>3, <1>5

\* Time changes no id and no key.
LEMMA TickKeeps ==
  ASSUME BatchingInv, Tick
  PROVE  BatchingInv'
  <1>1. /\ UNCHANGED << batcher, currentSize, latencies, added, batches >>
        /\ queues' = [lane \in Priorities |->
                        [i \in DOMAIN queues[lane] |->
                           [queues[lane][i] EXCEPT !.age = Min({@ + 1, MaxWait})]]]
    BY DEF Tick
  <1>2. LanesInv /\ SizeInv /\ BatchesInv /\ CollectedInv /\ queues \in [Priorities -> Seq(Requests)]
    BY DEF BatchingInv, LanesInv
  <1>3. ASSUME NEW lane \in Priorities
        PROVE  /\ queues'[lane] \in Seq(Requests) /\ DOMAIN queues'[lane] = DOMAIN queues[lane]
               /\ \A i \in DOMAIN queues[lane] : /\ queues'[lane][i].id = queues[lane][i].id
                                                 /\ queues'[lane][i].key = queues[lane][i].key
    <2> DEFINE queue == queues[lane]
               older == queues'[lane]
    <2>1. queue \in Seq(Requests)
      BY <1>2
    <2>2. Older(queue, older)
      BY <1>1 DEF Older
    <2> HIDE DEF queue, older
    <2>3. /\ older \in Seq(Requests) /\ DOMAIN older = DOMAIN queue
          /\ \A i \in DOMAIN queue : older[i].id = queue[i].id /\ older[i].key = queue[i].key
      BY <2>1, <2>2, OlderRequests
    <2> QED
      BY <2>3 DEF queue, older
  <1>4. queues' \in [Priorities -> Seq(Requests)]
    <2>1. DOMAIN queues' = Priorities /\ queues' = [lane \in Priorities |-> queues'[lane]]
      BY <1>1
    <2> QED
      BY <1>3, <2>1
  <1>5. \A lane \in Priorities : \A q \in ToSet(queues'[lane]) :
          \E p \in ToSet(queues[lane]) : q.id = p.id /\ q.key = p.key
    BY <1>3 DEF ToSet
  <1>6. \A lane \in Priorities : \A p \in ToSet(queues[lane]) :
          \E q \in ToSet(queues'[lane]) : q.id = p.id /\ q.key = p.key
    BY <1>3 DEF ToSet
  <1>7. LanesInv'
    <2>1. ASSUME NEW lane \in Priorities, NEW q \in ToSet(queues'[lane])
          PROVE  /\ q.id <= added' /\ q.key \in Keys' /\ LaneOf(q.key)' = lane
                 /\ \A other \in Priorities \ {lane} : \A p \in ToSet(queues'[other]) : q.id # p.id
      <3>1. Keys' = Keys /\ \A k : LaneOf(k)' = LaneOf(k)
        BY <1>1 DEF Keys, LaneOf
      <3>2. PICK r \in ToSet(queues[lane]) : q.id = r.id /\ q.key = r.key
        BY <1>5
      <3>3. r.id <= added /\ r.key \in Keys /\ LaneOf(r.key) = lane
        BY <1>2 DEF LanesInv
      <3>4. ASSUME NEW other \in Priorities \ {lane}, NEW p \in ToSet(queues'[other])
            PROVE  q.id # p.id
        <4>1. PICK s \in ToSet(queues[other]) : p.id = s.id
          BY <1>5
        <4> QED
          BY <1>2, <3>2, <4>1 DEF LanesInv
      <3> QED
        BY <1>1, <3>1, <3>2, <3>3, <3>4
    <2>2. ASSUME NEW lane \in Priorities PROVE IsOrdered(queues'[lane])
      <3>1. IsOrdered(queues[lane])
        BY <1>2 DEF LanesInv
      <3> QED
        BY <1>3, <3>1 DEF IsOrdered
    <2>3. batcher' \in Batchers /\ added' \in 0 .. MaxRequests
      BY <1>1, <1>2 DEF LanesInv
    <2> QED
      BY <1>4, <2>1, <2>2, <2>3 DEF LanesInv
  <1>8. SizeInv' /\ BatchesInv'
    BY <1>1, <1>2 DEF SizeInv, BatchesInv, Fits
  <1>9. CollectedInv'
    <2>1. Collected' = Collected /\ InTurn(Collected')
      BY <1>1, <1>2 DEF Collected, CollectedInv
    <2>2. ASSUME NEW q \in ToSet(Collected')
          PROVE  /\ q.id <= added'
                 /\ \A lane \in Priorities : \A p \in ToSet(queues'[lane]) : Before(q, p)
      <3>1. q \in ToSet(Collected) /\ q.id <= added'
        BY <1>1, <1>2, <2>1 DEF CollectedInv
      <3>2. \A lane \in Priorities : \A p \in ToSet(queues[lane]) : Before(q, p)
        BY <1>2, <3>1 DEF CollectedInv
      <3> QED
        BY <1>5, <3>1, <3>2 DEF Before
    <2>3. ASSUME NEW id \in 1 .. added'
          PROVE  \/ \E q \in ToSet(Collected') : q.id = id
                 \/ \E lane \in Priorities : \E q \in ToSet(queues'[lane]) : q.id = id
      <3>1. \/ \E q \in ToSet(Collected) : q.id = id
            \/ \E lane \in Priorities : \E q \in ToSet(queues[lane]) : q.id = id
        BY <1>1, <1>2 DEF CollectedInv
      <3> QED
        BY <1>6, <2>1, <3>1
    <2> QED
      BY <2>1, <2>2, <2>3 DEF CollectedInv
  <1> QED
    BY <1>7, <1>8, <1>9 DEF BatchingInv

\* Latencies are forgotten beyond the window, and no batch depends on more.
LEMMA RecordBatchMetricsKeeps ==
  ASSUME BatchingInv, RecordBatchMetrics
  PROVE  BatchingInv'
  <1>1. UNCHANGED << batcher, queues, currentSize, added, batches >>
    BY DEF RecordBatchMetrics
  <1>2. PICK latency \in 0 .. 2 :
          latencies' = IF Len(Append(latencies, latency)) > Window
                         THEN Tail(Append(latencies, latency)) ELSE Append(latencies, latency)
    BY DEF RecordBatchMetrics
  <1>3. SizeInv /\ LanesInv /\ BatchesInv /\ CollectedInv
    BY DEF BatchingInv
  <1>4. SizeInv'
    <2> DEFINE longer == Append(latencies, latency)
    <2>1. /\ longer \in Seq(0 .. 2) /\ Len(longer) = Len(latencies) + 1 /\ Len(latencies) \in Nat
          /\ Len(latencies) <= Window /\ Window \in Nat
      BY <1>3, BatchingConstantsHold DEF SizeInv, BatchingConstants
    <2> HIDE DEF longer
    <2>2. Tail(longer) \in Seq(0 .. 2) /\ Len(Tail(longer)) = Len(longer) - 1
      BY <2>1
    <2>3. latencies' \in Seq(0 .. 2) /\ Len(latencies') <= Window
      BY <1>2, <2>1, <2>2 DEF longer
    <2> QED
      BY <1>1, <1>3, <2>3 DEF SizeInv
  <1>5. Collected' = Collected /\ Keys' = Keys /\ \A k : LaneOf(k)' = LaneOf(k)
    BY <1>1 DEF Collected, Keys, LaneOf
  <1>6. LanesInv' /\ BatchesInv' /\ CollectedInv'
    <2>1. LanesInv'
      BY <1>1, <1>3, <1>5 DEF LanesInv
    <2>2. BatchesInv'
      BY <1>1, <1>3 DEF BatchesInv, Fits
    <2>3. CollectedInv'
      BY <1>1, <1>3, <1>5 DEF CollectedInv
    <2> QED
      BY <2>1, <2>2, <2>3
  <1> QED
    BY <1>4, <1>6 DEF BatchingInv

\* Every step keeps the invariant.
LEMMA BatchingInvNext ==
  ASSUME BatchingInv, [BatchingNext]_batchingVars
  PROVE  BatchingInv'
  <1>1. CASE CollectBatch
    <2>1. LanesInv /\ SizeInv /\ BatchesInv /\ CollectedInv
      BY DEF BatchingInv
    <2>2. PICK batch : Collects(batch)
      BY <1>1, <2>1, CollectBatchCollects
    <2>3. currentSize' \in MinBatch .. MaxBatch /\ UNCHANGED << batcher, latencies, added >>
      BY <1>1, <2>1, CollectBatchCollects
    <2>4. /\ Serves(batch) /\ batch # << >> => Fits(batch)
          /\ batches' = IF batch = << >> THEN batches ELSE Append(batches, batch)
      BY <2>2 DEF Collects
    <2>5. LanesInv' /\ BatchesInv' /\ CollectedInv'
      BY <2>1, <2>2, <2>3, <2>4, ServesKeeps DEF Collects
    <2>6. SizeInv'
      BY <2>1, <2>3 DEF SizeInv
    <2> QED
      BY <2>5, <2>6 DEF BatchingInv
  <1>2. CASE UNCHANGED batchingVars
    <2>1. /\ UNCHANGED << batcher, queues, currentSize, latencies, added, batches >>
          /\ Collected' = Collected /\ Keys' = Keys /\ \A k : LaneOf(k)' = LaneOf(k)
      BY <1>2 DEF batchingVars, Collected, Keys, LaneOf
    <2>2. LanesInv'
      BY <2>1 DEF BatchingInv, LanesInv
    <2>3. SizeInv' /\ BatchesInv'
      BY <2>1 DEF BatchingInv, SizeInv, BatchesInv, Fits
    <2>4. CollectedInv'
      BY <2>1 DEF BatchingInv, CollectedInv
    <2> QED
      BY <2>2, <2>3, <2>4 DEF BatchingInv
  <1> QED
    BY <1>1, <1>2, AddRequestKeeps, TickKeeps, RecordBatchMetricsKeeps DEF BatchingNext

-----------------------------------------------------------------------------
(* What the batchers promise *)

\* In every behaviour of every batcher, whatever the sizes, the waiting time and
\* the texts: the invariant above.
LEMMA BatchingInvariant == BatchingSpec => []BatchingInv
  BY BatchingInvInit, BatchingInvNext, PTL DEF BatchingSpec

\* The adaptive size and every batch stay within the strategy, however often the
\* size grows and shrinks with the latencies, and no batch is empty
\* (AdaptiveBatcher.collect_batch, _calculate_optimal_batch_size).
THEOREM BatchingTypes == BatchingSpec => []BatchingTypeOK
  <1>1. ASSUME BatchingInv PROVE BatchingTypeOK
    <2>1. LanesInv /\ SizeInv /\ BatchesInv
      BY <1>1 DEF BatchingInv
    <2>2. batcher \in Batchers /\ added \in 0 .. MaxRequests
      BY <2>1 DEF LanesInv
    <2>3. \A lane \in Priorities : \A i \in DOMAIN queues[lane] : queues[lane][i] \in Requests
      <3>1. \A lane \in Priorities : queues[lane] \in Seq(Requests)
        BY <2>1 DEF LanesInv
      <3> QED
        BY <3>1
    <2>4. /\ currentSize \in MinBatch .. MaxBatch
          /\ Len(latencies) <= Window /\ \A i \in DOMAIN latencies : latencies[i] \in 0 .. 2
      BY <2>1 DEF SizeInv
    <2>5. \A i \in DOMAIN batches :
            Len(batches[i]) \in 1 .. IF Head(batches[i]).key = "express" THEN ExpressBatch ELSE MaxBatch
      BY <2>1 DEF BatchesInv, Fits
    <2> QED
      BY <2>2, <2>3, <2>4, <2>5 DEF BatchingTypeOK
  <1> QED
    BY <1>1, BatchingInvariant, PTL

\* What waits, lane after lane, is in turn as well.
LEMMA QueuedInTurn ==
  ASSUME LanesInv
  PROVE  /\ Queued \in Seq(Requests) /\ InTurn(Queued)
         /\ \A r : r \in ToSet(Queued) <=> \E lane \in Priorities : r \in ToSet(queues[lane])
  <1> DEFINE express == queues["express"]
             standard == queues["standard"]
             background == queues["batch"]
             two == express \o standard
  <1>1. /\ Priorities = {"express", "standard", "batch"}
        /\ "express" # "standard" /\ "express" # "batch" /\ "standard" # "batch"
    BY DEF Priorities
  <1>2. \A lane \in Priorities : queues[lane] \in Seq(Requests) /\ InTurn(queues[lane])
    BY OrderedInTurn DEF LanesInv
  <1>3. ASSUME NEW lane \in Priorities, NEW other \in Priorities, lane # other
        PROVE  \A r \in ToSet(queues[lane]), q \in ToSet(queues[other]) : Before(r, q)
    BY <1>3, LanesApart DEF Before
  <1>4. /\ express \in Seq(Requests) /\ standard \in Seq(Requests) /\ background \in Seq(Requests)
        /\ InTurn(express) /\ InTurn(standard) /\ InTurn(background)
    BY <1>1, <1>2
  <1>5. /\ \A r \in ToSet(express), q \in ToSet(standard) : Before(r, q)
        /\ \A r \in ToSet(express), q \in ToSet(background) : Before(r, q)
        /\ \A r \in ToSet(standard), q \in ToSet(background) : Before(r, q)
    BY <1>1, <1>3
  <1>6. Queued = two \o background
    BY DEF Queued
  <1>7. \A r : (\E lane \in Priorities : r \in ToSet(queues[lane]))
                 <=> r \in ToSet(express) \/ r \in ToSet(standard) \/ r \in ToSet(background)
    BY <1>1
  <1> HIDE DEF express, standard, background
  <1>8. two \in Seq(Requests) /\ InTurn(two) /\ ToSet(two) = ToSet(express) \cup ToSet(standard)
    BY <1>4, <1>5, ConcatInTurn, ConcatSet
  <1> HIDE DEF two
  <1>9. \A r \in ToSet(two), q \in ToSet(background) : Before(r, q)
    BY <1>5, <1>8
  <1>10. /\ two \o background \in Seq(Requests) /\ InTurn(two \o background)
         /\ ToSet(two \o background) = ToSet(two) \cup ToSet(background)
    BY <1>4, <1>8, <1>9, ConcatInTurn, ConcatSet
  <1> QED
    BY <1>6, <1>7, <1>8, <1>10

\* As many requests as ids, if each has its own.
LEMMA CountedByIds ==
  ASSUME NEW all \in Seq(Requests), InTurn(all), NEW n \in Nat,
         {all[i].id : i \in DOMAIN all} = 1 .. n
  PROVE  Len(all) = n
  <1> DEFINE N == Len(all)
             f == [i \in 1 .. N |-> all[i].id]
  <1>1. N \in Nat /\ DOMAIN all = 1 .. N
    OBVIOUS
  <1>2. \A i \in 1 .. N : f[i] = all[i].id
    OBVIOUS
  <1>3. DOMAIN f = 1 .. N /\ f = [i \in 1 .. N |-> f[i]]
    OBVIOUS
  <1> HIDE DEF f, N
  <1>4. \A i \in 1 .. N : f[i] \in 1 .. n
    BY <1>1, <1>2
  <1>5. f \in [1 .. N -> 1 .. n]
    BY <1>3, <1>4
  <1>6. ASSUME NEW i \in 1 .. N, NEW j \in 1 .. N, f[i] = f[j] PROVE i = j
    <2>1. ~(i < j) /\ ~(j < i)
      BY <1>1, <1>2, <1>6 DEF InTurn, Before
    <2> QED
      BY <1>1, <2>1
  <1>7. \A id \in 1 .. n : \E i \in 1 .. N : f[i] = id
    BY <1>1, <1>2
  <1>8. f \in Bijection(1 .. N, 1 .. n)
    BY <1>5, <1>6, <1>7, Fun_IsBij
  <1>9. ExistsBijection(1 .. N, 1 .. n)
    BY <1>8 DEF ExistsBijection
  <1> DEFINE own == [i \in 1 .. n |-> i]
  <1>10. own \in [1 .. n -> 1 .. n] /\ \A i \in 1 .. n : own[i] = i
    OBVIOUS
  <1> HIDE DEF own
  <1>11. own \in Bijection(1 .. n, 1 .. n)
    BY <1>10, Fun_IsBij
  <1>12. ExistsBijection(1 .. n, 1 .. n)
    BY <1>11 DEF ExistsBijection
  <1> QED
    BY <1>1, <1>9, <1>12, Fun_NatBijSame DEF N

\* No request is lost, none is served twice, and those the batcher cannot tell
\* apart leave in the order in which they came: for any number of requests, also
\* when a timed batch mixes lanes or a semantic one skips other texts
\* (collect_batch of the three batchers, with add_request and time in between).
THEOREM RequestsStayInOrder == BatchingSpec => []RequestsAreServedInOrder
  <1>1. ASSUME BatchingInv PROVE RequestsAreServedInOrder
    <2> DEFINE all == Collected \o Queued
    <2>1. LanesInv /\ BatchesInv /\ CollectedInv
      BY <1>1 DEF BatchingInv
    <2>2. Collected \in Seq(Requests) /\ InTurn(Collected)
      BY <2>1, CollectedType DEF CollectedInv
    <2>3. /\ Queued \in Seq(Requests) /\ InTurn(Queued)
          /\ \A r : r \in ToSet(Queued) <=> \E lane \in Priorities : r \in ToSet(queues[lane])
      BY <2>1, QueuedInTurn
    <2>4. \A r \in ToSet(Collected), q \in ToSet(Queued) : Before(r, q)
      BY <2>1, <2>3 DEF CollectedInv
    <2>5. all \in Seq(Requests) /\ InTurn(all) /\ ToSet(all) = ToSet(Collected) \cup ToSet(Queued)
      BY <2>2, <2>3, <2>4, ConcatInTurn, ConcatSet
    <2> HIDE DEF all
    <2>6. \A r \in ToSet(all) : r.id \in 1 .. added
      <3>1. \A r \in ToSet(all) : r.id <= added
        BY <2>1, <2>3, <2>5 DEF CollectedInv, LanesInv
      <3>2. \A r \in ToSet(all) : r \in Requests
        BY <2>5 DEF ToSet
      <3>3. \A r \in Requests : r.id \in 1 .. MaxRequests
        BY DEF Requests
      <3>4. added \in Nat /\ MaxRequests \in Nat
        BY <2>1, BatchingConstantsHold DEF LanesInv, BatchingConstants
      <3> QED
        BY <3>1, <3>2, <3>3, <3>4
    <2>7. \A id \in 1 .. added : \E r \in ToSet(all) : r.id = id
      BY <2>1, <2>3, <2>5 DEF CollectedInv
    <2>8. {all[i].id : i \in DOMAIN all} = 1 .. added
      BY <2>6, <2>7 DEF ToSet
    <2>9. Len(all) = added
      <3>1. added \in Nat
        BY <2>1, BatchingConstantsHold DEF LanesInv, BatchingConstants
      <3> QED
        BY <2>5, <2>8, <3>1, CountedByIds
    <2>10. \A i, j \in DOMAIN all : i < j /\ all[i].key = all[j].key => all[i].id < all[j].id
      BY <2>5 DEF InTurn, Before
    <2> QED
      BY <2>8, <2>9, <2>10 DEF RequestsAreServedInOrder, all
  <1> QED
    BY <1>1, BatchingInvariant, PTL

\* No batch is taken while something more urgent stays behind: whatever the
\* lanes hold, the priority batcher serves the first lane that is not empty, the
\* adaptive one mixes lanes only once the standard one is drained, and the
\* semantic one never passes over the request at the head (collect_batch).
THEOREM TheMostUrgentGoFirst == BatchingSpec => NothingMoreUrgentIsLeft
  <1>1. ASSUME BatchingInv, [BatchingNext]_batchingVars, batches' # batches
        PROVE  NothingMoreUrgent(ToSet(Last(batches')))
    <2>1. LanesInv /\ SizeInv /\ BatchesInv
      BY <1>1 DEF BatchingInv
    <2>2. CollectBatch
      BY <1>1 DEF BatchingNext, AddRequest, Tick, RecordBatchMetrics, batchingVars
    <2>3. PICK batch : Collects(batch)
      BY <2>1, <2>2, CollectBatchCollects
    <2>4. batch # << >> /\ batches' = Append(batches, batch) /\ batch \in Seq(Requests)
      BY <1>1, <2>3 DEF Collects, Serves
    <2>5. Last(batches') = batch
      BY <2>1, <2>4, LastOfAppend DEF BatchesInv
    <2> QED
      BY <2>3, <2>4, <2>5 DEF Collects
  <1>2. ASSUME BatchingInv, [BatchingNext]_batchingVars
        PROVE  batches' # batches => NothingMoreUrgent(ToSet(Last(batches')))
    BY <1>1, <1>2
  <1> QED
    BY <1>2, BatchingInvariant, PTL DEF BatchingSpec, NothingMoreUrgentIsLeft, NothingMoreUrgent

-----------------------------------------------------------------------------
(* Least and sorted *)

\* Any two members of D compare, and the relation is transitive.
Ranks(R, D) ==
  /\ \A x, y \in D : x # y => << x, y >> \in R \/ << y, x >> \in R
  /\ \A x, y, z \in D : << x, y >> \in R /\ << y, z >> \in R => << x, z >> \in R

\* x comes before the rest of T.
ComesFirst(R, T, x) == x \in T /\ \A y \in T \ {x} : << x, y >> \in R

\* Of finitely many that compare one comes first.
LEMMA FirstOfAll ==
  ASSUME NEW D, IsFiniteSet(D), NEW R, Ranks(R, D), D # {}
  PROVE  \E x \in D : ComesFirst(R, D, x)
  <1> DEFINE N == Cardinality(D)
             S == {n \in 0 .. N : \A T \in SUBSET D :
                     Cardinality(T) = n /\ T # {} => \E x \in T : ComesFirst(R, T, x)}
  <1>1. N \in Nat
    BY FS_CardinalityType
  <1>2. \A T \in SUBSET D : IsFiniteSet(T) /\ Cardinality(T) \in Nat
    BY FS_Subset, FS_CardinalityType
  <1>3. 0 \in S
    <2>1. \A T \in SUBSET D : Cardinality(T) = 0 => T = {}
      BY <1>2, FS_EmptySet
    <2> QED
      BY <1>1, <2>1
  <1>4. ASSUME NEW n \in 1 .. N, n - 1 \in S PROVE n \in S
    <2>1. ASSUME NEW T \in SUBSET D, Cardinality(T) = n, T # {}
          PROVE  \E x \in T : ComesFirst(R, T, x)
      <3>1. PICK x : x \in T
        BY <2>1
      <3> DEFINE U == T \ {x}
      <3>2. U \in SUBSET D /\ Cardinality(U) = n - 1
        BY <1>2, <2>1, <3>1, FS_RemoveElement
      <3>3. CASE U = {}
        BY <3>1, <3>3 DEF ComesFirst
      <3>4. CASE U # {}
        <4>1. PICK m \in U : ComesFirst(R, U, m)
          BY <1>4, <3>2, <3>4
        <4>2. x \in D /\ m \in D /\ x # m
          BY <3>1, <3>2, <4>1
        <4>3. CASE << m, x >> \in R
          <5>1. ComesFirst(R, T, m)
            BY <4>1, <4>3 DEF ComesFirst
          <5> QED
            BY <4>1, <5>1
        <4>4. CASE << x, m >> \in R
          <5>1. ASSUME NEW y \in U PROVE << x, y >> \in R
            BY <3>2, <4>1, <4>2, <4>4 DEF ComesFirst, Ranks
          <5>2. ComesFirst(R, T, x)
            BY <3>1, <5>1 DEF ComesFirst
          <5> QED
            BY <3>1, <5>2
        <4> QED
          BY <4>2, <4>3, <4>4 DEF Ranks
      <3> QED
        BY <3>3, <3>4
    <2> QED
      BY <1>1, <2>1
  <1>5. N \in S
    <2> HIDE DEF S, N
    <2>1. Inductive(S, N)
      BY <1>3, <1>4 DEF Inductive
    <2> QED
      BY <1>1, <2>1, CountUp
  <1> QED
    BY <1>5

\* list has its members in the order of R.
Ordered(R, list, n) == \A i, j \in 1 .. n : i < j => << list[i], list[j] >> \in R

\* Finitely many that compare can be listed in order.
LEMMA AllInOrder ==
  ASSUME NEW D, IsFiniteSet(D), NEW R, Ranks(R, D)
  PROVE  \E list \in [1 .. Cardinality(D) -> D] : Ordered(R, list, Cardinality(D))
  <1> DEFINE N == Cardinality(D)
             S == {n \in 0 .. N : \A T \in SUBSET D :
                     Cardinality(T) = n => \E list \in [1 .. n -> T] : Ordered(R, list, n)}
  <1>1. N \in Nat
    BY FS_CardinalityType
  <1>2. \A T \in SUBSET D : IsFiniteSet(T) /\ Cardinality(T) \in Nat
    BY FS_Subset, FS_CardinalityType
  <1>3. 0 \in S
    <2> DEFINE none == [i \in 1 .. 0 |-> i]
    <2>1. ASSUME NEW T \in SUBSET D PROVE none \in [1 .. 0 -> T] /\ Ordered(R, none, 0)
      BY DEF Ordered
    <2> HIDE DEF none
    <2> QED
      BY <1>1, <2>1
  <1>4. ASSUME NEW n \in 1 .. N, n - 1 \in S PROVE n \in S
    <2>1. ASSUME NEW T \in SUBSET D, Cardinality(T) = n
          PROVE  \E list \in [1 .. n -> T] : Ordered(R, list, n)
      <3>1. T # {} /\ IsFiniteSet(T) /\ Ranks(R, T)
        <4>1. n # 0
          OBVIOUS
        <4>2. T # {}
          BY <2>1, <4>1, FS_EmptySet
        <4> QED
          BY <1>2, <4>2 DEF Ranks
      <3>2. PICK x \in T : ComesFirst(R, T, x)
        BY <3>1, FirstOfAll
      <3> DEFINE U == T \ {x}
      <3>3. U \in SUBSET D /\ Cardinality(U) = n - 1
        BY <1>2, <2>1, FS_RemoveElement
      <3>4. PICK rest \in [1 .. n - 1 -> U] : Ordered(R, rest, n - 1)
        BY <1>4, <3>3
      <3> DEFINE list == [i \in 1 .. n |-> IF i = 1 THEN x ELSE rest[i - 1]]
      <3>5. /\ list[1] = x
            /\ \A i \in 2 .. n : i - 1 \in 1 .. n - 1 /\ list[i] = rest[i - 1] /\ list[i] \in U
        OBVIOUS
      <3>6. list \in [1 .. n -> T]
        <4>1. \A i \in 1 .. n : i = 1 \/ i \in 2 .. n
          OBVIOUS
        <4>2. DOMAIN list = 1 .. n /\ list = [i \in 1 .. n |-> list[i]]
          OBVIOUS
        <4> HIDE DEF list
        <4>3. \A i \in 1 .. n : list[i] \in T
          BY <3>5, <4>1
        <4> QED
          BY <4>2, <4>3
      <3> HIDE DEF list
      <3>7. ASSUME NEW i \in 1 .. n, NEW j \in 1 .. n, i < j PROVE << list[i], list[j] >> \in R
        <4>1. j \in 2 .. n
          BY <3>7
        <4>2. CASE i = 1
          BY <3>2, <3>5, <4>1, <4>2 DEF ComesFirst
        <4>3. CASE i # 1
          <5>1. i \in 2 .. n /\ i - 1 < j - 1
            BY <3>7, <4>3
          <5> QED
            BY <3>4, <3>5, <4>1, <5>1 DEF Ordered
        <4> QED
          BY <4>2, <4>3
      <3> QED
        BY <3>6, <3>7 DEF Ordered
    <2> QED
      BY <1>1, <2>1
  <1>5. N \in S
    <2> HIDE DEF S, N
    <2>1. Inductive(S, N)
      BY <1>3, <1>4 DEF Inductive
    <2> QED
      BY <1>1, <2>1, CountUp
  <1> QED
    BY <1>5

\* Keys of n numbers, all different.
Keyed(key, n) ==
  /\ IsFiniteSet(DOMAIN key)
  /\ \A id \in DOMAIN key : key[id] \in [1 .. n -> Int]
  /\ \A id, other \in DOMAIN key : id # other => key[id] # key[other]

\* The order of the keys.
KeyOrder(key) ==
  {pair \in (DOMAIN key) \X (DOMAIN key) : Precedes(key[pair[1]], key[pair[2]])}

\* Different tuples of the same length compare.
LEMMA TuplesCompare ==
  ASSUME NEW n \in Nat, NEW s \in [1 .. n -> Int], NEW t \in [1 .. n -> Int], s # t
  PROVE  Precedes(s, t) \/ Precedes(t, s)
  <1> DEFINE differ == {i \in 1 .. n : s[i] # t[i]}
  <1>1. differ # {} /\ differ \in SUBSET Nat
    OBVIOUS
  <1>2. PICK i \in differ : \A j \in differ : i <= j
    <2> HIDE DEF differ
    <2> QED
      BY <1>1, SmallestNumber
  <1>3. i \in 1 .. n /\ s[i] # t[i] /\ s[i] \in Int /\ t[i] \in Int
    OBVIOUS
  <1>4. \A j \in 1 .. i - 1 : s[j] = t[j]
    <2>1. \A j \in 1 .. i - 1 : j \in 1 .. n /\ ~(i <= j)
      BY <1>3
    <2> QED
      BY <1>2, <2>1
  <1>5. DOMAIN s = 1 .. n /\ DOMAIN t = 1 .. n
    OBVIOUS
  <1>6. CASE s[i] < t[i]
    BY <1>3, <1>4, <1>5, <1>6 DEF Precedes
  <1>7. CASE t[i] < s[i]
    BY <1>3, <1>4, <1>5, <1>7 DEF Precedes
  <1> QED
    BY <1>3, <1>6, <1>7

\* What precedes a tuple precedes what follows it.
LEMMA TuplesFollow ==
  ASSUME NEW n \in Nat, NEW s \in [1 .. n -> Int], NEW t \in [1 .. n -> Int],
         NEW u \in [1 .. n -> Int], Precedes(s, t), Precedes(t, u)
  PROVE  Precedes(s, u)
  <1>1. PICK i \in 1 .. n : s[i] < t[i] /\ \A k \in 1 .. i - 1 : s[k] = t[k]
    BY DEF Precedes
  <1>2. PICK j \in 1 .. n : t[j] < u[j] /\ \A k \in 1 .. j - 1 : t[k] = u[k]
    BY DEF Precedes
  <1>3. \A k \in 1 .. n : s[k] \in Int /\ t[k] \in Int /\ u[k] \in Int
    OBVIOUS
  <1>4. CASE i <= j
    <2>1. s[i] < u[i]
      <3>1. i < j => t[i] = u[i]
        BY <1>2
      <3> QED
        BY <1>1, <1>2, <1>3, <1>4, <3>1
    <2>2. \A k \in 1 .. i - 1 : s[k] = u[k]
      <3>1. \A k \in 1 .. i - 1 : k \in 1 .. j - 1
        BY <1>4
      <3> QED
        BY <1>1, <1>2, <3>1
    <2> QED
      BY <2>1, <2>2 DEF Precedes
  <1>5. CASE j < i
    <2>1. s[j] < u[j]
      <3>1. s[j] = t[j]
        BY <1>1, <1>5
      <3> QED
        BY <1>2, <3>1
    <2>2. \A k \in 1 .. j - 1 : s[k] = u[k]
      <3>1. \A k \in 1 .. j - 1 : k \in 1 .. i - 1
        BY <1>5
      <3> QED
        BY <1>1, <1>2, <3>1
    <2> QED
      BY <2>1, <2>2 DEF Precedes
  <1> QED
    BY <1>4, <1>5

\* No tuple precedes itself.
LEMMA TuplesDiffer ==
  ASSUME NEW n \in Nat, NEW s \in [1 .. n -> Int]
  PROVE  ~Precedes(s, s)
  BY DEF Precedes

\* Keys that differ compare, and so do the models that have them.
LEMMA KeysRank ==
  ASSUME NEW n \in Nat, NEW key, Keyed(key, n)
  PROVE  Ranks(KeyOrder(key), DOMAIN key)
  <1>1. ASSUME NEW x \in DOMAIN key, NEW y \in DOMAIN key, x # y
        PROVE  << x, y >> \in KeyOrder(key) \/ << y, x >> \in KeyOrder(key)
    <2>1. key[x] \in [1 .. n -> Int] /\ key[y] \in [1 .. n -> Int] /\ key[x] # key[y]
      BY <1>1 DEF Keyed
    <2>2. Precedes(key[x], key[y]) \/ Precedes(key[y], key[x])
      BY <2>1, TuplesCompare
    <2> QED
      BY <2>2 DEF KeyOrder
  <1>2. ASSUME NEW x \in DOMAIN key, NEW y \in DOMAIN key, NEW z \in DOMAIN key,
               << x, y >> \in KeyOrder(key), << y, z >> \in KeyOrder(key)
        PROVE  << x, z >> \in KeyOrder(key)
    <2>1. /\ key[x] \in [1 .. n -> Int] /\ key[y] \in [1 .. n -> Int]
          /\ key[z] \in [1 .. n -> Int]
      BY DEF Keyed
    <2>2. Precedes(key[x], key[y]) /\ Precedes(key[y], key[z])
      BY <1>2 DEF KeyOrder
    <2>3. Precedes(key[x], key[z])
      BY <2>1, <2>2, TuplesFollow
    <2> QED
      BY <2>3 DEF KeyOrder
  <1> QED
    BY <1>1, <1>2 DEF Ranks

\* min(..., key): there is a model with the least key, and no other comes before it.
LEMMA KeyIsLeast ==
  ASSUME NEW n \in Nat, NEW key, Keyed(key, n), DOMAIN key # {}
  PROVE  /\ Least(key) \in DOMAIN key
         /\ \A other \in DOMAIN key : other # Least(key) => Precedes(key[Least(key)], key[other])
  <1> DEFINE IsLeast(x) == \A other \in DOMAIN key \ {x} : Precedes(key[x], key[other])
  <1>1. PICK x \in DOMAIN key : ComesFirst(KeyOrder(key), DOMAIN key, x)
    <2>1. IsFiniteSet(DOMAIN key) /\ Ranks(KeyOrder(key), DOMAIN key)
      BY KeysRank DEF Keyed
    <2> QED
      BY <2>1, FirstOfAll
  <1>2. IsLeast(x)
    BY <1>1 DEF ComesFirst, KeyOrder
  <1>3. Least(key) \in DOMAIN key /\ IsLeast(Least(key))
    BY <1>2 DEF Least
  <1> QED
    BY <1>3

\* sorted(..., key): every model that has a key once, in the order of the keys.
LEMMA SortedList ==
  ASSUME NEW n \in Nat, NEW key, Keyed(key, n)
  PROVE  /\ SortedBy(key) \in [1 .. Cardinality(DOMAIN key) -> DOMAIN key]
         /\ \A i, j \in 1 .. Cardinality(DOMAIN key) :
              SortedBy(key)[i] = SortedBy(key)[j] => i = j
         /\ \A id \in DOMAIN key : \E i \in 1 .. Cardinality(DOMAIN key) : SortedBy(key)[i] = id
  <1> DEFINE D == DOMAIN key
             N == Cardinality(D)
             list == SortedBy(key)
             InOrder(l) == \A i, j \in DOMAIN l : i < j => Precedes(key[l[i]], key[l[j]])
  <1>1. IsFiniteSet(D) /\ N \in Nat
    BY FS_CardinalityType DEF Keyed
  <1>2. PICK l \in [1 .. N -> D] : Ordered(KeyOrder(key), l, N)
    <2>1. Ranks(KeyOrder(key), D)
      BY KeysRank
    <2> HIDE DEF D
    <2> QED
      BY <1>1, <2>1, AllInOrder
  <1>3. InOrder(l)
    BY <1>2 DEF Ordered, KeyOrder
  <1>4. list \in [1 .. N -> D] /\ InOrder(list)
    BY <1>3 DEF SortedBy
  <1> HIDE DEF list
  <1>5. ASSUME NEW i \in 1 .. N, NEW j \in 1 .. N, list[i] = list[j] PROVE i = j
    <2>1. key[list[i]] \in [1 .. n -> Int]
      BY <1>4 DEF Keyed
    <2>2. ~Precedes(key[list[i]], key[list[j]]) /\ ~Precedes(key[list[j]], key[list[i]])
      BY <1>5, <2>1, TuplesDiffer
    <2>3. ~(i < j) /\ ~(j < i)
      BY <1>4, <2>2
    <2> QED
      BY <1>1, <2>3
  <1>6. list \in Surjection(1 .. N, D)
    <2>1. list \in Injection(1 .. N, D)
      BY <1>4, <1>5 DEF Injection, IsInjective
    <2>2. Cardinality(1 .. N) = Cardinality(D)
      <3> HIDE DEF N
      <3>1. N \in Int /\ 1 \in Int
        BY <1>1
      <3>2. Cardinality(1 .. N) = IF 1 > N THEN 0 ELSE N - 1 + 1
        BY <3>1, FS_Interval
      <3> QED
        BY <1>1, <3>2 DEF N
    <2> HIDE DEF D, N
    <2> QED
      BY <1>1, <2>1, <2>2, FS_Injection
  <1>7. \A id \in D : \E i \in 1 .. N : list[i] = id
    BY <1>6 DEF Surjection
  <1> QED
    BY <1>4, <1>5, <1>7 DEF list

-----------------------------------------------------------------------------
(* Keys, quotes and scores *)

\* The keys of this module are tuples of one to four numbers.
LEMMA TupleTypes ==
  ASSUME NEW x1 \in Int, NEW x2 \in Int, NEW x3 \in Int, NEW x4 \in Int
  PROVE  /\ << x1 >> \in [1 .. 1 -> Int] /\ << x1, x2 >> \in [1 .. 2 -> Int]
         /\ << x1, x2, x3 >> \in [1 .. 3 -> Int] /\ << x1, x2, x3, x4 >> \in [1 .. 4 -> Int]
  OBVIOUS

\* What a routed request and its models are.
RoutingTypes(req) ==
  /\ router \in Routers /\ models \in Fleets /\ config \in Configs
  /\ req \in [shape : Shapes, tier : DOMAIN Rank, preferred : Ids \cup {NoLimit}]

\* The rank of a tier.
LEMMA Ranked == \A tier \in DOMAIN Rank : Rank[tier] \in 1 .. 3
  BY DEF Rank

\* This is what RoutingAssumption says of them.
LEMMA ModelFacts ==
  ASSUME NEW req, RoutingTypes(req)
  PROVE  /\ IsFiniteSet(Ids) /\ Ids \subseteq Nat
         /\ \A id \in Ids : /\ models[id] \in ModelConfigs /\ Cost(id, req) \in Nat
                            /\ models[id].latency \in Int /\ models[id].load \in Int
                            /\ models[id].tier \in DOMAIN Rank
         /\ req.tier \in DOMAIN Rank
  <1>1. IsFiniteSet(Ids) /\ Ids \subseteq Nat /\ \A id \in Ids : models[id] \in ModelConfigs
    BY RoutingAssumption DEF RoutingTypes, RoutingAssumption, Ids
  <1>2. req.tier \in DOMAIN Rank /\ req.shape[1] \in Nat /\ req.shape[2] \in Nat
    BY RoutingAssumption DEF RoutingTypes, RoutingAssumption
  <1>3. ASSUME NEW id \in Ids
        PROVE  /\ Cost(id, req) \in Nat /\ models[id].latency \in Int /\ models[id].load \in Int
               /\ models[id].tier \in DOMAIN Rank
    <2>1. /\ models[id].inputRate \in Nat /\ models[id].outputRate \in Nat
          /\ models[id].latency \in Int /\ models[id].load \in Int
          /\ models[id].tier \in DOMAIN Rank
      BY <1>1 DEF ModelConfigs
    <2>2. /\ req.shape[1] * models[id].inputRate \in Nat
          /\ req.shape[2] * models[id].outputRate \in Nat
      BY <1>2, <2>1
    <2>3. Cost(id, req) \in Nat
      BY <2>2 DEF Cost
    <2> QED
      BY <2>1, <2>3
  <1> QED
    BY <1>1, <1>2, <1>3

\* A quality is a number, whatever the tiers.
LEMMA AdjustedType ==
  ASSUME NEW base \in Int, NEW tier \in DOMAIN Rank, NEW req, req.tier \in DOMAIN Rank,
         NEW penalty \in Int, NEW bonus \in Int
  PROVE  Adjusted(base, tier, req, penalty, bonus) \in Int
  <1>1. base - penalty \in Int /\ base + bonus \in Int /\ 0 \in Int /\ 100 \in Int
    OBVIOUS
  <1>2. Max({0, base - penalty}) \in Int /\ Min({100, base + bonus}) \in Int
    <2>1. Max({0, base - penalty}) = IF 0 <= base - penalty THEN base - penalty ELSE 0
      BY <1>1, OfTwo
    <2>2. Min({100, base + bonus}) = IF 100 <= base + bonus THEN 100 ELSE base + bonus
      BY <1>1, OfTwo
    <2> QED
      BY <1>1, <2>1, <2>2
  <1> QED
    BY <1>2 DEF Adjusted

\* So is the quality the policy expects of a model.
LEMMA QualityType ==
  ASSUME NEW req, RoutingTypes(req), NEW id \in Ids
  PROVE  Quality(id, req) \in Int
  <1> DEFINE base == [economy |-> 45, standard |-> 72, premium |-> 92][models[id].tier]
             tier == models[id].tier
  <1>1. tier \in DOMAIN Rank /\ req.tier \in DOMAIN Rank
    BY ModelFacts
  <1>2. base \in Int
    BY <1>1 DEF Rank
  <1>3. Quality(id, req) = Adjusted(base, tier, req, 22, 5)
    BY DEF Quality
  <1>4. 22 \in Int /\ 5 \in Int
    OBVIOUS
  <1> HIDE DEF base, tier
  <1> QED
    BY <1>1, <1>2, <1>3, <1>4, AdjustedType

\* The extremes of finitely many numbers are numbers, and their span is positive.
LEMMA SpanIsPositive ==
  ASSUME NEW values \in SUBSET Int, IsFiniteSet(values), values # {}
  PROVE  /\ Min(values) \in Int /\ SpanOf(values) \in Int /\ SpanOf(values) >= 1
         /\ \A x \in values : Above(x, values) \in Int
  <1> DEFINE Lower == {pair \in values \X values : pair[1] < pair[2]}
             Higher == {pair \in values \X values : pair[1] > pair[2]}
  <1>1. Ranks(Lower, values) /\ Ranks(Higher, values)
    BY DEF Ranks
  <1>2. PICK least \in values : ComesFirst(Lower, values, least)
    <2> HIDE DEF Lower
    <2> QED
      BY <1>1, FirstOfAll
  <1>3. PICK most \in values : ComesFirst(Higher, values, most)
    <2> HIDE DEF Higher
    <2> QED
      BY <1>1, FirstOfAll
  <1> HIDE DEF Lower, Higher
  <1>4. (\A x \in values : least <= x) /\ \A x \in values : most >= x
    <2>1. \A x \in values : x \in Int
      OBVIOUS
    <2>2. \A x \in values : x # least => least < x
      BY <1>2 DEF ComesFirst, Lower
    <2>3. \A x \in values : x # most => most > x
      BY <1>3 DEF ComesFirst, Higher
    <2> QED
      BY <2>1, <2>2, <2>3
  <1>5. Min(values) \in values
    BY <1>4 DEF Min
  <1>6. Max(values) \in values
    BY <1>4 DEF Max
  <1>7. Max(values) \in Int /\ Min(values) \in Int
    BY <1>5, <1>6
  <1> DEFINE low == Min(values)
             span == Max(values) - low
  <1> HIDE DEF low
  <1>8. span \in Int /\ 1 \in Int /\ low \in Int
    BY <1>7 DEF low
  <1> HIDE DEF span
  <1>9. Max({1, span}) = IF 1 <= span THEN span ELSE 1
    BY <1>8, OfTwo
  <1>10. SpanOf(values) = Max({1, span})
    BY DEF SpanOf, span, low
  <1>11. ASSUME NEW x \in values PROVE Above(x, values) \in Int
    <2>1. x \in Int /\ Above(x, values) = x - low
      BY DEF Above, low
    <2> QED
      BY <1>8, <2>1
  <1> QED
    BY <1>7, <1>8, <1>9, <1>10, <1>11

\* The values of an attribute of finitely many models.
LEMMA ValuesAreFinite ==
  ASSUME NEW ids, IsFiniteSet(ids), ids # {}, NEW value \in [ids -> Int]
  PROVE  /\ {value[id] : id \in ids} \in SUBSET Int
         /\ IsFiniteSet({value[id] : id \in ids}) /\ {value[id] : id \in ids} # {}
  <1> DEFINE T == {value[id] : id \in ids}
  <1>1. T \in SUBSET Int /\ T # {}
    OBVIOUS
  <1>2. value \in Surjection(ids, T)
    BY DEF Surjection
  <1> HIDE DEF T
  <1>3. IsFiniteSet(T)
    BY <1>2, FS_Surjection
  <1> QED
    BY <1>1, <1>3 DEF T

\* Multiplying by what is not negative.
LEMMA Multiplied ==
  ASSUME NEW k \in Nat, NEW x \in Int, NEW y \in Int, x <= y
  PROVE  /\ k * x \in Int /\ k * y \in Int /\ k * x <= k * y
         /\ x * k \in Int /\ y * k \in Int /\ x * k <= y * k
         /\ k > 0 /\ x < y => k * x < k * y /\ x * k < y * k
  OBVIOUS

\* Worse in every respect, worse in the weighted sum.
LEMMA WorseScoresMore ==
  ASSUME NEW cw \in Nat, NEW lw \in Nat, NEW qw \in Nat,
         NEW sc \in Nat \ {0}, NEW sl \in Nat \ {0},
         NEW c1 \in Int, NEW c2 \in Int, NEW l1 \in Int, NEW l2 \in Int,
         NEW q1 \in Int, NEW q2 \in Int, NEW b1 \in Int, NEW b2 \in Int,
         c1 > c2, l1 > l2, q1 < q2, b1 > b2
  PROVE  100 * cw * c1 * sl + 100 * lw * l1 * sc + (qw * (100 - q1) + 10 * b1) * sc * sl
           > 100 * cw * c2 * sl + 100 * lw * l2 * sc + (qw * (100 - q2) + 10 * b2) * sc * sl
  <1>1. /\ (100 * cw * c1) * sl \in Int /\ (100 * cw * c2) * sl \in Int
        /\ (100 * cw * c2) * sl <= (100 * cw * c1) * sl
    <2>1. 100 * cw \in Nat
      OBVIOUS
    <2>2. /\ (100 * cw) * c1 \in Int /\ (100 * cw) * c2 \in Int
          /\ (100 * cw) * c2 <= (100 * cw) * c1
      BY <2>1, Multiplied
    <2> QED
      BY <2>2, Multiplied
  <1>2. /\ (100 * lw * l1) * sc \in Int /\ (100 * lw * l2) * sc \in Int
        /\ (100 * lw * l2) * sc <= (100 * lw * l1) * sc
    <2>1. 100 * lw \in Nat
      OBVIOUS
    <2>2. /\ (100 * lw) * l1 \in Int /\ (100 * lw) * l2 \in Int
          /\ (100 * lw) * l2 <= (100 * lw) * l1
      BY <2>1, Multiplied
    <2> QED
      BY <2>2, Multiplied
  <1> DEFINE w1 == qw * (100 - q1) + 10 * b1
             w2 == qw * (100 - q2) + 10 * b2
  <1>3. w1 \in Int /\ w2 \in Int /\ w2 < w1
    <2>1. 100 - q1 \in Int /\ 100 - q2 \in Int /\ 100 - q2 <= 100 - q1
      OBVIOUS
    <2>2. /\ qw * (100 - q1) \in Int /\ qw * (100 - q2) \in Int
          /\ qw * (100 - q2) <= qw * (100 - q1)
      BY <2>1, Multiplied
    <2> QED
      BY <2>2
  <1> HIDE DEF w1, w2
  <1>4. (w1 * sc) * sl \in Int /\ (w2 * sc) * sl \in Int /\ (w2 * sc) * sl < (w1 * sc) * sl
    <2>1. w1 * sc \in Int /\ w2 * sc \in Int /\ w2 * sc < w1 * sc
      BY <1>3, Multiplied
    <2> QED
      BY <2>1, Multiplied
  <1>5. \A x1, x2, y1, y2, z1, z2 \in Int :
          x2 <= x1 /\ y2 <= y1 /\ z2 < z1 => x1 + y1 + z1 > x2 + y2 + z2
    OBVIOUS
  <1> QED
    BY <1>1, <1>2, <1>4, <1>5 DEF w1, w2

\* Some of the models: finitely many, and which are eligible.
LEMMA SomeModels ==
  ASSUME NEW req, RoutingTypes(req)
  PROVE  /\ Eligible(req) \subseteq Ids
         /\ \A ids \in SUBSET Ids : IsFiniteSet(ids) /\ \A id \in ids : id \in Int
  <1>1. IsFiniteSet(Ids) /\ Ids \subseteq Nat
    BY ModelFacts
  <1>2. \A ids \in SUBSET Ids : IsFiniteSet(ids)
    BY <1>1, FS_Subset
  <1> QED
    BY <1>1, <1>2 DEF Eligible

\* Models in the order of their ids: each once.
LEMMA IdsInOrder ==
  ASSUME NEW req, RoutingTypes(req), NEW ids \in SUBSET Ids
  PROVE  /\ InIdOrder(ids) \in [1 .. Cardinality(ids) -> ids]
         /\ \A i, j \in 1 .. Cardinality(ids) : InIdOrder(ids)[i] = InIdOrder(ids)[j] => i = j
         /\ \A id \in ids : \E i \in 1 .. Cardinality(ids) : InIdOrder(ids)[i] = id
  <1> DEFINE key == [id \in ids |-> << id >>]
  <1>1. IsFiniteSet(ids) /\ \A id \in ids : id \in Int
    BY SomeModels
  <1>2. DOMAIN key = ids /\ \A id \in ids : key[id] = << id >>
    OBVIOUS
  <1>3. InIdOrder(ids) = SortedBy(key)
    BY DEF InIdOrder
  <1> HIDE DEF key
  <1>4. \A id \in ids : << id >> \in [1 .. 1 -> Int]
    BY <1>1, TupleTypes
  <1>5. Keyed(key, 1)
    <2>1. \A id, other \in ids : id # other => << id >> # << other >>
      OBVIOUS
    <2> QED
      BY <1>1, <1>2, <1>4, <2>1 DEF Keyed
  <1>6. 1 \in Nat
    OBVIOUS
  <1> QED
    BY <1>2, <1>3, <1>5, <1>6, SortedList

\* The fallbacks are other candidates.
LEMMA FallbacksAreCandidates ==
  ASSUME NEW req, RoutingTypes(req), NEW candidates \in SUBSET Ids, NEW selected
  PROVE  ToSet(Fallbacks(candidates, selected, req)) \subseteq candidates \ {selected}
  <1> DEFINE ids == candidates \ {selected}
             key == [id \in ids |-> << Cost(id, req), models[id].latency, id >>]
             others == SortedBy(key)
             N == Cardinality(ids)
             m == IF 3 <= N THEN 3 ELSE N
  <1>1. ids \in SUBSET Ids
    OBVIOUS
  <1>2. IsFiniteSet(ids) /\ \A id \in ids : id \in Int
    BY <1>1, SomeModels
  <1>3. DOMAIN key = ids
        /\ \A id \in ids : key[id] = << Cost(id, req), models[id].latency, id >>
    OBVIOUS
  <1> HIDE DEF ids
  <1>4. \A id \in ids : Cost(id, req) \in Int /\ models[id].latency \in Int
    BY <1>1, ModelFacts
  <1> HIDE DEF key
  <1>5. \A id \in ids : key[id] \in [1 .. 3 -> Int]
    BY <1>2, <1>3, <1>4, TupleTypes
  <1>6. \A id, other \in ids : id # other => key[id] # key[other]
    BY <1>3
  <1>7. Keyed(key, 3)
    BY <1>2, <1>3, <1>5, <1>6 DEF Keyed
  <1>8. others \in [1 .. N -> ids] /\ N \in Nat
    <2>1. N \in Nat /\ 3 \in Nat
      BY <1>2, FS_CardinalityType
    <2>2. others \in [1 .. N -> ids]
      BY <1>3, <1>7, <2>1, SortedList
    <2> QED
      BY <2>1, <2>2
  <1> HIDE DEF N
  <1>9. others \in Seq(ids) /\ Len(others) = N
    <2> HIDE DEF others
    <2>1. others \in Seq(ids)
      BY <1>8, SeqDef
    <2> QED
      BY <1>8, <2>1
  <1>10. Fallbacks(candidates, selected, req) = SubSeq(others, 1, Min({3, Len(others)}))
    BY DEF Fallbacks, key, ids
  <1>11. Min({3, N}) = m
    BY <1>8, OfTwo
  <1> HIDE DEF others
  <1>12. SubSeq(others, 1, m) \in Seq(ids)
    BY <1>8, <1>9
  <1>13. \A list \in Seq(ids) : ToSet(list) \subseteq ids
    BY DEF ToSet
  <1> QED
    BY <1>9, <1>10, <1>11, <1>12, <1>13 DEF ids

\* A decision for an eligible model, with others that are eligible to fall back to.
Allowed(dec, req) ==
  /\ {dec.selected} \cup ToSet(dec.fallbacks) \subseteq Eligible(req)
  /\ dec.selected \notin ToSet(dec.fallbacks)

\* The rule-based router: the selected one has the least cost.
LEMMA RuleBasedDecides ==
  ASSUME NEW req, RoutingTypes(req), NEW dec, dec = RouteRuleBased(req), dec # NoDecision
  PROVE  /\ Allowed(dec, req)
         /\ Rank[models[dec.selected].tier] >= Rank[req.tier]
         /\ \A id \in Eligible(req) :
              Rank[models[id].tier] >= Rank[req.tier] => Cost(dec.selected, req) <= Cost(id, req)
  <1> DEFINE candidates == {id \in Eligible(req) : Rank[models[id].tier] >= Rank[req.tier]}
             key == [id \in candidates |-> << Cost(id, req), id >>]
             selected == Least(key)
             ids == Eligible(req) \ {selected}
  <1>1. /\ candidates # {}
        /\ dec.selected = selected /\ dec.fallbacks = InIdOrder(ids)
    <2>1. RouteRuleBased(req) =
            IF candidates = {} THEN NoDecision
            ELSE [selected |-> selected, reason |-> "rule_based", fallbacks |-> InIdOrder(ids)]
      BY DEF RouteRuleBased
    <2> HIDE DEF candidates, selected, ids
    <2> QED
      BY <2>1
  <1>2. candidates \subseteq Eligible(req) /\ candidates \in SUBSET Ids /\ ids \in SUBSET Ids
    BY SomeModels
  <1>3. DOMAIN key = candidates /\ \A id \in candidates : key[id] = << Cost(id, req), id >>
    OBVIOUS
  <1>4. \A id \in candidates : Rank[models[id].tier] >= Rank[req.tier]
    OBVIOUS
  <1>5. \A id \in Eligible(req) : Rank[models[id].tier] >= Rank[req.tier] => id \in candidates
    OBVIOUS
  <1> HIDE DEF candidates
  <1>6. IsFiniteSet(candidates) /\ \A id \in candidates : id \in Int /\ Cost(id, req) \in Int
    <2>1. \A id \in Ids : Cost(id, req) \in Nat
      BY ModelFacts
    <2> QED
      BY <1>2, <2>1, SomeModels
  <1> HIDE DEF key
  <1>7. Keyed(key, 2)
    <2>1. \A id \in candidates : key[id] \in [1 .. 2 -> Int]
      BY <1>3, <1>6, TupleTypes
    <2>2. \A id, other \in candidates : id # other => key[id] # key[other]
      BY <1>3
    <2> QED
      BY <1>3, <1>6, <2>1, <2>2 DEF Keyed
  <1>8. /\ selected \in candidates
        /\ \A other \in candidates : other # selected => Precedes(key[selected], key[other])
    <2>1. 2 \in Nat
      OBVIOUS
    <2> QED
      BY <1>1, <1>3, <1>7, <2>1, KeyIsLeast
  <1>9. ASSUME NEW id \in candidates PROVE Cost(selected, req) <= Cost(id, req)
    <2>1. CASE id = selected
      BY <1>6, <1>8, <2>1
    <2>2. CASE id # selected
      <3>1. Precedes(<< Cost(selected, req), selected >>, << Cost(id, req), id >>)
        BY <1>3, <1>8, <2>2
      <3> DEFINE c1 == Cost(selected, req)
                 c2 == Cost(id, req)
      <3>2. c1 \in Int /\ c2 \in Int
        BY <1>6, <1>8
      <3> HIDE DEF selected, c1, c2
      <3>3. Precedes(<< c1, selected >>, << c2, id >>) => c1 <= c2
        BY <3>2 DEF Precedes
      <3> QED
        BY <3>1, <3>3 DEF c1, c2
    <2> QED
      BY <2>1, <2>2
  <1>10. Allowed(dec, req)
    <2>1. InIdOrder(ids) \in [1 .. Cardinality(ids) -> ids]
      BY <1>2, IdsInOrder
    <2>2. ToSet(InIdOrder(ids)) \subseteq ids
      BY <2>1 DEF ToSet
    <2>3. selected \notin ids /\ ids \subseteq Eligible(req)
      OBVIOUS
    <2> QED
      BY <1>1, <1>2, <1>8, <2>2, <2>3 DEF Allowed
  <1> QED
    BY <1>1, <1>4, <1>5, <1>8, <1>9, <1>10

\* The costs and modelLatencies of some models span numbers.
LEMMA SpansOfModels ==
  ASSUME NEW req, RoutingTypes(req), NEW ids \in SUBSET Ids, ids # {}
  PROVE  LET costs == {Cost(id, req) : id \in ids}
             modelLatencies == {models[id].latency : id \in ids}
         IN  /\ SpanOf(costs) \in Nat \ {0} /\ SpanOf(modelLatencies) \in Nat \ {0}
             /\ Min(costs) \in Int /\ Min(modelLatencies) \in Int
             /\ \A id \in ids : /\ Above(Cost(id, req), costs) \in Int
                                /\ Above(models[id].latency, modelLatencies) \in Int
  <1> DEFINE cost == [id \in ids |-> Cost(id, req)]
             latency == [id \in ids |-> models[id].latency]
             costs == {Cost(id, req) : id \in ids}
             modelLatencies == {models[id].latency : id \in ids}
  <1>1. IsFiniteSet(ids) /\ \A id \in ids : Cost(id, req) \in Int /\ models[id].latency \in Int
    BY ModelFacts, SomeModels
  <1>2. cost \in [ids -> Int] /\ latency \in [ids -> Int]
    BY <1>1
  <1>3. costs = {cost[id] : id \in ids} /\ modelLatencies = {latency[id] : id \in ids}
    OBVIOUS
  <1>4. (\A id \in ids : Cost(id, req) \in costs) /\ \A id \in ids : models[id].latency \in modelLatencies
    OBVIOUS
  <1> HIDE DEF cost, latency, costs, modelLatencies
  <1>5. /\ costs \in SUBSET Int /\ IsFiniteSet(costs) /\ costs # {}
        /\ modelLatencies \in SUBSET Int /\ IsFiniteSet(modelLatencies) /\ modelLatencies # {}
    BY <1>1, <1>2, <1>3, ValuesAreFinite
  <1>6. /\ Min(costs) \in Int /\ SpanOf(costs) \in Int /\ SpanOf(costs) >= 1
        /\ \A x \in costs : Above(x, costs) \in Int
    BY <1>5, SpanIsPositive
  <1>7. /\ Min(modelLatencies) \in Int /\ SpanOf(modelLatencies) \in Int /\ SpanOf(modelLatencies) >= 1
        /\ \A x \in modelLatencies : Above(x, modelLatencies) \in Int
    BY <1>5, SpanIsPositive
  <1>8. SpanOf(costs) \in Nat \ {0} /\ SpanOf(modelLatencies) \in Nat \ {0}
    BY <1>6, <1>7
  <1> QED
    BY <1>4, <1>6, <1>7, <1>8 DEF costs, modelLatencies

\* The cost-aware router: a candidate, with candidates to fall back to.
LEMMA CostAwareDecides ==
  ASSUME NEW req, RoutingTypes(req), NEW dec, dec = RouteCostAware(req), dec # NoDecision
  PROVE  /\ Allowed(dec, req)
         /\ \A id \in {dec.selected} \cup ToSet(dec.fallbacks) : CanHandle(id, req)
  <1> DEFINE candidates == {id \in Eligible(req) : CanHandle(id, req)}
             costs == {Cost(id, req) : id \in candidates}
             Expected(id) ==
               Adjusted([economy |-> 40, standard |-> 70, premium |-> 100][models[id].tier],
                        models[id].tier, req, 20, 10)
             Score(id) ==
                 100 * CostWeight * Above(Cost(id, req), costs)
               + ((100 - CostWeight) * (100 - Expected(id)) + 20 * models[id].load) * SpanOf(costs)
             key == [id \in candidates |-> << Score(id), id >>]
             selected == Least(key)
             fallbacks == Fallbacks(candidates, selected, req)
  <1>1. /\ candidates # {}
        /\ dec.selected = selected /\ dec.fallbacks = fallbacks
    <2>1. RouteCostAware(req) =
            IF candidates = {} THEN NoDecision
            ELSE [selected |-> selected, reason |-> "cost_aware", fallbacks |-> fallbacks]
      BY DEF RouteCostAware
    <2> HIDE DEF candidates, selected, fallbacks
    <2> QED
      BY <2>1
  <1>2. candidates \subseteq Eligible(req) /\ candidates \in SUBSET Ids
    BY SomeModels
  <1>3. \A id \in candidates : CanHandle(id, req)
    OBVIOUS
  <1>4. DOMAIN key = candidates /\ \A id \in candidates : key[id] = << Score(id), id >>
    OBVIOUS
  <1> HIDE DEF candidates
  <1>5. ASSUME NEW id \in candidates PROVE Expected(id) \in Int
    <2> DEFINE base == [economy |-> 40, standard |-> 70, premium |-> 100][models[id].tier]
    <2>1. id \in Ids
      BY <1>2
    <2>2. models[id].tier \in DOMAIN Rank /\ req.tier \in DOMAIN Rank
      BY <2>1, ModelFacts
    <2>3. base \in Int /\ 20 \in Int /\ 10 \in Int
      BY <2>2 DEF Rank
    <2>4. Expected(id) = Adjusted(base, models[id].tier, req, 20, 10)
      OBVIOUS
    <2> HIDE DEF base, Expected
    <2> QED
      BY <2>2, <2>3, <2>4, AdjustedType
  <1>6. SpanOf(costs) \in Nat /\ \A id \in candidates : Above(Cost(id, req), costs) \in Int
    BY <1>1, <1>2, SpansOfModels
  <1>7. CostWeight \in Int
    BY RoutingAssumption DEF RoutingAssumption
  <1>8. \A id \in candidates : models[id].load \in Int /\ id \in Int
    BY <1>2, ModelFacts, SomeModels
  <1> HIDE DEF Expected, costs
  <1>9. ASSUME NEW id \in candidates PROVE Score(id) \in Int
    <2> DEFINE x == Above(Cost(id, req), costs)
               y == Expected(id)
               z == models[id].load
               span == SpanOf(costs)
    <2>1. x \in Int /\ y \in Int /\ z \in Int /\ span \in Int /\ CostWeight \in Int
      BY <1>5, <1>6, <1>7, <1>8
    <2>2. Score(id) = 100 * CostWeight * x + ((100 - CostWeight) * (100 - y) + 20 * z) * span
      OBVIOUS
    <2> HIDE DEF x, y, z, span, Score
    <2>3. /\ 100 * CostWeight * x \in Int
          /\ ((100 - CostWeight) * (100 - y) + 20 * z) * span \in Int
      BY <2>1
    <2> QED
      BY <2>2, <2>3
  <1> HIDE DEF Score, key
  <1>10. Keyed(key, 2)
    <2>1. IsFiniteSet(candidates)
      BY <1>2, SomeModels
    <2>2. ASSUME NEW id \in candidates PROVE key[id] \in [1 .. 2 -> Int]
      <3>1. Score(id) \in Int /\ id \in Int
        BY <1>8, <1>9
      <3>2. << Score(id), id >> \in [1 .. 2 -> Int]
        BY <3>1, TupleTypes
      <3> QED
        BY <1>4, <3>2
    <2>3. \A id, other \in candidates : id # other => key[id] # key[other]
      BY <1>4
    <2> QED
      BY <1>4, <2>1, <2>2, <2>3 DEF Keyed
  <1>11. selected \in candidates
    <2>1. 2 \in Nat
      OBVIOUS
    <2> QED
      BY <1>1, <1>4, <1>10, <2>1, KeyIsLeast
  <1> HIDE DEF selected
  <1>12. ToSet(fallbacks) \subseteq candidates \ {selected}
    BY <1>2, FallbacksAreCandidates
  <1> QED
    BY <1>1, <1>2, <1>3, <1>11, <1>12 DEF Allowed

\* _select_best: none of the models it chooses from, and none that another one
\* beats in every respect.
LEMMA BestIsNotWorse ==
  ASSUME NEW req, RoutingTypes(req), NEW ids \in SUBSET Ids, ids # {}
  PROVE  /\ SelectBest(ids, req) \in ids
         /\ \A other \in ids :
              ~(/\ Cost(SelectBest(ids, req), req) > Cost(other, req)
                /\ models[SelectBest(ids, req)].latency > models[other].latency
                /\ Quality(SelectBest(ids, req), req) < Quality(other, req)
                /\ models[SelectBest(ids, req)].load > models[other].load)
  <1> DEFINE costs == {Cost(id, req) : id \in ids}
             modelLatencies == {models[id].latency : id \in ids}
             WeightedScore(id) ==
                 100 * config.costWeight * Above(Cost(id, req), costs) * SpanOf(modelLatencies)
               + 100 * config.latencyWeight * Above(models[id].latency, modelLatencies) * SpanOf(costs)
               + (config.qualityWeight * (100 - Quality(id, req)) + 10 * models[id].load)
                   * SpanOf(costs) * SpanOf(modelLatencies)
             key == [id \in ids |->
                       << WeightedScore(id), Cost(id, req), models[id].latency, id >>]
             best == SelectBest(ids, req)
  <1>1. best = Least(key)
    BY DEF SelectBest
  <1>2. DOMAIN key = ids
        /\ \A id \in ids : key[id] = << WeightedScore(id), Cost(id, req), models[id].latency, id >>
    OBVIOUS
  <1>3. /\ SpanOf(costs) \in Nat \ {0} /\ SpanOf(modelLatencies) \in Nat \ {0}
        /\ Min(costs) \in Int /\ Min(modelLatencies) \in Int
        /\ \A id \in ids : /\ Above(Cost(id, req), costs) \in Int
                           /\ Above(models[id].latency, modelLatencies) \in Int
    BY SpansOfModels
  <1>4. /\ config.costWeight \in Nat /\ config.latencyWeight \in Nat
        /\ config.qualityWeight \in Nat
    BY RoutingAssumption DEF RoutingAssumption, RoutingTypes, PolicyConfigs
  <1>5. IsFiniteSet(ids) /\ \A id \in ids : /\ id \in Int /\ Cost(id, req) \in Int
                                            /\ models[id].latency \in Int /\ models[id].load \in Int
                                            /\ Quality(id, req) \in Int
    <2>1. \A id \in Ids : Quality(id, req) \in Int
      BY QualityType
    <2> QED
      BY <2>1, ModelFacts, SomeModels
  <1> DEFINE sc == SpanOf(costs)
             sl == SpanOf(modelLatencies)
  <1>6. \A id \in ids : WeightedScore(id) =
          100 * config.costWeight * Above(Cost(id, req), costs) * sl
          + 100 * config.latencyWeight * Above(models[id].latency, modelLatencies) * sc
          + (config.qualityWeight * (100 - Quality(id, req)) + 10 * models[id].load) * sc * sl
    OBVIOUS
  <1>7. sc \in Nat \ {0} /\ sl \in Nat \ {0}
    BY <1>3
  <1> HIDE DEF costs, modelLatencies, WeightedScore, key, best, sc, sl
  <1>8. ASSUME NEW id \in ids PROVE WeightedScore(id) \in Int
    <2> DEFINE x == Above(Cost(id, req), costs)
               y == Above(models[id].latency, modelLatencies)
               q == Quality(id, req)
               b == models[id].load
               cw == config.costWeight
               lw == config.latencyWeight
               qw == config.qualityWeight
    <2>1. /\ x \in Int /\ y \in Int /\ q \in Int /\ b \in Int /\ sc \in Int /\ sl \in Int
          /\ cw \in Int /\ lw \in Int /\ qw \in Int
      BY <1>3, <1>4, <1>5, <1>7
    <2>2. WeightedScore(id) =
            100 * cw * x * sl + 100 * lw * y * sc + (qw * (100 - q) + 10 * b) * sc * sl
      BY <1>6
    <2> HIDE DEF x, y, q, b, cw, lw, qw
    <2>3. /\ 100 * cw * x * sl \in Int /\ 100 * lw * y * sc \in Int
          /\ (qw * (100 - q) + 10 * b) * sc * sl \in Int
      BY <2>1
    <2> QED
      BY <2>2, <2>3
  <1>9. Keyed(key, 4)
    <2>1. \A id \in ids : key[id] \in [1 .. 4 -> Int]
      BY <1>2, <1>5, <1>8, TupleTypes
    <2>2. \A id, other \in ids : id # other => key[id] # key[other]
      BY <1>2
    <2> QED
      BY <1>2, <1>5, <2>1, <2>2 DEF Keyed
  <1>10. /\ best \in ids
         /\ \A other \in ids : other # best => Precedes(key[best], key[other])
    <2>1. 4 \in Nat
      OBVIOUS
    <2> QED
      BY <1>1, <1>2, <1>9, <2>1, KeyIsLeast
  <1>11. ASSUME NEW other \in ids,
                Cost(best, req) > Cost(other, req), models[best].latency > models[other].latency,
                Quality(best, req) < Quality(other, req), models[best].load > models[other].load
         PROVE  FALSE
    <2> DEFINE c1 == Above(Cost(best, req), costs)
               c2 == Above(Cost(other, req), costs)
               l1 == Above(models[best].latency, modelLatencies)
               l2 == Above(models[other].latency, modelLatencies)
               q1 == Quality(best, req)
               q2 == Quality(other, req)
               b1 == models[best].load
               b2 == models[other].load
               cw == config.costWeight
               lw == config.latencyWeight
               qw == config.qualityWeight
    <2>1. /\ c1 \in Int /\ c2 \in Int /\ l1 \in Int /\ l2 \in Int
          /\ q1 \in Int /\ q2 \in Int /\ b1 \in Int /\ b2 \in Int
          /\ cw \in Nat /\ lw \in Nat /\ qw \in Nat
      BY <1>3, <1>4, <1>5, <1>10
    <2>2. c1 > c2 /\ l1 > l2
      <3>1. /\ c1 = Cost(best, req) - Min(costs) /\ c2 = Cost(other, req) - Min(costs)
            /\ l1 = models[best].latency - Min(modelLatencies)
            /\ l2 = models[other].latency - Min(modelLatencies)
        BY DEF Above
      <3> HIDE DEF c1, c2, l1, l2
      <3>2. /\ Cost(best, req) \in Int /\ Cost(other, req) \in Int
            /\ models[best].latency \in Int /\ models[other].latency \in Int
        BY <1>5, <1>10
      <3> QED
        BY <1>3, <1>11, <3>1, <3>2
    <2>3. /\ WeightedScore(best) =
               100 * cw * c1 * sl + 100 * lw * l1 * sc + (qw * (100 - q1) + 10 * b1) * sc * sl
          /\ WeightedScore(other) =
               100 * cw * c2 * sl + 100 * lw * l2 * sc + (qw * (100 - q2) + 10 * b2) * sc * sl
      BY <1>6, <1>10
    <2>4. q1 < q2 /\ b1 > b2
      BY <1>11
    <2> HIDE DEF c1, c2, l1, l2, q1, q2, b1, b2, cw, lw, qw
    <2>5. WeightedScore(best) > WeightedScore(other)
      BY <1>7, <2>1, <2>2, <2>3, <2>4, WorseScoresMore
    <2>6. best # other
      BY <1>5, <1>10, <1>11
    <2>7. Precedes(key[best], key[other])
      BY <1>10, <2>6
    <2>8. key[best][1] = WeightedScore(best) /\ key[other][1] = WeightedScore(other)
      BY <1>2, <1>10
    <2>9. key[best] \in [1 .. 4 -> Int]
      BY <1>9, <1>2, <1>10 DEF Keyed
    <2>10. key[best][1] <= key[other][1]
      <3>1. PICK i \in 1 .. 4 : key[best][i] < key[other][i]
                                /\ \A j \in 1 .. i - 1 : key[best][j] = key[other][j]
        BY <2>7, <2>9 DEF Precedes
      <3>2. key[best][1] \in Int /\ key[other][1] \in Int
        BY <1>8, <1>10, <2>8
      <3>3. CASE i = 1
        BY <3>1, <3>2, <3>3
      <3>4. CASE i # 1
        <4>1. 1 \in 1 .. i - 1
          BY <3>4
        <4>2. key[best][1] = key[other][1]
          BY <3>1, <4>1
        <4> QED
          BY <3>2, <4>2
      <3> QED
        BY <3>3, <3>4
    <2>11. WeightedScore(best) \in Int /\ WeightedScore(other) \in Int
      BY <1>8, <1>10
    <2> QED
      BY <2>5, <2>8, <2>10, <2>11
  <1> QED
    BY <1>10, <1>11 DEF best

\* Those the policy allows.
AdmissibleFor(req) == {id \in Eligible(req) : MeetsConstraints(id, req)}

\* _apply_constraints: if some candidate meets all constraints those that do, and
\* a reason that says so; else some candidates, and a reason that says why.
LEMMA ConstraintsAreKept ==
  ASSUME NEW req, RoutingTypes(req), Eligible(req) # {}
  PROVE  /\ Constrained(req).ids # {} /\ Constrained(req).ids \subseteq Eligible(req)
         /\ AdmissibleFor(req) # {} =>
              /\ Constrained(req).ids = AdmissibleFor(req)
              /\ Constrained(req).reason \in Reasons \ {"preferred_model"}
         /\ AdmissibleFor(req) = {} => Constrained(req).reason \notin Reasons
  <1> DEFINE candidates == Eligible(req)
             good == {id \in candidates : MeetsFloor(id, req)}
             fast == {id \in good : MeetsSlo(id)}
             cheap == {id \in fast : MeetsBudget(id, req)}
             why == CASE config.budget # NoLimit -> "cost_within_budget"
                      [] config.budget = NoLimit /\ config.slo # NoLimit -> "latency_within_slo"
                      [] config.budget = NoLimit /\ config.slo = NoLimit
                         /\ config.floor # NoLimit -> "quality_floor"
                      [] OTHER -> "balanced_score"
  <1>1. Constrained(req) =
          CASE good = {} ->
                 [ids |-> candidates, reason |-> "no_candidate_meets_quality_floor"]
            [] good # {} /\ fast = {} ->
                 [ids |-> good, reason |-> "no_candidate_within_latency_slo"]
            [] fast # {} /\ cheap = {} ->
                 [ids |-> fast, reason |-> "no_candidate_within_budget"]
            [] OTHER -> [ids |-> cheap, reason |-> why]
    BY DEF Constrained
  <1>2. why \in Reasons \ {"preferred_model"}
    BY DEF Reasons
  <1>3. AdmissibleFor(req) = cheap
    BY DEF AdmissibleFor, MeetsConstraints
  <1>4. cheap \subseteq fast /\ fast \subseteq good /\ good \subseteq candidates
    OBVIOUS
  <1>5. candidates # {}
    OBVIOUS
  <1>6. candidates = Eligible(req)
    OBVIOUS
  <1> HIDE DEF candidates, good, fast, cheap, why
  <1>7. CASE good = {}
    BY <1>1, <1>3, <1>4, <1>5, <1>6, <1>7 DEF Reasons
  <1>8. CASE good # {} /\ fast = {}
    BY <1>1, <1>3, <1>4, <1>6, <1>8 DEF Reasons
  <1>9. CASE fast # {} /\ cheap = {}
    BY <1>1, <1>3, <1>4, <1>6, <1>9 DEF Reasons
  <1>10. CASE cheap # {}
    <2>1. good # {} /\ fast # {}
      BY <1>4, <1>10
    <2>2. Constrained(req) = [ids |-> cheap, reason |-> why]
      BY <1>1, <1>10, <2>1
    <2> QED
      BY <1>2, <1>3, <1>4, <1>6, <1>10, <2>2
  <1> QED
    BY <1>7, <1>8, <1>9, <1>10

\* The policy router.
LEMMA PolicyDecides ==
  ASSUME NEW req, RoutingTypes(req), NEW dec, dec = RoutePolicy(req), dec # NoDecision
  PROVE  /\ Allowed(dec, req)
         /\ dec.reason \in Reasons <=> AdmissibleFor(req) # {}
         /\ AdmissibleFor(req) # {} => dec.selected \in AdmissibleFor(req)
         /\ req.preferred \in AdmissibleFor(req) <=> dec.reason = "preferred_model"
         /\ dec.reason = "preferred_model" => dec.selected = req.preferred
         /\ dec.reason \in Reasons \ {"preferred_model"} =>
              \A other \in AdmissibleFor(req) :
                ~(/\ Cost(dec.selected, req) > Cost(other, req)
                  /\ models[dec.selected].latency > models[other].latency
                  /\ Quality(dec.selected, req) < Quality(other, req)
                  /\ models[dec.selected].load > models[other].load)
  <1> DEFINE ids == Constrained(req).ids
             why == Constrained(req).reason
             preferred == {id \in Eligible(req) : id = req.preferred /\ MeetsConstraints(id, req)}
  <1>1. RoutePolicy(req) =
          CASE Eligible(req) = {} -> NoDecision
            [] preferred # {} -> PolicyDecision(req.preferred, "preferred_model", req)
            [] OTHER -> PolicyDecision(SelectBest(ids, req), why, req)
    BY DEF RoutePolicy
  <1>2. /\ preferred # {} <=> req.preferred \in AdmissibleFor(req)
        /\ preferred # {} => Eligible(req) # {}
    BY DEF AdmissibleFor
  <1> HIDE DEF preferred, ids, why
  <1>3. Eligible(req) # {} /\ Eligible(req) \in SUBSET Ids
    BY <1>1, <1>2, SomeModels
  <1>4. AdmissibleFor(req) \subseteq Eligible(req)
    BY DEF AdmissibleFor
  <1>5. ASSUME NEW selected \in Eligible(req), NEW reason,
               dec = PolicyDecision(selected, reason, req)
        PROVE  dec.selected = selected /\ dec.reason = reason /\ Allowed(dec, req)
    <2>1. /\ dec.selected = selected /\ dec.reason = reason
          /\ dec.fallbacks = Fallbacks(Eligible(req), selected, req)
      BY <1>5 DEF PolicyDecision
    <2>2. ToSet(Fallbacks(Eligible(req), selected, req)) \subseteq Eligible(req) \ {selected}
      BY <1>3, FallbacksAreCandidates
    <2> QED
      BY <2>1, <2>2 DEF Allowed
  <1>6. CASE preferred # {}
    <2>1. dec = PolicyDecision(req.preferred, "preferred_model", req)
      BY <1>1, <1>3, <1>6
    <2>2. req.preferred \in AdmissibleFor(req) /\ req.preferred \in Eligible(req)
      BY <1>2, <1>4, <1>6
    <2>3. dec.selected = req.preferred /\ dec.reason = "preferred_model" /\ Allowed(dec, req)
      BY <1>5, <2>1, <2>2
    <2>4. "preferred_model" \in Reasons
      BY DEF Reasons
    <2> QED
      BY <2>2, <2>3, <2>4
  <1>7. CASE preferred = {}
    <2>1. dec = PolicyDecision(SelectBest(ids, req), why, req)
      BY <1>1, <1>3, <1>7
    <2>2. /\ ids # {} /\ ids \subseteq Eligible(req)
          /\ AdmissibleFor(req) # {} =>
               ids = AdmissibleFor(req) /\ why \in Reasons \ {"preferred_model"}
          /\ AdmissibleFor(req) = {} => why \notin Reasons
      BY <1>3, ConstraintsAreKept DEF ids, why
    <2> DEFINE best == SelectBest(ids, req)
    <2>3. ids \in SUBSET Ids
      BY <1>3, <2>2
    <2>4. /\ best \in ids
          /\ \A other \in ids :
               ~(/\ Cost(best, req) > Cost(other, req)
                 /\ models[best].latency > models[other].latency
                 /\ Quality(best, req) < Quality(other, req)
                 /\ models[best].load > models[other].load)
      BY <2>2, <2>3, BestIsNotWorse
    <2> HIDE DEF best
    <2>5. dec.selected = best /\ dec.reason = why /\ Allowed(dec, req)
      BY <1>5, <2>1, <2>2, <2>4 DEF best
    <2>6. why # "preferred_model"
      BY <2>2 DEF Reasons
    <2>7. req.preferred \notin AdmissibleFor(req)
      BY <1>2, <1>7
    <2> QED
      BY <2>2, <2>4, <2>5, <2>6, <2>7
  <1> QED
    BY <1>6, <1>7

\* The load-balanced router.
LEMMA RoundRobinDecides ==
  ASSUME NEW req, RoutingTypes(req), currentIndex \in Nat,
         NEW dec, dec = RouteRoundRobin(req), dec # NoDecision
  PROVE  /\ Allowed(dec, req) /\ Eligible(req) # {}
         /\ Cardinality(Eligible(req)) \in Nat \ {0}
         /\ currentIndex % Cardinality(Eligible(req)) \in 0 .. Cardinality(Eligible(req)) - 1
         /\ dec.selected =
              InIdOrder(Eligible(req))[(currentIndex % Cardinality(Eligible(req))) + 1]
  <1> DEFINE eligible == Eligible(req)
             k == Cardinality(eligible)
             p == currentIndex % k
             list == InIdOrder(eligible)
  <1>1. /\ eligible # {}
        /\ dec.selected = Nth(eligible, currentIndex) /\ dec.fallbacks = << >>
    BY DEF RouteRoundRobin
  <1>2. IsFiniteSet(eligible) /\ eligible \in SUBSET Ids
    BY SomeModels
  <1> HIDE DEF eligible
  <1>3. k \in Nat \ {0}
    BY <1>1, <1>2, FS_CardinalityType, FS_EmptySet
  <1>4. list \in [1 .. k -> eligible]
    BY <1>2, IdsInOrder
  <1>5. Nth(eligible, currentIndex) = list[p + 1]
    BY DEF Nth
  <1> HIDE DEF k
  <1>6. p \in 0 .. k - 1
    BY <1>3
  <1> HIDE DEF p, list
  <1>7. list[p + 1] \in eligible
    BY <1>3, <1>4, <1>6
  <1>8. ToSet(<< >>) = {}
    BY DEF ToSet
  <1>9. Allowed(dec, req)
    BY <1>1, <1>5, <1>7, <1>8 DEF Allowed, eligible
  <1> QED
    BY <1>1, <1>3, <1>5, <1>6, <1>9 DEF eligible, k, p, list

-----------------------------------------------------------------------------
(* Taking turns *)

\* Quotient and remainder.
LEMMA DivisionFacts ==
  ASSUME NEW n \in Nat, NEW k \in Nat \ {0}
  PROVE  n = k * (n \div k) + (n % k) /\ n % k \in 0 .. k - 1 /\ n \div k \in Int
  OBVIOUS

\* A remainder is unique.
LEMMA OneRemainder ==
  ASSUME NEW k \in Nat \ {0}, NEW q1 \in Int, NEW q2 \in Int,
         NEW r1 \in 0 .. k - 1, NEW r2 \in 0 .. k - 1, k * q1 + r1 = k * q2 + r2
  PROVE  r1 = r2
  <1>1. q1 < q2 => FALSE
    <2>1. q1 < q2 => q2 - q1 >= 1 /\ k * (q2 - q1) >= k
      OBVIOUS
    <2> QED
      BY <2>1
  <1>2. q2 < q1 => FALSE
    <2>1. q2 < q1 => q1 - q2 >= 1 /\ k * (q1 - q2) >= k
      OBVIOUS
    <2> QED
      BY <2>1
  <1> QED
    BY <1>1, <1>2

\* The next index is the next one modulo k.
LEMMA NextRemainder ==
  ASSUME NEW n \in Nat, NEW k \in Nat \ {0}
  PROVE  (n + 1) % k = IF (n % k) + 1 = k THEN 0 ELSE (n % k) + 1
  <1> DEFINE q1 == n \div k
             r1 == n % k
             q2 == (n + 1) \div k
             r2 == (n + 1) % k
  <1>1. n = k * q1 + r1 /\ r1 \in 0 .. k - 1 /\ q1 \in Int
    BY DivisionFacts
  <1>2. n + 1 \in Nat
    OBVIOUS
  <1>3. n + 1 = k * q2 + r2 /\ r2 \in 0 .. k - 1 /\ q2 \in Int
    BY <1>2, DivisionFacts
  <1> HIDE DEF q1, r1, q2, r2
  <1>4. CASE r1 + 1 = k
    <2>1. n + 1 = k * (q1 + 1) + 0 /\ 0 \in 0 .. k - 1 /\ q1 + 1 \in Int
      BY <1>1, <1>4
    <2>2. r2 = 0
      BY <1>3, <2>1, OneRemainder
    <2> QED
      BY <1>4, <2>2 DEF r1, r2
  <1>5. CASE r1 + 1 # k
    <2>1. n + 1 = k * q1 + (r1 + 1) /\ r1 + 1 \in 0 .. k - 1
      BY <1>1, <1>5
    <2>2. r2 = r1 + 1
      BY <1>1, <1>3, <2>1, OneRemainder
    <2> QED
      BY <1>5, <2>2 DEF r1, r2
  <1> QED
    BY <1>4, <1>5

\* Of k places in a circle: q is one of those from s to before p.
Passed(s, p, q) == IF s <= p THEN s <= q /\ q < p ELSE s <= q \/ q < p

\* Those of the list that were passed since a round began at s have had c + 1
\* turns, the others c.
Round(f, list, k, p, c, s) ==
  \A q \in 0 .. k - 1 : f[list[q + 1]] = IF Passed(s, p, q) THEN c + 1 ELSE c

\* ids took turns, and the next is the one at n modulo their number.
TakeTurns(f, ids, n) ==
  /\ f \in [ids -> Nat]
  /\ \E c \in Nat, s \in 0 .. Cardinality(ids) - 1 :
       Round(f, InIdOrder(ids), Cardinality(ids), n % Cardinality(ids), c, s)

\* One more turn, for the one whose turn it is.
LEMMA OneMoreTurn ==
  ASSUME NEW req, RoutingTypes(req), NEW ids \in SUBSET Ids, ids # {}, NEW n \in Nat,
         NEW f, TakeTurns(f, ids, n)
  PROVE  TakeTurns([f EXCEPT ![InIdOrder(ids)[(n % Cardinality(ids)) + 1]] = @ + 1], ids, n + 1)
  <1> DEFINE k == Cardinality(ids)
             list == InIdOrder(ids)
             p == n % k
             next == (n + 1) % k
             x == list[p + 1]
             g == [f EXCEPT ![x] = @ + 1]
  <1>1. k \in Nat \ {0}
    <2>1. IsFiniteSet(ids)
      BY SomeModels
    <2> QED
      BY <2>1, FS_CardinalityType, FS_EmptySet
  <1>2. list \in [1 .. k -> ids] /\ \A i, j \in 1 .. k : list[i] = list[j] => i = j
    BY IdsInOrder
  <1>3. f \in [ids -> Nat]
    BY DEF TakeTurns
  <1>4. PICK c \in Nat, s \in 0 .. k - 1 : Round(f, list, k, p, c, s)
    BY DEF TakeTurns
  <1> HIDE DEF k, list
  <1>5. p \in 0 .. k - 1
    BY <1>1
  <1>6. next = IF p + 1 = k THEN 0 ELSE p + 1
    BY <1>1, NextRemainder
  <1> HIDE DEF p, next
  <1>7. x \in ids
    BY <1>1, <1>2, <1>5
  <1>8. g \in [ids -> Nat]
    BY <1>3, <1>7
  <1>9. ASSUME NEW q \in 0 .. k - 1
        PROVE  g[list[q + 1]] = IF q = p \/ Passed(s, p, q) THEN c + 1 ELSE c
    <2>1. q + 1 \in 1 .. k /\ p + 1 \in 1 .. k
      BY <1>1, <1>5
    <2>2. list[q + 1] \in ids
      BY <1>2, <2>1
    <2>3. f[list[q + 1]] = IF Passed(s, p, q) THEN c + 1 ELSE c
      BY <1>4 DEF Round
    <2>4. CASE q = p
      <3>1. ~Passed(s, p, q)
        BY <1>5, <2>4 DEF Passed
      <3>2. g[list[q + 1]] = f[list[q + 1]] + 1
        BY <1>3, <2>2, <2>4
      <3> QED
        BY <2>3, <2>4, <3>1, <3>2
    <2>5. CASE q # p
      <3>1. list[q + 1] # x
        <4>1. q + 1 # p + 1
          BY <1>5, <2>5
        <4> QED
          BY <1>2, <2>1, <4>1
      <3>2. g[list[q + 1]] = f[list[q + 1]]
        BY <1>3, <2>2, <3>1
      <3> QED
        BY <2>3, <2>5, <3>2
    <2> QED
      BY <2>4, <2>5
  <1> HIDE DEF x, g
  <1>10. CASE next = s
    <2>1. \A q \in 0 .. k - 1 : q = p \/ Passed(s, p, q)
      BY <1>1, <1>5, <1>6, <1>10 DEF Passed
    <2>2. \A q \in 0 .. k - 1 : ~Passed(s, next, q)
      BY <1>10 DEF Passed
    <2>3. Round(g, list, k, next, c + 1, s)
      BY <1>9, <2>1, <2>2 DEF Round
    <2>4. c + 1 \in Nat
      OBVIOUS
    <2> QED
      BY <1>8, <2>3, <2>4 DEF TakeTurns, k, list, next, g, x, p
  <1>11. CASE next # s
    <2>1. \A q \in 0 .. k - 1 : Passed(s, next, q) <=> q = p \/ Passed(s, p, q)
      BY <1>1, <1>5, <1>6, <1>11 DEF Passed
    <2>2. Round(g, list, k, next, c, s)
      BY <1>9, <2>1 DEF Round
    <2> QED
      BY <1>8, <2>2 DEF TakeTurns, k, list, next, g, x, p
  <1> QED
    BY <1>10, <1>11

\* A first round, from wherever the index stands.
LEMMA FirstTurn ==
  ASSUME NEW req, RoutingTypes(req), NEW ids \in SUBSET Ids, ids # {}, NEW n \in Nat
  PROVE  TakeTurns([id \in ids |-> 0], ids, n)
  <1> DEFINE k == Cardinality(ids)
             list == InIdOrder(ids)
             p == n % k
             f == [id \in ids |-> 0]
  <1>1. k \in Nat \ {0}
    <2>1. IsFiniteSet(ids)
      BY SomeModels
    <2> QED
      BY <2>1, FS_CardinalityType, FS_EmptySet
  <1>2. list \in [1 .. k -> ids]
    BY IdsInOrder
  <1>3. f \in [ids -> Nat] /\ \A id \in ids : f[id] = 0
    OBVIOUS
  <1> HIDE DEF k, list, f
  <1>4. p \in 0 .. k - 1
    BY <1>1
  <1> HIDE DEF p
  <1>5. ASSUME NEW q \in 0 .. k - 1 PROVE f[list[q + 1]] = 0 /\ ~Passed(p, p, q)
    <2>1. list[q + 1] \in ids
      BY <1>1, <1>2
    <2> QED
      BY <1>3, <1>4, <2>1 DEF Passed
  <1>6. Round(f, list, k, p, 0, p)
    BY <1>5 DEF Round
  <1> QED
    BY <1>3, <1>4, <1>6 DEF TakeTurns, k, list, p, f

\* Who takes turns has at most one more than another.
LEMMA TurnsAreFair ==
  ASSUME NEW req, RoutingTypes(req), NEW ids \in SUBSET Ids, NEW n \in Nat,
         NEW f, TakeTurns(f, ids, n), NEW x \in ids, NEW y \in ids
  PROVE  f[x] <= f[y] + 1
  <1> DEFINE k == Cardinality(ids)
             list == InIdOrder(ids)
  <1>1. PICK c \in Nat, s \in 0 .. k - 1 : Round(f, list, k, n % k, c, s)
    BY DEF TakeTurns
  <1>2. \A id \in ids : \E i \in 1 .. k : list[i] = id
    BY IdsInOrder
  <1>3. k \in Nat
    BY SomeModels, FS_CardinalityType
  <1> HIDE DEF k, list
  <1>4. \A id \in ids : f[id] = c \/ f[id] = c + 1
    <2>1. ASSUME NEW id \in ids PROVE f[id] = c \/ f[id] = c + 1
      <3>1. PICK i \in 1 .. k : list[i] = id
        BY <1>2
      <3>2. i - 1 \in 0 .. k - 1 /\ (i - 1) + 1 = i
        BY <1>3
      <3> QED
        BY <1>1, <3>1, <3>2 DEF Round
    <2> QED
      BY <2>1
  <1>5. (f[x] = c \/ f[x] = c + 1) /\ (f[y] = c \/ f[y] = c + 1)
    BY <1>4
  <1> QED
    BY <1>5

-----------------------------------------------------------------------------
(* What the routers promise *)

\* A decision on a request is justified by the policy of its router.
Justified(dec, req) ==
  dec # NoDecision =>
    /\ Allowed(dec, req)
    /\ router = "policy" =>
         /\ dec.reason \in Reasons <=> AdmissibleFor(req) # {}
         /\ AdmissibleFor(req) # {} => dec.selected \in AdmissibleFor(req)
         /\ req.preferred \in AdmissibleFor(req) <=> dec.reason = "preferred_model"
         /\ dec.reason = "preferred_model" => dec.selected = req.preferred
         /\ dec.reason \in Reasons \ {"preferred_model"} =>
              \A other \in AdmissibleFor(req) :
                ~(/\ Cost(dec.selected, req) > Cost(other, req)
                  /\ models[dec.selected].latency > models[other].latency
                  /\ Quality(dec.selected, req) < Quality(other, req)
                  /\ models[dec.selected].load > models[other].load)
    /\ router = "rule_based" =>
         /\ Rank[models[dec.selected].tier] >= Rank[req.tier]
         /\ \A id \in Eligible(req) :
              Rank[models[id].tier] >= Rank[req.tier] => Cost(dec.selected, req) <= Cost(id, req)
    /\ router = "cost_aware" =>
         \A id \in {dec.selected} \cup ToSet(dec.fallbacks) : CanHandle(id, req)

\* The requests and the decision on the last one; who took turns.
RoutingInv ==
  /\ RoutingTypes(request) /\ currentIndex \in Nat
  /\ Justified(decision, request)
  /\ DOMAIN turns \in SUBSET Ids
  /\ DOMAIN turns # {} => TakeTurns(turns, DOMAIN turns, currentIndex)

\* It holds at first: nothing was routed.
LEMMA RoutingInvInit == RoutingInit => RoutingInv
  <1> SUFFICES ASSUME RoutingInit PROVE RoutingInv
    OBVIOUS
  <1>1. RoutingTypes(request)
    <2>1. (CHOOSE shape \in Shapes : TRUE) \in Shapes
      BY RoutingAssumption DEF RoutingAssumption
    <2>2. "economy" \in DOMAIN Rank
      BY DEF Rank
    <2> QED
      BY <2>1, <2>2 DEF RoutingInit, RoutingTypes
  <1>2. Justified(decision, request)
    BY DEF RoutingInit, Justified
  <1>3. DOMAIN turns = {} /\ currentIndex \in Nat
    BY DEF RoutingInit, NoTurns
  <1> QED
    BY <1>1, <1>2, <1>3 DEF RoutingInv

\* Whatever router routes a request, its decision is justified.
LEMMA DecisionsAreJustified ==
  ASSUME NEW req, RoutingTypes(req), currentIndex \in Nat, NEW dec,
         \/ router = "policy" /\ dec = RoutePolicy(req)
         \/ router = "rule_based" /\ dec = RouteRuleBased(req)
         \/ router = "cost_aware" /\ dec = RouteCostAware(req)
         \/ router = "round_robin" /\ dec = RouteRoundRobin(req)
  PROVE  Justified(dec, req)
  <1> SUFFICES ASSUME dec # NoDecision PROVE Justified(dec, req)
    BY DEF Justified
  <1>1. CASE router = "policy" /\ dec = RoutePolicy(req)
    BY <1>1, PolicyDecides DEF Justified
  <1>2. CASE router = "rule_based" /\ dec = RouteRuleBased(req)
    BY <1>2, RuleBasedDecides DEF Justified
  <1>3. CASE router = "cost_aware" /\ dec = RouteCostAware(req)
    BY <1>3, CostAwareDecides DEF Justified
  <1>4. CASE router = "round_robin" /\ dec = RouteRoundRobin(req)
    <2>1. Allowed(dec, req)
      BY <1>4, RoundRobinDecides
    <2> QED
      BY <1>4, <2>1 DEF Justified
  <1> QED
    BY <1>1, <1>2, <1>3, <1>4

\* The models do not change with the requests.
LEMMA JustifiedAfter ==
  ASSUME UNCHANGED << router, models, config >>, Justified(decision', request')
  PROVE  Justified(decision, request)'
  <1>1. /\ \A id : Cost(id, request)' = Cost(id, request')
        /\ \A id : Quality(id, request)' = Quality(id, request')
        /\ \A id : CanHandle(id, request)' = CanHandle(id, request')
    BY DEF Cost, Quality, CanHandle
  <1>2. Eligible(request)' = Eligible(request')
    BY DEF Eligible, Ids, IsAvailable, SupportsContext
  <1>3. AdmissibleFor(request)' = AdmissibleFor(request')
    <2>1. \A id : MeetsConstraints(id, request)' <=> MeetsConstraints(id, request')
      BY <1>1 DEF MeetsConstraints, MeetsFloor, MeetsSlo, MeetsBudget
    <2> QED
      BY <1>2, <2>1 DEF AdmissibleFor
  <1>4. Allowed(decision, request)' <=> Allowed(decision', request')
    BY <1>2 DEF Allowed
  <1> QED
    BY <1>1, <1>2, <1>3, <1>4 DEF Justified

\* Every route keeps it.
LEMMA RoutingInvNext ==
  ASSUME RoutingInv, [RoutingNext]_routingVars
  PROVE  RoutingInv'
  <1>1. CASE Route
    <2>1. /\ UNCHANGED << router, models, config, currentIndex, turns >>
          /\ request' \in RoutableRequests /\ router # "round_robin"
      BY <1>1 DEF Route
    <2>2. RoutingTypes(request') /\ currentIndex \in Nat
      BY <2>1 DEF RoutingInv, RoutingTypes, RoutableRequests
    <2>3. \/ router = "policy" /\ decision' = RoutePolicy(request')
          \/ router = "rule_based" /\ decision' = RouteRuleBased(request')
          \/ router = "cost_aware" /\ decision' = RouteCostAware(request')
      BY <1>1, <2>1 DEF Route, RoutingInv, RoutingTypes, Routers
    <2>4. Justified(decision', request')
      BY <2>2, <2>3, DecisionsAreJustified
    <2>5. Justified(decision, request)'
      BY <2>1, <2>4, JustifiedAfter
    <2>6. RoutingTypes(request)' /\ Ids' = Ids
      BY <2>1, <2>2 DEF RoutingTypes, Ids
    <2> QED
      BY <2>1, <2>5, <2>6 DEF RoutingInv
  <1>2. CASE RouteNext
    <2>1. /\ UNCHANGED << router, models, config >> /\ router = "round_robin"
          /\ decision' = RouteRoundRobin(request')
          /\ currentIndex' = currentIndex + (IF decision' = NoDecision THEN 0 ELSE 1)
      BY <1>2 DEF RouteNext
    <2>2. PICK shape \in Shapes : request' = [request EXCEPT !.shape = shape]
      BY <1>2 DEF RouteNext
    <2>3. RoutingTypes(request') /\ currentIndex \in Nat
      BY <2>2 DEF RoutingInv, RoutingTypes
    <2>4. Justified(decision', request')
      BY <2>1, <2>3, DecisionsAreJustified
    <2>5. Justified(decision, request)'
      BY <2>1, <2>4, JustifiedAfter
    <2>6. RoutingTypes(request)' /\ Ids' = Ids
      BY <2>1, <2>3 DEF RoutingTypes, Ids
    <2>7. CASE decision' = NoDecision
      <3>1. turns' = turns /\ currentIndex' = currentIndex
        BY <1>2, <2>1, <2>3, <2>7 DEF RouteNext
      <3> QED
        BY <2>3, <2>5, <2>6, <3>1 DEF RoutingInv
    <2>8. CASE decision' # NoDecision
      <3> DEFINE eligible == Eligible(request')
                 kept == IF DOMAIN turns = eligible THEN turns ELSE [id \in eligible |-> 0]
                 turn == InIdOrder(eligible)[(currentIndex % Cardinality(eligible)) + 1]
      <3>1. turns' = [kept EXCEPT ![decision'.selected] = @ + 1] /\ currentIndex' = currentIndex + 1
        BY <1>2, <2>1, <2>8 DEF RouteNext
      <3>2. eligible # {} /\ decision'.selected = turn
        BY <2>1, <2>3, <2>8, RoundRobinDecides
      <3>3. eligible \in SUBSET Ids
        BY <2>3, SomeModels
      <3> HIDE DEF eligible
      <3>4. TakeTurns(kept, eligible, currentIndex)
        <4>1. CASE DOMAIN turns = eligible
          BY <3>2, <4>1 DEF RoutingInv
        <4>2. CASE DOMAIN turns # eligible
          <5>1. TakeTurns([id \in eligible |-> 0], eligible, currentIndex)
            BY <2>3, <3>2, <3>3, FirstTurn
          <5> QED
            BY <4>2, <5>1
        <4> QED
          BY <4>1, <4>2
      <3> HIDE DEF kept
      <3>5. TakeTurns([kept EXCEPT ![turn] = @ + 1], eligible, currentIndex + 1)
        BY <2>3, <3>2, <3>3, <3>4, OneMoreTurn
      <3>6. turns' = [kept EXCEPT ![turn] = @ + 1]
        BY <3>1, <3>2
      <3> HIDE DEF turn
      <3>7. TakeTurns(turns', eligible, currentIndex') /\ DOMAIN turns' = eligible
        BY <3>1, <3>5, <3>6 DEF TakeTurns
      <3>8. currentIndex' \in Nat
        BY <2>3, <3>1
      <3> QED
        BY <2>5, <2>6, <3>3, <3>7, <3>8 DEF RoutingInv
    <2> QED
      BY <2>7, <2>8
  <1>3. CASE UNCHANGED routingVars
    <2>1. UNCHANGED << router, models, config, request, decision, currentIndex, turns >>
      BY <1>3 DEF routingVars
    <2>2. Justified(decision', request')
      BY <2>1 DEF RoutingInv
    <2>3. Justified(decision, request)'
      BY <2>1, <2>2, JustifiedAfter
    <2>4. RoutingTypes(request)' /\ Ids' = Ids
      BY <2>1 DEF RoutingInv, RoutingTypes, Ids
    <2> QED
      BY <2>1, <2>3, <2>4 DEF RoutingInv
  <1> QED
    BY <1>1, <1>2, <1>3 DEF RoutingNext

\* In every behaviour of every router: the invariant above.
LEMMA RoutingInvariant == RoutingSpec => []RoutingInv
  BY RoutingInvInit, RoutingInvNext, PTL DEF RoutingSpec

\* Whatever the fleet, the rates, the loads, the weights and the limits, a
\* decision is for an eligible model, falls back to others that are, and is
\* justified by its router's policy: constraints are kept whenever some model
\* meets them all, no model is taken that another beats in every respect, the
\* cheapest sufficient tier is the rule-based choice, and the cost-aware router
\* spares demanding requests an economy model (route of the four routers).
THEOREM SelectionsAreJustified == RoutingSpec => []SelectionIsJustified
  <1>1. ASSUME RoutingInv PROVE SelectionIsJustified
    <2> SUFFICES ASSUME decision # NoDecision PROVE SelectionIsJustified
      BY DEF SelectionIsJustified, IsDecided
    <2>1. Justified(decision, request)
      BY <1>1 DEF RoutingInv
    <2>2. Admissible = AdmissibleFor(request)
      BY DEF Admissible, AdmissibleFor
    <2>3. Allowed(decision, request)
      BY <2>1 DEF Justified
    <2>4. ASSUME router = "policy" PROVE PolicyIsJustified
      <3> HIDE DEF Admissible
      <3> QED
        BY <2>1, <2>2, <2>4 DEF Justified, PolicyIsJustified, IsWorse, Selected
    <2>5. router = "rule_based" => RuleBasedIsJustified
      BY <2>1 DEF Justified, RuleBasedIsJustified, Selected
    <2>6. router = "cost_aware" => CostAwareIsJustified
      BY <2>1 DEF Justified, CostAwareIsJustified, CanHandle, Selected
    <2> QED
      BY <2>3, <2>4, <2>5, <2>6 DEF SelectionIsJustified, Allowed, Selected
  <1> QED
    BY <1>1, RoutingInvariant, PTL

\* Whatever the eligible models and wherever the index stands when they change,
\* none is selected twice more than another while they stay the same
\* (LoadBalancedRouter.route).
THEOREM RoundRobinIsFair == RoutingSpec => []RoundRobinTakesTurns
  <1>1. ASSUME RoutingInv PROVE RoundRobinTakesTurns
    <2>1. ASSUME NEW x \in DOMAIN turns, NEW y \in DOMAIN turns
          PROVE  turns[x] <= turns[y] + 1
      <3>1. /\ RoutingTypes(request) /\ currentIndex \in Nat
            /\ DOMAIN turns \in SUBSET Ids /\ TakeTurns(turns, DOMAIN turns, currentIndex)
        BY <1>1 DEF RoutingInv
      <3> QED
        BY <3>1, TurnsAreFair
    <2> QED
      BY <2>1 DEF RoundRobinTakesTurns
  <1> QED
    BY <1>1, RoutingInvariant, PTL

=============================================================================
