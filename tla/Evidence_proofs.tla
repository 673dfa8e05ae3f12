---------------------------- MODULE Evidence_proofs ----------------------------
(***************************************************************************)
(* Proofs about Total, the sum that every cost, count and report of the    *)
(* model is built from, whatever order its recursion takes: what a sum     *)
(* over related indices is (fewer, renamed, dealt out to parts), and what  *)
(* one amount more adds to it.                                             *)
(*                                                                         *)
(* A theorem of the library that takes an operator cannot be used, so the  *)
(* induction is turned around: of the subsets of a finite set for which a  *)
(* statement fails, a smallest one leads to a contradiction (MinimalSet).  *)
(***************************************************************************)
EXTENDS Evidence, FiniteSets, FiniteSetTheorems, WellFoundedInduction,
        SequenceTheorems, TLAPS

\* Among sets of finite sets there is a minimal one: the induction that the
\* proofs below are by.
LEMMA MinimalSet ==
  ASSUME NEW U, IsFiniteSet(U), NEW C \in SUBSET (SUBSET U), C # {}
  PROVE  \E s \in C : \A t \in C : t \subseteq s => t = s
  <1> DEFINE R == StrictSubsetOrdering(U)
             F == FiniteSubsetsOf(U)
  <1>1. IsWellFoundedOn(R, F)
    BY FS_StrictSubsetOrderingWellFounded
  <1>2. C \subseteq F
    BY FS_FiniteSubsetsOfFinite
  <1> HIDE DEF R, F
  <1>3. \E s \in C : \A t \in C : ~(<< t, s >> \in R)
    BY <1>1, <1>2, WFMin
  <1> QED
    BY <1>3 DEF R, StrictSubsetOrdering

-----------------------------------------------------------------------------
(* The recursion behind a sum *)

Pick(s) == CHOOSE x \in s : TRUE

\* g sums f over the subsets of S, one picked element after the other.
SumsUp(f, S, g) ==
  g = [s \in SUBSET S |-> IF s = {} THEN 0 ELSE f[Pick(s)] + g[s \ {Pick(s)}]]

SumOn(f, S) == SumFunctionOnSet(f, S)

\* Point by point, what it means to sum up.
LEMMA SumsUpAt ==
  ASSUME NEW f, NEW S, NEW g, SumsUp(f, S, g), NEW s \in SUBSET S
  PROVE  g[s] = IF s = {} THEN 0 ELSE f[Pick(s)] + g[s \ {Pick(s)}]
  <1> DEFINE Value(q) == IF q = {} THEN 0 ELSE f[Pick(q)] + g[q \ {Pick(q)}]
  <1>1. g = [q \in SUBSET S |-> Value(q)]
    BY DEF SumsUp
  <1> HIDE DEF Value
  <1>2. g[s] = Value(s)
    BY <1>1
  <1> QED
    BY <1>2 DEF Value

\* There is at most one such function on the finite sets.
LEMMA SumsUpUnique ==
  ASSUME NEW f, NEW S, NEW T, IsFiniteSet(S), NEW g, NEW h, SumsUp(f, S, g), SumsUp(f, T, h)
  PROVE  \A s \in (SUBSET S) \cap (SUBSET T) : g[s] = h[s]
  <1> DEFINE C == {s \in (SUBSET S) \cap (SUBSET T) : g[s] # h[s]}
  <1> SUFFICES ASSUME C # {} PROVE FALSE
    OBVIOUS
  <1>1. PICK s \in C : \A t \in C : t \subseteq s => t = s
    <2>1. C \in SUBSET (SUBSET S)
      OBVIOUS
    <2> HIDE DEF C
    <2> QED
      BY <2>1, MinimalSet
  <1>2. s \in SUBSET S /\ s \in SUBSET T /\ g[s] # h[s]
    BY <1>1
  <1>3. s # {}
    BY <1>2, SumsUpAt
  <1>4. Pick(s) \in s
    BY <1>3 DEF Pick
  <1> DEFINE r == s \ {Pick(s)}
  <1>5. r \subseteq s /\ r # s /\ r \in (SUBSET S) \cap (SUBSET T)
    BY <1>2, <1>4
  <1>6. g[r] = h[r]
    BY <1>1, <1>5
  <1> HIDE DEF C
  <1>7. g[s] = f[Pick(s)] + g[r] /\ h[s] = f[Pick(s)] + h[r]
    BY <1>2, <1>3, SumsUpAt
  <1> QED
    BY <1>2, <1>6, <1>7

\* There is one.
LEMMA SumsUpExists ==
  ASSUME NEW f, NEW S, IsFiniteSet(S)
  PROVE  \E g : SumsUp(f, S, g)
  <1> DEFINE C == {T \in SUBSET S : ~ \E g : SumsUp(f, T, g)}
  <1> SUFFICES ASSUME C # {} PROVE FALSE
    OBVIOUS
  <1>1. PICK T \in C : \A t \in C : t \subseteq T => t = T
    <2>1. C \in SUBSET (SUBSET S)
      OBVIOUS
    <2> HIDE DEF C
    <2> QED
      BY <2>1, MinimalSet
  <1> DEFINE G(s) == CHOOSE g : SumsUp(f, s, g)
             h == [s \in SUBSET T |-> IF s = {} THEN 0
                                      ELSE f[Pick(s)] + G(s \ {Pick(s)})[s \ {Pick(s)}]]
  <1>2. \A s \in SUBSET T : s # T => SumsUp(f, s, G(s))
    BY <1>1
  <1>3. ASSUME NEW s \in SUBSET T, s # T
        PROVE  h[s] = G(s)[s]
    <2>1. CASE s = {}
      <3>1. h[s] = 0
        BY <2>1
      <3>2. SumsUp(f, s, G(s))
        BY <1>2, <1>3
      <3> HIDE DEF h, G
      <3> QED
        BY <2>1, <3>1, <3>2 DEF SumsUp
    <2>2. CASE s # {}
      <3> DEFINE r == s \ {Pick(s)}
      <3>1. r \in SUBSET T /\ r # T /\ r \subseteq s
        BY <1>3
      <3>2. h[s] = f[Pick(s)] + G(r)[r]
        BY <2>2
      <3>3. SumsUp(f, s, G(s)) /\ SumsUp(f, r, G(r)) /\ IsFiniteSet(s)
        <4>1. IsFiniteSet(s)
          BY <1>1, FS_Subset
        <4> QED
          BY <1>2, <1>3, <3>1, <4>1
      <3> HIDE DEF h, G
      <3>4. G(s)[r] = G(r)[r]
        <4>1. r \in (SUBSET s) \cap (SUBSET r)
          BY <3>1
        <4> HIDE DEF r
        <4> QED
          BY <3>3, <4>1, SumsUpUnique
      <3>5. G(s)[s] = f[Pick(s)] + G(s)[r]
        BY <2>2, <3>3 DEF SumsUp
      <3> QED
        BY <3>2, <3>4, <3>5
    <2> QED
      BY <2>1, <2>2
  <1>4. h = [s \in SUBSET T |-> IF s = {} THEN 0 ELSE f[Pick(s)] + h[s \ {Pick(s)}]]
    <2> DEFINE Left(s)  == IF s = {} THEN 0
                           ELSE f[Pick(s)] + G(s \ {Pick(s)})[s \ {Pick(s)}]
               Right(s) == IF s = {} THEN 0 ELSE f[Pick(s)] + h[s \ {Pick(s)}]
    <2>1. ASSUME NEW s \in SUBSET T
          PROVE  Left(s) = Right(s)
      <3>1. CASE s # {}
        <4>1. Pick(s) \in s
          BY <3>1 DEF Pick
        <4>2. s \ {Pick(s)} \in SUBSET T /\ s \ {Pick(s)} # T
          BY <4>1
        <4> HIDE DEF h, G
        <4>3. G(s \ {Pick(s)})[s \ {Pick(s)}] = h[s \ {Pick(s)}]
          BY <1>3, <4>2
        <4> QED
          BY <4>3
      <3> QED
        BY <3>1
    <2>2. h = [s \in SUBSET T |-> Left(s)]
      OBVIOUS
    <2> HIDE DEF Left, Right, h
    <2>3. h = [s \in SUBSET T |-> Right(s)]
      BY <2>1, <2>2
    <2> QED
      BY <2>3 DEF Right
  <1> HIDE DEF h
  <1> QED
    BY <1>1, <1>4 DEF SumsUp

\* The sum is that function's value.
LEMMA SumOnUnfolds ==
  ASSUME NEW f, NEW S, IsFiniteSet(S)
  PROVE  /\ SumOn(f, {}) = 0
         /\ S # {} => SumOn(f, S) = f[Pick(S)] + SumOn(f, S \ {Pick(S)})
  <1> DEFINE G(T) == CHOOSE g : SumsUp(f, T, g)
  <1>1. \A T : SumOn(f, T) = G(T)[T]
    BY DEF SumOn, SumFunctionOnSet, FoldFunctionOnSet, MapThenFoldSet, SumsUp, Pick
  <1>2. \A T : IsFiniteSet(T) => SumsUp(f, T, G(T))
    BY SumsUpExists
  <1> HIDE DEF G
  <1>3. SumOn(f, {}) = 0
    BY <1>1, <1>2, FS_EmptySet DEF SumsUp
  <1>4. ASSUME S # {}
        PROVE  SumOn(f, S) = f[Pick(S)] + SumOn(f, S \ {Pick(S)})
    <2> DEFINE r == S \ {Pick(S)}
    <2>1. IsFiniteSet(r) /\ r \subseteq S
      BY FS_Subset
    <2>2. G(S)[r] = G(r)[r]
      BY <1>2, <2>1, SumsUpUnique
    <2>3. G(S)[S] = f[Pick(S)] + G(S)[r]
      BY <1>2, <1>4 DEF SumsUp
    <2> QED
      BY <1>1, <2>2, <2>3
  <1> QED
    BY <1>3, <1>4

-----------------------------------------------------------------------------
(* Sums of integers *)

\* What the sums of the model add up: integers, indexed by a finite set.
Summable(f, S) == IsFiniteSet(S) /\ \A x \in S : f[x] \in Int

\* A sum of integers is an integer, and not negative if they are not.
LEMMA SumOnType ==
  ASSUME NEW f, NEW S, Summable(f, S)
  PROVE  /\ SumOn(f, S) \in Int
         /\ (\A x \in S : f[x] \in Nat) => SumOn(f, S) \in Nat
  <1> DEFINE Good(T) == /\ SumOn(f, T) \in Int
                        /\ (\A x \in T : f[x] \in Nat) => SumOn(f, T) \in Nat
             C == {T \in SUBSET S : ~Good(T)}
  <1> SUFFICES ASSUME C # {} PROVE FALSE
    OBVIOUS
  <1> HIDE DEF Good
  <1>1. PICK T \in C : \A t \in C : t \subseteq T => t = T
    <2>1. C \in SUBSET (SUBSET S)
      OBVIOUS
    <2> HIDE DEF C
    <2> QED
      BY <2>1, MinimalSet DEF Summable
  <1>2. T \subseteq S /\ IsFiniteSet(T) /\ ~Good(T)
    BY <1>1, FS_Subset DEF Summable
  <1>3. T # {}
    <2>1. SumOn(f, {}) = 0
      BY <1>2, SumOnUnfolds
    <2> QED
      BY <1>2, <2>1 DEF Good
  <1>4. Pick(T) \in T
    BY <1>3 DEF Pick
  <1>5. Good(T \ {Pick(T)})
    BY <1>1, <1>2, <1>4
  <1>6. SumOn(f, T) = f[Pick(T)] + SumOn(f, T \ {Pick(T)})
    BY <1>2, <1>3, SumOnUnfolds
  <1> QED
    BY <1>2, <1>4, <1>5, <1>6 DEF Good, Summable

\* Any element may be taken out of a sum, not just the picked one.
LEMMA SumOnSplits ==
  ASSUME NEW f, NEW S, Summable(f, S), NEW x \in S
  PROVE  SumOn(f, S) = f[x] + SumOn(f, S \ {x})
  <1> DEFINE Good(T) == \A y \in T : SumOn(f, T) = f[y] + SumOn(f, T \ {y})
             C == {T \in SUBSET S : ~Good(T)}
  <1>1. C = {}
    <2> SUFFICES ASSUME C # {} PROVE FALSE
      OBVIOUS
    <2> HIDE DEF Good
    <2>1. PICK T \in C : \A t \in C : t \subseteq T => t = T
      <3>1. C \in SUBSET (SUBSET S)
        OBVIOUS
      <3> HIDE DEF C
      <3> QED
        BY <3>1, MinimalSet DEF Summable
    <2>2. T \subseteq S /\ IsFiniteSet(T) /\ ~Good(T)
      BY <2>1, FS_Subset DEF Summable
    <2>3. PICK y \in T : SumOn(f, T) # f[y] + SumOn(f, T \ {y})
      BY <2>2 DEF Good
    <2> DEFINE p == Pick(T)
    <2>4. p \in T /\ SumOn(f, T) = f[p] + SumOn(f, T \ {p})
      BY <2>2, SumOnUnfolds DEF Pick
    <2>5. Good(T \ {p}) /\ Good(T \ {y}) /\ p # y
      BY <2>1, <2>2, <2>3, <2>4
    <2> HIDE DEF p, C
    <2>6. /\ y \in T \ {p} /\ p \in T \ {y}
          /\ (T \ {p}) \ {y} = T \ {p, y} /\ (T \ {y}) \ {p} = T \ {p, y}
      BY <2>4, <2>5
    <2>7. /\ SumOn(f, T \ {p}) = f[y] + SumOn(f, T \ {p, y})
          /\ SumOn(f, T \ {y}) = f[p] + SumOn(f, T \ {p, y})
      <3>1. SumOn(f, T \ {p}) = f[y] + SumOn(f, (T \ {p}) \ {y})
        BY <2>5, <2>6 DEF Good
      <3>2. SumOn(f, T \ {y}) = f[p] + SumOn(f, (T \ {y}) \ {p})
        BY <2>5, <2>6 DEF Good
      <3> QED
        BY <2>6, <3>1, <3>2
    <2>8. Summable(f, T \ {p, y}) /\ f[p] \in Int /\ f[y] \in Int
      BY <2>2, <2>4, FS_Subset DEF Summable
    <2>9. SumOn(f, T \ {p, y}) \in Int
      BY <2>8, SumOnType
    <2> QED
      BY <2>3, <2>4, <2>7, <2>8, <2>9
  <1> QED
    BY <1>1

\* A sum depends on nothing but the values it adds up.
LEMMA SumOnCongruence ==
  ASSUME NEW f, NEW g, NEW S, IsFiniteSet(S), \A x \in S : f[x] = g[x]
  PROVE  SumOn(f, S) = SumOn(g, S)
  <1> DEFINE C == {T \in SUBSET S : SumOn(f, T) # SumOn(g, T)}
  <1> SUFFICES ASSUME C # {} PROVE FALSE
    OBVIOUS
  <1>1. PICK T \in C : \A t \in C : t \subseteq T => t = T
    <2>1. C \in SUBSET (SUBSET S)
      OBVIOUS
    <2> HIDE DEF C
    <2> QED
      BY <2>1, MinimalSet
  <1>2. T \subseteq S /\ IsFiniteSet(T) /\ SumOn(f, T) # SumOn(g, T)
    BY <1>1, FS_Subset
  <1>3. T # {}
    BY <1>2, SumOnUnfolds
  <1>4. Pick(T) \in T
    BY <1>3 DEF Pick
  <1>5. SumOn(f, T \ {Pick(T)}) = SumOn(g, T \ {Pick(T)})
    BY <1>1, <1>2, <1>4
  <1> HIDE DEF C
  <1>6. /\ SumOn(f, T) = f[Pick(T)] + SumOn(f, T \ {Pick(T)})
        /\ SumOn(g, T) = g[Pick(T)] + SumOn(g, T \ {Pick(T)})
    BY <1>2, <1>3, SumOnUnfolds
  <1> QED
    BY <1>2, <1>4, <1>5, <1>6

-----------------------------------------------------------------------------
(* Sums over related sets *)

\* A family of finite sets that misses the empty one has a member that leaves
\* it whatever element it loses.
LEMMA SmallestMember ==
  ASSUME NEW U, IsFiniteSet(U), NEW C \in SUBSET (SUBSET U), C # {}, {} \notin C
  PROVE  \E s \in C : s # {} /\ \A x \in s : s \ {x} \notin C
  <1>1. PICK s \in C : \A t \in C : t \subseteq s => t = s
    BY MinimalSet
  <1> QED
    BY <1>1

\* Nothing but zeros adds up to zero.
LEMMA SumOfZeros ==
  ASSUME NEW f, NEW S, IsFiniteSet(S), \A x \in S : f[x] = 0
  PROVE  SumOn(f, S) = 0
  <1> DEFINE C == {T \in SUBSET S : SumOn(f, T) # 0}
  <1> SUFFICES ASSUME C # {} PROVE FALSE
    OBVIOUS
  <1>1. C \in SUBSET (SUBSET S) /\ SumOn(f, {}) = 0
    BY SumOnUnfolds
  <1>2. PICK T \in C : T # {} /\ \A x \in T : T \ {x} \notin C
    <2>1. {} \notin C
      BY <1>1
    <2> HIDE DEF C
    <2> QED
      BY <1>1, <2>1, SmallestMember
  <1>3. PICK x \in T : TRUE
    BY <1>2
  <1>4. T \subseteq S /\ SumOn(f, T) # 0 /\ SumOn(f, T \ {x}) = 0 /\ f[x] = 0
    BY <1>2, <1>3
  <1>5. Summable(f, T)
    BY <1>4, FS_Subset DEF Summable
  <1> QED
    BY <1>3, <1>4, <1>5, SumOnSplits

\* The sum of the differences is the difference of the sums.
LEMMA SumOnDifference ==
  ASSUME NEW f, NEW g, NEW h, NEW S, Summable(f, S), Summable(g, S),
         \A x \in S : h[x] = f[x] - g[x]
  PROVE  Summable(h, S) /\ SumOn(h, S) = SumOn(f, S) - SumOn(g, S)
  <1>1. Summable(h, S)
    BY DEF Summable
  <1> DEFINE C == {T \in SUBSET S : SumOn(h, T) # SumOn(f, T) - SumOn(g, T)}
  <1>2. C = {}
    <2> SUFFICES ASSUME C # {} PROVE FALSE
      OBVIOUS
    <2>1. IsFiniteSet(S) /\ C \in SUBSET (SUBSET S)
      BY DEF Summable
    <2>2. SumOn(h, {}) = SumOn(f, {}) - SumOn(g, {})
      <3>1. SumOn(h, {}) = 0 /\ SumOn(f, {}) = 0 /\ SumOn(g, {}) = 0
        BY <2>1, SumOnUnfolds
      <3> QED
        BY <3>1
    <2>3. PICK T \in C : T # {} /\ \A x \in T : T \ {x} \notin C
      <3>1. {} \notin C
        BY <2>2
      <3> HIDE DEF C
      <3> QED
        BY <2>1, <3>1, SmallestMember
    <2>4. PICK x \in T : TRUE
      BY <2>3
    <2>5. /\ T \subseteq S /\ SumOn(h, T) # SumOn(f, T) - SumOn(g, T)
          /\ SumOn(h, T \ {x}) = SumOn(f, T \ {x}) - SumOn(g, T \ {x})
      BY <2>3, <2>4
    <2> HIDE DEF C
    <2>6. Summable(f, T) /\ Summable(g, T) /\ Summable(h, T)
      BY <1>1, <2>5, FS_Subset DEF Summable
    <2>7. /\ SumOn(f, T) = f[x] + SumOn(f, T \ {x}) /\ SumOn(g, T) = g[x] + SumOn(g, T \ {x})
          /\ SumOn(h, T) = h[x] + SumOn(h, T \ {x})
      BY <2>4, <2>6, SumOnSplits
    <2>8. Summable(f, T \ {x}) /\ Summable(g, T \ {x})
      BY <2>6, FS_Subset DEF Summable
    <2>9. /\ SumOn(f, T \ {x}) \in Int /\ SumOn(g, T \ {x}) \in Int
          /\ f[x] \in Int /\ g[x] \in Int /\ h[x] = f[x] - g[x]
      BY <2>4, <2>5, <2>6, <2>8, SumOnType DEF Summable
    <2> QED
      BY <2>5, <2>7, <2>9
  <1> QED
    BY <1>1, <1>2

\* e renames the indices T of g to the indices S of f, one to one.
Renames(e, f, g, S, T) ==
  /\ \A x \in T : e[x] \in S /\ f[e[x]] = g[x]
  /\ \A s \in S : \E x \in T : s = e[x]
  /\ \A x, y \in T : e[x] = e[y] => x = y

\* A sum may be indexed by other names.
LEMMA SumOnRenamed ==
  ASSUME NEW f, NEW g, NEW S, NEW T, NEW e, Summable(g, T), Renames(e, f, g, S, T)
  PROVE  Summable(f, S) /\ SumOn(f, S) = SumOn(g, T)
  <1> DEFINE Image(R) == {e[x] : x \in R}
             C == {R \in SUBSET T : SumOn(f, Image(R)) # SumOn(g, R)}
  <1> USE DEF Renames
  <1>1. \A R \in SUBSET T : Summable(f, Image(R)) /\ Summable(g, R)
    <2> SUFFICES ASSUME NEW R \in SUBSET T PROVE Summable(f, Image(R)) /\ Summable(g, R)
      OBVIOUS
    <2>1. IsFiniteSet(R)
      BY FS_Subset DEF Summable
    <2>2. IsFiniteSet(Image(R))
      <3> DEFINE map == [x \in R |-> e[x]]
      <3>1. map \in Surjection(R, Image(R))
        BY DEF Surjection
      <3> HIDE DEF map
      <3> QED
        BY <2>1, <3>1, FS_Surjection
    <2> QED
      BY <2>1, <2>2 DEF Summable
  <1>2. C = {}
    <2> SUFFICES ASSUME C # {} PROVE FALSE
      OBVIOUS
    <2>1. IsFiniteSet(T) /\ C \in SUBSET (SUBSET T)
      BY DEF Summable
    <2>2. SumOn(f, Image({})) = SumOn(g, {})
      <3>1. Image({}) = {}
        OBVIOUS
      <3> HIDE DEF Image
      <3> QED
        BY <2>1, <3>1, SumOnUnfolds
    <2>3. PICK R \in C : R # {} /\ \A x \in R : R \ {x} \notin C
      <3>1. {} \notin C
        BY <2>2
      <3> HIDE DEF C
      <3> QED
        BY <2>1, <3>1, SmallestMember
    <2>4. PICK x \in R : TRUE
      BY <2>3
    <2>5. /\ R \subseteq T /\ SumOn(f, Image(R)) # SumOn(g, R)
          /\ SumOn(f, Image(R \ {x})) = SumOn(g, R \ {x})
      BY <2>3, <2>4
    <2>6. e[x] \in Image(R) /\ Image(R) \ {e[x]} = Image(R \ {x})
      BY <2>4, <2>5
    <2>7. SumOn(g, R) = g[x] + SumOn(g, R \ {x})
      BY <1>1, <2>4, <2>5, SumOnSplits
    <2> HIDE DEF C, Image
    <2>8. SumOn(f, Image(R)) = f[e[x]] + SumOn(f, Image(R \ {x}))
      <3>1. SumOn(f, Image(R)) = f[e[x]] + SumOn(f, Image(R) \ {e[x]})
        BY <1>1, <2>5, <2>6, SumOnSplits
      <3> QED
        BY <2>6, <3>1
    <2> QED
      BY <2>4, <2>5, <2>7, <2>8
  <1>3. Image(T) = S
    OBVIOUS
  <1> HIDE DEF Image
  <1> QED
    BY <1>1, <1>2, <1>3

\* p deals the elements of S out to the parts T, and g sums f over each part.
PartSums(g, f, S, T, p) ==
  /\ \A x \in S : p[x] \in T
  /\ \A t \in T : g[t] = SumOn(f, {x \in S : p[x] = t})

\* The sums of the parts add up to the sum of the whole.
LEMMA SumOnParts ==
  ASSUME NEW f, NEW g, NEW S, NEW T, NEW p, Summable(f, S), IsFiniteSet(T),
         PartSums(g, f, S, T, p)
  PROVE  Summable(g, T) /\ SumOn(g, T) = SumOn(f, S)
  <1> DEFINE Part(R, t) == {x \in R : p[x] = t}
             Parts(R) == [t \in T |-> SumOn(f, Part(R, t))]
             C == {R \in SUBSET S : SumOn(Parts(R), T) # SumOn(f, R)}
  <1>1. \A R \in SUBSET S : Summable(f, R) /\ Summable(Parts(R), T)
    <2> SUFFICES ASSUME NEW R \in SUBSET S PROVE Summable(f, R) /\ Summable(Parts(R), T)
      OBVIOUS
    <2>1. Summable(f, R)
      BY FS_Subset DEF Summable
    <2>2. \A t \in T : Summable(f, Part(R, t))
      BY <2>1, FS_Subset DEF Summable
    <2> HIDE DEF Part
    <2>3. \A t \in T : SumOn(f, Part(R, t)) \in Int
      BY <2>2, SumOnType
    <2> QED
      BY <2>1, <2>3 DEF Summable
  <1>2. C = {}
    <2> SUFFICES ASSUME C # {} PROVE FALSE
      OBVIOUS
    <2>1. IsFiniteSet(S) /\ C \in SUBSET (SUBSET S)
      BY DEF Summable
    <2>2. SumOn(Parts({}), T) = SumOn(f, {})
      <3>1. SumOn(f, {}) = 0
        BY <2>1, SumOnUnfolds
      <3>2. \A t \in T : Part({}, t) = {}
        OBVIOUS
      <3> HIDE DEF Part
      <3>3. \A t \in T : Parts({})[t] = 0
        BY <3>1, <3>2
      <3> HIDE DEF Parts
      <3>4. SumOn(Parts({}), T) = 0
        BY <3>3, SumOfZeros
      <3> QED
        BY <3>1, <3>4
    <2>3. PICK R \in C : R # {} /\ \A x \in R : R \ {x} \notin C
      <3>1. {} \notin C
        BY <2>2
      <3> HIDE DEF C
      <3> QED
        BY <2>1, <3>1, SmallestMember
    <2>4. PICK x \in R : TRUE
      BY <2>3
    <2> DEFINE Q == R \ {x}
    <2>5. /\ R \subseteq S /\ Q \subseteq S /\ SumOn(Parts(R), T) # SumOn(f, R)
          /\ SumOn(Parts(Q), T) = SumOn(f, Q) /\ p[x] \in T /\ x \in S
      BY <2>3, <2>4 DEF PartSums
    <2>6. SumOn(f, R) = f[x] + SumOn(f, Q)
      BY <1>1, <2>4, <2>5, SumOnSplits
    <2>7. /\ \A t \in T \ {p[x]} : Part(R, t) = Part(Q, t)
          /\ x \in Part(R, p[x]) /\ Part(R, p[x]) \ {x} = Part(Q, p[x])
          /\ Part(R, p[x]) \subseteq R
      BY <2>4
    <2> HIDE DEF C, Part, Q
    <2>8. SumOn(f, Part(R, p[x])) = f[x] + SumOn(f, Part(Q, p[x]))
      <3>1. Summable(f, Part(R, p[x]))
        BY <1>1, <2>5, <2>7, FS_Subset DEF Summable
      <3> QED
        BY <2>7, <3>1, SumOnSplits
    <2>9. /\ \A t \in T \ {p[x]} : Parts(R)[t] = Parts(Q)[t]
          /\ Parts(R)[p[x]] = f[x] + Parts(Q)[p[x]]
      BY <2>5, <2>7, <2>8
    <2>10. Summable(Parts(R), T) /\ Summable(Parts(Q), T) /\ f[x] \in Int
      BY <1>1, <2>5 DEF Summable
    <2> HIDE DEF Parts
    <2>11. /\ SumOn(Parts(R), T) = Parts(R)[p[x]] + SumOn(Parts(R), T \ {p[x]})
           /\ SumOn(Parts(Q), T) = Parts(Q)[p[x]] + SumOn(Parts(Q), T \ {p[x]})
      BY <2>5, <2>10, SumOnSplits
    <2>12. SumOn(Parts(R), T \ {p[x]}) = SumOn(Parts(Q), T \ {p[x]})
      <3>1. IsFiniteSet(T \ {p[x]})
        BY FS_Subset
      <3> QED
        BY <2>9, <3>1, SumOnCongruence
    <2>13. SumOn(Parts(Q), T \ {p[x]}) \in Int /\ Parts(Q)[p[x]] \in Int
      <3>1. Summable(Parts(Q), T \ {p[x]})
        BY <2>10, FS_Subset DEF Summable
      <3> QED
        BY <2>5, <2>10, <3>1, SumOnType DEF Summable
    <2> QED
      BY <2>5, <2>6, <2>9, <2>10, <2>11, <2>12, <2>13
  <1>3. SumOn(Parts(S), T) = SumOn(f, S) /\ Summable(Parts(S), T)
    BY <1>1, <1>2
  <1>4. \A t \in T : Parts(S)[t] = g[t]
    BY DEF PartSums
  <1> HIDE DEF Parts
  <1>5. Summable(g, T)
    BY <1>3, <1>4 DEF Summable
  <1> QED
    BY <1>3, <1>4, <1>5, SumOnCongruence

\* Counting a set is adding up ones.
LEMMA CardinalityIsSum ==
  ASSUME NEW S, IsFiniteSet(S)
  PROVE  SumOn([x \in S |-> 1], S) = Cardinality(S)
  <1> DEFINE f == [x \in S |-> 1]
             C == {T \in SUBSET S : SumOn(f, T) # Cardinality(T)}
  <1>1. Summable(f, S)
    BY DEF Summable
  <1>2. C = {}
    <2> SUFFICES ASSUME C # {} PROVE FALSE
      OBVIOUS
    <2>1. C \in SUBSET (SUBSET S)
      OBVIOUS
    <2>2. SumOn(f, {}) = Cardinality({})
      BY SumOnUnfolds, FS_EmptySet
    <2>3. PICK T \in C : T # {} /\ \A x \in T : T \ {x} \notin C
      <3>1. {} \notin C
        BY <2>2
      <3> HIDE DEF C
      <3> QED
        BY <2>1, <3>1, SmallestMember
    <2>4. PICK x \in T : TRUE
      BY <2>3
    <2>5. /\ T \subseteq S /\ SumOn(f, T) # Cardinality(T) /\ f[x] = 1
          /\ SumOn(f, T \ {x}) = Cardinality(T \ {x})
      BY <2>3, <2>4
    <2> HIDE DEF C, f
    <2>6. Summable(f, T)
      BY <1>1, <2>5, FS_Subset DEF Summable
    <2>7. SumOn(f, T) = f[x] + SumOn(f, T \ {x})
      BY <2>4, <2>6, SumOnSplits
    <2>8. Cardinality(T \ {x}) = Cardinality(T) - 1 /\ Cardinality(T) \in Nat
      BY <2>4, <2>6, FS_RemoveElement, FS_CardinalityType DEF Summable
    <2> QED
      BY <2>5, <2>7, <2>8
  <1> QED
    BY <1>2

-----------------------------------------------------------------------------
(* Total *)

\* Nothing to pay costs nothing.
LEMMA EmptyTotal == Total(<< >>) = 0
  <1>1. DOMAIN << >> = {} /\ IsFiniteSet({})
    BY FS_EmptySet
  <1>2. SumOn(<< >>, {}) = 0
    BY <1>1, SumOnUnfolds
  <1> QED
    BY <1>1, <1>2 DEF Total, SumFunction, SumOn

\* A sequence of natural numbers can be added up.
LEMMA SequenceIsSummable ==
  ASSUME NEW amounts \in Seq(Nat)
  PROVE  /\ DOMAIN amounts = 1 .. Len(amounts)
         /\ Summable(amounts, DOMAIN amounts)
         /\ \A i \in DOMAIN amounts : amounts[i] \in Nat
  <1>1. DOMAIN amounts = 1 .. Len(amounts) /\ 1 \in Int /\ Len(amounts) \in Int
    OBVIOUS
  <1>2. IsFiniteSet(1 .. Len(amounts))
    BY <1>1, FS_Interval
  <1>3. \A i \in DOMAIN amounts : amounts[i] \in Nat /\ amounts[i] \in Int
    OBVIOUS
  <1> QED
    BY <1>1, <1>2, <1>3 DEF Summable

\* The amounts of a sequence of natural numbers add up to one.
LEMMA TotalType ==
  ASSUME NEW amounts \in Seq(Nat)
  PROVE  Total(amounts) \in Nat
  <1>1. SumOn(amounts, DOMAIN amounts) \in Nat
    BY SequenceIsSummable, SumOnType
  <1> QED
    BY <1>1 DEF Total, SumFunction, SumOn

\* One more amount adds itself.
LEMMA TotalAppend ==
  ASSUME NEW amounts \in Seq(Nat), NEW amount \in Nat
  PROVE  Total(Append(amounts, amount)) = Total(amounts) + amount
  <1> DEFINE longer == Append(amounts, amount)
             n == Len(amounts) + 1
  <1>1. /\ DOMAIN amounts = 1 .. Len(amounts) /\ DOMAIN longer = 1 .. n /\ n \in Nat
        /\ longer[n] = amount /\ \A i \in DOMAIN amounts : longer[i] = amounts[i]
        /\ longer \in Seq(Nat) /\ Len(amounts) \in Nat
    OBVIOUS
  <1> HIDE DEF longer
  <1>2. (1 .. n) \ {n} = DOMAIN amounts /\ n \in 1 .. n
    BY <1>1
  <1>3. Summable(longer, 1 .. n) /\ Summable(amounts, DOMAIN amounts)
    BY <1>1, SequenceIsSummable
  <1> HIDE DEF n
  <1>4. SumOn(longer, 1 .. n) = longer[n] + SumOn(longer, DOMAIN amounts)
    BY <1>2, <1>3, SumOnSplits
  <1>5. SumOn(longer, DOMAIN amounts) = SumOn(amounts, DOMAIN amounts)
    BY <1>1, <1>3, SumOnCongruence DEF Summable
  <1>6. SumOn(amounts, DOMAIN amounts) \in Int
    BY <1>3, SumOnType
  <1> QED
    BY <1>1, <1>4, <1>5, <1>6 DEF Total, SumFunction, SumOn, longer
=============================================================================
