----------------------------- MODULE Data_proofs -----------------------------
(***************************************************************************)
(* Induction over numbers, sequences and finite sets, and what it shows of *)
(* the library's recursive operators.                                      *)
(*                                                                         *)
(* The induction theorems of the library take a predicate as a parameter,  *)
(* which the provers cannot instantiate.  The ones here take a set: what   *)
(* is to be shown of every number is stated as a subset of Nat.  They rest *)
(* on the library's theorem that the strict subsets of a set order its     *)
(* finite subsets well.                                                    *)
(***************************************************************************)
EXTENDS Integers, Sequences, SequencesExt, FiniteSetTheorems, TLAPS

-----------------------------------------------------------------------------
(* Induction. *)

\* A set of naturals has a least element: the intervals up to its elements are
\* finite sets, and one of them has no strict subset among them.
LEMMA LeastNatural ==
  ASSUME NEW T, T \subseteq Nat, T # {}
  PROVE  \E n \in T : \A m \in T : n <= m
  <1> DEFINE R == StrictSubsetOrdering(Nat)
             U == {0 .. n : n \in T}
  <1>1. IsWellFoundedOn(R, FiniteSubsetsOf(Nat))
    BY FS_StrictSubsetOrderingWellFounded
  <1>2. \A n \in Nat : IsFiniteSet(0 .. n)
    BY FS_Interval
  <1>3. U \subseteq FiniteSubsetsOf(Nat)
    BY <1>2 DEF FiniteSubsetsOf
  <1>4. U # {}
    OBVIOUS
  <1>5. \E x \in U : \A y \in U : ~ (<<y, x>> \in R)
    <2> HIDE DEF R, U
    <2>. QED
      BY <1>1, <1>3, <1>4, WFMin
  <1>6. PICK n \in T : \A m \in T : ~ (<<0 .. m, 0 .. n>> \in R)
    BY <1>5
  <1>7. ASSUME NEW m \in T, m < n
        PROVE  FALSE
    <2>1. 0 .. m \subseteq 0 .. n /\ n \in 0 .. n /\ n \notin 0 .. m
      BY <1>7
    <2>2. 0 .. m \in SUBSET Nat /\ 0 .. n \in SUBSET Nat
      OBVIOUS
    <2>3. <<0 .. m, 0 .. n>> \in R
      BY <2>1, <2>2 DEF StrictSubsetOrdering
    <2>. QED
      BY <1>6, <2>3
  <1>. QED
    BY <1>7

LEMMA NaturalInduction ==
  ASSUME NEW Q, 0 \in Q, \A n \in Nat : n \in Q => n + 1 \in Q
  PROVE  \A n \in Nat : n \in Q
  <1> DEFINE T == Nat \ Q
  <1>1. ASSUME T # {}
        PROVE  FALSE
    <2>1. PICK n \in T : \A m \in T : n <= m
      BY <1>1, LeastNatural
    <2>2. n # 0 /\ n \in Nat
      BY <2>1
    <2>3. n - 1 \in Nat /\ n - 1 \notin T
      BY <2>1, <2>2
    <2>4. (n - 1) + 1 \in Q
      BY <2>2, <2>3
    <2>. QED
      BY <2>1, <2>4
  <1>. QED
    BY <1>1

\* Induction up to a bound.
LEMMA BoundedInduction ==
  ASSUME NEW N \in Nat, NEW Q, 0 \in Q,
         \A n \in 0 .. N - 1 : n \in Q => n + 1 \in Q
  PROVE  \A n \in 0 .. N : n \in Q
  <1> DEFINE P == {n \in Nat : n <= N => n \in Q}
  <1>1. 0 \in P
    OBVIOUS
  <1>2. \A n \in Nat : n \in P => n + 1 \in P
    OBVIOUS
  <1>3. \A n \in Nat : n \in P
    <2> HIDE DEF P
    <2>. QED
      BY <1>1, <1>2, NaturalInduction
  <1>. QED
    BY <1>3

\* Induction over the subsets of a finite set, from each to those with one
\* element more.
LEMMA SubsetInduction ==
  ASSUME NEW S, IsFiniteSet(S), NEW Q,
         {} \in Q,
         \A s \in SUBSET S : s # {} /\ (\A x \in s : s \ {x} \in Q) => s \in Q
  PROVE  \A s \in SUBSET S : s \in Q
  <1> DEFINE P == {n \in Nat : \A s \in SUBSET S : Cardinality(s) = n => s \in Q}
  <1>1. \A s \in SUBSET S : IsFiniteSet(s) /\ Cardinality(s) \in Nat
    BY FS_Subset, FS_CardinalityType
  <1>2. 0 \in P
    BY <1>1, FS_EmptySet
  <1>3. ASSUME NEW n \in Nat, n \in P
        PROVE  n + 1 \in P
    <2> SUFFICES ASSUME NEW s \in SUBSET S, Cardinality(s) = n + 1
                 PROVE  s \in Q
      BY <1>3
    <2>1. s # {}
      <3>1. Cardinality(s) # 0
        OBVIOUS
      <3>. QED
        BY <3>1, FS_EmptySet
    <2>2. ASSUME NEW x \in s
          PROVE  s \ {x} \in Q
      <3>1. Cardinality(s \ {x}) = n
        BY <1>1, FS_RemoveElement
      <3>. QED
        BY <3>1, <1>3
    <2>. QED
      BY <2>1, <2>2
  <1>4. \A n \in Nat : n \in P
    <2> HIDE DEF P
    <2>. QED
      BY <1>2, <1>3, NaturalInduction
  <1>. QED
    BY <1>1, <1>4

-----------------------------------------------------------------------------
(* Recursion. *)

\* g starts with base and goes on with next.
Iterates(g, N, V, base, next) ==
  /\ g \in [0 .. N -> V]
  /\ g[0] = base
  /\ \A i \in 1 .. N : g[i] = next[i][g[i - 1]]

\* There is such a function.
LEMMA Recursion ==
  ASSUME NEW N \in Nat, NEW V, NEW base \in V, NEW next \in [1 .. N -> [V -> V]]
  PROVE  \E g : Iterates(g, N, V, base, next)
  <1> DEFINE RHS(g, i) == IF i = 0 THEN base ELSE next[i][g[i - 1]]
             P == {n \in Nat : \E g \in [0 .. N -> V] :
                     \A i \in 0 .. N : i <= n => g[i] = RHS(g, i)}
  <1>1. ASSUME NEW g \in [0 .. N -> V], NEW i \in 0 .. N
        PROVE  RHS(g, i) \in V
    <2>1. CASE i = 0
      BY <2>1
    <2>2. CASE i # 0
      <3>1. i \in 1 .. N /\ i - 1 \in 0 .. N
        BY <2>2
      <3>2. next[i] \in [V -> V] /\ g[i - 1] \in V
        BY <3>1
      <3>. QED
        BY <3>2, <2>2
    <2>. QED
      BY <2>1, <2>2
  <1>2. 0 \in P
    <2> DEFINE z == [i \in 0 .. N |-> base]
    <2>1. z \in [0 .. N -> V] /\ \A i \in 0 .. N : i <= 0 => z[i] = RHS(z, i)
      <3>1. \A i \in 0 .. N : i <= 0 => i = 0
        OBVIOUS
      <3>. QED
        BY <3>1
    <2> HIDE DEF z, RHS
    <2>. QED
      BY <2>1
  <1>3. ASSUME NEW n \in Nat, n \in P
        PROVE  n + 1 \in P
    <2>1. PICK g \in [0 .. N -> V] : \A i \in 0 .. N : i <= n => g[i] = RHS(g, i)
      BY <1>3
    <2> DEFINE h == [i \in 0 .. N |-> RHS(g, i)]
    <2>2. h \in [0 .. N -> V]
      <3> HIDE DEF RHS
      <3>. QED
        BY <1>1
    <2>3. \A i \in 0 .. N : i <= n => h[i] = g[i]
      <3> HIDE DEF RHS
      <3>. QED
        BY <2>1
    <2>4. ASSUME NEW i \in 0 .. N, i <= n + 1
          PROVE  h[i] = RHS(h, i)
      <3>1. h[i] = RHS(g, i)
        OBVIOUS
      <3>2. CASE i = 0
        BY <3>1, <3>2
      <3>3. CASE i # 0
        <4>1. i - 1 \in 0 .. N /\ i - 1 <= n
          BY <2>4, <3>3
        <4>2. h[i - 1] = g[i - 1]
          BY <4>1, <2>3
        <4> HIDE DEF h
        <4>. QED
          BY <4>2, <3>1, <3>3
      <3>. QED
        BY <3>2, <3>3
    <2>5. \E k \in [0 .. N -> V] : \A i \in 0 .. N : i <= n + 1 => k[i] = RHS(k, i)
      <3> HIDE DEF h, RHS
      <3>. QED
        BY <2>2, <2>4
    <2>6. n + 1 \in Nat
      OBVIOUS
    <2> HIDE DEF h, RHS
    <2>. QED
      BY <2>5, <2>6, Zenon
  <1>4. N \in P
    <2>1. \A n \in Nat : n \in P
      <3> HIDE DEF P
      <3>. QED
        BY <1>2, <1>3, NaturalInduction
    <2>. QED
      BY <2>1, Zenon
  <1>5. PICK g \in [0 .. N -> V] : \A i \in 0 .. N : i <= N => g[i] = RHS(g, i)
    BY <1>4
  <1>. QED
    BY <1>5 DEF Iterates

-----------------------------------------------------------------------------
(* Sums over a finite set.  The library adds the elements in an order its  *)
(* CHOOSE picks; the sum does not depend on it.                            *)

Picked(s) == CHOOSE x \in s : TRUE

\* g gives the sum of f over every subset of S, as MapThenSumSet computes it.
Sums(f, S, g) ==
  g = [s \in SUBSET S |-> IF s = {} THEN 0 ELSE f[Picked(s)] + g[s \ {Picked(s)}]]

LEMMA PickedIn ==
  ASSUME NEW s, s # {}
  PROVE  Picked(s) \in s
  BY DEF Picked

\* There is such a g: subsets of n + 1 elements extend those of n.
LEMMA SumsExist ==
  ASSUME NEW S, IsFiniteSet(S), NEW f, \A x \in S : f[x] \in Int
  PROVE  \E g \in [SUBSET S -> Int] : Sums(f, S, g)
  <1> DEFINE RHS(g, s) == IF s = {} THEN 0 ELSE f[Picked(s)] + g[s \ {Picked(s)}]
             P == {n \in Nat : \E g \in [SUBSET S -> Int] :
                     \A s \in SUBSET S : Cardinality(s) <= n => g[s] = RHS(g, s)}
  <1>1. \A s \in SUBSET S : IsFiniteSet(s) /\ Cardinality(s) \in Nat
    BY FS_Subset, FS_CardinalityType
  <1>2. \A s \in SUBSET S : s # {} =>
          /\ Picked(s) \in s /\ f[Picked(s)] \in Int
          /\ s \ {Picked(s)} \in SUBSET S
          /\ Cardinality(s \ {Picked(s)}) = Cardinality(s) - 1
    BY <1>1, PickedIn, FS_RemoveElement
  <1>3. ASSUME NEW g \in [SUBSET S -> Int], NEW s \in SUBSET S
        PROVE  RHS(g, s) \in Int
    <2>1. CASE s = {}
      BY <2>1
    <2>2. CASE s # {}
      <3>1. f[Picked(s)] \in Int /\ g[s \ {Picked(s)}] \in Int
        BY <1>2, <2>2
      <3>. QED
        BY <3>1
    <2>. QED
      BY <2>1, <2>2
  <1>4. 0 \in P
    <2> DEFINE z == [s \in SUBSET S |-> 0]
    <2>1. \A s \in SUBSET S : Cardinality(s) <= 0 => s = {}
      BY <1>1, FS_EmptySet
    <2>2. z \in [SUBSET S -> Int] /\ \A s \in SUBSET S : Cardinality(s) <= 0 => z[s] = RHS(z, s)
      BY <2>1
    <2>. QED
      BY <2>2
  <1>5. ASSUME NEW n \in Nat, n \in P
        PROVE  n + 1 \in P
    <2>1. PICK g \in [SUBSET S -> Int] :
            \A s \in SUBSET S : Cardinality(s) <= n => g[s] = RHS(g, s)
      BY <1>5
    <2> DEFINE h == [s \in SUBSET S |-> RHS(g, s)]
    <2>2. h \in [SUBSET S -> Int]
      <3> HIDE DEF RHS
      <3>. QED
        BY <1>3
    <2>3. \A s \in SUBSET S : Cardinality(s) <= n => h[s] = g[s]
      BY <2>1
    <2>4. ASSUME NEW s \in SUBSET S, Cardinality(s) <= n + 1
          PROVE  h[s] = RHS(h, s)
      <3>1. CASE s = {}
        BY <3>1
      <3>2. CASE s # {}
        <4>1. Cardinality(s \ {Picked(s)}) <= n /\ s \ {Picked(s)} \in SUBSET S
          BY <1>1, <1>2, <2>4, <3>2
        <4>2. h[s \ {Picked(s)}] = g[s \ {Picked(s)}]
          BY <4>1, <2>3
        <4>. QED
          BY <4>2, <3>2
      <3>. QED
        BY <3>1, <3>2
    <2>5. \E k \in [SUBSET S -> Int] :
            \A s \in SUBSET S : Cardinality(s) <= n + 1 => k[s] = RHS(k, s)
      <3> HIDE DEF h, RHS
      <3>. QED
        BY <2>2, <2>4
    <2>6. n + 1 \in Nat
      OBVIOUS
    <2> HIDE DEF h, RHS
    <2>. QED
      BY <2>5, <2>6, Zenon
  <1>6. \A n \in Nat : n \in P
    <2> HIDE DEF P
    <2>. QED
      BY <1>4, <1>5, NaturalInduction
  <1>7. Cardinality(S) \in P
    BY <1>6, <1>1
  <1>8. PICK g \in [SUBSET S -> Int] :
          \A s \in SUBSET S : Cardinality(s) <= Cardinality(S) => g[s] = RHS(g, s)
    BY <1>7
  <1>9. \A s \in SUBSET S : Cardinality(s) <= Cardinality(S)
    BY FS_Subset
  <1>10. g = [s \in SUBSET S |-> RHS(g, s)]
    BY <1>8, <1>9
  <1>. QED
    BY <1>10 DEF Sums

\* Any element can be taken out first.
LEMMA SumsStep ==
  ASSUME NEW S, IsFiniteSet(S), NEW f, \A x \in S : f[x] \in Int,
         NEW g, Sums(f, S, g)
  PROVE  /\ g[{}] = 0
         /\ \A s \in SUBSET S : /\ g[s] \in Int
                                /\ \A x \in s : g[s] = f[x] + g[s \ {x}]
  <1>1. \A s \in SUBSET S :
          g[s] = IF s = {} THEN 0 ELSE f[Picked(s)] + g[s \ {Picked(s)}]
    BY Zenon DEF Sums
  <1>2. g[{}] = 0
    BY <1>1
  <1>3. \A s \in SUBSET S : g[s] \in Int
    <2> DEFINE Q == {s \in SUBSET S : g[s] \in Int}
    <2>1. {} \in Q
      BY <1>2
    <2>2. ASSUME NEW s \in SUBSET S, s # {}, \A x \in s : s \ {x} \in Q
          PROVE  s \in Q
      <3>1. Picked(s) \in s
        BY <2>2, PickedIn
      <3>2. f[Picked(s)] \in Int /\ g[s \ {Picked(s)}] \in Int
        BY <3>1, <2>2
      <3>3. g[s] = f[Picked(s)] + g[s \ {Picked(s)}]
        BY <1>1, <2>2
      <3>. QED
        BY <3>2, <3>3
    <2>3. \A s \in SUBSET S : s \in Q
      <3> HIDE DEF Q
      <3>. QED
        BY <2>1, <2>2, SubsetInduction
    <2>. QED
      BY <2>3
  <1> DEFINE Q == {s \in SUBSET S : \A x \in s : g[s] = f[x] + g[s \ {x}]}
  <1>4. {} \in Q
    OBVIOUS
  <1>5. ASSUME NEW s \in SUBSET S, s # {}, \A x \in s : s \ {x} \in Q
        PROVE  s \in Q
    <2> DEFINE c == Picked(s)
    <2>1. c \in s
      BY <1>5, PickedIn
    <2>2. g[s] = f[c] + g[s \ {c}]
      BY <1>1, <1>5
    <2> HIDE DEF c
    <2>3. ASSUME NEW x \in s, x # c
          PROVE  g[s] = f[x] + g[s \ {x}]
      <3> DEFINE r == (s \ {c}) \ {x}
      <3>1. g[s \ {c}] = f[x] + g[r]
        BY <1>5, <2>1, <2>3
      <3>2. g[s \ {x}] = f[c] + g[(s \ {x}) \ {c}]
        BY <1>5, <2>1, <2>3
      <3>3. (s \ {x}) \ {c} = r /\ r \in SUBSET S
        OBVIOUS
      <3>4. g[s \ {x}] = f[c] + g[r]
        BY <3>2, <3>3
      <3>5. f[x] \in Int /\ f[c] \in Int /\ g[r] \in Int
        BY <2>1, <1>3
      <3> HIDE DEF r
      <3>. QED
        BY <2>2, <3>1, <3>4, <3>5
    <2>. QED
      BY <2>2, <2>3
  <1>6. \A s \in SUBSET S : s \in Q
    <2> HIDE DEF Q
    <2>. QED
      BY <1>4, <1>5, SubsetInduction
  <1>. QED
    BY <1>2, <1>3, <1>6

\* The sum over a set is the same whatever finite set it is a subset of.
LEMMA SumsAgree ==
  ASSUME NEW S, IsFiniteSet(S), NEW T, T \subseteq S, NEW f, \A x \in S : f[x] \in Int,
         NEW g, Sums(f, S, g), NEW h, Sums(f, T, h)
  PROVE  g[T] = h[T]
  <1> DEFINE Q == {s \in SUBSET T : g[s] = h[s]}
  <1>1. IsFiniteSet(T) /\ \A x \in T : f[x] \in Int
    BY FS_Subset
  <1>2. g[{}] = 0 /\ \A s \in SUBSET S : \A x \in s : g[s] = f[x] + g[s \ {x}]
    BY SumsStep
  <1>3. h[{}] = 0 /\ \A s \in SUBSET T : \A x \in s : h[s] = f[x] + h[s \ {x}]
    <2>1. IsFiniteSet(T)
      BY <1>1
    <2>2. \A x \in T : f[x] \in Int
      BY <1>1
    <2>3. h[{}] = 0
      BY <2>1, <2>2, SumsStep
    <2>4. ASSUME NEW s \in SUBSET T
          PROVE  \A x \in s : h[s] = f[x] + h[s \ {x}]
      BY <2>1, <2>2, SumsStep
    <2>. QED
      BY <2>3, <2>4
  <1>4. {} \in Q
    BY <1>2, <1>3
  <1>5. ASSUME NEW s \in SUBSET T, s # {}, \A x \in s : s \ {x} \in Q
        PROVE  s \in Q
    <2>1. PICK x \in s : TRUE
      BY <1>5
    <2>2. g[s] = f[x] + g[s \ {x}] /\ h[s] = f[x] + h[s \ {x}]
      BY <1>2, <1>3
    <2>. QED
      BY <2>2, <1>5
  <1>6. \A s \in SUBSET T : s \in Q
    <2> HIDE DEF Q
    <2>. QED
      BY <1>1, <1>4, <1>5, SubsetInduction
  <1>. QED
    BY <1>6

\* SumOf(f, S): MapThenSumSet of a function.
SumOf(f, S) == MapThenSumSet(LAMBDA x : f[x], S)

LEMMA SumOfIsSums ==
  ASSUME NEW S, IsFiniteSet(S), NEW f, \A x \in S : f[x] \in Int
  PROVE  \E g : Sums(f, S, g) /\ SumOf(f, S) = g[S]
  <1> DEFINE c == CHOOSE g : Sums(f, S, g)
  <1>1. Sums(f, S, c)
    BY SumsExist
  <1>2. SumOf(f, S) = c[S]
    BY DEF SumOf, MapThenSumSet, MapThenFoldSet, Sums, Picked
  <1>. QED
    BY <1>1, <1>2

LEMMA SumOfEmpty ==
  ASSUME NEW f
  PROVE  SumOf(f, {}) = 0
  <1>1. IsFiniteSet({})
    BY FS_EmptySet
  <1>2. PICK g : Sums(f, {}, g) /\ SumOf(f, {}) = g[{}]
    BY <1>1, SumOfIsSums
  <1>. QED
    BY <1>1, <1>2, SumsStep

\* Functions that agree on a set have the same sum over it.
LEMMA SumOfSame ==
  ASSUME NEW S, IsFiniteSet(S), NEW f, NEW h,
         \A x \in S : f[x] \in Int /\ h[x] = f[x]
  PROVE  SumOf(f, S) = SumOf(h, S)
  <1>1. PICK g : Sums(f, S, g) /\ SumOf(f, S) = g[S]
    BY SumOfIsSums
  <1>2. PICK k : Sums(h, S, k) /\ SumOf(h, S) = k[S]
    BY SumOfIsSums
  <1>3. ASSUME NEW s \in SUBSET S, s # {}
        PROVE  h[Picked(s)] = f[Picked(s)]
    BY <1>3, PickedIn
  <1>4. Sums(f, S, k)
    BY <1>2, <1>3 DEF Sums
  <1>. QED
    BY <1>1, <1>2, <1>4, SumsAgree

LEMMA SumOfAdd ==
  ASSUME NEW S, IsFiniteSet(S), NEW x, x \notin S, NEW f,
         \A y \in S \cup {x} : f[y] \in Int
  PROVE  /\ SumOf(f, S) \in Int
         /\ SumOf(f, S \cup {x}) = SumOf(f, S) + f[x]
  <1> DEFINE T == S \cup {x}
  <1>1. IsFiniteSet(T)
    BY FS_AddElement
  <1>2. T \ {x} = S /\ S \in SUBSET T /\ x \in T /\ T \in SUBSET T
    OBVIOUS
  <1>3. PICK g : Sums(f, S, g) /\ SumOf(f, S) = g[S]
    BY SumOfIsSums
  <1>4. PICK h : Sums(f, T, h) /\ SumOf(f, T) = h[T]
    BY <1>1, SumOfIsSums
  <1>5. h[S] = g[S]
    BY <1>1, <1>2, <1>3, <1>4, SumsAgree
  <1> HIDE DEF T
  <1>6. h[T] = f[x] + h[T \ {x}] /\ h[S] \in Int
    <2>1. \A y \in T : f[y] \in Int
      BY DEF T
    <2>. QED
      BY <1>1, <1>2, <1>4, <2>1, SumsStep
  <1>7. f[x] \in Int
    OBVIOUS
  <1>8. h[T \ {x}] = h[S]
    BY <1>2
  <1>9. h[T] = h[S] + f[x]
    BY <1>6, <1>7, <1>8
  <1>10. SumOf(f, S) \in Int /\ SumOf(f, T) = SumOf(f, S) + f[x]
    BY <1>3, <1>4, <1>5, <1>6, <1>9
  <1>. QED
    BY <1>10 DEF T

\* Sums over the intervals that start at 1, the ones the modules use.
LEMMA SumToNext ==
  ASSUME NEW n \in Nat, NEW f, \A i \in 1 .. n + 1 : f[i] \in Int
  PROVE  SumOf(f, 1 .. n + 1) = SumOf(f, 1 .. n) + f[n + 1]
  <1>1. IsFiniteSet(1 .. n) /\ n + 1 \notin 1 .. n
    BY FS_Interval
  <1>2. 1 .. n + 1 = 1 .. n \cup {n + 1}
    OBVIOUS
  <1> DEFINE S == 1 .. n
             x == n + 1
  <1>3. IsFiniteSet(S) /\ x \notin S /\ \A y \in S \cup {x} : f[y] \in Int
    BY <1>1, <1>2
  <1>4. SumOf(f, S \cup {x}) = SumOf(f, S) + f[x]
    <2> HIDE DEF S, x
    <2>. QED
      BY <1>3, SumOfAdd
  <1>. QED
    BY <1>2, <1>4

LEMMA SumToType ==
  ASSUME NEW n \in Nat, NEW f, \A i \in 1 .. n : f[i] \in Nat
  PROVE  SumOf(f, 1 .. n) \in Nat
  <1> DEFINE Q == {k \in Nat : SumOf(f, 1 .. k) \in Nat}
  <1>1. 0 \in Q
    <2>1. 1 .. 0 = {}
      OBVIOUS
    <2>. QED
      BY <2>1, SumOfEmpty
  <1>2. ASSUME NEW k \in 0 .. n - 1, k \in Q
        PROVE  k + 1 \in Q
    <2>1. SumOf(f, 1 .. k + 1) = SumOf(f, 1 .. k) + f[k + 1]
      BY SumToNext
    <2>2. f[k + 1] \in Nat
      OBVIOUS
    <2>. QED
      BY <1>2, <2>1, <2>2
  <1>3. \A k \in 0 .. n : k \in Q
    <2> HIDE DEF Q
    <2>. QED
      BY <1>1, <1>2, BoundedInduction
  <1>. QED
    BY <1>3
-----------------------------------------------------------------------------
(* Sequences. *)

\* What is left of a sequence cut at n.
LEMMA FirstPart ==
  ASSUME NEW S, NEW s \in Seq(S), NEW n \in 0 .. Len(s)
  PROVE  /\ SubSeq(s, 1, n) \in Seq(S) /\ Len(SubSeq(s, 1, n)) = n
         /\ \A i \in 1 .. n : SubSeq(s, 1, n)[i] = s[i]
  <1>1. Len(s) \in Nat /\ n \in Int /\ 0 <= n /\ n <= Len(s)
    OBVIOUS
  <1>2. SubSeq(s, 1, n) = [i \in 1 .. n |-> s[i]]
    BY <1>1
  <1>3. \A i \in 1 .. n : s[i] \in S
    BY <1>1
  <1> DEFINE t == [i \in 1 .. n |-> s[i]]
  <1>4. t \in Seq(S) /\ Len(t) = n
    BY <1>1, <1>3
  <1>. QED
    BY <1>2, <1>4

\* Sequences of the same elements are the same.
LEMMA SameSequence ==
  ASSUME NEW S, NEW s \in Seq(S), NEW t \in Seq(S), Len(s) = Len(t),
         \A i \in 1 .. Len(s) : s[i] = t[i]
  PROVE  s = t
  <1>1. s = [i \in 1 .. Len(s) |-> s[i]] /\ t = [i \in 1 .. Len(t) |-> t[i]]
    OBVIOUS
  <1>. QED
    BY <1>1

\* Changing the last element.
LEMMA LastChanged ==
  ASSUME NEW S, NEW s \in Seq(S), s # <<>>, NEW x \in S
  PROVE  /\ SubSeq(s, 1, Len(s) - 1) \in Seq(S)
         /\ s = Append(SubSeq(s, 1, Len(s) - 1), s[Len(s)])
         /\ [s EXCEPT ![Len(s)] = x] = Append(SubSeq(s, 1, Len(s) - 1), x)
  <1> DEFINE n == Len(s)
             front == SubSeq(s, 1, n - 1)
             old == s[n]
             changed == [s EXCEPT ![n] = x]
  <1>1. n \in Nat /\ n > 0 /\ n - 1 \in 0 .. Len(s) /\ old \in S
    OBVIOUS
  <1>2. front \in Seq(S) /\ Len(front) = n - 1 /\ \A i \in 1 .. n - 1 : front[i] = s[i]
    BY <1>1, FirstPart
  <1>3. changed \in Seq(S) /\ Len(changed) = n /\ changed[n] = x
        /\ \A i \in 1 .. n - 1 : changed[i] = s[i]
    BY <1>1
  <1> HIDE DEF front, old, changed
  <1>4. ASSUME NEW y \in S
        PROVE  /\ Append(front, y) \in Seq(S) /\ Len(Append(front, y)) = n
               /\ Append(front, y)[n] = y
               /\ \A i \in 1 .. n - 1 : Append(front, y)[i] = s[i]
    BY <1>1, <1>2
  <1>5. \A i \in 1 .. n : i = n \/ i \in 1 .. n - 1
    BY <1>1
  <1>6. s = Append(front, old)
    <2> DEFINE t == Append(front, old)
    <2>1. t \in Seq(S) /\ Len(t) = n /\ \A i \in 1 .. n : t[i] = s[i]
      BY <1>1, <1>4, <1>5 DEF old
    <2> HIDE DEF t
    <2>2. s = t
      BY <2>1, SameSequence
    <2>. QED
      BY <2>2 DEF t
  <1>7. changed = Append(front, x)
    <2> DEFINE t == Append(front, x)
    <2>1. t \in Seq(S) /\ Len(t) = n /\ \A i \in 1 .. n : t[i] = changed[i]
      BY <1>3, <1>4, <1>5
    <2> HIDE DEF t
    <2>2. changed = t
      BY <1>3, <2>1, SameSequence
    <2>. QED
      BY <2>2 DEF t
  <1>. QED
    BY <1>2, <1>6, <1>7 DEF front, old, changed

-----------------------------------------------------------------------------
(* FlattenSeq. *)

\* g gives what the first elements of s make, as FlattenSeq computes it.
Flattens(s, g) ==
  g = [i \in 1 .. Len(s) |-> IF i = 1 THEN s[i] ELSE g[i - 1] \o s[i]]

LEMMA FlattensExist ==
  ASSUME NEW T, NEW s \in Seq(Seq(T))
  PROVE  \E g \in [1 .. Len(s) -> Seq(T)] : Flattens(s, g)
  <1> DEFINE N == Len(s)
             RHS(g, i) == IF i = 1 THEN s[i] ELSE g[i - 1] \o s[i]
             P == {n \in Nat : \E g \in [1 .. N -> Seq(T)] :
                     \A i \in 1 .. N : i <= n => g[i] = RHS(g, i)}
  <1>1. N \in Nat /\ \A i \in 1 .. N : s[i] \in Seq(T)
    OBVIOUS
  <1>2. ASSUME NEW g \in [1 .. N -> Seq(T)], NEW i \in 1 .. N
        PROVE  RHS(g, i) \in Seq(T)
    <2>1. CASE i = 1
      BY <2>1, <1>1
    <2>2. CASE i # 1
      <3>1. i - 1 \in 1 .. N
        BY <1>1, <2>2
      <3>2. g[i - 1] \in Seq(T) /\ s[i] \in Seq(T)
        BY <1>1, <3>1
      <3>. QED
        BY <3>2, <2>2
    <2>. QED
      BY <2>1, <2>2
  <1>3. 0 \in P
    <2> DEFINE z == [i \in 1 .. N |-> <<>>]
    <2>0. <<>> \in Seq(T)
      OBVIOUS
    <2>1. z \in [1 .. N -> Seq(T)] /\ \A i \in 1 .. N : i <= 0 => z[i] = RHS(z, i)
      <3>1. \A i \in 1 .. N : ~(i <= 0)
        OBVIOUS
      <3> HIDE DEF RHS
      <3>. QED
        BY <2>0, <3>1
    <2> HIDE DEF z, RHS
    <2>. QED
      BY <2>1
  <1>4. ASSUME NEW n \in Nat, n \in P
        PROVE  n + 1 \in P
    <2>1. PICK g \in [1 .. N -> Seq(T)] : \A i \in 1 .. N : i <= n => g[i] = RHS(g, i)
      BY <1>4
    <2> DEFINE h == [i \in 1 .. N |-> RHS(g, i)]
    <2>2. h \in [1 .. N -> Seq(T)]
      <3> HIDE DEF RHS
      <3>. QED
        BY <1>2
    <2>3. \A i \in 1 .. N : i <= n => h[i] = g[i]
      <3> HIDE DEF RHS
      <3>. QED
        BY <2>1
    <2>4. ASSUME NEW i \in 1 .. N, i <= n + 1
          PROVE  h[i] = RHS(h, i)
      <3>1. h[i] = RHS(g, i)
        OBVIOUS
      <3>2. CASE i = 1
        BY <3>1, <3>2
      <3>3. CASE i # 1
        <4>1. i - 1 \in 1 .. N /\ i - 1 <= n
          BY <1>1, <2>4, <3>3
        <4>2. h[i - 1] = g[i - 1]
          BY <4>1, <2>3
        <4> HIDE DEF h
        <4>. QED
          BY <4>2, <3>1, <3>3
      <3>. QED
        BY <3>2, <3>3
    <2>5. \E k \in [1 .. N -> Seq(T)] : \A i \in 1 .. N : i <= n + 1 => k[i] = RHS(k, i)
      <3> HIDE DEF h, RHS
      <3>. QED
        BY <2>2, <2>4
    <2>6. n + 1 \in Nat
      OBVIOUS
    <2> HIDE DEF h, RHS
    <2>. QED
      BY <2>5, <2>6, Zenon
  <1>5. N \in P
    <2>1. \A n \in Nat : n \in P
      <3> HIDE DEF P
      <3>. QED
        BY <1>3, <1>4, NaturalInduction
    <2>. QED
      BY <1>1, <2>1, Zenon
  <1>6. PICK g \in [1 .. N -> Seq(T)] : \A i \in 1 .. N : i <= N => g[i] = RHS(g, i)
    BY <1>5
  <1>7. g = [i \in 1 .. N |-> RHS(g, i)]
    <2> HIDE DEF RHS
    <2>. QED
      BY <1>6, <1>1
  <1>. QED
    BY <1>7 DEF Flattens

LEMMA FlattenIs ==
  ASSUME NEW T, NEW s \in Seq(Seq(T)), s # <<>>
  PROVE  \E g : Flattens(s, g) /\ FlattenSeq(s) = g[Len(s)]
  <1> DEFINE c == CHOOSE g : Flattens(s, g)
  <1>1. Flattens(s, c)
    BY FlattensExist
  <1>2. Len(s) # 0
    OBVIOUS
  <1>3. FlattenSeq(s) = c[Len(s)]
    BY <1>2 DEF FlattenSeq, Flattens
  <1>. QED
    BY <1>1, <1>3

LEMMA FlattenEmpty == FlattenSeq(<<>>) = <<>>
  BY DEF FlattenSeq

\* A sequence and one that extends it make the same up to where they agree.
LEMMA FlattensAgree ==
  ASSUME NEW s, NEW t, NEW g, NEW h, Flattens(s, g), Flattens(t, h),
         Len(s) \in Nat, Len(t) \in Nat, Len(s) <= Len(t),
         \A i \in 1 .. Len(s) : s[i] = t[i]
  PROVE  \A i \in 1 .. Len(s) : g[i] = h[i]
  <1> DEFINE n == Len(s)
             Q == {k \in Nat : k # 0 => g[k] = h[k]}
  <1>1. \A i \in 1 .. Len(s) : g[i] = IF i = 1 THEN s[i] ELSE g[i - 1] \o s[i]
    BY Zenon DEF Flattens
  <1>2. \A i \in 1 .. Len(t) : h[i] = IF i = 1 THEN t[i] ELSE h[i - 1] \o t[i]
    BY Zenon DEF Flattens
  <1>3. 0 \in Q
    OBVIOUS
  <1>4. ASSUME NEW k \in 0 .. n - 1, k \in Q
        PROVE  k + 1 \in Q
    <2> DEFINE i == k + 1
    <2>1. i \in 1 .. n /\ i \in 1 .. Len(s) /\ i \in 1 .. Len(t) /\ i - 1 = k
      OBVIOUS
    <2> HIDE DEF i
    <2>2. g[i] = IF i = 1 THEN s[i] ELSE g[k] \o s[i]
      BY <1>1, <2>1
    <2>3. h[i] = IF i = 1 THEN t[i] ELSE h[k] \o t[i]
      BY <1>2, <2>1
    <2>4. i # 1 => g[k] = h[k]
      BY <1>4, <2>1
    <2>5. g[i] = h[i]
      BY <2>1, <2>2, <2>3, <2>4
    <2>. QED
      BY <2>1, <2>5 DEF i
  <1>5. \A k \in 0 .. n : k \in Q
    <2> HIDE DEF Q
    <2>. QED
      BY <1>3, <1>4, BoundedInduction
  <1>. QED
    BY <1>5

LEMMA FlattenAppend ==
  ASSUME NEW T, NEW s \in Seq(Seq(T)), NEW x \in Seq(T)
  PROVE  FlattenSeq(Append(s, x)) = FlattenSeq(s) \o x
  <1> DEFINE t == Append(s, x)
             n == Len(s)
  <1>1. /\ t \in Seq(Seq(T)) /\ t # <<>> /\ Len(t) = n + 1 /\ n \in Nat
        /\ t[n + 1] = x /\ \A i \in 1 .. n : t[i] = s[i]
    <2> DEFINE U == Seq(T)
    <2>1. s \in Seq(U) /\ x \in U
      OBVIOUS
    <2> HIDE DEF U
    <2>2. t \in Seq(U) /\ t # <<>> /\ Len(t) = n + 1 /\ n \in Nat
      BY <2>1
    <2>3. t[n + 1] = x /\ \A i \in 1 .. n : t[i] = s[i]
      BY <2>1
    <2>. QED
      BY <2>2, <2>3 DEF U
  <1> HIDE DEF t
  <1>2. PICK h : Flattens(t, h) /\ FlattenSeq(t) = h[n + 1]
    BY <1>1, FlattenIs
  <1>3. h[n + 1] = IF n + 1 = 1 THEN t[n + 1] ELSE h[(n + 1) - 1] \o t[n + 1]
    <2>1. \A i \in 1 .. Len(t) : h[i] = IF i = 1 THEN t[i] ELSE h[i - 1] \o t[i]
      BY <1>2, Zenon DEF Flattens
    <2>2. n + 1 \in 1 .. Len(t)
      BY <1>1
    <2>. QED
      BY <2>1, <2>2, Zenon
  <1>4. CASE s = <<>>
    <2>1. h[n + 1] = x
      BY <1>3, <1>1, <1>4
    <2>. QED
      BY <2>1, <1>2, <1>4, FlattenEmpty DEF t
  <1>5. CASE s # <<>>
    <2>1. PICK g : Flattens(s, g) /\ FlattenSeq(s) = g[n]
      BY <1>5, FlattenIs
    <2>2. \A i \in 1 .. n : g[i] = h[i]
      <3>1. Len(s) \in Nat /\ Len(t) \in Nat /\ Len(s) <= Len(t)
        BY <1>1
      <3>2. \A i \in 1 .. Len(s) : s[i] = t[i]
        BY <1>1
      <3>3. Flattens(s, g) /\ Flattens(t, h)
        BY <1>2, <2>1
      <3>. QED
        BY <3>1, <3>2, <3>3, FlattensAgree
    <2>3. n \in 1 .. n /\ n + 1 # 1 /\ (n + 1) - 1 = n
      BY <1>1, <1>5
    <2>. QED
      BY <1>1, <1>2, <1>3, <2>1, <2>2, <2>3 DEF t
  <1>. QED
    BY <1>4, <1>5

LEMMA FlattenType ==
  ASSUME NEW T, NEW s \in Seq(Seq(T))
  PROVE  FlattenSeq(s) \in Seq(T)
  <1>1. CASE s = <<>>
    <2>1. FlattenSeq(s) = <<>>
      BY <1>1, FlattenEmpty
    <2>. QED
      BY <2>1
  <1>2. CASE s # <<>>
    <2>1. PICK g \in [1 .. Len(s) -> Seq(T)] : Flattens(s, g)
      BY FlattensExist
    <2>2. PICK h : Flattens(s, h) /\ FlattenSeq(s) = h[Len(s)]
      BY <1>2, FlattenIs
    <2>3. Len(s) \in Nat /\ Len(s) \in 1 .. Len(s)
      BY <1>2
    <2>4. g[Len(s)] = h[Len(s)]
      <3>1. Len(s) \in Nat /\ Len(s) <= Len(s)
        BY <2>3
      <3>2. \A i \in 1 .. Len(s) : g[i] = h[i]
        BY <2>1, <2>2, <3>1, FlattensAgree
      <3>. QED
        BY <2>3, <3>2
    <2>. QED
      BY <2>1, <2>2, <2>3, <2>4
  <1>. QED
    BY <1>1, <1>2

-----------------------------------------------------------------------------
(* Sequences made of sequences, by where each element begins. *)

\* off tells where the elements of s begin in what they make.
Offsets(off, s) ==
  /\ off[1] = 0
  /\ \A i \in 1 .. Len(s) : off[i] \in Nat /\ off[i + 1] = off[i] + Len(s[i])

\* f is what the first n elements of s make.
MadeBy(f, n, s, off) ==
  /\ Len(f) = off[n + 1]
  /\ \A i \in 1 .. n : \A x \in 1 .. Len(s[i]) :
       off[i] + x \in 1 .. Len(f) /\ f[off[i] + x] = s[i][x]

LEMMA OffsetsGrow ==
  ASSUME NEW T, NEW s \in Seq(Seq(T)), NEW off, Offsets(off, s)
  PROVE  /\ Len(s) \in Nat /\ \A i \in 1 .. Len(s) : s[i] \in Seq(T) /\ Len(s[i]) \in Nat
         /\ \A i \in 1 .. Len(s) + 1 : off[i] \in Nat
  <1> DEFINE U == Seq(T)
  <1>1. Len(s) \in Nat /\ \A i \in 1 .. Len(s) : s[i] \in U
    <2>1. s \in Seq(U)
      OBVIOUS
    <2> HIDE DEF U
    <2>. QED
      BY <2>1
  <1>2. \A i \in 1 .. Len(s) : s[i] \in Seq(T) /\ Len(s[i]) \in Nat
    BY <1>1
  <1>3. ASSUME NEW i \in 1 .. Len(s) + 1
        PROVE  off[i] \in Nat
    <2>1. CASE i \in 1 .. Len(s)
      BY <2>1 DEF Offsets
    <2>2. CASE i = Len(s) + 1 /\ Len(s) # 0
      <3>1. Len(s) \in 1 .. Len(s)
        BY <1>1, <2>2
      <3>. QED
        BY <1>2, <2>2, <3>1 DEF Offsets
    <2>3. CASE i = 1
      BY <2>3 DEF Offsets
    <2>. QED
      BY <1>1, <2>1, <2>2, <2>3
  <1>. QED
    BY <1>1, <1>2, <1>3

LEMMA FlattenAt ==
  ASSUME NEW T, NEW s \in Seq(Seq(T)), NEW off, Offsets(off, s)
  PROVE  FlattenSeq(s) \in Seq(T) /\ MadeBy(FlattenSeq(s), Len(s), s, off)
  <1> DEFINE U == Seq(T)
             First(k) == SubSeq(s, 1, k)
             P == {k \in Nat : k <= Len(s) => MadeBy(FlattenSeq(First(k)), k, s, off)}
  <1>1. /\ Len(s) \in Nat /\ \A i \in 1 .. Len(s) : s[i] \in U /\ Len(s[i]) \in Nat
        /\ \A i \in 1 .. Len(s) + 1 : off[i] \in Nat
    BY OffsetsGrow
  <1>2. s \in Seq(U)
    OBVIOUS
  <1>3. \A k \in 0 .. Len(s) : /\ First(k) \in Seq(U) /\ Len(First(k)) = k
                               /\ \A i \in 1 .. k : First(k)[i] = s[i]
    <2> HIDE DEF U
    <2>. QED
      BY <1>2, FirstPart
  <1>4. First(0) = <<>> /\ First(Len(s)) = s
    <2> HIDE DEF U, First
    <2>1. Len(First(0)) = 0 /\ First(0) \in Seq(U)
      BY <1>1, <1>3
    <2>2. First(Len(s)) \in Seq(U) /\ Len(First(Len(s))) = Len(s)
          /\ \A i \in 1 .. Len(First(Len(s))) : First(Len(s))[i] = s[i]
      BY <1>1, <1>3
    <2>3. First(0) = <<>>
      BY <2>1
    <2>4. First(Len(s)) = s
      BY <1>2, <2>2, SameSequence
    <2>. QED
      BY <2>3, <2>4
  <1>5. 0 \in P
    <2>1. MadeBy(<<>>, 0, s, off)
      BY DEF MadeBy, Offsets
    <2> HIDE DEF First
    <2>. QED
      BY <1>4, <2>1, FlattenEmpty
  <1>6. ASSUME NEW k \in Nat, k \in P
        PROVE  k + 1 \in P
    <2> SUFFICES ASSUME k + 1 <= Len(s) PROVE MadeBy(FlattenSeq(First(k + 1)), k + 1, s, off)
      OBVIOUS
    <2> DEFINE f == FlattenSeq(First(k))
               h == FlattenSeq(First(k + 1))
    <2>1. k \in 0 .. Len(s) /\ k + 1 \in 0 .. Len(s) /\ k + 1 \in 1 .. Len(s) /\ k <= Len(s)
      BY <1>1
    <2>2. MadeBy(f, k, s, off)
      BY <1>6, <2>1
    <2>3. First(k + 1) = Append(First(k), s[k + 1])
      <3> HIDE DEF U, First
      <3>1. First(k) \in Seq(U) /\ s[k + 1] \in U /\ Len(First(k)) = k /\ \A i \in 1 .. k : First(k)[i] = s[i]
        BY <1>1, <1>3, <2>1
      <3>2. First(k + 1) \in Seq(U) /\ Len(First(k + 1)) = k + 1 /\ \A i \in 1 .. k + 1 : First(k + 1)[i] = s[i]
        BY <1>3, <2>1
      <3> DEFINE a == Append(First(k), s[k + 1])
      <3>3. a \in Seq(U) /\ Len(a) = k + 1 /\ \A i \in 1 .. k + 1 : a[i] = s[i]
        BY <3>1
      <3> HIDE DEF a
      <3>4. First(k + 1) = a
        BY <3>2, <3>3, SameSequence
      <3>. QED
        BY <3>4 DEF a
    <2>4. h = f \o s[k + 1] /\ f \in Seq(T)
      <3>1. First(k) \in Seq(Seq(T)) /\ s[k + 1] \in Seq(T)
        <4> HIDE DEF First
        <4>. QED
          BY <1>1, <1>3, <2>1 DEF U
      <3> HIDE DEF First
      <3>. QED
        BY <2>3, <3>1, FlattenAppend, FlattenType
    <2> HIDE DEF f, h, First, P
    <2>5. /\ Len(f) = off[k + 1] /\ off[k + 1] \in Nat /\ Len(s[k + 1]) \in Nat /\ s[k + 1] \in Seq(T)
          /\ off[(k + 1) + 1] = off[k + 1] + Len(s[k + 1])
      BY <1>1, <2>1, <2>2 DEF MadeBy, Offsets, U
    <2>6. Len(h) = off[(k + 1) + 1]
      <3> DEFINE t == s[k + 1]
      <3>1. h = f \o t /\ f \in Seq(T) /\ t \in Seq(T)
        BY <2>4, <2>5
      <3> HIDE DEF t
      <3>2. Len(h) = Len(f) + Len(t)
        BY <3>1
      <3>. QED
        BY <2>5, <3>2 DEF t
    <2>7. ASSUME NEW i \in 1 .. k + 1, NEW x \in 1 .. Len(s[i])
          PROVE  off[i] + x \in 1 .. Len(h) /\ h[off[i] + x] = s[i][x]
      <3>1. CASE i = k + 1
        <4> DEFINE t == s[k + 1]
                   m == off[k + 1]
        <4>1. x \in 1 .. Len(t) /\ Len(t) \in Nat /\ t \in Seq(T) /\ h = f \o t /\ Len(f) = m /\ m \in Nat
          BY <2>4, <2>5, <3>1
        <4> HIDE DEF t, m
        <4>2. m + x \in 1 .. Len(h) /\ h[m + x] = t[x]
          BY <2>4, <4>1
        <4>. QED
          BY <3>1, <4>2 DEF t, m
      <3>2. CASE i # k + 1
        <4>1. i \in 1 .. k
          BY <3>2
        <4>2. off[i] + x \in 1 .. Len(f) /\ f[off[i] + x] = s[i][x]
          BY <2>2, <4>1 DEF MadeBy
        <4>. QED
          BY <2>4, <2>5, <4>2
      <3>. QED
        BY <3>1, <3>2
    <2>. QED
      BY <2>6, <2>7 DEF MadeBy, h
  <1> HIDE DEF First, P
  <1>7. \A k \in Nat : k \in P
    BY <1>5, <1>6, NaturalInduction
  <1>8. MadeBy(FlattenSeq(First(Len(s))), Len(s), s, off)
    BY <1>1, <1>7 DEF P
  <1>. QED
    BY <1>4, <1>8, FlattenType

\* Every place up to the end of the last element is in one of them.
LEMMA OffsetsCover ==
  ASSUME NEW T, NEW s \in Seq(Seq(T)), NEW off, Offsets(off, s), NEW p \in 1 .. off[Len(s) + 1]
  PROVE  \E i \in 1 .. Len(s) : p - off[i] \in 1 .. Len(s[i])
  <1> DEFINE L == Len(s)
             B == {k \in 1 .. L + 1 : p <= off[k]}
  <1>1. /\ L \in Nat /\ \A i \in 1 .. L : Len(s[i]) \in Nat
        /\ \A i \in 1 .. L + 1 : off[i] \in Nat
    BY OffsetsGrow
  <1>2. B \subseteq Nat /\ L + 1 \in B
    BY <1>1
  <1>3. PICK n \in B : \A m \in B : n <= m
    <2> HIDE DEF B
    <2>. QED
      BY <1>2, LeastNatural
  <1>4. n # 1
    BY <1>1, <1>3 DEF Offsets
  <1> DEFINE i == n - 1
  <1>5. i \in 1 .. L /\ i \in 1 .. L + 1 /\ i < n /\ i + 1 = n
    BY <1>1, <1>3, <1>4
  <1>6. i \notin B /\ p <= off[n]
    BY <1>1, <1>3, <1>5
  <1>7. ~(p <= off[i])
    BY <1>5, <1>6
  <1>8. off[n] = off[i] + Len(s[i]) /\ off[i] \in Nat
    BY <1>1, <1>5 DEF Offsets
  <1> HIDE DEF i, L, B
  <1>9. p - off[i] \in 1 .. Len(s[i])
    <2>1. off[n] \in Nat /\ Len(s[i]) \in Nat /\ p \in Int
      BY <1>1, <1>3, <1>5 DEF B, L
    <2>. QED
      BY <1>6, <1>7, <1>8, <2>1
  <1>. QED
    BY <1>5, <1>9 DEF L

\* A sequence that has the elements where they belong is what they make.
LEMMA SameFlatten ==
  ASSUME NEW T, NEW s \in Seq(Seq(T)), NEW off, Offsets(off, s),
         NEW f \in Seq(T), MadeBy(f, Len(s), s, off)
  PROVE  f = FlattenSeq(s)
  <1> DEFINE h == FlattenSeq(s)
  <1>1. h \in Seq(T) /\ MadeBy(h, Len(s), s, off)
    BY FlattenAt
  <1> HIDE DEF h
  <1>2. Len(f) = Len(h) /\ Len(f) = off[Len(s) + 1]
    BY <1>1 DEF MadeBy
  <1>3. ASSUME NEW p \in 1 .. Len(f)
        PROVE  f[p] = h[p]
    <2>1. PICK i \in 1 .. Len(s) : p - off[i] \in 1 .. Len(s[i])
      BY <1>2, OffsetsCover
    <2> DEFINE x == p - off[i]
    <2>2. off[i] \in Nat
      BY DEF Offsets
    <2>3. off[i] + x = p /\ x \in 1 .. Len(s[i])
      BY <2>1, <2>2
    <2>4. f[off[i] + x] = s[i][x] /\ h[off[i] + x] = s[i][x]
      BY <1>1, <2>3 DEF MadeBy
    <2>. QED
      BY <2>3, <2>4
  <1>. QED
    BY <1>1, <1>2, <1>3, SameSequence DEF h

\* An element ends before any later one begins.
LEMMA OffsetsOrdered ==
  ASSUME NEW T, NEW s \in Seq(Seq(T)), NEW off, Offsets(off, s),
         NEW i \in 1 .. Len(s), NEW j \in 1 .. Len(s) + 1, i < j
  PROVE  off[i] + Len(s[i]) <= off[j]
  <1> DEFINE Q == {k \in Nat : off[i] + Len(s[i]) <= off[i + 1 + k]}
             n == Len(s) - i
  <1>1. /\ Len(s) \in Nat /\ \A m \in 1 .. Len(s) : Len(s[m]) \in Nat
        /\ \A m \in 1 .. Len(s) + 1 : off[m] \in Nat
        /\ \A m \in 1 .. Len(s) : off[m + 1] = off[m] + Len(s[m])
    BY OffsetsGrow DEF Offsets
  <1>2. n \in Nat /\ i \in Nat /\ i + n = Len(s)
    BY <1>1
  <1>3. 0 \in Q
    <2>1. i + 1 + 0 = i + 1 /\ off[i + 1] = off[i] + Len(s[i]) /\ off[i + 1] \in Nat
      BY <1>1
    <2>. QED
      BY <2>1
  <1>4. ASSUME NEW k \in 0 .. n - 1, k \in Q
        PROVE  k + 1 \in Q
    <2> DEFINE m == i + 1 + k
    <2>1. m \in 1 .. Len(s) /\ m \in 1 .. Len(s) + 1 /\ m + 1 \in 1 .. Len(s) + 1 /\ m + 1 = i + 1 + (k + 1)
      BY <1>1, <1>2
    <2>2. off[i] + Len(s[i]) <= off[m] /\ k + 1 \in Nat
      BY <1>4
    <2> HIDE DEF m
    <2>3. off[m + 1] = off[m] + Len(s[m]) /\ Len(s[m]) \in Nat /\ off[m] \in Nat /\ off[i] \in Nat
          /\ Len(s[i]) \in Nat
      BY <1>1, <2>1
    <2>4. off[i] + Len(s[i]) <= off[m + 1]
      <3> DEFINE a == off[i]
                 b == Len(s[i])
                 c == off[m]
                 d == Len(s[m])
                 e == off[m + 1]
      <3>1. a + b <= c /\ e = c + d /\ a \in Nat /\ b \in Nat /\ c \in Nat /\ d \in Nat
        BY <2>2, <2>3 DEF m
      <3> HIDE DEF a, b, c, d, e
      <3>2. a + b <= e
        BY <3>1
      <3>. QED
        BY <3>2 DEF a, b, e
    <2>. QED
      BY <2>1, <2>2, <2>4
  <1>5. \A k \in 0 .. n : k \in Q
    <2> HIDE DEF Q, n
    <2>. QED
      BY <1>2, <1>3, <1>4, BoundedInduction
  <1>6. j - i - 1 \in 0 .. n /\ i + 1 + (j - i - 1) = j
    BY <1>1
  <1>. QED
    BY <1>5, <1>6

\* A place is in one element only.
LEMMA OffsetsApart ==
  ASSUME NEW T, NEW s \in Seq(Seq(T)), NEW off, Offsets(off, s),
         NEW i \in 1 .. Len(s), NEW j \in 1 .. Len(s), NEW x \in 1 .. Len(s[i]), NEW y \in 1 .. Len(s[j]),
         off[i] + x = off[j] + y
  PROVE  i = j
  <1>1. /\ Len(s) \in Nat /\ Len(s[i]) \in Nat /\ Len(s[j]) \in Nat
        /\ off[i] \in Nat /\ off[j] \in Nat
    BY OffsetsGrow
  <1>2. i < j => off[i] + Len(s[i]) <= off[j]
    BY <1>1, OffsetsOrdered
  <1>3. j < i => off[j] + Len(s[j]) <= off[i]
    BY <1>1, OffsetsOrdered
  <1> DEFINE a == off[i]
             b == off[j]
             c == Len(s[i])
             d == Len(s[j])
  <1>4. /\ i < j => a + c <= b
        /\ j < i => b + d <= a
        /\ a \in Nat /\ b \in Nat /\ c \in Nat /\ d \in Nat
        /\ x \in 1 .. c /\ y \in 1 .. d /\ a + x = b + y
        /\ i \in Nat /\ j \in Nat
    BY <1>1, <1>2, <1>3
  <1> HIDE DEF a, b, c, d
  <1>. QED
    BY <1>4
=============================================================================
