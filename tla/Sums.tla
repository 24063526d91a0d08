-------------------------------- MODULE Sums --------------------------------
(***************************************************************************)
(* What the sums of the models are worth: a payout window is totalled and  *)
(* reservations are added up with the fold of the community modules, whose *)
(* definition picks the elements in an unknown order.  The lemmas below    *)
(* say that a sum over a finite set takes its elements in any order, grows *)
(* with its values and with its set, and is a number.                      *)
(*                                                                         *)
(* The library's induction theorems are about a predicate, which the       *)
(* provers here cannot instantiate.  Induction is stated with a set in its *)
(* place, and rests on the least elements of a well-founded order.  That a *)
(* function defined by recursion over the numbers exists is proved by it   *)
(* too (CourseOfValues, StepByStep).                                       *)
(***************************************************************************)
EXTENDS Integers, FiniteSets, Functions, FiniteSetTheorems, WellFoundedInduction, TLAPS

-----------------------------------------------------------------------------
(* Induction.                                                              *)

\* A set with 0 and the successors of its numbers has all natural numbers.
LEMMA NatSetInduction ==
  ASSUME NEW T, 0 \in T, \A n \in Nat : n \in T => n + 1 \in T
  PROVE  Nat \subseteq T
<1>. DEFINE U == Nat \ T
            R == OpToRel(<, Nat)
<1>1. ASSUME NEW x \in Nat, NEW y \in Nat, x < y
      PROVE  <<x, y>> \in R
  BY <1>1 DEF OpToRel
<1>2. SUFFICES ASSUME U # {}
               PROVE  FALSE
  OBVIOUS
<1>3. IsWellFoundedOn(R, Nat) /\ U \subseteq Nat
  BY NatLessThanWellFounded
<1>. HIDE DEF R
<1>4. PICK x \in U : \A y \in U : ~(<<y, x>> \in R)
  BY <1>2, <1>3, WFMin, Zenon
<1>5. x # 0 /\ x - 1 \in Nat
  BY <1>4
<1>6. <<x - 1, x>> \in R
  BY <1>1, <1>4, <1>5
<1>7. x - 1 \in T
  BY <1>4, <1>5, <1>6
<1>. QED
  BY <1>4, <1>5, <1>7

\* f(n, g) says what the value at n is and looks at g only below n; g obeys f.
FromBelow(f, V) ==
  /\ f \in [Nat \X [Nat -> V] -> V]
  /\ \A n \in Nat, g, h \in [Nat -> V] :
       (\A m \in Nat : m < n => g[m] = h[m]) => f[<<n, g>>] = f[<<n, h>>]
Obeys(g, f) == \A n \in Nat : g[n] = f[<<n, g>>]

\* Recursion on smaller numbers: f says what the value at n is, given the function
\* below n.  There is a function that obeys it everywhere.
LEMMA CourseOfValues ==
  ASSUME NEW V, V # {}, NEW f, FromBelow(f, V)
  PROVE  \E g \in [Nat -> V] : Obeys(g, f)
<1>. DEFINE Upto(g, n) == \A m \in Nat : m < n => g[m] = f[<<m, g>>]
            N == {n \in Nat : \E g \in [Nat -> V] : Upto(g, n)}
            A == {n \in Nat : \A g, h \in [Nat -> V] :
                    Upto(g, n) /\ Upto(h, n) => \A m \in Nat : m < n => g[m] = h[m]}
<1>. USE DEF FromBelow
<1>0. PICK v0 \in V : TRUE
  OBVIOUS
<1>1. \A n \in Nat : \A m \in Nat : m < n + 1 <=> m < n \/ m = n
  OBVIOUS
<1>2. 0 \in N
  <2>1. [m \in Nat |-> v0] \in [Nat -> V] /\ \A m \in Nat : ~(m < 0)
    OBVIOUS
  <2>. QED
    BY <2>1
<1>3. ASSUME NEW n \in Nat, n \in N PROVE n + 1 \in N
  <2>1. PICK g \in [Nat -> V] : Upto(g, n)
    BY <1>3
  <2>. DEFINE h == [g EXCEPT ![n] = f[<<n, g>>]]
  <2>2. /\ h \in [Nat -> V] /\ h[n] = f[<<n, g>>]
        /\ \A m \in Nat : m < n => h[m] = g[m]
    OBVIOUS
  <2>. HIDE DEF h
  <2>3. ASSUME NEW m \in Nat, m < n + 1 PROVE h[m] = f[<<m, h>>]
    <3>1. \A k \in Nat : k < m => h[k] = g[k]
      BY <2>2, <2>3
    <3>2. f[<<m, h>>] = f[<<m, g>>]
      BY <2>2, <3>1, Zenon
    <3>. QED
      BY <1>1, <2>1, <2>2, <2>3, <3>2
  <2>4. Upto(h, n + 1)
    BY <2>3
  <2>. QED
    BY <2>2, <2>4
<1>4. Nat \subseteq N
  <2>. HIDE DEF N
  <2>. QED
    BY <1>2, <1>3, NatSetInduction
<1>5. 0 \in A
  OBVIOUS
<1>6. ASSUME NEW n \in Nat, n \in A PROVE n + 1 \in A
  <2>1. ASSUME NEW g \in [Nat -> V], NEW h \in [Nat -> V], Upto(g, n + 1), Upto(h, n + 1)
        PROVE  \A m \in Nat : m < n + 1 => g[m] = h[m]
    <3>1. Upto(g, n) /\ Upto(h, n)
      BY <1>1, <2>1
    <3>2. \A m \in Nat : m < n => g[m] = h[m]
      BY <1>6, <3>1
    <3>3. f[<<n, g>>] = f[<<n, h>>]
      BY <3>2
    <3>4. g[n] = h[n]
      BY <1>1, <2>1, <3>3
    <3>. QED
      BY <1>1, <3>2, <3>4
  <2>. HIDE DEF Upto
  <2>. QED
    BY <2>1
<1>7. Nat \subseteq A
  <2>. HIDE DEF A
  <2>. QED
    BY <1>5, <1>6, NatSetInduction
<1>. DEFINE G == [n \in Nat |-> CHOOSE g \in [Nat -> V] : Upto(g, n)]
            d == [n \in Nat |-> G[n + 1][n]]
<1>8. \A n \in Nat : G[n] \in [Nat -> V] /\ Upto(G[n], n)
  <2>. HIDE DEF Upto
  <2>. QED
    BY <1>4
<1>. HIDE DEF G
<1>9. d \in [Nat -> V]
  BY <1>8
<1>10. ASSUME NEW n \in Nat, NEW m \in Nat, m < n + 1 PROVE d[m] = G[n + 1][m]
  <2>1. /\ G[m + 1] \in [Nat -> V] /\ Upto(G[m + 1], m + 1)
        /\ G[n + 1] \in [Nat -> V] /\ Upto(G[n + 1], n + 1)
        /\ m + 1 \in Nat /\ m < m + 1
    <3>1. m + 1 \in Nat /\ n + 1 \in Nat /\ m < m + 1
      OBVIOUS
    <3>. HIDE DEF Upto
    <3>. QED
      BY <1>8, <3>1
  <2>2. Upto(G[n + 1], m + 1)
    <3>1. \A k \in Nat : k < m + 1 => k < n + 1
      BY <1>10
    <3>. QED
      BY <2>1, <3>1
  <2>3. m + 1 \in A
    <3>. HIDE DEF A
    <3>. QED
      BY <1>7, <2>1
  <2>4. G[m + 1][m] = G[n + 1][m]
    <3>. HIDE DEF Upto
    <3>. QED
      BY <2>1, <2>2, <2>3
  <2>. QED
    BY <2>4
<1>. HIDE DEF d
<1>11. ASSUME NEW n \in Nat PROVE d[n] = f[<<n, d>>]
  <2>1. G[n + 1] \in [Nat -> V] /\ G[n + 1][n] = f[<<n, G[n + 1]>>]
    <3>1. n + 1 \in Nat /\ n < n + 1
      OBVIOUS
    <3>. QED
      BY <1>8, <3>1
  <2>2. \A m \in Nat : m < n => d[m] = G[n + 1][m]
    BY <1>10
  <2>3. f[<<n, d>>] = f[<<n, G[n + 1]>>]
    BY <1>9, <2>1, <2>2
  <2>4. d[n] = G[n + 1][n]
    BY DEF d
  <2>. QED
    BY <2>1, <2>3, <2>4
<1>. QED
  BY <1>9, <1>11 DEF Obeys

\* A function by recursion on the number before.
Continues(g, F) == \A n \in Nat : g[n + 1] = F[<<n, g[n]>>]

\* Whatever the first value and the step are, there is one.
LEMMA StepByStep ==
  ASSUME NEW V, NEW v0 \in V, NEW F \in [Nat \X V -> V]
  PROVE  \E g \in [Nat -> V] : g[0] = v0 /\ Continues(g, F)
<1>. DEFINE f == [p \in Nat \X [Nat -> V] |->
                    IF p[1] = 0 THEN v0 ELSE F[<<p[1] - 1, p[2][p[1] - 1]>>]]
<1>0. \A n \in Nat : n # 0 => n - 1 \in Nat /\ n - 1 < n
  OBVIOUS
<1>1. /\ f \in [Nat \X [Nat -> V] -> V]
      /\ \A n \in Nat, g \in [Nat -> V] :
           f[<<n, g>>] = IF n = 0 THEN v0 ELSE F[<<n - 1, g[n - 1]>>]
  BY <1>0
<1>. HIDE DEF f
<1>2. FromBelow(f, V)
  <2>1. ASSUME NEW n \in Nat, NEW g \in [Nat -> V], NEW h \in [Nat -> V],
               \A m \in Nat : m < n => g[m] = h[m]
        PROVE  f[<<n, g>>] = f[<<n, h>>]
    <3>1. n # 0 => g[n - 1] = h[n - 1]
      BY <1>0, <2>1, Zenon
    <3>. QED
      BY <1>1, <3>1, ZenonT(60)
  <2>. QED
    BY <1>1, <2>1, Zenon DEF FromBelow
<1>3. V # {}
  OBVIOUS
<1>4. PICK g \in [Nat -> V] : \A n \in Nat : g[n] = f[<<n, g>>]
  <2>1. \E g \in [Nat -> V] : Obeys(g, f)
    BY <1>2, <1>3, CourseOfValues, Zenon
  <2>. QED
    BY <2>1, Zenon DEF Obeys
<1>5. 0 \in Nat /\ \A n \in Nat : n + 1 \in Nat /\ n + 1 # 0 /\ (n + 1) - 1 = n
  OBVIOUS
<1>6. \A n \in Nat : g[n] = IF n = 0 THEN v0 ELSE F[<<n - 1, g[n - 1]>>]
  BY <1>1, <1>4, Zenon
<1>7. g[0] = v0
  BY <1>5, <1>6, Zenon
<1>8. ASSUME NEW n \in Nat PROVE g[n + 1] = F[<<n, g[n]>>]
  <2>1. g[n + 1] = F[<<(n + 1) - 1, g[(n + 1) - 1]>>]
    BY <1>5, <1>6, Zenon
  <2>. QED
    BY <1>5, <2>1, Zenon
<1>. QED
  BY <1>7, <1>8, Zenon DEF Continues

\* What holds of a subset if it holds of it without any one of its elements holds
\* of every subset of a finite set.
LEMMA SubsetInduction ==
  ASSUME NEW S, IsFiniteSet(S), NEW Q,
         \A T \in SUBSET S : (\A x \in T : T \ {x} \in Q) => T \in Q
  PROVE  \A T \in SUBSET S : T \in Q
<1>. DEFINE N == {n \in Nat : \A T \in SUBSET S : Cardinality(T) = n => T \in Q}
<1>1. \A T \in SUBSET S : IsFiniteSet(T) /\ Cardinality(T) \in Nat
  BY FS_Subset, FS_CardinalityType
<1>2. 0 \in N
  <2>1. ASSUME NEW T \in SUBSET S, Cardinality(T) = 0
        PROVE  T \in Q
    <3>1. T = {}
      BY <1>1, <2>1, FS_EmptySet
    <3>. QED
      BY <3>1
  <2>. QED
    BY <2>1
<1>3. ASSUME NEW n \in Nat, n \in N
      PROVE  n + 1 \in N
  <2>1. ASSUME NEW T \in SUBSET S, Cardinality(T) = n + 1, NEW x \in T
        PROVE  T \ {x} \in Q
    <3>1. Cardinality(T \ {x}) = n
      BY <1>1, <2>1, FS_RemoveElement
    <3>. QED
      BY <1>3, <2>1, <3>1
  <2>. QED
    BY <2>1
<1>4. Nat \subseteq N
  BY <1>2, <1>3, NatSetInduction
<1>. QED
  BY <1>1, <1>4

-----------------------------------------------------------------------------
(* The fold.                                                               *)

\* The sum of f over S, and the element the fold takes next.
Sum(f, S) == FoldFunctionOnSet(LAMBDA x, y : x + y, 0, f, S)
Pick(s) == CHOOSE x \in s : TRUE

\* g computes the fold on every set of D, a set that contains what it recurs on.
Iterates(g, f, D) ==
  g = [s \in D |-> IF s = {} THEN 0 ELSE f[Pick(s)] + g[s \ {Pick(s)}]]

\* g computes the fold on every subset of S.
Computes(g, f, S) == Iterates(g, f, SUBSET S)

\* There is such a function, although the fold is defined by choosing one.
LEMMA IterExists ==
  ASSUME NEW f, NEW S, IsFiniteSet(S)
  PROVE  \E g : Computes(g, f, S)
<1>. DEFINE D(n) == {s \in SUBSET S : Cardinality(s) <= n}
            N == {n \in Nat : \E g : Iterates(g, f, D(n))}
<1>1. \A s \in SUBSET S : IsFiniteSet(s) /\ Cardinality(s) \in Nat
  BY FS_Subset, FS_CardinalityType
<1>2. 0 \in N
  <2>1. \A s \in D(0) : s = {}
    BY <1>1, FS_EmptySet
  <2>2. Iterates([s \in D(0) |-> 0], f, D(0))
    BY <2>1 DEF Iterates
  <2>. QED
    BY <2>2
<1>3. ASSUME NEW n \in Nat, n \in N
      PROVE  n + 1 \in N
  <2>1. PICK g : Iterates(g, f, D(n))
    BY <1>3
  <2>. DEFINE h == [s \in D(n + 1) |-> IF s = {} THEN 0 ELSE f[Pick(s)] + g[s \ {Pick(s)}]]
  <2>2. \A s \in D(n) : s \in D(n + 1) /\ h[s] = g[s]
    <3>1. \A s \in D(n) : s \in D(n + 1)
      BY <1>1
    <3>2. \A s \in D(n) : g[s] = IF s = {} THEN 0 ELSE f[Pick(s)] + g[s \ {Pick(s)}]
      BY <2>1 DEF Iterates
    <3>. QED
      BY <3>1, <3>2
  <2>3. ASSUME NEW s \in D(n + 1), s # {}
        PROVE  s \ {Pick(s)} \in D(n)
    <3>1. Pick(s) \in s
      BY <2>3 DEF Pick
    <3>2. Cardinality(s \ {Pick(s)}) = Cardinality(s) - 1
      BY <1>1, <2>3, <3>1, FS_RemoveElement
    <3>. QED
      BY <1>1, <2>3, <3>2
  <2>4. \A s \in D(n + 1) : s # {} => h[s \ {Pick(s)}] = g[s \ {Pick(s)}]
    BY <2>2, <2>3
  <2>5. h = [s \in D(n + 1) |-> IF s = {} THEN 0 ELSE f[Pick(s)] + h[s \ {Pick(s)}]]
    BY <2>4
  <2>6. Iterates(h, f, D(n + 1))
    BY <2>5 DEF Iterates
  <2>. HIDE DEF h, D
  <2>7. \E k : Iterates(k, f, D(n + 1))
    BY <2>6
  <2>. QED
    BY <2>7
<1>4. Nat \subseteq N
  BY <1>2, <1>3, NatSetInduction
<1>5. Cardinality(S) \in N
  BY <1>1, <1>4
<1>6. D(Cardinality(S)) = SUBSET S
  BY FS_Subset
<1>. QED
  BY <1>5, <1>6 DEF Computes

\* It is the one the fold has chosen.
LEMMA SumIter ==
  ASSUME NEW f, NEW S, IsFiniteSet(S)
  PROVE  \E g : Computes(g, f, S) /\ Sum(f, S) = g[S]
<1>. DEFINE it == CHOOSE g : g = [s \in SUBSET S |->
                IF s = {} THEN 0
                ELSE f[CHOOSE x \in s : TRUE] + g[s \ {CHOOSE x \in s : TRUE}]]
<1>1. Sum(f, S) = it[S]
  BY DEF Sum, FoldFunctionOnSet, MapThenFoldSet
<1>2. PICK g : g = [s \in SUBSET S |->
                IF s = {} THEN 0
                ELSE f[CHOOSE x \in s : TRUE] + g[s \ {CHOOSE x \in s : TRUE}]]
  <2>1. PICK g : Computes(g, f, S)
    BY IterExists
  <2>2. g = [s \in SUBSET S |->
                IF s = {} THEN 0
                ELSE f[CHOOSE x \in s : TRUE] + g[s \ {CHOOSE x \in s : TRUE}]]
    BY <2>1 DEF Computes, Iterates, Pick
  <2>. QED
    BY <2>2, Zenon
<1>3. it = [s \in SUBSET S |->
                IF s = {} THEN 0
                ELSE f[CHOOSE x \in s : TRUE] + it[s \ {CHOOSE x \in s : TRUE}]]
  BY <1>2, Zenon
<1>. HIDE DEF it
<1>4. Computes(it, f, S)
  BY <1>3 DEF Computes, Iterates, Pick
<1>. QED
  BY <1>1, <1>4

\* Two such functions agree wherever both are computed.
LEMMA IterUnique ==
  ASSUME NEW f, NEW S, IsFiniteSet(S), NEW T \in SUBSET S,
         NEW g, Computes(g, f, S), NEW h, Computes(h, f, T)
  PROVE  g[T] = h[T]
<1>. DEFINE Q == {U \in SUBSET T : g[U] = h[U]}
<1>1. ASSUME NEW U \in SUBSET T, \A x \in U : U \ {x} \in Q
      PROVE  U \in Q
  <2>1. /\ g[U] = IF U = {} THEN 0 ELSE f[Pick(U)] + g[U \ {Pick(U)}]
        /\ h[U] = IF U = {} THEN 0 ELSE f[Pick(U)] + h[U \ {Pick(U)}]
    BY DEF Computes, Iterates
  <2>2. U # {} => Pick(U) \in U
    BY DEF Pick
  <2>3. U # {} => g[U \ {Pick(U)}] = h[U \ {Pick(U)}]
    BY <1>1, <2>2
  <2>. QED
    BY <2>1, <2>3
<1>2. IsFiniteSet(T)
  BY FS_Subset
<1>. HIDE DEF Q
<1>3. \A U \in SUBSET T : U \in Q
  BY <1>1, <1>2, SubsetInduction
<1>. QED
  BY <1>3 DEF Q

\* A fold over a set computes the fold over each of its subsets.
LEMMA SumAgrees ==
  ASSUME NEW f, NEW S, IsFiniteSet(S), NEW T \in SUBSET S,
         NEW g, Computes(g, f, S)
  PROVE  Sum(f, T) = g[T]
<1>1. IsFiniteSet(T)
  BY FS_Subset
<1>2. PICK h : Computes(h, f, T) /\ Sum(f, T) = h[T]
  BY <1>1, SumIter
<1>3. g[T] = h[T]
  BY <1>2, IterUnique
<1>. QED
  BY <1>2, <1>3

-----------------------------------------------------------------------------
(* Sums.                                                                   *)

\* A sum takes some element first.
LEMMA SumPick ==
  ASSUME NEW f, NEW S, IsFiniteSet(S)
  PROVE  /\ S = {} => Sum(f, S) = 0
         /\ S # {} => Pick(S) \in S /\ Sum(f, S) = f[Pick(S)] + Sum(f, S \ {Pick(S)})
<1>1. PICK g : Computes(g, f, S) /\ Sum(f, S) = g[S]
  BY SumIter
<1>2. g[S] = IF S = {} THEN 0 ELSE f[Pick(S)] + g[S \ {Pick(S)}]
  BY <1>1 DEF Computes, Iterates
<1>3. \A T \in SUBSET S : Sum(f, T) = g[T]
  BY <1>1, SumAgrees
<1>4. S # {} => Pick(S) \in S
  BY DEF Pick
<1>. QED
  BY <1>1, <1>2, <1>3, <1>4

\* Integers have an integer sum.
LEMMA SumType ==
  ASSUME NEW f, NEW S, IsFiniteSet(S), \A x \in S : f[x] \in Int
  PROVE  \A T \in SUBSET S : Sum(f, T) \in Int
<1>. DEFINE Q == {T \in SUBSET S : Sum(f, T) \in Int}
<1>1. ASSUME NEW T \in SUBSET S, \A x \in T : T \ {x} \in Q
      PROVE  T \in Q
  <2>1. IsFiniteSet(T)
    BY FS_Subset
  <2>2. CASE T = {}
    <3>1. Sum(f, T) = 0
      BY <2>1, <2>2, SumPick
    <3>. QED
      BY <3>1
  <2>3. CASE T # {}
    <3>1. Pick(T) \in T /\ Sum(f, T) = f[Pick(T)] + Sum(f, T \ {Pick(T)})
      BY <2>1, <2>3, SumPick
    <3>2. f[Pick(T)] \in Int /\ Sum(f, T \ {Pick(T)}) \in Int
      BY <1>1, <3>1
    <3>. QED
      BY <3>1, <3>2
  <2>. QED
    BY <2>2, <2>3
<1>. HIDE DEF Q
<1>2. \A T \in SUBSET S : T \in Q
  BY <1>1, SubsetInduction
<1>. QED
  BY <1>2 DEF Q

\* Every element may go first: the order of a sum does not matter.
LEMMA SumRemove ==
  ASSUME NEW f, NEW S, IsFiniteSet(S), \A x \in S : f[x] \in Int
  PROVE  \A T \in SUBSET S : \A x \in T : Sum(f, T) = f[x] + Sum(f, T \ {x})
<1>. DEFINE Q == {T \in SUBSET S : \A x \in T : Sum(f, T) = f[x] + Sum(f, T \ {x})}
<1>1. ASSUME NEW T \in SUBSET S, \A x \in T : T \ {x} \in Q
      PROVE  T \in Q
  <2>. SUFFICES ASSUME NEW x \in T
                PROVE  Sum(f, T) = f[x] + Sum(f, T \ {x})
    OBVIOUS
  <2>. DEFINE y == Pick(T)
  <2>1. IsFiniteSet(T)
    BY FS_Subset
  <2>2. y \in T /\ Sum(f, T) = f[y] + Sum(f, T \ {y})
    BY <2>1, SumPick
  <2>. HIDE DEF y
  <2>3. CASE x = y
    BY <2>2, <2>3
  <2>4. CASE x # y
    <3>1. Sum(f, T \ {y}) = f[x] + Sum(f, (T \ {y}) \ {x})
      BY <1>1, <2>2, <2>4
    <3>2. Sum(f, T \ {x}) = f[y] + Sum(f, (T \ {x}) \ {y})
      BY <1>1, <2>2, <2>4
    <3>3. (T \ {y}) \ {x} = (T \ {x}) \ {y}
      OBVIOUS
    <3>4. Sum(f, (T \ {y}) \ {x}) = Sum(f, (T \ {x}) \ {y})
      BY <3>3
    <3>5. Sum(f, (T \ {x}) \ {y}) \in Int /\ f[x] \in Int /\ f[y] \in Int
      BY <2>2, SumType
    <3>. QED
      BY <2>2, <3>1, <3>2, <3>4, <3>5
  <2>. QED
    BY <2>3, <2>4
<1>. HIDE DEF Q
<1>2. \A T \in SUBSET S : T \in Q
  BY <1>1, SubsetInduction
<1>. QED
  BY <1>2 DEF Q

\* Another element joins a sum.
LEMMA SumInsert ==
  ASSUME NEW f, NEW S, IsFiniteSet(S), NEW x, x \notin S,
         \A y \in S \cup {x} : f[y] \in Int
  PROVE  Sum(f, S \cup {x}) = f[x] + Sum(f, S)
<1>. DEFINE T == S \cup {x}
<1>1. IsFiniteSet(T)
  BY FS_AddElement
<1>2. x \in T /\ T \ {x} = S /\ T \in SUBSET T /\ \A y \in T : f[y] \in Int
  OBVIOUS
<1>. HIDE DEF T
<1>3. \A U \in SUBSET T : \A y \in U : Sum(f, U) = f[y] + Sum(f, U \ {y})
  BY <1>1, <1>2, SumRemove
<1>4. Sum(f, T) = f[x] + Sum(f, T \ {x})
  BY <1>2, <1>3
<1>. QED
  BY <1>2, <1>4 DEF T

\* Larger values have the larger sum.
LEMMA SumMonotone ==
  ASSUME NEW f, NEW g, NEW S, IsFiniteSet(S),
         \A x \in S : f[x] \in Int /\ g[x] \in Int /\ f[x] <= g[x]
  PROVE  /\ Sum(f, S) \in Int /\ Sum(g, S) \in Int
         /\ Sum(f, S) <= Sum(g, S)
<1>. DEFINE Q == {T \in SUBSET S : Sum(f, T) <= Sum(g, T)}
<1>0. \A T \in SUBSET S : Sum(f, T) \in Int /\ Sum(g, T) \in Int /\ IsFiniteSet(T)
  BY SumType, FS_Subset
<1>1. ASSUME NEW T \in SUBSET S, \A x \in T : T \ {x} \in Q
      PROVE  T \in Q
  <2>1. CASE T = {}
    <3>1. Sum(f, T) = 0 /\ Sum(g, T) = 0
      BY <1>0, <2>1, SumPick
    <3>. QED
      BY <3>1
  <2>2. CASE T # {}
    <3>. DEFINE x == Pick(T)
    <3>1. /\ x \in T /\ Sum(f, T) = f[x] + Sum(f, T \ {x})
          /\ Sum(g, T) = g[x] + Sum(g, T \ {x})
      BY <1>0, <2>2, SumPick
    <3>. HIDE DEF x
    <3>2. /\ Sum(f, T \ {x}) <= Sum(g, T \ {x})
          /\ Sum(f, T \ {x}) \in Int /\ Sum(g, T \ {x}) \in Int
      BY <1>0, <1>1, <3>1
    <3>3. f[x] \in Int /\ g[x] \in Int /\ f[x] <= g[x]
      BY <3>1
    <3>4. Sum(f, T) <= Sum(g, T)
      BY <3>1, <3>2, <3>3
    <3>. QED
      BY <3>4
  <2>. QED
    BY <2>1, <2>2
<1>. HIDE DEF Q
<1>2. \A T \in SUBSET S : T \in Q
  BY <1>1, SubsetInduction
<1>3. S \in Q
  BY <1>2
<1>. QED
  BY <1>0, <1>3 DEF Q

\* Functions that agree on a set have the same sum over it.
LEMMA SumEqual ==
  ASSUME NEW f, NEW g, NEW S, IsFiniteSet(S),
         \A x \in S : f[x] \in Int /\ g[x] = f[x]
  PROVE  Sum(g, S) = Sum(f, S)
<1>1. /\ Sum(f, S) \in Int /\ Sum(g, S) \in Int
      /\ Sum(f, S) <= Sum(g, S)
  BY SumMonotone
<1>2. Sum(g, S) <= Sum(f, S)
  BY SumMonotone
<1>. QED
  BY <1>1, <1>2

\* A sum of natural numbers is one, and no less than what a part of them sums to.
LEMMA SumSubset ==
  ASSUME NEW f, NEW S, IsFiniteSet(S), \A x \in S : f[x] \in Nat,
         NEW T \in SUBSET S
  PROVE  Sum(f, T) \in Nat /\ Sum(f, S) \in Nat /\ Sum(f, T) <= Sum(f, S)
<1>. DEFINE Q == {U \in SUBSET S : /\ Sum(f, U) \in Nat /\ Sum(f, U \cap T) \in Nat
                                   /\ Sum(f, U \cap T) <= Sum(f, U)}
<1>0. \A x \in S : f[x] \in Int
  OBVIOUS
<1>1. ASSUME NEW U \in SUBSET S, \A x \in U : U \ {x} \in Q
      PROVE  U \in Q
  <2>0. IsFiniteSet(U) /\ IsFiniteSet(U \cap T)
    BY FS_Subset
  <2>1. CASE U = {}
    <3>1. U \cap T = {}
      BY <2>1
    <3>2. Sum(f, U) = 0 /\ Sum(f, U \cap T) = 0
      BY <2>0, <2>1, <3>1, SumPick
    <3>. QED
      BY <3>2
  <2>2. CASE U # {}
    <3>1. PICK x : x \in U
      BY <2>2
    <3>. DEFINE W == U \ {x}
    <3>2. /\ Sum(f, W) \in Nat /\ Sum(f, W \cap T) \in Nat
          /\ Sum(f, W \cap T) <= Sum(f, W)
      BY <1>1, <3>1
    <3>3. Sum(f, U) = f[x] + Sum(f, W) /\ f[x] \in Nat
      BY <1>0, <3>1, SumRemove
    <3>4. CASE x \in T
      <4>1. Sum(f, U \cap T) = f[x] + Sum(f, (U \cap T) \ {x})
        BY <1>0, <3>1, <3>4, SumRemove
      <4>2. (U \cap T) \ {x} = W \cap T
        OBVIOUS
      <4>. HIDE DEF W
      <4>3. Sum(f, U \cap T) = f[x] + Sum(f, W \cap T)
        BY <4>1, <4>2
      <4>. QED
        BY <3>2, <3>3, <4>3
    <3>5. CASE x \notin T
      <4>1. U \cap T = W \cap T
        BY <3>5
      <4>. HIDE DEF W
      <4>2. Sum(f, U \cap T) = Sum(f, W \cap T)
        BY <4>1
      <4>. QED
        BY <3>2, <3>3, <4>2
    <3>. QED
      BY <3>4, <3>5
  <2>. QED
    BY <2>1, <2>2
<1>. HIDE DEF Q
<1>2. \A U \in SUBSET S : U \in Q
  BY <1>1, SubsetInduction
<1>3. S \in Q /\ S \cap T = T
  BY <1>2
<1>4. Sum(f, S \cap T) = Sum(f, T)
  BY <1>3
<1>. QED
  BY <1>3, <1>4 DEF Q

\* Nothing adds up to nothing.
LEMMA SumZero ==
  ASSUME NEW f, NEW S, IsFiniteSet(S), \A x \in S : f[x] = 0
  PROVE  Sum(f, S) = 0
<1>. DEFINE Q == {T \in SUBSET S : Sum(f, T) = 0}
<1>1. ASSUME NEW T \in SUBSET S, \A x \in T : T \ {x} \in Q
      PROVE  T \in Q
  <2>1. IsFiniteSet(T)
    BY FS_Subset
  <2>2. T # {} => /\ Pick(T) \in T /\ f[Pick(T)] = 0
                  /\ Sum(f, T) = f[Pick(T)] + Sum(f, T \ {Pick(T)})
    BY <2>1, SumPick
  <2>3. T # {} => Sum(f, T) = 0
    BY <1>1, <2>2
  <2>4. T = {} => Sum(f, T) = 0
    BY <2>1, SumPick
  <2>. QED
    BY <2>3, <2>4
<1>. HIDE DEF Q
<1>2. \A T \in SUBSET S : T \in Q
  BY <1>1, SubsetInduction
<1>3. S \in Q
  BY <1>2
<1>. QED
  BY <1>3 DEF Q

\* One value more: the sum is that much more.
LEMMA SumChange ==
  ASSUME NEW f, NEW g, NEW S, IsFiniteSet(S), NEW x \in S,
         \A y \in S : f[y] \in Int /\ g[y] \in Int,
         \A y \in S \ {x} : g[y] = f[y]
  PROVE  Sum(g, S) = Sum(f, S) + (g[x] - f[x])
<1>. DEFINE T == S \ {x}
<1>1. Sum(f, S) = f[x] + Sum(f, T) /\ Sum(g, S) = g[x] + Sum(g, T)
  BY SumRemove
<1>2. IsFiniteSet(T) /\ \A y \in T : f[y] \in Int /\ g[y] = f[y]
  BY FS_Subset
<1>. HIDE DEF T
<1>3. Sum(g, T) = Sum(f, T)
  BY <1>2, SumEqual
<1>4. Sum(f, T) \in Int
  BY <1>2, SumMonotone
<1>. QED
  BY <1>1, <1>3, <1>4
=============================================================================
