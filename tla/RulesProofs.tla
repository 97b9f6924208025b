---------------------------- MODULE RulesProofs ----------------------------
(***************************************************************************)
(* What the pure rules guarantee for every input of their types, and not   *)
(* only for the inputs that MCRules lists.                                  *)
(***************************************************************************)
EXTENDS MCRules, FiniteSetTheorems, SequenceTheorems, TLAPS

-----------------------------------------------------------------------------
(* Sums over finite sets.  A weight is a function W, and Total(S, W) is the *)
(* sum of the weights of S as SumOver computes it.                          *)

Total(S, W) == SumOver(S, LAMBDA x : W[x])

(* The recursion that FoldSet unfolds: one chosen element after the other.  *)
Folds(f, S, W) ==
  f = [s \in SUBSET S |-> IF s = {} THEN 0
                          ELSE f[s \ {CHOOSE y \in s : TRUE}] + W[CHOOSE y \in s : TRUE]]

(* What it comes to: the order in which elements are taken is all the same. *)
Sums(f, S, W) ==
  /\ f \in [SUBSET S -> Int] /\ f[{}] = 0
  /\ \A T \in SUBSET S : \A y \in T : f[T] = f[T \ {y}] + W[y]

\* What holds of zero and with a number of the next holds of all of them.
LEMMA Steps ==
  ASSUME NEW D, 0 \in D, \A n \in Nat : n \in D => n + 1 \in D
  PROVE  \A n \in Nat : n \in D
<1> DEFINE Bad == {n \in Nat : n \notin D}
<1>1. SUFFICES ASSUME Bad # {} PROVE FALSE
  OBVIOUS
<1>2. PICK m \in Bad : \A n \in Bad : <<n, m>> \notin OpToRel(<, Nat)
  <2> HIDE DEF Bad
  <2>1. Bad \subseteq Nat
    BY DEF Bad
  <2>2. IsWellFoundedOn(OpToRel(<, Nat), Nat)
    BY NatLessThanWellFounded
  <2> QED BY <1>1, <2>1, <2>2, WFMin
<1>3. \A n \in Bad : ~(n < m)
  BY <1>2 DEF OpToRel
<1>4. m \in Nat /\ m \notin D
  OBVIOUS
<1>5. m - 1 \in Nat /\ (m - 1) + 1 = m /\ m - 1 < m
  BY <1>4
<1>6. m - 1 \in D
  BY <1>3, <1>5
<1> QED BY <1>4, <1>5, <1>6

\* What holds of the empty set, and of a set when it holds of the set without
\* any one of its elements, holds of every finite set.
LEMMA GrowAll ==
  ASSUME NEW S, IsFiniteSet(S), NEW F, {} \in F,
         \A T \in SUBSET S : (\A x \in T : T \ {x} \in F) => T \in F
  PROVE  \A T \in SUBSET S : T \in F
<1> DEFINE Bad == {T \in SUBSET S : T \notin F}
<1>1. \A T \in SUBSET S : IsFiniteSet(T)
  BY FS_Subset
<1>2. Bad \subseteq FiniteSubsetsOf(S)
  BY <1>1 DEF FiniteSubsetsOf
<1>3. SUFFICES ASSUME Bad # {} PROVE FALSE
  OBVIOUS
<1>4. PICK T \in Bad : \A U \in Bad : <<U, T>> \notin StrictSubsetOrdering(S)
  <2> HIDE DEF Bad
  <2>1. IsWellFoundedOn(StrictSubsetOrdering(S), FiniteSubsetsOf(S))
    BY FS_StrictSubsetOrderingWellFounded
  <2> QED BY <1>2, <1>3, <2>1, WFMin
<1>5. PICK x \in T : T \ {x} \in Bad
  BY <1>4
<1>6. <<T \ {x}, T>> \in StrictSubsetOrdering(S)
  BY <1>4, <1>5 DEF StrictSubsetOrdering
<1> QED BY <1>4, <1>5, <1>6

\* The recursion has a solution on the sets of at most n elements, for every n,
\* and with it one on all subsets of a finite set.
LEMMA FoldsExist ==
  ASSUME NEW S, IsFiniteSet(S), NEW W \in [S -> Int]
  PROVE  \E f \in [SUBSET S -> Int] : Folds(f, S, W)
<1> DEFINE Upto(n) == {s \in SUBSET S : Cardinality(s) <= n}
           Rest(s) == s \ {CHOOSE y \in s : TRUE}
           Sum(f, s) == IF s = {} THEN 0 ELSE f[Rest(s)] + W[CHOOSE y \in s : TRUE]
           Good == {n \in Nat : \E f \in [Upto(n) -> Int] : \A s \in Upto(n) : f[s] = Sum(f, s)}
<1>1. \A s \in SUBSET S : IsFiniteSet(s) /\ Cardinality(s) \in Nat
  BY FS_Subset, FS_CardinalityType
<1>2. \A s \in SUBSET S : s # {} => /\ (CHOOSE y \in s : TRUE) \in s
                                    /\ W[CHOOSE y \in s : TRUE] \in Int
                                    /\ Rest(s) \in SUBSET S /\ Cardinality(Rest(s)) = Cardinality(s) - 1
  <2>1. SUFFICES ASSUME NEW s \in SUBSET S, s # {}
                 PROVE  /\ (CHOOSE y \in s : TRUE) \in s
                        /\ W[CHOOSE y \in s : TRUE] \in Int
                        /\ Rest(s) \in SUBSET S /\ Cardinality(Rest(s)) = Cardinality(s) - 1
    OBVIOUS
  <2>2. PICK y \in s : y = CHOOSE z \in s : TRUE
    BY <2>1
  <2>3. Cardinality(s \ {y}) = Cardinality(s) - 1
    BY <1>1, <2>2, FS_RemoveElement
  <2> QED BY <2>2, <2>3
<1>3. \A s \in SUBSET S : Cardinality(s) = 0 <=> s = {}
  BY <1>1, FS_EmptySet
<1> HIDE DEF Rest
<1>4. 0 \in Good
  <2> DEFINE f == [s \in Upto(0) |-> 0]
  <2>1. \A s \in Upto(0) : s = {}
    BY <1>1, <1>3
  <2>2. f \in [Upto(0) -> Int] /\ \A s \in Upto(0) : f[s] = Sum(f, s)
    BY <2>1
  <2> QED BY <2>2
<1>5. ASSUME NEW n \in Nat, n \in Good PROVE n + 1 \in Good
  <2>0. n + 1 \in Nat
    OBVIOUS
  <2>1. PICK f \in [Upto(n) -> Int] : \A s \in Upto(n) : f[s] = Sum(f, s)
    BY <1>5
  <2> DEFINE g == [s \in Upto(n + 1) |-> Sum(f, s)]
  <2>2. \A s \in Upto(n + 1) : s # {} => Rest(s) \in Upto(n)
    BY <1>1, <1>2
  <2>3. \A s \in Upto(n) : s \in Upto(n + 1) /\ g[s] = f[s]
    BY <1>1, <2>1
  <2>4. \A s \in Upto(n + 1) : Sum(f, s) \in Int
    BY <1>2, <2>1, <2>2
  <2>5. \A s \in Upto(n + 1) : g[s] = Sum(g, s)
    <3>1. \A s \in Upto(n + 1) : g[s] = Sum(f, s)
      OBVIOUS
    <3>2. \A s \in Upto(n + 1) : s # {} => g[Rest(s)] = f[Rest(s)]
      BY <2>2, <2>3
    <3> HIDE DEF g
    <3> QED BY <3>1, <3>2
  <2>6. g \in [Upto(n + 1) -> Int]
    BY <2>4
  <2> HIDE DEF g, Upto, Sum
  <2>7. \E h \in [Upto(n + 1) -> Int] : \A s \in Upto(n + 1) : h[s] = Sum(h, s)
    BY <2>5, <2>6
  <2> QED BY <2>0, <2>7
<1>6. Cardinality(S) \in Good
  <2>1. \A n \in Nat : n \in Good
    BY <1>4, <1>5, Steps
  <2> QED BY <1>1, <2>1
<1>7. Upto(Cardinality(S)) = SUBSET S
  BY FS_Subset
<1>8. PICK f \in [SUBSET S -> Int] : \A s \in SUBSET S : f[s] = Sum(f, s)
  BY <1>6, <1>7
<1>9. Folds(f, S, W)
  BY <1>8 DEF Folds, Rest
<1> QED BY <1>9

\* Whatever solves the recursion does not depend on which element is taken out.
LEMMA FoldsCommute ==
  ASSUME NEW S, IsFiniteSet(S), NEW W \in [S -> Int],
         NEW f \in [SUBSET S -> Int], Folds(f, S, W)
  PROVE  Sums(f, S, W)
<1> DEFINE x(s) == CHOOSE y \in s : TRUE
           Good == {T \in SUBSET S : \A y \in T : f[T] = f[T \ {y}] + W[y]}
<1>1. f[{}] = 0
  BY DEF Folds
<1>2. \A T \in SUBSET S : T # {} => x(T) \in T /\ f[T] = f[T \ {x(T)}] + W[x(T)]
  BY DEF Folds
<1> HIDE DEF x
<1>3. ASSUME NEW T \in SUBSET S, \A z \in T : T \ {z} \in Good PROVE T \in Good
  <2>1. SUFFICES ASSUME NEW y \in T, y # x(T) PROVE f[T] = f[T \ {y}] + W[y]
    BY <1>2
  <2> DEFINE z == x(T)
  <2>2. z \in T /\ f[T] = f[T \ {z}] + W[z]
    BY <1>2
  <2>3. f[T \ {z}] = f[(T \ {z}) \ {y}] + W[y]
    BY <1>3, <2>1, <2>2
  <2>4. f[T \ {y}] = f[(T \ {y}) \ {z}] + W[z]
    BY <1>3, <2>1, <2>2
  <2>5. (T \ {z}) \ {y} = (T \ {y}) \ {z}
    OBVIOUS
  <2>6. f[(T \ {y}) \ {z}] \in Int /\ W[y] \in Int /\ W[z] \in Int
    BY <2>2
  <2>7. f[T \ {z}] = f[(T \ {y}) \ {z}] + W[y]
    BY <2>3, <2>5
  <2>8. f[T] \in Int /\ f[T \ {y}] \in Int /\ f[T \ {z}] \in Int
    OBVIOUS
  <2> HIDE DEF z
  <2>9. \A a, b, e, p, q, r \in Int : q = e + p /\ e = a + b /\ r = a + p => q = r + b
    OBVIOUS
  <2> QED BY <2>2, <2>4, <2>6, <2>7, <2>8, <2>9
<1>4. \A T \in SUBSET S : T \in Good
  <2> DEFINE Below == {T \in SUBSET S : \A U \in SUBSET T : U \in Good}
  <2>1. {} \in Below
    <3>1. {} \in Good
      BY <1>3
    <3> QED BY <3>1
  <2>2. ASSUME NEW T \in SUBSET S, \A z \in T : T \ {z} \in Below PROVE T \in Below
    <3>1. ASSUME NEW U \in SUBSET T, U # T PROVE U \in Good
      <4>1. PICK z \in T : U \subseteq T \ {z}
        BY <3>1
      <4> QED BY <2>2, <4>1
    <3>2. T \in Good
      BY <1>3, <2>2
    <3> QED BY <3>1, <3>2
  <2>3. \A T \in SUBSET S : T \in Below
    <3> HIDE DEF Below
    <3> QED BY <2>1, <2>2, GrowAll
  <2> QED BY <2>3
<1> QED BY <1>1, <1>4 DEF Sums

\* The sum is the solution's value, for every subset.
LEMMA TotalIsSum ==
  ASSUME NEW S, IsFiniteSet(S), NEW W \in [S -> Int]
  PROVE  \E f : Sums(f, S, W) /\ \A T \in SUBSET S : Total(T, W) = f[T]
<1>1. PICK f \in [SUBSET S -> Int] : Folds(f, S, W)
  BY FoldsExist
<1>2. Sums(f, S, W)
  BY <1>1, FoldsCommute
<1>3. ASSUME NEW T \in SUBSET S PROVE Total(T, W) = f[T]
  <2> DEFINE g == [U \in SUBSET T |-> f[U]]
             P(h) == h = [s \in SUBSET T |-> IF s = {} THEN 0
                                             ELSE LET x == CHOOSE y \in s : TRUE
                                                  IN  h[s \ {x}] + W[x]]
             c == CHOOSE h : P(h)
  <2>1. Total(T, W) = (CHOOSE h : P(h))[T]
    BY DEF Total, SumOver, FoldSet, MapThenFoldSet
  <2>2. P(g)
    BY <1>1 DEF Folds
  <2>3. P(c)
    <3> HIDE DEF P, g
    <3> QED BY <2>2
  <2>4. /\ c[{}] = 0
        /\ \A s \in SUBSET T : s # {} => c[s] = c[s \ {CHOOSE y \in s : TRUE}] + W[CHOOSE y \in s : TRUE]
    <3> HIDE DEF c
    <3> QED BY <2>3
  <2>5. /\ f[{}] = 0
        /\ \A s \in SUBSET T : s # {} => f[s] = f[s \ {CHOOSE y \in s : TRUE}] + W[CHOOSE y \in s : TRUE]
    BY <1>1 DEF Folds
  <2> HIDE DEF c, P
  <2> DEFINE Same == {U \in SUBSET T : c[U] = f[U]}
  <2>6. \A U \in SUBSET T : (\A z \in U : U \ {z} \in Same) => U \in Same
    <3>1. SUFFICES ASSUME NEW U \in SUBSET T, \A z \in U : c[U \ {z}] = f[U \ {z}], U # {}
                   PROVE  c[U] = f[U]
      BY <2>4, <2>5
    <3>2. PICK y \in U : y = CHOOSE z \in U : TRUE
      BY <3>1
    <3> QED BY <2>4, <2>5, <3>1, <3>2
  <2>7. T \in Same
    <3>1. {} \in Same
      BY <2>4, <2>5
    <3>2. IsFiniteSet(T)
      BY FS_Subset
    <3> HIDE DEF Same
    <3> QED BY <2>6, <3>1, <3>2, GrowAll
  <2> QED BY <2>1, <2>7 DEF c
<1> QED BY <1>2, <1>3

\* How SumOver and Total choose their recursion.
LEMMA TotalIsFold ==
  ASSUME NEW S, NEW W
  PROVE  Total(S, W) = (CHOOSE f : Folds(f, S, W))[S]
<1> DEFINE P(h) == h = [s \in SUBSET S |-> IF s = {} THEN 0
                                           ELSE LET x == CHOOSE y \in s : TRUE
                                                IN  h[s \ {x}] + W[x]]
<1>1. Total(S, W) = (CHOOSE h : P(h))[S]
  BY DEF Total, SumOver, FoldSet, MapThenFoldSet
<1>2. \A h : P(h) <=> Folds(h, S, W)
  BY DEF Folds
<1> HIDE DEF P
<1>3. (CHOOSE h : P(h)) = (CHOOSE h : Folds(h, S, W))
  BY <1>2, Zenon
<1> QED BY <1>1, <1>3

\* A sum is a number, nothing sums to zero, and an element adds its weight.
LEMMA TotalStep ==
  ASSUME NEW D, IsFiniteSet(D), NEW W \in [D -> Int]
  PROVE  /\ Total({}, W) = 0
         /\ \A S \in SUBSET D : Total(S, W) \in Int
         /\ \A S \in SUBSET D : \A x \in S :
              Total(S, W) = Total(S \ {x}, W) + W[x]
<1>1. PICK f : Sums(f, D, W) /\ \A T \in SUBSET D : Total(T, W) = f[T]
  BY TotalIsSum
<1> QED BY <1>1 DEF Sums

\* One element weighs its weight.
LEMMA TotalOfOne ==
  ASSUME NEW D, IsFiniteSet(D), NEW W \in [D -> Int], NEW x \in D
  PROVE  Total({x}, W) = W[x]
<1>1. Total({x}, W) = Total({x} \ {x}, W) + W[x] /\ Total({}, W) = 0
  BY TotalStep
<1>2. {x} \ {x} = {}
  OBVIOUS
<1> QED BY <1>1, <1>2

\* Heavier elements have a heavier sum.
LEMMA TotalGrows ==
  ASSUME NEW D, IsFiniteSet(D), NEW V \in [D -> Int], NEW W \in [D -> Int],
         \A x \in D : V[x] <= W[x]
  PROVE  \A S \in SUBSET D : Total(S, V) <= Total(S, W)
<1> DEFINE F == {S \in SUBSET D : Total(S, V) <= Total(S, W)}
<1>1. {} \in F
  BY TotalStep
<1>2. ASSUME NEW S \in SUBSET D, \A x \in S : S \ {x} \in F PROVE S \in F
  <2>1. CASE S = {}
    BY <1>1, <2>1
  <2>2. CASE S # {}
    <3>1. PICK x \in S : TRUE
      BY <2>2
    <3>2. PICK a \in Int, b \in Int : a = Total(S \ {x}, V) /\ b = Total(S \ {x}, W)
      BY TotalStep
    <3>3. a <= b
      BY <1>2, <3>2
    <3>4. Total(S, V) = a + V[x] /\ Total(S, W) = b + W[x]
      BY <3>2, TotalStep
    <3>5. V[x] \in Int /\ W[x] \in Int /\ V[x] <= W[x]
      OBVIOUS
    <3>6. Total(S, V) <= Total(S, W)
      BY <3>3, <3>4, <3>5
    <3> QED BY <3>6
  <2> QED BY <2>1, <2>2
<1> HIDE DEF F
<1>3. \A S \in SUBSET D : S \in F
  BY <1>1, <1>2, GrowAll
<1> QED BY <1>3 DEF F

\* The weights outside of a set, and what function holds them, do not matter.
LEMMA TotalSame ==
  ASSUME NEW D, IsFiniteSet(D), NEW V \in [D -> Int],
         NEW E, IsFiniteSet(E), NEW W \in [E -> Int],
         NEW S, S \subseteq D, S \subseteq E, \A x \in S : V[x] = W[x]
  PROVE  Total(S, V) = Total(S, W)
<1> DEFINE F == {T \in SUBSET S : Total(T, V) = Total(T, W)}
<1>1. {} \in F
  <2>1. Total({}, V) = 0
    BY TotalStep
  <2>2. Total({}, W) = 0
    BY TotalStep
  <2> QED BY <2>1, <2>2
<1>2. ASSUME NEW T \in SUBSET S, \A x \in T : T \ {x} \in F PROVE T \in F
  <2>1. CASE T = {}
    BY <1>1, <2>1
  <2>2. CASE T # {}
    <3>1. PICK x \in T : TRUE
      BY <2>2
    <3>2. Total(T, V) = Total(T \ {x}, V) + V[x]
      BY TotalStep
    <3>3. Total(T, W) = Total(T \ {x}, W) + W[x]
      BY TotalStep
    <3>4. Total(T, V) = Total(T, W)
      BY <1>2, <3>2, <3>3
    <3> QED BY <3>4
  <2> QED BY <2>1, <2>2
<1> HIDE DEF F
<1>3. IsFiniteSet(S)
  BY FS_Subset
<1>4. \A T \in SUBSET S : T \in F
  BY <1>1, <1>2, <1>3, GrowAll
<1> QED BY <1>4 DEF F

\* The sum of the sums is the sum.
LEMMA TotalPlus ==
  ASSUME NEW D, IsFiniteSet(D), NEW U \in [D -> Int], NEW V \in [D -> Int],
         NEW W \in [D -> Int], \A x \in D : W[x] = U[x] + V[x]
  PROVE  \A S \in SUBSET D : Total(S, W) = Total(S, U) + Total(S, V)
<1> DEFINE F == {S \in SUBSET D : Total(S, W) = Total(S, U) + Total(S, V)}
<1>1. {} \in F
  BY TotalStep
<1>2. ASSUME NEW S \in SUBSET D, \A x \in S : S \ {x} \in F PROVE S \in F
  <2>1. CASE S = {}
    BY <1>1, <2>1
  <2>2. CASE S # {}
    <3>1. PICK x \in S : TRUE
      BY <2>2
    <3>2. PICK a \in Int, b \in Int : a = Total(S \ {x}, U) /\ b = Total(S \ {x}, V)
      BY TotalStep
    <3>3. Total(S \ {x}, W) = a + b
      BY <1>2, <3>2
    <3>4. /\ Total(S, U) = a + U[x]
          /\ Total(S, V) = b + V[x]
          /\ Total(S, W) = a + b + W[x]
      BY <3>2, <3>3, TotalStep
    <3>5. U[x] \in Int /\ V[x] \in Int /\ W[x] = U[x] + V[x]
      OBVIOUS
    <3>6. Total(S, W) = Total(S, U) + Total(S, V)
      BY <3>4, <3>5
    <3> QED BY <3>6
  <2> QED BY <2>1, <2>2
<1> HIDE DEF F
<1>3. \A S \in SUBSET D : S \in F
  BY <1>1, <1>2, GrowAll
<1> QED BY <1>3 DEF F

\* Two sets without a common element add up.
LEMMA TotalUnion ==
  ASSUME NEW D, IsFiniteSet(D), NEW W \in [D -> Int],
         NEW A \in SUBSET D, NEW B \in SUBSET D, A \cap B = {}
  PROVE  Total(A \cup B, W) = Total(A, W) + Total(B, W)
<1> DEFINE F == {S \in SUBSET B : Total(A \cup S, W) = Total(A, W) + Total(S, W)}
<1>1. {} \in F
  <2>1. A \cup {} = A
    OBVIOUS
  <2> QED BY <2>1, TotalStep
<1>2. ASSUME NEW S \in SUBSET B, \A x \in S : S \ {x} \in F PROVE S \in F
  <2>1. CASE S = {}
    BY <1>1, <2>1
  <2>2. CASE S # {}
    <3>1. PICK x \in S : TRUE
      BY <2>2
    <3>2. PICK a \in Int, b \in Int : a = Total(A, W) /\ b = Total(S \ {x}, W)
      BY TotalStep
    <3>3. (A \cup S) \ {x} = A \cup (S \ {x})
      OBVIOUS
    <3>4. Total(A \cup (S \ {x}), W) = a + b
      BY <1>2, <3>2
    <3>5. Total(S, W) = b + W[x]
      BY <3>2, TotalStep
    <3>6. Total(A \cup S, W) = Total((A \cup S) \ {x}, W) + W[x]
      BY TotalStep
    <3>7. Total(A \cup S, W) = a + b + W[x]
      BY <3>3, <3>4, <3>6
    <3>8. W[x] \in Int
      OBVIOUS
    <3>9. Total(A \cup S, W) = Total(A, W) + Total(S, W)
      BY <3>2, <3>5, <3>7, <3>8
    <3> QED BY <3>9
  <2> QED BY <2>1, <2>2
<1> HIDE DEF F
<1>3. IsFiniteSet(B)
  BY FS_Subset
<1>4. \A S \in SUBSET B : S \in F
  BY <1>1, <1>2, <1>3, GrowAll
<1> QED BY <1>4 DEF F

\* The sum of ones counts.
LEMMA TotalCounts ==
  ASSUME NEW D, IsFiniteSet(D), NEW W \in [D -> Int], \A x \in D : W[x] = 1
  PROVE  \A S \in SUBSET D : Total(S, W) = Cardinality(S)
<1> DEFINE F == {S \in SUBSET D : Total(S, W) = Cardinality(S)}
<1>1. {} \in F
  BY TotalStep, FS_EmptySet
<1>2. ASSUME NEW S \in SUBSET D, \A x \in S : S \ {x} \in F PROVE S \in F
  <2>1. CASE S = {}
    BY <1>1, <2>1
  <2>2. CASE S # {}
    <3>1. PICK x \in S : TRUE
      BY <2>2
    <3>2. IsFiniteSet(S)
      BY FS_Subset
    <3>3. PICK n \in Nat : n = Cardinality(S)
      BY <3>2, FS_CardinalityType
    <3>4. Cardinality(S \ {x}) = n - 1
      BY <3>2, <3>3, FS_RemoveElement
    <3>5. Total(S \ {x}, W) = n - 1
      BY <1>2, <3>4
    <3>6. Total(S, W) = (n - 1) + 1
      BY <3>5, TotalStep
    <3>7. Total(S, W) = Cardinality(S)
      BY <3>3, <3>6
    <3> QED BY <3>7
  <2> QED BY <2>1, <2>2
<1> HIDE DEF F
<1>3. \A S \in SUBSET D : S \in F
  BY <1>1, <1>2, GrowAll
<1> QED BY <1>3 DEF F

\* Weights between two numbers sum to as many times as much.
LEMMA TotalBounds ==
  ASSUME NEW D, IsFiniteSet(D), NEW W \in [D -> Int], NEW lo \in Int, NEW hi \in Int,
         \A x \in D : lo <= W[x] /\ W[x] <= hi
  PROVE  \A S \in SUBSET D : /\ lo * Cardinality(S) <= Total(S, W)
                             /\ Total(S, W) <= hi * Cardinality(S)
<1> DEFINE F == {S \in SUBSET D : /\ lo * Cardinality(S) <= Total(S, W)
                                  /\ Total(S, W) <= hi * Cardinality(S)}
<1>1. {} \in F
  BY TotalStep, FS_EmptySet
<1>2. ASSUME NEW S \in SUBSET D, \A x \in S : S \ {x} \in F PROVE S \in F
  <2>1. CASE S = {}
    BY <1>1, <2>1
  <2>2. CASE S # {}
    <3>1. PICK x \in S : TRUE
      BY <2>2
    <3>2. IsFiniteSet(S)
      BY FS_Subset
    <3>3. PICK n \in Int : n = Cardinality(S \ {x})
      BY <3>2, FS_RemoveElement, FS_CardinalityType
    <3>4. Cardinality(S) = n + 1
      <4>1. Cardinality(S \ {x}) = Cardinality(S) - 1
        BY <3>2, FS_RemoveElement
      <4>2. Cardinality(S) \in Int
        BY <3>2, FS_CardinalityType
      <4> QED BY <3>3, <4>1, <4>2
    <3>5. PICK a \in Int : a = Total(S \ {x}, W)
      BY TotalStep
    <3>6. lo * n <= a /\ a <= hi * n
      BY <1>2, <3>3, <3>5
    <3>7. PICK w \in Int : w = W[x] /\ lo <= w /\ w <= hi
      OBVIOUS
    <3>8. Total(S, W) = a + w
      BY <3>5, <3>7, TotalStep
    <3>9. lo * (n + 1) = lo * n + lo /\ hi * (n + 1) = hi * n + hi
      OBVIOUS
    <3>10. lo * (n + 1) <= a + w /\ a + w <= hi * (n + 1)
      BY <3>6, <3>7, <3>9
    <3>11. lo * Cardinality(S) <= Total(S, W) /\ Total(S, W) <= hi * Cardinality(S)
      BY <3>4, <3>8, <3>10
    <3> QED BY <3>11
  <2> QED BY <2>1, <2>2
<1> HIDE DEF F
<1>3. \A S \in SUBSET D : S \in F
  BY <1>1, <1>2, GrowAll
<1> QED BY <1>3 DEF F

\* Without negative weights a part is no heavier than the whole.
LEMMA TotalOfPart ==
  ASSUME NEW D, IsFiniteSet(D), NEW W \in [D -> Int], \A x \in D : W[x] >= 0,
         NEW B \in SUBSET D, NEW A \in SUBSET B
  PROVE  0 <= Total(A, W) /\ Total(A, W) <= Total(B, W)
<1>1. \A S \in SUBSET D : 0 <= Total(S, W)
  <2>1. \A S \in SUBSET D : Total(S, [x \in D |-> 0]) <= Total(S, W)
    <3> DEFINE V == [x \in D |-> 0]
    <3>1. V \in [D -> Int] /\ \A x \in D : V[x] <= W[x]
      OBVIOUS
    <3> HIDE DEF V
    <3>2. \A S \in SUBSET D : Total(S, V) <= Total(S, W)
      BY <3>1, TotalGrows
    <3> QED BY <3>2 DEF V
  <2> DEFINE V == [x \in D |-> 0]
  <2>2. V \in [D -> Int] /\ \A x \in D : V[x] = V[x] + V[x]
    OBVIOUS
  <2>3. \A S \in SUBSET D : Total(S, V) \in Int /\ Total(S, W) \in Int
    BY <2>2, TotalStep
  <2>4. \A S \in SUBSET D : Total(S, V) = Total(S, V) + Total(S, V)
    BY <2>2, TotalPlus
  <2>5. \A S \in SUBSET D : Total(S, V) <= Total(S, W)
    BY <2>1
  <2> HIDE DEF V
  <2> QED BY <2>3, <2>4, <2>5
<1>2. Total(A \cup (B \ A), W) = Total(A, W) + Total(B \ A, W)
  BY TotalUnion
<1>3. A \cup (B \ A) = B
  OBVIOUS
<1>4. PICK a \in Int, b \in Int : a = Total(A, W) /\ b = Total(B \ A, W)
  BY TotalStep
<1>5. 0 <= a /\ 0 <= b
  BY <1>1, <1>4
<1>6. Total(B, W) = a + b
  BY <1>2, <1>3, <1>4
<1> QED BY <1>4, <1>5, <1>6

\* The sums of the groups of one key each add up to the sum.
LEMMA TotalOfGroups ==
  ASSUME NEW D, IsFiniteSet(D), NEW W \in [D -> Int], NEW R, IsFiniteSet(R),
         NEW K \in [D -> R], NEW V \in [R -> Int],
         \A k \in R : V[k] = Total({x \in D : K[x] = k}, W)
  PROVE  Total(R, V) = Total(D, W)
<1> DEFINE In(Q) == {x \in D : K[x] \in Q}
           Of(k) == {x \in D : K[x] = k}
           F == {Q \in SUBSET R : Total(Q, V) = Total(In(Q), W)}
<1>1. {} \in F
  <2>1. In({}) = {}
    OBVIOUS
  <2>2. Total({}, V) = 0
    BY TotalStep
  <2>3. Total({}, W) = 0
    BY TotalStep
  <2> QED BY <2>1, <2>2, <2>3
<1>2. ASSUME NEW Q \in SUBSET R, \A k \in Q : Q \ {k} \in F PROVE Q \in F
  <2>1. CASE Q = {}
    BY <1>1, <2>1
  <2>2. CASE Q # {}
    <3>1. PICK k \in Q : TRUE
      BY <2>2
    <3>2. Total(Q \ {k}, V) = Total(In(Q \ {k}), W)
      BY <1>2
    <3>3. Total(Q, V) = Total(Q \ {k}, V) + V[k]
      <4>1. \A P \in SUBSET R : \A j \in P : Total(P, V) = Total(P \ {j}, V) + V[j]
        BY TotalStep
      <4> QED BY <4>1
    <3>4. V[k] = Total(Of(k), W)
      OBVIOUS
    <3>5. In(Q) = In(Q \ {k}) \cup Of(k) /\ In(Q \ {k}) \cap Of(k) = {}
      OBVIOUS
    <3>6. In(Q \ {k}) \in SUBSET D /\ Of(k) \in SUBSET D
      OBVIOUS
    <3> HIDE DEF In, Of
    <3>7. Total(In(Q \ {k}) \cup Of(k), W) = Total(In(Q \ {k}), W) + Total(Of(k), W)
      <4>1. \A A, B \in SUBSET D : A \cap B = {} => Total(A \cup B, W) = Total(A, W) + Total(B, W)
        BY TotalUnion
      <4> QED BY <3>5, <3>6, <4>1
    <3>8. Total(Q, V) = Total(In(Q), W)
      BY <3>2, <3>3, <3>4, <3>5, <3>7
    <3> QED BY <3>8
  <2> QED BY <2>1, <2>2
<1>3. In(R) = D
  OBVIOUS
<1> HIDE DEF F
<1>4. \A Q \in SUBSET R : Q \in F
  BY <1>1, <1>2, GrowAll
<1>5. R \in F
  BY <1>4
<1> QED BY <1>3, <1>5 DEF F

\* A function on a finite set has finitely many values.
LEMMA FiniteRange ==
  ASSUME NEW S, IsFiniteSet(S), NEW R, NEW f \in [S -> R], \A r \in R : \E x \in S : f[x] = r
  PROVE  IsFiniteSet(R)
<1>1. f \in Surjection(S, R)
  BY DEF Surjection
<1> QED BY <1>1, FS_Surjection

\* Weights of zero sum to zero.
LEMMA TotalOfZeros ==
  ASSUME NEW D, IsFiniteSet(D), NEW W \in [D -> Int],
         NEW S \in SUBSET D, \A x \in S : W[x] = 0
  PROVE  Total(S, W) = 0
<1> DEFINE F == {T \in SUBSET S : Total(T, W) = 0}
<1>1. {} \in F
  BY TotalStep
<1>2. ASSUME NEW T \in SUBSET S, \A x \in T : T \ {x} \in F PROVE T \in F
  <2>1. CASE T = {}
    BY <1>1, <2>1
  <2>2. CASE T # {}
    <3>1. PICK x \in T : TRUE
      BY <2>2
    <3>2. Total(T, W) = Total(T \ {x}, W) + W[x]
      BY TotalStep
    <3>3. Total(T \ {x}, W) = 0 /\ W[x] = 0
      BY <1>2
    <3> QED BY <3>2, <3>3
  <2> QED BY <2>1, <2>2
<1> HIDE DEF F
<1>3. IsFiniteSet(S)
  BY FS_Subset
<1>4. \A T \in SUBSET S : T \in F
  BY <1>1, <1>2, <1>3, GrowAll
<1> QED BY <1>4 DEF F

\* The sum of one multiple of all weights is that multiple of the sum.
LEMMA TotalScale ==
  ASSUME NEW D, IsFiniteSet(D), NEW V \in [D -> Int], NEW W \in [D -> Int], NEW c \in Int,
         \A x \in D : W[x] = c * V[x]
  PROVE  \A S \in SUBSET D : Total(S, W) = c * Total(S, V)
<1> DEFINE F == {S \in SUBSET D : Total(S, W) = c * Total(S, V)}
<1>1. {} \in F
  <2>1. Total({}, V) = 0 /\ Total({}, W) = 0 /\ c * 0 = 0
    BY TotalStep
  <2> QED BY <2>1
<1>2. ASSUME NEW S \in SUBSET D, \A x \in S : S \ {x} \in F PROVE S \in F
  <2>1. CASE S = {}
    BY <1>1, <2>1
  <2>2. CASE S # {}
    <3>1. PICK x \in S : TRUE
      BY <2>2
    <3>2. PICK a \in Int, v \in Int : a = Total(S \ {x}, V) /\ v = V[x]
      BY TotalStep
    <3>3. Total(S, V) = a + v
      BY <3>2, TotalStep
    <3>4. Total(S, W) = c * a + c * v
      <4>1. Total(S, W) = Total(S \ {x}, W) + W[x]
        BY TotalStep
      <4>2. Total(S \ {x}, W) = c * a /\ W[x] = c * v
        BY <1>2, <3>2
      <4> QED BY <4>1, <4>2
    <3>5. c * (a + v) = c * a + c * v
      OBVIOUS
    <3> QED BY <3>3, <3>4, <3>5
  <2> QED BY <2>1, <2>2
<1> HIDE DEF F
<1>3. \A S \in SUBSET D : S \in F
  BY <1>1, <1>2, GrowAll
<1> QED BY <1>3 DEF F

\* A finite set of numbers has a largest and a smallest one.
LEMMA Extremes ==
  ASSUME NEW S, IsFiniteSet(S), S \subseteq Int, S # {}
  PROVE  /\ Max(S) \in S /\ \A x \in S : x <= Max(S)
         /\ Min(S) \in S /\ \A x \in S : Min(S) <= x
<1> DEFINE F == {T \in SUBSET S : T # {} => /\ \E x \in T : \A y \in T : x >= y
                                            /\ \E x \in T : \A y \in T : x <= y}
<1>1. {} \in F
  OBVIOUS
<1>2. ASSUME NEW T \in SUBSET S, \A x \in T : T \ {x} \in F PROVE T \in F
  <2>1. CASE T = {}
    BY <1>1, <2>1
  <2>2. CASE T # {}
    <3>1. PICK z \in T : TRUE
      BY <2>2
    <3>2. CASE T \ {z} = {}
      <4>1. \A y \in T : y = z
        BY <3>2
      <4>2. z \in Int
        OBVIOUS
      <4>3. \A y \in T : z >= y /\ z <= y
        BY <4>1, <4>2
      <4> QED BY <3>1, <4>3
    <3>3. CASE T \ {z} # {}
      <4>1. PICK a \in T \ {z}, b \in T \ {z} : /\ \A y \in T \ {z} : a >= y
                                               /\ \A y \in T \ {z} : b <= y
        BY <1>2, <3>3
      <4>2. a \in Int /\ b \in Int /\ z \in Int
        OBVIOUS
      <4>3. \E x \in T : \A y \in T : x >= y
        <5>1. CASE z >= a
          <6>1. \A y \in T : z >= y
            BY <4>1, <4>2, <5>1
          <6> QED BY <6>1
        <5>2. CASE ~(z >= a)
          <6>1. \A y \in T : a >= y
            BY <4>1, <4>2, <5>2
          <6> QED BY <6>1
        <5> QED BY <5>1, <5>2
      <4>4. \E x \in T : \A y \in T : x <= y
        <5>1. CASE z <= b
          <6>1. \A y \in T : z <= y
            BY <4>1, <4>2, <5>1
          <6> QED BY <6>1
        <5>2. CASE ~(z <= b)
          <6>1. \A y \in T : b <= y
            BY <4>1, <4>2, <5>2
          <6> QED BY <6>1
        <5> QED BY <5>1, <5>2
      <4> QED BY <4>3, <4>4
    <3> QED BY <3>2, <3>3
  <2> QED BY <2>1, <2>2
<1>3. S \in F
  <2> HIDE DEF F
  <2>1. \A T \in SUBSET S : T \in F
    BY <1>1, <1>2, GrowAll
  <2> QED BY <2>1
<1>4. /\ \E x \in S : \A y \in S : x >= y
      /\ \E x \in S : \A y \in S : x <= y
  BY <1>3
<1>5. Max(S) \in S /\ \A y \in S : Max(S) >= y
  BY <1>4 DEF Max
<1>6. Min(S) \in S /\ \A y \in S : Min(S) <= y
  BY <1>4 DEF Min
<1> QED BY <1>5, <1>6

\* Quotients of whole numbers.
LEMMA Quotients ==
  ASSUME NEW n \in Nat \ {0}, NEW x \in Int
  PROVE  /\ x \div n \in Int
         /\ \A a \in Int : a * n <= x => a <= x \div n
         /\ \A a \in Int : x <= a * n => x \div n <= a
         /\ \A y \in Int : x <= y => x \div n <= y \div n
<1>1. PICK q \in Int : q = x \div n /\ q * n <= x /\ x < q * n + n
  OBVIOUS
<1>2. ASSUME NEW a \in Int, a * n <= x PROVE a <= q
  <2>1. SUFFICES ASSUME q + 1 <= a PROVE FALSE
    BY <1>1
  <2>2. PICK d \in Nat : a = q + 1 + d
    <3>1. a - (q + 1) \in Nat /\ a = q + 1 + (a - (q + 1))
      BY <2>1
    <3> QED BY <3>1
  <2>3. (q + 1 + d) * n = q * n + n + d * n /\ d * n >= 0
    OBVIOUS
  <2> QED BY <1>1, <1>2, <2>2, <2>3
<1>3. ASSUME NEW a \in Int, x <= a * n PROVE q <= a
  <2>1. SUFFICES ASSUME a + 1 <= q PROVE FALSE
    BY <1>1
  <2>2. PICK d \in Nat : q = a + 1 + d
    <3>1. q - (a + 1) \in Nat /\ q = a + 1 + (q - (a + 1))
      BY <2>1
    <3> QED BY <3>1
  <2>3. (a + 1 + d) * n = a * n + n + d * n /\ d * n >= 0 /\ n >= 1
    OBVIOUS
  <2> QED BY <1>1, <1>3, <2>2, <2>3
<1>4. ASSUME NEW y \in Int, x <= y PROVE q <= y \div n
  <2>1. PICK r \in Int : r = y \div n /\ r * n <= y /\ y < r * n + n
    OBVIOUS
  <2>2. SUFFICES ASSUME r + 1 <= q PROVE FALSE
    BY <1>1, <2>1
  <2>3. PICK d \in Nat : q = r + 1 + d
    <3>1. q - (r + 1) \in Nat /\ q = r + 1 + (q - (r + 1))
      BY <2>1, <2>2
    <3> QED BY <3>1
  <2>4. (r + 1 + d) * n = r * n + n + d * n /\ d * n >= 0
    OBVIOUS
  <2> QED BY <1>1, <1>4, <2>1, <2>3, <2>4
<1> QED BY <1>1, <1>2, <1>3, <1>4

-----------------------------------------------------------------------------
(* When work is due.                                                        *)

(* The parts of a day-of-week field, whatever numbers are in them.          *)
DowPart == {Single(d) : d \in Int} \cup {DowRange(a, b) : a \in Int, b \in Int}
             \cup {Step(a, b) : a \in Int, b \in Int}

(* Fields of any parts, and calendars of any days. *)
AnySchedule ==
  [kind: {"dow"}, parts: SUBSET DowPart]
  \cup
  [kind: {"holiday"}, rows: UNION {[S -> BOOLEAN] : S \in SUBSET Int}, holidays: SUBSET Int]

\* The shape of a part.
LEMMA PartShape ==
  ASSUME NEW p \in DowPart
  PROVE  /\ p.lo \in Int /\ p.hi \in Int /\ p.kind \in {"single", "range", "step"}
         /\ p.kind = "single" => p.lo = p.hi
         /\ p = [kind |-> p.kind, lo |-> p.lo, hi |-> p.hi]
BY DEF DowPart, Single, DowRange, Step

\* APScheduler's number of a crontab day, and the way back.
LEMMA SundayFacts ==
  /\ Sunday0(0) = 6 /\ Sunday0(7) = 6
  /\ \A d \in 1..6 : Sunday0(d) = d - 1
BY DEF Sunday0

\* A translated part that is accepted names the days of the part it came from.
LEMMA TranslatedDays ==
  ASSUME NEW p \in DowPart, p.kind # "step", p.lo <= p.hi, p # DowRange(0, 7),
         NEW q, q = TranslatePart(p), q.lo >= 0, q.lo <= q.hi, q.hi <= 6
  PROVE  /\ q.kind # "step" /\ q.lo \in Int /\ q.hi \in Int
         /\ q.lo..q.hi = {Sunday0(d % 7) : d \in p.lo..p.hi}
<1>1. /\ p.lo \in Int /\ p.hi \in Int /\ p.kind \in {"single", "range"}
      /\ p.kind = "single" => p.lo = p.hi
      /\ p = [kind |-> p.kind, lo |-> p.lo, hi |-> p.hi]
  BY PartShape
<1>2. p.lo \in 0..7 /\ p.hi \in 0..7
  <2>1. SUFFICES ASSUME ~(p.lo \in 0..7 /\ p.hi \in 0..7) PROVE FALSE
    OBVIOUS
  <2>2. q = p
    BY <2>1 DEF TranslatePart, HasName
  <2> QED BY <1>1, <2>1, <2>2
<1>3. q.kind = p.kind /\ q.lo = Sunday0(p.lo) /\ q.hi = Sunday0(p.hi)
  BY <1>1, <1>2 DEF TranslatePart, HasName
<1>4. ~(p.lo = 0 /\ p.hi = 7)
  BY <1>1 DEF DowRange
<1>5. PICK a \in 0..7, b \in 0..7 : a = p.lo /\ b = p.hi /\ a <= b /\ ~(a = 0 /\ b = 7)
  BY <1>2, <1>4
<1>6. Sunday0(a) <= Sunday0(b) /\ q.lo = Sunday0(a) /\ q.hi = Sunday0(b)
  BY <1>3, <1>5
<1>7. \A d \in 0..7 : Sunday0(d % 7) = Sunday0(d) /\ Sunday0(d) \in 0..6
  BY DEF Sunday0
<1>8. (a = 0 /\ b = 0) \/ a \in 1..7
  BY <1>5, <1>6, SundayFacts
<1>9. Sunday0(a)..Sunday0(b) = {Sunday0(d % 7) : d \in a..b}
  <2>1. CASE a = 0 /\ b = 0
    <3>1. a..b = {0} /\ Sunday0(a)..Sunday0(b) = {6}
      BY <2>1, SundayFacts
    <3> QED BY <3>1, <1>7, SundayFacts
  <2>2. CASE a \in 1..7
    <3>1. \A d \in 1..7 : Sunday0(d % 7) = d - 1
      BY DEF Sunday0
    <3>2. Sunday0(a) = a - 1 /\ Sunday0(b) = b - 1
      BY <1>5, <2>2 DEF Sunday0
    <3>3. \A d \in a..b : d \in 1..7
      BY <1>5, <2>2
    <3>4. \A e \in (a - 1)..(b - 1) : e + 1 \in a..b /\ (e + 1) - 1 = e
      BY <1>5
    <3>5. \A d \in a..b : d - 1 \in (a - 1)..(b - 1)
      BY <1>5
    <3>6. \A d \in a..b : Sunday0(d % 7) = d - 1
      BY <3>1, <3>3
    <3>7. (a - 1)..(b - 1) = {d - 1 : d \in a..b}
      BY <3>4, <3>5
    <3>8. {Sunday0(d % 7) : d \in a..b} = {d - 1 : d \in a..b}
      BY <3>6
    <3> QED BY <3>2, <3>7, <3>8
  <2> QED BY <1>8, <2>1, <2>2
<1> QED BY <1>1, <1>3, <1>5, <1>6, <1>7, <1>9

\* cron_to_trigger on any field: what FiresOnItsDays says of it.
LEMMA FieldsFire ==
  ASSUME NEW parts \in SUBSET DowPart
  PROVE  FiresOnItsDays(parts)
<1>1. SUFFICES ASSUME \A p \in parts : p.kind # "step" /\ p.lo <= p.hi /\ p # DowRange(0, 7)
               PROVE  /\ CronToTrigger(parts) # None =>
                           CronToTrigger(parts) = {Sunday0(d) : d \in CrontabDays(parts)}
                      /\ (\A p \in parts : 1 <= p.lo /\ p.lo <= p.hi /\ p.hi <= 6)
                           => CronToTrigger(parts) # None
  BY DEF FiresOnItsDays
<1> DEFINE field == TranslateDowField(parts)
<1>2. ASSUME ApsAccepts(field)
      PROVE  ApsDays(field) = {Sunday0(d) : d \in CrontabDays(parts)}
  <2>1. ASSUME NEW p \in parts
        PROVE  /\ TranslatePart(p).kind # "step"
               /\ TranslatePart(p).lo..TranslatePart(p).hi = {Sunday0(d % 7) : d \in p.lo..p.hi}
    <3>1. TranslatePart(p) \in field
      BY DEF TranslateDowField
    <3>2. TranslatePart(p).lo >= 0 /\ TranslatePart(p).lo <= TranslatePart(p).hi /\ TranslatePart(p).hi <= 6
      BY <1>2, <3>1 DEF ApsAccepts
    <3> QED BY <1>1, <3>2, TranslatedDays
  <2>2. \A p \in parts : TranslatePart(p).lo..TranslatePart(p).hi \subseteq 0..6
    <3>1. ASSUME NEW p \in parts, NEW d \in p.lo..p.hi PROVE Sunday0(d % 7) \in 0..6
      BY PartShape DEF Sunday0
    <3> QED BY <2>1, <3>1
  <2>3. \A d : d \in ApsDays(field) <=> \E p \in parts : d \in TranslatePart(p).lo..TranslatePart(p).hi
    BY <2>1, <2>2 DEF ApsDays, TranslateDowField
  <2>4. \A e : e \in CrontabDays(parts) <=> \E p \in parts : \E d \in p.lo..p.hi : e = d % 7
    BY DEF CrontabDays
  <2>5. \A d : d \in ApsDays(field) <=> \E p \in parts : \E e \in p.lo..p.hi : d = Sunday0(e % 7)
    BY <2>1, <2>3
  <2> HIDE DEF field
  <2>6. \A d : d \in ApsDays(field) <=> \E e \in CrontabDays(parts) : d = Sunday0(e)
    BY <2>4, <2>5
  <2> QED BY <2>6
<1>3. CronToTrigger(parts) # None => ApsAccepts(field)
  BY DEF CronToTrigger
<1>4. ASSUME \A p \in parts : 1 <= p.lo /\ p.lo <= p.hi /\ p.hi <= 6
      PROVE  CronToTrigger(parts) # None
  <2>1. ASSUME NEW p \in parts
        PROVE  TranslatePart(p).lo >= 0 /\ TranslatePart(p).lo <= TranslatePart(p).hi /\ TranslatePart(p).hi <= 6
    <3>1. PICK a \in 1..6, b \in 1..6 : a = p.lo /\ b = p.hi /\ a <= b
      BY <1>4, PartShape
    <3>2. TranslatePart(p).lo = Sunday0(a) /\ TranslatePart(p).hi = Sunday0(b)
      BY <1>1, <3>1, PartShape DEF TranslatePart, HasName
    <3>3. Sunday0(a) = a - 1 /\ Sunday0(b) = b - 1
      BY SundayFacts
    <3> QED BY <3>1, <3>2, <3>3
  <2>2. ApsAccepts(field)
    BY <2>1 DEF ApsAccepts, TranslateDowField
  <2>3. ApsDays(field) \in SUBSET (0..6)
    BY DEF ApsDays
  <2> QED BY <2>2, <2>3, NoneIsNoDays DEF CronToTrigger
<1> QED BY <1>2, <1>3, <1>4 DEF CronToTrigger

\* seed_default_holidays on any calendar: what HolidaysClosed says of it.
LEMMA HolidaysClose ==
  ASSUME NEW rows, NEW holidays, NEW first, NEW end
  PROVE  HolidaysClosed(rows, holidays, first, end)
<1> DEFINE seeded == SeedHolidays(rows, holidays)
<1>1. DOMAIN seeded = DOMAIN rows \cup holidays
  BY DEF SeedHolidays
<1>2. \A d \in DOMAIN seeded : seeded[d] = IF d \in DOMAIN rows THEN rows[d] ELSE FALSE
  BY DEF SeedHolidays
<1>3. \A d \in (holidays \ DOMAIN rows) \cap first..end : d \notin TradingDaysInRange(seeded, first, end)
  BY <1>1, <1>2 DEF TradingDaysInRange, IsTradingDay
<1>4. \A d \in first..end \ (holidays \ DOMAIN rows) : IsTradingDay(seeded, d) = IsTradingDay(rows, d)
  BY <1>1, <1>2 DEF IsTradingDay
<1>5. SeedHolidays(seeded, holidays) = seeded
  <2>1. SeedHolidays(seeded, holidays) = [d \in DOMAIN seeded |-> seeded[d]]
    BY <1>1 DEF SeedHolidays
  <2>2. [d \in DOMAIN seeded |-> seeded[d]] = seeded
    BY DEF SeedHolidays
  <2> QED BY <2>1, <2>2
<1> QED BY <1>3, <1>4, <1>5 DEF HolidaysClosed

\* cron_to_trigger and seed_default_holidays keep what ScheduleIsSound states
\* for every day-of-week field and every calendar.
THEOREM ScheduleHolds ==
  input \in AnySchedule /\ [][Next]_input => []ScheduleIsSound
<1>1. input \in AnySchedule => ScheduleIsSound
  BY FieldsFire, HolidaysClose DEF AnySchedule, ScheduleIsSound
<1>2. ScheduleIsSound /\ [Next]_input => ScheduleIsSound'
  BY DEF Next, ScheduleIsSound
<1> QED BY <1>1, <1>2, PTL

-----------------------------------------------------------------------------
(* What a trade and a stored quote have to pass.                            *)

(* Orders, prices and batches of any numbers. *)
AnyQuote == [pe_ttm: Int \cup {None}, pb: Int \cup {None}, dyr: Int \cup {None}]

AnyTrade ==
  [kind: {"fee"}, price: Nat, quantity: Nat, override: Nat \cup {None},
   cfg: [commission: Nat, minimum: Nat, stamp: Nat, transfer: Nat]]
  \cup
  [kind: {"price"}, price: Int,
   stock: [exchange: STRING \cup {None}, prefix: STRING, prev: Int \cup {None},
           status: STRING \cup {None}]]
  \cup
  [kind: {"sanity"}, rows: UNION {[S -> AnyQuote] : S \in SUBSET STRING},
   data: UNION {[S -> AnyQuote] : S \in SUBSET STRING},
   batch: {S \in SUBSET STRING : IsFiniteSet(S)}]

\* The larger of two numbers.
LEMMA MaxOfTwo ==
  ASSUME NEW a \in Int, NEW b \in Int
  PROVE  /\ Max({a, b}) \in Int /\ Max({a, b}) >= a /\ Max({a, b}) >= b
         /\ Max({a, b}) = a \/ Max({a, b}) = b
<1>1. \E m \in {a, b} : \A n \in {a, b} : m >= n
  <2>1. CASE a >= b
    BY <2>1
  <2>2. CASE b >= a
    BY <2>2
  <2> QED BY <2>1, <2>2
<1> QED BY <1>1 DEF Max

\* The larger of two natural numbers is one.
LEMMA MaxOfNats ==
  ASSUME NEW a \in Nat, NEW b \in Nat
  PROVE  Max({a, b}) \in Nat
<1>1. Max({a, b}) \in Int /\ Max({a, b}) >= a
  BY MaxOfTwo
<1> QED BY <1>1

\* Products of natural numbers, and a product that is split.
LEMMA Products ==
  /\ \A a, b \in Nat : a * b \in Nat
  /\ \A a, b, c \in Int : a * (b - c) = a * b - a * c
  /\ \A a, b, c \in Int : (a - b) * c = a * c - b * c
OBVIOUS

\* The commission that create_trade takes of an order worth n.
Charged(n, cfg, override) ==
  IF override # None THEN override * UNIT ELSE Max({n * cfg.commission, cfg.minimum * UNIT})

\* What an order worth n is charged are whole amounts.
LEMMA ChargesOf ==
  ASSUME NEW cfg \in [commission: Nat, minimum: Nat, stamp: Nat, transfer: Nat],
         NEW override \in Nat \cup {None}, NEW n \in Nat
  PROVE  /\ Charged(n, cfg, override) \in Nat
         /\ n * cfg.stamp \in Nat /\ n * cfg.transfer \in Nat /\ n * UNIT \in Nat
<1>1. /\ cfg.commission \in Nat /\ cfg.minimum \in Nat /\ cfg.stamp \in Nat /\ cfg.transfer \in Nat
  OBVIOUS
<1>2. n * cfg.commission \in Nat /\ n * cfg.stamp \in Nat /\ n * cfg.transfer \in Nat
  BY <1>1, Products
<1>3. n * UNIT \in Nat
  BY DEF UNIT
<1>4. Charged(n, cfg, override) \in Nat
  <2>1. CASE override # None
    BY <2>1 DEF Charged, UNIT
  <2>2. CASE override = None
    <3>1. PICK a \in Nat, b \in Nat : a = n * cfg.commission /\ b = cfg.minimum * UNIT
      BY <1>1, <1>2 DEF UNIT
    <3>2. Max({a, b}) \in Nat
      BY MaxOfNats
    <3> QED BY <2>2, <3>1, <3>2, Zenon DEF Charged
  <2> QED BY <2>1, <2>2
<1> QED BY <1>2, <1>3, <1>4

\* The commission of two orders is no less than that of one of both.
LEMMA CommissionOfParts ==
  ASSUME NEW n \in Nat, NEW m \in Nat, NEW rate \in Nat, NEW least \in Nat
  PROVE  Max({n * rate, least}) + Max({m * rate, least}) >= Max({(n + m) * rate, least})
<1>1. PICK a \in Nat, b \in Nat : a = n * rate /\ b = m * rate /\ a + b = (n + m) * rate
  BY Products
<1>2. Max({a, least}) \in Int /\ Max({a, least}) >= a /\ Max({a, least}) >= least
  BY MaxOfTwo
<1>3. Max({b, least}) \in Int /\ Max({b, least}) >= b /\ Max({b, least}) >= least
  BY MaxOfTwo
<1>4. a + b \in Int
  OBVIOUS
<1>5. Max({a + b, least}) = a + b \/ Max({a + b, least}) = least
  BY <1>4, MaxOfTwo
<1>6. Max({a, least}) + Max({b, least}) >= Max({a + b, least})
  BY <1>2, <1>3, <1>5
<1> QED BY <1>1, <1>6, Zenon

\* create_trade on any order: what FeesAreTaken says of it.
LEMMA FeesTaken ==
  ASSUME NEW price \in Nat, NEW quantity \in Nat,
         NEW cfg \in [commission: Nat, minimum: Nat, stamp: Nat, transfer: Nat],
         NEW override \in Nat \cup {None}
  PROVE  FeesAreTaken(price, quantity, cfg, override)
<1> DEFINE Total0(s, q) == TradeTotal(s, price, q, cfg, override)
           Comm(n) == Charged(n, cfg, override)
           bought == ComputeFees("BUY", price, quantity, cfg)
           sold   == ComputeFees("SELL", price, quantity, cfg)
<1>1. ASSUME NEW q \in Nat, NEW n, n = price * q
      PROVE  /\ Total0("BUY", q) = n * UNIT + (Comm(n) + 0 + n * cfg.transfer)
             /\ Total0("SELL", q) = n * UNIT - (Comm(n) + n * cfg.stamp + n * cfg.transfer)
             /\ Total0("DIVIDEND", q) = -(n * UNIT)
  BY <1>1 DEF TradeTotal, ComputeFees, Charged
<1>2. PICK n \in Nat : n = price * quantity
  BY Products
<1>3. PICK c \in Nat, s \in Nat, t \in Nat, v \in Nat :
        c = Comm(n) /\ s = n * cfg.stamp /\ t = n * cfg.transfer /\ v = n * UNIT
  BY ChargesOf
<1> HIDE DEF Total0, Comm
<1>4. Total0("BUY", quantity) = v + (c + 0 + t) /\ Total0("SELL", quantity) = v - (c + s + t)
      /\ Total0("DIVIDEND", quantity) = -v
  BY <1>1, <1>2, <1>3
<1>5. Total0("SELL", quantity) <= Total0("BUY", quantity)
  <2>1. v - (c + s + t) <= v + (c + 0 + t)
    OBVIOUS
  <2> QED BY <1>4, <2>1
<1>6. override = None =>
        Total0("BUY", quantity) - Total0("SELL", quantity) =
          bought.commission + bought.transfer + sold.commission + sold.stamp + sold.transfer
  <2>1. SUFFICES ASSUME override = None
                 PROVE  Total0("BUY", quantity) - Total0("SELL", quantity) =
                          bought.commission + bought.transfer + sold.commission + sold.stamp + sold.transfer
    OBVIOUS
  <2>2. /\ bought.commission = c /\ bought.transfer = t
        /\ sold.commission = c /\ sold.stamp = s /\ sold.transfer = t
    BY <1>2, <1>3, <2>1 DEF ComputeFees, Comm, Charged
  <2>3. (v + (c + 0 + t)) - (v - (c + s + t)) = c + t + c + s + t
    OBVIOUS
  <2> QED BY <1>4, <2>2, <2>3
<1>7. ASSUME NEW q \in 1..quantity - 1
      PROVE  /\ Total0("BUY", q) + Total0("BUY", quantity - q) >= Total0("BUY", quantity)
             /\ Total0("SELL", q) + Total0("SELL", quantity - q) <= Total0("SELL", quantity)
  <2>1. q \in Nat /\ quantity - q \in Nat /\ quantity - q \in Int
    OBVIOUS
  <2>2. PICK a \in Nat, b \in Nat : a = price * q /\ b = price * (quantity - q)
    BY <2>1, Products
  <2>3. n = a + b
    <3>1. price * (quantity - q) = price * quantity - price * q
      BY <2>1, Products
    <3> QED BY <1>2, <2>2, <3>1
  <2>4. Comm(a) + Comm(b) >= Comm(n)
    <3>1. CASE override # None
      <4>1. PICK k \in Nat : k = override * UNIT
        BY <3>1 DEF UNIT
      <4>2. Comm(a) = k /\ Comm(b) = k /\ Comm(n) = k
        BY <3>1, <4>1 DEF Comm, Charged
      <4> QED BY <4>2
    <3>2. CASE override = None
      <4>1. cfg.commission \in Nat /\ cfg.minimum * UNIT \in Nat
        BY DEF UNIT
      <4> QED BY <2>3, <3>2, <4>1, CommissionOfParts DEF Comm, Charged
    <3> QED BY <3>1, <3>2
  <2>5. PICK ca \in Nat, cb \in Nat : ca = Comm(a) /\ cb = Comm(b)
    BY ChargesOf DEF Comm
  <2>6. PICK sa \in Nat, sb \in Nat, ta \in Nat, tb \in Nat, va \in Nat, vb \in Nat :
          /\ sa = a * cfg.stamp /\ sb = b * cfg.stamp
          /\ ta = a * cfg.transfer /\ tb = b * cfg.transfer
          /\ va = a * UNIT /\ vb = b * UNIT
    BY ChargesOf
  <2>7. s = sa + sb /\ t = ta + tb /\ v = va + vb
    <3>1. cfg.stamp \in Int /\ cfg.transfer \in Int /\ UNIT \in Int
      BY DEF UNIT
    <3>2. \A k \in Int : (a + b) * k = a * k + b * k
      OBVIOUS
    <3> QED BY <1>3, <2>3, <2>6, <3>1, <3>2
  <2>8. /\ Total0("BUY", q) = va + (ca + 0 + ta) /\ Total0("BUY", quantity - q) = vb + (cb + 0 + tb)
        /\ Total0("SELL", q) = va - (ca + sa + ta) /\ Total0("SELL", quantity - q) = vb - (cb + sb + tb)
    BY <1>1, <2>1, <2>2, <2>5, <2>6
  <2>9. ca + cb >= c
    BY <1>3, <2>4, <2>5
  <2>10. /\ (va + (ca + 0 + ta)) + (vb + (cb + 0 + tb)) >= v + (c + 0 + t)
         /\ (va - (ca + sa + ta)) + (vb - (cb + sb + tb)) <= v - (c + s + t)
    BY <2>7, <2>9
  <2> QED BY <1>4, <2>8, <2>10
<1>8. -Total0("DIVIDEND", quantity) = price * quantity * UNIT
  <2>1. -(-v) = v
    OBVIOUS
  <2> QED BY <1>2, <1>3, <1>4, <2>1
<1> QED BY <1>5, <1>6, <1>7, <1>8 DEF FeesAreTaken, Total0

\* assert_tradable on any stock and price: what LimitPricesPass says of it.
LEMMA LimitsPass ==
  ASSUME NEW price \in Int,
         NEW stock \in [exchange: STRING \cup {None}, prefix: STRING, prev: Int \cup {None},
                        status: STRING \cup {None}]
  PROVE  LimitPricesPass(stock, price)
<1> DEFINE open       == stock.status \notin SUSPENDED_STATUSES /\ stock.prev # None
           Rounded(n) == (n + 50) \div 100
           low  == Rounded(PriceBand(stock).low)
           high == Rounded(PriceBand(stock).high)
<1>1. CASE ~open \/ (stock.prev # None /\ stock.prev <= 0)
  <2>1. TradeError(stock, price) # None
    BY <1>1, NoneIsNoError DEF TradeError
  <2> QED BY <1>1, <2>1 DEF LimitPricesPass
<1>2. CASE open /\ stock.prev \in Int /\ stock.prev > 0
  <2>1. PriceLimit(stock) \in {5, 10, 20, 30}
    BY DEF PriceLimit, DetectBoard, BOARD_LIMITS
  <2>2. PICK lo \in Int, hi \in Int : lo = PriceBand(stock).low /\ hi = PriceBand(stock).high
    BY <1>2, <2>1 DEF PriceBand
  <2>3. TradeError(stock, price) = IF 100 * (price + 1) < lo \/ 100 * (price - 1) > hi
                                   THEN "out_of_band" ELSE None
    BY <1>2, <2>2 DEF TradeError, PRICE_TOLERANCE
  <2>4. PICK l \in Int, u \in Int : l = low /\ u = high
    BY <2>2
  <2>5. /\ 100 * l <= lo + 50 /\ lo + 50 < 100 * l + 100
        /\ 100 * u <= hi + 50 /\ hi + 50 < 100 * u + 100
    <3>1. \A n \in Int : /\ 100 * ((n + 50) \div 100) <= n + 50
                         /\ n + 50 < 100 * ((n + 50) \div 100) + 100
      OBVIOUS
    <3> QED BY <2>2, <2>4, <3>1
  <2>6. price \in l..u => TradeError(stock, price) = None
    BY <2>3, <2>5
  <2>7. price \notin l - 2..u + 2 => TradeError(stock, price) = "out_of_band"
    BY <2>3, <2>5
  <2> QED BY <1>2, <2>4, <2>6, <2>7 DEF LimitPricesPass
<1> QED BY <1>1, <1>2

\* load_batch on any rows and any batch: what BadRecordKeepsRow says of it.
LEMMA BadRecordsKeepRows ==
  ASSUME NEW rows, NEW data, NEW batch, IsFiniteSet(batch)
  PROVE  BadRecordKeepsRow(rows, batch, data)
<1> DEFINE after == LoadBatch(rows, batch, data)
           kept  == Valid(batch, data)
<1>1. /\ DOMAIN after = DOMAIN rows \cup kept
      /\ \A c \in DOMAIN after : after[c] = IF c \in kept THEN data[c] ELSE rows[c]
  BY DEF LoadBatch
<1>2. \A c \in kept : c \in batch /\ c \in DOMAIN data /\ Violations(data[c]) = {}
  BY DEF Valid
<1>3. \A c \in DOMAIN rows : (c \in DOMAIN data => Violations(data[c]) # {}) => after[c] = rows[c]
  BY <1>1, <1>2
<1>4. (\A c \in DOMAIN rows : Violations(rows[c]) = {}) => \A c \in DOMAIN after : Violations(after[c]) = {}
  BY <1>1, <1>2
<1>5. ASSUME batch # {}, batch \subseteq DOMAIN data, kept = {}
      PROVE  RaisesSanityAlert(batch, data)
  <2>1. Rejected(batch, data) = batch
    BY <1>5 DEF Rejected
  <2>2. Cardinality(batch) \in Nat /\ Cardinality(batch) # 0
    BY <1>5, FS_CardinalityType, FS_EmptySet
  <2>3. 100 * Cardinality(batch) > 5 * Cardinality(batch)
    BY <2>2
  <2> QED BY <1>5, <2>1, <2>3 DEF RaisesSanityAlert
<1> HIDE DEF after, kept
<1> QED BY <1>3, <1>4, <1>5 DEF BadRecordKeepsRow, after, kept

\* create_trade, assert_tradable, validate_batch and load_batch keep what
\* TradeRulesAreSound states for every order, price, fee schedule and batch.
THEOREM TradeRulesHold ==
  input \in AnyTrade /\ [][Next]_input => []TradeRulesAreSound
<1>1. input \in AnyTrade => TradeRulesAreSound
  BY FeesTaken, LimitsPass, BadRecordsKeepRows DEF AnyTrade, TradeRulesAreSound
<1>2. TradeRulesAreSound /\ [Next]_input => TradeRulesAreSound'
  BY DEF Next, TradeRulesAreSound
<1> QED BY <1>1, <1>2, PTL

-----------------------------------------------------------------------------
(* What is read out of the open positions.                                  *)

(* The sums that the properties write out, under names.                     *)
PricedGains(p)         == SumOver(Priced(p), LAMBDA c : p[c].price * p[c].quantity - p[c].cost)
IndustryValues(p)      == SumOver(Industries(p), LAMBDA i : IndustryValue(p, i))
UnpricedCosts(p)       == SumOver(Stocks(p) \ Priced(p), LAMBDA c : p[c].cost)
ValuesIn(p, S)         == SumOver(S, LAMBDA c : Value(p[c]))
ThemeValues(b)         == SumOver(DOMAIN b, LAMBDA t : b[t].value)
ThemeCounts(b)         == SumOver(DOMAIN b, LAMBDA t : b[t].count)
YieldsIn(p, S)         == SumOver(S, LAMBDA c : Value(p[c]) * p[c].dyr)
YearTotals(records)    == SumOver({r.year : r \in records}, LAMBDA y : ByYear(records, y))
StockTotals(records)   == SumOver({r.stock : r \in records}, LAMBDA c : ByStock(records, c))

\* The cost of a portfolio is a total.
LEMMA CostSum ==
  ASSUME NEW p, NEW W, \A x \in Stocks(p) : W[x] = p[x].cost
  PROVE  TotalCost(p) = Total(Stocks(p), W)
<1> DEFINE P(f) == f = [s \in SUBSET Stocks(p) |->
                         IF s = {} THEN 0
                         ELSE LET x == CHOOSE y \in s : TRUE IN f[s \ {x}] + p[x].cost]
<1>1. TotalCost(p) = (CHOOSE f : P(f))[Stocks(p)]
  BY DEF TotalCost, SumOver, FoldSet, MapThenFoldSet
<1>2. \A f : P(f) <=> Folds(f, Stocks(p), W)
  BY DEF Folds
<1> HIDE DEF P
<1>3. (CHOOSE f : P(f)) = (CHOOSE f : Folds(f, Stocks(p), W))
  BY <1>2, Zenon
<1> QED BY <1>1, <1>3, TotalIsFold

\* So is its value,
LEMMA ValueSum ==
  ASSUME NEW p, NEW W, \A x \in Stocks(p) : W[x] = Value(p[x])
  PROVE  TotalValue(p) = Total(Stocks(p), W)
<1> DEFINE P(f) == f = [s \in SUBSET Stocks(p) |->
                         IF s = {} THEN 0
                         ELSE LET x == CHOOSE y \in s : TRUE IN f[s \ {x}] + Value(p[x])]
<1>1. TotalValue(p) = (CHOOSE f : P(f))[Stocks(p)]
  BY DEF TotalValue, SumOver, FoldSet, MapThenFoldSet
<1>2. \A f : P(f) <=> Folds(f, Stocks(p), W)
  BY DEF Folds
<1> HIDE DEF P
<1>3. (CHOOSE f : P(f)) = (CHOOSE f : Folds(f, Stocks(p), W))
  BY <1>2, Zenon
<1> QED BY <1>1, <1>3, TotalIsFold

\* the value of an industry,
LEMMA IndustrySum ==
  ASSUME NEW p, NEW i, NEW W, \A x \in {c \in Priced(p) : p[c].industry = i} : W[x] = Value(p[x])
  PROVE  IndustryValue(p, i) = Total({c \in Priced(p) : p[c].industry = i}, W)
<1> DEFINE P(f) == f = [s \in SUBSET {c \in Priced(p) : p[c].industry = i} |->
                         IF s = {} THEN 0
                         ELSE LET x == CHOOSE y \in s : TRUE IN f[s \ {x}] + Value(p[x])]
<1>1. IndustryValue(p, i) = (CHOOSE f : P(f))[{c \in Priced(p) : p[c].industry = i}]
  BY DEF IndustryValue, SumOver, FoldSet, MapThenFoldSet
<1>2. \A f : P(f) <=> Folds(f, {c \in Priced(p) : p[c].industry = i}, W)
  BY DEF Folds
<1> HIDE DEF P
<1>3. (CHOOSE f : P(f)) = (CHOOSE f : Folds(f, {c \in Priced(p) : p[c].industry = i}, W))
  BY <1>2, Zenon
<1> QED BY <1>1, <1>3, TotalIsFold

\* the gain of the priced positions,
LEMMA GainSum ==
  ASSUME NEW p, NEW W, \A x \in Priced(p) : W[x] = (p[x].price * p[x].quantity - p[x].cost)
  PROVE  PricedGains(p) = Total(Priced(p), W)
<1> DEFINE P(f) == f = [s \in SUBSET Priced(p) |->
                         IF s = {} THEN 0
                         ELSE LET x == CHOOSE y \in s : TRUE IN f[s \ {x}] + (p[x].price * p[x].quantity - p[x].cost)]
<1>1. PricedGains(p) = (CHOOSE f : P(f))[Priced(p)]
  BY DEF PricedGains, SumOver, FoldSet, MapThenFoldSet
<1>2. \A f : P(f) <=> Folds(f, Priced(p), W)
  BY DEF Folds
<1> HIDE DEF P
<1>3. (CHOOSE f : P(f)) = (CHOOSE f : Folds(f, Priced(p), W))
  BY <1>2, Zenon
<1> QED BY <1>1, <1>3, TotalIsFold

\* the sum over the industries,
LEMMA IndustriesSum ==
  ASSUME NEW p, NEW W, \A x \in Industries(p) : W[x] = IndustryValue(p, x)
  PROVE  IndustryValues(p) = Total(Industries(p), W)
<1> DEFINE P(f) == f = [s \in SUBSET Industries(p) |->
                         IF s = {} THEN 0
                         ELSE LET x == CHOOSE y \in s : TRUE IN f[s \ {x}] + IndustryValue(p, x)]
<1>1. IndustryValues(p) = (CHOOSE f : P(f))[Industries(p)]
  BY DEF IndustryValues, SumOver, FoldSet, MapThenFoldSet
<1>2. \A f : P(f) <=> Folds(f, Industries(p), W)
  BY DEF Folds
<1> HIDE DEF P
<1>3. (CHOOSE f : P(f)) = (CHOOSE f : Folds(f, Industries(p), W))
  BY <1>2, Zenon
<1> QED BY <1>1, <1>3, TotalIsFold

\* the cost of what has no price,
LEMMA UnpricedSum ==
  ASSUME NEW p, NEW W, \A x \in (Stocks(p) \ Priced(p)) : W[x] = p[x].cost
  PROVE  UnpricedCosts(p) = Total((Stocks(p) \ Priced(p)), W)
<1> DEFINE P(f) == f = [s \in SUBSET (Stocks(p) \ Priced(p)) |->
                         IF s = {} THEN 0
                         ELSE LET x == CHOOSE y \in s : TRUE IN f[s \ {x}] + p[x].cost]
<1>1. UnpricedCosts(p) = (CHOOSE f : P(f))[(Stocks(p) \ Priced(p))]
  BY DEF UnpricedCosts, SumOver, FoldSet, MapThenFoldSet
<1>2. \A f : P(f) <=> Folds(f, (Stocks(p) \ Priced(p)), W)
  BY DEF Folds
<1> HIDE DEF P
<1>3. (CHOOSE f : P(f)) = (CHOOSE f : Folds(f, (Stocks(p) \ Priced(p)), W))
  BY <1>2, Zenon
<1> QED BY <1>1, <1>3, TotalIsFold

\* the value of a theme,
LEMMA ThemeSum ==
  ASSUME NEW p, NEW S, NEW W, \A x \in S : W[x] = Value(p[x])
  PROVE  ValuesIn(p, S) = Total(S, W)
<1> DEFINE P(f) == f = [s \in SUBSET S |->
                         IF s = {} THEN 0
                         ELSE LET x == CHOOSE y \in s : TRUE IN f[s \ {x}] + Value(p[x])]
<1>1. ValuesIn(p, S) = (CHOOSE f : P(f))[S]
  BY DEF ValuesIn, SumOver, FoldSet, MapThenFoldSet
<1>2. \A f : P(f) <=> Folds(f, S, W)
  BY DEF Folds
<1> HIDE DEF P
<1>3. (CHOOSE f : P(f)) = (CHOOSE f : Folds(f, S, W))
  BY <1>2, Zenon
<1> QED BY <1>1, <1>3, TotalIsFold

\* the sums over the themes,
LEMMA ThemeValuesSum ==
  ASSUME NEW b, NEW W, \A x \in (DOMAIN b) : W[x] = b[x].value
  PROVE  ThemeValues(b) = Total((DOMAIN b), W)
<1> DEFINE P(f) == f = [s \in SUBSET (DOMAIN b) |->
                         IF s = {} THEN 0
                         ELSE LET x == CHOOSE y \in s : TRUE IN f[s \ {x}] + b[x].value]
<1>1. ThemeValues(b) = (CHOOSE f : P(f))[(DOMAIN b)]
  BY DEF ThemeValues, SumOver, FoldSet, MapThenFoldSet
<1>2. \A f : P(f) <=> Folds(f, (DOMAIN b), W)
  BY DEF Folds
<1> HIDE DEF P
<1>3. (CHOOSE f : P(f)) = (CHOOSE f : Folds(f, (DOMAIN b), W))
  BY <1>2, Zenon
<1> QED BY <1>1, <1>3, TotalIsFold

\* of values and of counts,
LEMMA ThemeCountsSum ==
  ASSUME NEW b, NEW W, \A x \in (DOMAIN b) : W[x] = b[x].count
  PROVE  ThemeCounts(b) = Total((DOMAIN b), W)
<1> DEFINE P(f) == f = [s \in SUBSET (DOMAIN b) |->
                         IF s = {} THEN 0
                         ELSE LET x == CHOOSE y \in s : TRUE IN f[s \ {x}] + b[x].count]
<1>1. ThemeCounts(b) = (CHOOSE f : P(f))[(DOMAIN b)]
  BY DEF ThemeCounts, SumOver, FoldSet, MapThenFoldSet
<1>2. \A f : P(f) <=> Folds(f, (DOMAIN b), W)
  BY DEF Folds
<1> HIDE DEF P
<1>3. (CHOOSE f : P(f)) = (CHOOSE f : Folds(f, (DOMAIN b), W))
  BY <1>2, Zenon
<1> QED BY <1>1, <1>3, TotalIsFold

\* the yields weighted by the values,
LEMMA DyrSum ==
  ASSUME NEW p, NEW S, NEW W, \A x \in S : W[x] = Value(p[x]) * p[x].dyr
  PROVE  YieldsIn(p, S) = Total(S, W)
<1> DEFINE P(f) == f = [s \in SUBSET S |->
                         IF s = {} THEN 0
                         ELSE LET x == CHOOSE y \in s : TRUE IN f[s \ {x}] + Value(p[x]) * p[x].dyr]
<1>1. YieldsIn(p, S) = (CHOOSE f : P(f))[S]
  BY DEF YieldsIn, SumOver, FoldSet, MapThenFoldSet
<1>2. \A f : P(f) <=> Folds(f, S, W)
  BY DEF Folds
<1> HIDE DEF P
<1>3. (CHOOSE f : P(f)) = (CHOOSE f : Folds(f, S, W))
  BY <1>2, Zenon
<1> QED BY <1>1, <1>3, TotalIsFold

\* the dividends of a year,
LEMMA YearSum ==
  ASSUME NEW records, NEW y, NEW W, \A x \in {r \in records : r.year = y} : W[x] = x.received
  PROVE  ByYear(records, y) = Total({r \in records : r.year = y}, W)
<1> DEFINE P(f) == f = [s \in SUBSET {r \in records : r.year = y} |->
                         IF s = {} THEN 0
                         ELSE LET x == CHOOSE e \in s : TRUE IN f[s \ {x}] + x.received]
<1>1. ByYear(records, y) = (CHOOSE f : P(f))[{r \in records : r.year = y}]
  BY DEF ByYear, SumOver, FoldSet, MapThenFoldSet
<1>2. \A f : P(f) <=> Folds(f, {r \in records : r.year = y}, W)
  BY DEF Folds
<1> HIDE DEF P
<1>3. (CHOOSE f : P(f)) = (CHOOSE f : Folds(f, {r \in records : r.year = y}, W))
  BY <1>2, Zenon
<1> QED BY <1>1, <1>3, TotalIsFold

\* and of a stock,
LEMMA StockSum ==
  ASSUME NEW records, NEW c, NEW W, \A x \in {r \in records : r.stock = c} : W[x] = x.received
  PROVE  ByStock(records, c) = Total({r \in records : r.stock = c}, W)
<1> DEFINE P(f) == f = [s \in SUBSET {r \in records : r.stock = c} |->
                         IF s = {} THEN 0
                         ELSE LET x == CHOOSE e \in s : TRUE IN f[s \ {x}] + x.received]
<1>1. ByStock(records, c) = (CHOOSE f : P(f))[{r \in records : r.stock = c}]
  BY DEF ByStock, SumOver, FoldSet, MapThenFoldSet
<1>2. \A f : P(f) <=> Folds(f, {r \in records : r.stock = c}, W)
  BY DEF Folds
<1> HIDE DEF P
<1>3. (CHOOSE f : P(f)) = (CHOOSE f : Folds(f, {r \in records : r.stock = c}, W))
  BY <1>2, Zenon
<1> QED BY <1>1, <1>3, TotalIsFold

\* and the sums over the years
LEMMA YearsSum ==
  ASSUME NEW records, NEW W, \A x \in {r.year : r \in records} : W[x] = ByYear(records, x)
  PROVE  YearTotals(records) = Total({r.year : r \in records}, W)
<1> DEFINE P(f) == f = [s \in SUBSET {r.year : r \in records} |->
                         IF s = {} THEN 0
                         ELSE LET x == CHOOSE y \in s : TRUE IN f[s \ {x}] + ByYear(records, x)]
<1>1. YearTotals(records) = (CHOOSE f : P(f))[{r.year : r \in records}]
  BY DEF YearTotals, SumOver, FoldSet, MapThenFoldSet
<1>2. \A f : P(f) <=> Folds(f, {r.year : r \in records}, W)
  BY DEF Folds
<1> HIDE DEF P
<1>3. (CHOOSE f : P(f)) = (CHOOSE f : Folds(f, {r.year : r \in records}, W))
  BY <1>2, Zenon
<1> QED BY <1>1, <1>3, TotalIsFold

\* and over the stocks.
LEMMA StocksSum ==
  ASSUME NEW records, NEW W, \A x \in {r.stock : r \in records} : W[x] = ByStock(records, x)
  PROVE  StockTotals(records) = Total({r.stock : r \in records}, W)
<1> DEFINE P(f) == f = [s \in SUBSET {r.stock : r \in records} |->
                         IF s = {} THEN 0
                         ELSE LET x == CHOOSE y \in s : TRUE IN f[s \ {x}] + ByStock(records, x)]
<1>1. StockTotals(records) = (CHOOSE f : P(f))[{r.stock : r \in records}]
  BY DEF StockTotals, SumOver, FoldSet, MapThenFoldSet
<1>2. \A f : P(f) <=> Folds(f, {r.stock : r \in records}, W)
  BY DEF Folds
<1> HIDE DEF P
<1>3. (CHOOSE f : P(f)) = (CHOOSE f : Folds(f, {r.stock : r \in records}, W))
  BY <1>2, Zenon
<1> QED BY <1>1, <1>3, TotalIsFold

AnyPosition ==
  [quantity: Nat, cost: Nat, price: Nat \cup {None}, industry: STRING,
   theme: STRING \cup {None}, days: Nat \cup {None}, dyr: Nat \cup {None}]

AnySignalled == [quantity: Nat, cost: Nat, price: Nat \cup {None}, days: Nat \cup {None}]

AnyDividend == [id: Int, stock: STRING, year: Int, received: Int, recent: BOOLEAN]

AnyPositions(S) == [kind: {"portfolio"}, p: [S -> AnyPosition], cash: Nat]

(* Portfolios, positions, dividends of any number and size; any section may *)
(* fail in either way.                                                      *)
AnyPortfolio ==
  (UNION {AnyPositions(S) : S \in {T \in SUBSET STRING : IsFiniteSet(T)}})
  \cup [kind: {"signal"}, h: AnySignalled]
  \cup [kind: {"payout"}, records: {R \in SUBSET AnyDividend : IsFiniteSet(R)}]
  \cup SectionInputs

\* What a position is worth, in whole numbers.
LEMMA Worth ==
  ASSUME NEW h, h.price \in Nat \cup {None}, h.quantity \in Nat, h.cost \in Nat
  PROVE  /\ Value(h) \in Nat
         /\ h.price = None => Value(h) = h.cost
         /\ h.price # None => Value(h) = h.price * h.quantity
<1>1. CASE h.price = None
  BY <1>1 DEF Value
<1>2. CASE h.price # None
  <2>1. PICK a \in Nat, b \in Nat : a = h.price /\ b = h.quantity
    BY <1>2
  <2>2. a * b \in Nat
    OBVIOUS
  <2> QED BY <1>2, <2>1, <2>2 DEF Value
<1> QED BY <1>1, <1>2

\* The totals of a portfolio are totals of the values of its positions.
LEMMA ValuesOf ==
  ASSUME NEW S, IsFiniteSet(S), NEW p \in [S -> AnyPosition], NEW V, V = [c \in S |-> Value(p[c])]
  PROVE  /\ V \in [S -> Int] /\ \A c \in S : V[c] >= 0
         /\ Stocks(p) = S /\ Priced(p) \subseteq S
         /\ TotalValue(p) = Total(S, V) /\ TotalValue(p) \in Nat
         /\ \A i : IndustryValue(p, i) = Total({c \in Priced(p) : p[c].industry = i}, V)
<1>1. \A c \in S : Value(p[c]) \in Nat
  <2>1. \A c \in S : p[c].price \in Nat \cup {None} /\ p[c].quantity \in Nat /\ p[c].cost \in Nat
    BY DEF AnyPosition
  <2> QED BY <2>1, Worth
<1>2. V \in [S -> Int] /\ \A c \in S : V[c] >= 0 /\ V[c] = Value(p[c])
  BY <1>1
<1>3. Stocks(p) = S /\ Priced(p) \subseteq S
  BY DEF Stocks, Priced
<1>4. TotalValue(p) = Total(S, V)
  BY <1>2, <1>3, ValueSum
<1>5. Total(S, V) \in Nat
  <2>1. 0 <= Total(S, V)
    BY <1>2, TotalOfPart
  <2>2. Total(S, V) \in Int
    BY <1>2, TotalStep
  <2> QED BY <2>1, <2>2
<1>6. ASSUME NEW i PROVE IndustryValue(p, i) = Total({c \in Priced(p) : p[c].industry = i}, V)
  <2>1. \A x \in {c \in Priced(p) : p[c].industry = i} : V[x] = Value(p[x])
    BY <1>2, <1>3
  <2> QED BY <2>1, IndustrySum
<1> QED BY <1>2, <1>3, <1>4, <1>5, <1>6

\* A position weighs no more than its industry.
LEMMA IndustryOutweighs ==
  ASSUME NEW S, IsFiniteSet(S), NEW p \in [S -> AnyPosition], NEW c \in Priced(p)
  PROVE  /\ p[c].industry \in Industries(p)
         /\ Value(p[c]) \in Nat /\ IndustryValue(p, p[c].industry) \in Nat
         /\ Value(p[c]) <= IndustryValue(p, p[c].industry)
<1> DEFINE V == [x \in S |-> Value(p[x])]
           A == {x \in Priced(p) : p[x].industry = p[c].industry}
<1>1. /\ V \in [S -> Int] /\ \A x \in S : V[x] >= 0
      /\ Stocks(p) = S /\ Priced(p) \subseteq S
      /\ IndustryValue(p, p[c].industry) = Total(A, V)
  BY ValuesOf
<1>2. c \in S /\ V[c] = Value(p[c]) /\ {c} \in SUBSET A /\ A \in SUBSET S
  BY <1>1
<1> HIDE DEF V, A
<1>3. Total({c}, V) = V[c]
  BY <1>1, <1>2, TotalOfOne
<1>4. 0 <= Total({c}, V) /\ Total({c}, V) <= Total(A, V)
  BY <1>1, <1>2, TotalOfPart
<1>5. Total(A, V) \in Int /\ V[c] \in Int
  BY <1>1, <1>2, TotalStep
<1>6. p[c].industry \in Industries(p)
  BY <1>1, <1>2 DEF Industries
<1> QED BY <1>1, <1>2, <1>3, <1>4, <1>5, <1>6

\* A position above one share puts its industry above every lower one.
LEMMA HeavyOutweighs ==
  ASSUME NEW S, IsFiniteSet(S), NEW p \in [S -> AnyPosition], NEW c \in Priced(p),
         NEW pct \in Nat, pct >= MAX_INDUSTRY_WEIGHT, Exceeds(p, Value(p[c]), pct)
  PROVE  p[c].industry \in HeavyIndustries(p)
<1>1. PICK v \in Nat, i \in Nat : /\ v = Value(p[c]) /\ i = IndustryValue(p, p[c].industry)
                                  /\ v <= i
  BY IndustryOutweighs
<1>2. p[c].industry \in Industries(p)
  BY IndustryOutweighs
<1>3. PICK t \in Nat : t = TotalValue(p)
  BY ValuesOf
<1>4. t > 0 /\ 100 * v > pct * t
  BY <1>1, <1>3 DEF Exceeds
<1>5. pct * t >= 15 * t
  <2>1. PICK d \in Nat : pct = 15 + d
    <3>1. pct - 15 \in Nat /\ pct = 15 + (pct - 15)
      BY DEF MAX_INDUSTRY_WEIGHT
    <3> QED BY <3>1
  <2>2. (15 + d) * t = 15 * t + d * t /\ d * t >= 0
    OBVIOUS
  <2> QED BY <2>1, <2>2
<1>6. 100 * i > 15 * t
  <2>1. pct * t \in Int
    OBVIOUS
  <2> QED BY <1>1, <1>4, <1>5, <2>1
<1> QED BY <1>1, <1>2, <1>3, <1>4, <1>6 DEF HeavyIndustries, Exceeds, MAX_INDUSTRY_WEIGHT

\* scan_position_overweight on any portfolio: what TrimsToTarget says of it.
LEMMA SaleTrims ==
  ASSUME NEW S, IsFiniteSet(S), NEW p \in [S -> AnyPosition]
  PROVE  TrimsToTarget(p)
<1>1. SUFFICES ASSUME NEW c \in Overweight(p)
               PROVE  LET left == TrimmedValue(p, c) IN
                      /\ 0 < left.num /\ left.num < Value(p[c]) * left.den
                      /\ 10 * left.num = TotalValue(p) * left.den
                      /\ p[c].industry \in HeavyIndustries(p)
  BY DEF TrimsToTarget
<1>2. c \in Priced(p) /\ Exceeds(p, Value(p[c]), MAX_POSITION_WEIGHT_PCT)
  BY DEF Overweight
<1>3. p[c].industry \in HeavyIndustries(p)
  BY <1>2, HeavyOutweighs DEF MAX_POSITION_WEIGHT_PCT, MAX_INDUSTRY_WEIGHT
<1>4. PICK v \in Nat, t \in Nat : v = Value(p[c]) /\ t = TotalValue(p)
  BY <1>2, IndustryOutweighs, ValuesOf
<1>5. t > 0 /\ 100 * v > 15 * t
  BY <1>2, <1>4 DEF Exceeds, MAX_POSITION_WEIGHT_PCT
<1>6. TrimmedValue(p, c).num = 10 * t /\ TrimmedValue(p, c).den = 100
  BY <1>4 DEF TrimmedValue, TRIM_TARGET_WEIGHT_PCT
<1>7. 0 < 10 * t /\ 10 * t < v * 100 /\ 10 * (10 * t) = t * 100
  BY <1>5
<1> QED BY <1>3, <1>4, <1>6, <1>7

\* The gain of a portfolio is the gain of its priced positions.
LEMMA GainOfPriced ==
  ASSUME NEW S, IsFiniteSet(S), NEW p \in [S -> AnyPosition]
  PROVE  TotalValue(p) - TotalCost(p) = PricedGains(p)
<1> DEFINE V == [c \in S |-> Value(p[c])]
           C == [c \in S |-> p[c].cost]
           G == [c \in S |-> Value(p[c]) - p[c].cost]
           P == Priced(p)
<1>1. /\ V \in [S -> Int] /\ Stocks(p) = S /\ P \subseteq S /\ TotalValue(p) = Total(S, V)
  BY ValuesOf
<1>2. /\ \A c \in S : p[c].price \in Nat \cup {None} /\ p[c].quantity \in Nat /\ p[c].cost \in Nat
      /\ P = {c \in S : p[c].price # None}
  BY <1>1 DEF AnyPosition, Priced, Stocks
<1>3. C \in [S -> Int] /\ \A c \in S : C[c] = p[c].cost
  BY <1>2
<1>4. TotalCost(p) = Total(S, C)
  BY <1>1, <1>3, CostSum
<1>5. G \in [S -> Int] /\ \A c \in S : V[c] = C[c] + G[c]
  <2>1. \A c \in S : Value(p[c]) \in Nat
    BY <1>2, Worth
  <2> QED BY <1>2, <2>1
<1>6. \A c \in P : G[c] = p[c].price * p[c].quantity - p[c].cost
  BY <1>1, <1>2, Worth
<1>7. \A c \in S \ P : G[c] = 0
  BY <1>2, Worth
<1> HIDE DEF V, C, G, P
<1>8. PricedGains(p) = Total(P, G)
  BY <1>6, GainSum DEF P
<1>9. Total(S \ P, G) = 0
  <2>1. S \ P \in SUBSET S
    OBVIOUS
  <2> QED BY <1>5, <1>7, <2>1, TotalOfZeros
<1>10. Total(S, G) = Total(P, G)
  <2>1. Total(P \cup (S \ P), G) = Total(P, G) + Total(S \ P, G)
    BY <1>1, <1>5, TotalUnion
  <2>2. P \cup (S \ P) = S
    BY <1>1
  <2>3. PICK n \in Int : n = Total(P, G)
    BY <1>1, <1>5, TotalStep
  <2>4. Total(S, G) = n + 0
    BY <1>9, <2>1, <2>2, <2>3
  <2> QED BY <2>3, <2>4
<1>11. Total(S, V) = Total(S, C) + Total(S, G)
  BY <1>1, <1>3, <1>5, TotalPlus
<1>12. PICK a \in Int, b \in Int : a = Total(S, C) /\ b = Total(S, G)
  BY <1>3, <1>5, TotalStep
<1>13. TotalValue(p) = a + b /\ TotalCost(p) = a
  BY <1>1, <1>4, <1>11, <1>12
<1>14. TotalValue(p) - TotalCost(p) = b
  BY <1>13
<1> QED BY <1>8, <1>10, <1>12, <1>14

\* The industries and the positions without a price make up the whole.
LEMMA IndustriesMakeUp ==
  ASSUME NEW S, IsFiniteSet(S), NEW p \in [S -> AnyPosition]
  PROVE  TotalValue(p) = IndustryValues(p) + UnpricedCosts(p)
<1> DEFINE V == [c \in S |-> Value(p[c])]
           P == Priced(p)
           N == S \ P
           R == Industries(p)
           I == [i \in R |-> IndustryValue(p, i)]
           K == [c \in P |-> p[c].industry]
           VP == [c \in P |-> V[c]]
<1>1. /\ V \in [S -> Int] /\ Stocks(p) = S /\ P \subseteq S /\ TotalValue(p) = Total(S, V)
      /\ \A i : IndustryValue(p, i) = Total({c \in P : p[c].industry = i}, V)
  BY ValuesOf
<1>2. \A c \in N : V[c] = p[c].cost
  <2>1. \A c \in S : p[c].price \in Nat \cup {None} /\ p[c].quantity \in Nat /\ p[c].cost \in Nat
    BY DEF AnyPosition
  <2>2. \A c \in N : c \in S /\ p[c].price = None
    BY <1>1 DEF Priced
  <2> QED BY <2>1, <2>2, Worth
<1>3. IsFiniteSet(P) /\ IsFiniteSet(R) /\ P \in SUBSET S /\ N \in SUBSET S
  <2>1. R = {p[c].industry : c \in S}
    BY <1>1 DEF Industries
  <2>2. IsFiniteSet(R)
    <3> DEFINE f == [c \in S |-> p[c].industry]
    <3>1. f \in [S -> R] /\ \A r \in R : \E c \in S : f[c] = r
      BY <2>1
    <3> HIDE DEF f, R
    <3> QED BY <3>1, FiniteRange
  <2>3. IsFiniteSet(P)
    BY <1>1, FS_Subset
  <2> QED BY <1>1, <2>1, <2>2, <2>3
<1>4. K \in [P -> R] /\ VP \in [P -> Int] /\ \A c \in P : VP[c] = V[c] /\ K[c] = p[c].industry
  BY <1>1 DEF Industries
<1> HIDE DEF V, P
<1>5. ASSUME NEW i \in R PROVE I[i] = Total({c \in P : K[c] = i}, VP) /\ I[i] \in Int
  <2> DEFINE A == {c \in P : K[c] = i}
  <2>1. {c \in P : p[c].industry = i} = A /\ A \in SUBSET P /\ A \subseteq S
    BY <1>3, <1>4
  <2>2. \A c \in A : V[c] = VP[c]
    BY <1>4
  <2>3. I[i] = Total(A, V)
    BY <1>1, <2>1
  <2> HIDE DEF A, VP, I
  <2>4. Total(A, V) = Total(A, VP)
    BY <1>1, <1>3, <1>4, <2>1, <2>2, TotalSame
  <2>5. Total(A, V) \in Int
    BY <1>1, <2>1, TotalStep
  <2> QED BY <2>3, <2>4, <2>5 DEF A
<1>6. I \in [R -> Int] /\ \A i \in R : I[i] = IndustryValue(p, i)
  BY <1>5
<1> HIDE DEF K, VP, I, R
<1>7. Total(R, I) = Total(P, VP)
  BY <1>3, <1>4, <1>5, <1>6, TotalOfGroups
<1>8. Total(P, VP) = Total(P, V)
  BY <1>1, <1>3, <1>4, TotalSame
<1>9. IndustryValues(p) = Total(R, I)
  BY <1>6, IndustriesSum DEF R
<1> HIDE DEF N
<1>10. UnpricedCosts(p) = Total(N, V)
  <2>1. Stocks(p) \ Priced(p) = N
    BY <1>1 DEF N, P
  <2>2. \A x \in Stocks(p) \ Priced(p) : V[x] = p[x].cost
    BY <1>2, <2>1
  <2> QED BY <2>1, <2>2, UnpricedSum
<1>11. Total(S, V) = Total(P, V) + Total(N, V)
  <2>1. P \cup N = S /\ P \cap N = {}
    BY <1>3 DEF N
  <2>2. Total(P \cup N, V) = Total(P, V) + Total(N, V)
    BY <1>1, <1>3, <2>1, TotalUnion
  <2> QED BY <2>1, <2>2
<1> QED BY <1>1, <1>7, <1>8, <1>9, <1>10, <1>11

\* The themes make up the whole, and no position is counted twice.
LEMMA ThemesMakeUp ==
  ASSUME NEW S, IsFiniteSet(S), NEW p \in [S -> AnyPosition], TotalValue(p) > 0,
         NEW b, b = ThemeBreakdown(p)
  PROVE  ThemeValues(b) = TotalValue(p) /\ ThemeCounts(b) = Cardinality(Stocks(p))
<1> DEFINE V == [c \in S |-> Value(p[c])]
           One == [c \in S |-> 1]
           R == {p[c].theme : c \in S}
           K == [c \in S |-> p[c].theme]
           In(t) == {c \in S : p[c].theme = t}
           BV == [t \in R |-> b[t].value]
           BC == [t \in R |-> b[t].count]
<1>1. V \in [S -> Int] /\ Stocks(p) = S /\ TotalValue(p) = Total(S, V) /\ TotalValue(p) \in Nat
  BY ValuesOf
<1>2. IsFiniteSet(R)
  <2>1. K \in [S -> R] /\ \A r \in R : \E c \in S : K[c] = r
    OBVIOUS
  <2> HIDE DEF K, R
  <2> QED BY <2>1, FiniteRange
<1>3. /\ DOMAIN b = R
      /\ \A t \in R : /\ b[t].value = ValuesIn(p, In(t))
                      /\ b[t].count = Cardinality(In(t))
  <2>1. b = [t \in {p[c].theme : c \in Stocks(p)} |->
              [value |-> ValuesIn(p, {c \in Stocks(p) : p[c].theme = t}),
               count |-> Cardinality({c \in Stocks(p) : p[c].theme = t})]]
    <3>1. ~(TotalValue(p) <= 0)
      BY <1>1
    <3> QED BY <3>1, Zenon DEF ThemeBreakdown, ValuesIn
  <2> QED BY <1>1, <2>1
<1>4. K \in [S -> R] /\ One \in [S -> Int] /\ \A c \in S : K[c] = p[c].theme /\ One[c] = 1
  OBVIOUS
<1>5. \A c \in S : V[c] = Value(p[c])
  OBVIOUS
<1> HIDE DEF V, One
<1>6. ASSUME NEW t \in R
      PROVE  /\ In(t) = {c \in S : K[c] = t} /\ In(t) \in SUBSET S
             /\ b[t].value = Total(In(t), V) /\ b[t].value \in Int
             /\ b[t].count = Total(In(t), One) /\ b[t].count \in Int
  <2>1. In(t) = {c \in S : K[c] = t} /\ In(t) \in SUBSET S /\ In(t) = {c \in Stocks(p) : p[c].theme = t}
    BY <1>1
  <2>2. \A x \in In(t) : V[x] = Value(p[x])
    BY <1>5
  <2> HIDE DEF In, R, K
  <2>3. ValuesIn(p, In(t)) = Total(In(t), V)
    BY <2>1, <2>2, ThemeSum
  <2>4. Total(In(t), One) = Cardinality(In(t))
    BY <1>4, <2>1, TotalCounts
  <2>5. Total(In(t), V) \in Int /\ Total(In(t), One) \in Int
    BY <1>1, <1>4, <2>1, TotalStep
  <2> QED BY <1>3, <2>1, <2>3, <2>4, <2>5
<1>7. /\ BV \in [R -> Int] /\ BC \in [R -> Int]
      /\ \A t \in R : BV[t] = Total({c \in S : K[c] = t}, V) /\ BV[t] = b[t].value
      /\ \A t \in R : BC[t] = Total({c \in S : K[c] = t}, One) /\ BC[t] = b[t].count
  BY <1>6
<1> HIDE DEF BV, BC, R, K, In
<1>8. Total(R, BV) = Total(S, V)
  BY <1>1, <1>2, <1>4, <1>7, TotalOfGroups
<1>9. Total(R, BC) = Total(S, One)
  BY <1>2, <1>4, <1>7, TotalOfGroups
<1>10. Total(S, One) = Cardinality(S)
  BY <1>4, TotalCounts
<1>11. ThemeValues(b) = Total(R, BV)
  <2>1. \A x \in DOMAIN b : BV[x] = b[x].value
    BY <1>3, <1>7
  <2> QED BY <1>3, <2>1, ThemeValuesSum
<1>12. ThemeCounts(b) = Total(R, BC)
  <2>1. \A x \in DOMAIN b : BC[x] = b[x].count
    BY <1>3, <1>7
  <2> QED BY <1>3, <2>1, ThemeCountsSum
<1> QED BY <1>1, <1>8, <1>9, <1>10, <1>11, <1>12

\* Cash dilutes the yield of a portfolio.
LEMMA CashDilutes ==
  ASSUME NEW S, IsFiniteSet(S), NEW p \in [S -> AnyPosition], NEW cash \in Nat,
         WeightedDyr(p, cash) # None, WeightedDyr(p, 0) # None
  PROVE  WeightedDyr(p, cash).num * WeightedDyr(p, 0).den
           <= WeightedDyr(p, 0).num * WeightedDyr(p, cash).den
<1> DEFINE known == {c \in S : p[c].dyr # None}
           D == [c \in known |-> Value(p[c]) * p[c].dyr]
<1>1. Stocks(p) = S /\ TotalValue(p) \in Nat
  BY ValuesOf
<1>2. D \in [known -> Int] /\ \A c \in known : D[c] >= 0 /\ D[c] = Value(p[c]) * p[c].dyr
  <2>1. ASSUME NEW c \in known PROVE Value(p[c]) * p[c].dyr \in Nat
    <3>1. Value(p[c]) \in Nat /\ p[c].dyr \in Nat
      BY Worth DEF AnyPosition
    <3>2. PICK a \in Nat, d \in Nat : a = Value(p[c]) /\ d = p[c].dyr
      BY <3>1
    <3> QED BY <3>2
  <2> QED BY <2>1
<1>3. IsFiniteSet(known)
  BY FS_Subset
<1> HIDE DEF known, D
<1>4. YieldsIn(p, known) = Total(known, D)
  BY <1>2, DyrSum
<1>5. Total(known, D) \in Nat
  <2>1. 0 <= Total(known, D)
    BY <1>2, <1>3, TotalOfPart
  <2>2. Total(known, D) \in Int
    BY <1>2, <1>3, TotalStep
  <2> QED BY <2>1, <2>2
<1>6. PICK n \in Nat, t \in Nat :
        /\ n = YieldsIn(p, known)
        /\ t = TotalValue(p)
  BY <1>1, <1>4, <1>5
<1>7. \A k \in Nat : WeightedDyr(p, k) # None => WeightedDyr(p, k) = [num |-> n, den |-> t + k]
  BY <1>1, <1>6 DEF WeightedDyr, known, YieldsIn
<1>8. n * (t + 0) <= n * (t + cash)
  <2>1. n * (t + cash) = n * (t + 0) + n * cash /\ n * cash >= 0
    OBVIOUS
  <2>2. n * (t + 0) \in Int /\ n * cash \in Int
    OBVIOUS
  <2> QED BY <2>1, <2>2
<1> QED BY <1>7, <1>8

\* get_portfolio_summary on any portfolio: what SummaryAddsUp says of it.
LEMMA SummaryMakesUp ==
  ASSUME NEW S, IsFiniteSet(S), NEW p \in [S -> AnyPosition], NEW cash \in Nat
  PROVE  SummaryAddsUp(p, cash)
<1>1. TotalPnl(p) # None => TotalPnl(p) = PricedGains(p)
  BY GainOfPriced DEF TotalPnl
<1>2. TotalValue(p) = IndustryValues(p) + UnpricedCosts(p)
  BY IndustriesMakeUp
<1>3. TotalValue(p) > 0 => /\ ThemeValues(ThemeBreakdown(p)) = TotalValue(p)
                           /\ ThemeCounts(ThemeBreakdown(p)) = Cardinality(Stocks(p))
  BY ThemesMakeUp
<1>4. \A c \in HeavyPositions(p) : p[c].industry \in HeavyIndustries(p)
  <2>1. SUFFICES ASSUME NEW c \in HeavyPositions(p) PROVE p[c].industry \in HeavyIndustries(p)
    OBVIOUS
  <2>2. c \in Priced(p) /\ Exceeds(p, Value(p[c]), MAX_POSITION_WEIGHT)
    BY DEF HeavyPositions
  <2>3. MAX_POSITION_WEIGHT \in Nat /\ MAX_POSITION_WEIGHT >= MAX_INDUSTRY_WEIGHT
    BY DEF MAX_POSITION_WEIGHT, MAX_INDUSTRY_WEIGHT
  <2> QED BY <2>2, <2>3, HeavyOutweighs
<1>5. (WeightedDyr(p, cash) # None /\ WeightedDyr(p, 0) # None) =>
        WeightedDyr(p, cash).num * WeightedDyr(p, 0).den
          <= WeightedDyr(p, 0).num * WeightedDyr(p, cash).den
  BY CashDilutes
<1> QED BY <1>1, <1>2, <1>3, <1>4, <1>5
        DEF SummaryAddsUp, PricedGains, IndustryValues, UnpricedCosts, ThemeValues, ThemeCounts

\* _signal on any position: what SignalFollowsPrice says of it.
LEMMA SignalFollows ==
  ASSUME NEW h \in AnySignalled
  PROVE  SignalFollowsPrice(h)
<1> USE DEF AnySignalled
<1> DEFINE Light == [red |-> 0, yellow |-> 1, green |-> 2]
<1>1. SUFFICES ASSUME h.price # None
               PROVE  /\ \A q \in h.price..h.price + 5 :
                           Light[Signal([h EXCEPT !.price = q])] >= Light[Signal(h)]
                      /\ Signal(h) = "green" => Pnl(h) > 0
  BY DEF SignalFollowsPrice
<1>2. PICK pr \in Nat, n \in Nat, c \in Nat : pr = h.price /\ n = h.quantity /\ c = h.cost
  BY <1>1
<1>3. Light.red = 0 /\ Light.yellow = 1 /\ Light.green = 2
  OBVIOUS
<1>4. PICK w \in Nat : w = pr * n
  OBVIOUS
<1>5. Pnl(h) = w - c
  BY <1>1, <1>2, <1>4, Worth DEF Pnl
<1>6. Signal(h) = "green" => c > 0 /\ 100 * (w - c) >= 15 * c
  BY <1>2, <1>5 DEF Signal, HasPnlPct, PnlAtLeast, REBALANCE_GREEN_THRESHOLD
<1>7. Signal(h) = "green" => Pnl(h) > 0
  BY <1>4, <1>5, <1>6
<1>8. ASSUME NEW q \in h.price..h.price + 5
      PROVE  Light[Signal([h EXCEPT !.price = q])] >= Light[Signal(h)]
  <2> DEFINE g == [h EXCEPT !.price = q]
  <2>1. q \in Nat /\ q >= pr
    BY <1>2
  <2>2. g.price = q /\ g.quantity = n /\ g.cost = c /\ g.days = h.days
    BY <1>2
  <2> HIDE DEF g
  <2>3. PICK v \in Nat : v = q * n /\ v >= w
    <3>1. PICK d \in Nat : q = pr + d
      <4>1. q - pr \in Nat /\ q = pr + (q - pr)
        BY <2>1
      <4> QED BY <4>1
    <3>2. (pr + d) * n = pr * n + d * n /\ d * n >= 0 /\ d * n \in Nat
      OBVIOUS
    <3> QED BY <1>4, <3>1, <3>2
  <2>4. q # None
    BY <2>1, NoneAssumption
  <2>5. Pnl(g) = v - c
    BY <2>2, <2>3, <2>4 DEF Pnl, Value
  <2>6. CASE c = 0
    BY <1>2, <1>3, <2>2, <2>6 DEF Signal, HasPnlPct, g
  <2>7. CASE c # 0
    <3>1. HasPnlPct(h) /\ HasPnlPct(g)
      BY <1>1, <1>2, <2>2, <2>4, <2>7 DEF HasPnlPct
    <3>2. /\ PnlAtLeast(h, 15) => PnlAtLeast(g, 15)
          /\ PnlAtLeast(h, -10) => PnlAtLeast(g, -10)
      BY <1>2, <1>5, <2>2, <2>3, <2>5 DEF PnlAtLeast
    <3> QED BY <1>3, <2>2, <3>1, <3>2
              DEF Signal, REBALANCE_GREEN_THRESHOLD, REBALANCE_RED_THRESHOLD, g
  <2> QED BY <2>6, <2>7
<1> QED BY <1>7, <1>8

\* get_dividend_summary on any dividends: what DividendsAddUp says of them.
LEMMA DividendsMakeUp ==
  ASSUME NEW records, IsFiniteSet(records), \A r \in records : r.received \in Int
  PROVE  DividendsAddUp(records)
<1> DEFINE W == [r \in records |-> r.received]
<1>1. W \in [records -> Int] /\ \A r \in records : W[r] = r.received
  OBVIOUS
<1> HIDE DEF W
<1>2. YearTotals(records) = Total(records, W)
  <2> DEFINE R == {r.year : r \in records}
             K == [r \in records |-> r.year]
             Y == [y \in R |-> ByYear(records, y)]
  <2>1. \A y \in R : ByYear(records, y) = Total({r \in records : r.year = y}, W)
    BY <1>1, YearSum
  <2>2. \A y \in R : Total({r \in records : r.year = y}, W) \in Int
    BY <1>1, TotalStep
  <2>3. Y \in [R -> Int] /\ \A y \in R : Y[y] = ByYear(records, y) /\ Y[y] = Total({r \in records : K[r] = y}, W)
    BY <2>1, <2>2
  <2>4. IsFiniteSet(R) /\ K \in [records -> R]
    <3>1. K \in [records -> R] /\ \A k \in R : \E r \in records : K[r] = k
      OBVIOUS
    <3> HIDE DEF K, R
    <3> QED BY <3>1, FiniteRange
  <2> HIDE DEF R, K, Y
  <2>5. Total(R, Y) = Total(records, W)
    BY <1>1, <2>3, <2>4, TotalOfGroups
  <2>6. YearTotals(records) = Total(R, Y)
    BY <2>3, YearsSum DEF R
  <2> QED BY <2>5, <2>6
<1>3. StockTotals(records) = Total(records, W)
  <2> DEFINE R == {r.stock : r \in records}
             K == [r \in records |-> r.stock]
             Y == [c \in R |-> ByStock(records, c)]
  <2>1. \A c \in R : ByStock(records, c) = Total({r \in records : r.stock = c}, W)
    BY <1>1, StockSum
  <2>2. \A c \in R : Total({r \in records : r.stock = c}, W) \in Int
    BY <1>1, TotalStep
  <2>3. Y \in [R -> Int] /\ \A c \in R : Y[c] = ByStock(records, c) /\ Y[c] = Total({r \in records : K[r] = c}, W)
    BY <2>1, <2>2
  <2>4. IsFiniteSet(R) /\ K \in [records -> R]
    <3>1. K \in [records -> R] /\ \A k \in R : \E r \in records : K[r] = k
      OBVIOUS
    <3> HIDE DEF K, R
    <3> QED BY <3>1, FiniteRange
  <2> HIDE DEF R, K, Y
  <2>5. Total(R, Y) = Total(records, W)
    BY <1>1, <2>3, <2>4, TotalOfGroups
  <2>6. StockTotals(records) = Total(R, Y)
    BY <2>3, StocksSum DEF R
  <2> QED BY <2>5, <2>6
<1> QED BY <1>2, <1>3 DEF DividendsAddUp, YearTotals, StockTotals

\* The dashboard, whatever fails in it: what SectionsIsolated says of it.
LEMMA SectionsStandAlone ==
  ASSUME NEW fails \in [1..7 -> {"no", "python", "database"}]
  PROVE  SectionsIsolated(fails)
<1>1. DOMAIN Sections = 1..7
  BY DEF Sections
<1> QED BY <1>1 DEF SectionsIsolated, Shown

\* The summary, the signals, the dividends and the dashboard hold what they
\* promise for every portfolio, and not only for the two positions of the run.
THEOREM PortfolioHolds ==
  input \in AnyPortfolio /\ [][Next]_input => []PortfolioIsSound
<1>1. input \in AnyPortfolio => PortfolioIsSound
  <2>1. ASSUME NEW S, IsFiniteSet(S), input \in AnyPositions(S) PROVE PortfolioIsSound
    BY <2>1, SummaryMakesUp, SaleTrims DEF PortfolioIsSound, AnyPositions
  <2>2. ASSUME input \in [kind: {"signal"}, h: AnySignalled] PROVE PortfolioIsSound
    BY <2>2, SignalFollows DEF PortfolioIsSound
  <2>3. ASSUME input \in [kind: {"payout"}, records: {R \in SUBSET AnyDividend : IsFiniteSet(R)}]
        PROVE  PortfolioIsSound
    BY <2>3, DividendsMakeUp DEF PortfolioIsSound, AnyDividend
  <2>4. ASSUME input \in SectionInputs PROVE PortfolioIsSound
    BY <2>4, SectionsStandAlone DEF PortfolioIsSound, SectionInputs
  <2>5. (\E S : IsFiniteSet(S) /\ input \in AnyPositions(S)) => PortfolioIsSound
    BY <2>1
  <2>6. input \in UNION {AnyPositions(S) : S \in {T \in SUBSET STRING : IsFiniteSet(T)}} =>
          \E S : IsFiniteSet(S) /\ input \in AnyPositions(S)
    OBVIOUS
  <2> QED BY <2>2, <2>3, <2>4, <2>5, <2>6 DEF AnyPortfolio
<1>2. PortfolioIsSound /\ [Next]_input => PortfolioIsSound'
  BY DEF Next, PortfolioIsSound
<1> QED BY <1>1, <1>2, PTL

-----------------------------------------------------------------------------
(* What the research pipelines decide.                                       *)

AnyStatement == [type: STRING, net_profit: Int \cup {None}, net_margin: Int \cup {None},
                 revenue: Nat \cup {None}]

AnyScores == UNION {[S -> 1..5] : S \in SUBSET STRING}
AnyTags   == UNION {[S -> STRING \cup {None}] : S \in SUBSET STRING}
AnyNumbers == UNION {[S -> Int \cup {None}] : S \in SUBSET STRING}

(* Scores of any masters, flags of any types, statements of any number and  *)
(* size, claimed numbers and logged calls of any number.                    *)
AnyJudgement ==
  [kind: {"score"}, scores: AnyScores, source: STRING, tags: AnyTags]
  \cup
  [kind: {"red_line"}, statements: Seq(AnyStatement), flags: [shape: Shapes, types: SUBSET STRING],
   scores: AnyScores, tags: AnyTags, source: STRING, scarcity: 1..5 \cup {None}]
  \cup
  [kind: {"screen"}, answer: {"yes", "no", None},
   stock: [st: BOOLEAN, pe: Int \cup {None}, statements: Seq(AnyStatement)]]
  \cup
  [kind: {"conflict"}, numbers: AnyNumbers, stored: AnyNumbers]
  \cup
  [kind: {"budget"}, month: Int,
   calls: {C \in SUBSET [id: Int, cost: Nat, created_at: Int] : IsFiniteSet(C)}]

\* run on any answers of the masters: what RedLineRejects says of it.
LEMMA RedLinesReject ==
  ASSUME NEW a PROVE RedLineRejects(a)
<1>1. SUFFICES ASSUME a.flags.shape \in {"map", "objects"}
               PROVE  /\ (LlmFlagged(a.flags) # {} \/ ConsecutiveLosses(a.statements)) <=> Verdict(a).rejected
                      /\ Verdict(a).rejected => Verdict(a).recommendation = "PASS"
  BY DEF RedLineRejects
<1>2. ~Raises(a.flags)
  BY <1>1 DEF Raises
<1> QED BY <1>2 DEF Verdict, RedLineHits

\* validate_numbers on any numbers: what ConflictsAreReal says of them.
LEMMA ConflictsReal ==
  ASSUME NEW numbers, NEW stored,
         \A f \in DOMAIN numbers : numbers[f] \in Int \cup {None},
         \A f \in DOMAIN stored : stored[f] \in Int \cup {None}
  PROVE  ConflictsAreReal(numbers, stored)
<1>1. SUFFICES ASSUME NEW f \in DOMAIN numbers \cap DOMAIN stored
               PROVE  /\ numbers[f] = stored[f] => f \notin Conflicts(numbers, stored)
                      /\ (numbers[f] # None /\ stored[f] \notin {None, 0}) =>
                           (100 * Abs(numbers[f] - stored[f]) >= 6 * Abs(stored[f])
                              => f \in Conflicts(numbers, stored))
  BY DEF ConflictsAreReal
<1>2. CASE numbers[f] = None \/ stored[f] \in {None, 0}
  BY <1>2 DEF Conflicts
<1>3. CASE numbers[f] # None /\ stored[f] \notin {None, 0}
  <2>1. PICK a \in Int, b \in Int \ {0} : a = numbers[f] /\ b = stored[f]
    BY <1>3
  <2>2. PICK d \in Nat, n \in Nat \ {0} : d = Abs(a - b) /\ n = Abs(b)
    <3>1. Abs(a - b) \in Nat
      <4>1. PICK c \in Int : c = a - b
        OBVIOUS
      <4>2. Abs(c) \in Nat
        BY DEF Abs
      <4> QED BY <4>1, <4>2
    <3>2. Abs(b) \in Nat \ {0}
      BY DEF Abs
    <3> QED BY <3>1, <3>2
  <2>3. PctDiff(a, b) = (20000 * d + n) \div (2 * n)
    BY <2>2 DEF PctDiff
  <2>4. f \in Conflicts(numbers, stored) <=> PctDiff(a, b) > 500
    BY <1>1, <1>3, <2>1 DEF Conflicts, CONFLICT_THRESHOLD
  <2>5. ASSUME a = b PROVE PctDiff(a, b) <= 500
    <3>1. d = 0
      BY <2>2, <2>5 DEF Abs
    <3>2. (20000 * d + n) <= 1 * (2 * n)
      BY <3>1
    <3>3. (20000 * d + n) \div (2 * n) <= 1 /\ (20000 * d + n) \div (2 * n) \in Int
      BY <3>2, Quotients
    <3> QED BY <2>3, <3>3
  <2>6. ASSUME 100 * d >= 6 * n PROVE PctDiff(a, b) > 500
    <3>1. 501 * (2 * n) <= 20000 * d + n
      BY <2>6
    <3>2. 501 <= (20000 * d + n) \div (2 * n) /\ (20000 * d + n) \div (2 * n) \in Int
      BY <3>1, Quotients
    <3> QED BY <2>3, <3>2
  <2>7. PctDiff(a, b) \in Int
    BY <2>3, Quotients
  <2> QED BY <2>1, <2>2, <2>4, <2>5, <2>6, <2>7
<1> QED BY <1>2, <1>3

(* The spending that counts for a month, under a name.                      *)
CostsIn(S) == SumOver(S, LAMBDA c : c.cost)

\* What is spent is a total of costs.
LEMMA SpendSum ==
  ASSUME NEW S, NEW W, \A x \in S : W[x] = x.cost
  PROVE  CostsIn(S) = Total(S, W)
<1> DEFINE P(f) == f = [s \in SUBSET S |->
                         IF s = {} THEN 0
                         ELSE LET x == CHOOSE y \in s : TRUE IN f[s \ {x}] + x.cost]
<1>1. CostsIn(S) = (CHOOSE f : P(f))[S]
  BY DEF CostsIn, SumOver, FoldSet, MapThenFoldSet
<1>2. \A f : P(f) <=> Folds(f, S, W)
  BY DEF Folds
<1> HIDE DEF P
<1>3. (CHOOSE f : P(f)) = (CHOOSE f : Folds(f, S, W))
  BY <1>2, Zenon
<1> QED BY <1>1, <1>3, TotalIsFold

\* check_budget_available on any calls: what BudgetCaps says of them.
LEMMA BudgetIsCapped ==
  ASSUME NEW calls, IsFiniteSet(calls), \A c \in calls : c.cost \in Nat, NEW month
  PROVE  BudgetCaps(calls, month)
<1> DEFINE W == [c \in calls |-> c.cost]
           In(C) == {c \in C : c.created_at >= month}
<1>1. W \in [calls -> Int] /\ \A c \in calls : W[c] = c.cost /\ W[c] >= 0
  OBVIOUS
<1> HIDE DEF W
<1>2. ASSUME NEW C \in SUBSET calls PROVE MonthlySpend(C, month) = Total(In(C), W)
  <2>1. MonthlySpend(C, month) = CostsIn(In(C))
    BY DEF MonthlySpend, CostsIn
  <2>2. \A x \in In(C) : W[x] = x.cost
    BY <1>1
  <2> HIDE DEF In
  <2> QED BY <2>1, <2>2, SpendSum
<1>3. \A C \in SUBSET calls : In(C) \in SUBSET calls
  OBVIOUS
<1>4. \A C \in SUBSET calls : MonthlySpend(C, month) \in Int
  <2> HIDE DEF In
  <2> QED BY <1>1, <1>2, <1>3, TotalStep
<1>5. ASSUME NEW c \in calls PROVE MonthlySpend(calls \ {c}, month) <= MonthlySpend(calls, month)
  <2>1. In(calls \ {c}) \in SUBSET In(calls) /\ In(calls) \in SUBSET calls
    OBVIOUS
  <2> HIDE DEF In
  <2>2. Total(In(calls \ {c}), W) <= Total(In(calls), W)
    BY <1>1, <2>1, TotalOfPart
  <2> QED BY <1>2, <2>2
<1>6. \A c \in calls : calls \ {c} \in SUBSET calls
  OBVIOUS
<1>7. PICK t \in Int : t = MonthlySpend(calls, month)
  BY <1>4
<1>8. t >= HARD_CAP_USD => ~CheckBudgetAvailable(calls, month)
  BY <1>7 DEF CheckBudgetAvailable, HARD_CAP_USD
<1>9. ASSUME NEW c \in calls, ~CheckBudgetAvailable(calls \ {c}, month)
      PROVE  ~CheckBudgetAvailable(calls, month)
  <2>1. PICK u \in Int : u = MonthlySpend(calls \ {c}, month)
    BY <1>4, <1>6
  <2>2. u <= t
    BY <1>5, <1>7, <2>1
  <2> QED BY <1>7, <1>9, <2>1, <2>2 DEF CheckBudgetAvailable, HARD_CAP_USD
<1> QED BY <1>7, <1>8, <1>9 DEF BudgetCaps

\* Where the annual statements are, and the newest of them.
LEMMA NewestAnnual ==
  ASSUME NEW s \in Seq(AnyStatement)
  PROVE  /\ Annual(s) \subseteq 1..Len(s)
         /\ Annual(s) = {} => LatestAnnual(s) = None
         /\ Annual(s) # {} => /\ Min(Annual(s)) \in Annual(s)
                              /\ \A i \in Annual(s) : Min(Annual(s)) <= i
                              /\ LatestAnnual(s) = s[Min(Annual(s))]
                              /\ LatestAnnual(s) \in AnyStatement /\ LatestAnnual(s) # None
<1>1. Annual(s) \subseteq 1..Len(s)
  BY DEF Annual
<1>2. Annual(s) = {} => LatestAnnual(s) = None
  BY DEF LatestAnnual
<1>3. ASSUME Annual(s) # {}
      PROVE  Min(Annual(s)) \in Annual(s) /\ \A i \in Annual(s) : Min(Annual(s)) <= i
  <2>1. IsFiniteSet(1..Len(s)) /\ 1..Len(s) \subseteq Int
    BY FS_Interval
  <2>2. IsFiniteSet(Annual(s)) /\ Annual(s) \subseteq Int
    BY <1>1, <2>1, FS_Subset
  <2> QED BY <1>3, <2>2, Extremes
<1>4. ASSUME Annual(s) # {} PROVE LatestAnnual(s) = s[Min(Annual(s))] /\ LatestAnnual(s) \in AnyStatement
  BY <1>1, <1>3, <1>4 DEF LatestAnnual
<1>5. None \notin AnyStatement
  BY NoneIsNoStatement DEF AnyStatement
<1> QED BY <1>1, <1>2, <1>3, <1>4, <1>5

\* What follows the newest statement.
LEMMA PreviousAnnual ==
  ASSUME NEW s \in Seq(AnyStatement), Len(s) > 1
  PROVE  /\ Tail(s) \in Seq(AnyStatement) /\ Len(Tail(s)) = Len(s) - 1
         /\ \A i \in 1..Len(s) - 1 : Tail(s)[i] = s[i + 1]
         /\ PrevAnnual(s) = LatestAnnual(Tail(s))
<1>1. s # <<>> /\ ~(Len(s) <= 1)
  OBVIOUS
<1>2. Tail(s) \in Seq(AnyStatement) /\ Len(Tail(s)) = Len(s) - 1
  BY <1>1
<1>3. \A i \in 1..Len(s) - 1 : Tail(s)[i] = s[i + 1]
  BY <1>1
<1> QED BY <1>1, <1>2, <1>3 DEF PrevAnnual

\* A set of five values is finite.
LEMMA FiveIsFinite ==
  ASSUME NEW a, NEW b, NEW c, NEW d, NEW e
  PROVE  IsFiniteSet({a, b, c, d, e}) /\ IsFiniteSet({a, b})
<1>1. IsFiniteSet({a})
  BY FS_Singleton
<1>2. IsFiniteSet({a} \cup {b})
  BY <1>1, FS_AddElement
<1>3. IsFiniteSet(({a} \cup {b}) \cup {c})
  BY <1>2, FS_AddElement
<1>4. IsFiniteSet((({a} \cup {b}) \cup {c}) \cup {d})
  BY <1>3, FS_AddElement
<1>5. IsFiniteSet(((({a} \cup {b}) \cup {c}) \cup {d}) \cup {e})
  BY <1>4, FS_AddElement
<1>6. {a, b} = {a} \cup {b} /\ {a, b, c, d, e} = ((({a} \cup {b}) \cup {c}) \cup {d}) \cup {e}
  OBVIOUS
<1> QED BY <1>2, <1>5, <1>6

\* Three values that differ are three.
LEMMA ThreeAreThree ==
  ASSUME NEW a, NEW b, NEW c, a # b, a # c, b # c
  PROVE  Cardinality({a, b, c}) = 3
<1>1. IsFiniteSet({a}) /\ Cardinality({a}) = 1 /\ b \notin {a}
  BY FS_Singleton
<1>2. IsFiniteSet({a} \cup {b}) /\ Cardinality({a} \cup {b}) = Cardinality({a}) + 1
  BY <1>1, FS_AddElement
<1>3. c \notin {a} \cup {b}
  OBVIOUS
<1>4. Cardinality(({a} \cup {b}) \cup {c}) = Cardinality({a} \cup {b}) + 1
  BY <1>2, <1>3, FS_AddElement
<1>5. {a, b, c} = ({a} \cup {b}) \cup {c}
  OBVIOUS
<1>6. Cardinality({a} \cup {b}) = 2
  BY <1>1, <1>2
<1> QED BY <1>4, <1>5, <1>6

RuleNames == {"not_st", "market_cap_sanity", "pe_range", "roe_proxy", "revenue_growth"}

\* The rules that a stock fails, one by one.
LEMMA RulesFailed ==
  ASSUME NEW stock
  PROVE  /\ FailedRules(stock) \subseteq RuleNames
         /\ "not_st" \in FailedRules(stock) <=> stock.st
         /\ "market_cap_sanity" \in FailedRules(stock) <=> ~(stock.pe \notin {None, 0} /\ stock.pe > 0)
         /\ "pe_range" \in FailedRules(stock) <=> ~(stock.pe \notin {None, 0} /\ stock.pe \in 5..50)
         /\ "roe_proxy" \in FailedRules(stock) <=>
              \/ LatestAnnual(stock.statements) = None
              \/ LatestAnnual(stock.statements).net_margin = None
              \/ LatestAnnual(stock.statements).net_margin < 8
         /\ "revenue_growth" \in FailedRules(stock) <=> RevenueCollapsed(stock.statements)
BY DEF FailedRules, RuleNames, MIN_PE, MAX_PE, MIN_ROE_PCT

\* A stock that fails no other rule is judged no worse.
LEMMA FewerFailures ==
  ASSUME NEW a, NEW b, FailedRules(b) \subseteq FailedRules(a), NEW answer \in {"yes", "no", None}
  PROVE  Rank[Screen(b, answer)] >= Rank[Screen(a, answer)]
<1>1. IsFiniteSet(RuleNames)
  BY FiveIsFinite DEF RuleNames
<1>2. IsFiniteSet(FailedRules(a))
  BY <1>1, RulesFailed, FS_Subset
<1>3. PICK m \in Nat, n \in Nat : m = Cardinality(FailedRules(b)) /\ n = Cardinality(FailedRules(a)) /\ m <= n
  <2>1. IsFiniteSet(FailedRules(b)) /\ Cardinality(FailedRules(b)) <= Cardinality(FailedRules(a))
    BY <1>2, FS_Subset
  <2> QED BY <1>2, <2>1, FS_CardinalityType
<1>4. Rank["rejected"] = 0 /\ Rank["borderline"] = 1 /\ Rank["passed"] = 2
  BY DEF Rank
<1>5. \A k \in Nat : \A s : k = Cardinality(FailedRules(s)) =>
        Screen(s, answer) = IF k = 0 THEN "passed" ELSE IF k >= 3 THEN "rejected"
                            ELSE IF answer = None THEN "borderline"
                            ELSE IF answer = "yes" THEN "passed" ELSE "rejected"
  BY DEF Screen
<1>6. Screen(a, answer) = IF n = 0 THEN "passed" ELSE IF n >= 3 THEN "rejected"
                          ELSE IF answer = None THEN "borderline"
                          ELSE IF answer = "yes" THEN "passed" ELSE "rejected"
  BY <1>3, <1>5
<1>7. Screen(b, answer) = IF m = 0 THEN "passed" ELSE IF m >= 3 THEN "rejected"
                          ELSE IF answer = None THEN "borderline"
                          ELSE IF answer = "yes" THEN "passed" ELSE "rejected"
  BY <1>3, <1>5
<1> QED BY <1>3, <1>4, <1>6, <1>7

\* Better margins leave the years where they are, and all else in them.
LEMMA BetterMargins ==
  ASSUME NEW s \in Seq(AnyStatement), NEW t,
         t = [i \in DOMAIN s |->
               [s[i] EXCEPT !.net_margin = IF @ = None THEN MIN_ROE_PCT ELSE Max({@, MIN_ROE_PCT})]]
  PROVE  /\ t \in Seq(AnyStatement) /\ Len(t) = Len(s)
         /\ \A i \in 1..Len(s) : /\ t[i].type = s[i].type /\ t[i].revenue = s[i].revenue
                                 /\ t[i].net_margin \in Int /\ t[i].net_margin >= 8
<1>1. DOMAIN s = 1..Len(s) /\ Len(s) \in Nat /\ \A i \in 1..Len(s) : s[i] \in AnyStatement
  OBVIOUS
<1>2. ASSUME NEW i \in 1..Len(s)
      PROVE  /\ t[i] \in AnyStatement /\ t[i].type = s[i].type /\ t[i].revenue = s[i].revenue
             /\ t[i].net_margin \in Int /\ t[i].net_margin >= 8
  <2> DEFINE m == IF s[i].net_margin = None THEN 8 ELSE Max({s[i].net_margin, 8})
  <2>1. m \in Int /\ m >= 8
    <3>1. CASE s[i].net_margin = None
      BY <3>1
    <3>2. CASE s[i].net_margin # None
      <4>1. PICK n \in Int : n = s[i].net_margin
        BY <1>1, <3>2 DEF AnyStatement
      <4>2. IsFiniteSet({n, 8})
        BY FiveIsFinite
      <4>3. Max({n, 8}) \in {n, 8} /\ \A x \in {n, 8} : x <= Max({n, 8})
        <5>1. {n, 8} \subseteq Int /\ {n, 8} # {}
          OBVIOUS
        <5> QED BY <4>2, <5>1, Extremes
      <4>4. Max({n, 8}) \in Int /\ 8 <= Max({n, 8})
        BY <4>3
      <4> QED BY <3>2, <4>1, <4>4
    <3> QED BY <3>1, <3>2
  <2>2. t[i] = [s[i] EXCEPT !.net_margin = m]
    BY <1>1 DEF MIN_ROE_PCT
  <2>3. s[i] \in AnyStatement
    BY <1>1
  <2> HIDE DEF m
  <2>4. [s[i] EXCEPT !.net_margin = m] = [type |-> s[i].type, net_profit |-> s[i].net_profit,
                                           net_margin |-> m, revenue |-> s[i].revenue]
    BY <2>3 DEF AnyStatement
  <2> QED BY <2>1, <2>2, <2>3, <2>4 DEF AnyStatement
<1>3. t \in [1..Len(s) -> AnyStatement]
  <2>1. DOMAIN t = 1..Len(s) /\ t = [i \in 1..Len(s) |-> t[i]]
    BY <1>1
  <2> QED BY <1>2, <2>1
<1>4. t \in Seq(AnyStatement) /\ Len(t) = Len(s)
  <2>1. PICK n \in Nat : n = Len(s)
    BY <1>1
  <2>2. t \in [1..n -> AnyStatement]
    BY <1>3, <2>1
  <2>3. t \in Seq(AnyStatement)
    BY <2>2, SeqDef
  <2>4. Len(t) = n
    BY <2>2, <2>3, LenProperties
  <2> QED BY <2>1, <2>3, <2>4
<1> QED BY <1>2, <1>4

\* screen_stock on any stock: what ScreenIsSound says of it.
LEMMA ScreensSound ==
  ASSUME NEW stock \in [st: BOOLEAN, pe: Int \cup {None}, statements: Seq(AnyStatement)],
         NEW answer \in {"yes", "no", None}
  PROVE  ScreenIsSound(stock, answer)
<1> DEFINE s == stock.statements
<1>1. s \in Seq(AnyStatement) /\ Len(s) \in Nat /\ stock.pe \in Int \cup {None}
  OBVIOUS
<1>2. ASSUME stock.pe # None, stock.pe < 0, LatestAnnual(s) = None \/ LatestAnnual(s).net_margin = -1
      PROVE  Screen(stock, answer) = "rejected"
  <2>1. {"market_cap_sanity", "pe_range", "roe_proxy"} \subseteq FailedRules(stock)
    <3>1. PICK p \in Int : p = stock.pe /\ p < 0
      BY <1>1, <1>2
    <3>2. "market_cap_sanity" \in FailedRules(stock) /\ "pe_range" \in FailedRules(stock)
      <4>1. \A q \in Int : q < 0 => q \notin 5..50 /\ ~(q > 0)
        OBVIOUS
      <4> QED BY <3>1, <4>1, RulesFailed
    <3>3. "roe_proxy" \in FailedRules(stock)
      <4>1. -1 < 8
        OBVIOUS
      <4>2. CASE LatestAnnual(s) = None
        BY <4>2, RulesFailed
      <4>3. CASE LatestAnnual(s).net_margin = -1
        <5>1. LatestAnnual(stock.statements).net_margin < 8
          BY <4>1, <4>3
        <5> QED BY <5>1, RulesFailed
      <4> QED BY <1>2, <4>2, <4>3
    <3> QED BY <3>2, <3>3
  <2>2. IsFiniteSet(FailedRules(stock))
    <3>1. IsFiniteSet(RuleNames)
      BY FiveIsFinite DEF RuleNames
    <3> QED BY <3>1, RulesFailed, FS_Subset
  <2>3. Cardinality({"market_cap_sanity", "pe_range", "roe_proxy"}) = 3
    BY ThreeAreThree
  <2>4. 3 <= Cardinality(FailedRules(stock)) /\ Cardinality(FailedRules(stock)) \in Nat
    BY <2>1, <2>2, <2>3, FS_Subset, FS_CardinalityType
  <2> QED BY <2>4 DEF Screen
<1>3. ASSUME Len(s) >= 2, s[1].type = "annual", s[2].type = "annual",
             s[1].revenue # None, s[2].revenue # None
      PROVE  "revenue_growth" \in FailedRules(stock) <=> 5 * s[1].revenue < 4 * s[2].revenue
  <2>1. Len(s) > 1 /\ 1 \in Annual(s) /\ 2 \in 1..Len(s)
    BY <1>1, <1>3 DEF Annual
  <2>2. LatestAnnual(s) = s[1] /\ LatestAnnual(s) # None
    <3>1. Min(Annual(s)) \in 1..Len(s) /\ Min(Annual(s)) <= 1
      BY <1>1, <2>1, NewestAnnual
    <3>2. Min(Annual(s)) = 1
      BY <1>1, <3>1
    <3> QED BY <1>1, <2>1, <3>2, NewestAnnual
  <2>3. /\ Tail(s) \in Seq(AnyStatement) /\ Len(Tail(s)) = Len(s) - 1
        /\ \A i \in 1..Len(s) - 1 : Tail(s)[i] = s[i + 1]
        /\ PrevAnnual(s) = LatestAnnual(Tail(s))
    BY <1>1, <2>1, PreviousAnnual
  <2>4. Tail(s)[1] = s[2] /\ 1 \in Annual(Tail(s))
    <3>1. 1 \in 1..Len(s) - 1
      BY <1>1, <2>1
    <3> QED BY <1>1, <1>3, <2>3, <3>1 DEF Annual
  <2>5. PrevAnnual(s) = s[2] /\ PrevAnnual(s) # None
    <3>1. Min(Annual(Tail(s))) \in 1..Len(Tail(s)) /\ Min(Annual(Tail(s))) <= 1
      BY <2>3, <2>4, NewestAnnual
    <3>2. Min(Annual(Tail(s))) = 1
      BY <1>1, <2>3, <3>1
    <3> QED BY <2>3, <2>4, <3>2, NewestAnnual
  <2>6. PICK a \in Nat, b \in Nat : a = s[1].revenue /\ b = s[2].revenue
    <3>1. s[1] \in AnyStatement /\ s[2] \in AnyStatement
      BY <1>1, <2>1
    <3> QED BY <1>3, <3>1 DEF AnyStatement
  <2>7. RevenueCollapsed(s) <=> b > 0 /\ 100 * (a - b) < -20 * b
    <3>1. a # None /\ b # None
      BY NoneAssumption
    <3> QED BY <2>2, <2>5, <2>6, <3>1 DEF RevenueCollapsed, MAX_REVENUE_DECLINE_PCT
  <2>8. (b > 0 /\ 100 * (a - b) < -20 * b) <=> 5 * a < 4 * b
    OBVIOUS
  <2> QED BY <2>6, <2>7, <2>8, RulesFailed
<1>4. ASSUME NEW b \in Improved(stock) PROVE FailedRules(b) \subseteq FailedRules(stock)
  <2> DEFINE t == [i \in DOMAIN s |->
                    [s[i] EXCEPT !.net_margin = IF @ = None THEN MIN_ROE_PCT ELSE Max({@, MIN_ROE_PCT})]]
  <2>1. b \in {[stock EXCEPT !.st = FALSE], [stock EXCEPT !.pe = MIN_PE], [stock EXCEPT !.statements = t]}
    BY DEF Improved
  <2>2. \A c : FailedRules(c) \subseteq RuleNames
    BY RulesFailed
  <2>3. CASE b = [stock EXCEPT !.st = FALSE]
    <3>1. b.st = FALSE /\ b.pe = stock.pe /\ b.statements = s
      BY <2>3
    <3> HIDE DEF s
    <3> QED BY <2>2, <3>1, RulesFailed DEF RuleNames, s
  <2>4. CASE b = [stock EXCEPT !.pe = MIN_PE]
    <3>1. b.st = stock.st /\ b.pe = 5 /\ b.statements = s
      BY <2>4 DEF MIN_PE
    <3>2. 5 \notin {None, 0} /\ 5 \in 5..50
      BY NoneAssumption
    <3> HIDE DEF s
    <3> QED BY <2>2, <3>1, <3>2, RulesFailed DEF RuleNames, s
  <2>5. CASE b = [stock EXCEPT !.statements = t]
    <3>1. b.st = stock.st /\ b.pe = stock.pe /\ b.statements = t
      BY <2>5
    <3>2. /\ t \in Seq(AnyStatement) /\ Len(t) = Len(s)
          /\ \A i \in 1..Len(s) : /\ t[i].type = s[i].type /\ t[i].revenue = s[i].revenue
                                  /\ t[i].net_margin \in Int /\ t[i].net_margin >= 8
      <4>1. \A u : u = t => /\ u \in Seq(AnyStatement) /\ Len(u) = Len(s)
                            /\ \A i \in 1..Len(s) : /\ u[i].type = s[i].type /\ u[i].revenue = s[i].revenue
                                                    /\ u[i].net_margin \in Int /\ u[i].net_margin >= 8
        BY <1>1, BetterMargins
      <4> QED BY <4>1
    <3> HIDE DEF s, t
    <3>3. Annual(t) = Annual(s)
      BY <1>1, <3>2 DEF Annual
    <3>4. "roe_proxy" \in FailedRules(b) => "roe_proxy" \in FailedRules(stock)
      <4>1. CASE Annual(s) = {}
        <5>1. LatestAnnual(s) = None
          BY <1>1, <4>1, NewestAnnual
        <5> QED BY <5>1, RulesFailed DEF s
      <4>2. CASE Annual(s) # {}
        <5>1. LatestAnnual(t) # None /\ LatestAnnual(t) = t[Min(Annual(s))] /\ Min(Annual(s)) \in 1..Len(s)
          BY <1>1, <3>2, <3>3, <4>2, NewestAnnual
        <5>2. LatestAnnual(t).net_margin \in Int /\ LatestAnnual(t).net_margin >= 8
          BY <3>2, <5>1
        <5>3. LatestAnnual(t).net_margin # None /\ ~(LatestAnnual(t).net_margin < 8)
          BY <5>2, NoneAssumption
        <5> QED BY <3>1, <5>1, <5>3, RulesFailed
      <4> QED BY <4>1, <4>2
    <3>5. RevenueCollapsed(t) => RevenueCollapsed(s)
      <4>1. SUFFICES ASSUME RevenueCollapsed(t) PROVE RevenueCollapsed(s)
        OBVIOUS
      <4>2. LatestAnnual(t) # None /\ PrevAnnual(t) # None
        BY <4>1 DEF RevenueCollapsed
      <4>3. Annual(s) # {} /\ Len(s) > 1
        <5>1. Annual(s) # {}
          BY <3>2, <3>3, <4>2, NewestAnnual
        <5>2. ~(Len(t) <= 1)
          BY <4>2 DEF PrevAnnual
        <5> QED BY <1>1, <3>2, <5>1, <5>2
      <4>4. LatestAnnual(s) # None /\ LatestAnnual(s).revenue = LatestAnnual(t).revenue
        <5>1. /\ LatestAnnual(s) # None /\ LatestAnnual(s) = s[Min(Annual(s))] /\ Min(Annual(s)) \in 1..Len(s)
              /\ LatestAnnual(t) = t[Min(Annual(s))]
          BY <1>1, <3>2, <3>3, <4>3, NewestAnnual
        <5> QED BY <3>2, <5>1
      <4>5. /\ Tail(s) \in Seq(AnyStatement) /\ Len(Tail(s)) = Len(s) - 1
            /\ \A i \in 1..Len(s) - 1 : Tail(s)[i] = s[i + 1]
            /\ PrevAnnual(s) = LatestAnnual(Tail(s))
        BY <1>1, <4>3, PreviousAnnual
      <4>6. /\ Tail(t) \in Seq(AnyStatement) /\ Len(Tail(t)) = Len(s) - 1
            /\ \A i \in 1..Len(s) - 1 : Tail(t)[i] = t[i + 1]
            /\ PrevAnnual(t) = LatestAnnual(Tail(t))
        BY <3>2, <4>3, PreviousAnnual
      <4>7. \A i \in 1..Len(s) - 1 : /\ Tail(t)[i].type = Tail(s)[i].type
                                     /\ Tail(t)[i].revenue = Tail(s)[i].revenue
        <5>1. \A i \in 1..Len(s) - 1 : i + 1 \in 1..Len(s)
          BY <1>1
        <5> QED BY <3>2, <4>5, <4>6, <5>1
      <4>8. Annual(Tail(t)) = Annual(Tail(s))
        BY <4>5, <4>6, <4>7 DEF Annual
      <4>9. Annual(Tail(s)) # {}
        BY <4>2, <4>6, <4>8, NewestAnnual
      <4>10. PrevAnnual(s) # None /\ PrevAnnual(s).revenue = PrevAnnual(t).revenue
        <5>1. /\ PrevAnnual(s) # None /\ PrevAnnual(s) = Tail(s)[Min(Annual(Tail(s)))]
              /\ Min(Annual(Tail(s))) \in 1..Len(s) - 1
              /\ PrevAnnual(t) = Tail(t)[Min(Annual(Tail(s)))]
          BY <4>5, <4>6, <4>8, <4>9, NewestAnnual
        <5> QED BY <4>7, <5>1
      <4> QED BY <4>1, <4>4, <4>10 DEF RevenueCollapsed
    <3>6. \A r \in {"not_st", "market_cap_sanity", "pe_range"} : r \in FailedRules(b) => r \in FailedRules(stock)
      BY <3>1, RulesFailed
    <3>7. "revenue_growth" \in FailedRules(b) => "revenue_growth" \in FailedRules(stock)
      BY <3>1, <3>5, RulesFailed DEF s
    <3> QED BY <2>2, <3>4, <3>6, <3>7 DEF RuleNames
  <2> HIDE DEF t
  <2> QED BY <2>1, <2>3, <2>4, <2>5
<1>5. \A b \in Improved(stock) : Rank[Screen(b, answer)] >= Rank[Screen(stock, answer)]
  BY <1>4, FewerFailures
<1> QED BY <1>2, <1>3, <1>5 DEF ScreenIsSound

-----------------------------------------------------------------------------
(* The score.                                                                *)

(* The masters who count with m as one dimension.                            *)
DimOf(m, scores, source, tags) ==
  LET Shared(k) == k \in ADVANTAGE_MASTERS /\ k \in DOMAIN tags /\ tags[k] # None
  IN  IF Shared(m) THEN {k \in Contributing(scores, source) : Shared(k) /\ tags[k] = tags[m]} ELSE {m}

\* The dimensions divide the contributing masters: each is in one of them.
LEMMA DimensionsDivide ==
  ASSUME NEW scores, NEW source, NEW tags
  PROVE  /\ \A d : d \in Dimensions(scores, source, tags) <=>
                 \E m \in Contributing(scores, source) : d = DimOf(m, scores, source, tags)
         /\ \A m \in Contributing(scores, source) : m \in DimOf(m, scores, source, tags)
         /\ \A d \in Dimensions(scores, source, tags) : d \subseteq Contributing(scores, source) /\ d # {}
         /\ \A d \in Dimensions(scores, source, tags) : \A m :
              m \in d => d = DimOf(m, scores, source, tags)
<1> DEFINE in == Contributing(scores, source)
           Shared(m) == m \in ADVANTAGE_MASTERS /\ m \in DOMAIN tags /\ tags[m] # None
           D(m) == DimOf(m, scores, source, tags)
<1>1. Dimensions(scores, source, tags) = {D(m) : m \in in}
  BY DEF Dimensions, DimOf
<1>2. \A m : D(m) = IF Shared(m) THEN {k \in in : Shared(k) /\ tags[k] = tags[m]} ELSE {m}
  BY DEF DimOf
<1> HIDE DEF D, in, Shared
<1>3. \A m \in in : m \in D(m) /\ D(m) \subseteq in
  BY <1>2
<1>4. \A n \in in : \A m \in D(n) : D(m) = D(n)
  BY <1>2
<1>5. \A d : d \in Dimensions(scores, source, tags) <=> \E m \in in : d = D(m)
  BY <1>1
<1> QED BY <1>3, <1>4, <1>5 DEF D, in

\* The weights of a profile are positive and finitely many.
LEMMA WeightsKnown ==
  ASSUME NEW source
  PROVE  /\ IsFiniteSet(DOMAIN WeightsFor(source))
         /\ \A m \in DOMAIN WeightsFor(source) : WeightsFor(source)[m] \in Nat \ {0}
<1>1. /\ IsFiniteSet({"duan", "buffett", "munger", "lilu", "lilu"})
      /\ IsFiniteSet({"duan", "buffett", "munger", "lilu", "scarcity"})
  BY FiveIsFinite
<1>2. /\ DOMAIN PROFILE_WEIGHTS["quality_screen"] = {"duan", "buffett", "munger", "lilu", "lilu"}
      /\ DOMAIN PROFILE_WEIGHTS["theme_scan"] = {"duan", "buffett", "munger", "lilu", "scarcity"}
      /\ DOMAIN PROFILE_WEIGHTS = {"quality_screen", "theme_scan"}
  BY DEF PROFILE_WEIGHTS
<1>3. \/ WeightsFor(source) = PROFILE_WEIGHTS["quality_screen"]
      \/ WeightsFor(source) = PROFILE_WEIGHTS["theme_scan"]
  BY <1>2 DEF WeightsFor
<1>4. \A m \in {"duan", "buffett", "munger", "lilu", "lilu"} :
        PROFILE_WEIGHTS["quality_screen"][m] \in Nat \ {0}
  BY DEF PROFILE_WEIGHTS
<1>5. \A m \in {"duan", "buffett", "munger", "lilu", "scarcity"} :
        PROFILE_WEIGHTS["theme_scan"][m] \in Nat \ {0}
  BY DEF PROFILE_WEIGHTS
<1>6. CASE WeightsFor(source) = PROFILE_WEIGHTS["quality_screen"]
  BY <1>1, <1>2, <1>4, <1>6
<1>7. CASE WeightsFor(source) = PROFILE_WEIGHTS["theme_scan"]
  BY <1>1, <1>2, <1>5, <1>7
<1> QED BY <1>3, <1>6, <1>7

\* There are finitely many masters and dimensions.
LEMMA DimensionsFinite ==
  ASSUME NEW scores, NEW source, NEW tags
  PROVE  /\ IsFiniteSet(Contributing(scores, source))
         /\ IsFiniteSet(Dimensions(scores, source, tags))
         /\ \A d \in Dimensions(scores, source, tags) : IsFiniteSet(d) /\ d \subseteq DOMAIN WeightsFor(source)
         /\ Dimensions(scores, source, tags) = {} <=> Contributing(scores, source) = {}
<1> DEFINE in == Contributing(scores, source)
           dims == Dimensions(scores, source, tags)
           f == [m \in in |-> DimOf(m, scores, source, tags)]
<1>1. IsFiniteSet(in) /\ in \subseteq DOMAIN WeightsFor(source)
  <2>1. in \subseteq DOMAIN WeightsFor(source)
    BY DEF Contributing
  <2> QED BY <2>1, WeightsKnown, FS_Subset
<1>2. /\ \A d : d \in dims <=> \E m \in in : d = DimOf(m, scores, source, tags)
      /\ \A d \in dims : d \subseteq in
  BY DimensionsDivide
<1>3. f \in [in -> dims] /\ \A d \in dims : \E m \in in : f[m] = d
  BY <1>2
<1> HIDE DEF f, dims, in
<1>4. IsFiniteSet(dims)
  BY <1>1, <1>3, FiniteRange
<1>5. \A d \in dims : IsFiniteSet(d) /\ d \subseteq DOMAIN WeightsFor(source)
  BY <1>1, <1>2, FS_Subset
<1>6. dims = {} <=> in = {}
  BY <1>2
<1> QED BY <1>1, <1>4, <1>5, <1>6 DEF in, dims

\* The weight of a dimension is that of its heaviest master.
LEMMA WeightOfDim ==
  ASSUME NEW source, NEW d, d \subseteq DOMAIN WeightsFor(source), d # {}
  PROVE  /\ WeightOf(d, source) \in Nat \ {0}
         /\ \E m \in d : WeightOf(d, source) = WeightsFor(source)[m]
         /\ \A m \in d : WeightsFor(source)[m] <= WeightOf(d, source)
<1> DEFINE R == {WeightsFor(source)[m] : m \in d}
           f == [m \in d |-> WeightsFor(source)[m]]
<1>1. IsFiniteSet(d)
  BY WeightsKnown, FS_Subset
<1>2. f \in [d -> R] /\ \A r \in R : \E m \in d : f[m] = r
  OBVIOUS
<1>3. R \subseteq Int /\ R # {} /\ \A r \in R : r \in Nat \ {0}
  BY WeightsKnown
<1>4. IsFiniteSet(R)
  <2> HIDE DEF f, R
  <2> QED BY <1>1, <1>2, FiniteRange
<1>5. Max(R) \in R /\ \A x \in R : x <= Max(R)
  <2> HIDE DEF R
  <2> QED BY <1>3, <1>4, Extremes
<1>6. WeightOf(d, source) = Max(R)
  BY DEF WeightOf
<1> QED BY <1>3, <1>5, <1>6

(* The scores of a dimension together, and the weights of the dimensions.    *)
ScoreSum(dim, scores) == SumOver(dim, LAMBDA m : scores[m])
WeightSum(dims, source) == SumOver(dims, LAMBDA d : WeightOf(d, source))

\* The scores of a dimension are a total.
LEMMA ScoreSumIs ==
  ASSUME NEW dim, NEW scores, NEW W, \A x \in dim : W[x] = scores[x]
  PROVE  ScoreSum(dim, scores) = Total(dim, W)
<1> DEFINE P(f) == f = [s \in SUBSET dim |->
                         IF s = {} THEN 0
                         ELSE LET x == CHOOSE y \in s : TRUE IN f[s \ {x}] + scores[x]]
<1>1. ScoreSum(dim, scores) = (CHOOSE f : P(f))[dim]
  BY DEF ScoreSum, SumOver, FoldSet, MapThenFoldSet
<1>2. \A f : P(f) <=> Folds(f, dim, W)
  BY DEF Folds
<1> HIDE DEF P
<1>3. (CHOOSE f : P(f)) = (CHOOSE f : Folds(f, dim, W))
  BY <1>2, Zenon
<1> QED BY <1>1, <1>3, TotalIsFold

\* The weights of the dimensions are a total.
LEMMA WeightSumIs ==
  ASSUME NEW dims, NEW source, NEW W, \A x \in dims : W[x] = WeightOf(x, source)
  PROVE  WeightSum(dims, source) = Total(dims, W)
<1> DEFINE P(f) == f = [s \in SUBSET dims |->
                         IF s = {} THEN 0
                         ELSE LET x == CHOOSE y \in s : TRUE IN f[s \ {x}] + WeightOf(x, source)]
<1>1. WeightSum(dims, source) = (CHOOSE f : P(f))[dims]
  BY DEF WeightSum, SumOver, FoldSet, MapThenFoldSet
<1>2. \A f : P(f) <=> Folds(f, dims, W)
  BY DEF Folds
<1> HIDE DEF P
<1>3. (CHOOSE f : P(f)) = (CHOOSE f : Folds(f, dims, W))
  BY <1>2, Zenon
<1> QED BY <1>1, <1>3, TotalIsFold

\* The weighted means of the dimensions are a total.
LEMMA WeightedIs ==
  ASSUME NEW dims, NEW scores, NEW source, NEW W, \A x \in dims : W[x] = WeightOf(x, source) * SixTimesMean(x, scores)
  PROVE  Weighted(dims, scores, source) = Total(dims, W)
<1> DEFINE P(f) == f = [s \in SUBSET dims |->
                         IF s = {} THEN 0
                         ELSE LET x == CHOOSE y \in s : TRUE IN f[s \ {x}] + WeightOf(x, source) * SixTimesMean(x, scores)]
<1>1. Weighted(dims, scores, source) = (CHOOSE f : P(f))[dims]
  BY DEF Weighted, SumOver, FoldSet, MapThenFoldSet
<1>2. \A f : P(f) <=> Folds(f, dims, W)
  BY DEF Folds
<1> HIDE DEF P
<1>3. (CHOOSE f : P(f)) = (CHOOSE f : Folds(f, dims, W))
  BY <1>2, Zenon
<1> QED BY <1>1, <1>3, TotalIsFold

\* What the mean of a dimension is, with numbers put for its terms.
LEMMA MeanIs ==
  ASSUME NEW d, IsFiniteSet(d), d # {}, NEW scores, NEW W \in [d -> Int], \A m \in d : W[m] = scores[m]
  PROVE  /\ Cardinality(d) \in Nat \ {0} /\ Total(d, W) \in Int
         /\ SixTimesMean(d, scores) = (6 * Total(d, W)) \div Cardinality(d)
         /\ SixTimesMean(d, scores) \in Int
<1>1. Cardinality(d) \in Nat \ {0}
  BY FS_CardinalityType, FS_EmptySet
<1>2. Total(d, W) \in Int
  BY TotalStep
<1>3. SixTimesMean(d, scores) = (6 * Total(d, W)) \div Cardinality(d)
  <2>1. SixTimesMean(d, scores) = (6 * ScoreSum(d, scores)) \div Cardinality(d)
    BY DEF SixTimesMean, ScoreSum
  <2>2. ScoreSum(d, scores) = Total(d, W)
    BY ScoreSumIs
  <2> QED BY <2>1, <2>2
<1>4. PICK x \in Int, n \in Nat \ {0} : x = 6 * Total(d, W) /\ n = Cardinality(d)
  BY <1>1, <1>2
<1>5. x \div n \in Int
  BY Quotients
<1> QED BY <1>1, <1>2, <1>3, <1>4, <1>5

\* The mean of a dimension lies between its lowest and its highest score.
LEMMA MeanBetween ==
  ASSUME NEW d, IsFiniteSet(d), d # {}, NEW scores, NEW lo \in Int, NEW hi \in Int,
         \A m \in d : scores[m] \in Int /\ lo <= scores[m] /\ scores[m] <= hi
  PROVE  /\ SixTimesMean(d, scores) \in Int
         /\ 6 * lo <= SixTimesMean(d, scores) /\ SixTimesMean(d, scores) <= 6 * hi
<1> DEFINE W == [m \in d |-> scores[m]]
<1>1. W \in [d -> Int] /\ \A m \in d : W[m] = scores[m] /\ lo <= W[m] /\ W[m] <= hi
  OBVIOUS
<1> HIDE DEF W
<1>2. lo * Cardinality(d) <= Total(d, W) /\ Total(d, W) <= hi * Cardinality(d)
  <2>1. \A S \in SUBSET d : lo * Cardinality(S) <= Total(S, W) /\ Total(S, W) <= hi * Cardinality(S)
    BY <1>1, TotalBounds
  <2> QED BY <2>1
<1>3. PICK n \in Nat \ {0}, t \in Int : n = Cardinality(d) /\ t = Total(d, W)
  BY <1>1, MeanIs
<1>4. SixTimesMean(d, scores) = (6 * t) \div n /\ SixTimesMean(d, scores) \in Int
  BY <1>1, <1>3, MeanIs
<1>5. (6 * lo) * n <= 6 * t /\ 6 * t <= (6 * hi) * n
  <2>1. PICK a \in Int, b \in Int : a = lo * n /\ b = hi * n
    OBVIOUS
  <2>2. (6 * lo) * n = 6 * a /\ (6 * hi) * n = 6 * b
    BY <2>1
  <2>3. a <= t /\ t <= b
    BY <1>2, <1>3, <2>1
  <2> QED BY <2>2, <2>3
<1>6. PICK x \in Int, a \in Int, b \in Int : x = 6 * t /\ a = 6 * lo /\ b = 6 * hi
  OBVIOUS
<1>7. a * n <= x /\ x <= b * n
  BY <1>5, <1>6
<1>8. a <= x \div n /\ x \div n <= b
  BY <1>7, Quotients
<1> QED BY <1>4, <1>6, <1>8

\* Higher scores have no lower mean.
LEMMA MeanGrows ==
  ASSUME NEW d, IsFiniteSet(d), d # {}, NEW s, NEW t,
         \A m \in d : s[m] \in Int /\ t[m] \in Int /\ s[m] <= t[m]
  PROVE  /\ SixTimesMean(d, s) \in Int /\ SixTimesMean(d, t) \in Int
         /\ SixTimesMean(d, s) <= SixTimesMean(d, t)
<1> DEFINE V == [m \in d |-> s[m]]
           W == [m \in d |-> t[m]]
<1>1. /\ V \in [d -> Int] /\ W \in [d -> Int]
      /\ \A m \in d : V[m] = s[m] /\ W[m] = t[m] /\ V[m] <= W[m]
  OBVIOUS
<1> HIDE DEF V, W
<1>2. Total(d, V) <= Total(d, W)
  <2>1. \A S \in SUBSET d : Total(S, V) <= Total(S, W)
    BY <1>1, TotalGrows
  <2> QED BY <2>1
<1>3. PICK n \in Nat \ {0}, a \in Int, b \in Int : n = Cardinality(d) /\ a = Total(d, V) /\ b = Total(d, W)
  BY <1>1, MeanIs
<1>4. /\ SixTimesMean(d, s) = (6 * a) \div n /\ SixTimesMean(d, s) \in Int
      /\ SixTimesMean(d, t) = (6 * b) \div n /\ SixTimesMean(d, t) \in Int
  <2>1. SixTimesMean(d, s) = (6 * a) \div n /\ SixTimesMean(d, s) \in Int
    BY <1>1, <1>3, MeanIs
  <2>2. SixTimesMean(d, t) = (6 * b) \div n /\ SixTimesMean(d, t) \in Int
    BY <1>1, <1>3, MeanIs
  <2> QED BY <2>1, <2>2
<1>5. PICK x \in Int, y \in Int : x = 6 * a /\ y = 6 * b /\ x <= y
  BY <1>2, <1>3
<1>6. x \div n <= y \div n
  BY <1>5, Quotients
<1> QED BY <1>4, <1>5, <1>6

\* A dimension has one mean, by whatever scores that agree on it.
LEMMA MeanSame ==
  ASSUME NEW d, IsFiniteSet(d), d # {}, NEW s, NEW t,
         \A m \in d : s[m] \in Int /\ s[m] = t[m]
  PROVE  SixTimesMean(d, s) = SixTimesMean(d, t)
<1>1. \A m \in d : /\ s[m] \in Int /\ t[m] \in Int /\ s[m] <= t[m] /\ t[m] <= s[m]
  OBVIOUS
<1>2. /\ SixTimesMean(d, s) \in Int /\ SixTimesMean(d, t) \in Int
      /\ SixTimesMean(d, s) <= SixTimesMean(d, t)
  BY <1>1, MeanGrows
<1>3. SixTimesMean(d, t) <= SixTimesMean(d, s)
  BY <1>1, MeanGrows
<1> QED BY <1>2, <1>3


\* A product grows with its second factor.
LEMMA ProductGrows ==
  /\ \A w \in Nat : \A a, b \in Int : a <= b => w * a <= w * b
  /\ \A a, b, c \in Int : a * (b * c) = (a * b) * c
OBVIOUS

\* The score, with the totals of weights and of weighted means for its parts.
LEMMA ScoreParts ==
  ASSUME NEW scores, NEW source, NEW tags, Contributing(scores, source) # {},
         \A m \in Contributing(scores, source) : scores[m] \in Int
  PROVE  \E w \in [Dimensions(scores, source, tags) -> Nat \ {0}],
            v \in [Dimensions(scores, source, tags) -> Int] :
           /\ \A d \in Dimensions(scores, source, tags) :
                /\ w[d] = WeightOf(d, source) /\ SixTimesMean(d, scores) \in Int
                /\ v[d] = w[d] * SixTimesMean(d, scores)
           /\ Total(Dimensions(scores, source, tags), w) \in Nat \ {0}
           /\ OverallScore(scores, source, tags) =
                [num |-> Total(Dimensions(scores, source, tags), v),
                 den |-> 6 * Total(Dimensions(scores, source, tags), w)]
<1> DEFINE D == Dimensions(scores, source, tags)
           w == [d \in D |-> WeightOf(d, source)]
           v == [d \in D |-> WeightOf(d, source) * SixTimesMean(d, scores)]
<1>1. /\ IsFiniteSet(D) /\ D # {}
      /\ \A d \in D : IsFiniteSet(d) /\ d # {} /\ d \subseteq DOMAIN WeightsFor(source)
                      /\ d \subseteq Contributing(scores, source)
  BY DimensionsFinite, DimensionsDivide
<1>2. OverallScore(scores, source, tags) = [num |-> Weighted(D, scores, source), den |-> 6 * WeightSum(D, source)]
  BY <1>1 DEF OverallScore, WeightSum
<1> HIDE DEF D
<1>3. \A d \in D : WeightOf(d, source) \in Nat \ {0}
  BY <1>1, WeightOfDim
<1>4. \A d \in D : SixTimesMean(d, scores) \in Int
  <2>1. ASSUME NEW d \in D PROVE SixTimesMean(d, scores) \in Int
    <3>1. IsFiniteSet(d) /\ d # {} /\ \A m \in d : scores[m] \in Int /\ scores[m] <= scores[m]
      BY <1>1
    <3> QED BY <3>1, MeanGrows
  <2> QED BY <2>1
<1>5. w \in [D -> Nat \ {0}] /\ \A d \in D : w[d] = WeightOf(d, source)
  BY <1>3
<1>6. v \in [D -> Int] /\ \A d \in D : v[d] = WeightOf(d, source) * SixTimesMean(d, scores)
  <2>1. \A d \in D : WeightOf(d, source) * SixTimesMean(d, scores) \in Int
    BY <1>3, <1>4
  <2> QED BY <2>1
<1> HIDE DEF w, v
<1>7. WeightSum(D, source) = Total(D, w)
  BY <1>5, WeightSumIs
<1>8. Weighted(D, scores, source) = Total(D, v)
  BY <1>6, WeightedIs
<1>9. Total(D, w) \in Nat \ {0}
  <2>1. w \in [D -> Int] /\ \A d \in D : w[d] >= 0
    BY <1>5
  <2>2. PICK d \in D : TRUE
    BY <1>1
  <2>3. {d} \in SUBSET D /\ D \in SUBSET D
    BY <2>2
  <2>4. Total({d}, w) <= Total(D, w)
    BY <1>1, <2>1, <2>3, TotalOfPart
  <2>5. Total({d}, w) = w[d]
    BY <1>1, <2>1, TotalOfOne
  <2>6. w[d] \in Nat \ {0}
    BY <1>5
  <2>7. Total(D, w) \in Int
    BY <1>1, <2>1, TotalStep
  <2> QED BY <2>4, <2>5, <2>6, <2>7
<1>10. OverallScore(scores, source, tags) = [num |-> Total(D, v), den |-> 6 * Total(D, w)]
  BY <1>2, <1>7, <1>8
<1>11. \A d \in D : /\ w[d] = WeightOf(d, source) /\ SixTimesMean(d, scores) \in Int
                    /\ v[d] = w[d] * SixTimesMean(d, scores)
  BY <1>4, <1>5, <1>6
<1> QED BY <1>5, <1>6, <1>9, <1>10, <1>11 DEF D

\* The score lies between the lowest and the highest contributing score.
LEMMA ScoreBetween ==
  ASSUME NEW scores, NEW source, NEW tags, Contributing(scores, source) # {},
         NEW lo \in Int, NEW hi \in Int,
         \A m \in Contributing(scores, source) : scores[m] \in Int /\ lo <= scores[m] /\ scores[m] <= hi
  PROVE  LET score == OverallScore(scores, source, tags)
         IN  /\ score.num \in Int /\ score.den \in Nat \ {0}
             /\ lo * score.den <= score.num /\ score.num <= hi * score.den
<1> DEFINE D == Dimensions(scores, source, tags)
<1>1. \A m \in Contributing(scores, source) : scores[m] \in Int
  OBVIOUS
<1>2. /\ IsFiniteSet(D)
      /\ \A d \in D : IsFiniteSet(d) /\ d # {} /\ d \subseteq Contributing(scores, source)
  BY DimensionsFinite, DimensionsDivide
<1>3. PICK w \in [D -> Nat \ {0}], v \in [D -> Int] :
        /\ \A d \in D : /\ w[d] = WeightOf(d, source) /\ SixTimesMean(d, scores) \in Int
                        /\ v[d] = w[d] * SixTimesMean(d, scores)
        /\ Total(D, w) \in Nat \ {0}
        /\ OverallScore(scores, source, tags) = [num |-> Total(D, v), den |-> 6 * Total(D, w)]
  BY <1>1, ScoreParts
<1> HIDE DEF D
<1> DEFINE L == [d \in D |-> (6 * lo) * w[d]]
           H == [d \in D |-> (6 * hi) * w[d]]
<1>4. PICK a \in Int, b \in Int : a = 6 * lo /\ b = 6 * hi
  OBVIOUS
<1>5. /\ L \in [D -> Int] /\ H \in [D -> Int] /\ w \in [D -> Int]
      /\ \A d \in D : L[d] = a * w[d] /\ H[d] = b * w[d]
  BY <1>4
<1> HIDE DEF L, H
<1>6. ASSUME NEW d \in D PROVE L[d] <= v[d] /\ v[d] <= H[d]
  <2>1. PICK n \in Nat, x \in Int : n = w[d] /\ x = SixTimesMean(d, scores) /\ v[d] = n * x
    BY <1>3
  <2>2. IsFiniteSet(d) /\ d # {} /\ \A m \in d : scores[m] \in Int /\ lo <= scores[m] /\ scores[m] <= hi
    BY <1>2
  <2>3. 6 * lo <= x /\ x <= 6 * hi
    BY <2>1, <2>2, MeanBetween
  <2>4. n * a <= n * x /\ n * x <= n * b
    BY <1>4, <2>3, ProductGrows
  <2>5. L[d] = n * a /\ H[d] = n * b
    <3>1. a * n = n * a /\ b * n = n * b
      OBVIOUS
    <3> QED BY <1>5, <2>1, <3>1
  <2> QED BY <2>1, <2>4, <2>5
<1>7. Total(D, L) <= Total(D, v) /\ Total(D, v) <= Total(D, H)
  <2>1. \A S \in SUBSET D : Total(S, L) <= Total(S, v)
    BY <1>2, <1>5, <1>6, TotalGrows
  <2>2. \A S \in SUBSET D : Total(S, v) <= Total(S, H)
    BY <1>2, <1>5, <1>6, TotalGrows
  <2> QED BY <2>1, <2>2
<1>8. Total(D, L) = a * Total(D, w) /\ Total(D, H) = b * Total(D, w)
  <2>1. \A V \in [D -> Int], W \in [D -> Int], c \in Int :
          (\A x \in D : W[x] = c * V[x]) => \A S \in SUBSET D : Total(S, W) = c * Total(S, V)
    BY <1>2, TotalScale
  <2>2. (\A x \in D : L[x] = a * w[x]) /\ (\A x \in D : H[x] = b * w[x])
    BY <1>5
  <2>3. \A S \in SUBSET D : Total(S, L) = a * Total(S, w)
    BY <1>5, <2>1, <2>2
  <2>4. \A S \in SUBSET D : Total(S, H) = b * Total(S, w)
    BY <1>5, <2>1, <2>2
  <2> QED BY <2>3, <2>4
<1>9. PICK t \in Nat \ {0}, n \in Int : t = Total(D, w) /\ n = Total(D, v)
  BY <1>2, <1>3, TotalStep
<1>10. a * t <= n /\ n <= b * t
  BY <1>7, <1>8, <1>9
<1>11. lo * (6 * t) = a * t /\ hi * (6 * t) = b * t
  <2>1. lo * (6 * t) = (6 * lo) * t /\ hi * (6 * t) = (6 * hi) * t
    OBVIOUS
  <2> QED BY <1>4, <2>1
<1>12. /\ OverallScore(scores, source, tags).num = n
       /\ OverallScore(scores, source, tags).den = 6 * t
  BY <1>3, <1>9
<1>13. 6 * t \in Nat \ {0}
  OBVIOUS
<1> QED BY <1>10, <1>11, <1>12, <1>13

\* Of the same masters, no lower scores give no lower a score.
LEMMA ScoreGrows ==
  ASSUME NEW s, NEW t, NEW source, NEW tags, Contributing(s, source) # {},
         Contributing(t, source) = Contributing(s, source),
         \A m \in Contributing(s, source) : s[m] \in Int /\ t[m] \in Int /\ s[m] <= t[m]
  PROVE  LET a == OverallScore(s, source, tags)
             b == OverallScore(t, source, tags)
         IN  b.num * a.den >= a.num * b.den
<1> DEFINE D == Dimensions(s, source, tags)
<1>1. \A m \in Contributing(s, source) : s[m] \in Int
  OBVIOUS
<1>2. \A m \in Contributing(t, source) : t[m] \in Int
  OBVIOUS
<1>3. Dimensions(t, source, tags) = D
  BY DEF Dimensions
<1>4. /\ IsFiniteSet(D)
      /\ \A d \in D : IsFiniteSet(d) /\ d # {} /\ d \subseteq Contributing(s, source)
  BY DimensionsFinite, DimensionsDivide
<1>5. PICK w \in [D -> Nat \ {0}], v \in [D -> Int] :
        /\ \A d \in D : /\ w[d] = WeightOf(d, source) /\ SixTimesMean(d, s) \in Int
                        /\ v[d] = w[d] * SixTimesMean(d, s)
        /\ Total(D, w) \in Nat \ {0}
        /\ OverallScore(s, source, tags) = [num |-> Total(D, v), den |-> 6 * Total(D, w)]
  BY <1>1, ScoreParts
<1>6. PICK w2 \in [D -> Nat \ {0}], v2 \in [D -> Int] :
        /\ \A d \in D : /\ w2[d] = WeightOf(d, source) /\ SixTimesMean(d, t) \in Int
                        /\ v2[d] = w2[d] * SixTimesMean(d, t)
        /\ Total(D, w2) \in Nat \ {0}
        /\ OverallScore(t, source, tags) = [num |-> Total(D, v2), den |-> 6 * Total(D, w2)]
  <2>1. Contributing(t, source) # {}
    OBVIOUS
  <2> HIDE DEF D
  <2> QED BY <1>2, <1>3, <2>1, ScoreParts
<1> HIDE DEF D
<1>7. w2 = w
  BY <1>5, <1>6
<1>8. ASSUME NEW d \in D PROVE v[d] <= v2[d]
  <2>1. PICK n \in Nat, x \in Int, y \in Int :
          n = w[d] /\ x = SixTimesMean(d, s) /\ y = SixTimesMean(d, t) /\ v[d] = n * x /\ v2[d] = n * y
    BY <1>5, <1>6, <1>7
  <2>2. IsFiniteSet(d) /\ d # {} /\ \A m \in d : s[m] \in Int /\ t[m] \in Int /\ s[m] <= t[m]
    BY <1>4
  <2>3. x <= y
    BY <2>1, <2>2, MeanGrows
  <2>4. n * x <= n * y
    BY <2>3, ProductGrows
  <2> QED BY <2>1, <2>4
<1>9. Total(D, v) <= Total(D, v2)
  <2>1. \A S \in SUBSET D : Total(S, v) <= Total(S, v2)
    BY <1>4, <1>8, TotalGrows
  <2> QED BY <2>1
<1>10. PICK k \in Nat, a \in Int, b \in Int : k = 6 * Total(D, w) /\ a = Total(D, v) /\ b = Total(D, v2)
  BY <1>4, <1>5, TotalStep
<1>11. k * a <= k * b
  BY <1>9, <1>10, ProductGrows
<1>12. b * k >= a * k
  <2>1. b * k = k * b /\ a * k = k * a
    OBVIOUS
  <2> QED BY <1>11, <2>1
<1>13. /\ OverallScore(s, source, tags).num = a /\ OverallScore(s, source, tags).den = k
       /\ OverallScore(t, source, tags).num = b /\ OverallScore(t, source, tags).den = k
  BY <1>5, <1>6, <1>7, <1>10
<1> QED BY <1>12, <1>13

\* A master who is left out leaves his dimension, which has another one.
LEMMA DimensionsWithout ==
  ASSUME NEW s, NEW t, NEW source, NEW tags, NEW d \in Dimensions(s, source, tags),
         NEW m \in d, NEW k \in d, k # m, Contributing(t, source) = Contributing(s, source) \ {m}
  PROVE  /\ d \ {m} \notin Dimensions(s, source, tags)
         /\ Dimensions(t, source, tags) = (Dimensions(s, source, tags) \ {d}) \cup {d \ {m}}
         /\ \A c \in Dimensions(t, source, tags) : m \notin c
<1> DEFINE in == Contributing(s, source)
           D == Dimensions(s, source, tags)
           Dim(x) == DimOf(x, s, source, tags)
           e == d \ {m}
<1>1. /\ d \subseteq in
      /\ \A x \in in : x \in Dim(x) /\ Dim(x) \in D
      /\ \A c \in D : c # {}
      /\ \A c \in D : \A x : x \in c => c = Dim(x)
  BY DimensionsDivide
<1>2. \A x \in in \ {m} : DimOf(x, t, source, tags) = Dim(x) \ {m}
  BY DEF DimOf
<1>3. \A c : c \in Dimensions(t, source, tags) <=>
               \E x \in Contributing(t, source) : c = DimOf(x, t, source, tags)
  BY DimensionsDivide
<1> HIDE DEF in, D, Dim, e
<1>4. \A c : c \in Dimensions(t, source, tags) <=> \E x \in in \ {m} : c = Dim(x) \ {m}
  <2>1. Contributing(t, source) = in \ {m}
    BY DEF in
  <2> QED BY <1>2, <1>3, <2>1
<1>5. d \in D /\ k \in e /\ e \subseteq d /\ m \notin e
  BY DEF D, e
<1>6. e \notin D
  BY <1>1, <1>5
<1>7. ASSUME NEW x \in in \ {m} PROVE Dim(x) \ {m} \in (D \ {d}) \cup {e}
  <2>1. CASE Dim(x) = d
    BY <2>1 DEF e
  <2>2. CASE Dim(x) # d
    <3>1. m \notin Dim(x)
      BY <1>1, <1>5, <2>2
    <3>2. Dim(x) \ {m} = Dim(x)
      BY <3>1
    <3>3. Dim(x) \in D \ {d}
      BY <1>1, <2>2
    <3> QED BY <3>2, <3>3, Zenon
  <2> QED BY <2>1, <2>2
<1>8. ASSUME NEW c \in D \ {d} PROVE m \notin c /\ \E x \in in \ {m} : c = Dim(x) \ {m}
  <2>1. m \notin c
    BY <1>1, <1>5
  <2>2. PICK x \in c : TRUE
    BY <1>1
  <2>3. c \subseteq in
    BY DimensionsDivide DEF D, in
  <2>4. x \in in \ {m} /\ c = Dim(x) /\ c \ {m} = c
    BY <1>1, <2>1, <2>2, <2>3
  <2> QED BY <2>1, <2>4
<1>9. k \in in \ {m} /\ e = Dim(k) \ {m}
  BY <1>1, <1>5 DEF e
<1>10. ASSUME NEW c \in Dimensions(t, source, tags) PROVE c \in (D \ {d}) \cup {e}
  <2>1. PICK x \in in \ {m} : c = Dim(x) \ {m}
    BY <1>4, <1>10
  <2>2. Dim(x) \ {m} \in (D \ {d}) \cup {e}
    BY <1>7
  <2> QED BY <2>1, <2>2, Zenon
<1>11. ASSUME NEW c \in (D \ {d}) \cup {e} PROVE c \in Dimensions(t, source, tags)
  BY <1>4, <1>8, <1>9
<1>12. Dimensions(t, source, tags) = (D \ {d}) \cup {e}
  BY <1>10, <1>11
<1>13. \A c \in Dimensions(t, source, tags) : m \notin c
  BY <1>5, <1>8, <1>10
<1> QED BY <1>6, <1>12, <1>13 DEF D, e

\* A lighter master who names the advantage of another and gives the same
\* score can be left out.
LEMMA EchoLeavesScore ==
  ASSUME NEW s, NEW source, NEW tags,
         \A j \in Contributing(s, source) : s[j] \in Int,
         NEW d \in Dimensions(s, source, tags), NEW m \in d, NEW k \in d,
         WeightsFor(source)[m] < WeightsFor(source)[k], \A j \in d : s[j] = s[m],
         NEW t, DOMAIN t = DOMAIN s \ {m}, \A j \in DOMAIN t : t[j] = s[j]
  PROVE  OverallScore(t, source, tags) = OverallScore(s, source, tags)
<1> DEFINE in == Contributing(s, source)
           D == Dimensions(s, source, tags)
           e == d \ {m}
           A == D \ {d}
<1>1. in # {} /\ d \subseteq in /\ m \in in /\ \A c \in D : c \subseteq in /\ c # {}
  BY DimensionsDivide
<1>2. IsFiniteSet(D) /\ \A c \in D : IsFiniteSet(c) /\ c \subseteq DOMAIN WeightsFor(source)
  BY DimensionsFinite
<1>3. k # m
  <2>1. WeightsFor(source)[m] \in Nat /\ WeightsFor(source)[k] \in Nat
    BY <1>2, WeightsKnown
  <2> QED BY <2>1
<1>4. Contributing(t, source) = in \ {m} /\ \A j \in in \ {m} : t[j] = s[j]
  BY DEF Contributing
<1>5. e \notin D /\ Dimensions(t, source, tags) = A \cup {e} /\ \A c \in A \cup {e} : m \notin c
  <2>1. Contributing(t, source) = Contributing(s, source) \ {m}
    BY <1>4
  <2>2. /\ d \ {m} \notin Dimensions(s, source, tags)
        /\ Dimensions(t, source, tags) = (Dimensions(s, source, tags) \ {d}) \cup {d \ {m}}
        /\ \A c \in Dimensions(t, source, tags) : m \notin c
    BY <1>3, <2>1, DimensionsWithout
  <2> QED BY <2>2
<1>6. k \in e /\ e \subseteq d /\ IsFiniteSet(e) /\ e # {} /\ e \notin A
  <2>1. k \in e /\ e \subseteq d
    BY <1>3
  <2>2. IsFiniteSet(e)
    BY <1>2, FS_Subset
  <2> QED BY <1>5, <2>1, <2>2
<1> HIDE DEF in
<1> DEFINE E == D \cup {e}
           w == [c \in E |-> WeightOf(c, source)]
           v == [c \in E |-> WeightOf(c, source) * SixTimesMean(c, s)]
<1>7. IsFiniteSet(E) /\ \A c \in E : c # {} /\ IsFiniteSet(c) /\ c \subseteq DOMAIN WeightsFor(source) /\ c \subseteq in
  <2>1. IsFiniteSet(D \cup {e})
    BY <1>2, FS_AddElement
  <2> QED BY <1>1, <1>2, <1>6, <2>1
<1>8. \A c \in E : WeightOf(c, source) \in Nat
  BY <1>7, WeightOfDim
<1>9. \A c \in E : SixTimesMean(c, s) \in Int
  <2>1. ASSUME NEW c \in E PROVE SixTimesMean(c, s) \in Int
    <3>1. IsFiniteSet(c) /\ c # {} /\ \A j \in c : s[j] \in Int /\ s[j] <= s[j]
      BY <1>7 DEF in
    <3> HIDE DEF E
    <3> QED BY <3>1, MeanGrows
  <2> QED BY <2>1
<1>10. /\ w \in [E -> Int] /\ v \in [E -> Int]
       /\ \A c \in E : w[c] = WeightOf(c, source) /\ v[c] = WeightOf(c, source) * SixTimesMean(c, s)
  <2>1. \A c \in E : WeightOf(c, source) * SixTimesMean(c, s) \in Int /\ WeightOf(c, source) \in Int
    BY <1>8, <1>9
  <2> HIDE DEF E
  <2> QED BY <2>1
<1> HIDE DEF w, v
<1>11. WeightOf(e, source) = WeightOf(d, source)
  <2>1. d \in E /\ e \in E
    OBVIOUS
  <2>2. PICK x \in d : WeightOf(d, source) = WeightsFor(source)[x]
    BY <1>7, <2>1, WeightOfDim
  <2>3. PICK y \in e : WeightOf(e, source) = WeightsFor(source)[y]
    BY <1>7, <2>1, WeightOfDim
  <2>4. \A j \in d : WeightsFor(source)[j] \in Nat /\ WeightsFor(source)[j] <= WeightOf(d, source)
    BY <1>7, <2>1, WeightsKnown, WeightOfDim
  <2>5. \A j \in e : WeightsFor(source)[j] <= WeightOf(e, source)
    BY <1>7, <2>1, WeightOfDim
  <2>6. x # m
    BY <2>2, <2>4
  <2>7. WeightOf(d, source) <= WeightOf(e, source) /\ WeightOf(e, source) <= WeightOf(d, source)
    BY <2>2, <2>3, <2>4, <2>5, <2>6
  <2> QED BY <1>8, <2>1, <2>7
<1>12. SixTimesMean(e, s) = SixTimesMean(d, s)
  <2>1. PICK n \in Int : n = s[m]
    BY <1>1 DEF in
  <2>2. \A j \in d : s[j] \in Int /\ n <= s[j] /\ s[j] <= n
    BY <2>1
  <2>3. d # {} /\ IsFiniteSet(d)
    BY <1>2
  <2>4. SixTimesMean(d, s) \in Int /\ 6 * n <= SixTimesMean(d, s) /\ SixTimesMean(d, s) <= 6 * n
    BY <2>2, <2>3, MeanBetween
  <2>5. SixTimesMean(e, s) \in Int /\ 6 * n <= SixTimesMean(e, s) /\ SixTimesMean(e, s) <= 6 * n
    <3>1. \A j \in e : s[j] \in Int /\ n <= s[j] /\ s[j] <= n
      BY <2>2
    <3> HIDE DEF e
    <3> QED BY <1>6, <3>1, MeanBetween
  <2> QED BY <2>4, <2>5
<1>13. w[e] = w[d] /\ v[e] = v[d]
  BY <1>10, <1>11, <1>12
<1>14. /\ A \in SUBSET E /\ {e} \in SUBSET E /\ {d} \in SUBSET E /\ D \in SUBSET E
       /\ A \cap {e} = {} /\ A \cap {d} = {} /\ D = A \cup {d} /\ e \in E /\ d \in E
  BY <1>6
<1> HIDE DEF A, D, E, e
<1>15. Total(A \cup {e}, w) = Total(D, w) /\ Total(A \cup {e}, v) = Total(D, v)
  <2>1. /\ Total(A \cup {e}, w) = Total(A, w) + Total({e}, w)
        /\ Total(A \cup {d}, w) = Total(A, w) + Total({d}, w)
    BY <1>7, <1>10, <1>14, TotalUnion
  <2>2. /\ Total(A \cup {e}, v) = Total(A, v) + Total({e}, v)
        /\ Total(A \cup {d}, v) = Total(A, v) + Total({d}, v)
    BY <1>7, <1>10, <1>14, TotalUnion
  <2>3. /\ Total({e}, w) = w[e] /\ Total({d}, w) = w[d]
        /\ Total({e}, v) = v[e] /\ Total({d}, v) = v[d]
    BY <1>7, <1>10, <1>14, TotalOfOne
  <2> QED BY <1>13, <1>14, <2>1, <2>2, <2>3
<1>16. WeightSum(D, source) = Total(D, w) /\ WeightSum(A \cup {e}, source) = Total(A \cup {e}, w)
  BY <1>10, <1>14, WeightSumIs
<1>17. Weighted(D, s, source) = Total(D, v)
  BY <1>10, <1>14, WeightedIs
<1>18. Weighted(A \cup {e}, t, source) = Total(A \cup {e}, v)
  <2>1. ASSUME NEW c \in A \cup {e} PROVE v[c] = WeightOf(c, source) * SixTimesMean(c, t)
    <3>1. c \in E /\ m \notin c
      BY <1>5, <1>14
    <3>2. \A j \in c : s[j] \in Int /\ s[j] = t[j]
      BY <1>4, <1>7, <3>1 DEF in
    <3>3. SixTimesMean(c, s) = SixTimesMean(c, t)
      BY <1>7, <3>1, <3>2, MeanSame
    <3> QED BY <1>10, <3>1, <3>3
  <2>2. \A B : (\A x \in B : v[x] = WeightOf(x, source) * SixTimesMean(x, t))
                => Weighted(B, t, source) = Total(B, v)
    BY WeightedIs
  <2> QED BY <2>1, <2>2
<1>19. D # {} /\ A \cup {e} # {}
  BY DEF D
<1>20. OverallScore(s, source, tags) = [num |-> Weighted(D, s, source), den |-> 6 * WeightSum(D, source)]
  BY <1>19 DEF OverallScore, WeightSum, D
<1>21. OverallScore(t, source, tags) =
         [num |-> Weighted(A \cup {e}, t, source), den |-> 6 * WeightSum(A \cup {e}, source)]
  BY <1>5, <1>19 DEF OverallScore, WeightSum
<1> QED BY <1>15, <1>16, <1>17, <1>18, <1>20, <1>21


\* compute_overall_score on any scores: what ScoreIsFair says of them.
LEMMA ScoresFair ==
  ASSUME NEW scores \in AnyScores, NEW source, NEW tags
  PROVE  ScoreIsFair(scores, source, tags)
<1> DEFINE in == Contributing(scores, source)
           score == OverallScore(scores, source, tags)
           With(m, v) == OverallScore([scores EXCEPT ![m] = v], source, tags)
           Without(m) == OverallScore([k \in DOMAIN scores \ {m} |-> scores[k]], source, tags)
           Echoes(m, k) ==
             \E d \in Dimensions(scores, source, tags) :
               /\ {m, k} \subseteq d /\ WeightsFor(source)[m] < WeightsFor(source)[k]
               /\ \A j \in d : scores[j] = scores[m]
           R == {scores[m] : m \in in}
<1>1. in \subseteq DOMAIN scores /\ \A m \in in : scores[m] \in 1..5 /\ scores[m] \in Int
  <2>1. PICK S : scores \in [S -> 1..5]
    BY DEF AnyScores
  <2>2. DOMAIN scores = S /\ \A m \in S : scores[m] \in 1..5
    BY <2>1
  <2>3. in \subseteq DOMAIN scores
    BY DEF Contributing
  <2> HIDE DEF in
  <2> QED BY <2>2, <2>3
<1>2. in = {} => score = None
  <2>1. in = {} => Dimensions(scores, source, tags) = {}
    BY DEF Dimensions
  <2> QED BY <2>1 DEF OverallScore
<1>3. ASSUME in # {}
      PROVE  AtLeast(score, Min(R)) /\ score.num <= Max(R) * score.den
  <2> DEFINE f == [m \in in |-> scores[m]]
  <2>1. f \in [in -> R] /\ \A r \in R : \E m \in in : f[m] = r
    OBVIOUS
  <2>2. R \subseteq Int /\ R # {} /\ \A m \in in : scores[m] \in R
    BY <1>1, <1>3
  <2>3. IsFiniteSet(in)
    BY DimensionsFinite
  <2> HIDE DEF f, R
  <2>4. IsFiniteSet(R)
    BY <2>1, <2>3, FiniteRange
  <2>5. /\ Max(R) \in R /\ \A x \in R : x <= Max(R)
        /\ Min(R) \in R /\ \A x \in R : Min(R) <= x
    BY <2>2, <2>4, Extremes
  <2>6. PICK lo \in Int, hi \in Int : lo = Min(R) /\ hi = Max(R)
    BY <2>2, <2>5
  <2>7. \A m \in in : scores[m] \in Int /\ lo <= scores[m] /\ scores[m] <= hi
    BY <1>1, <2>2, <2>5, <2>6
  <2>8. /\ score.num \in Int /\ score.den \in Nat \ {0}
        /\ lo * score.den <= score.num /\ score.num <= hi * score.den
    BY <1>3, <2>7, ScoreBetween
  <2>9. PICK n \in Int, a \in Int, b \in Int :
          n = score.num /\ a = lo * score.den /\ b = hi * score.den
    BY <2>8
  <2>10. n >= a /\ n <= b
    BY <2>8, <2>9
  <2> QED BY <2>6, <2>9, <2>10 DEF AtLeast
<1>4. ASSUME NEW m \in in, NEW v \in scores[m]..5
      PROVE  With(m, v).num * score.den >= score.num * With(m, v).den
  <2>1. PICK t : t = [scores EXCEPT ![m] = v]
    OBVIOUS
  <2>2. DOMAIN t = DOMAIN scores /\ \A k \in DOMAIN scores : t[k] = IF k = m THEN v ELSE scores[k]
    BY <1>1, <2>1
  <2>3. Contributing(t, source) = in
    BY <2>2 DEF Contributing
  <2>4. \A k \in in : scores[k] \in Int /\ t[k] \in Int /\ scores[k] <= t[k]
    BY <1>1, <2>2
  <2>5. in # {}
    OBVIOUS
  <2>6. OverallScore(t, source, tags).num * score.den >= score.num * OverallScore(t, source, tags).den
    BY <2>3, <2>4, <2>5, ScoreGrows
  <2> QED BY <2>1, <2>6
<1>5. ASSUME NEW m \in in, NEW k \in in, Echoes(m, k)
      PROVE  Without(m) = score
  <2>1. PICK d \in Dimensions(scores, source, tags) :
          /\ m \in d /\ k \in d /\ WeightsFor(source)[m] < WeightsFor(source)[k]
          /\ \A j \in d : scores[j] = scores[m]
    BY <1>5
  <2>2. PICK t : t = [j \in DOMAIN scores \ {m} |-> scores[j]]
    OBVIOUS
  <2>3. DOMAIN t = DOMAIN scores \ {m} /\ \A j \in DOMAIN t : t[j] = scores[j]
    BY <2>2
  <2>4. \A j \in Contributing(scores, source) : scores[j] \in Int
    BY <1>1
  <2>5. \A r : (DOMAIN r = DOMAIN scores \ {m} /\ \A j \in DOMAIN r : r[j] = scores[j])
                 => OverallScore(r, source, tags) = OverallScore(scores, source, tags)
    BY <2>1, <2>4, EchoLeavesScore
  <2> QED BY <2>2, <2>3, <2>5
<1>6. \A m \in in : (\E k \in in : Echoes(m, k)) =>
        score.num * Without(m).den = Without(m).num * score.den
  BY <1>5
<1> HIDE DEF With, Without, Echoes, R
<1>7. IF in = {} THEN score = None
      ELSE /\ AtLeast(score, Min(R))
           /\ score.num <= Max(R) * score.den
           /\ \A m \in in : \A v \in scores[m]..5 :
                With(m, v).num * score.den >= score.num * With(m, v).den
           /\ \A m \in in : (\E k \in in : Echoes(m, k)) =>
                score.num * Without(m).den = Without(m).num * score.den
  BY <1>2, <1>3, <1>4, <1>6
<1> QED BY <1>7 DEF ScoreIsFair, With, Without, Echoes, R

\* compute_overall_score, check_all, screen_stock, validate_numbers and
\* check_budget_available keep what JudgementIsSound states, whatever the
\* masters, the synthesis, the statements and the logged calls are.
THEOREM JudgementHolds ==
  input \in AnyJudgement /\ [][Next]_input => []JudgementIsSound
<1>1. input \in AnyJudgement => JudgementIsSound
  <2>1. SUFFICES ASSUME input \in AnyJudgement PROVE JudgementIsSound
    OBVIOUS
  <2>2. input.kind = "score" => ScoreIsFair(input.scores, input.source, input.tags)
    BY <2>1, ScoresFair DEF AnyJudgement
  <2>3. input.kind = "red_line" => RedLineRejects(input)
    BY RedLinesReject
  <2>4. input.kind = "screen" => ScreenIsSound(input.stock, input.answer)
    BY <2>1, ScreensSound DEF AnyJudgement
  <2>5. input.kind = "conflict" => ConflictsAreReal(input.numbers, input.stored)
    <3>1. ASSUME input.kind = "conflict"
          PROVE  /\ \A f \in DOMAIN input.numbers : input.numbers[f] \in Int \cup {None}
                 /\ \A f \in DOMAIN input.stored : input.stored[f] \in Int \cup {None}
      <4>1. input.numbers \in AnyNumbers /\ input.stored \in AnyNumbers
        BY <2>1, <3>1 DEF AnyJudgement
      <4>2. ASSUME NEW n \in AnyNumbers PROVE \A f \in DOMAIN n : n[f] \in Int \cup {None}
        BY DEF AnyNumbers
      <4> QED BY <4>1, <4>2
    <3> QED BY <3>1, ConflictsReal
  <2>6. input.kind = "budget" => BudgetCaps(input.calls, input.month)
    <3>1. ASSUME input.kind = "budget"
          PROVE  IsFiniteSet(input.calls) /\ \A c \in input.calls : c.cost \in Nat
      BY <2>1, <3>1 DEF AnyJudgement
    <3> QED BY <3>1, BudgetIsCapped
  <2> QED BY <2>2, <2>3, <2>4, <2>5, <2>6 DEF JudgementIsSound
<1>2. JudgementIsSound /\ [Next]_input => JudgementIsSound'
  BY DEF Next, JudgementIsSound
<1> QED BY <1>1, <1>2, PTL

-----------------------------------------------------------------------------
(* What is computed from stored statements and quotes.                       *)

AnyPayout  == [payout: Int \cup {None}, eps: Int \cup {None}]
AnyYear    == [growth: Int \cup {None}, profit_growth: Int \cup {None}, ocf_ratio: Int \cup {None},
               debt: Int \cup {None}, roe: Int \cup {None}, payout: Int \cup {None},
               goodwill: Int \cup {None}, equity: Int \cup {None}]
AnyQuarter == [value: Int \cup {None}, growth: Int \cup {None}]
AnyRow     == [pe: Int \cup {None}, price: Int \cup {None}]

(* Statements, figures and quotes of any number and size; the endpoints are *)
(* those of Kinds.                                                          *)
AnyValuation ==
  [kind: {"forward"}, statements: Seq(AnyPayout), price: Int \cup {None}]
  \cup [kind: {"cover"}, ocf: Int, profit: Int, paid: Int]
  \cup [kind: {"anomaly"}, statements: Seq(AnyYear), pb: Int \cup {None}]
  \cup [kind: {"ttm"}, quarters: Seq(AnyQuarter)]
  \cup [kind: {"realtime"}, primary: Range(Kinds), answers: [Range(Kinds) -> AnyRow \cup {None}]]

\* check_dividend_sustainability on any figures: what DividendIsCovered says of it.
LEMMA DividendsCovered ==
  ASSUME NEW ocf \in Int, NEW profit \in Int, NEW paid \in Int
  PROVE  DividendIsCovered(ocf, profit, paid)
<1> DEFINE Rank1(s) == CASE s = "healthy" -> 3 [] s = "data_unavailable" -> 3 [] s = "caution" -> 2
                         [] s = "needs_verification" -> 1 [] s = "unsustainable" -> 0
           j(p) == DividendSustainability(ocf, profit, p)
<1>1. \A p \in Int : j(p) = IF ocf = 0 /\ profit = 0 /\ p = 0 THEN "data_unavailable"
                            ELSE IF ocf >= profit /\ profit >= p THEN "healthy"
                            ELSE IF p > profit /\ ocf >= p THEN "needs_verification"
                            ELSE IF p > ocf THEN "unsustainable" ELSE "caution"
  BY DEF DividendSustainability
<1>2. /\ Rank1("healthy") = 3 /\ Rank1("data_unavailable") = 3 /\ Rank1("caution") = 2
      /\ Rank1("needs_verification") = 1 /\ Rank1("unsustainable") = 0
  OBVIOUS
<1>3. paid + 1 \in Int
  OBVIOUS
<1> HIDE DEF Rank1, j
<1>4. j(paid) \in {"healthy", "needs_verification", "caution"} => paid <= ocf
  BY <1>1
<1>5. paid > 0 => Rank1(j(paid + 1)) <= Rank1(j(paid))
  <2>1. SUFFICES ASSUME paid > 0 PROVE Rank1(j(paid + 1)) <= Rank1(j(paid))
    OBVIOUS
  <2>2. PICK q \in Int : q = paid + 1
    BY <1>3
  <2>3. /\ j(paid) = IF ocf >= profit /\ profit >= paid THEN "healthy"
                     ELSE IF paid > profit /\ ocf >= paid THEN "needs_verification"
                     ELSE IF paid > ocf THEN "unsustainable" ELSE "caution"
        /\ j(q) = IF ocf >= profit /\ profit >= q THEN "healthy"
                  ELSE IF q > profit /\ ocf >= q THEN "needs_verification"
                  ELSE IF q > ocf THEN "unsustainable" ELSE "caution"
    BY <1>1, <2>1, <2>2
  <2>4. Rank1(j(q)) <= Rank1(j(paid))
    BY <1>2, <2>2, <2>3
  <2> QED BY <2>2, <2>4
<1> QED BY <1>4, <1>5 DEF DividendIsCovered, Rank1, j

(* The payouts of a set of statements, under a name.                         *)
PayoutsOf(S, statements) == SumOver(S, LAMBDA i : statements[i].payout)

\* The payouts of some statements are a total.
LEMMA PayoutSum ==
  ASSUME NEW S, NEW statements, NEW W, \A x \in S : W[x] = statements[x].payout
  PROVE  PayoutsOf(S, statements) = Total(S, W)
<1> DEFINE P(f) == f = [s \in SUBSET S |->
                         IF s = {} THEN 0
                         ELSE LET x == CHOOSE y \in s : TRUE IN f[s \ {x}] + statements[x].payout]
<1>1. PayoutsOf(S, statements) = (CHOOSE f : P(f))[S]
  BY DEF PayoutsOf, SumOver, FoldSet, MapThenFoldSet
<1>2. \A f : P(f) <=> Folds(f, S, W)
  BY DEF Folds
<1> HIDE DEF P
<1>3. (CHOOSE f : P(f)) = (CHOOSE f : Folds(f, S, W))
  BY <1>2, Zenon
<1> QED BY <1>1, <1>3, TotalIsFold

\* What is earned bounds what a capped share of it pays.
LEMMA CappedShare ==
  ASSUME NEW n \in Int, NEW d \in Nat \ {0}, 0 <= n, n <= 100 * d,
         NEW eps \in Nat, NEW price \in Nat \ {0}
  PROVE  0 <= n * eps /\ (n * eps) * price <= 100 * eps * (d * price)
<1>1. PICK k \in Nat : k = eps * price
  OBVIOUS
<1>2. (n * eps) * price = n * k /\ 100 * eps * (d * price) = (100 * d) * k
  <2>1. (n * eps) * price = n * (eps * price) /\ 100 * eps * (d * price) = (100 * d) * (eps * price)
    OBVIOUS
  <2> QED BY <1>1, <2>1
<1>3. PICK c \in Int : c = 100 * d
  OBVIOUS
<1>4. n * k <= c * k
  <2>1. PICK e \in Nat : c = n + e
    <3>1. c - n \in Nat /\ c = n + (c - n)
      BY <1>3
    <3> QED BY <3>1
  <2>2. (n + e) * k = n * k + e * k /\ e * k >= 0
    OBVIOUS
  <2> QED BY <2>1, <2>2
<1>5. 0 <= n * eps
  <2>1. n \in Nat
    OBVIOUS
  <2> QED BY <2>1, Products
<1> QED BY <1>2, <1>3, <1>4, <1>5

\* calculate_forward_dyr on any statements: what ForwardIsEarned says of it.
LEMMA ForwardEarned ==
  ASSUME NEW statements \in Seq(AnyPayout), NEW price \in Int \cup {None}
  PROVE  ForwardIsEarned(statements, price)
<1> DEFINE in == {i \in 1..Min({3, Len(statements)}) : statements[i].payout # None}
           avg == PayoutAverage(statements)
           dyr == ForwardDyr(statements, price)
<1>1. SUFFICES ASSUME dyr # None, statements[1].eps >= 0
               PROVE  0 <= dyr.num /\ dyr.num * price <= 100 * statements[1].eps * dyr.den
  BY DEF ForwardIsEarned
<1>2. /\ avg # None /\ price # None /\ statements[1].eps # None /\ ~(price <= 0)
      /\ dyr = [num |-> Capped(avg).num * statements[1].eps, den |-> Capped(avg).den * price]
  BY <1>1 DEF ForwardDyr
<1>3. in # {} /\ avg = [num |-> PayoutsOf(in, statements), den |-> Cardinality(in)]
  BY <1>2 DEF PayoutAverage, PayoutsOf
<1>4. Min({3, Len(statements)}) \in Int /\ Min({3, Len(statements)}) <= Len(statements)
  <2>1. PICK n \in Nat : n = Len(statements)
    OBVIOUS
  <2>2. IsFiniteSet({3, n}) /\ {3, n} \subseteq Int /\ {3, n} # {}
    <3>1. IsFiniteSet({3, n})
      BY FiveIsFinite
    <3> QED BY <3>1
  <2>3. Min({3, n}) \in {3, n} /\ \A x \in {3, n} : Min({3, n}) <= x
    BY <2>2, Extremes
  <2> QED BY <2>1, <2>3
<1>5. in \subseteq 1..Len(statements) /\ IsFiniteSet(in) /\ \A i \in in : statements[i].payout \in Int
  <2>1. in \subseteq 1..Len(statements)
    BY <1>4
  <2>2. IsFiniteSet(1..Len(statements))
    BY FS_Interval
  <2>3. IsFiniteSet(in)
    BY <2>1, <2>2, FS_Subset
  <2>4. \A i \in 1..Len(statements) : statements[i] \in AnyPayout
    OBVIOUS
  <2>5. \A i \in in : statements[i].payout \in Int
    BY <2>1, <2>4 DEF AnyPayout
  <2> QED BY <2>1, <2>3, <2>5
<1>6. 1 \in 1..Len(statements)
  <2>1. PICK i : i \in 1..Len(statements)
    <3> HIDE DEF in
    <3> QED BY <1>3, <1>5
  <2>2. PICK n \in Nat : n = Len(statements)
    OBVIOUS
  <2>3. i \in 1..n
    BY <2>1, <2>2
  <2>4. 1 \in 1..n
    BY <2>3
  <2> QED BY <2>2, <2>4
<1>7. statements[1].eps \in Nat /\ price \in Nat \ {0}
  <2>1. statements[1] \in AnyPayout
    BY <1>6
  <2>2. statements[1].eps \in Int
    BY <1>2, <2>1 DEF AnyPayout
  <2> QED BY <1>1, <1>2, <2>2
<1> DEFINE W == [i \in in |-> statements[i].payout]
<1>8. W \in [in -> Int] /\ \A i \in in : W[i] = statements[i].payout
  BY <1>5
<1> HIDE DEF in, W
<1>9. PayoutsOf(in, statements) = Total(in, W) /\ Total(in, W) \in Int
  BY <1>5, <1>8, PayoutSum, TotalStep
<1>10. Cardinality(in) \in Nat \ {0}
  BY <1>3, <1>5, FS_CardinalityType, FS_EmptySet
<1>11. PICK s \in Int, c \in Nat \ {0} : avg = [num |-> s, den |-> c]
  BY <1>3, <1>9, <1>10
<1>12. PICK n \in Int, d \in Nat \ {0} : Capped(avg) = [num |-> n, den |-> d] /\ 0 <= n /\ n <= 100 * d
  <2>1. Capped(avg) = IF s < 0 THEN [num |-> 0, den |-> 1]
                      ELSE IF s > 100 * c THEN [num |-> 100, den |-> 1] ELSE [num |-> s, den |-> c]
    BY <1>11 DEF Capped
  <2>2. CASE s < 0
    BY <2>1, <2>2
  <2>3. CASE ~(s < 0) /\ s > 100 * c
    BY <2>1, <2>3
  <2>4. CASE ~(s < 0) /\ ~(s > 100 * c)
    BY <2>1, <2>4
  <2> QED BY <2>2, <2>3, <2>4
<1>13. PICK e \in Nat, p \in Nat \ {0} : e = statements[1].eps /\ p = price
  BY <1>7
<1>14. dyr.num = n * e /\ dyr.den = d * p
  BY <1>2, <1>12, <1>13
<1>15. 0 <= n * e /\ (n * e) * p <= 100 * e * (d * p)
  BY <1>12, CappedShare
<1> QED BY <1>13, <1>14, <1>15

\* The order in which the endpoints are asked, one by one.
LEMMA OrderIs ==
  ASSUME NEW K, K = {"non_financial", "bank", "insurance", "security", "other_financial"},
         NEW p \in 1..5, NEW primary, primary = Kinds[p]
  PROVE  /\ FallbackOrder(primary) \in Seq(K) /\ Len(FallbackOrder(primary)) = 5
         /\ FallbackOrder(primary)[1] = primary
         /\ \A k \in 2..5 : FallbackOrder(primary)[k] = IF k - 1 < p THEN Kinds[k - 1] ELSE Kinds[k]
<1>1. /\ Kinds \in Seq(K) /\ Len(Kinds) = 5 /\ primary \in K
      /\ \A i \in 1..5 : Kinds[i] \in K /\ (Kinds[i] = primary <=> i = p)
  BY DEF Kinds
<1>2. SelectInSeq(Kinds, LAMBDA v : v = primary) = p
  <2>1. {i \in 1..Len(Kinds) : Kinds[i] = primary} = {p}
    BY <1>1
  <2>2. IsFiniteSet({p}) /\ {p} # {} /\ {p} \subseteq Int
    BY FS_Singleton
  <2>3. Min({p}) \in {p}
    BY <2>2, Extremes
  <2> QED BY <2>1, <2>3 DEF SelectInSeq
<1> DEFINE a == SubSeq(Kinds, 1, p - 1)
           b == SubSeq(Kinds, p + 1, 5)
<1>3. RemoveFirst(Kinds, primary) = a \o b
  BY <1>1, <1>2 DEF RemoveFirst, RemoveAt
<1>4. a \in Seq(K) /\ Len(a) = p - 1 /\ \A i \in 1..p-1 : a[i] = Kinds[i]
  <2>1. \A i \in 1..p-1 : Kinds[i] \in K
    BY <1>1
  <2>2. /\ a \in Seq(K) /\ Len(a) = IF 1 <= p - 1 THEN p - 1 - 1 + 1 ELSE 0
        /\ \A i \in 1..p-1-1+1 : a[i] = Kinds[1 + i - 1]
    BY <2>1, SubSeqProperties
  <2>3. \A i \in 1..p-1 : i \in 1..p-1-1+1 /\ 1 + i - 1 = i
    OBVIOUS
  <2> HIDE DEF a
  <2> QED BY <2>2, <2>3
<1>5. b \in Seq(K) /\ Len(b) = 5 - p /\ \A i \in 1..5-p : b[i] = Kinds[p + i]
  <2>1. \A i \in p+1..5 : Kinds[i] \in K
    BY <1>1
  <2>2. /\ b \in Seq(K) /\ Len(b) = IF p + 1 <= 5 THEN 5 - (p + 1) + 1 ELSE 0
        /\ \A i \in 1..5-(p+1)+1 : b[i] = Kinds[p + 1 + i - 1]
    BY <2>1, SubSeqProperties
  <2>3. \A i \in 1..5-p : i \in 1..5-(p+1)+1 /\ p + 1 + i - 1 = p + i
    OBVIOUS
  <2> HIDE DEF b
  <2> QED BY <2>2, <2>3
<1> HIDE DEF a, b
<1> DEFINE r == a \o b
<1>6. /\ r \in Seq(K) /\ Len(r) = 4
      /\ \A i \in 1..4 : r[i] = IF i < p THEN Kinds[i] ELSE Kinds[i + 1]
  <2>1. /\ r \in Seq(K) /\ Len(r) = Len(a) + Len(b)
        /\ \A i \in 1..Len(a) + Len(b) : r[i] = IF i <= Len(a) THEN a[i] ELSE b[i - Len(a)]
    BY <1>4, <1>5, ConcatProperties
  <2>2. Len(a) + Len(b) = 4
    BY <1>4, <1>5
  <2>3. ASSUME NEW i \in 1..4 PROVE r[i] = IF i < p THEN Kinds[i] ELSE Kinds[i + 1]
    <3>1. CASE i < p
      BY <1>4, <2>1, <2>2, <3>1
    <3>2. CASE ~(i < p)
      <4>1. i - (p - 1) \in 1..5-p /\ p + (i - (p - 1)) = i + 1 /\ ~(i <= p - 1)
        BY <3>2
      <4>2. r[i] = b[i - (p - 1)]
        BY <1>4, <2>1, <2>2, <4>1
      <4>3. b[i - (p - 1)] = Kinds[p + (i - (p - 1))]
        BY <1>5, <4>1
      <4> QED BY <3>2, <4>1, <4>2, <4>3
    <3> QED BY <3>1, <3>2
  <2> QED BY <2>1, <2>2, <2>3
<1>7. FallbackOrder(primary) = <<primary>> \o r
  BY <1>3 DEF FallbackOrder
<1> HIDE DEF r
<1> DEFINE t == <<primary>>
           o == t \o r
<1>8. t \in Seq(K) /\ Len(t) = 1 /\ t[1] = primary
  BY <1>1
<1> HIDE DEF t
<1>9. /\ o \in Seq(K) /\ Len(o) = 5
      /\ \A i \in 1..5 : o[i] = IF i <= 1 THEN t[i] ELSE r[i - 1]
  <2>1. /\ t \o r \in Seq(K) /\ Len(t \o r) = Len(t) + Len(r)
        /\ \A i \in 1..Len(t) + Len(r) : (t \o r)[i] = IF i <= Len(t) THEN t[i] ELSE r[i - Len(t)]
    <3>1. t \in Seq(K) /\ r \in Seq(K)
      BY <1>6, <1>8
    <3> QED BY <3>1, ConcatProperties
  <2>2. Len(t) = 1 /\ Len(r) = 4
    BY <1>6, <1>8
  <2> QED BY <2>1, <2>2
<1>10. o[1] = primary
  BY <1>8, <1>9
<1>11. ASSUME NEW k \in 2..5 PROVE o[k] = IF k - 1 < p THEN Kinds[k - 1] ELSE Kinds[k]
  <2>1. o[k] = r[k - 1]
    BY <1>9
  <2>2. k - 1 \in 1..4 /\ k - 1 + 1 = k
    OBVIOUS
  <2> QED BY <1>6, <2>1, <2>2
<1> QED BY <1>7, <1>9, <1>10, <1>11 DEF t

\* The numbers from 1 to a number are finitely many.
LEMMA UpToFinite ==
  ASSUME NEW n \in Int
  PROVE  IsFiniteSet(1..n)
<1>1. 1 \in Int
  OBVIOUS
<1> QED BY <1>1, FS_Interval

\* get_valuation_dashboard on any answers: what IndustryIsFound says of them.
LEMMA IndustriesFound ==
  ASSUME NEW primary \in Range(Kinds), NEW answers \in [Range(Kinds) -> AnyRow \cup {None}]
  PROVE  IndustryIsFound(answers, primary)
<1> DEFINE K == {"non_financial", "bank", "insurance", "security", "other_financial"}
           order == FallbackOrder(primary)
           in == {k \in 1..Len(order) : Usable(answers[order[k]])}
           r == Realtime(answers, primary)
<1>1. Range(Kinds) = K /\ Len(Kinds) = 5
  BY DEF Kinds, Range
<1>2. PICK p \in 1..5 : primary = Kinds[p]
  BY DEF Kinds, Range
<1>3. /\ order \in Seq(K) /\ Len(order) = 5 /\ order[1] = primary
      /\ \A k \in 2..5 : order[k] = IF k - 1 < p THEN Kinds[k - 1] ELSE Kinds[k]
  <2> HIDE DEF K
  <2> QED BY <1>2, OrderIs DEF K
<1> HIDE DEF order
<1>4. DOMAIN order = 1..5 /\ \A k \in 1..5 : order[k] \in K
  <2> HIDE DEF K
  <2> QED BY <1>3, LenProperties, ElementOfSeq
<1>5. \A q \in 1..5 : \E k \in 1..5 : order[k] = Kinds[q]
  <2>1. ASSUME NEW q \in 1..5 PROVE \E k \in 1..5 : order[k] = Kinds[q]
    <3>1. CASE q = p
      BY <1>2, <1>3, <3>1
    <3>2. CASE q < p
      <4>1. q + 1 \in 2..5 /\ q + 1 - 1 = q
        BY <3>2
      <4>2. order[q + 1] = Kinds[q]
        BY <1>3, <3>2, <4>1
      <4> QED BY <4>1, <4>2
    <3>3. CASE q > p
      <4>1. q \in 2..5 /\ ~(q - 1 < p)
        BY <3>3
      <4> QED BY <1>3, <4>1
    <3> QED BY <3>1, <3>2, <3>3
  <2> QED BY <2>1
<1>6. \A x \in K : \E q \in 1..5 : Kinds[q] = x
  BY DEF Kinds
<1> HIDE DEF K
<1>7. Range(order) = K
  BY <1>4, <1>5, <1>6 DEF Range
<1>8. DOMAIN answers = K
  BY <1>1
<1>9. in \subseteq 1..5 /\ IsFiniteSet(in) /\ in \subseteq Int
  <2>1. in \subseteq 1..5
    BY <1>3
  <2>2. IsFiniteSet(1..5)
    <3>1. \A n \in Int : IsFiniteSet(1..n)
      BY UpToFinite
    <3>2. 5 \in Int
      OBVIOUS
    <3> QED BY <3>1, <3>2
  <2> QED BY <2>1, <2>2, FS_Subset
<1>10. r = IF (IF in # {} THEN Min(in) ELSE 0) = 0 THEN None
           ELSE [kind |-> order[IF in # {} THEN Min(in) ELSE 0],
                 row |-> answers[order[IF in # {} THEN Min(in) ELSE 0]]]
  BY DEF Realtime, SelectInSeq, order
<1>11. in # {} <=> \E x \in K : Usable(answers[x])
  <2>1. ASSUME NEW x \in K, Usable(answers[x]) PROVE in # {}
    <3>1. PICK k \in 1..5 : order[k] = x
      BY <1>5, <1>6
    <3> QED BY <1>3, <2>1, <3>1
  <2>2. in # {} => \E x \in K : Usable(answers[x])
    BY <1>3, <1>4
  <2> QED BY <2>1, <2>2
<1>12. in # {} => Min(in) \in in /\ \A k \in in : Min(in) <= k
  BY <1>9, Extremes
<1>13. in # {} => Min(in) # 0 /\ Min(in) \in 1..5
  BY <1>9, <1>12
<1>14. r = None <=> \A x \in K : ~Usable(answers[x])
  <2>1. in = {} => r = None
    BY <1>10
  <2>2. in # {} => r = [kind |-> order[Min(in)], row |-> answers[order[Min(in)]]]
    BY <1>10, <1>13
  <2>3. \A x \in K : \A y \in AnyRow \cup {None} : [kind |-> x, row |-> y] # None
    BY <1>1, NoneIsNoFinding DEF AnyRow
  <2>4. in # {} => order[Min(in)] \in K /\ answers[order[Min(in)]] \in AnyRow \cup {None}
    BY <1>1, <1>4, <1>13
  <2> QED BY <1>11, <2>1, <2>2, <2>3, <2>4
<1>15. Usable(answers[primary]) => r.kind = primary
  <2>1. ASSUME Usable(answers[primary]) PROVE r.kind = primary
    <3>1. 1 \in in
      BY <1>3, <2>1
    <3>2. Min(in) = 1
      <4>1. Min(in) \in 1..5 /\ Min(in) <= 1
        BY <1>12, <1>13, <3>1
      <4> QED BY <4>1
    <3>3. r = [kind |-> order[1], row |-> answers[order[1]]]
      BY <1>10, <3>1, <3>2
    <3> QED BY <1>3, <3>3
  <2> QED BY <2>1
<1>16. HasPe(answers[primary]) => Usable(answers[primary])
  BY DEF HasPe, Usable
<1> QED BY <1>1, <1>3, <1>7, <1>8, <1>14, <1>15, <1>16 DEF IndustryIsFound, order

\* Adding any number keeps the order of two numbers whose product is asked for.
LEMMA SameSign ==
  ASSUME NEW a \in Int, NEW b \in Int, a >= b, NEW c \in Nat
  PROVE  (100 * (a - b)) * c >= 0
<1>1. PICK d \in Nat : d = 100 * (a - b)
  OBVIOUS
<1> QED BY <1>1, Products

(* The sum of a window, under a name.                                        *)
ValuesOfWindow(S, w) == SumOver(S, LAMBDA k : w[k].value)

\* The sum of a window is a total.
LEMMA WindowTotal ==
  ASSUME NEW S, NEW w, NEW W, \A x \in S : W[x] = w[x].value
  PROVE  ValuesOfWindow(S, w) = Total(S, W)
<1> DEFINE P(f) == f = [s \in SUBSET S |->
                         IF s = {} THEN 0
                         ELSE LET x == CHOOSE y \in s : TRUE IN f[s \ {x}] + w[x].value]
<1>1. ValuesOfWindow(S, w) = (CHOOSE f : P(f))[S]
  BY DEF ValuesOfWindow, SumOver, FoldSet, MapThenFoldSet
<1>2. \A f : P(f) <=> Folds(f, S, W)
  BY DEF Folds
<1> HIDE DEF P
<1>3. (CHOOSE f : P(f)) = (CHOOSE f : Folds(f, S, W))
  BY <1>2, Zenon
<1> QED BY <1>1, <1>3, TotalIsFold

\* A window of four rows: it and its sum.
LEMMA FullWindow ==
  ASSUME NEW quarters \in Seq(AnyQuarter), NEW i \in 1..Len(quarters), Ttm(quarters, i) # None, i >= 4
  PROVE  \E W \in [1..4 -> Int] : /\ \A k \in 1..4 : W[k] = quarters[i - 4 + k].value
                                  /\ Ttm(quarters, i) = Total(1..4, W)
<1> DEFINE w == Window(quarters, i)
           W == [k \in 1..4 |-> quarters[i - 4 + k].value]
<1>1. Max({1, i - 3}) = i - 3
  <2>1. PICK j \in Int : j = i - 3 /\ j >= 1
    OBVIOUS
  <2>2. IsFiniteSet({1, j}) /\ {1, j} \subseteq Int /\ {1, j} # {}
    <3>1. IsFiniteSet({1, j})
      BY FiveIsFinite
    <3> QED BY <3>1
  <2>3. Max({1, j}) \in {1, j} /\ \A x \in {1, j} : Max({1, j}) >= x
    BY <2>2, Extremes
  <2>4. Max({1, j}) = j
    BY <2>1, <2>3
  <2> QED BY <2>1, <2>4
<1>2. /\ w \in Seq(AnyQuarter) /\ Len(w) = 4 /\ DOMAIN w = 1..4
      /\ \A k \in 1..4 : w[k] = quarters[i - 4 + k]
  <2>1. w = SubSeq(quarters, i - 3, i)
    BY <1>1 DEF Window
  <2>2. \A k \in i - 3..i : quarters[k] \in AnyQuarter
    OBVIOUS
  <2>3. /\ SubSeq(quarters, i - 3, i) \in Seq(AnyQuarter)
        /\ Len(SubSeq(quarters, i - 3, i)) = IF i - 3 <= i THEN i - (i - 3) + 1 ELSE 0
        /\ \A k \in 1..i - (i - 3) + 1 : SubSeq(quarters, i - 3, i)[k] = quarters[i - 3 + k - 1]
    BY <2>2, SubSeqProperties
  <2>4. i - (i - 3) + 1 = 4 /\ i - 3 <= i /\ \A k \in 1..4 : i - 3 + k - 1 = i - 4 + k
    OBVIOUS
  <2> HIDE DEF w
  <2>5. w \in Seq(AnyQuarter) /\ Len(w) = 4 /\ \A k \in 1..4 : w[k] = quarters[i - 4 + k]
    BY <2>1, <2>3, <2>4
  <2> QED BY <2>5
<1>3. Ttm(quarters, i) = WindowSum(w)
  BY DEF Ttm
<1> HIDE DEF w
<1>4. /\ \A k \in 1..4 : w[k].value # None
      /\ WindowSum(w) = ValuesOfWindow(DOMAIN w, w)
  BY <1>2, <1>3 DEF WindowSum, ValuesOfWindow
<1>5. \A k \in 1..4 : w[k] \in AnyQuarter
  BY <1>2
<1>6. \A k \in 1..4 : w[k].value \in Int
  BY <1>4, <1>5 DEF AnyQuarter
<1>7. W \in [1..4 -> Int] /\ \A k \in 1..4 : W[k] = w[k].value
  BY <1>2, <1>6
<1>8. \A k \in 1..4 : W[k] = quarters[i - 4 + k].value
  OBVIOUS
<1> HIDE DEF W
<1>9. ValuesOfWindow(1..4, w) = Total(1..4, W)
  BY <1>7, WindowTotal
<1> QED BY <1>2, <1>3, <1>4, <1>7, <1>8, <1>9

\* compute_ttm_series on any quarters: what TtmIsSound says of it.
LEMMA TtmsSound ==
  ASSUME NEW quarters \in Seq(AnyQuarter)
  PROVE  TtmIsSound(quarters)
<1>1. SUFFICES ASSUME NEW i \in 1..Len(quarters), i >= 8, Ttm(quarters, i) # None,
                      Ttm(quarters, i - 4) \notin {None, 0},
                      \A k \in i - 3..i : quarters[k].value >= quarters[k - 4].value
               PROVE  TtmGrowth(quarters, i).num * TtmGrowth(quarters, i).den >= 0
  BY DEF TtmIsSound
<1>2. PICK V \in [1..4 -> Int] : /\ \A k \in 1..4 : V[k] = quarters[i - 4 + k].value
                                 /\ Ttm(quarters, i) = Total(1..4, V)
  BY <1>1, FullWindow
<1>3. PICK W \in [1..4 -> Int] : /\ \A k \in 1..4 : W[k] = quarters[i - 4 - 4 + k].value
                                 /\ Ttm(quarters, i - 4) = Total(1..4, W)
  <2>1. i - 4 \in 1..Len(quarters) /\ i - 4 >= 4
    BY <1>1
  <2> QED BY <1>1, <2>1, FullWindow
<1>4. IsFiniteSet(1..4)
  BY UpToFinite
<1>5. \A k \in 1..4 : W[k] <= V[k]
  <2>1. ASSUME NEW k \in 1..4 PROVE W[k] <= V[k]
    <3>1. i - 4 + k \in i - 3..i /\ i - 4 - 4 + k = i - 4 + k - 4
      BY <1>1
    <3>2. quarters[i - 4 + k].value >= quarters[i - 4 + k - 4].value
      BY <1>1, <3>1
    <3> QED BY <1>2, <1>3, <3>1, <3>2
  <2> QED BY <2>1
<1>6. Total(1..4, W) <= Total(1..4, V) /\ Total(1..4, W) \in Int /\ Total(1..4, V) \in Int
  BY <1>4, <1>5, TotalGrows, TotalStep
<1>7. PICK a \in Int, b \in Int : a = Ttm(quarters, i) /\ b = Ttm(quarters, i - 4) /\ a >= b
  BY <1>2, <1>3, <1>6
<1>8. PICK c \in Nat : c = Abs(b)
  BY DEF Abs
<1>9. TtmGrowth(quarters, i) = [num |-> 100 * (a - b), den |-> c]
  BY <1>1, <1>7, <1>8 DEF TtmGrowth
<1>10. (100 * (a - b)) * c >= 0
  BY <1>7, SameSign
<1> QED BY <1>9, <1>10

\* A part of a finite set has no more members than the set.
LEMMA LowCashGrows ==
  ASSUME NEW n \in Nat, NEW A, A \subseteq 1..n, NEW B, B \subseteq 1..n, A \subseteq B, Cardinality(A) >= 2
  PROVE  Cardinality(B) >= 2
<1>1. IsFiniteSet(1..n)
  BY UpToFinite
<1>2. IsFiniteSet(A) /\ IsFiniteSet(B)
  BY <1>1, FS_Subset
<1>3. Cardinality(A) <= Cardinality(B) /\ Cardinality(A) \in Nat /\ Cardinality(B) \in Nat
  BY <1>2, FS_Subset, FS_CardinalityType
<1> QED BY <1>3

\* A sequence with an element put before it.
LEMMA Prefixed ==
  ASSUME NEW S, NEW x \in S, NEW s \in Seq(S)
  PROVE  /\ <<x>> \o s \in Seq(S) /\ Len(<<x>> \o s) = Len(s) + 1
         /\ (<<x>> \o s)[1] = x
         /\ \A i \in 2..Len(s) + 1 : (<<x>> \o s)[i] = s[i - 1]
<1> DEFINE t == <<x>>
<1>1. t \in Seq(S) /\ Len(t) = 1 /\ t[1] = x
  OBVIOUS
<1>2. PICK n \in Nat : n = Len(s)
  OBVIOUS
<1> HIDE DEF t
<1>3. /\ t \o s \in Seq(S) /\ Len(t \o s) = Len(t) + Len(s)
      /\ \A i \in 1..Len(t) + Len(s) : (t \o s)[i] = IF i <= Len(t) THEN t[i] ELSE s[i - Len(t)]
  BY <1>1, ConcatProperties
<1>4. /\ Len(t \o s) = n + 1
      /\ \A i \in 1..n + 1 : (t \o s)[i] = IF i <= 1 THEN t[i] ELSE s[i - 1]
  BY <1>1, <1>2, <1>3
<1>5. (t \o s)[1] = x /\ \A i \in 2..n + 1 : (t \o s)[i] = s[i - 1]
  BY <1>1, <1>2, <1>4
<1> QED BY <1>2, <1>3, <1>4, <1>5 DEF t

Anomalies == {"profitless_growth", "low_cash", "leverage", "payout", "goodwill", "pb_trap"}

(* What shows the anomaly a in the statements s.                             *)
Shows(a, s, pb) ==
  CASE a = "profitless_growth" -> ProfitlessGrowth(s[1])
    [] a = "low_cash"  -> Cardinality(LowCash(s)) >= 2
    [] a = "leverage"  -> LeveragedDecline(s[1], s[2])
    [] a = "payout"    -> Given(s[1].payout) /\ s[1].payout > 100
    [] a = "goodwill"  -> GoodwillHeavy(s[1])
    [] a = "pb_trap"   -> pb # None /\ pb <= 7 /\ Len(s) >= 3 /\ BookStagnates(s[1], s[3])

\* Two statements or more show the anomalies one by one.
LEMMA AnomaliesShow ==
  ASSUME NEW s, NEW pb, ~(Len(s) < 2)
  PROVE  \A a : a \in DetectAnomalies(s, pb) <=> a \in Anomalies /\ Shows(a, s, pb)
BY Zenon DEF DetectAnomalies, Anomalies, Shows

(* A year that is worse in every figure, as WorseIsNoticed has it.           *)
WorseThan(r) ==
  [r EXCEPT !.ocf_ratio = IF r.ocf_ratio = None THEN None ELSE r.ocf_ratio - 1,
                 !.profit_growth = IF Given(r.profit_growth) /\ r.profit_growth # 1
                                   THEN r.profit_growth - 1 ELSE r.profit_growth,
                 !.payout = IF r.payout = None THEN None ELSE r.payout + 1,
                 !.goodwill = IF r.goodwill = None THEN None ELSE r.goodwill + 1,
                 !.equity = IF r.equity # None /\ r.equity > 1 THEN r.equity - 1 ELSE r.equity]

\* Its figures, one by one.
LEMMA WorseFigures ==
  ASSUME NEW r \in AnyYear, NEW worse, worse = WorseThan(r)
  PROVE  /\ worse \in AnyYear
         /\ worse.growth = r.growth /\ worse.debt = r.debt /\ worse.roe = r.roe
         /\ worse.ocf_ratio = (IF r.ocf_ratio = None THEN None ELSE r.ocf_ratio - 1)
         /\ worse.profit_growth = (IF Given(r.profit_growth) /\ r.profit_growth # 1
                                        THEN r.profit_growth - 1 ELSE r.profit_growth)
         /\ worse.payout = (IF r.payout = None THEN None ELSE r.payout + 1)
         /\ worse.goodwill = (IF r.goodwill = None THEN None ELSE r.goodwill + 1)
         /\ worse.equity = (IF r.equity # None /\ r.equity > 1 THEN r.equity - 1 ELSE r.equity)
<1>0. /\ r.growth \in Int \cup {None} /\ r.profit_growth \in Int \cup {None}
      /\ r.ocf_ratio \in Int \cup {None} /\ r.debt \in Int \cup {None} /\ r.roe \in Int \cup {None}
      /\ r.payout \in Int \cup {None} /\ r.goodwill \in Int \cup {None}
      /\ r.equity \in Int \cup {None}
  BY DEF AnyYear
<1>1. PICK a \in Int \cup {None} : a = (IF r.ocf_ratio = None THEN None ELSE r.ocf_ratio - 1)
  <2>1. (IF r.ocf_ratio = None THEN None ELSE r.ocf_ratio - 1) \in Int \cup {None}
    BY <1>0 DEF Given
  <2> QED BY <2>1
<1>2. PICK b \in Int \cup {None} : b = (IF Given(r.profit_growth) /\ r.profit_growth # 1
                                    THEN r.profit_growth - 1 ELSE r.profit_growth)
  <2>1. (IF Given(r.profit_growth) /\ r.profit_growth # 1
                                    THEN r.profit_growth - 1 ELSE r.profit_growth) \in Int \cup {None}
    BY <1>0 DEF Given
  <2> QED BY <2>1
<1>3. PICK c \in Int \cup {None} : c = (IF r.payout = None THEN None ELSE r.payout + 1)
  <2>1. (IF r.payout = None THEN None ELSE r.payout + 1) \in Int \cup {None}
    BY <1>0 DEF Given
  <2> QED BY <2>1
<1>4. PICK d \in Int \cup {None} : d = (IF r.goodwill = None THEN None ELSE r.goodwill + 1)
  <2>1. (IF r.goodwill = None THEN None ELSE r.goodwill + 1) \in Int \cup {None}
    BY <1>0 DEF Given
  <2> QED BY <2>1
<1>5. PICK e \in Int \cup {None} : e = (IF r.equity # None /\ r.equity > 1 THEN r.equity - 1 ELSE r.equity)
  <2>1. (IF r.equity # None /\ r.equity > 1 THEN r.equity - 1 ELSE r.equity) \in Int \cup {None}
    BY <1>0 DEF Given
  <2> QED BY <2>1
<1>6. worse = [r EXCEPT !.ocf_ratio = a, !.profit_growth = b, !.payout = c, !.goodwill = d, !.equity = e]
  BY <1>1, <1>2, <1>3, <1>4, <1>5, Zenon DEF WorseThan
<1>7. worse \in AnyYear
  BY <1>6 DEF AnyYear
<1>8. /\ worse.ocf_ratio = a /\ worse.profit_growth = b /\ worse.payout = c /\ worse.goodwill = d
      /\ worse.equity = e
      /\ worse.growth = r.growth /\ worse.debt = r.debt /\ worse.roe = r.roe
  BY <1>6 DEF AnyYear
<1> QED BY <1>1, <1>2, <1>3, <1>4, <1>5, <1>7, <1>8

\* detect_anomalies on any statements: what WorseIsNoticed says of it.
LEMMA WorseNoticed ==
  ASSUME NEW statements \in Seq(AnyYear), NEW pb \in Int \cup {None}
  PROVE  WorseIsNoticed(statements, pb)
<1> DEFINE new == statements[1]
           worse == [new EXCEPT !.ocf_ratio = IF @ = None THEN None ELSE @ - 1,
                                !.profit_growth = IF Given(@) /\ @ # 1 THEN @ - 1 ELSE @,
                                !.payout = IF @ = None THEN None ELSE @ + 1,
                                !.goodwill = IF @ = None THEN None ELSE @ + 1,
                                !.equity = IF @ # None /\ @ > 1 THEN @ - 1 ELSE @]
           after == <<worse>> \o Tail(statements)
<1>1. SUFFICES ASSUME Len(statements) > 0
               PROVE  DetectAnomalies(statements, pb) \subseteq DetectAnomalies(after, pb)
  BY DEF WorseIsNoticed
<1>2. CASE Len(statements) < 2
  BY <1>2 DEF DetectAnomalies
<1>3. CASE ~(Len(statements) < 2)
  <2>1. PICK n \in Nat : n = Len(statements) /\ n >= 2
    BY <1>3
  <2>2. new \in AnyYear /\ statements[2] \in AnyYear /\ statements # <<>>
    BY <2>1
  <2>3. /\ worse \in AnyYear
        /\ worse.growth = new.growth /\ worse.debt = new.debt /\ worse.roe = new.roe
        /\ worse.ocf_ratio = (IF new.ocf_ratio = None THEN None ELSE new.ocf_ratio - 1)
        /\ worse.profit_growth = (IF Given(new.profit_growth) /\ new.profit_growth # 1
                                  THEN new.profit_growth - 1 ELSE new.profit_growth)
        /\ worse.payout = (IF new.payout = None THEN None ELSE new.payout + 1)
        /\ worse.goodwill = (IF new.goodwill = None THEN None ELSE new.goodwill + 1)
        /\ worse.equity = (IF new.equity # None /\ new.equity > 1 THEN new.equity - 1 ELSE new.equity)
    <3>1. worse = WorseThan(new)
      BY DEF WorseThan
    <3> HIDE DEF worse, new
    <3> QED BY <2>2, <3>1, WorseFigures
  <2> HIDE DEF worse
  <2>4. /\ Tail(statements) \in Seq(AnyYear) /\ Len(Tail(statements)) = n - 1
        /\ \A i \in 1..n - 1 : Tail(statements)[i] = statements[i + 1]
    BY <2>1, <2>2, HeadTailProperties
  <2>5. /\ after \in Seq(AnyYear) /\ Len(after) = n
        /\ after[1] = worse /\ \A i \in 2..n : after[i] = statements[i]
    <3>1. \A t \in Seq(AnyYear) :
            /\ <<worse>> \o t \in Seq(AnyYear) /\ Len(<<worse>> \o t) = Len(t) + 1
            /\ (<<worse>> \o t)[1] = worse
            /\ \A i \in 2..Len(t) + 1 : (<<worse>> \o t)[i] = t[i - 1]
      BY <2>3, Prefixed
    <3>2. n - 1 + 1 = n /\ \A i \in 2..n : i - 1 \in 1..n - 1 /\ i - 1 + 1 = i
      BY <2>1
    <3>3. /\ after \in Seq(AnyYear) /\ Len(after) = n /\ after[1] = worse
          /\ \A i \in 2..n : after[i] = Tail(statements)[i - 1]
      BY <2>4, <3>1, <3>2
    <3> HIDE DEF after
    <3> QED BY <2>4, <3>2, <3>3
  <2> HIDE DEF after
  <2>6. after[2] = statements[2] /\ (n >= 3 => after[3] = statements[3])
    BY <2>1, <2>5
  <2>7. ProfitlessGrowth(new) => ProfitlessGrowth(worse)
    BY <2>2, <2>3, NoneAssumption DEF ProfitlessGrowth, Given, AnyYear
  <2>8. LeveragedDecline(new, statements[2]) => LeveragedDecline(worse, after[2])
    BY <2>3, <2>6 DEF LeveragedDecline
  <2>9. Given(new.payout) /\ new.payout > 100 => Given(worse.payout) /\ worse.payout > 100
    <3>1. SUFFICES ASSUME Given(new.payout), new.payout > 100
                   PROVE  Given(worse.payout) /\ worse.payout > 100
      OBVIOUS
    <3>2. PICK p \in Int : p = new.payout /\ p > 100
      BY <2>2, <3>1 DEF Given, AnyYear
    <3>3. PICK q \in Int : q = worse.payout /\ q > 100
      <4>1. worse.payout = p + 1 /\ p + 1 \in Int /\ p + 1 > 100
        BY <2>3, <3>2, NoneAssumption
      <4> QED BY <4>1
    <3> QED BY <3>3, NoneAssumption DEF Given
  <2>10. GoodwillHeavy(new) => GoodwillHeavy(worse)
    <3>1. SUFFICES ASSUME GoodwillHeavy(new) PROVE GoodwillHeavy(worse)
      OBVIOUS
    <3>2. PICK g \in Int, e \in Int : g = new.goodwill /\ e = new.equity /\ e > 0 /\ 10 * g > 3 * e
      BY <2>2, <3>1 DEF GoodwillHeavy, Given, AnyYear
    <3>3. /\ worse.goodwill = g + 1
          /\ worse.equity = IF e > 1 THEN e - 1 ELSE e
      BY <2>3, <3>2, NoneAssumption
    <3>4. PICK f \in Int : f = worse.equity /\ f > 0 /\ f <= e
      BY <3>2, <3>3
    <3>5. PICK h \in Int : h = worse.goodwill /\ h = g + 1
      BY <3>2, <3>3
    <3>6. g > 0
      BY <3>2
    <3>7. 10 * h > 3 * f /\ h # 0
      <4>1. \A a, b, c, d \in Int : (10 * a > 3 * b /\ d <= b /\ c = a + 1 /\ a > 0) => 10 * c > 3 * d /\ c # 0
        OBVIOUS
      <4> QED BY <3>2, <3>4, <3>5, <3>6, <4>1
    <3> QED BY <3>4, <3>5, <3>7, NoneAssumption DEF GoodwillHeavy, Given
  <2>11. n >= 3 /\ BookStagnates(new, statements[3]) => BookStagnates(worse, after[3])
    <3>1. SUFFICES ASSUME n >= 3, BookStagnates(new, statements[3]) PROVE BookStagnates(worse, after[3])
      OBVIOUS
    <3>2. statements[3] \in AnyYear
      BY <2>1, <3>1
    <3>3. PICK e \in Int, o \in Int : e = new.equity /\ o = statements[3].equity /\ e # 0 /\ o # 0 /\ o > 0
                                      /\ 100 * (e - o) < 3 * o
      BY <2>2, <3>1, <3>2 DEF BookStagnates, Given, AnyYear
    <3>4. PICK f \in Int : f = worse.equity /\ f <= e /\ f # 0
      BY <2>3, <3>3, NoneAssumption
    <3>5. 100 * (f - o) < 3 * o
      <4>1. \A a, b, c \in Int : (100 * (a - b) < 3 * b /\ c <= a) => 100 * (c - b) < 3 * b
        OBVIOUS
      <4> QED BY <3>3, <3>4, <4>1
    <3> QED BY <2>6, <3>1, <3>3, <3>4, <3>5, NoneAssumption DEF BookStagnates, Given
  <2>12. Cardinality(LowCash(statements)) >= 2 => Cardinality(LowCash(after)) >= 2
    <3> DEFINE m == Min({3, n})
               A == {i \in 1..m : statements[i].ocf_ratio # None /\ statements[i].ocf_ratio < 50}
               B == {i \in 1..m : after[i].ocf_ratio # None /\ after[i].ocf_ratio < 50}
    <3>1. m \in Nat /\ m <= n
      <4>1. IsFiniteSet({3, n}) /\ {3, n} \subseteq Int /\ {3, n} # {}
        <5>1. IsFiniteSet({3, n})
          BY FiveIsFinite
        <5> QED BY <5>1
      <4>2. Min({3, n}) \in {3, n} /\ \A x \in {3, n} : Min({3, n}) <= x
        BY <4>1, Extremes
      <4> QED BY <4>2
    <3>2. LowCash(statements) = A /\ LowCash(after) = B
      BY <2>1, <2>5 DEF LowCash
    <3> HIDE DEF m
    <3>3. ASSUME NEW i \in A PROVE i \in B
      <4>1. CASE i = 1
        <5>1. PICK o \in Int : o = new.ocf_ratio /\ o < 50
          BY <2>2, <4>1 DEF AnyYear
        <5>2. worse.ocf_ratio = o - 1
          BY <2>3, <5>1, NoneAssumption
        <5>3. PICK q \in Int : q = worse.ocf_ratio /\ q < 50
          BY <5>1, <5>2
        <5>4. after[i].ocf_ratio = q /\ q # None
          BY <2>5, <4>1, <5>3, NoneAssumption
        <5> QED BY <5>3, <5>4
      <4>2. CASE i # 1
        <5>1. i \in 2..n
          BY <3>1, <4>2
        <5> QED BY <2>5, <5>1
      <4> QED BY <4>1, <4>2
    <3>4. A \subseteq 1..m /\ B \subseteq 1..m /\ A \subseteq B
      BY <3>3
    <3> HIDE DEF A, B
    <3>5. Cardinality(A) >= 2 => Cardinality(B) >= 2
      BY <3>1, <3>4, LowCashGrows
    <3> QED BY <3>2, <3>5
  <2>13. /\ \A a : a \in DetectAnomalies(statements, pb) <=> a \in Anomalies /\ Shows(a, statements, pb)
         /\ \A a : a \in DetectAnomalies(after, pb) <=> a \in Anomalies /\ Shows(a, after, pb)
    BY <1>3, <2>1, <2>5, AnomaliesShow
  <2>14. ASSUME NEW a \in Anomalies, Shows(a, statements, pb) PROVE Shows(a, after, pb)
    <3>1. CASE a = "profitless_growth"
      BY <2>5, <2>7, <2>14, <3>1 DEF Shows
    <3>2. CASE a = "low_cash"
      BY <2>12, <2>14, <3>2 DEF Shows
    <3>3. CASE a = "leverage"
      BY <2>5, <2>8, <2>14, <3>3 DEF Shows
    <3>4. CASE a = "payout"
      BY <2>5, <2>9, <2>14, <3>4 DEF Shows
    <3>5. CASE a = "goodwill"
      BY <2>5, <2>10, <2>14, <3>5 DEF Shows
    <3>6. CASE a = "pb_trap"
      BY <2>1, <2>5, <2>11, <2>14, <3>6 DEF Shows
    <3> QED BY <3>1, <3>2, <3>3, <3>4, <3>5, <3>6 DEF Anomalies
  <2> QED BY <2>13, <2>14
<1> QED BY <1>2, <1>3

\* The value of what is stored: for statements, figures, quarters and answers
\* of any number and size, no higher yield is expected than is earned, a
\* dividend that is called sustainable is covered by cash, a worse year shows
\* no anomaly less, a year that sells as much in every quarter does not shrink,
\* and a stock that one endpoint knows is found.
THEOREM ValuationHolds ==
  input \in AnyValuation /\ [][Next]_input => []ValuationIsSound
<1>1. input \in AnyValuation => ValuationIsSound
  <2> SUFFICES ASSUME input \in AnyValuation PROVE ValuationIsSound
    OBVIOUS
  <2>1. input.kind = "forward" => ForwardIsEarned(input.statements, input.price)
    BY ForwardEarned DEF AnyValuation
  <2>2. input.kind = "cover" => DividendIsCovered(input.ocf, input.profit, input.paid)
    BY DividendsCovered DEF AnyValuation
  <2>3. input.kind = "anomaly" => WorseIsNoticed(input.statements, input.pb)
    BY WorseNoticed DEF AnyValuation
  <2>4. input.kind = "realtime" => IndustryIsFound(input.answers, input.primary)
    BY IndustriesFound DEF AnyValuation
  <2>5. input.kind = "ttm" => TtmIsSound(input.quarters)
    BY TtmsSound DEF AnyValuation
  <2> QED BY <2>1, <2>2, <2>3, <2>4, <2>5 DEF ValuationIsSound
<1>2. input \in AnyValuation /\ [Next]_input => (input \in AnyValuation)'
  BY DEF Next
<1> QED BY <1>1, <1>2, PTL

-----------------------------------------------------------------------------
(* What the program says of its own data and of its own success.             *)

AnyDraft    == [id: Int, source: STRING, executed: BOOLEAN, value: Int]
AnyDecision == [id: Int, side: {"BUY", "SELL"}, target: Int \cup {None}, executed: Int \cup {None}]
SomeDays    == {D \in SUBSET Int : IsFiniteSet(D)}

AnyQualityOf(S) ==
  [kind: {"quality"}, rows: [S -> SomeDays], dtype: DataTypes, age: Int \cup {None}, passed: Nat]

(* Pools, positions, drafts, calls and decisions of any number and size.     *)
AnyQuality ==
  (UNION {AnyQualityOf(S) : S \in {T \in SUBSET STRING : IsFiniteSet(T)}})
  \cup [kind: {"gain"}, positions: Seq([realized: Int, cost: Int])]
  \cup [kind: {"attribution"}, drafts: {R \in SUBSET AnyDraft : IsFiniteSet(R)}]
  \cup [kind: {"breaker"}, calls: Seq(BOOLEAN)]
  \cup [kind: {"slippage"}, decisions: {R \in SUBSET AnyDecision : IsFiniteSet(R)}]

(* The sums, under names.                                                    *)
GapsOf(S, rows)      == SumOver(S, LAMBDA s : Cardinality(Days(rows)) - Cardinality(rows[s]))
DraftCounts(S, by)   == SumOver(S, LAMBDA e : by[e].drafts)
DraftValues(S, by)   == SumOver(S, LAMBDA e : by[e].value)
ExecutedValues(S)    == SumOver(S, LAMBDA d : d.value)
SlippageOver(S)      == SumOver(S, Slippage)

\* Each of them is a total: the gaps,
LEMMA GapSum ==
  ASSUME NEW S, NEW rows, NEW W, \A x \in S : W[x] = (Cardinality(Days(rows)) - Cardinality(rows[x]))
  PROVE  GapsOf(S, rows) = Total(S, W)
<1> DEFINE P(f) == f = [s \in SUBSET S |->
                         IF s = {} THEN 0
                         ELSE LET x == CHOOSE y \in s : TRUE IN f[s \ {x}] + (Cardinality(Days(rows)) - Cardinality(rows[x]))]
<1>1. GapsOf(S, rows) = (CHOOSE f : P(f))[S]
  BY DEF GapsOf, SumOver, FoldSet, MapThenFoldSet
<1>2. \A f : P(f) <=> Folds(f, S, W)
  BY DEF Folds
<1> HIDE DEF P
<1>3. (CHOOSE f : P(f)) = (CHOOSE f : Folds(f, S, W))
  BY <1>2, Zenon
<1> QED BY <1>1, <1>3, TotalIsFold

\* the drafts of the engines,
LEMMA DraftCountSum ==
  ASSUME NEW S, NEW by, NEW W, \A x \in S : W[x] = by[x].drafts
  PROVE  DraftCounts(S, by) = Total(S, W)
<1> DEFINE P(f) == f = [s \in SUBSET S |->
                         IF s = {} THEN 0
                         ELSE LET x == CHOOSE y \in s : TRUE IN f[s \ {x}] + by[x].drafts]
<1>1. DraftCounts(S, by) = (CHOOSE f : P(f))[S]
  BY DEF DraftCounts, SumOver, FoldSet, MapThenFoldSet
<1>2. \A f : P(f) <=> Folds(f, S, W)
  BY DEF Folds
<1> HIDE DEF P
<1>3. (CHOOSE f : P(f)) = (CHOOSE f : Folds(f, S, W))
  BY <1>2, Zenon
<1> QED BY <1>1, <1>3, TotalIsFold

\* their values,
LEMMA DraftValueSum ==
  ASSUME NEW S, NEW by, NEW W, \A x \in S : W[x] = by[x].value
  PROVE  DraftValues(S, by) = Total(S, W)
<1> DEFINE P(f) == f = [s \in SUBSET S |->
                         IF s = {} THEN 0
                         ELSE LET x == CHOOSE y \in s : TRUE IN f[s \ {x}] + by[x].value]
<1>1. DraftValues(S, by) = (CHOOSE f : P(f))[S]
  BY DEF DraftValues, SumOver, FoldSet, MapThenFoldSet
<1>2. \A f : P(f) <=> Folds(f, S, W)
  BY DEF Folds
<1> HIDE DEF P
<1>3. (CHOOSE f : P(f)) = (CHOOSE f : Folds(f, S, W))
  BY <1>2, Zenon
<1> QED BY <1>1, <1>3, TotalIsFold

\* the values of some drafts,
LEMMA ExecutedSum ==
  ASSUME NEW S, NEW W, \A x \in S : W[x] = x.value
  PROVE  ExecutedValues(S) = Total(S, W)
<1> DEFINE P(f) == f = [s \in SUBSET S |->
                         IF s = {} THEN 0
                         ELSE LET x == CHOOSE y \in s : TRUE IN f[s \ {x}] + x.value]
<1>1. ExecutedValues(S) = (CHOOSE f : P(f))[S]
  BY DEF ExecutedValues, SumOver, FoldSet, MapThenFoldSet
<1>2. \A f : P(f) <=> Folds(f, S, W)
  BY DEF Folds
<1> HIDE DEF P
<1>3. (CHOOSE f : P(f)) = (CHOOSE f : Folds(f, S, W))
  BY <1>2, Zenon
<1> QED BY <1>1, <1>3, TotalIsFold

\* and the slippage.
LEMMA SlippageSum ==
  ASSUME NEW S, NEW W, \A x \in S : W[x] = Slippage(x)
  PROVE  SlippageOver(S) = Total(S, W)
<1> DEFINE P(f) == f = [s \in SUBSET S |->
                         IF s = {} THEN 0
                         ELSE LET x == CHOOSE y \in s : TRUE IN f[s \ {x}] + Slippage(x)]
<1>1. SlippageOver(S) = (CHOOSE f : P(f))[S]
  BY DEF SlippageOver, SumOver, FoldSet, MapThenFoldSet
<1>2. \A f : P(f) <=> Folds(f, S, W)
  BY DEF Folds
<1> HIDE DEF P
<1>3. (CHOOSE f : P(f)) = (CHOOSE f : Folds(f, S, W))
  BY <1>2, Zenon
<1> QED BY <1>1, <1>3, TotalIsFold

\* Days, stocks and gaps of a pool.
LEMMA PoolFacts ==
  ASSUME NEW S, IsFiniteSet(S), NEW rows \in [S -> SomeDays]
  PROVE  /\ Covered(rows) \in SUBSET S /\ IsFiniteSet(Covered(rows))
         /\ IsFiniteSet(Days(rows))
         /\ \A x \in S : /\ rows[x] \subseteq Days(rows) /\ Cardinality(rows[x]) \in Nat
                         /\ Cardinality(rows[x]) <= Cardinality(Days(rows))
         /\ Cardinality(Days(rows)) \in Nat
         /\ \E W \in [S -> Int] : /\ \A x \in S : W[x] = Cardinality(Days(rows)) - Cardinality(rows[x])
                                  /\ DetectGaps(rows) = Total(Covered(rows), W)
                                  /\ DetectGaps(rows) \in Nat
<1> DEFINE R == {rows[x] : x \in S}
           W == [x \in S |-> Cardinality(Days(rows)) - Cardinality(rows[x])]
<1>1. \A x \in S : rows[x] \in SomeDays /\ IsFiniteSet(rows[x])
  BY DEF SomeDays
<1>2. DOMAIN rows = S
  OBVIOUS
<1>3. Covered(rows) \in SUBSET S /\ IsFiniteSet(Covered(rows))
  <2>1. Covered(rows) \in SUBSET S
    BY <1>2 DEF Covered
  <2> QED BY <2>1, FS_Subset
<1>4. IsFiniteSet(R)
  <2>1. rows \in [S -> R] /\ \A r \in R : \E x \in S : rows[x] = r
    BY <1>2
  <2> HIDE DEF R
  <2> QED BY <2>1, FiniteRange
<1>5. IsFiniteSet(Days(rows))
  <2>1. \A T \in R : IsFiniteSet(T)
    BY <1>1
  <2>2. Days(rows) = UNION R
    BY <1>2 DEF Days
  <2> HIDE DEF R
  <2>3. IsFiniteSet(UNION R)
    BY <1>4, <2>1, FS_UNION
  <2> QED BY <2>2, <2>3
<1>6. Cardinality(Days(rows)) \in Nat
  BY <1>5, FS_CardinalityType
<1>7. ASSUME NEW x \in S
      PROVE  /\ rows[x] \subseteq Days(rows) /\ Cardinality(rows[x]) \in Nat
             /\ Cardinality(rows[x]) <= Cardinality(Days(rows))
  <2>1. rows[x] \subseteq Days(rows)
    BY <1>2 DEF Days
  <2>2. Cardinality(rows[x]) <= Cardinality(Days(rows))
    BY <1>5, <2>1, FS_Subset
  <2>3. Cardinality(rows[x]) \in Nat
    BY <1>1, FS_CardinalityType
  <2> QED BY <2>1, <2>2, <2>3
<1>8. W \in [S -> Int] /\ \A x \in S : W[x] = Cardinality(Days(rows)) - Cardinality(rows[x]) /\ W[x] >= 0
  BY <1>6, <1>7
<1> HIDE DEF W, R
<1>9. DetectGaps(rows) = GapsOf(Covered(rows), rows)
  BY DEF DetectGaps, GapsOf
<1>10. GapsOf(Covered(rows), rows) = Total(Covered(rows), W)
  <2>1. \A x \in Covered(rows) : W[x] = (Cardinality(Days(rows)) - Cardinality(rows[x]))
    BY <1>3, <1>8
  <2> QED BY <2>1, GapSum
<1>11. Total(Covered(rows), W) \in Nat
  <2>1. Total(Covered(rows), W) \in Int
    BY <1>3, <1>8, TotalStep
  <2>2. 0 <= Total(Covered(rows), W)
    BY <1>3, <1>8, TotalOfPart
  <2> QED BY <2>1, <2>2
<1> QED BY <1>3, <1>5, <1>6, <1>7, <1>8, <1>9, <1>10, <1>11

\* The points that the gaps leave.
LEMMA GapPoints ==
  ASSUME NEW n \in Nat, NEW g \in Nat
  PROVE  /\ GapPart(g, n).num \in Nat /\ GapPart(g, n).num <= 50 * n
         /\ \A h \in Nat : h <= g => GapPart(g, n).num <= GapPart(h, n).num
<1>1. ASSUME NEW k \in Nat
      PROVE  \E m \in Nat : /\ GapPart(k, n).num = 10 * m /\ m >= 5 * n - k
                            /\ m = 0 \/ m = 5 * n - k
  <2>0. \A b \in Int : /\ Max({0, b}) \in Int /\ Max({0, b}) >= 0 /\ Max({0, b}) >= b
                       /\ Max({0, b}) = 0 \/ Max({0, b}) = b
    BY MaxOfTwo
  <2>a. PICK a \in Int : a = 5 * n - k
    <3>1. 5 * n - k \in Int
      OBVIOUS
    <3> QED BY <3>1
  <2>1. PICK m \in Int : m = Max({0, a})
    BY <2>0
  <2>2. m >= 0 /\ m >= a /\ (m = 0 \/ m = a)
    BY <2>0, <2>1
  <2>3. GapPart(k, n).num = 10 * m
    BY <2>a, <2>1 DEF GapPart
  <2>4. m \in Nat
    BY <2>2
  <2> QED BY <2>a, <2>1, <2>2, <2>3, <2>4
<1>2. PICK m \in Nat : GapPart(g, n).num = 10 * m /\ m >= 5 * n - g /\ (m = 0 \/ m = 5 * n - g)
  BY <1>1
<1>3. ASSUME NEW h \in Nat, h <= g PROVE GapPart(g, n).num <= GapPart(h, n).num
  <2>1. PICK k \in Nat : GapPart(h, n).num = 10 * k /\ k >= 5 * n - h /\ (k = 0 \/ k = 5 * n - h)
    BY <1>1
  <2>2. m <= k
    BY <1>2, <1>3, <2>1
  <2> QED BY <1>2, <2>1, <2>2
<1>4. 10 * m \in Nat /\ 10 * m <= 50 * n
  BY <1>2
<1> QED BY <1>2, <1>3, <1>4

\* The smaller of two natural numbers.
LEMMA MinOfTwo ==
  ASSUME NEW a \in Int, NEW b \in Int
  PROVE  /\ Min({a, b}) \in Int /\ Min({a, b}) <= a /\ Min({a, b}) <= b
         /\ Min({a, b}) = a \/ Min({a, b}) = b
<1>1. \E m \in {a, b} : \A n \in {a, b} : m <= n
  <2>1. CASE a <= b
    BY <2>1
  <2>2. CASE b <= a
    BY <2>2
  <2> QED BY <2>1, <2>2
<1> QED BY <1>1 DEF Min

(* The points for the age of the newest row.                                 *)
FreshPoints(age, dtype) ==
  CASE Freshness(age, dtype) = "fresh"   -> 30
    [] Freshness(age, dtype) = "stale"   -> 15
    [] Freshness(age, dtype) = "missing" -> 0

\* The score of a type, from its parts.
LEMMA ScoreIs ==
  ASSUME NEW S, IsFiniteSet(S), NEW rows \in [S -> SomeDays], NEW dtype \in DataTypes,
         NEW age \in Int \cup {None}, NEW passed \in Nat
  PROVE  /\ Cardinality(S) \in Nat /\ Cardinality(Covered(rows)) \in Nat
         /\ Cardinality(Covered(rows)) <= Cardinality(S)
         /\ FreshPoints(age, dtype) \in {0, 15, 30}
         /\ Gaps(rows, dtype) \in Nat /\ Min({passed, 100}) \in 0..100
         /\ TypeScore(rows, dtype, age, passed)
              = 100 * (200 * Cardinality(Covered(rows)) + 5 * (Cardinality(S) * FreshPoints(age, dtype))
                       + GapPart(Gaps(rows, dtype), Cardinality(S)).num)
                + 100 * (Cardinality(S) * Min({passed, 100}))
<1>1. Cardinality(S) \in Nat /\ Cardinality(Covered(rows)) \in Nat
      /\ Cardinality(Covered(rows)) <= Cardinality(S)
  BY PoolFacts, FS_Subset, FS_CardinalityType
<1>2. PICK n \in Nat, c \in Nat : n = Cardinality(S) /\ c = Cardinality(Covered(rows)) /\ c <= n
  BY <1>1
<1>3. PICK f \in {0, 15, 30} : f = FreshPoints(age, dtype)
  <2>1. Freshness(age, dtype) \in {"fresh", "stale", "missing"}
    BY DEF Freshness
  <2>2. FreshPoints(age, dtype) \in {0, 15, 30}
    BY <2>1 DEF FreshPoints
  <2> QED BY <2>2
<1>4. PICK g \in Nat : g = Gaps(rows, dtype)
  <2>1. DetectGaps(rows) \in Nat
    BY PoolFacts
  <2>2. Gaps(rows, dtype) \in Nat
    BY <2>1 DEF Gaps
  <2> QED BY <2>2
<1>5. PICK m \in 0..100 : m = Min({passed, 100})
  <2>1. Min({passed, 100}) \in Int /\ Min({passed, 100}) <= 100
        /\ (Min({passed, 100}) = passed \/ Min({passed, 100}) = 100)
    BY MinOfTwo
  <2>2. Min({passed, 100}) \in 0..100
    BY <2>1
  <2> QED BY <2>2
<1>6. TypeScore(rows, dtype, age, passed)
        = 100 * (5 * 40 * c + 5 * n * f + GapPart(g, n).num) + 5 * n * 20 * m
  <2>1. DOMAIN rows = S
    OBVIOUS
  <2> QED BY <1>2, <1>3, <1>4, <1>5, <2>1 DEF TypeScore, FreshPoints
<1>7. TypeScore(rows, dtype, age, passed)
        = 100 * (200 * c + 5 * (n * f) + GapPart(g, n).num) + 100 * (n * m)
  <2>1. 5 * n * f = 5 * (n * f) /\ 5 * n * 20 * m = 100 * (n * m) /\ 5 * 40 * c = 200 * c
    OBVIOUS
  <2> QED BY <1>6, <2>1
<1> QED BY <1>2, <1>3, <1>4, <1>5, <1>7, Zenon

\* compute_quality on any pool: what ScoreIsSound says of it.
LEMMA ScoresSound ==
  ASSUME NEW S, IsFiniteSet(S), NEW rows \in [S -> SomeDays], NEW dtype \in DataTypes,
         NEW age \in Int \cup {None}, NEW passed \in Nat
  PROVE  ScoreIsSound(rows, dtype, age, passed)
<1> DEFINE score == TypeScore(rows, dtype, age, passed)
           filled(s, d) == [rows EXCEPT ![s] = @ \cup {d}]
<1> DEFINE n == Cardinality(S)
           c == Cardinality(Covered(rows))
           f == FreshPoints(age, dtype)
           g == Gaps(rows, dtype)
           m == Min({passed, 100})
<1>1. /\ n \in Nat /\ c \in Nat /\ c <= n /\ f \in {0, 15, 30} /\ g \in Nat /\ m \in 0..100
      /\ score = 100 * (200 * c + 5 * (n * f) + GapPart(g, n).num) + 100 * (n * m)
  BY ScoreIs
<1> HIDE DEF n, c, f, g, m
<1>2. PICK x \in Nat, y \in Nat, z \in Nat :
        /\ x = n * f /\ x <= 30 * n /\ y = n * m /\ y <= 100 * n /\ z = GapPart(g, n).num /\ z <= 50 * n
  <2>1. n * f \in Nat /\ n * f <= 30 * n
    BY <1>1
  <2>2. n * m \in Nat /\ n * m <= 100 * n
    <3>1. n * m <= n * 100 /\ n * 100 = 100 * n
      BY <1>1, ProductGrows
    <3>2. n * m \in Nat
      BY <1>1, Products
    <3> QED BY <3>1, <3>2
  <2>3. GapPart(g, n).num \in Nat /\ GapPart(g, n).num <= 50 * n
    BY <1>1, GapPoints
  <2> QED BY <2>1, <2>2, <2>3
<1>3. score = 100 * (200 * c + 5 * x + z) + 100 * y
  BY <1>1, <1>2
<1>4. 0 <= score /\ score <= 100 * 100 * 5 * n
  <2> HIDE DEF score
  <2>1. \A k \in Nat : k <= n =>
          /\ 0 <= 100 * (200 * k + 5 * x + z) + 100 * y
          /\ 100 * (200 * k + 5 * x + z) + 100 * y <= 100 * 100 * 5 * n
    BY <1>1, <1>2
  <2> QED BY <1>1, <1>3, <2>1
<1>5. ASSUME NEW s \in Covered(rows), NEW d \in Days(rows)
      PROVE  TypeScore(filled(s, d), dtype, age, passed) >= score
  <2> DEFINE r == filled(s, d)
  <2>1. s \in S
    BY PoolFacts
  <2>2. r \in [S -> SomeDays] /\ \A t \in S : r[t] = IF t = s THEN rows[s] \cup {d} ELSE rows[t]
    <3>1. rows[s] \in SomeDays
      BY <2>1
    <3>2. d \in Int
      <4>1. PICK t \in S : d \in rows[t]
        BY DEF Days
      <4>2. rows[t] \in SomeDays
        BY <4>1
      <4> QED BY <4>1, <4>2 DEF SomeDays
    <3>3. rows[s] \cup {d} \in SomeDays
      <4>1. IsFiniteSet(rows[s] \cup {d})
        BY <3>1, FS_AddElement DEF SomeDays
      <4> QED BY <3>1, <3>2, <4>1 DEF SomeDays
    <3> HIDE DEF SomeDays
    <3> QED BY <2>1, <3>3
  <2>3. Covered(r) = Covered(rows)
    BY <2>2 DEF Covered
  <2>4. Days(r) = Days(rows)
    BY <2>1, <2>2 DEF Days
  <2> HIDE DEF r
  <2>5. PICK V \in [S -> Int] : /\ \A t \in S : V[t] = Cardinality(Days(rows)) - Cardinality(rows[t])
                               /\ DetectGaps(rows) = Total(Covered(rows), V) /\ DetectGaps(rows) \in Nat
    BY PoolFacts
  <2>6. PICK W \in [S -> Int] : /\ \A t \in S : W[t] = Cardinality(Days(r)) - Cardinality(r[t])
                               /\ DetectGaps(r) = Total(Covered(r), W) /\ DetectGaps(r) \in Nat
    BY <2>2, PoolFacts
  <2>7. \A t \in S : W[t] <= V[t]
    <3>1. ASSUME NEW t \in S PROVE W[t] <= V[t]
      <4>1. rows[t] \subseteq r[t]
        BY <2>2
      <4>2. IsFiniteSet(r[t])
        BY <2>2 DEF SomeDays
      <4>3. Cardinality(rows[t]) <= Cardinality(r[t])
        BY <4>1, <4>2, FS_Subset
      <4>4. Cardinality(rows[t]) \in Nat /\ Cardinality(r[t]) \in Nat /\ Cardinality(Days(rows)) \in Nat
        BY <2>2, PoolFacts
      <4> QED BY <2>4, <2>5, <2>6, <4>3, <4>4
    <3> QED BY <3>1
  <2>8. DetectGaps(r) <= DetectGaps(rows)
    <3>1. Covered(rows) \in SUBSET S
      BY PoolFacts
    <3>2. Total(Covered(rows), W) <= Total(Covered(rows), V)
      BY <2>7, <3>1, TotalGrows
    <3> QED BY <2>3, <2>5, <2>6, <3>2
  <2>9. Gaps(r, dtype) <= g /\ Gaps(r, dtype) \in Nat
    BY <1>1, <2>5, <2>6, <2>8 DEF Gaps, g
  <2>10. PICK h \in Nat :
           /\ h <= g
           /\ TypeScore(r, dtype, age, passed) = 100 * (200 * c + 5 * (n * f) + GapPart(h, n).num) + 100 * (n * m)
    <3>1. TypeScore(r, dtype, age, passed)
            = 100 * (200 * Cardinality(Covered(r)) + 5 * (Cardinality(S) * FreshPoints(age, dtype))
                     + GapPart(Gaps(r, dtype), Cardinality(S)).num)
              + 100 * (Cardinality(S) * Min({passed, 100}))
      BY <2>2, ScoreIs
    <3> QED BY <2>3, <2>9, <3>1 DEF n, c, f, m
  <2>11. PICK w \in Nat : w = GapPart(h, n).num /\ z <= w
    BY <1>1, <1>2, <2>10, GapPoints
  <2>12. TypeScore(r, dtype, age, passed) = 100 * (200 * c + 5 * x + w) + 100 * y
    BY <1>2, <2>10, <2>11
  <2> HIDE DEF score
  <2>13. TypeScore(r, dtype, age, passed) >= score
    BY <1>1, <1>2, <1>3, <2>11, <2>12
  <2> QED BY <2>13 DEF r
<1>6. DOMAIN rows = S
  OBVIOUS
<1> QED BY <1>1, <1>4, <1>5, <1>6 DEF ScoreIsSound, n

\* trade_statistics on any positions: what GainsAreWins says of them.
LEMMA GainsWin ==
  ASSUME NEW positions \in Seq([realized: Int, cost: Int])
  PROVE  GainsAreWins(positions)
<1>1. \A i \in DOMAIN positions : positions[i].realized \in Int /\ positions[i].cost \in Int
  <2>1. \A i \in DOMAIN positions : positions[i] \in [realized: Int, cost: Int]
    BY LenProperties
  <2> QED BY <2>1
<1>2. ASSUME NEW i \in DOMAIN positions, positions[i].realized > 0, positions[i].cost = 0
      PROVE  i \in Wins(positions)
  BY <1>1, <1>2 DEF Wins, Closed, GainSign
<1>3. ASSUME NEW i \in DOMAIN positions, positions[i].realized < 0
      PROVE  i \in Losses(positions)
  BY <1>1, <1>3 DEF Losses, Wins, Closed, GainSign
<1>4. Wins(positions) \cap Losses(positions) = {} /\ Wins(positions) \subseteq Closed(positions)
  BY DEF Losses, Wins
<1>5. Wins(positions) \cup Losses(positions) = Closed(positions)
  BY <1>4 DEF Losses
<1> QED BY <1>2, <1>3, <1>4, <1>5 DEF GainsAreWins

\* dual_engine_attribution on any drafts: what AttributionAddsUp says of it.
LEMMA AttributionsAddUp ==
  ASSUME NEW D \in SUBSET AnyDraft, IsFiniteSet(D)
  PROVE  AttributionAddsUp(D)
<1> DEFINE E == {"quality_screen", "theme_scan", "unknown"}
           by == Attribution(D)
           K == [d \in D |-> EngineOf(d.source)]
           One == [d \in D |-> 1]
           V == [d \in D |-> IF d.executed THEN d.value ELSE 0]
           Own(e) == {d \in D : EngineOf(d.source) = e}
           Done == {d \in D : d.executed}
           BN == [e \in E |-> by[e].drafts]
           BV == [e \in E |-> by[e].value]
<1>1. IsFiniteSet(E)
  <2>1. \A a, b, c, d, e : IsFiniteSet({a, b, c, d, e})
    BY FiveIsFinite
  <2>2. E = {"quality_screen", "theme_scan", "unknown", "unknown", "unknown"}
    OBVIOUS
  <2> HIDE DEF E
  <2> QED BY <2>1, <2>2
<1>2. /\ DOMAIN by = E
      /\ \A e \in E : /\ by[e].drafts = Cardinality(Own(e))
                      /\ by[e].value = ExecutedValues({d \in Own(e) : d.executed})
  BY DEF Attribution, ExecutedValues
<1>3. K \in [D -> E] /\ \A d \in D : K[d] = EngineOf(d.source)
  BY DEF EngineOf
<1>4. /\ One \in [D -> Int] /\ \A d \in D : One[d] = 1
      /\ V \in [D -> Int] /\ \A d \in D : V[d] = IF d.executed THEN d.value ELSE 0
  BY DEF AnyDraft
<1> HIDE DEF by, K, One, V, E
<1>5. ASSUME NEW e \in E
      PROVE  /\ Own(e) = {d \in D : K[d] = e} /\ Own(e) \in SUBSET D
             /\ by[e].drafts = Total(Own(e), One) /\ by[e].drafts \in Int
             /\ by[e].value = Total(Own(e), V) /\ by[e].value \in Int
  <2>1. Own(e) = {d \in D : K[d] = e} /\ Own(e) \in SUBSET D
    BY <1>3
  <2> DEFINE A == {d \in Own(e) : d.executed}
             B == {d \in Own(e) : ~d.executed}
  <2>2. A \in SUBSET D /\ B \in SUBSET D /\ A \cap B = {} /\ A \cup B = Own(e)
    BY <2>1
  <2>3. \A x \in A : V[x] = x.value
    BY <1>4, <2>2
  <2>4. \A x \in B : V[x] = 0
    BY <1>4, <2>2
  <2>5. by[e].value = ExecutedValues(A)
    BY <1>2
  <2> HIDE DEF A, B, Own
  <2>6. ExecutedValues(A) = Total(A, V)
    BY <2>3, ExecutedSum
  <2>7. Total(B, V) = 0
    BY <1>4, <2>2, <2>4, TotalOfZeros
  <2>8. Total(A \cup B, V) = Total(A, V) + Total(B, V)
    BY <1>4, <2>2, TotalUnion
  <2>9. Total(A, V) \in Int
    BY <1>4, <2>2, TotalStep
  <2>10. by[e].value = Total(Own(e), V) /\ by[e].value \in Int
    <3>1. PICK a \in Int : a = Total(A, V) /\ a + 0 = a
      BY <2>9
    <3>2. Total(Own(e), V) = a
      BY <2>2, <2>7, <2>8, <3>1
    <3> QED BY <2>5, <2>6, <3>1, <3>2
  <2>11. Total(Own(e), One) = Cardinality(Own(e)) /\ Total(Own(e), One) \in Int
    BY <1>4, <2>1, TotalCounts, TotalStep
  <2>12. by[e].drafts = Cardinality(Own(e))
    BY <1>2 DEF Own
  <2> QED BY <2>1, <2>10, <2>11, <2>12 DEF Own
<1>6. /\ BN \in [E -> Int] /\ \A e \in E : BN[e] = Total({d \in D : K[d] = e}, One) /\ BN[e] = by[e].drafts
      /\ BV \in [E -> Int] /\ \A e \in E : BV[e] = Total({d \in D : K[d] = e}, V) /\ BV[e] = by[e].value
  BY <1>5
<1> HIDE DEF BN, BV
<1>7. Total(E, BN) = Total(D, One)
  BY <1>1, <1>3, <1>4, <1>6, TotalOfGroups
<1>8. Total(E, BV) = Total(D, V)
  <2>1. IsFiniteSet(D) /\ IsFiniteSet(E) /\ V \in [D -> Int] /\ K \in [D -> E] /\ BV \in [E -> Int]
    BY <1>1, <1>3, <1>4, <1>6
  <2>2. \A e \in E : BV[e] = Total({d \in D : K[d] = e}, V)
    BY <1>6
  <2> QED BY <2>1, <2>2, TotalOfGroups
<1>9. Total(D, One) = Cardinality(D)
  BY <1>4, TotalCounts
<1>10. Total(D, V) = ExecutedValues(Done)
  <2> DEFINE B == {d \in D : ~d.executed}
  <2>1. Done \in SUBSET D /\ B \in SUBSET D /\ Done \cap B = {} /\ Done \cup B = D
    OBVIOUS
  <2>2. \A x \in Done : V[x] = x.value
    BY <1>4
  <2>3. \A x \in B : V[x] = 0
    BY <1>4
  <2> HIDE DEF B, Done
  <2>4. ExecutedValues(Done) = Total(Done, V)
    BY <2>2, ExecutedSum
  <2>5. Total(B, V) = 0
    BY <1>4, <2>1, <2>3, TotalOfZeros
  <2>6. Total(Done \cup B, V) = Total(Done, V) + Total(B, V)
    BY <1>4, <2>1, TotalUnion
  <2>7. Total(Done, V) \in Int
    BY <1>4, <2>1, TotalStep
  <2>8. PICK a \in Int : a = Total(Done, V) /\ a + 0 = a
    BY <2>7
  <2>9. Total(D, V) = a
    BY <2>1, <2>5, <2>6, <2>8
  <2> QED BY <2>4, <2>8, <2>9
<1>11. DraftCounts(DOMAIN by, by) = Total(E, BN)
  <2>1. \A x \in E : BN[x] = by[x].drafts
    BY <1>6
  <2> QED BY <1>2, <2>1, DraftCountSum
<1>12. DraftValues(DOMAIN by, by) = Total(E, BV)
  <2>1. \A x \in E : BV[x] = by[x].value
    BY <1>6
  <2> QED BY <1>2, <2>1, DraftValueSum
<1>13. DraftCounts(DOMAIN by, by) = Cardinality(D) /\ DraftValues(DOMAIN by, by) = ExecutedValues(Done)
  BY <1>7, <1>8, <1>9, <1>10, <1>11, <1>12
<1> QED BY <1>13, Zenon DEF AttributionAddsUp, DraftCounts, DraftValues, ExecutedValues, by

\* Sets whose elements are paired have the same size.
LEMMA Paired ==
  ASSUME NEW S, IsFiniteSet(S), NEW T, NEW f \in [S -> T],
         \A a, b \in S : f[a] = f[b] => a = b, \A t \in T : \E s \in S : f[s] = t
  PROVE  IsFiniteSet(T) /\ Cardinality(T) = Cardinality(S)
<1>1. f \in Bijection(S, T)
  BY DEF Bijection, Injection, IsInjective, Surjection
<1>2. ExistsBijection(S, T)
  BY <1>1 DEF ExistsBijection
<1> QED BY <1>2, FS_Bijection

\* The smaller of fifty and another number.
LEMMA MinFifty ==
  ASSUME NEW n \in Int
  PROVE  /\ Min({50, n}) \in Int /\ Min({50, n}) <= 50 /\ Min({50, n}) <= n
         /\ Min({50, n}) = 50 \/ Min({50, n}) = n
<1>1. \A a, b \in Int : /\ Min({a, b}) \in Int /\ Min({a, b}) <= a /\ Min({a, b}) <= b
                        /\ Min({a, b}) = a \/ Min({a, b}) = b
  BY MinOfTwo
<1>2. 50 \in Int
  OBVIOUS
<1> QED BY <1>1, <1>2

\* The conflicts among the first calls, one call later.
LEMMA ShiftedConflicts ==
  ASSUME NEW m \in Nat, NEW P, P \subseteq 1..m
  PROVE  \E Q \in SUBSET (2..m + 1) : /\ \A i \in 2..m + 1 : i \in Q <=> i - 1 \in P
                                      /\ Cardinality(Q) = Cardinality(P) /\ IsFiniteSet(Q)
<1> DEFINE Q == {i \in 2..m + 1 : i - 1 \in P}
           f == [i \in P |-> i + 1]
<1>1. IsFiniteSet(P)
  <2>1. IsFiniteSet(1..m)
    BY UpToFinite
  <2> QED BY <2>1, FS_Subset
<1>2. f \in [P -> Q]
  <2>1. \A i \in P : i + 1 \in Q
    OBVIOUS
  <2> QED BY <2>1
<1>3. \A a, b \in P : f[a] = f[b] => a = b
  OBVIOUS
<1>4. \A q \in Q : \E i \in P : f[i] = q
  <2>1. ASSUME NEW q \in Q PROVE \E i \in P : f[i] = q
    <3>1. q - 1 \in P /\ f[q - 1] = q
      OBVIOUS
    <3> QED BY <3>1
  <2> QED BY <2>1
<1>5. Cardinality(Q) = Cardinality(P) /\ IsFiniteSet(Q)
  <2> HIDE DEF Q, f
  <2> QED BY <1>1, <1>2, <1>3, <1>4, Paired
<1> QED BY <1>5

\* The beginning of a sequence.
LEMMA Beginning ==
  ASSUME NEW S, NEW s \in Seq(S), NEW r \in Nat, r <= Len(s)
  PROVE  /\ SubSeq(s, 1, r) \in Seq(S) /\ Len(SubSeq(s, 1, r)) = r /\ DOMAIN SubSeq(s, 1, r) = 1..r
         /\ \A i \in 1..r : SubSeq(s, 1, r)[i] = s[i]
<1>1. \A i \in 1..r : s[i] \in S
  BY ElementOfSeq
<1>2. /\ SubSeq(s, 1, r) \in Seq(S) /\ Len(SubSeq(s, 1, r)) = IF 1 <= r THEN r - 1 + 1 ELSE 0
      /\ \A i \in 1..r - 1 + 1 : SubSeq(s, 1, r)[i] = s[1 + i - 1]
  BY <1>1, SubSeqProperties
<1>3. r - 1 + 1 = r /\ \A i \in 1..r : 1 + i - 1 = i
  OBVIOUS
<1>4. Len(SubSeq(s, 1, r)) = r /\ \A i \in 1..r : SubSeq(s, 1, r)[i] = s[i]
  BY <1>2, <1>3
<1> QED BY <1>2, <1>4, LenProperties

\* A sequence of one element throughout.
LEMMA Throughout ==
  ASSUME NEW S, NEW x \in S, NEW k \in Nat
  PROVE  /\ [i \in 1..k |-> x] \in Seq(S) /\ Len([i \in 1..k |-> x]) = k
         /\ \A i \in 1..k : [j \in 1..k |-> x][i] = x
<1> DEFINE t == [i \in 1..k |-> x]
<1>1. t \in [1..k -> S] /\ \A i \in 1..k : t[i] = x
  OBVIOUS
<1> HIDE DEF t
<1>2. t \in Seq(S)
  BY <1>1, SeqDef
<1>3. Len(t) = k
  BY <1>1, <1>2, LenProperties
<1> QED BY <1>1, <1>2, <1>3 DEF t

(* The conflicts among the first n calls.                                    *)
ConflictsIn(calls, n) == {i \in 1..n : calls[i]}

\* What check_circuit_breaker looks at.
LEMMA BreakerLooks ==
  ASSUME NEW calls \in Seq(BOOLEAN), NEW r \in Nat, r = Min({50, Len(calls)})
  PROVE  /\ ConflictsIn(calls, r) \subseteq 1..r
         /\ CheckCircuitBreaker(calls) <=> r >= 10 /\ 100 * Cardinality(ConflictsIn(calls, r)) >= 20 * r
<1> DEFINE recent == SubSeq(calls, 1, r)
           B == BOOLEAN
<1>0. calls \in Seq(B)
  OBVIOUS
<1> HIDE DEF B
<1>1. r <= Len(calls) /\ Len(calls) \in Nat
  <2>1. Len(calls) \in Nat
    BY <1>0, LenProperties
  <2> QED BY <2>1, MinFifty
<1>2. recent \in Seq(B) /\ Len(recent) = r /\ DOMAIN recent = 1..r /\ \A i \in 1..r : recent[i] = calls[i]
  BY <1>0, <1>1, Beginning
<1>3. {i \in DOMAIN recent : recent[i]} = ConflictsIn(calls, r)
  <2> HIDE DEF recent
  <2> QED BY <1>2, Zenon DEF ConflictsIn
<1>4. CheckCircuitBreaker(calls) <=>
        Len(recent) >= 10 /\ 100 * Cardinality({i \in DOMAIN recent : recent[i]}) >= 20 * Len(recent)
  BY DEF CheckCircuitBreaker, WINDOW_CALLS, CIRCUIT_BREAKER_MIN_CALLS, CONFLICT_RATE_LIMIT_PCT
<1>5. ConflictsIn(calls, r) \subseteq 1..r
  BY DEF ConflictsIn
<1> HIDE DEF recent
<1> QED BY <1>2, <1>3, <1>4, <1>5

\* check_circuit_breaker on any calls: what BreakerHolds says of it.
LEMMA BreakersHold ==
  ASSUME NEW calls \in Seq(BOOLEAN)
  PROVE  BreakerHolds(calls)
<1> DEFINE B == BOOLEAN
           yes == TRUE
           no == FALSE
<1>0. calls \in Seq(B) /\ yes \in B /\ no \in B
  OBVIOUS
<1> HIDE DEF B, yes, no
<1>1. PICK n \in Nat : n = Len(calls)
  BY <1>0, LenProperties
<1>2. ASSUME CheckCircuitBreaker(calls) PROVE CheckCircuitBreaker(<<TRUE>> \o calls)
  <2>1. PICK t \in Seq(B) : /\ t = <<yes>> \o calls /\ Len(t) = n + 1 /\ t[1] = yes
                             /\ \A i \in 2..n + 1 : t[i] = calls[i - 1]
    <3>1. \A s \in Seq(B) : /\ <<yes>> \o s \in Seq(B) /\ Len(<<yes>> \o s) = Len(s) + 1
                            /\ (<<yes>> \o s)[1] = yes
                            /\ \A i \in 2..Len(s) + 1 : (<<yes>> \o s)[i] = s[i - 1]
      BY <1>0, Prefixed
    <3>2. /\ <<yes>> \o calls \in Seq(B) /\ Len(<<yes>> \o calls) = n + 1
          /\ (<<yes>> \o calls)[1] = yes
          /\ \A i \in 2..n + 1 : (<<yes>> \o calls)[i] = calls[i - 1]
      BY <1>0, <1>1, <3>1
    <3> QED BY <3>2
  <2>2. PICK r \in Nat : r = Min({50, n}) /\ r <= 50 /\ r <= n /\ (r = 50 \/ r = n)
    <3>1. Min({50, n}) \in Int /\ Min({50, n}) <= 50 /\ Min({50, n}) <= n /\ (Min({50, n}) = 50 \/ Min({50, n}) = n)
      BY MinFifty
    <3>2. Min({50, n}) \in Nat
      BY <3>1
    <3> QED BY <3>1, <3>2
  <2>3. PICK m \in Nat : m + 1 = Min({50, n + 1}) /\ m <= n /\ ((m = 49 /\ r = 50) \/ (m = r /\ r < 50))
    <3>1. Min({50, n + 1}) \in Int /\ Min({50, n + 1}) <= 50 /\ Min({50, n + 1}) <= n + 1
          /\ (Min({50, n + 1}) = 50 \/ Min({50, n + 1}) = n + 1)
      <4>1. PICK q \in Int : q = n + 1
        OBVIOUS
      <4>2. Min({50, q}) \in Int /\ Min({50, q}) <= 50 /\ Min({50, q}) <= q /\ (Min({50, q}) = 50 \/ Min({50, q}) = q)
        BY MinFifty
      <4> QED BY <4>1, <4>2
    <3>2. PICK k \in Int : k = Min({50, n + 1}) /\ k <= 50 /\ k <= n + 1 /\ (k = 50 \/ k = n + 1)
      BY <3>1
    <3>3. k - 1 \in Nat /\ k - 1 + 1 = k /\ k - 1 <= n /\ ((k - 1 = 49 /\ r = 50) \/ (k - 1 = r /\ r < 50))
      <4>0. \A q, p, l \in Int :
              (q <= 50 /\ q <= l + 1 /\ (q = 50 \/ q = l + 1) /\ p <= 50 /\ p <= l /\ (p = 50 \/ p = l) /\ p >= 0 /\ l >= 0)
                => q - 1 >= 0 /\ q - 1 + 1 = q /\ q - 1 <= l /\ ((q - 1 = 49 /\ p = 50) \/ (q - 1 = p /\ p < 50))
        OBVIOUS
      <4>1. n \in Int /\ n >= 0 /\ r \in Int /\ r >= 0
        OBVIOUS
      <4>2. k <= 50 /\ k <= n + 1 /\ (k = 50 \/ k = n + 1) /\ r <= 50 /\ r <= n /\ (r = 50 \/ r = n)
        BY <2>2, <3>2
      <4>3. k - 1 >= 0 /\ k - 1 + 1 = k /\ k - 1 <= n /\ ((k - 1 = 49 /\ r = 50) \/ (k - 1 = r /\ r < 50))
        BY <4>0, <4>1, <4>2, Zenon
      <4>4. k - 1 \in Nat
        BY <4>3
      <4> QED BY <4>3, <4>4
    <3> QED BY <3>2, <3>3
  <2> DEFINE P == ConflictsIn(calls, m)
  <2>4. P \subseteq 1..m /\ IsFiniteSet(P) /\ Cardinality(P) \in Nat
    <3>1. P \subseteq 1..m
      BY DEF ConflictsIn
    <3>2. IsFiniteSet(1..m)
      BY UpToFinite
    <3> QED BY <3>1, <3>2, FS_Subset, FS_CardinalityType
  <2> HIDE DEF P
  <2>5. PICK Q \in SUBSET (2..m + 1) : /\ \A i \in 2..m + 1 : i \in Q <=> i - 1 \in P
                                     /\ Cardinality(Q) = Cardinality(P) /\ IsFiniteSet(Q)
    BY <2>4, ShiftedConflicts
  <2>6. ConflictsIn(t, m + 1) = Q \cup {1}
    <3>1. ASSUME NEW i \in 1..m + 1 PROVE t[i] <=> i \in Q \cup {1}
      <4>1. CASE i = 1
        BY <2>1, <4>1 DEF yes
      <4>2. CASE i # 1
        <5>1. i \in 2..m + 1 /\ i \in 2..n + 1 /\ i - 1 \in 1..m
          BY <2>3, <4>2
        <5>2. t[i] = calls[i - 1]
          BY <2>1, <5>1
        <5>3. calls[i - 1] <=> i - 1 \in P
          BY <5>1 DEF P, ConflictsIn
        <5>4. i \in Q \cup {1} <=> i \in Q
          BY <4>2
        <5> QED BY <2>5, <5>1, <5>2, <5>3, <5>4
      <4> QED BY <4>1, <4>2
    <3>2. 1 \in 1..m + 1 /\ Q \subseteq 1..m + 1
      <4>1. \A i \in 2..m + 1 : i \in 1..m + 1
        OBVIOUS
      <4> QED BY <4>1
    <3> QED BY <3>1, <3>2 DEF ConflictsIn
  <2>7. Cardinality(ConflictsIn(t, m + 1)) = Cardinality(P) + 1
    <3>1. 1 \notin Q
      OBVIOUS
    <3>2. Cardinality(Q \cup {1}) = Cardinality(Q) + 1
      BY <2>5, <3>1, FS_AddElement
    <3> QED BY <2>5, <2>6, <3>2
  <2>8. r >= 10 /\ 100 * Cardinality(ConflictsIn(calls, r)) >= 20 * r
    BY <1>1, <1>2, <2>2, BreakerLooks DEF B
  <2>9. Cardinality(ConflictsIn(calls, r)) <= Cardinality(P) + (r - m) /\ Cardinality(ConflictsIn(calls, r)) \in Nat
    <3>1. CASE m = r
      BY <2>4, <3>1 DEF P
    <3>2. CASE m = 49 /\ r = 50
      <4>1. ConflictsIn(calls, r) \subseteq P \cup {50}
        <5>1. \A i \in 1..50 : i \in 1..49 \/ i = 50
          OBVIOUS
        <5> QED BY <3>2, <5>1 DEF ConflictsIn, P
      <4>2. IsFiniteSet(P \cup {50}) /\ Cardinality(P \cup {50}) <= Cardinality(P) + 1
        <5>1. \A x : /\ IsFiniteSet(P \cup {x})
                     /\ Cardinality(P \cup {x}) = IF x \in P THEN Cardinality(P) ELSE Cardinality(P) + 1
          BY <2>4, FS_AddElement
        <5>2. \A a \in Nat : a <= a + 1 /\ a + 1 <= a + 1
          OBVIOUS
        <5> QED BY <2>4, <5>1, <5>2
      <4>3. /\ IsFiniteSet(ConflictsIn(calls, r))
            /\ Cardinality(ConflictsIn(calls, r)) <= Cardinality(P \cup {50})
        BY <4>1, <4>2, FS_Subset
      <4>4. Cardinality(ConflictsIn(calls, r)) \in Nat /\ Cardinality(P \cup {50}) \in Nat
        BY <4>2, <4>3, FS_CardinalityType
      <4> QED BY <2>4, <3>2, <4>2, <4>3, <4>4
    <3> QED BY <2>3, <3>1, <3>2
  <2>10. PICK a \in Nat, b \in Nat : /\ a = Cardinality(ConflictsIn(calls, r)) /\ b = Cardinality(P)
                                   /\ 100 * a >= 20 * r /\ a <= b + (r - m)
    BY <2>4, <2>8, <2>9
  <2>11. m + 1 >= 10 /\ 100 * (b + 1) >= 20 * (m + 1)
    <3>1. r >= 10
      BY <2>8
    <3>2. CASE m = r
      BY <2>10, <3>1, <3>2
    <3>3. CASE m = 49 /\ r = 50
      BY <2>10, <3>3
    <3> QED BY <2>3, <3>2, <3>3
  <2>12. m + 1 >= 10 /\ 100 * Cardinality(ConflictsIn(t, m + 1)) >= 20 * (m + 1)
    BY <2>7, <2>10, <2>11
  <2>13. m + 1 \in Nat /\ m + 1 = Min({50, Len(t)})
    <3>1. m + 1 \in Nat
      OBVIOUS
    <3> QED BY <2>1, <2>3, <3>1
  <2>14. CheckCircuitBreaker(t)
    BY <2>1, <2>12, <2>13, BreakerLooks DEF B
  <2> QED BY <2>1, <2>14 DEF yes
<1>3. ~CheckCircuitBreaker([i \in 1..WINDOW_CALLS |-> FALSE] \o calls)
  <2> DEFINE none == [i \in 1..50 |-> no]
             t == none \o calls
  <2>1. none \in Seq(B) /\ Len(none) = 50 /\ \A i \in 1..50 : none[i] = no
    <3>1. \A k \in Nat : /\ [i \in 1..k |-> no] \in Seq(B) /\ Len([i \in 1..k |-> no]) = k
                         /\ \A i \in 1..k : [j \in 1..k |-> no][i] = no
      BY <1>0, Throughout
    <3> QED BY <3>1
  <2> HIDE DEF none
  <2>2. /\ t \in Seq(B) /\ Len(t) = Len(none) + Len(calls)
        /\ \A i \in 1..Len(none) + Len(calls) : t[i] = IF i <= Len(none) THEN none[i] ELSE calls[i - Len(none)]
    <3>1. \A s, u \in Seq(B) :
            /\ s \o u \in Seq(B) /\ Len(s \o u) = Len(s) + Len(u)
            /\ \A i \in 1..Len(s) + Len(u) : (s \o u)[i] = IF i <= Len(s) THEN s[i] ELSE u[i - Len(s)]
      BY ConcatProperties
    <3> QED BY <1>0, <2>1, <3>1
  <2>3. /\ t \in Seq(B) /\ Len(t) = 50 + n
        /\ \A i \in 1..50 + n : t[i] = IF i <= 50 THEN none[i] ELSE calls[i - 50]
    BY <1>1, <2>1, <2>2
  <2>4. \A i \in 1..50 : t[i] = no
    <3> HIDE DEF t
    <3>1. ASSUME NEW i \in 1..50 PROVE t[i] = no
      <4>1. i \in 1..50 + n /\ i <= 50
        OBVIOUS
      <4>2. t[i] = none[i]
        BY <2>3, <4>1
      <4> QED BY <2>1, <4>2
    <3> QED BY <3>1
  <2> HIDE DEF t
  <2>5. ConflictsIn(t, 50) = {}
    BY <2>4 DEF ConflictsIn, no
  <2>6. Min({50, Len(t)}) = 50
    <3>1. PICK q \in Int : q = Len(t) /\ q >= 50
      BY <2>3
    <3>2. Min({50, q}) <= 50 /\ (Min({50, q}) = 50 \/ Min({50, q}) = q)
      BY MinFifty
    <3> QED BY <3>1, <3>2
  <2>7. CheckCircuitBreaker(t) => 100 * Cardinality(ConflictsIn(t, 50)) >= 20 * 50
    BY <2>3, <2>6, BreakerLooks DEF B
  <2>8. ~CheckCircuitBreaker(t)
    <3>1. Cardinality(ConflictsIn(t, 50)) = 0
      BY <2>5, FS_EmptySet
    <3> QED BY <2>7, <3>1
  <2> QED BY <2>8 DEF t, none, no, WINDOW_CALLS
<1> QED BY <1>2, <1>3 DEF BreakerHolds

\* The slippage of some decisions is between nothing and their number times
\* the largest.
LEMMA SlippagesAddUp ==
  ASSUME NEW D \in SUBSET AnyDecision, IsFiniteSet(D)
  PROVE  SlippageAddsUp(D)
<1> DEFINE q == SignalQuality(D)
           own == Slipped(D)
           Of(s) == {d \in own : d.side = s}
           W == [d \in own |-> Slippage(d)]
           R == {W[d] : d \in own}
           T == {0} \cup {Slippage(d) : d \in own}
           top == Max(T)
<1>1. /\ q.count = Cardinality(own) /\ q.sum = SlippageOver(own) /\ q.max = top
      /\ q.side["BUY"].count = Cardinality(Of("BUY")) /\ q.side["BUY"].sum = SlippageOver(Of("BUY"))
      /\ q.side["SELL"].count = Cardinality(Of("SELL")) /\ q.side["SELL"].sum = SlippageOver(Of("SELL"))
  BY DEF SignalQuality, SlippageOver
<1>2. own \in SUBSET D /\ IsFiniteSet(own)
  <2>1. own \in SUBSET D
    BY DEF Slipped
  <2> QED BY <2>1, FS_Subset
<1>3. ASSUME NEW d \in own PROVE Slippage(d) \in Int /\ d.side \in {"BUY", "SELL"}
  <2>1. d \in D /\ d.executed # None /\ d.target # None /\ d.target > 0
    BY DEF Slipped
  <2>2. d.side \in {"BUY", "SELL"} /\ d.target \in Int /\ d.executed \in Int
    BY <2>1 DEF AnyDecision
  <2>3. PICK t \in Nat \ {0}, e \in Int : t = d.target /\ e = d.executed
    BY <2>1, <2>2
  <2>4. 1000 * Abs(e - t) \in Int
    <3>1. Abs(e - t) \in Int
      BY DEF Abs
    <3> QED BY <3>1
  <2>5. (1000 * Abs(e - t)) \div t \in Int
    BY <2>4, Quotients
  <2> QED BY <2>2, <2>3, <2>5 DEF Slippage
<1>4. /\ Of("BUY") \in SUBSET own /\ Of("SELL") \in SUBSET own
      /\ Of("BUY") \cap Of("SELL") = {} /\ Of("BUY") \cup Of("SELL") = own
  BY <1>3
<1>5. W \in [own -> Int] /\ \A d \in own : W[d] = Slippage(d)
  BY <1>3
<1> HIDE DEF q, own, Of
<1>6. IsFiniteSet(R)
  <2>1. W \in [own -> R] /\ \A r \in R : \E d \in own : W[d] = r
    BY <1>5
  <2> HIDE DEF R, W
  <2> QED BY <1>2, <2>1, FiniteRange
<1>7. T = R \cup {0}
  BY <1>5
<1>8. IsFiniteSet(T) /\ T \subseteq Int /\ T # {} /\ 0 \in T /\ \A d \in own : W[d] \in T
  <2>1. IsFiniteSet(R \cup {0})
    BY <1>6, FS_AddElement
  <2>2. R \subseteq Int
    BY <1>5
  <2> HIDE DEF R, W, T
  <2>3. T \subseteq Int /\ T # {} /\ 0 \in T /\ IsFiniteSet(T)
    BY <1>7, <2>1, <2>2
  <2>4. \A d \in own : W[d] \in T
    BY <1>5, <1>7 DEF R
  <2> QED BY <2>3, <2>4
<1> HIDE DEF T, R, W
<1>9. top \in Int /\ \A d \in own : W[d] <= top
  BY <1>8, Extremes
<1>10. PICK m \in Int : m = top /\ \A d \in own : W[d] <= m
  BY <1>9
<1>11. \A S \in SUBSET own : SlippageOver(S) = Total(S, W) /\ Total(S, W) \in Int
  <2>1. ASSUME NEW S \in SUBSET own PROVE SlippageOver(S) = Total(S, W)
    <3>1. \A x \in S : W[x] = Slippage(x)
      BY <1>5
    <3> QED BY <3>1, SlippageSum
  <2>2. \A S \in SUBSET own : Total(S, W) \in Int
    BY <1>2, <1>5, TotalStep
  <2> QED BY <2>1, <2>2
<1>12. Total(own, W) = Total(Of("BUY"), W) + Total(Of("SELL"), W)
  BY <1>2, <1>4, <1>5, TotalUnion
<1>13. Cardinality(own) = Cardinality(Of("BUY")) + Cardinality(Of("SELL"))
  <2>1. IsFiniteSet(Of("BUY")) /\ IsFiniteSet(Of("SELL"))
    BY <1>2, <1>4, FS_Subset
  <2>2. Cardinality(Of("BUY") \cap Of("SELL")) = 0
    BY <1>4, FS_EmptySet
  <2>3. /\ Cardinality(Of("BUY")) \in Nat /\ Cardinality(Of("SELL")) \in Nat
    BY <2>1, FS_CardinalityType
  <2>4. Cardinality(Of("BUY") \cup Of("SELL"))
          = Cardinality(Of("BUY")) + Cardinality(Of("SELL")) - Cardinality(Of("BUY") \cap Of("SELL"))
    BY <2>1, FS_Union
  <2>5. PICK a \in Nat, b \in Nat : a = Cardinality(Of("BUY")) /\ b = Cardinality(Of("SELL")) /\ a + b - 0 = a + b
    BY <2>3
  <2> QED BY <1>4, <2>2, <2>4, <2>5
<1>14. Total(own, W) <= m * Cardinality(own)
  <2>1. PICK l \in Int : \A d \in own : l <= W[d]
    <3>1. Min(T) \in Int /\ \A d \in own : Min(T) <= W[d]
      BY <1>8, Extremes
    <3> QED BY <3>1
  <2>2. \A S \in SUBSET own : Total(S, W) <= m * Cardinality(S)
    BY <1>2, <1>5, <1>10, <2>1, TotalBounds
  <2> QED BY <2>2
<1>15. m * Cardinality(own) = Cardinality(own) * m
  <2>1. Cardinality(own) \in Nat
    BY <1>2, FS_CardinalityType
  <2> QED BY <2>1
<1>16. /\ q.side["BUY"].count + q.side["SELL"].count = q.count
       /\ q.side["BUY"].sum + q.side["SELL"].sum = q.sum
  BY <1>1, <1>2, <1>4, <1>11, <1>12, <1>13
<1>17. q.sum <= q.count * q.max
  BY <1>1, <1>10, <1>11, <1>14, <1>15
<1> QED BY <1>16, <1>17 DEF SlippageAddsUp, q

\* What the program says of its own data: for pools, positions, drafts, calls
\* and decisions of any number and size, the score of the stored data lies
\* between nothing and all and is not lowered by a row that is filled in, gains
\* are wins, every draft is attributed once, the breaker stays open under
\* another conflict, and the slippage of the sides is that of the whole.
THEOREM QualityHolds ==
  input \in AnyQuality /\ [][Next]_input => []QualityIsSound
<1>1. input \in AnyQuality => QualityIsSound
  <2> SUFFICES ASSUME input \in AnyQuality PROVE QualityIsSound
    OBVIOUS
  <2>1. ASSUME input.kind = "quality"
        PROVE  ScoreIsSound(input.rows, input.dtype, input.age, input.passed)
    <3>1. PICK S \in {T \in SUBSET STRING : IsFiniteSet(T)} : input \in AnyQualityOf(S)
      BY <2>1 DEF AnyQuality
    <3> QED BY <3>1, ScoresSound DEF AnyQualityOf
  <2>2. input.kind = "gain" => GainsAreWins(input.positions)
    BY GainsWin DEF AnyQuality, AnyQualityOf
  <2>3. input.kind = "attribution" => AttributionAddsUp(input.drafts)
    BY AttributionsAddUp DEF AnyQuality, AnyQualityOf
  <2>4. input.kind = "breaker" => BreakerHolds(input.calls)
    BY BreakersHold DEF AnyQuality, AnyQualityOf
  <2>5. input.kind = "slippage" => SlippageAddsUp(input.decisions)
    BY SlippagesAddUp DEF AnyQuality, AnyQualityOf
  <2> QED BY <2>1, <2>2, <2>3, <2>4, <2>5 DEF QualityIsSound
<1>2. input \in AnyQuality /\ [Next]_input => (input \in AnyQuality)'
  BY DEF Next
<1> QED BY <1>1, <1>2, PTL

-----------------------------------------------------------------------------
(* The invariants of the run.                                                *)

\* Orders and holdings: what create_trade charges and lets pass, and what the
\* portfolio shows of it, for every order and every portfolio.
THEOREM OrdersHold ==
  (input \in AnyTrade \/ input \in AnyPortfolio) /\ [][Next]_input => []OrdersAreSound
<1> DEFINE a == {"fee", "price", "sanity"}
           b == {"portfolio", "signal", "payout", "section"}
<1>1. input \in AnyTrade => input.kind \in a
  BY DEF AnyTrade
<1>2. input \in AnyPortfolio => input.kind \in b
  BY DEF AnyPortfolio, AnyPositions, SectionInputs
<1>3. input.kind \in a => PortfolioIsSound
  BY DEF PortfolioIsSound
<1>4. input.kind \in b => TradeRulesAreSound
  BY DEF TradeRulesAreSound
<1>5. input.kind \in a /\ [Next]_input => (input.kind \in a)'
  BY DEF Next
<1>6. input.kind \in b /\ [Next]_input => (input.kind \in b)'
  BY DEF Next
<1>7. OrdersAreSound <=> TradeRulesAreSound /\ PortfolioIsSound
  BY DEF OrdersAreSound
<1> HIDE DEF a, b
<1> QED BY TradeRulesHold, PortfolioHolds, <1>1, <1>2, <1>3, <1>4, <1>5, <1>6, <1>7, PTL

\* What is worked out of the rows: calculate_forward_dyr, detect_anomalies,
\* compute_quality, trade_statistics and the like, for rows of any number.
THEOREM FiguresHold ==
  (input \in AnyValuation \/ input \in AnyQuality) /\ [][Next]_input => []FiguresAreSound
<1> DEFINE a == {"forward", "cover", "anomaly", "ttm", "realtime"}
           b == {"quality", "gain", "attribution", "breaker", "slippage"}
<1>1. input \in AnyValuation => input.kind \in a
  BY DEF AnyValuation
<1>2. input \in AnyQuality => input.kind \in b
  BY DEF AnyQuality, AnyQualityOf
<1>3. input.kind \in a => QualityIsSound
  BY DEF QualityIsSound
<1>4. input.kind \in b => ValuationIsSound
  BY DEF ValuationIsSound
<1>5. input.kind \in a /\ [Next]_input => (input.kind \in a)'
  BY DEF Next
<1>6. input.kind \in b /\ [Next]_input => (input.kind \in b)'
  BY DEF Next
<1>7. FiguresAreSound <=> ValuationIsSound /\ QualityIsSound
  BY DEF FiguresAreSound
<1> HIDE DEF a, b
<1> QED BY ValuationHolds, QualityHolds, <1>1, <1>2, <1>3, <1>4, <1>5, <1>6, <1>7, PTL
=============================================================================
