---------------------------- MODULE LedgerProofs ----------------------------
(***************************************************************************)
(* What holds of the ledger, and of the order drafts that it fills, for    *)
(* any number of sessions, stocks, orders, corporate actions, days, drafts *)
(* and trades.                                                             *)
(*                                                                         *)
(* Positions and balances are folds over the rows.  Each is shown to be a  *)
(* sum of weights of single rows, so that a commit, which appends rows and *)
(* turns one row's reversed_by, changes it by what it appends and turns.   *)
(* And a session no one has overtaken (fresh) still sees what it read: its *)
(* checks of shares, cash, processed_at and reversed_by hold when it       *)
(* commits.                                                                *)
(***************************************************************************)
EXTENDS Drafts, FiniteSetTheorems, WellFoundedInduction, SequenceTheorems, TLAPS

-----------------------------------------------------------------------------
(* Induction over the numbers, for sets of them.                            *)

LEMMA LeastOf ==
  ASSUME NEW D, D \subseteq Nat, D # {}
  PROVE  \E m \in D : \A d \in D : m <= d
<1> DEFINE Before(m) == {d \in D : d < m}
           Family == {Before(m) : m \in D}
<1>1. Family \subseteq FiniteSubsetsOf(D) /\ Family # {}
  <2>1. \A m \in D : Before(m) \subseteq D /\ Before(m) \subseteq 0..m
    <3>1. \A m \in D, d \in D : d < m => d \in 0..m
      OBVIOUS
    <3> QED BY <3>1
  <2>2. \A m \in D : IsFiniteSet(0..m)
    BY FS_Interval
  <2>3. \A m \in D : IsFiniteSet(Before(m))
    BY <2>1, <2>2, FS_Subset
  <2> QED BY <2>1, <2>3 DEF FiniteSubsetsOf
<1>2. PICK U \in Family : \A V \in Family : <<V, U>> \notin StrictSubsetOrdering(D)
  BY <1>1, FS_StrictSubsetOrderingWellFounded, WFMin
<1>3. PICK m \in D : U = Before(m)
  BY <1>2
<1>4. ASSUME NEW d \in D, d < m PROVE FALSE
  <2>1. d \in Before(m) /\ d \notin Before(d) /\ d \in Nat /\ m \in Nat
    BY <1>4
  <2>2. Before(d) \subseteq Before(m)
    <3>1. \A x \in D : x < d => x < m
      BY <1>4, <2>1
    <3> QED BY <3>1
  <2>3. Before(d) \in Family /\ Before(d) \subseteq D /\ Before(m) \subseteq D
    OBVIOUS
  <2> QED BY <1>2, <1>3, <2>1, <2>2, <2>3 DEF StrictSubsetOrdering
<1>5. \A d \in D : m <= d
  BY <1>4
<1> HIDE DEF Family
<1> QED BY <1>5

LEMMA Induct ==
  ASSUME NEW S, 0 \in S, \A n \in Nat : n \in S => n + 1 \in S
  PROVE  Nat \subseteq S
<1> SUFFICES ASSUME Nat \ S # {} PROVE FALSE
  OBVIOUS
<1>1. PICK m \in Nat \ S : \A d \in Nat \ S : m <= d
  BY LeastOf
<1>2. m # 0 /\ m - 1 \in Nat
  BY <1>1
<1>3. m - 1 \in S
  BY <1>1, <1>2
<1>4. (m - 1) + 1 = m
  BY <1>2
<1> QED BY <1>1, <1>2, <1>3, <1>4

-----------------------------------------------------------------------------
(* Sums.                                                                    *)

IsSums(f, ns) ==
  /\ f \in [0..Len(ns) -> Int]
  /\ f[0] = 0
  /\ \A i \in 1..Len(ns) : f[i] = f[i - 1] + ns[i]

LEMMA Terms ==
  ASSUME NEW ns \in Seq(Int)
  PROVE  Len(ns) \in Nat /\ \A i \in 1..Len(ns) : ns[i] \in Int
BY LenProperties

(* One summand more. *)
LEMMA SumsStep ==
  ASSUME NEW ns \in Seq(Int), NEW f, IsSums(f, ns), NEW n \in Nat, n + 1 <= Len(ns)
  PROVE  /\ n \in 0..Len(ns) /\ n + 1 \in 1..Len(ns) /\ f[n] \in Int /\ ns[n + 1] \in Int
         /\ f[n + 1] = f[n] + ns[n + 1]
<1>1. Len(ns) \in Nat
  BY Terms
<1>2. n \in 0..Len(ns) /\ n + 1 \in 1..Len(ns) /\ (n + 1) - 1 = n
  BY <1>1
<1>3. f[n] \in Int /\ f[n + 1] = f[(n + 1) - 1] + ns[n + 1]
  BY <1>2 DEF IsSums
<1>4. ns[n + 1] \in Int
  BY <1>2, Terms
<1> QED BY <1>2, <1>3, <1>4

(* Summands change places, and two inequalities add up. *)
LEMMA Pairs ==
  ASSUME NEW a \in Int, NEW b \in Int, NEW c \in Int, NEW d \in Int
  PROVE  (a + b) + (c + d) = (a + c) + (b + d)
OBVIOUS

LEMMA Regroup ==
  ASSUME NEW a \in Int, NEW b \in Int, NEW c \in Int
  PROVE  (a + b) + c = (a + c) + b
OBVIOUS

LEMMA Rebase ==
  ASSUME NEW a \in Int, NEW b \in Int, NEW c \in Int
  PROVE  a + c = (a + b) + (c - b)
OBVIOUS

LEMMA Settle ==
  ASSUME NEW dep \in Int, NEW rows \in Int, NEW old \in Int, NEW new \in Int, NEW amount \in Int
  PROVE  (dep + rows) + (amount + (old - rows) + new) = (dep + amount) + (old + new)
OBVIOUS

LEMMA AddUp == \A a, b, c, d \in Int : a <= b /\ c <= d => a + c <= b + d
OBVIOUS

LEMMA SumsExist ==
  ASSUME NEW ns \in Seq(Int)
  PROVE  \E f : IsSums(f, ns)
<1> DEFINE Upto(f, n) == /\ f \in [0..n -> Int] /\ f[0] = 0
                         /\ \A i \in 1..n : f[i] = f[i - 1] + ns[i]
           S == {n \in Nat : n <= Len(ns) => \E f : Upto(f, n)}
<1>1. 0 \in S
  <2>1. Upto([i \in 0..0 |-> 0], 0)
    OBVIOUS
  <2> QED BY <2>1
<1>2. ASSUME NEW n \in Nat, n \in S PROVE n + 1 \in S
  <2> SUFFICES ASSUME n + 1 <= Len(ns) PROVE \E f : Upto(f, n + 1)
    OBVIOUS
  <2>1. PICK f : Upto(f, n)
    BY <1>2, LenProperties
  <2> DEFINE g == [i \in 0..(n + 1) |-> IF i <= n THEN f[i] ELSE f[n] + ns[n + 1]]
  <2>2. ns[n + 1] \in Int
    BY LenProperties
  <2>3. g \in [0..(n + 1) -> Int]
    BY <2>1, <2>2
  <2>4. g[0] = 0
    BY <2>1
  <2>5. ASSUME NEW i \in 1..(n + 1) PROVE g[i] = g[i - 1] + ns[i]
    <3>1. CASE i <= n
      BY <2>1, <3>1
    <3>2. CASE i = n + 1
      BY <2>1, <3>2
    <3> QED BY <3>1, <3>2
  <2>6. Upto(g, n + 1)
    BY <2>3, <2>4, <2>5
  <2> QED BY <2>6
<1>3. Len(ns) \in S
  <2>1. Nat \subseteq S
    BY <1>1, <1>2, Induct
  <2> QED BY <2>1, LenProperties
<1> QED BY <1>3, LenProperties DEF IsSums

LEMMA SumsOf ==
  ASSUME NEW ns \in Seq(Int)
  PROVE  \E f : IsSums(f, ns) /\ Total(ns) = f[Len(ns)]
<1> DEFINE P(f) == f = [n \in 0..Len(ns) |-> IF n = 0 THEN 0 ELSE f[n - 1] + ns[n]]
<1>1. \E f : P(f)
  <2>1. PICK f : IsSums(f, ns)
    BY SumsExist
  <2>2. P(f)
    BY <2>1, LenProperties DEF IsSums
  <2> QED BY <2>2
<1>2. PICK g : IsSums(g, ns)
  BY SumsExist
<1> DEFINE h == CHOOSE f : P(f)
<1>3. P(h)
  BY <1>1
<1>4. Total(ns) = h[Len(ns)]
  BY DEF Total
<1> HIDE DEF h
<1> DEFINE S == {n \in Nat : n <= Len(ns) => h[n] \in Int}
<1>5. 0 \in S
  BY <1>3, LenProperties
<1>6. ASSUME NEW n \in Nat, n \in S PROVE n + 1 \in S
  <2> SUFFICES ASSUME n + 1 <= Len(ns) PROVE h[n + 1] \in Int
    OBVIOUS
  <2>1. h[n + 1] = h[n] + ns[n + 1] /\ ns[n + 1] \in Int
    BY <1>3, LenProperties
  <2> QED BY <1>6, <2>1, LenProperties
<1>7. Nat \subseteq S
  BY <1>5, <1>6, Induct
<1>8. \A n \in 0..Len(ns) : h[n] \in Int
  BY <1>7, LenProperties
<1>9. IsSums(h, ns)
  <2>1. h \in [0..Len(ns) -> Int]
    BY <1>3, <1>8
  <2>2. h[0] = 0
    BY <1>3, Terms
  <2>3. ASSUME NEW i \in 1..Len(ns) PROVE h[i] = h[i - 1] + ns[i]
    BY <1>3, Terms
  <2> QED BY <2>1, <2>2, <2>3 DEF IsSums
<1> QED BY <1>4, <1>9

LEMMA TotalInt ==
  ASSUME NEW ns \in Seq(Int)
  PROVE  Total(ns) \in Int
BY SumsOf, LenProperties DEF IsSums

(* Two sequences whose sums differ by at most as much at every step. *)
LEMMA TotalAtMost ==
  ASSUME NEW ns \in Seq(Int), NEW ms \in Seq(Int), Len(ns) = Len(ms),
         \A i \in 1..Len(ns) : ns[i] <= ms[i]
  PROVE  Total(ns) <= Total(ms)
<1>1. PICK f : IsSums(f, ns) /\ Total(ns) = f[Len(ns)]
  BY SumsOf
<1>2. PICK g : IsSums(g, ms) /\ Total(ms) = g[Len(ms)]
  BY SumsOf
<1> DEFINE S == {n \in Nat : n <= Len(ns) => f[n] <= g[n]}
<1>3. 0 \in S
  BY <1>1, <1>2, LenProperties DEF IsSums
<1>4. ASSUME NEW n \in Nat, n \in S PROVE n + 1 \in S
  <2> SUFFICES ASSUME n + 1 <= Len(ns) PROVE f[n + 1] <= g[n + 1]
    OBVIOUS
  <2>1. /\ f[n + 1] = f[n] + ns[n + 1] /\ f[n] \in Int /\ ns[n + 1] \in Int
        /\ n \in 0..Len(ns) /\ n + 1 \in 1..Len(ns)
    BY <1>1, SumsStep
  <2>2. g[n + 1] = g[n] + ms[n + 1] /\ g[n] \in Int /\ ms[n + 1] \in Int
    BY <1>2, SumsStep
  <2>3. Len(ns) \in Nat
    BY Terms
  <2>4. f[n] <= g[n] /\ ns[n + 1] <= ms[n + 1]
    BY <1>4, <2>1, <2>3
  <2>5. f[n] + ns[n + 1] <= g[n] + ms[n + 1]
    BY Zenon, <2>1, <2>2, <2>4, AddUp
  <2> QED BY <2>1, <2>2, <2>5
<1>5. Nat \subseteq S
  BY <1>3, <1>4, Induct
<1> QED BY <1>1, <1>2, <1>5, LenProperties

LEMMA TotalPlus ==
  ASSUME NEW ns \in Seq(Int), NEW ms \in Seq(Int), NEW ps \in Seq(Int),
         Len(ns) = Len(ps), Len(ms) = Len(ps),
         \A i \in 1..Len(ps) : ps[i] = ns[i] + ms[i]
  PROVE  Total(ps) = Total(ns) + Total(ms)
<1>1. PICK f : IsSums(f, ns) /\ Total(ns) = f[Len(ns)]
  BY SumsOf
<1>2. PICK g : IsSums(g, ms) /\ Total(ms) = g[Len(ms)]
  BY SumsOf
<1>3. PICK h : IsSums(h, ps) /\ Total(ps) = h[Len(ps)]
  BY SumsOf
<1> DEFINE S == {n \in Nat : n <= Len(ps) => h[n] = f[n] + g[n]}
<1>4. 0 \in S
  BY <1>1, <1>2, <1>3, LenProperties DEF IsSums
<1>5. ASSUME NEW n \in Nat, n \in S PROVE n + 1 \in S
  <2> SUFFICES ASSUME n + 1 <= Len(ps) PROVE h[n + 1] = f[n + 1] + g[n + 1]
    OBVIOUS
  <2>0. n + 1 <= Len(ns) /\ n + 1 <= Len(ms)
    OBVIOUS
  <2>1. f[n + 1] = f[n] + ns[n + 1] /\ g[n + 1] = g[n] + ms[n + 1] /\ h[n + 1] = h[n] + ps[n + 1]
    BY <1>1, <1>2, <1>3, <2>0, SumsStep
  <2>2. f[n] \in Int /\ g[n] \in Int /\ ns[n + 1] \in Int /\ ms[n + 1] \in Int
    BY <1>1, <1>2, <2>0, SumsStep
  <2>3. ps[n + 1] = ns[n + 1] + ms[n + 1]
    BY Terms
  <2>4. h[n] = f[n] + g[n]
    BY <1>5, Terms
  <2>5. h[n + 1] = (f[n] + g[n]) + (ns[n + 1] + ms[n + 1])
    BY <2>1, <2>3, <2>4
  <2>6. (f[n] + g[n]) + (ns[n + 1] + ms[n + 1]) = (f[n] + ns[n + 1]) + (g[n] + ms[n + 1])
    <3>1. PICK a \in Int, b \in Int, c \in Int, d \in Int :
            a = f[n] /\ b = g[n] /\ c = ns[n + 1] /\ d = ms[n + 1]
      BY Zenon, <2>2
    <3>2. (a + b) + (c + d) = (a + c) + (b + d)
      BY Pairs
    <3> QED BY Zenon, <3>1, <3>2
  <2> QED BY <2>1, <2>5, <2>6
<1>6. Nat \subseteq S
  BY <1>4, <1>5, Induct
<1> QED BY <1>1, <1>2, <1>3, <1>6, LenProperties

LEMMA TotalConcat ==
  ASSUME NEW ns \in Seq(Int), NEW ms \in Seq(Int)
  PROVE  Total(ns \o ms) = Total(ns) + Total(ms)
<1> DEFINE ps == ns \o ms
<1>0. /\ ps \in Seq(Int) /\ Len(ps) = Len(ns) + Len(ms)
      /\ \A i \in 1..Len(ns) : ps[i] = ns[i]
      /\ \A i \in 1..Len(ms) : ps[Len(ns) + i] = ms[i]
  BY ConcatProperties, LenProperties
<1> HIDE DEF ps
<1>1. PICK f : IsSums(f, ns) /\ Total(ns) = f[Len(ns)]
  BY SumsOf
<1>2. PICK g : IsSums(g, ms) /\ Total(ms) = g[Len(ms)]
  BY SumsOf
<1>3. PICK h : IsSums(h, ps) /\ Total(ps) = h[Len(ps)]
  BY <1>0, SumsOf
<1>4. Len(ns) \in Nat /\ Len(ms) \in Nat /\ Len(ps) \in Nat
  BY <1>0, LenProperties
<1> DEFINE S == {n \in Nat : n <= Len(ns) => h[n] = f[n]}
           T == {n \in Nat : n <= Len(ms) => h[Len(ns) + n] = f[Len(ns)] + g[n]}
<1>5. 0 \in S
  BY <1>1, <1>3 DEF IsSums
<1>6. ASSUME NEW n \in Nat, n \in S PROVE n + 1 \in S
  <2> SUFFICES ASSUME n + 1 <= Len(ns) PROVE h[n + 1] = f[n + 1]
    OBVIOUS
  <2>1. n + 1 <= Len(ps)
    BY <1>0, <1>4
  <2>2. f[n + 1] = f[n] + ns[n + 1] /\ n + 1 \in 1..Len(ns)
    BY <1>1, SumsStep
  <2>3. h[n + 1] = h[n] + ps[n + 1]
    BY <1>0, <1>3, <2>1, SumsStep
  <2>4. ps[n + 1] = ns[n + 1]
    BY <1>0, <2>2
  <2>5. h[n] = f[n]
    BY <1>4, <1>6
  <2> QED BY <2>2, <2>3, <2>4, <2>5
<1>7. h[Len(ns)] = f[Len(ns)]
  <2>1. Nat \subseteq S
    BY <1>5, <1>6, Induct
  <2> QED BY <1>4, <2>1
<1>8. 0 \in T
  <2>1. f[Len(ns)] \in Int
    <3>1. Len(ns) \in 0..Len(ns)
      BY <1>4
    <3> QED BY <1>1, <3>1 DEF IsSums
  <2>2. g[0] = 0
    BY <1>2 DEF IsSums
  <2> QED BY <1>4, <1>7, <2>1, <2>2
<1>9. ASSUME NEW n \in Nat, n \in T PROVE n + 1 \in T
  <2> SUFFICES ASSUME n + 1 <= Len(ms) PROVE h[Len(ns) + (n + 1)] = f[Len(ns)] + g[n + 1]
    OBVIOUS
  <2>1. g[n + 1] = g[n] + ms[n + 1]
    BY <1>2, <1>4 DEF IsSums
  <2>2. Len(ns) + (n + 1) \in 1..Len(ps) /\ (Len(ns) + (n + 1)) - 1 = Len(ns) + n
    BY <1>0, <1>4
  <2>3. h[Len(ns) + (n + 1)] = h[Len(ns) + n] + ps[Len(ns) + (n + 1)]
    BY <1>3, <2>2 DEF IsSums
  <2>4. ps[Len(ns) + (n + 1)] = ms[n + 1]
    <3>1. n + 1 \in 1..Len(ms)
      BY <1>4
    <3> QED BY <1>0, <3>1
  <2>5. f[Len(ns)] \in Int /\ g[n] \in Int /\ ms[n + 1] \in Int
    <3>1. n + 1 \in 1..Len(ms) /\ n \in 0..Len(ms) /\ Len(ns) \in 0..Len(ns)
      BY <1>4
    <3> QED BY <1>1, <1>2, <3>1, Terms DEF IsSums
  <2>6. h[Len(ns) + n] = f[Len(ns)] + g[n]
    BY <1>4, <1>9
  <2> QED BY <2>1, <2>3, <2>4, <2>5, <2>6
<1>10. h[Len(ns) + Len(ms)] = f[Len(ns)] + g[Len(ms)]
  <2>1. Nat \subseteq T
    BY <1>8, <1>9, Induct
  <2> QED BY <1>4, <2>1
<1>11. Total(ps) = Total(ns) + Total(ms)
  BY <1>0, <1>1, <1>2, <1>3, <1>10
<1> QED BY <1>11 DEF ps

LEMMA TotalOne ==
  ASSUME NEW n \in Int
  PROVE  Total(<<n>>) = n
<1>1. <<n>> \in Seq(Int) /\ Len(<<n>>) = 1 /\ <<n>>[1] = n
  OBVIOUS
<1>2. PICK f : IsSums(f, <<n>>) /\ Total(<<n>>) = f[1]
  BY <1>1, SumsOf
<1>3. f[0] = 0 /\ f[1] = f[0] + n
  BY <1>1, <1>2 DEF IsSums
<1> QED BY <1>2, <1>3

LEMMA TotalNone == Total(<<>>) = 0
<1>1. <<>> \in Seq(Int) /\ Len(<<>>) = 0
  OBVIOUS
<1> QED BY <1>1, SumsOf DEF IsSums

LEMMA TotalExcept ==
  ASSUME NEW ns \in Seq(Int), NEW k \in 1..Len(ns), NEW v \in Int, NEW ms \in Seq(Int),
         Len(ms) = Len(ns), ms[k] = v, \A i \in 1..Len(ns) : i # k => ms[i] = ns[i]
  PROVE  Total(ms) = Total(ns) + (v - ns[k])
<1>1. PICK f : IsSums(f, ns) /\ Total(ns) = f[Len(ns)]
  BY SumsOf
<1>2. PICK g : IsSums(g, ms) /\ Total(ms) = g[Len(ms)]
  BY SumsOf
<1>3. Len(ns) \in Nat /\ ns[k] \in Int /\ k \in Nat /\ k >= 1 /\ k <= Len(ns)
  BY Terms
<1> DEFINE S == {n \in Nat : n <= Len(ns) => g[n] = f[n] + (IF k <= n THEN v - ns[k] ELSE 0)}
<1>4. 0 \in S
  BY <1>1, <1>2, <1>3 DEF IsSums
<1>5. ASSUME NEW n \in Nat, n \in S PROVE n + 1 \in S
  <2> SUFFICES ASSUME n + 1 <= Len(ns)
               PROVE  g[n + 1] = f[n + 1] + (IF k <= n + 1 THEN v - ns[k] ELSE 0)
    OBVIOUS
  <2>1. n \in 0..Len(ns) /\ n + 1 \in 1..Len(ns)
    BY <1>3
  <2>2. f[n + 1] = f[n] + ns[n + 1] /\ g[n + 1] = g[n] + ms[n + 1]
    BY <1>1, <1>2, SumsStep
  <2>3. f[n] \in Int /\ g[n] \in Int /\ ns[n + 1] \in Int /\ ms[n + 1] \in Int
    BY <1>1, <1>2, SumsStep
  <2>4. g[n] = f[n] + (IF k <= n THEN v - ns[k] ELSE 0)
    BY <1>5, <2>1, <1>3
  <2>5. CASE k = n + 1
    <3>1. ns[n + 1] = ns[k] /\ ms[n + 1] = v /\ ~(k <= n) /\ k <= n + 1
      BY <2>5
    <3>2. g[n] = f[n] + 0
      BY <2>4, <3>1
    <3>3. g[n + 1] = f[n] + v /\ f[n + 1] = f[n] + ns[k]
      BY <2>2, <2>3, <3>1, <3>2
    <3>4. f[n] \in Int /\ ns[k] \in Int /\ v \in Int
      BY <1>3, <2>3
    <3>5. f[n] + v = (f[n] + ns[k]) + (v - ns[k])
      <4>1. PICK a \in Int, b \in Int : a = f[n] /\ b = ns[k]
        BY Zenon, <3>4
      <4>2. a + v = (a + b) + (v - b)
        BY Rebase
      <4> QED BY Zenon, <4>1, <4>2
    <3>6. g[n + 1] = f[n + 1] + (v - ns[k])
      BY <3>3, <3>5
    <3> QED BY <3>1, <3>6
  <2>6. CASE k # n + 1
    <3> DEFINE e == IF k <= n THEN v - ns[k] ELSE 0
    <3>1. ms[n + 1] = ns[n + 1] /\ (k <= n + 1 <=> k <= n)
      BY <1>3, <2>1, <2>6
    <3>2. e \in Int /\ e = IF k <= n + 1 THEN v - ns[k] ELSE 0
      BY <1>3, <3>1
    <3>3. g[n] = f[n] + e
      BY <2>4
    <3> HIDE DEF e
    <3>4. g[n + 1] = (f[n] + e) + ns[n + 1]
      BY <2>2, <3>1, <3>3
    <3>5. f[n] \in Int /\ e \in Int /\ ns[n + 1] \in Int
      BY <2>3, <3>2
    <3>6. (f[n] + e) + ns[n + 1] = (f[n] + ns[n + 1]) + e
      <4>1. PICK a \in Int, b \in Int, m \in Int : a = f[n] /\ b = e /\ m = ns[n + 1]
        BY Zenon, <3>5
      <4>2. (a + b) + m = (a + m) + b
        BY Regroup
      <4> QED BY Zenon, <4>1, <4>2
    <3>7. g[n + 1] = f[n + 1] + e
      BY <2>2, <3>4, <3>6
    <3> QED BY <3>2, <3>7
  <2> QED BY <2>5, <2>6
<1>6. Nat \subseteq S
  BY <1>4, <1>5, Induct
<1>7. Len(ns) \in S
  BY <1>3, <1>6
<1> QED BY <1>1, <1>2, <1>3, <1>7

LEMMA RowsAssociate ==
  ASSUME NEW t \in Seq(Row), NEW u \in Seq(Row), NEW w \in Seq(Row)
  PROVE  t \o (u \o w) = (t \o u) \o w
OBVIOUS

-----------------------------------------------------------------------------
(* The sum of a weight over the rows of trades.                             *)

Weight == [Row -> Int]
Weighed(rows, W) == [i \in DOMAIN rows |-> W[rows[i]]]
Sum(rows, W) == Total(Weighed(rows, W))

LEMMA WeighedSeq ==
  ASSUME NEW rows \in Seq(Row), NEW W \in Weight
  PROVE  /\ Weighed(rows, W) \in Seq(Int) /\ Len(Weighed(rows, W)) = Len(rows)
         /\ \A i \in 1..Len(rows) : Weighed(rows, W)[i] = W[rows[i]] /\ rows[i] \in Row
<1>1. Len(rows) \in Nat /\ DOMAIN rows = 1..Len(rows) /\ \A i \in 1..Len(rows) : rows[i] \in Row
  BY LenProperties
<1>2. \A i \in 1..Len(rows) : W[rows[i]] \in Int
  BY <1>1 DEF Weight
<1>3. Weighed(rows, W) \in [1..Len(rows) -> Int]
  BY <1>1, <1>2 DEF Weighed
<1>4. Weighed(rows, W) \in Seq(Int)
  BY <1>1, <1>3, SeqDef
<1> QED BY <1>1, <1>3, <1>4, LenProperties DEF Weighed

LEMMA SumInt ==
  ASSUME NEW rows \in Seq(Row), NEW W \in Weight
  PROVE  Sum(rows, W) \in Int
BY WeighedSeq, TotalInt DEF Sum

LEMMA SumConcat ==
  ASSUME NEW rows \in Seq(Row), NEW more \in Seq(Row), NEW W \in Weight
  PROVE  Sum(rows \o more, W) = Sum(rows, W) + Sum(more, W)
<1> DEFINE all == rows \o more
           ns == Weighed(rows, W)
           ms == Weighed(more, W)
           ps == Weighed(all, W)
<1>1. /\ all \in Seq(Row) /\ Len(all) = Len(rows) + Len(more)
      /\ \A i \in 1..Len(all) : all[i] = IF i <= Len(rows) THEN rows[i] ELSE more[i - Len(rows)]
  BY ConcatProperties
<1>2. /\ Len(rows) \in Nat /\ Len(more) \in Nat
  BY LenProperties
<1> HIDE DEF all
<1>3. /\ ns \in Seq(Int) /\ Len(ns) = Len(rows) /\ \A i \in 1..Len(rows) : ns[i] = W[rows[i]]
  BY WeighedSeq
<1>4. /\ ms \in Seq(Int) /\ Len(ms) = Len(more) /\ \A i \in 1..Len(more) : ms[i] = W[more[i]]
  BY WeighedSeq
<1>5. /\ ps \in Seq(Int) /\ Len(ps) = Len(all) /\ \A i \in 1..Len(all) : ps[i] = W[all[i]]
  BY <1>1, WeighedSeq
<1> HIDE DEF ns, ms, ps
<1>6. /\ ns \o ms \in Seq(Int) /\ Len(ns \o ms) = Len(ns) + Len(ms)
      /\ \A i \in 1..Len(ns) + Len(ms) :
            (ns \o ms)[i] = IF i <= Len(ns) THEN ns[i] ELSE ms[i - Len(ns)]
  <2>1. ns \in Seq(Int) /\ ms \in Seq(Int)
    BY <1>3, <1>4
  <2> QED BY <2>1, ConcatProperties
<1>0. /\ Len(rows) \in Nat /\ Len(more) \in Nat /\ Len(all) = Len(rows) + Len(more)
      /\ Len(ns) = Len(rows) /\ Len(ms) = Len(more) /\ Len(ps) = Len(all)
  BY <1>1, <1>2, <1>3, <1>4, <1>5
<1>7. ASSUME NEW i \in 1..Len(ps) PROVE ps[i] = (ns \o ms)[i]
  <2>1. CASE i <= Len(rows)
    <3>1. i \in 1..Len(rows) /\ i \in 1..Len(all) /\ i \in 1..Len(ns) + Len(ms)
      BY <1>0, <2>1
    <3>2. all[i] = rows[i] /\ ps[i] = W[all[i]] /\ ns[i] = W[rows[i]]
      BY <1>1, <1>3, <1>5, <2>1, <3>1
    <3>3. (ns \o ms)[i] = ns[i]
      BY <1>3, <1>6, <2>1, <3>1
    <3> QED BY <3>2, <3>3
  <2>2. CASE i > Len(rows)
    <3>1. /\ i - Len(rows) \in 1..Len(more) /\ i \in 1..Len(all) /\ i \in 1..Len(ns) + Len(ms)
          /\ ~(i <= Len(rows))
      BY <1>0, <2>2
    <3>2. all[i] = more[i - Len(rows)] /\ ps[i] = W[all[i]]
          /\ ms[i - Len(rows)] = W[more[i - Len(rows)]]
      BY <1>1, <1>4, <1>5, <3>1
    <3>3. (ns \o ms)[i] = ms[i - Len(ns)]
      BY <1>3, <1>6, <3>1
    <3> QED BY <1>3, <3>2, <3>3
  <2> QED BY <1>0, <2>1, <2>2
<1>8. ps = ns \o ms
  BY <1>1, <1>3, <1>4, <1>5, <1>6, <1>7, SeqEqual
<1>9. Total(ps) = Total(ns) + Total(ms)
  BY <1>3, <1>4, <1>8, TotalConcat
<1> QED BY <1>9 DEF Sum, all, ns, ms, ps

LEMMA SumOne ==
  ASSUME NEW t \in Row, NEW W \in Weight
  PROVE  Sum(<<t>>, W) = W[t]
<1> DEFINE r == <<t>>
           one == <<W[t]>>
<1>1. r \in Seq(Row) /\ Len(r) = 1 /\ r[1] = t /\ W[t] \in Int
  BY DEF Weight
<1>2. one \in Seq(Int) /\ Len(one) = 1 /\ one[1] = W[t] /\ Total(one) = W[t]
  BY <1>1, TotalOne
<1> HIDE DEF r, one
<1>3. /\ Weighed(r, W) \in Seq(Int) /\ Len(Weighed(r, W)) = 1
      /\ Weighed(r, W)[1] = W[t]
  BY <1>1, WeighedSeq
<1>4. Weighed(r, W) = one
  BY <1>2, <1>3, SeqEqual
<1>5. Sum(r, W) = W[t]
  BY <1>2, <1>4 DEF Sum
<1> QED BY <1>5 DEF r

LEMMA SumNone ==
  ASSUME NEW W \in Weight
  PROVE  Sum(<<>>, W) = 0
<1>1. Weighed(<<>>, W) = <<>>
  BY DEF Weighed
<1> QED BY <1>1, TotalNone DEF Sum

LEMMA SumAtMost ==
  ASSUME NEW rows \in Seq(Row), NEW W \in Weight, NEW V \in Weight,
         \A i \in DOMAIN rows : W[rows[i]] <= V[rows[i]]
  PROVE  Sum(rows, W) <= Sum(rows, V)
<1>1. DOMAIN rows = 1..Len(rows)
  BY LenProperties
<1>2. \A i \in 1..Len(rows) : Weighed(rows, W)[i] <= Weighed(rows, V)[i]
  BY <1>1, WeighedSeq
<1> QED BY <1>2, WeighedSeq, TotalAtMost DEF Sum

LEMMA SumSame ==
  ASSUME NEW rows \in Seq(Row), NEW W \in Weight, NEW V \in Weight,
         \A i \in DOMAIN rows : W[rows[i]] = V[rows[i]]
  PROVE  Sum(rows, W) = Sum(rows, V)
<1>1. Weighed(rows, W) = Weighed(rows, V)
  BY DEF Weighed
<1> QED BY <1>1 DEF Sum

LEMMA SumPlus ==
  ASSUME NEW rows \in Seq(Row), NEW W \in Weight, NEW U \in Weight, NEW V \in Weight,
         \A i \in DOMAIN rows : W[rows[i]] = U[rows[i]] + V[rows[i]]
  PROVE  Sum(rows, W) = Sum(rows, U) + Sum(rows, V)
<1>1. DOMAIN rows = 1..Len(rows)
  BY LenProperties
<1>2. \A i \in 1..Len(rows) : Weighed(rows, W)[i] = Weighed(rows, U)[i] + Weighed(rows, V)[i]
  BY <1>1, WeighedSeq
<1> QED BY <1>2, WeighedSeq, TotalPlus DEF Sum

(* Rows that differ in one place. *)
LEMMA SumExcept ==
  ASSUME NEW rows \in Seq(Row), NEW turned \in Seq(Row), NEW W \in Weight,
         NEW k \in DOMAIN rows, Len(turned) = Len(rows),
         \A i \in DOMAIN rows : i # k => W[turned[i]] = W[rows[i]]
  PROVE  Sum(turned, W) = Sum(rows, W) + (W[turned[k]] - W[rows[k]])
<1>1. DOMAIN rows = 1..Len(rows)
  BY LenProperties
<1>2. /\ Weighed(rows, W) \in Seq(Int) /\ Len(Weighed(rows, W)) = Len(rows)
      /\ \A i \in 1..Len(rows) : Weighed(rows, W)[i] = W[rows[i]]
  BY WeighedSeq
<1>3. /\ Weighed(turned, W) \in Seq(Int) /\ Len(Weighed(turned, W)) = Len(rows)
      /\ \A i \in 1..Len(rows) : Weighed(turned, W)[i] = W[turned[i]]
  BY WeighedSeq
<1>4. W[turned[k]] \in Int
  BY <1>1, <1>3, Terms
<1> DEFINE ns == Weighed(rows, W)
           ms == Weighed(turned, W)
           v == W[turned[k]]
<1>5. /\ ns \in Seq(Int) /\ ms \in Seq(Int) /\ k \in 1..Len(ns) /\ Len(ms) = Len(ns)
      /\ ms[k] = v /\ ns[k] = W[rows[k]] /\ v \in Int
      /\ \A i \in 1..Len(ns) : i # k => ms[i] = ns[i]
  <2>1. ns \in Seq(Int) /\ Len(ns) = Len(rows) /\ \A i \in 1..Len(rows) : ns[i] = W[rows[i]]
    BY <1>2
  <2>2. ms \in Seq(Int) /\ Len(ms) = Len(rows) /\ \A i \in 1..Len(rows) : ms[i] = W[turned[i]]
    BY <1>3
  <2>3. v = W[turned[k]] /\ v \in Int
    BY <1>4
  <2> HIDE DEF ns, ms, v
  <2>4. k \in 1..Len(rows) /\ Len(ms) = Len(ns)
    BY <1>1, <2>1, <2>2
  <2>5. ms[k] = v /\ ns[k] = W[rows[k]]
    BY <2>1, <2>2, <2>3, <2>4
  <2>6. ASSUME NEW i \in 1..Len(ns), i # k PROVE ms[i] = ns[i]
    <3>1. i \in DOMAIN rows /\ i \in 1..Len(rows)
      BY <1>1, <2>1
    <3>2. W[turned[i]] = W[rows[i]]
      BY <2>6, <3>1
    <3> QED BY <2>1, <2>2, <3>1, <3>2
  <2> QED BY <2>1, <2>2, <2>3, <2>4, <2>5, <2>6
<1> HIDE DEF ns, ms, v
<1>6. Total(ms) = Total(ns) + (v - ns[k])
  BY <1>5, TotalExcept
<1>7. Total(ms) = Total(ns) + (v - W[rows[k]])
  BY <1>5, <1>6
<1> QED BY <1>7 DEF Sum, ns, ms, v

-----------------------------------------------------------------------------
(* A position holds what the rows of its stock have moved.                  *)

IsPosition(p) == p = [f \in {"qty", "cost", "gain"} |-> p[f]] /\ p.qty \in Int

Moves(t) == IF t.side = "DIVIDEND" THEN 0 ELSE t.qty
OnDay(s, d) == [t \in Row |-> IF t.stock = s /\ t.day = d THEN Moves(t) ELSE 0]
UpTo(s, d) == [t \in Row |-> IF t.stock = s /\ t.day <= d THEN Moves(t) ELSE 0]
Shares(s) == [t \in Row |-> IF t.stock = s THEN Moves(t) ELSE 0]

LEMMA Weights == \A s, d : OnDay(s, d) \in Weight /\ UpTo(s, d) \in Weight /\ Shares(s) \in Weight
BY DEF OnDay, UpTo, Shares, Weight, Moves, Row

LEMMA FoldMoves ==
  ASSUME NEW p, IsPosition(p), NEW t \in Row
  PROVE  IsPosition(FoldTrade(p, t)) /\ FoldTrade(p, t).qty = p.qty + Moves(t)
<1>1. t.side \in {"BUY", "SELL", "CORP_ACTION", "DIVIDEND"} /\ t.qty \in Int /\ p.qty \in Int
  BY DEF Row, Side, IsPosition
<1>2. CASE t.side = "BUY"
  <2> DEFINE q == [p EXCEPT !.qty = p.qty + t.qty, !.cost = p.cost + t.value]
  <2>1. FoldTrade(p, t) = q
    BY <1>2 DEF FoldTrade
  <2>2. q = [f \in {"qty", "cost", "gain"} |-> q[f]] /\ q.qty = p.qty + t.qty
    BY DEF IsPosition
  <2> HIDE DEF q
  <2> QED BY <1>1, <1>2, <2>1, <2>2 DEF IsPosition, Moves
<1>3. CASE t.side = "SELL"
  <2> DEFINE gone == CostOf(p, -t.qty)
             q == [qty |-> p.qty + t.qty, cost |-> p.cost - gone, gain |-> p.gain + t.value - gone]
  <2>1. FoldTrade(p, t) = q
    BY <1>3 DEF FoldTrade
  <2> HIDE DEF gone
  <2>2. q = [f \in {"qty", "cost", "gain"} |-> q[f]] /\ q.qty = p.qty + t.qty
    OBVIOUS
  <2> HIDE DEF q
  <2> QED BY <1>1, <1>3, <2>1, <2>2 DEF IsPosition, Moves
<1>4. CASE t.side = "CORP_ACTION"
  BY <1>1, <1>4 DEF FoldTrade, Moves, IsPosition
<1>5. CASE t.side = "DIVIDEND"
  BY <1>1, <1>5 DEF FoldTrade, Moves, IsPosition
<1> QED BY <1>1, <1>2, <1>3, <1>4, <1>5

LEMMA ReplayMoves ==
  ASSUME NEW rows \in Seq(Row), NEW s, NEW d, NEW p, IsPosition(p)
  PROVE  /\ IsPosition(Replay(rows, s, d, p))
         /\ Replay(rows, s, d, p).qty = p.qty + Sum(rows, OnDay(s, d))
<1> DEFINE Next1(q, n) == IF rows[n].stock = s /\ rows[n].day = d THEN FoldTrade(q, rows[n]) ELSE q
           Upto(f, n) == /\ f = [i \in 0..n |-> f[i]] /\ f[0] = p
                         /\ \A i \in 1..n : f[i] = Next1(f[i - 1], i)
           P(f) == f = [i \in 0..Len(rows) |->
                          IF i = 0 THEN p
                          ELSE IF rows[i].stock = s /\ rows[i].day = d
                               THEN FoldTrade(f[i - 1], rows[i]) ELSE f[i - 1]]
           h == CHOOSE f : P(f)
<1>0. Len(rows) \in Nat /\ \A i \in 1..Len(rows) : rows[i] \in Row
  BY LenProperties
<1>1. Replay(rows, s, d, p) = h[Len(rows)]
  BY DEF Replay
<1>2. \E f : P(f)
  <2> DEFINE S == {n \in Nat : \E f : Upto(f, n)}
  <2>1. 0 \in S
    <3>1. Upto([i \in 0..0 |-> p], 0)
      OBVIOUS
    <3> QED BY <3>1
  <2>2. ASSUME NEW n \in Nat, n \in S PROVE n + 1 \in S
    <3>1. PICK f : Upto(f, n)
      BY <2>2
    <3> DEFINE v == Next1(f[n], n + 1)
               g == [i \in 0..(n + 1) |-> IF i <= n THEN f[i] ELSE v]
    <3> HIDE DEF v, Next1
    <3>2. g = [i \in 0..(n + 1) |-> g[i]] /\ g[0] = p
      BY <3>1
    <3>3. ASSUME NEW i \in 1..(n + 1) PROVE g[i] = Next1(g[i - 1], i)
      <4>1. CASE i <= n
        <5>1. g[i] = f[i] /\ g[i - 1] = f[i - 1] /\ i \in 1..n
          BY <4>1
        <5> QED BY <3>1, <5>1
      <4>2. CASE i = n + 1
        <5>1. g[i] = v /\ g[i - 1] = f[n]
          BY <4>2
        <5> QED BY <4>2, <5>1 DEF v
      <4> QED BY <4>1, <4>2
    <3>4. Upto(g, n + 1)
      BY <3>2, <3>3
    <3> HIDE DEF g, Upto
    <3> QED BY <3>4
  <2>3. Len(rows) \in S
    <3>1. Nat \subseteq S
      BY <2>1, <2>2, Induct
    <3> QED BY <1>0, <3>1
  <2>4. PICK f : Upto(f, Len(rows))
    BY <2>3
  <2>5. ASSUME NEW i \in 0..Len(rows)
        PROVE  f[i] = IF i = 0 THEN p
                      ELSE IF rows[i].stock = s /\ rows[i].day = d
                           THEN FoldTrade(f[i - 1], rows[i]) ELSE f[i - 1]
    <3>1. i = 0 \/ i \in 1..Len(rows)
      BY <1>0
    <3> QED BY <2>4, <3>1
  <2>6. P(f)
    BY <2>4, <2>5
  <2> QED BY <2>6
<1>3. P(h)
  BY <1>2
<1> HIDE DEF h
<1>4. h[0] = p /\ \A i \in 1..Len(rows) : h[i] = Next1(h[i - 1], i)
  <2>1. h[0] = p
    BY <1>0, <1>3
  <2>2. ASSUME NEW i \in 1..Len(rows) PROVE h[i] = Next1(h[i - 1], i)
    <3>1. i \in 0..Len(rows) /\ i # 0
      BY <1>0
    <3> QED BY <1>3, <3>1
  <2> QED BY <2>1, <2>2
<1>5. PICK g : /\ IsSums(g, Weighed(rows, OnDay(s, d)))
               /\ Sum(rows, OnDay(s, d)) = g[Len(Weighed(rows, OnDay(s, d)))]
  BY Weights, WeighedSeq, SumsOf DEF Sum
<1>6. /\ Len(Weighed(rows, OnDay(s, d))) = Len(rows)
      /\ \A i \in 1..Len(rows) : Weighed(rows, OnDay(s, d))[i] = OnDay(s, d)[rows[i]]
  BY Weights, WeighedSeq
<1>7. /\ g[0] = 0 /\ \A i \in 0..Len(rows) : g[i] \in Int
      /\ \A i \in 1..Len(rows) : g[i] = g[i - 1] + OnDay(s, d)[rows[i]]
  BY <1>5, <1>6 DEF IsSums
<1> DEFINE T == {n \in Nat : n <= Len(rows) => IsPosition(h[n]) /\ h[n].qty = p.qty + g[n]}
<1>8. 0 \in T
  <2>1. p.qty \in Int /\ p.qty = p.qty + 0
    BY DEF IsPosition
  <2>2. h[0] = p /\ g[0] = 0
    BY <1>4, <1>7
  <2>3. IsPosition(h[0]) /\ h[0].qty = p.qty + g[0]
    BY <2>1, <2>2
  <2> QED BY <2>3
<1>9. ASSUME NEW n \in Nat, n \in T PROVE n + 1 \in T
  <2> SUFFICES ASSUME n + 1 <= Len(rows)
               PROVE  IsPosition(h[n + 1]) /\ h[n + 1].qty = p.qty + g[n + 1]
    OBVIOUS
  <2>1. /\ n + 1 \in 1..Len(rows) /\ n \in 0..Len(rows) /\ (n + 1) - 1 = n
        /\ IsPosition(h[n]) /\ h[n].qty = p.qty + g[n]
    BY <1>0, <1>9
  <2>2. h[n + 1] = Next1(h[n], n + 1) /\ g[n + 1] = g[n] + OnDay(s, d)[rows[n + 1]]
    BY <1>4, <1>7, <2>1
  <2>3. g[n] \in Int /\ p.qty \in Int /\ rows[n + 1] \in Row
    BY <1>0, <1>7, <2>1 DEF IsPosition
  <2>4. Moves(rows[n + 1]) \in Int
    BY <2>3 DEF Moves, Row
  <2>5. CASE rows[n + 1].stock = s /\ rows[n + 1].day = d
    <3>1. h[n + 1] = FoldTrade(h[n], rows[n + 1]) /\ g[n + 1] = g[n] + Moves(rows[n + 1])
      BY <2>2, <2>3, <2>5 DEF OnDay
    <3>2. IsPosition(h[n + 1]) /\ h[n + 1].qty = h[n].qty + Moves(rows[n + 1])
      BY <2>1, <2>3, <3>1, FoldMoves
    <3> QED BY <2>1, <2>3, <2>4, <3>1, <3>2
  <2>6. CASE ~(rows[n + 1].stock = s /\ rows[n + 1].day = d)
    <3>1. h[n + 1] = h[n] /\ g[n + 1] = g[n] + 0
      BY <2>2, <2>3, <2>6 DEF OnDay
    <3> QED BY <2>1, <2>3, <3>1
  <2> QED BY <2>5, <2>6
<1>10. Len(rows) \in T
  <2>1. Nat \subseteq T
    BY <1>8, <1>9, Induct
  <2> QED BY <1>0, <2>1
<1> QED BY <1>0, <1>1, <1>5, <1>6, <1>10

LEMMA PositionMoves ==
  ASSUME NEW rows \in Seq(Row), NEW s
  PROVE  IsPosition(Position(rows, s)) /\ Held(rows, s) = Sum(rows, Shares(s))
<1> DEFINE Upto(f, n) == /\ f = [i \in 0..n |-> f[i]] /\ f[0] = Flat
                         /\ \A i \in 1..n : f[i] = Replay(rows, s, i, f[i - 1])
           P(f) == f = [i \in 0..LastDay |-> IF i = 0 THEN Flat ELSE Replay(rows, s, i, f[i - 1])]
           h == CHOOSE f : P(f)
<1>0. LastDay \in Nat /\ LastDay # 0
  BY LedgerConstants
<1>1. Position(rows, s) = h[LastDay]
  BY DEF Position
<1>2. \E f : P(f)
  <2> DEFINE S == {n \in Nat : \E f : Upto(f, n)}
  <2>1. 0 \in S
    <3>1. Upto([i \in 0..0 |-> Flat], 0)
      OBVIOUS
    <3> QED BY <3>1
  <2>2. ASSUME NEW n \in Nat, n \in S PROVE n + 1 \in S
    <3>1. PICK f : Upto(f, n)
      BY <2>2
    <3> DEFINE v == Replay(rows, s, n + 1, f[n])
               g == [i \in 0..(n + 1) |-> IF i <= n THEN f[i] ELSE v]
    <3> HIDE DEF v
    <3>2. g = [i \in 0..(n + 1) |-> g[i]] /\ g[0] = Flat
      BY <3>1
    <3>3. ASSUME NEW i \in 1..(n + 1) PROVE g[i] = Replay(rows, s, i, g[i - 1])
      <4>1. CASE i <= n
        <5>1. g[i] = f[i] /\ g[i - 1] = f[i - 1] /\ i \in 1..n
          BY <4>1
        <5> QED BY <3>1, <5>1
      <4>2. CASE i = n + 1
        <5>1. g[i] = v /\ g[i - 1] = f[n]
          BY <4>2
        <5> QED BY <4>2, <5>1 DEF v
      <4> QED BY <4>1, <4>2
    <3>4. Upto(g, n + 1)
      BY <3>2, <3>3
    <3> HIDE DEF g, Upto
    <3> QED BY <3>4
  <2>3. LastDay \in S
    <3>1. Nat \subseteq S
      BY <2>1, <2>2, Induct
    <3> QED BY <1>0, <3>1
  <2>4. PICK f : Upto(f, LastDay)
    BY <2>3
  <2>5. ASSUME NEW i \in 0..LastDay
        PROVE  f[i] = IF i = 0 THEN Flat ELSE Replay(rows, s, i, f[i - 1])
    <3>1. i = 0 \/ i \in 1..LastDay
      BY <1>0
    <3> QED BY <2>4, <3>1
  <2>6. P(f)
    BY <2>4, <2>5
  <2> QED BY <2>6
<1>3. P(h)
  BY <1>2
<1> HIDE DEF h
<1>4. h[0] = Flat /\ \A i \in 1..LastDay : h[i] = Replay(rows, s, i, h[i - 1])
  BY <1>0, <1>3
<1> DEFINE T == {n \in Nat : n <= LastDay => /\ IsPosition(h[n])
                                             /\ h[n].qty = Sum(rows, UpTo(s, n))}
<1>5. 0 \in T
  <2>1. IsPosition(h[0]) /\ h[0].qty = 0
    BY <1>4 DEF IsPosition, Flat
  <2>2. Sum(rows, UpTo(s, 0)) = Sum(rows, UpTo(s, 0)) + Sum(rows, UpTo(s, 0))
    <3>1. ASSUME NEW i \in DOMAIN rows
          PROVE  UpTo(s, 0)[rows[i]] = UpTo(s, 0)[rows[i]] + UpTo(s, 0)[rows[i]]
      <4>1. rows[i] \in Row
        BY LenProperties
      <4>2. ~(rows[i].day <= 0)
        BY <1>0, <4>1 DEF Row, Day
      <4>3. UpTo(s, 0)[rows[i]] = 0
        BY <4>1, <4>2 DEF UpTo
      <4> QED BY <4>3
    <3> QED BY <3>1, Weights, SumPlus
  <2>3. Sum(rows, UpTo(s, 0)) \in Int
    BY Weights, SumInt
  <2>4. Sum(rows, UpTo(s, 0)) = 0
    BY <2>2, <2>3
  <2> QED BY <2>1, <2>4
<1>6. ASSUME NEW n \in Nat, n \in T PROVE n + 1 \in T
  <2> SUFFICES ASSUME n + 1 <= LastDay
               PROVE  IsPosition(h[n + 1]) /\ h[n + 1].qty = Sum(rows, UpTo(s, n + 1))
    OBVIOUS
  <2>1. /\ n + 1 \in 1..LastDay /\ (n + 1) - 1 = n
        /\ IsPosition(h[n]) /\ h[n].qty = Sum(rows, UpTo(s, n))
    BY <1>0, <1>6
  <2>2. h[n + 1] = Replay(rows, s, n + 1, h[n])
    BY <1>4, <2>1
  <2>3. IsPosition(h[n + 1]) /\ h[n + 1].qty = Sum(rows, UpTo(s, n)) + Sum(rows, OnDay(s, n + 1))
    BY <2>1, <2>2, ReplayMoves
  <2>4. ASSUME NEW i \in DOMAIN rows
        PROVE  UpTo(s, n + 1)[rows[i]] = UpTo(s, n)[rows[i]] + OnDay(s, n + 1)[rows[i]]
    <3>1. rows[i] \in Row
      BY LenProperties
    <3>2. rows[i].day \in Nat /\ Moves(rows[i]) \in Int
      BY <3>1, <1>0 DEF Row, Day, Moves
    <3> QED BY <3>1, <3>2 DEF UpTo, OnDay
  <2>5. Sum(rows, UpTo(s, n + 1)) = Sum(rows, UpTo(s, n)) + Sum(rows, OnDay(s, n + 1))
    BY <2>4, Weights, SumPlus
  <2> QED BY <2>3, <2>5
<1>7. LastDay \in T
  <2>1. Nat \subseteq T
    BY <1>5, <1>6, Induct
  <2> QED BY <1>0, <2>1
<1>8. ASSUME NEW i \in DOMAIN rows
      PROVE  UpTo(s, LastDay)[rows[i]] = Shares(s)[rows[i]]
  <2>1. rows[i] \in Row
    BY LenProperties
  <2>2. rows[i].day <= LastDay
    BY <2>1, <1>0 DEF Row, Day
  <2> QED BY <2>1, <2>2 DEF UpTo, Shares
<1>9. Sum(rows, UpTo(s, LastDay)) = Sum(rows, Shares(s))
  BY <1>8, Weights, SumSame
<1> QED BY <1>0, <1>1, <1>7, <1>9 DEF Held

LEMMA HeldInt ==
  ASSUME NEW rows \in Seq(Row), NEW s
  PROVE  Held(rows, s) \in Int
BY PositionMoves, Weights, SumInt

LEMMA HeldConcat ==
  ASSUME NEW rows \in Seq(Row), NEW more \in Seq(Row), NEW s
  PROVE  Held(rows \o more, s) = Held(rows, s) + Sum(more, Shares(s))
<1>1. rows \o more \in Seq(Row)
  BY ConcatProperties
<1>2. Held(rows \o more, s) = Sum(rows \o more, Shares(s)) /\ Held(rows, s) = Sum(rows, Shares(s))
  BY <1>1, PositionMoves
<1>3. Sum(rows \o more, Shares(s)) = Sum(rows, Shares(s)) + Sum(more, Shares(s))
  BY Weights, SumConcat
<1> QED BY <1>2, <1>3

-----------------------------------------------------------------------------
(* The inductive invariant.                                                 *)

TxField == {"op", "new", "read", "saw", "undo", "amount", "todo", "cur", "done", "locks", "fresh"}
IsTx(x) == x = [f \in TxField |-> x[f]] /\ x \in Tx

IsCorp(t) == t.source = "corp_action"

(* A quantity has the sign of its side; the one of a reversal is turned. *)
SignOK(t) ==
  /\ t.side = "BUY" => t.qty >= 0
  /\ t.side = "SELL" => t.qty <= 0
  /\ t.side = "CORP_ACTION" => IF t.source = "reversal" THEN t.qty <= 0 ELSE t.qty >= 0
  /\ t.side = "DIVIDEND" => t.qty = 0

(* The SELL of a merger is directly followed by its BUY, and conversely. *)
Paired(rows) ==
  \A i \in DOMAIN rows : IsCorp(rows[i]) =>
    /\ rows[i].side = "SELL" =>
         /\ i + 1 \in DOMAIN rows /\ IsCorp(rows[i + 1])
         /\ rows[i + 1].side = "BUY" /\ rows[i + 1].ref = rows[i].ref
    /\ rows[i].side = "BUY" =>
         /\ i - 1 \in DOMAIN rows /\ IsCorp(rows[i - 1])
         /\ rows[i - 1].side = "SELL" /\ rows[i - 1].ref = rows[i].ref

(* The other rows of corporate actions are of different ones. *)
Single(rows) ==
  \A i, j \in DOMAIN rows :
    /\ IsCorp(rows[i]) /\ IsCorp(rows[j]) /\ rows[i].ref = rows[j].ref
    /\ rows[i].side # "BUY" /\ rows[j].side # "BUY"
    => i = j

(* What a transaction will write, by its kind. *)
KindOK(x) ==
  /\ x.op \in {"trade", "reverse", "adjust", "corp", "other"}
  /\ x.op # "corp" => x.todo = {} /\ x.cur = {} /\ x.done = {}
  /\ x.op # "adjust" => x.amount = 0
  /\ x.op # "reverse" => x.undo = 0
  /\ x.op \in {"adjust", "other"} => x.new = <<>>
  /\ x.op = "trade" =>
       /\ Len(x.new) = 1 /\ x.new[1].source = "manual" /\ x.new[1].undone = 0
       /\ SignOK(x.new[1]) /\ (x.new[1].side = "BUY" => x.new[1].value > 0)
  /\ x.op = "reverse" =>
       /\ Len(x.new) = 1 /\ x.new[1].source = "reversal" /\ x.new[1].undone = 0
       /\ SignOK(x.new[1]) /\ x.new[1].ref = x.undo
  /\ x.op = "corp" =>
       /\ \A i \in DOMAIN x.new :
            /\ IsCorp(x.new[i]) /\ x.new[i].undone = 0 /\ SignOK(x.new[i])
            /\ x.new[i].ref \in x.cur \cup x.done
            /\ ~x.read => Inflow(x.new[i]) = 0
       /\ Paired(x.new) /\ Single(x.new)

(* What it has read of the tables, and what is still so as long as no other *)
(* transaction has committed.                                               *)
SeenOK(x) ==
  /\ x.locks => x.read
  /\ x.todo \cap (x.cur \cup x.done) = {} /\ x.cur \cap x.done = {}
  /\ x.op = "reverse" => x.undo \in DOMAIN trades /\ trades[x.undo].source # "reversal"
  /\ x.op = "trade" /\ x.read /\ x.new[1].side = "BUY" => x.saw >= x.new[1].value
  /\ \A i \in DOMAIN x.new : x.new[i].entered <= today

FreshOK(x) ==
  /\ (x.todo \cup x.cur \cup x.done) \cap processed = {}
  /\ x.read => x.saw = cash
  /\ x.op = "reverse" => trades[x.undo].undone = 0
  /\ x.op = "trade" /\ x.new[1].side = "SELL"
       => -x.new[1].qty <= Available(trades, x.new[1].stock, x.new[1].day)
  /\ x.op = "corp" => \A s \in Stock : Held(trades, s) >= 0 => Held(trades \o x.new, s) >= 0
  /\ \A i \in DOMAIN x.new, j \in DOMAIN trades : trades[j].entered <= x.new[i].entered

TxOK(x) == IsTx(x) /\ KindOK(x) /\ SeenOK(x) /\ (x.fresh => FreshOK(x))

(* A reversal comes after the trade it reverses, which points at the last one. *)
ReversalInv ==
  /\ \A j \in DOMAIN trades : trades[j].source = "reversal" =>
       /\ trades[j].ref \in 1..(j - 1) /\ trades[trades[j].ref].source # "reversal"
       /\ j <= trades[trades[j].ref].undone
       /\ ~overlapped => j = trades[trades[j].ref].undone
  /\ \A i \in DOMAIN trades : trades[i].undone # 0 => trades[i].undone \in ReversalsOf(i)

CorpInv ==
  /\ \A i \in DOMAIN trades : IsCorp(trades[i]) => trades[i].ref \in processed
  /\ Paired(trades)
  /\ ~overlapped => Single(trades)

RowInv ==
  \A i \in DOMAIN trades : SignOK(trades[i]) /\ trades[i].entered <= today

LedgerInv ==
  /\ trades \in Seq(Row) /\ cash \in Int /\ deposits \in Seq(Int)
  /\ processed \subseteq Action /\ delisted \subseteq Stock
  /\ today \in Day /\ overlapped \in BOOLEAN
  /\ tx = [c \in Client |-> tx[c]]
  /\ \A c \in Client : tx[c] = Idle \/ TxOK(tx[c])
  /\ ReversalInv /\ CorpInv /\ RowInv /\ CashMatchesLedger /\ TPlusOne

-----------------------------------------------------------------------------
(* Rows and sums of them.                                                   *)

BalanceEffect == [t \in Row |-> Inflow(t)]
LastingEffect == [t \in Row |-> IF InForce(t) THEN Inflow(t) ELSE 0]
Bought(s, d) == [t \in Row |-> IF t.stock = s /\ t.side = "BUY" /\ t.day = d THEN t.qty ELSE 0]
Sold(s, d) == [t \in Row |->
  IF t.stock = s /\ t.day = d /\ t.source = "manual" /\ t.side = "SELL" THEN -t.qty ELSE 0]
Before(s, d) == [t \in Row |-> IF t.stock = s /\ t.day < d THEN t.qty ELSE 0]
Granted(s, d) == [t \in Row |->
  IF t.stock = s /\ t.day = d /\ t.source # "reversal" /\ t.side = "CORP_ACTION"
  THEN t.qty ELSE 0]

LEMMA InflowInt ==
  ASSUME NEW t \in Row
  PROVE  Inflow(t) \in Int
BY DEF Inflow, Row, Side

LEMMA MoreWeights ==
  /\ BalanceEffect \in Weight /\ LastingEffect \in Weight
  /\ \A s, d : /\ Bought(s, d) \in Weight /\ Sold(s, d) \in Weight
               /\ Before(s, d) \in Weight /\ Granted(s, d) \in Weight
<1>1. BalanceEffect \in Weight /\ LastingEffect \in Weight
  BY InflowInt DEF BalanceEffect, LastingEffect, Weight
<1>2. ASSUME NEW s, NEW d
      PROVE  /\ Bought(s, d) \in Weight /\ Sold(s, d) \in Weight
             /\ Before(s, d) \in Weight /\ Granted(s, d) \in Weight
  BY DEF Bought, Sold, Before, Granted, Weight, Row
<1> QED BY <1>1, <1>2

LEMMA WeighedRows ==
  ASSUME NEW rows \in Seq(Row)
  PROVE  /\ [i \in DOMAIN rows |-> Inflow(rows[i])] = Weighed(rows, BalanceEffect)
         /\ [i \in DOMAIN rows |-> IF InForce(rows[i]) THEN Inflow(rows[i]) ELSE 0]
              = Weighed(rows, LastingEffect)
         /\ \A s, d :
              /\ [i \in DOMAIN rows |->
                    IF rows[i].stock = s /\ rows[i].side = "BUY" /\ rows[i].day = d
                    THEN rows[i].qty ELSE 0] = Weighed(rows, Bought(s, d))
              /\ [i \in DOMAIN rows |->
                    IF rows[i].stock = s /\ rows[i].day = d /\ rows[i].source = "manual"
                       /\ rows[i].side = "SELL" THEN -rows[i].qty ELSE 0]
                   = Weighed(rows, Sold(s, d))
              /\ [i \in DOMAIN rows |->
                    IF rows[i].stock = s /\ rows[i].day < d THEN rows[i].qty ELSE 0]
                   = Weighed(rows, Before(s, d))
              /\ [i \in DOMAIN rows |->
                    IF rows[i].stock = s /\ rows[i].day = d /\ rows[i].source # "reversal"
                       /\ rows[i].side = "CORP_ACTION" THEN rows[i].qty ELSE 0]
                   = Weighed(rows, Granted(s, d))
<1>1. \A i \in DOMAIN rows : rows[i] \in Row
  BY LenProperties
<1>2. [i \in DOMAIN rows |-> Inflow(rows[i])] = Weighed(rows, BalanceEffect)
  BY <1>1 DEF Weighed, BalanceEffect
<1>3. [i \in DOMAIN rows |-> IF InForce(rows[i]) THEN Inflow(rows[i]) ELSE 0]
        = Weighed(rows, LastingEffect)
  BY <1>1 DEF Weighed, LastingEffect
<1>4. ASSUME NEW s, NEW d
      PROVE  [i \in DOMAIN rows |->
                IF rows[i].stock = s /\ rows[i].side = "BUY" /\ rows[i].day = d
                THEN rows[i].qty ELSE 0] = Weighed(rows, Bought(s, d))
  BY <1>1 DEF Weighed, Bought
<1>5. ASSUME NEW s, NEW d
      PROVE  [i \in DOMAIN rows |->
                IF rows[i].stock = s /\ rows[i].day = d /\ rows[i].source = "manual"
                   /\ rows[i].side = "SELL" THEN -rows[i].qty ELSE 0]
               = Weighed(rows, Sold(s, d))
  BY <1>1 DEF Weighed, Sold
<1>6. ASSUME NEW s, NEW d
      PROVE  [i \in DOMAIN rows |->
                IF rows[i].stock = s /\ rows[i].day < d THEN rows[i].qty ELSE 0]
               = Weighed(rows, Before(s, d))
  BY <1>1 DEF Weighed, Before
<1>7. ASSUME NEW s, NEW d
      PROVE  [i \in DOMAIN rows |->
                IF rows[i].stock = s /\ rows[i].day = d /\ rows[i].source # "reversal"
                   /\ rows[i].side = "CORP_ACTION" THEN rows[i].qty ELSE 0]
               = Weighed(rows, Granted(s, d))
  BY <1>1 DEF Weighed, Granted
<1> QED BY <1>2, <1>3, <1>4, <1>5, <1>6, <1>7

LEMMA NewInflow ==
  ASSUME NEW rows \in Seq(Row)
  PROVE  SumOver(rows, Inflow) = Sum(rows, BalanceEffect)
BY WeighedRows DEF SumOver, Sum

LEMMA BoughtSum ==
  ASSUME NEW rows \in Seq(Row), NEW s, NEW d
  PROVE  BoughtOn(rows, s, d) = Sum(rows, Bought(s, d))
<1>1. [i \in DOMAIN rows |->
         IF rows[i].stock = s /\ rows[i].side = "BUY" /\ rows[i].day = d
         THEN rows[i].qty ELSE 0] = Weighed(rows, Bought(s, d))
  BY WeighedRows
<1> QED BY <1>1 DEF BoughtOn, SumOver, Sum

(* What the invariants of the module say, in sums. *)
CashSum == ~overlapped => cash = Total(deposits) + Sum(trades, LastingEffect)

TradeSum ==
  ~overlapped => \A s \in Stock, d \in Day :
     Timely(s) /\ Sum(trades, Sold(s, d)) > 0
        => Sum(trades, Sold(s, d)) <= Sum(trades, Before(s, d)) + Sum(trades, Granted(s, d))

LEMMA InSums ==
  ASSUME trades \in Seq(Row)
  PROVE  (CashMatchesLedger <=> CashSum) /\ (TPlusOne <=> TradeSum)
<1>1. CashMatchesLedger <=> CashSum
  BY WeighedRows DEF CashMatchesLedger, CashSum, SumOver, Sum
<1>2. ASSUME NEW s, NEW d
      PROVE  /\ SoldOn(s, d) = Sum(trades, Sold(s, d))
             /\ HeldBefore(s, d) = Sum(trades, Before(s, d))
             /\ GrantedOn(s, d) = Sum(trades, Granted(s, d))
  <2>1. SoldOn(s, d) = Sum(trades, Sold(s, d))
    <3>1. [i \in DOMAIN trades |->
             IF trades[i].stock = s /\ trades[i].day = d /\ trades[i].source = "manual"
                /\ trades[i].side = "SELL" THEN -trades[i].qty ELSE 0]
            = Weighed(trades, Sold(s, d))
      BY WeighedRows
    <3> QED BY <3>1 DEF SoldOn, SumOver, Sum
  <2>2. HeldBefore(s, d) = Sum(trades, Before(s, d))
    <3>1. [i \in DOMAIN trades |->
             IF trades[i].stock = s /\ trades[i].day < d THEN trades[i].qty ELSE 0]
            = Weighed(trades, Before(s, d))
      BY WeighedRows
    <3> QED BY <3>1 DEF HeldBefore, SumOver, Sum
  <2>3. GrantedOn(s, d) = Sum(trades, Granted(s, d))
    <3>1. [i \in DOMAIN trades |->
             IF trades[i].stock = s /\ trades[i].day = d
                /\ trades[i].source # "reversal" /\ trades[i].side = "CORP_ACTION"
             THEN trades[i].qty ELSE 0] = Weighed(trades, Granted(s, d))
      BY WeighedRows
    <3> QED BY <3>1 DEF GrantedOn, SumOver, Sum
  <2> QED BY <2>1, <2>2, <2>3
<1>3. TPlusOne <=> TradeSum
  BY <1>2 DEF TPlusOne, TradeSum, SellsOnlySettled
<1> QED BY <1>1, <1>3

LEMMA InSumsNext ==
  ASSUME trades' \in Seq(Row)
  PROVE  (CashMatchesLedger' <=> CashSum') /\ (TPlusOne' <=> TradeSum')
<1>1. CashMatchesLedger' <=> CashSum'
  BY WeighedRows DEF CashMatchesLedger, CashSum, SumOver, Sum
<1>2. ASSUME NEW CONSTANT s, NEW CONSTANT d
      PROVE  /\ SoldOn(s, d)' = Sum(trades', Sold(s, d))
             /\ HeldBefore(s, d)' = Sum(trades', Before(s, d))
             /\ GrantedOn(s, d)' = Sum(trades', Granted(s, d))
  <2>1. SoldOn(s, d)' = Sum(trades', Sold(s, d))
    <3>1. [i \in DOMAIN trades' |->
             IF trades'[i].stock = s /\ trades'[i].day = d /\ trades'[i].source = "manual"
                /\ trades'[i].side = "SELL" THEN -trades'[i].qty ELSE 0]
            = Weighed(trades', Sold(s, d))
      BY WeighedRows
    <3> QED BY <3>1 DEF SoldOn, SumOver, Sum
  <2>2. HeldBefore(s, d)' = Sum(trades', Before(s, d))
    <3>1. [i \in DOMAIN trades' |->
             IF trades'[i].stock = s /\ trades'[i].day < d THEN trades'[i].qty ELSE 0]
            = Weighed(trades', Before(s, d))
      BY WeighedRows
    <3> QED BY <3>1 DEF HeldBefore, SumOver, Sum
  <2>3. GrantedOn(s, d)' = Sum(trades', Granted(s, d))
    <3>1. [i \in DOMAIN trades' |->
             IF trades'[i].stock = s /\ trades'[i].day = d
                /\ trades'[i].source # "reversal" /\ trades'[i].side = "CORP_ACTION"
             THEN trades'[i].qty ELSE 0] = Weighed(trades', Granted(s, d))
      BY WeighedRows
    <3> QED BY <3>1 DEF GrantedOn, SumOver, Sum
  <2> QED BY <2>1, <2>2, <2>3
<1>3. TPlusOne' <=> TradeSum'
  BY <1>2 DEF TPlusOne, TradeSum, SellsOnlySettled
<1> QED BY <1>1, <1>3

-----------------------------------------------------------------------------
LEMMA InitLedger == LedgerInit => LedgerInv
<1> SUFFICES ASSUME LedgerInit PROVE LedgerInv
  OBVIOUS
<1>1. /\ trades = <<>> /\ cash = Opening /\ deposits = <<Opening>> /\ processed = {}
      /\ delisted = {} /\ today = 1 /\ tx = [c \in Client |-> Idle] /\ overlapped = FALSE
  BY DEF LedgerInit
<1>2. /\ trades \in Seq(Row) /\ cash \in Int /\ deposits \in Seq(Int)
      /\ processed \subseteq Action /\ delisted \subseteq Stock
      /\ today \in Day /\ overlapped \in BOOLEAN
  <2>1. Opening \in Int /\ 1 \in Day
    BY LedgerConstants DEF Day
  <2>2. <<>> \in Seq(Row) /\ <<Opening>> \in Seq(Int)
    BY <2>1
  <2> QED BY <1>1, <2>1, <2>2
<1>3. DOMAIN trades = {}
  BY <1>1
<1>4. ReversalInv /\ CorpInv /\ RowInv
  BY <1>3 DEF ReversalInv, CorpInv, RowInv, Paired, Single
<1>5. CashSum
  <2>1. Sum(trades, LastingEffect) = 0
    BY <1>1, MoreWeights, SumNone
  <2>2. Total(deposits) = Opening /\ Opening \in Int
    BY <1>1, LedgerConstants, TotalOne
  <2> QED BY <1>1, <2>1, <2>2 DEF CashSum
<1>6. TradeSum
  <2>1. ASSUME NEW s \in Stock, NEW d \in Day
        PROVE  ~(Sum(trades, Sold(s, d)) > 0)
    <3>1. Sum(trades, Sold(s, d)) = 0
      BY <1>1, MoreWeights, SumNone
    <3> QED BY <3>1
  <2> QED BY <2>1 DEF TradeSum
<1> QED BY <1>1, <1>2, <1>4, <1>5, <1>6, InSums DEF LedgerInv

(* One transaction takes a step that the tables do not show. *)
LEMMA StepKeeps ==
  ASSUME LedgerInv, NEW c \in Client, NEW x, Step(c, x), x = Idle \/ TxOK(x)
  PROVE  LedgerInv'
<1>1. /\ UNCHANGED <<trades, cash, deposits, processed, delisted, today, overlapped>>
      /\ tx' = [tx EXCEPT ![c] = x] /\ tx = [d \in Client |-> tx[d]]
  BY DEF Step, LedgerInv
<1>2. tx' = [d \in Client |-> tx'[d]]
  BY <1>1
<1>3. ASSUME NEW d \in Client PROVE (tx[d] = Idle \/ TxOK(tx[d]))'
  <2>1. tx'[d] = Idle \/ TxOK(tx'[d])
    BY <1>1 DEF LedgerInv
  <2>2. TxOK(tx'[d]) => TxOK(tx[d])'
    BY <1>1 DEF TxOK, SeenOK, FreshOK
  <2> QED BY <2>1, <2>2
<1>4. /\ (trades \in Seq(Row) /\ cash \in Int /\ deposits \in Seq(Int))'
      /\ (processed \subseteq Action /\ delisted \subseteq Stock)'
      /\ (today \in Day /\ overlapped \in BOOLEAN)'
  BY <1>1 DEF LedgerInv
<1>5. ReversalInv' /\ CorpInv' /\ RowInv'
  BY <1>1 DEF LedgerInv, ReversalInv, CorpInv, RowInv, ReversalsOf
<1>6. CashSum' /\ TradeSum'
  BY <1>1, InSums DEF LedgerInv, CashSum, TradeSum, Timely
<1>7. CashMatchesLedger' /\ TPlusOne'
  BY <1>4, <1>6, InSumsNext
<1> QED BY <1>2, <1>3, <1>4, <1>5, <1>7 DEF LedgerInv

LEMMA DayKeeps == LedgerInv /\ NextDay => LedgerInv'
<1> SUFFICES ASSUME LedgerInv, NextDay PROVE LedgerInv'
  OBVIOUS
<1>1. /\ UNCHANGED <<trades, cash, deposits, processed, delisted, tx, overlapped>>
      /\ today < LastDay /\ today' = today + 1
  BY DEF NextDay
<1>2. LastDay \in Nat /\ today \in Nat /\ today \in Day
  BY LedgerConstants DEF LedgerInv, Day
<1>3. ASSUME NEW c \in Client PROVE (tx[c] = Idle \/ TxOK(tx[c]))'
  <2>1. tx[c] = Idle \/ TxOK(tx[c])
    BY DEF LedgerInv
  <2>2. TxOK(tx[c]) => TxOK(tx[c])'
    <3> SUFFICES ASSUME TxOK(tx[c]) PROVE TxOK(tx[c])'
      OBVIOUS
    <3>1. IsTx(tx[c])' /\ KindOK(tx[c])' /\ ((tx[c].fresh)' => FreshOK(tx[c])')
      BY <1>1 DEF TxOK, FreshOK
    <3>2. \A i \in DOMAIN tx[c].new : tx[c].new[i].entered <= today'
      <4>1. \A i \in DOMAIN tx[c].new : tx[c].new[i] \in Row
        BY LenProperties DEF TxOK, IsTx, Tx
      <4>2. \A i \in DOMAIN tx[c].new : tx[c].new[i].entered \in Nat
        BY <1>2, <4>1 DEF Row, Day
      <4> QED BY <1>1, <1>2, <4>2 DEF TxOK, SeenOK
    <3>3. SeenOK(tx[c])'
      BY <1>1, <3>2 DEF TxOK, SeenOK
    <3> QED BY <3>1, <3>3 DEF TxOK
  <2> QED BY <1>1, <2>1, <2>2
<1>4. /\ (trades \in Seq(Row) /\ cash \in Int /\ deposits \in Seq(Int))'
      /\ (processed \subseteq Action /\ delisted \subseteq Stock)'
      /\ (today \in Day /\ overlapped \in BOOLEAN)' /\ (tx = [c \in Client |-> tx[c]])'
  BY <1>1, <1>2 DEF LedgerInv, Day
<1>5. ReversalInv' /\ CorpInv'
  BY <1>1 DEF LedgerInv, ReversalInv, CorpInv, ReversalsOf
<1>6. RowInv'
  <2>1. \A i \in DOMAIN trades : trades[i] \in Row
    BY LenProperties DEF LedgerInv
  <2>2. \A i \in DOMAIN trades : trades[i].entered \in Nat
    BY <1>2, <2>1 DEF Row, Day
  <2> QED BY <1>1, <1>2, <2>2 DEF LedgerInv, RowInv
<1>7. CashSum' /\ TradeSum'
  BY <1>1, InSums DEF LedgerInv, CashSum, TradeSum, Timely
<1>8. CashMatchesLedger' /\ TPlusOne'
  BY <1>4, <1>7, InSumsNext
<1> QED BY <1>3, <1>4, <1>5, <1>6, <1>8 DEF LedgerInv

LEMMA OpenSteps ==
  ASSUME NEW c \in Client, NEW x, Open(c, x)
  PROVE  Step(c, x)
BY DEF Open, Step

LEMMA Products ==
  /\ \A p, q \in Nat : p * q \in Nat
  /\ \A p, q \in Nat \ {0} : p * q \in Nat /\ p * q > 0
OBVIOUS

(* A transaction from its fields. *)
LEMMA MakeTx ==
  ASSUME NEW x, x = [f \in TxField |-> x[f]],
         x.op \in {"trade", "reverse", "adjust", "corp", "other"}, x.new \in Seq(Row),
         x.read \in BOOLEAN, x.saw \in Int, x.undo \in 0..MaxTrades, x.amount \in Int,
         x.todo \subseteq Action, x.cur \subseteq Action, x.done \subseteq Action,
         x.locks \in BOOLEAN, x.fresh \in BOOLEAN
  PROVE  IsTx(x)
BY DEF IsTx, Tx, TxField

LEMMA MakeBegun ==
  ASSUME NEW x, x = [f \in TxField |-> x[f]],
         x.op \in {"trade", "reverse", "adjust", "corp", "other"}, x.new \in Seq(Row),
         x.read = FALSE, x.saw = 0, x.undo \in 0..MaxTrades, x.amount \in Int,
         x.todo \subseteq Action, x.cur = {}, x.done = {}, x.locks = FALSE, x.fresh = TRUE
  PROVE  /\ IsTx(x) /\ ~x.read /\ ~x.locks /\ x.fresh
         /\ x.cur \cup x.done = {} /\ x.cur \cap x.done = {}
<1>1. x.read \in BOOLEAN /\ x.locks \in BOOLEAN /\ x.fresh \in BOOLEAN
  OBVIOUS
<1>2. x.cur \subseteq Action /\ x.done \subseteq Action
  OBVIOUS
<1>3. x.saw \in Int
  <2>1. \A n : n = 0 => n \in Int
    OBVIOUS
  <2> QED BY <2>1
<1>4. IsTx(x)
  BY <1>1, <1>2, <1>3, MakeTx
<1> QED BY <1>4

LEMMA OneRow ==
  ASSUME NEW S, NEW e \in S
  PROVE  <<e>> \in Seq(S) /\ Len(<<e>>) = 1 /\ <<e>>[1] = e /\ DOMAIN <<e>> = {1}
<1>1. <<e>> \in Seq(S) /\ Len(<<e>>) = 1 /\ <<e>>[1] = e
  OBVIOUS
<1>2. 1..1 = {1}
  OBVIOUS
<1> QED BY <1>1, <1>2, LenProperties

LEMMA NoRow == \A S : <<>> \in Seq(S) /\ Len(<<>>) = 0 /\ DOMAIN <<>> = {}
<1>1. \A S : <<>> \in Seq(S)
  OBVIOUS
<1> QED BY <1>1

LEMMA OrderRow ==
  ASSUME NEW o \in Order, NEW d \in Day, NEW ref \in Nat, today \in Day,
         NEW r, r = TradeRow(o, SignedQty(o), Value(o), d, "manual", ref)
  PROVE  /\ r \in Row /\ SignOK(r) /\ r.stock = o.stock /\ r.side = o.side
         /\ r.source = "manual" /\ r.undone = 0 /\ r.day = d /\ r.entered = today
         /\ r.side = "BUY" => r.value > 0
         /\ r.side = "SELL" => -r.qty = o.qty
<1>1. /\ o.stock \in Stock /\ o.side \in Side /\ o.qty \in Nat \ {0} /\ o.price \in Nat \ {0}
  BY LedgerConstants
<1>2. Fee["BUY"] \in Nat /\ Fee["SELL"] \in Nat
  BY LedgerConstants
<1>3. o.price * o.qty \in Nat /\ o.price * o.qty > 0
  BY <1>1, Products
<1>4. Value(o) \in Int /\ (o.side = "BUY" => Value(o) > 0)
  BY <1>1, <1>2, <1>3 DEF Value, Side
<1>5. /\ SignedQty(o) \in Int
      /\ o.side = "SELL" => -SignedQty(o) = o.qty /\ SignedQty(o) <= 0
      /\ o.side = "BUY" => SignedQty(o) >= 0
      /\ o.side = "CORP_ACTION" => SignedQty(o) >= 0
      /\ o.side = "DIVIDEND" => SignedQty(o) = 0
  BY <1>1 DEF SignedQty, Side
<1>6. r = [stock |-> o.stock, side |-> o.side, qty |-> SignedQty(o), value |-> Value(o),
           day |-> d, entered |-> today, source |-> "manual", ref |-> ref, undone |-> 0]
  BY DEF TradeRow
<1>7. r \in Row
  BY <1>1, <1>4, <1>5, <1>6 DEF Row
<1> QED BY <1>1, <1>4, <1>5, <1>6, <1>7 DEF SignOK

(* A row entered today is not before one that is committed.*)
LEMMA TodayLast ==
  ASSUME LedgerInv
  PROVE  \A j \in DOMAIN trades : trades[j].entered <= today
BY DEF LedgerInv, RowInv

LEMMA TradeTxOK ==
  ASSUME LedgerInv, NEW o \in Order, NEW d \in Day, NEW ref \in Nat, Admissible(o, d)
  PROVE  TxOK(TradeTx(o, d, ref))
<1> DEFINE r == TradeRow(o, SignedQty(o), Value(o), d, "manual", ref)
           x == TradeTx(o, d, ref)
<1>1. /\ x = [f \in TxField |-> x[f]] /\ x.op = "trade" /\ x.new = <<r>> /\ x.read = FALSE
      /\ x.saw = 0 /\ x.undo = 0 /\ x.amount = 0 /\ x.todo = {} /\ x.cur = {} /\ x.done = {}
      /\ x.locks = FALSE /\ x.fresh = TRUE
  BY DEF TradeTx, Begin, TxField
<1>2. /\ r \in Row /\ SignOK(r) /\ r.stock = o.stock /\ r.side = o.side
      /\ r.source = "manual" /\ r.undone = 0 /\ r.day = d /\ r.entered = today
      /\ (r.side = "BUY" => r.value > 0) /\ (r.side = "SELL" => -r.qty = o.qty)
  BY OrderRow DEF LedgerInv
<1> HIDE DEF r, x
<1>3. x.new \in Seq(Row) /\ Len(x.new) = 1 /\ x.new[1] = r /\ DOMAIN x.new = {1}
  <2>1. /\ <<r>> \in Seq(Row) /\ Len(<<r>>) = 1 /\ <<r>>[1] = r /\ DOMAIN <<r>> = {1}
    BY <1>2, OneRow
  <2> QED BY <1>1, <2>1, Zenon
<1>4. /\ IsTx(x) /\ ~x.read /\ ~x.locks /\ x.fresh
      /\ x.cur \cup x.done = {} /\ x.cur \cap x.done = {}
  <2>1. x.undo \in 0..MaxTrades /\ x.amount \in Int
    BY <1>1, LedgerConstants
  <2> QED BY <1>1, <1>3, <2>1, MakeBegun
<1>5. KindOK(x)
  BY <1>1, <1>2, <1>3 DEF KindOK
<1>6. r.entered = today
  BY <1>2
<1>7. today \in Nat
  BY LedgerConstants DEF LedgerInv, Day
<1>8. SeenOK(x)
  <2>1. \A i \in DOMAIN x.new : x.new[i].entered <= today
    BY <1>3, <1>6, <1>7
  <2>2. x.todo \cap (x.cur \cup x.done) = {} /\ x.op # "reverse"
    BY <1>1
  <2> QED BY <1>4, <2>1, <2>2 DEF SeenOK
<1>9. r.side = "SELL" => -r.qty <= Available(trades, r.stock, r.day)
  BY <1>2 DEF Admissible
<1>10. FreshOK(x)
  BY <1>1, <1>3, <1>4, <1>6, <1>9, TodayLast DEF FreshOK
<1>11. TxOK(x)
  BY <1>4, <1>5, <1>8, <1>10 DEF TxOK
<1> QED BY <1>11 DEF x

LEMMA TradeKeeps ==
  ASSUME LedgerInv, NEW c \in Client, NEW o \in Order, NEW d \in Day, BeginTrade(c, o, d)
  PROVE  LedgerInv'
<1>1. Step(c, TradeTx(o, d, 0)) /\ Admissible(o, d)
  BY OpenSteps DEF BeginTrade
<1>2. TxOK(TradeTx(o, d, 0))
  BY <1>1, TradeTxOK
<1> QED BY <1>1, <1>2, StepKeeps

LEMMA ReverseKeeps ==
  ASSUME LedgerInv, NEW c \in Client, NEW k \in 1..MaxTrades, BeginReverse(c, k)
  PROVE  LedgerInv'
<1> DEFINE r == Reversal(k)
           x == [Begin("reverse") EXCEPT !.new = <<r>>, !.undo = k]
<1>1. /\ Step(c, x) /\ k \in DOMAIN trades
      /\ trades[k].undone = 0 /\ trades[k].source # "reversal"
  BY OpenSteps DEF BeginReverse
<1>2. trades[k] \in Row /\ SignOK(trades[k])
  BY <1>1, LenProperties DEF LedgerInv, RowInv
<1>3. /\ x = [f \in TxField |-> x[f]] /\ x.op = "reverse" /\ x.new = <<r>> /\ x.read = FALSE
      /\ x.saw = 0 /\ x.undo = k /\ x.amount = 0 /\ x.todo = {} /\ x.cur = {} /\ x.done = {}
      /\ x.locks = FALSE /\ x.fresh = TRUE
  BY DEF Begin, TxField
<1>4. r = [stock |-> trades[k].stock, side |-> Opposite(trades[k].side), qty |-> -trades[k].qty,
           value |-> -trades[k].value, day |-> today, entered |-> today, source |-> "reversal", ref |-> k,
           undone |-> 0]
  BY DEF Reversal, TradeRow
<1>5. Opposite(trades[k].side) \in Side
  BY <1>2 DEF Opposite, Row, Side
<1>6. today \in Day /\ today \in Nat /\ k \in Nat /\ MaxTrades \in Nat
  BY LedgerConstants DEF LedgerInv, Day
<1>7. r \in Row
  BY <1>2, <1>4, <1>5, <1>6 DEF Row
<1>8. SignOK(r)
  <2>1. trades[k].side \in Side /\ trades[k].qty \in Int
    BY <1>2 DEF Row
  <2> QED BY <1>1, <1>2, <1>4, <2>1 DEF SignOK, Opposite, Side
<1>9. r.entered = today /\ r.source = "reversal" /\ r.ref = k /\ r.undone = 0
  BY <1>4
<1> HIDE DEF r, x
<1>10. x.new \in Seq(Row) /\ Len(x.new) = 1 /\ x.new[1] = r /\ DOMAIN x.new = {1}
  <2>1. /\ <<r>> \in Seq(Row) /\ Len(<<r>>) = 1 /\ <<r>>[1] = r /\ DOMAIN <<r>> = {1}
    BY <1>7, OneRow
  <2> QED BY <1>3, <2>1, Zenon
<1>11. /\ IsTx(x) /\ ~x.read /\ ~x.locks /\ x.fresh
       /\ x.cur \cup x.done = {} /\ x.cur \cap x.done = {}
  <2>1. x.undo \in 0..MaxTrades /\ x.amount \in Int
    BY <1>3, <1>6
  <2> QED BY <1>3, <1>10, <2>1, MakeBegun
<1>12. KindOK(x)
  BY <1>3, <1>8, <1>9, <1>10 DEF KindOK
<1>13. SeenOK(x)
  <2>1. \A i \in DOMAIN x.new : x.new[i].entered <= today
    BY <1>6, <1>9, <1>10
  <2>2. x.todo \cap (x.cur \cup x.done) = {} /\ x.op # "trade" /\ x.undo = k
    BY <1>3
  <2> QED BY <1>1, <1>11, <2>1, <2>2 DEF SeenOK
<1>14. FreshOK(x)
  BY <1>1, <1>3, <1>9, <1>10, <1>11, TodayLast DEF FreshOK
<1>15. TxOK(x)
  BY <1>11, <1>12, <1>13, <1>14 DEF TxOK
<1> QED BY <1>1, <1>15, StepKeeps

LEMMA AdjustKeeps ==
  ASSUME LedgerInv, NEW c \in Client, NEW n \in Amount, BeginAdjust(c, n)
  PROVE  LedgerInv'
<1> DEFINE x == [Begin("adjust") EXCEPT !.amount = n]
<1>1. Step(c, x) /\ n \in Int /\ MaxTrades \in Nat
  BY OpenSteps, LedgerConstants DEF BeginAdjust
<1>2. /\ x = [f \in TxField |-> x[f]] /\ x.op = "adjust" /\ x.new = <<>> /\ x.read = FALSE
      /\ x.saw = 0 /\ x.undo = 0 /\ x.amount = n /\ x.todo = {} /\ x.cur = {} /\ x.done = {}
      /\ x.locks = FALSE /\ x.fresh = TRUE
  BY DEF Begin, TxField
<1> HIDE DEF x
<1>3. x.new \in Seq(Row) /\ DOMAIN x.new = {}
  BY <1>2, NoRow
<1>4. /\ IsTx(x) /\ ~x.read /\ ~x.locks /\ x.fresh
      /\ x.cur \cup x.done = {} /\ x.cur \cap x.done = {}
  <2>1. x.undo \in 0..MaxTrades /\ x.amount \in Int
    BY <1>1, <1>2
  <2> QED BY <1>2, <1>3, <2>1, MakeBegun
<1>5. KindOK(x) /\ SeenOK(x) /\ FreshOK(x)
  BY <1>2, <1>3, <1>4 DEF KindOK, SeenOK, FreshOK
<1>6. TxOK(x)
  BY <1>4, <1>5 DEF TxOK
<1> QED BY <1>1, <1>6, StepKeeps

LEMMA BatchKeeps ==
  ASSUME LedgerInv, NEW c \in Client, NEW Todo \in SUBSET Pending, BeginCorp(c, Todo)
  PROVE  LedgerInv'
<1> DEFINE x == [Begin("corp") EXCEPT !.todo = Todo]
<1>1. Step(c, x) /\ Todo \subseteq Action /\ Todo \cap processed = {} /\ MaxTrades \in Nat
  BY OpenSteps, LedgerConstants DEF BeginCorp, Pending
<1>2. /\ x = [f \in TxField |-> x[f]] /\ x.op = "corp" /\ x.new = <<>> /\ x.read = FALSE
      /\ x.saw = 0 /\ x.undo = 0 /\ x.amount = 0 /\ x.todo = Todo /\ x.cur = {} /\ x.done = {}
      /\ x.locks = FALSE /\ x.fresh = TRUE
  BY DEF Begin, TxField
<1> HIDE DEF x
<1>3. x.new \in Seq(Row) /\ DOMAIN x.new = {} /\ trades \o x.new = trades
  <2>1. trades \in Seq(Row)
    BY DEF LedgerInv
  <2> QED BY <1>2, <2>1, NoRow, ConcatEmptySeq
<1>4. /\ IsTx(x) /\ ~x.read /\ ~x.locks /\ x.fresh
      /\ x.cur \cup x.done = {} /\ x.cur \cap x.done = {}
  <2>1. x.undo \in 0..MaxTrades /\ x.amount \in Int
    BY <1>1, <1>2
  <2> QED BY <1>1, <1>2, <1>3, <2>1, MakeBegun
<1>5. KindOK(x) /\ SeenOK(x) /\ FreshOK(x)
  BY <1>1, <1>2, <1>3, <1>4 DEF KindOK, SeenOK, FreshOK, Paired, Single
<1>6. TxOK(x)
  BY <1>4, <1>5 DEF TxOK
<1> QED BY <1>1, <1>6, StepKeeps

LEMMA RollbackKeeps ==
  ASSUME LedgerInv, NEW c \in Client, Rollback(c)
  PROVE  LedgerInv'
BY StepKeeps DEF Rollback

-----------------------------------------------------------------------------
(* Sequences of rows put together.                                          *)

LEMMA ConcatAt ==
  ASSUME NEW S, NEW r \in Seq(S), NEW m \in Seq(S), NEW all, all = r \o m
  PROVE  /\ all \in Seq(S) /\ Len(r) \in Nat /\ Len(m) \in Nat /\ Len(all) = Len(r) + Len(m)
         /\ DOMAIN r = 1..Len(r) /\ DOMAIN m = 1..Len(m) /\ DOMAIN all = 1..Len(all)
         /\ \A i \in DOMAIN r : r[i] \in S
         /\ \A i \in DOMAIN m : m[i] \in S
         /\ \A i \in DOMAIN r : i \in DOMAIN all /\ all[i] = r[i]
         /\ \A i \in DOMAIN m : Len(r) + i \in DOMAIN all /\ all[Len(r) + i] = m[i]
         /\ \A i \in DOMAIN all :
              \/ i \in DOMAIN r /\ all[i] = r[i]
              \/ i > Len(r) /\ i - Len(r) \in DOMAIN m /\ all[i] = m[i - Len(r)]
<1>1. /\ all \in Seq(S) /\ Len(all) = Len(r) + Len(m)
      /\ \A i \in 1..Len(r) + Len(m) : all[i] = IF i <= Len(r) THEN r[i] ELSE m[i - Len(r)]
  BY ConcatProperties
<1>2. /\ Len(r) \in Nat /\ Len(m) \in Nat
      /\ DOMAIN r = 1..Len(r) /\ DOMAIN m = 1..Len(m) /\ DOMAIN all = 1..Len(all)
      /\ \A i \in DOMAIN r : r[i] \in S
      /\ \A i \in DOMAIN m : m[i] \in S
  BY <1>1, LenProperties
<1>3. \A i \in DOMAIN r : i \in DOMAIN all /\ all[i] = r[i]
  BY <1>1, <1>2
<1>4. ASSUME NEW i \in DOMAIN m
      PROVE  Len(r) + i \in DOMAIN all /\ all[Len(r) + i] = m[i]
  <2>1. Len(r) + i \in 1..Len(r) + Len(m) /\ ~(Len(r) + i <= Len(r)) /\ (Len(r) + i) - Len(r) = i
    BY <1>2
  <2> QED BY <1>1, <1>2, <2>1
<1>5. ASSUME NEW i \in DOMAIN all
      PROVE  \/ i \in DOMAIN r /\ all[i] = r[i]
             \/ i > Len(r) /\ i - Len(r) \in DOMAIN m /\ all[i] = m[i - Len(r)]
  BY <1>1, <1>2
<1> QED BY <1>1, <1>2, <1>3, <1>4, <1>5

LEMMA PairedConcat ==
  ASSUME NEW r \in Seq(Row), NEW m \in Seq(Row), Paired(r), Paired(m)
  PROVE  Paired(r \o m)
<1> DEFINE all == r \o m
           After(rows, i) == /\ i + 1 \in DOMAIN rows /\ IsCorp(rows[i + 1])
                             /\ rows[i + 1].side = "BUY" /\ rows[i + 1].ref = rows[i].ref
           Behind(rows, i) == /\ i - 1 \in DOMAIN rows /\ IsCorp(rows[i - 1])
                              /\ rows[i - 1].side = "SELL" /\ rows[i - 1].ref = rows[i].ref
<1>1. /\ Len(r) \in Nat /\ Len(m) \in Nat /\ Len(all) = Len(r) + Len(m)
      /\ DOMAIN r = 1..Len(r) /\ DOMAIN m = 1..Len(m) /\ DOMAIN all = 1..Len(all)
      /\ \A i \in DOMAIN r : i \in DOMAIN all /\ all[i] = r[i]
      /\ \A i \in DOMAIN m : Len(r) + i \in DOMAIN all /\ all[Len(r) + i] = m[i]
      /\ \A i \in DOMAIN all :
              \/ i \in DOMAIN r /\ all[i] = r[i]
              \/ i > Len(r) /\ i - Len(r) \in DOMAIN m /\ all[i] = m[i - Len(r)]
  BY ConcatAt
<1> HIDE DEF all
<1>2. ASSUME NEW i \in DOMAIN all, IsCorp(all[i])
      PROVE  (all[i].side = "SELL" => After(all, i)) /\ (all[i].side = "BUY" => Behind(all, i))
  <2>1. CASE i \in DOMAIN r /\ all[i] = r[i]
    <3>1. (r[i].side = "SELL" => After(r, i)) /\ (r[i].side = "BUY" => Behind(r, i))
      BY <1>2, <2>1 DEF Paired
    <3>2. After(r, i) => After(all, i)
      BY <1>1, <2>1
    <3>3. Behind(r, i) => Behind(all, i)
      BY <1>1, <2>1
    <3> QED BY <2>1, <3>1, <3>2, <3>3
  <2>2. CASE i > Len(r) /\ i - Len(r) \in DOMAIN m /\ all[i] = m[i - Len(r)]
    <3> DEFINE k == i - Len(r)
    <3>1. (m[k].side = "SELL" => After(m, k)) /\ (m[k].side = "BUY" => Behind(m, k))
      BY <1>2, <2>2 DEF Paired
    <3>2. /\ i \in Nat /\ k \in Nat /\ Len(r) + (k + 1) = i + 1 /\ Len(r) + (k - 1) = i - 1
          /\ k \in DOMAIN m /\ all[i] = m[k]
      BY <1>1, <2>2
    <3> HIDE DEF k
    <3>3. After(m, k) => After(all, i)
      <4> SUFFICES ASSUME After(m, k) PROVE After(all, i)
        OBVIOUS
      <4>1. i + 1 \in DOMAIN all /\ all[i + 1] = m[k + 1]
        BY <1>1, <3>2
      <4> QED BY <3>2, <4>1
    <3>4. Behind(m, k) => Behind(all, i)
      <4> SUFFICES ASSUME Behind(m, k) PROVE Behind(all, i)
        OBVIOUS
      <4>1. i - 1 \in DOMAIN all /\ all[i - 1] = m[k - 1]
        BY <1>1, <3>2
      <4> QED BY <3>2, <4>1
    <3> QED BY <3>1, <3>2, <3>3, <3>4
  <2> QED BY <1>1, <2>1, <2>2
<1>3. Paired(all)
  BY <1>2 DEF Paired
<1> QED BY <1>3 DEF all

LEMMA SingleConcat ==
  ASSUME NEW r \in Seq(Row), NEW m \in Seq(Row), Single(r), Single(m), NEW A,
         \A i \in DOMAIN r : IsCorp(r[i]) => r[i].ref \in A,
         \A i \in DOMAIN m : IsCorp(m[i]) => m[i].ref \notin A
  PROVE  Single(r \o m)
<1> DEFINE all == r \o m
<1>1. /\ Len(r) \in Nat /\ DOMAIN r = 1..Len(r) /\ DOMAIN m = 1..Len(m)
      /\ DOMAIN all = 1..Len(all)
      /\ \A i \in DOMAIN all :
              \/ i \in DOMAIN r /\ all[i] = r[i]
              \/ i > Len(r) /\ i - Len(r) \in DOMAIN m /\ all[i] = m[i - Len(r)]
  BY ConcatAt
<1> HIDE DEF all
<1>2. ASSUME NEW i \in DOMAIN all, NEW j \in DOMAIN all,
             IsCorp(all[i]), IsCorp(all[j]), all[i].ref = all[j].ref,
             all[i].side # "BUY", all[j].side # "BUY"
      PROVE  i = j
  <2>1. CASE i \in DOMAIN r /\ all[i] = r[i]
    <3>1. j \in DOMAIN r /\ all[j] = r[j]
      BY <1>1, <1>2, <2>1
    <3> QED BY <1>2, <2>1, <3>1 DEF Single
  <2>2. CASE i > Len(r) /\ i - Len(r) \in DOMAIN m /\ all[i] = m[i - Len(r)]
    <3>1. j > Len(r) /\ j - Len(r) \in DOMAIN m /\ all[j] = m[j - Len(r)]
      BY <1>1, <1>2, <2>2
    <3>2. i - Len(r) = j - Len(r)
      BY <1>2, <2>2, <3>1 DEF Single
    <3>3. i \in Int /\ j \in Int
      BY <1>1
    <3> QED BY <1>1, <3>2, <3>3
  <2> QED BY <1>1, <2>1, <2>2
<1>3. Single(all)
  BY <1>2 DEF Single
<1> QED BY <1>3 DEF all

-----------------------------------------------------------------------------
LEMMA TxFields ==
  ASSUME NEW x, IsTx(x)
  PROVE  /\ x = [f \in TxField |-> x[f]]
         /\ x.op \in {"trade", "reverse", "adjust", "corp", "other"} /\ x.new \in Seq(Row)
         /\ x.read \in BOOLEAN /\ x.saw \in Int /\ x.undo \in 0..MaxTrades /\ x.amount \in Int
         /\ x.todo \subseteq Action /\ x.cur \subseteq Action /\ x.done \subseteq Action
         /\ x.locks \in BOOLEAN /\ x.fresh \in BOOLEAN
         /\ DOMAIN x.new = 1..Len(x.new) /\ Len(x.new) \in Nat
         /\ \A i \in DOMAIN x.new : x.new[i] \in Row
<1>1. /\ x = [f \in TxField |-> x[f]]
      /\ x.op \in {"trade", "reverse", "adjust", "corp", "other"} /\ x.new \in Seq(Row)
      /\ x.read \in BOOLEAN /\ x.saw \in Int /\ x.undo \in 0..MaxTrades /\ x.amount \in Int
      /\ x.todo \subseteq Action /\ x.cur \subseteq Action /\ x.done \subseteq Action
      /\ x.locks \in BOOLEAN /\ x.fresh \in BOOLEAN
  BY DEF IsTx, Tx
<1>2. /\ DOMAIN x.new = 1..Len(x.new) /\ Len(x.new) \in Nat
      /\ \A i \in DOMAIN x.new : x.new[i] \in Row
  BY <1>1, LenProperties
<1> QED BY <1>1, <1>2

(* A transaction that takes part is no idle session. *)
LEMMA OpenTx ==
  ASSUME LedgerInv, NEW c \in Client, tx[c].op # "idle"
  PROVE  tx[c] # Idle /\ TxOK(tx[c]) /\ IsTx(tx[c])
BY DEF LedgerInv, Idle, TxOK

LEMMA ReadKeeps ==
  ASSUME LedgerInv, NEW c \in Client, ReadCash(c)
  PROVE  LedgerInv'
<1> DEFINE x == tx[c]
           n == [x EXCEPT !.read = TRUE, !.saw = cash]
<1>1. x.op \in {"trade", "reverse", "adjust"}
  BY DEF ReadCash
<1>2. TxOK(x) /\ IsTx(x)
  BY <1>1, OpenTx
<1>3. CASE Step(c, Idle)
  BY <1>3, StepKeeps
<1>4. CASE /\ x.op = "trade" /\ x.new[1].side = "BUY" => cash >= x.new[1].value
           /\ Step(c, n)
  <2>1. /\ n = [f \in TxField |-> n[f]] /\ n.op = x.op /\ n.new = x.new /\ n.read /\ n.saw = cash
        /\ n.undo = x.undo /\ n.amount = x.amount /\ n.todo = x.todo /\ n.cur = x.cur
        /\ n.done = x.done /\ n.locks = x.locks /\ n.fresh = x.fresh
    <3>1. x = [f \in TxField |-> x[f]]
      BY <1>2, TxFields
    <3> QED BY <3>1 DEF TxField
  <2> HIDE DEF n
  <2>2. IsTx(n)
    <3>1. cash \in Int /\ n.read \in BOOLEAN
      BY <2>1 DEF LedgerInv
    <3> QED BY <1>1, <1>2, <2>1, <3>1, MakeTx, TxFields
  <2>3. KindOK(n)
    BY <1>1, <1>2, <2>1 DEF KindOK, TxOK
  <2>4. SeenOK(n)
    BY <1>1, <1>2, <1>4, <2>1 DEF SeenOK, TxOK
  <2>5. n.fresh => FreshOK(n)
    BY <1>2, <2>1 DEF FreshOK, TxOK
  <2>6. TxOK(n)
    BY <2>2, <2>3, <2>4, <2>5 DEF TxOK
  <2> QED BY <1>4, <2>6, StepKeeps
<1> QED BY <1>3, <1>4 DEF ReadCash

LEMMA BreakKeeps ==
  ASSUME LedgerInv, NEW c \in Client, NEW a \in Action, Break(c, a)
  PROVE  LedgerInv'
<1> DEFINE x == tx[c]
           n == [x EXCEPT !.todo = {}]
<1>1. x.op = "corp" /\ Step(c, n)
  BY DEF Break
<1>2. TxOK(x) /\ IsTx(x)
  BY <1>1, OpenTx
<1>3. /\ n = [f \in TxField |-> n[f]] /\ n.op = x.op /\ n.new = x.new /\ n.read = x.read
      /\ n.saw = x.saw /\ n.undo = x.undo /\ n.amount = x.amount /\ n.todo = {} /\ n.cur = x.cur
      /\ n.done = x.done /\ n.locks = x.locks /\ n.fresh = x.fresh
  <2>1. x = [f \in TxField |-> x[f]]
    BY <1>2, TxFields
  <2> QED BY <2>1 DEF TxField
<1> HIDE DEF n
<1>4. IsTx(n)
  BY <1>1, <1>2, <1>3, MakeTx, TxFields
<1>5. KindOK(n) /\ SeenOK(n)
  <2>1. KindOK(x) /\ SeenOK(x)
    BY <1>2 DEF TxOK
  <2>2. KindOK(n)
    BY <1>3, <2>1 DEF KindOK
  <2>3. SeenOK(n)
    BY <1>1, <1>3, <2>1 DEF SeenOK
  <2> QED BY <2>2, <2>3
<1>6. n.fresh => FreshOK(n)
  BY <1>2, <1>3 DEF FreshOK, TxOK
<1>7. TxOK(n)
  BY <1>4, <1>5, <1>6 DEF TxOK
<1> QED BY <1>1, <1>7, StepKeeps

LEMMA FlushKeeps ==
  ASSUME LedgerInv, NEW c \in Client, Flush(c)
  PROVE  LedgerInv'
<1> DEFINE x == tx[c]
           n == [x EXCEPT !.cur = {}, !.done = x.done \cup x.cur, !.locks = x.read]
<1>1. x.op = "corp" /\ Step(c, n)
  BY DEF Flush
<1>2. TxOK(x) /\ IsTx(x)
  BY <1>1, OpenTx
<1>3. /\ n = [f \in TxField |-> n[f]] /\ n.op = x.op /\ n.new = x.new /\ n.read = x.read
      /\ n.saw = x.saw /\ n.undo = x.undo /\ n.amount = x.amount /\ n.todo = x.todo /\ n.cur = {}
      /\ n.done = x.done \cup x.cur /\ n.locks = x.read /\ n.fresh = x.fresh
  <2>1. x = [f \in TxField |-> x[f]]
    BY <1>2, TxFields
  <2> QED BY <2>1 DEF TxField
<1> HIDE DEF n
<1>4. n.cur \cup n.done = x.cur \cup x.done
  BY <1>3
<1>5. IsTx(n)
  <2>1. n.cur \subseteq Action /\ n.done \subseteq Action
    BY <1>2, <1>3, TxFields
  <2> QED BY <1>1, <1>2, <1>3, <2>1, MakeTx, TxFields
<1>6. KindOK(n)
  BY <1>1, <1>2, <1>3, <1>4 DEF KindOK, TxOK
<1>7. SeenOK(n)
  BY <1>1, <1>2, <1>3, <1>4 DEF SeenOK, TxOK
<1>8. n.fresh => FreshOK(n)
  <2>1. n.todo \cup n.cur \cup n.done = x.todo \cup x.cur \cup x.done
    BY <1>3
  <2> QED BY <1>2, <1>3, <2>1 DEF FreshOK, TxOK
<1>9. TxOK(n)
  BY <1>5, <1>6, <1>7, <1>8 DEF TxOK
<1> QED BY <1>1, <1>9, StepKeeps

-----------------------------------------------------------------------------
(* The rows of a corporate action.                                          *)

CorpRowOf(s, side, q, v, a) ==
  TradeRow([stock |-> s, side |-> side], q, v, today, "corp_action", a)

LEMMA CorpRowFacts ==
  ASSUME NEW s \in Stock, NEW side \in Side, NEW q \in Int, NEW v \in Int, NEW a \in Action,
         today \in Day
  PROVE  LET r == CorpRowOf(s, side, q, v, a) IN
         /\ r \in Row /\ IsCorp(r) /\ r.undone = 0 /\ r.ref = a /\ r.entered = today
         /\ r.stock = s /\ r.side = side /\ r.qty = q /\ r.value = v
<1> DEFINE r == CorpRowOf(s, side, q, v, a)
<1>1. r = [stock |-> s, side |-> side, qty |-> q, value |-> v, day |-> today, entered |-> today,
           source |-> "corp_action", ref |-> a, undone |-> 0]
  BY DEF CorpRowOf, TradeRow
<1>2. a \in Nat
  BY LedgerConstants
<1>3. r \in Row
  BY <1>1, <1>2 DEF Row
<1> QED BY <1>1, <1>3 DEF IsCorp

(* What RowsFor returns: rows of the action alone, a SELL with its BUY, rows *)
(* with an effect on the balance only if it has been read, and none that      *)
(* takes more shares than are held.                                           *)
CorpRows(a, held, rows) ==
  /\ rows \in Seq(Row)
  /\ \A i \in DOMAIN rows : /\ IsCorp(rows[i]) /\ rows[i].undone = 0 /\ SignOK(rows[i])
                            /\ rows[i].ref = a /\ rows[i].entered = today
  /\ Paired(rows) /\ Single(rows)
  /\ \/ rows # <<>> /\ ActionInfo[a].kind \in {"dividend", "split"}
     \/ \A i \in DOMAIN rows : Inflow(rows[i]) = 0
  /\ \A s : \/ Sum(rows, Shares(s)) >= 0
            \/ s = ActionInfo[a].stock /\ Sum(rows, Shares(s)) >= -held

LEMMA OneCorpRow ==
  ASSUME NEW a, NEW held, NEW r \in Row, IsCorp(r), r.undone = 0, SignOK(r), r.ref = a,
         r.entered = today, r.side \in {"DIVIDEND", "CORP_ACTION"},
         ActionInfo[a].kind \in {"dividend", "split"}, r.side = "CORP_ACTION" => r.qty >= 0
  PROVE  CorpRows(a, held, <<r>>)
<1> DEFINE rows == <<r>>
<1>1. rows \in Seq(Row) /\ Len(rows) = 1 /\ rows[1] = r /\ DOMAIN rows = {1}
  BY OneRow
<1>2. \A s : Sum(rows, Shares(s)) = Shares(s)[r]
  BY SumOne, Weights
<1> HIDE DEF rows
<1>3. \A s : Shares(s)[r] >= 0
  BY DEF Shares, Moves
<1>4. Paired(rows) /\ Single(rows)
  BY <1>1 DEF Paired, Single
<1>5. rows # <<>>
  <2>1. 1 \in DOMAIN rows /\ 1 \notin DOMAIN <<>>
    BY <1>1, NoRow
  <2> QED BY <2>1, Zenon
<1>6. CorpRows(a, held, rows)
  BY <1>1, <1>2, <1>3, <1>4, <1>5 DEF CorpRows
<1> QED BY <1>6 DEF rows

LEMMA NoCorpRow ==
  ASSUME NEW a, NEW held
  PROVE  CorpRows(a, held, <<>>)
<1> DEFINE rows == <<>>
<1>1. rows \in Seq(Row) /\ DOMAIN rows = {}
  BY NoRow
<1>2. \A s : Sum(rows, Shares(s)) = 0
  BY SumNone, Weights
<1> HIDE DEF rows
<1>3. CorpRows(a, held, rows)
  BY <1>1, <1>2 DEF CorpRows, Paired, Single
<1> QED BY <1>3 DEF rows

LEMMA TwoRows ==
  ASSUME NEW r \in Row, NEW q \in Row
  PROVE  /\ <<r, q>> \in Seq(Row) /\ <<r, q>>[1] = r /\ <<r, q>>[2] = q
         /\ DOMAIN <<r, q>> = {1, 2}
         /\ \A W \in Weight : Sum(<<r, q>>, W) = W[r] + W[q]
<1> DEFINE both == <<r, q>>
<1>1. both \in Seq(Row) /\ Len(both) = 2 /\ both[1] = r /\ both[2] = q
  OBVIOUS
<1>2. 1..2 = {1, 2}
  OBVIOUS
<1>3. DOMAIN both = {1, 2}
  BY <1>1, <1>2, LenProperties
<1>4. /\ <<r>> \in Seq(Row) /\ <<q>> \in Seq(Row)
  BY OneRow
<1>5. both = <<r>> \o <<q>>
  <2> DEFINE all == <<r>> \o <<q>>
  <2>1. /\ all \in Seq(Row) /\ Len(all) = Len(<<r>>) + Len(<<q>>)
        /\ \A i \in 1..Len(<<r>>) + Len(<<q>>) :
              all[i] = IF i <= Len(<<r>>) THEN <<r>>[i] ELSE <<q>>[i - Len(<<r>>)]
    BY <1>4, ConcatProperties
  <2>2. all \in Seq(Row) /\ Len(all) = 2 /\ all[1] = r /\ all[2] = q
    BY <2>1
  <2> HIDE DEF both, all
  <2>3. \A i \in 1..2 : both[i] = all[i]
    BY <1>1, <1>2, <2>2
  <2>4. both = all
    BY <1>1, <2>2, <2>3, SeqEqual
  <2> QED BY <2>4 DEF all
<1>6. ASSUME NEW W \in Weight PROVE Sum(both, W) = W[r] + W[q]
  <2>1. Sum(<<r>> \o <<q>>, W) = Sum(<<r>>, W) + Sum(<<q>>, W)
    BY <1>4, SumConcat
  <2>2. Sum(<<r>>, W) = W[r] /\ Sum(<<q>>, W) = W[q]
    BY SumOne
  <2> QED BY <1>5, <2>1, <2>2
<1> QED BY <1>1, <1>3, <1>6

LEMMA MergerRows ==
  ASSUME NEW a, NEW held \in Nat, NEW r \in Row, NEW q \in Row,
         IsCorp(r), r.undone = 0, r.ref = a, r.entered = today, r.side = "SELL", r.qty = -held,
         r.value = 0, r.stock = ActionInfo[a].stock,
         IsCorp(q), q.undone = 0, q.ref = a, q.entered = today, q.side = "BUY", q.qty >= 0,
         q.value = 0
  PROVE  CorpRows(a, held, <<r, q>>)
<1> DEFINE rows == <<r, q>>
<1>1. /\ rows \in Seq(Row) /\ rows[1] = r /\ rows[2] = q /\ DOMAIN rows = {1, 2}
      /\ \A W \in Weight : Sum(rows, W) = W[r] + W[q]
  BY TwoRows
<1> HIDE DEF rows
<1>2. SignOK(r) /\ SignOK(q) /\ Inflow(r) = 0 /\ Inflow(q) = 0
  <2>1. SignOK(r) /\ SignOK(q)
    BY DEF SignOK
  <2>2. Inflow(r) = 0
    BY DEF Inflow
  <2>3. q.value \in Int /\ \A n \in Int : -n = 0 - n
    BY DEF Row
  <2>4. ASSUME NEW v, v = q.value PROVE Inflow(q) = 0 - v
    <3>1. Inflow(q) = -v
      BY <2>4 DEF Inflow
    <3> QED BY <2>3, <2>4, <3>1
  <2>5. Inflow(q) = 0
    BY <2>4
  <2> QED BY <2>1, <2>2, <2>5
<1>3. Paired(rows) /\ Single(rows)
  BY <1>1 DEF Paired, Single
<1>4. ASSUME NEW s
      PROVE  \/ Sum(rows, Shares(s)) >= 0
             \/ s = ActionInfo[a].stock /\ Sum(rows, Shares(s)) >= -held
  <2>1. Sum(rows, Shares(s)) = Shares(s)[r] + Shares(s)[q]
    BY <1>1, Weights
  <2>2. Shares(s)[r] = IF r.stock = s THEN -held ELSE 0
    BY DEF Shares, Moves
  <2>3. Shares(s)[q] \in Int /\ Shares(s)[q] >= 0
    BY DEF Shares, Moves, Row
  <2> QED BY <2>1, <2>2, <2>3
<1>5. CorpRows(a, held, rows)
  BY <1>1, <1>2, <1>3, <1>4 DEF CorpRows
<1> QED BY <1>5 DEF rows

LEMMA RowsForFacts ==
  ASSUME NEW a \in Action, NEW held \in Int, today \in Day,
         \A i \in DOMAIN RowsFor(a, held) : RowsFor(a, held)[i].stock \in Stock
  PROVE  CorpRows(a, held, RowsFor(a, held))
<1> DEFINE info == ActionInfo[a]
           more == (held * info.rate) \div 10
           paid == CorpRowOf(info.stock, "DIVIDEND", 0, -(info.rate * held), a)
           split == CorpRowOf(info.stock, "CORP_ACTION", more, 0, a)
           gone == CorpRowOf(info.stock, "SELL", -held, 0, a)
           come == CorpRowOf(info.into, "BUY", held * info.rate, 0, a)
<1>1. info.stock \in Stock /\ info.rate \in Nat
  BY LedgerConstants DEF Columns
<1>2. CASE held <= 0 \/ info.rate = 0
  <2>1. RowsFor(a, held) = <<>>
    BY <1>2 DEF RowsFor
  <2> QED BY <2>1, NoCorpRow
<1>3. CASE ~(held <= 0 \/ info.rate = 0)
  <2>1. held \in Nat /\ held * info.rate \in Nat /\ info.rate * held \in Nat
    BY <1>1, <1>3, Products
  <2>2. more \in Int
    BY <2>1
  <2>3. CASE info.kind = "dividend"
    <3>1. RowsFor(a, held) = <<paid>>
      BY <1>3, <2>3 DEF RowsFor, CorpRowOf
    <3>2. /\ paid \in Row /\ IsCorp(paid) /\ paid.undone = 0 /\ paid.ref = a /\ paid.entered = today
          /\ paid.side = "DIVIDEND" /\ paid.qty = 0
      <4>1. -(info.rate * held) \in Int /\ "DIVIDEND" \in Side /\ 0 \in Int
        BY <2>1 DEF Side
      <4> QED BY <1>1, <4>1, CorpRowFacts
    <3> HIDE DEF paid
    <3>3. SignOK(paid)
      BY <3>2 DEF SignOK
    <3> QED BY <2>3, <3>1, <3>2, <3>3, OneCorpRow
  <2>4. CASE info.kind = "split" /\ more > 0
    <3>1. RowsFor(a, held) = <<split>>
      BY <1>3, <2>4 DEF RowsFor, CorpRowOf
    <3>2. /\ split \in Row /\ IsCorp(split) /\ split.undone = 0 /\ split.ref = a
          /\ split.entered = today /\ split.side = "CORP_ACTION" /\ split.qty = more
      <4>1. "CORP_ACTION" \in Side /\ 0 \in Int
        BY DEF Side
      <4> HIDE DEF more
      <4> QED BY <1>1, <2>2, <4>1, CorpRowFacts
    <3> HIDE DEF split, more
    <3>3. SignOK(split) /\ split.qty >= 0
      BY <2>2, <2>4, <3>2 DEF SignOK, IsCorp
    <3> QED BY <2>4, <3>1, <3>2, <3>3, OneCorpRow
  <2>5. CASE info.kind = "merger"
    <3>1. RowsFor(a, held) = <<gone, come>>
      BY <1>3, <2>5 DEF RowsFor, CorpRowOf
    <3>2. come.stock = info.into
      BY DEF CorpRowOf, TradeRow
    <3>3. info.into \in Stock
      <4> HIDE DEF gone, come
      <4>1. 2 \in DOMAIN <<gone, come>> /\ <<gone, come>>[2] = come
        OBVIOUS
      <4> QED BY <3>1, <3>2, <4>1
    <3>4. /\ gone \in Row /\ IsCorp(gone) /\ gone.undone = 0 /\ gone.ref = a /\ gone.entered = today
          /\ gone.side = "SELL" /\ gone.qty = -held /\ gone.value = 0 /\ gone.stock = info.stock
      <4>1. -held \in Int /\ "SELL" \in Side /\ 0 \in Int
        BY DEF Side
      <4> QED BY <1>1, <4>1, CorpRowFacts
    <3>5. /\ come \in Row /\ IsCorp(come) /\ come.undone = 0 /\ come.ref = a /\ come.entered = today
          /\ come.side = "BUY" /\ come.qty = held * info.rate /\ come.value = 0
      <4>1. held * info.rate \in Int /\ "BUY" \in Side /\ 0 \in Int
        BY <2>1 DEF Side
      <4> QED BY <3>3, <4>1, CorpRowFacts
    <3> HIDE DEF gone, come
    <3>6. come.qty >= 0
      BY <2>1, <3>5
    <3> QED BY <2>1, <3>1, <3>4, <3>5, <3>6, MergerRows
  <2>6. CASE ~(info.kind = "dividend") /\ ~(info.kind = "split" /\ more > 0) /\ ~(info.kind = "merger")
    <3>1. RowsFor(a, held) = <<>>
      BY <1>3, <2>6 DEF RowsFor
    <3> QED BY <3>1, NoCorpRow
  <2> QED BY <2>3, <2>4, <2>5, <2>6
<1> QED BY <1>2, <1>3

LEMMA ApplyKeeps ==
  ASSUME LedgerInv, NEW c \in Client, NEW a \in Action, Apply(c, a)
  PROVE  LedgerInv'
<1> DEFINE x == tx[c]
           held == Held(trades \o x.new, ActionInfo[a].stock)
           rows == RowsFor(a, held)
           reads == rows # <<>> /\ ActionInfo[a].kind \in {"dividend", "split"}
           n == [x EXCEPT !.new = x.new \o rows, !.cur = {a}, !.todo = x.todo \ {a},
                          !.read = x.read \/ reads,
                          !.saw = IF reads /\ ~x.read THEN cash ELSE x.saw]
<1>1. /\ x.op = "corp" /\ x.cur = {} /\ a \in x.todo
      /\ \/ (\A i \in DOMAIN rows : rows[i].stock \in Stock) /\ Step(c, n)
         \/ Step(c, Idle)
  BY DEF Apply
<1>2. TxOK(x) /\ IsTx(x)
  BY <1>1, OpenTx
<1>3. CASE Step(c, Idle)
  BY <1>3, StepKeeps
<1>4. CASE (\A i \in DOMAIN rows : rows[i].stock \in Stock) /\ Step(c, n)
  <2>1. /\ trades \in Seq(Row) /\ today \in Day /\ cash \in Int
        /\ x.new \in Seq(Row) /\ trades \o x.new \in Seq(Row)
    <3>1. trades \in Seq(Row) /\ x.new \in Seq(Row)
      BY <1>2, TxFields DEF LedgerInv
    <3> QED BY <3>1, ConcatProperties DEF LedgerInv
  <2>2. held \in Int
    BY <2>1, HeldInt
  <2>3. CorpRows(a, held, rows)
    <3> HIDE DEF held
    <3> QED BY <1>4, <2>1, <2>2, RowsForFacts
  <2> DEFINE new == x.new \o rows
  <2> HIDE DEF rows
  <2>4. /\ rows \in Seq(Row) /\ new \in Seq(Row)
        /\ \A i \in DOMAIN new :
              \/ i \in DOMAIN x.new /\ new[i] = x.new[i]
              \/ i - Len(x.new) \in DOMAIN rows /\ new[i] = rows[i - Len(x.new)]
    <3>1. rows \in Seq(Row)
      BY <2>3 DEF CorpRows
    <3> QED BY <2>1, <3>1, ConcatAt
  <2>5. /\ n = [f \in TxField |-> n[f]] /\ n.op = "corp" /\ n.new = new
        /\ n.read = (x.read \/ reads)
        /\ n.saw = (IF reads /\ ~x.read THEN cash ELSE x.saw)
        /\ n.undo = x.undo /\ n.amount = x.amount /\ n.todo = x.todo \ {a} /\ n.cur = {a}
        /\ n.done = x.done /\ n.locks = x.locks /\ n.fresh = x.fresh
    <3>1. x = [f \in TxField |-> x[f]]
      BY <1>2, TxFields
    <3> HIDE DEF reads
    <3> QED BY <1>1, <3>1 DEF TxField
  <2> HIDE DEF n
  <2>6. a \notin x.done /\ a \notin x.cur
    BY <1>1, <1>2 DEF TxOK, SeenOK
  <2>7. IsTx(n)
    <3>1. n.read \in BOOLEAN /\ n.saw \in Int
      BY <1>2, <2>1, <2>5, TxFields
    <3>2. n.todo \subseteq Action /\ n.cur \subseteq Action /\ n.new \in Seq(Row)
      BY <1>2, <2>4, <2>5, TxFields
    <3> QED BY <1>2, <2>5, <3>1, <3>2, MakeTx, TxFields
  <2>8. \A i \in DOMAIN x.new : /\ IsCorp(x.new[i]) /\ x.new[i].undone = 0 /\ SignOK(x.new[i])
                                /\ x.new[i].ref \in x.done
                                /\ (~x.read => Inflow(x.new[i]) = 0)
    BY <1>1, <1>2 DEF TxOK, KindOK
  <2>9. Paired(new)
    BY <1>1, <1>2, <2>1, <2>3, <2>4, PairedConcat DEF CorpRows, TxOK, KindOK
  <2>10. Single(new)
    <3>1. Single(x.new) /\ Single(rows)
      BY <1>1, <1>2, <2>3 DEF CorpRows, TxOK, KindOK
    <3>2. \A i \in DOMAIN x.new : IsCorp(x.new[i]) => x.new[i].ref \in x.done
      BY <2>8
    <3>3. \A i \in DOMAIN rows : IsCorp(rows[i]) => rows[i].ref \notin x.done
      BY <2>3, <2>6 DEF CorpRows
    <3> QED BY <2>1, <2>4, <3>1, <3>2, <3>3, SingleConcat
  <2>11. KindOK(n)
    <3>1. ASSUME NEW i \in DOMAIN new
          PROVE  /\ IsCorp(new[i]) /\ new[i].undone = 0 /\ SignOK(new[i])
                 /\ new[i].ref \in n.cur \cup n.done
                 /\ (~n.read => Inflow(new[i]) = 0)
      <4>1. CASE i \in DOMAIN x.new /\ new[i] = x.new[i]
        BY <2>5, <2>8, <4>1
      <4>2. CASE i - Len(x.new) \in DOMAIN rows /\ new[i] = rows[i - Len(x.new)]
        BY <2>3, <2>5, <4>2 DEF CorpRows
      <4> QED BY <2>4, <4>1, <4>2
    <3>2. n.undo = 0 /\ n.amount = 0
      BY <1>1, <1>2, <2>5 DEF TxOK, KindOK
    <3> QED BY <2>5, <2>9, <2>10, <3>1, <3>2 DEF KindOK
  <2>12. SeenOK(n)
    <3>1. \A i \in DOMAIN new : new[i].entered <= today
      <4>1. ASSUME NEW i \in DOMAIN new PROVE new[i].entered <= today
        <5>1. today \in Nat
          BY <2>1, LedgerConstants DEF Day
        <5>2. CASE i \in DOMAIN x.new /\ new[i] = x.new[i]
          BY <1>2, <4>1, <5>2 DEF TxOK, SeenOK
        <5>3. CASE i - Len(x.new) \in DOMAIN rows /\ new[i] = rows[i - Len(x.new)]
          BY <2>3, <5>1, <5>3 DEF CorpRows
        <5> QED BY <2>4, <5>2, <5>3
      <4> QED BY <4>1
    <3>2. n.locks => n.read
      BY <1>2, <2>5 DEF TxOK, SeenOK
    <3>3. n.todo \cap (n.cur \cup n.done) = {} /\ n.cur \cap n.done = {}
      BY <1>2, <2>5, <2>6 DEF TxOK, SeenOK
    <3> QED BY <2>5, <3>1, <3>2, <3>3 DEF SeenOK
  <2>13. n.fresh => FreshOK(n)
    <3> SUFFICES ASSUME x.fresh PROVE FreshOK(n)
      BY <2>5
    <3>1. FreshOK(x)
      BY <1>2 DEF TxOK
    <3>2. (n.todo \cup n.cur \cup n.done) \cap processed = {}
      <4>1. n.todo \cup n.cur \cup n.done \subseteq x.todo \cup x.cur \cup x.done
        BY <1>1, <2>5
      <4> QED BY <3>1, <4>1 DEF FreshOK
    <3>3. n.read => n.saw = cash
      BY <2>5, <3>1 DEF FreshOK
    <3>4. ASSUME NEW s \in Stock, Held(trades, s) >= 0 PROVE Held(trades \o new, s) >= 0
      <4> DEFINE mine == trades \o x.new
      <4>1. Held(mine, s) \in Int /\ Held(mine, s) >= 0
        BY <1>1, <2>1, <3>1, <3>4, HeldInt DEF FreshOK
      <4>2. trades \o new = mine \o rows
        <5>1. trades \in Seq(Row) /\ x.new \in Seq(Row) /\ rows \in Seq(Row)
          BY <2>1, <2>4
        <5>2. trades \o (x.new \o rows) = (trades \o x.new) \o rows
          BY <5>1, RowsAssociate
        <5> QED BY <5>2
      <4>3. Held(mine \o rows, s) = Held(mine, s) + Sum(rows, Shares(s))
        BY <2>1, <2>4, HeldConcat
      <4>4. s = ActionInfo[a].stock => Held(mine, s) = held
        OBVIOUS
      <4>5. Sum(rows, Shares(s)) \in Int
        BY <2>4, SumInt, Weights
      <4>6. \/ Sum(rows, Shares(s)) >= 0
            \/ s = ActionInfo[a].stock /\ Sum(rows, Shares(s)) >= -held
        <5> HIDE DEF held
        <5> QED BY <2>3 DEF CorpRows
      <4> HIDE DEF mine, held, new
      <4> QED BY <2>2, <4>1, <4>2, <4>3, <4>4, <4>5, <4>6
    <3>5. ASSUME NEW i \in DOMAIN new, NEW j \in DOMAIN trades
          PROVE  trades[j].entered <= new[i].entered
      <4>1. CASE i \in DOMAIN x.new /\ new[i] = x.new[i]
        BY <3>1, <3>5, <4>1 DEF FreshOK
      <4>2. CASE i - Len(x.new) \in DOMAIN rows /\ new[i] = rows[i - Len(x.new)]
        BY <2>3, <3>5, <4>2, TodayLast DEF CorpRows
      <4> QED BY <2>4, <4>1, <4>2
    <3> HIDE DEF new
    <3> QED BY <2>5, <3>2, <3>3, <3>4, <3>5 DEF FreshOK
  <2>14. TxOK(n)
    BY <2>7, <2>11, <2>12, <2>13 DEF TxOK
  <2> QED BY <1>4, <2>14, StepKeeps DEF n, rows
<1> QED BY <1>1, <1>3, <1>4

-----------------------------------------------------------------------------
(* A commit.                                                                *)

(* The rows that are there, the reversed one turned over. *)
Turned(x) == IF x.undo = 0 THEN trades ELSE [trades EXCEPT ![x.undo].undone = Len(trades) + 1]

SameTrade(r, t) ==
  /\ r.stock = t.stock /\ r.side = t.side /\ r.qty = t.qty /\ r.value = t.value
  /\ r.day = t.day /\ r.entered = t.entered /\ r.source = t.source /\ r.ref = t.ref

LEMMA TurnedFacts ==
  ASSUME LedgerInv, NEW x, TxOK(x)
  PROVE  /\ Turned(x) \in Seq(Row) /\ Len(Turned(x)) = Len(trades)
         /\ DOMAIN Turned(x) = DOMAIN trades /\ Len(trades) \in Nat
         /\ DOMAIN trades = 1..Len(trades)
         /\ \A i \in DOMAIN trades :
              /\ trades[i] \in Row /\ Turned(x)[i] \in Row /\ SameTrade(Turned(x)[i], trades[i])
              /\ Turned(x)[i].undone =
                    IF x.undo # 0 /\ i = x.undo THEN Len(trades) + 1 ELSE trades[i].undone
<1>1. /\ trades \in Seq(Row) /\ Len(trades) \in Nat /\ DOMAIN trades = 1..Len(trades)
      /\ \A i \in DOMAIN trades : trades[i] \in Row
  BY LenProperties DEF LedgerInv
<1>2. CASE x.undo = 0
  BY <1>1, <1>2 DEF Turned, SameTrade
<1>3. CASE x.undo # 0
  <2> DEFINE u == x.undo
             e == [trades[u] EXCEPT !.undone = Len(trades) + 1]
  <2>1. u \in 1..Len(trades)
    BY <1>1, <1>3 DEF TxOK, KindOK, SeenOK
  <2>2. /\ e \in Row /\ SameTrade(e, trades[u]) /\ e.undone = Len(trades) + 1
    <3> DEFINE t == trades[u]
    <3>1. t \in Row /\ Len(trades) + 1 \in Nat
      BY <1>1, <2>1
    <3> HIDE DEF t
    <3>2. e = [stock |-> t.stock, side |-> t.side, qty |-> t.qty, value |-> t.value, day |-> t.day, entered |-> t.entered,
               source |-> t.source, ref |-> t.ref, undone |-> Len(trades) + 1]
      BY <3>1 DEF Row, t
    <3>3. e \in Row
      BY <3>1, <3>2 DEF Row
    <3>4. SameTrade(e, t) /\ e.undone = Len(trades) + 1
      BY <3>2 DEF SameTrade
    <3> QED BY <3>3, <3>4 DEF t
  <2>3. Turned(x) = [trades EXCEPT ![u] = e]
    BY <1>3 DEF Turned
  <2> HIDE DEF u, e
  <2>4. /\ Turned(x) \in Seq(Row) /\ Len(Turned(x)) = Len(trades)
        /\ \A j \in 1..Len(trades) : Turned(x)[j] = IF j = u THEN e ELSE trades[j]
    BY <1>1, <2>1, <2>2, <2>3, ExceptSeq
  <2>5. DOMAIN Turned(x) = DOMAIN trades
    BY <1>1, <2>4, LenProperties
  <2>6. \A i \in DOMAIN trades : SameTrade(trades[i], trades[i])
    BY DEF SameTrade
  <2>7. ASSUME NEW i \in DOMAIN trades
        PROVE  /\ Turned(x)[i] \in Row /\ SameTrade(Turned(x)[i], trades[i])
               /\ Turned(x)[i].undone =
                    IF x.undo # 0 /\ i = x.undo THEN Len(trades) + 1 ELSE trades[i].undone
    BY <1>1, <1>3, <2>2, <2>4, <2>6 DEF u
  <2> QED BY <1>1, <2>4, <2>5, <2>7
<1> QED BY <1>2, <1>3

(* What a commit does, from the transaction it commits. *)
Committed(c, x) ==
  /\ x = tx[c] /\ TxOK(x) /\ IsTx(x)
  /\ x.op \in {"trade", "reverse", "adjust"} => x.read
  /\ x.op = "corp" => x.cur = {} /\ x.todo = {}
  /\ trades' = Turned(x) \o x.new
  /\ cash' = (IF Effect(x) = 0 THEN cash ELSE x.saw + Effect(x))
  /\ deposits' = (IF x.op = "adjust" THEN Append(deposits, x.amount) ELSE deposits)
  /\ processed' = processed \cup x.done
  /\ overlapped' = (overlapped \/ ~x.fresh)
  /\ today' = today

LEMMA CommitShape ==
  ASSUME LedgerInv, NEW c \in Client, Commit(c)
  PROVE  \E x : Committed(c, x)
<1>1. tx[c] # Idle
  BY DEF Commit
<1>2. TxOK(tx[c]) /\ IsTx(tx[c])
  BY <1>1 DEF LedgerInv, TxOK
<1>3. tx[c].op \in {"trade", "reverse", "adjust", "corp", "other"}
  BY <1>2 DEF TxOK, KindOK
<1>4. Committed(c, tx[c])
  BY <1>2, <1>3 DEF Commit, Committed, Turned
<1> QED BY <1>4

LEMMA NewTrades ==
  ASSUME LedgerInv, NEW c \in Client, NEW x, Committed(c, x)
  PROVE  /\ trades' \in Seq(Row) /\ Len(trades') = Len(trades) + Len(x.new)
         /\ Len(x.new) \in Nat /\ DOMAIN trades' = 1..Len(trades')
         /\ \A i \in DOMAIN trades : i \in DOMAIN trades' /\ trades'[i] = Turned(x)[i]
         /\ \A i \in DOMAIN x.new :
              Len(trades) + i \in DOMAIN trades' /\ trades'[Len(trades) + i] = x.new[i]
         /\ \A i \in DOMAIN trades' :
              \/ i \in DOMAIN trades /\ trades'[i] = Turned(x)[i]
              \/ /\ i > Len(trades) /\ i - Len(trades) \in DOMAIN x.new
                 /\ trades'[i] = x.new[i - Len(trades)]
<1>1. TxOK(x) /\ x.new \in Seq(Row) /\ trades' = Turned(x) \o x.new
  BY TxFields DEF Committed
<1>2. /\ Turned(x) \in Seq(Row) /\ Len(Turned(x)) = Len(trades)
      /\ DOMAIN Turned(x) = DOMAIN trades
  BY <1>1, TurnedFacts
<1> DEFINE old == Turned(x)
           all == old \o x.new
<1>3. trades' = all
  BY <1>1
<1>4. old \in Seq(Row) /\ Len(old) = Len(trades) /\ DOMAIN old = DOMAIN trades
  BY <1>2
<1> HIDE DEF old
<1>5. /\ all \in Seq(Row) /\ Len(x.new) \in Nat /\ Len(all) = Len(old) + Len(x.new)
      /\ DOMAIN all = 1..Len(all)
      /\ \A i \in DOMAIN old : i \in DOMAIN all /\ all[i] = old[i]
      /\ \A i \in DOMAIN x.new : Len(old) + i \in DOMAIN all /\ all[Len(old) + i] = x.new[i]
      /\ \A i \in DOMAIN all :
            \/ i \in DOMAIN old /\ all[i] = old[i]
            \/ i > Len(old) /\ i - Len(old) \in DOMAIN x.new /\ all[i] = x.new[i - Len(old)]
  <2>1. x.new \in Seq(Row)
    BY <1>1
  <2> HIDE DEF all
  <2>2. all = old \o x.new
    BY DEF all
  <2>3. old \in Seq(Row)
    BY <1>4
  <2>4. /\ all \in Seq(Row) /\ Len(old) \in Nat /\ Len(x.new) \in Nat
        /\ Len(all) = Len(old) + Len(x.new)
        /\ DOMAIN old = 1..Len(old) /\ DOMAIN x.new = 1..Len(x.new) /\ DOMAIN all = 1..Len(all)
        /\ \A i \in DOMAIN old : old[i] \in Row
        /\ \A i \in DOMAIN x.new : x.new[i] \in Row
        /\ \A i \in DOMAIN old : i \in DOMAIN all /\ all[i] = old[i]
        /\ \A i \in DOMAIN x.new : Len(old) + i \in DOMAIN all /\ all[Len(old) + i] = x.new[i]
        /\ \A i \in DOMAIN all :
             \/ i \in DOMAIN old /\ all[i] = old[i]
             \/ i > Len(old) /\ i - Len(old) \in DOMAIN x.new /\ all[i] = x.new[i - Len(old)]
    <3> HIDE DEF old
    <3> QED BY <2>1, <2>2, <2>3, ConcatAt
  <2> QED BY <2>4
<1> HIDE DEF all
<1> QED BY <1>3, <1>4, <1>5 DEF old

LEMMA CommitReversals ==
  ASSUME LedgerInv, NEW c \in Client, NEW x, Committed(c, x)
  PROVE  ReversalInv'
<1> DEFINE L == Len(trades)
           T == trades'
<1>1. TxOK(x) /\ KindOK(x) /\ SeenOK(x) /\ IsTx(x) /\ (x.fresh => FreshOK(x))
  BY DEF Committed, TxOK
<1>2. /\ L \in Nat /\ DOMAIN trades = 1..L
      /\ \A i \in DOMAIN trades :
            /\ trades[i] \in Row /\ SameTrade(Turned(x)[i], trades[i])
            /\ Turned(x)[i].undone =
                 IF x.undo # 0 /\ i = x.undo THEN L + 1 ELSE trades[i].undone
  BY <1>1, TurnedFacts
<1>3. /\ Len(x.new) \in Nat /\ Len(T) = L + Len(x.new) /\ DOMAIN T = 1..Len(T)
      /\ \A i \in DOMAIN trades : i \in DOMAIN T /\ T[i] = Turned(x)[i]
      /\ \A i \in DOMAIN x.new : L + i \in DOMAIN T /\ T[L + i] = x.new[i]
      /\ \A i \in DOMAIN T :
            \/ i \in DOMAIN trades /\ T[i] = Turned(x)[i]
            \/ i > L /\ i - L \in DOMAIN x.new /\ T[i] = x.new[i - L]
  BY NewTrades
<1>4. DOMAIN x.new = 1..Len(x.new) /\ x.op \in {"trade", "reverse", "adjust", "corp", "other"}
  BY <1>1, TxFields DEF KindOK
<1> HIDE DEF L, T
<1>5. \A i \in DOMAIN trades :
        /\ T[i].source = trades[i].source /\ T[i].ref = trades[i].ref
        /\ T[i].undone = IF x.undo # 0 /\ i = x.undo THEN L + 1 ELSE trades[i].undone
        /\ trades[i].undone \in Nat
  BY <1>2, <1>3 DEF SameTrade, Row
(* A new row is a reversal only in a transaction that reverses. *)
<1>6. ASSUME NEW i \in DOMAIN T, i \notin DOMAIN trades
      PROVE  /\ T[i].undone = 0
             /\ T[i].source = "reversal" =>
                  /\ x.op = "reverse" /\ i = L + 1 /\ T[i].ref = x.undo
                  /\ x.undo \in DOMAIN trades /\ trades[x.undo].source # "reversal"
  <2>1. i - L \in DOMAIN x.new /\ T[i] = x.new[i - L] /\ i \in Int /\ i > L
    BY <1>2, <1>3, <1>6
  <2>2. x.op \notin {"adjust", "other"}
    BY <1>1, <2>1, NoRow DEF KindOK
  <2>3. CASE x.op = "trade"
    <3>1. i - L = 1
      BY <1>1, <1>4, <2>1, <2>3 DEF KindOK
    <3> QED BY <1>1, <2>1, <2>3, <3>1 DEF KindOK
  <2>4. CASE x.op = "reverse"
    <3>1. i - L = 1
      BY <1>1, <1>4, <2>1, <2>4 DEF KindOK
    <3>2. i = L + 1
      BY <1>2, <2>1, <3>1
    <3> QED BY <1>1, <2>1, <2>4, <3>1, <3>2 DEF KindOK, SeenOK
  <2>5. CASE x.op = "corp"
    BY <1>1, <2>1, <2>5 DEF KindOK, IsCorp
  <2> QED BY <1>4, <2>2, <2>3, <2>4, <2>5
<1>7. x.undo # 0 =>
        /\ x.op = "reverse" /\ x.undo \in DOMAIN trades
        /\ L + 1 \in DOMAIN T /\ T[L + 1].source = "reversal" /\ T[L + 1].ref = x.undo
  <2> SUFFICES ASSUME x.undo # 0
               PROVE  /\ x.op = "reverse" /\ x.undo \in DOMAIN trades
                      /\ L + 1 \in DOMAIN T /\ T[L + 1].source = "reversal"
                      /\ T[L + 1].ref = x.undo
    OBVIOUS
  <2>1. x.op = "reverse" /\ x.undo \in DOMAIN trades
    BY <1>1 DEF KindOK, SeenOK
  <2>2. 1 \in DOMAIN x.new /\ x.new[1].source = "reversal" /\ x.new[1].ref = x.undo
    BY <1>1, <1>4, <2>1 DEF KindOK
  <2> QED BY <1>3, <2>1, <2>2
<1>8. overlapped' = (overlapped \/ ~x.fresh) /\ overlapped \in BOOLEAN /\ x.fresh \in BOOLEAN
  BY <1>1, TxFields DEF Committed, LedgerInv
<1>9. ASSUME NEW j \in DOMAIN T, T[j].source = "reversal"
      PROVE  /\ T[j].ref \in 1..(j - 1) /\ T[T[j].ref].source # "reversal"
             /\ j <= T[T[j].ref].undone
             /\ ~overlapped' => j = T[T[j].ref].undone
  <2>1. CASE j \in DOMAIN trades
    <3> DEFINE i == trades[j].ref
    <3>1. /\ T[j].ref = i /\ trades[j].source = "reversal"
      BY <1>5, <1>9, <2>1
    <3>2. /\ i \in 1..(j - 1) /\ trades[i].source # "reversal" /\ j <= trades[i].undone
          /\ ~overlapped => j = trades[i].undone
      BY <2>1, <3>1 DEF LedgerInv, ReversalInv
    <3> HIDE DEF i
    <3>3. i \in DOMAIN trades /\ j \in Nat /\ j <= L /\ j > 0
      BY <1>2, <2>1, <3>2
    <3>4. T[i].source # "reversal"
      BY <1>5, <3>2, <3>3
    <3>5. CASE x.undo # 0 /\ i = x.undo
      <4>1. T[i].undone = L + 1
        BY <1>5, <3>3, <3>5
      <4>2. overlapped'
        <5> SUFFICES ASSUME ~overlapped' PROVE FALSE
          OBVIOUS
        <5>1. x.fresh /\ ~overlapped
          BY <1>8
        <5>2. trades[i].undone = 0
          BY <1>1, <1>7, <3>5, <5>1 DEF FreshOK
        <5> QED BY <3>2, <3>3, <5>1, <5>2
      <4> QED BY <1>2, <3>1, <3>2, <3>3, <3>4, <4>1, <4>2
    <3>6. CASE ~(x.undo # 0 /\ i = x.undo)
      <4>1. T[i].undone = trades[i].undone
        BY <1>5, <3>3, <3>6
      <4>2. ~overlapped' => ~overlapped
        BY <1>8
      <4> QED BY <3>1, <3>2, <3>4, <4>1, <4>2
    <3> QED BY <3>5, <3>6
  <2>2. CASE j \notin DOMAIN trades
    <3>1. /\ x.op = "reverse" /\ j = L + 1 /\ T[j].ref = x.undo
          /\ x.undo \in DOMAIN trades /\ trades[x.undo].source # "reversal"
      BY <1>6, <1>9, <2>2
    <3>2. x.undo # 0 /\ x.undo \in 1..(j - 1)
      BY <1>2, <3>1
    <3>3. T[x.undo].undone = L + 1 /\ T[x.undo].source # "reversal"
      BY <1>5, <3>1, <3>2
    <3> QED BY <1>2, <3>1, <3>2, <3>3
  <2> QED BY <2>1, <2>2
<1>10. ASSUME NEW i \in DOMAIN T, T[i].undone # 0
       PROVE  /\ T[i].undone \in DOMAIN T
              /\ T[T[i].undone].source = "reversal" /\ T[T[i].undone].ref = i
  <2>1. i \in DOMAIN trades
    BY <1>6, <1>10
  <2>2. CASE x.undo # 0 /\ i = x.undo
    BY <1>5, <1>7, <2>1, <2>2
  <2>3. CASE ~(x.undo # 0 /\ i = x.undo)
    <3> DEFINE j == trades[i].undone
    <3>1. T[i].undone = j
      BY <1>5, <2>1, <2>3
    <3>2. j \in DOMAIN trades /\ trades[j].source = "reversal" /\ trades[j].ref = i
      BY <1>10, <2>1, <3>1 DEF LedgerInv, ReversalInv, ReversalsOf
    <3> HIDE DEF j
    <3> QED BY <1>3, <1>5, <3>1, <3>2
  <2> QED BY <2>2, <2>3
<1> QED BY <1>9, <1>10 DEF ReversalInv, ReversalsOf, T

LEMMA CommitCorp ==
  ASSUME LedgerInv, NEW c \in Client, NEW x, Committed(c, x)
  PROVE  CorpInv'
<1> DEFINE old == Turned(x)
<1>1. TxOK(x) /\ KindOK(x) /\ SeenOK(x) /\ IsTx(x) /\ (x.fresh => FreshOK(x))
  BY DEF Committed, TxOK
<1>2. /\ old \in Seq(Row) /\ DOMAIN old = DOMAIN trades
      /\ \A i \in DOMAIN trades : SameTrade(old[i], trades[i])
  BY <1>1, TurnedFacts
<1>3. /\ x.new \in Seq(Row) /\ DOMAIN x.new = 1..Len(x.new) /\ trades' = old \o x.new
      /\ x.op \in {"trade", "reverse", "adjust", "corp", "other"}
  BY <1>1, TxFields DEF Committed, KindOK
<1> HIDE DEF old
<1>4. /\ processed' = processed \cup x.done
      /\ \A i \in DOMAIN trades : IsCorp(trades[i]) => trades[i].ref \in processed
  BY DEF Committed, LedgerInv, CorpInv
<1>5. ASSUME x.op # "corp", NEW i \in DOMAIN x.new PROVE ~IsCorp(x.new[i])
  <2>1. x.op \notin {"adjust", "other"}
    BY <1>1, <1>5, NoRow DEF KindOK
  <2>2. i = 1
    BY <1>1, <1>3, <1>5, <2>1 DEF KindOK
  <2> QED BY <1>1, <1>3, <1>5, <2>1, <2>2 DEF KindOK, IsCorp
<1>6. Paired(x.new) /\ Single(x.new)
  BY <1>1, <1>5 DEF KindOK, Paired, Single
<1>7. \A i \in DOMAIN x.new : IsCorp(x.new[i]) => x.new[i].ref \in x.done
  <2>1. CASE x.op = "corp"
    <3>1. x.cur = {}
      BY <2>1 DEF Committed
    <3> QED BY <1>1, <2>1, <3>1 DEF KindOK
  <2> QED BY <1>5, <2>1
<1>8. Paired(old) /\ (~overlapped => Single(old))
  <2>1. \A i \in DOMAIN trades : /\ IsCorp(old[i]) <=> IsCorp(trades[i])
                                 /\ old[i].side = trades[i].side /\ old[i].ref = trades[i].ref
    BY <1>2 DEF SameTrade, IsCorp
  <2>2. Paired(old)
    <3>1. Paired(trades)
      BY DEF LedgerInv, CorpInv
    <3> QED BY <1>2, <2>1, <3>1 DEF Paired
  <2>3. ~overlapped => Single(old)
    <3>1. ~overlapped => Single(trades)
      BY DEF LedgerInv, CorpInv
    <3> QED BY <1>2, <2>1, <3>1 DEF Single
  <2> QED BY <2>2, <2>3
<1>9. \A i \in DOMAIN old : IsCorp(old[i]) => old[i].ref \in processed
  BY <1>2, <1>4 DEF SameTrade, IsCorp
<1>10. Paired(old \o x.new)
  BY <1>2, <1>3, <1>6, <1>8, PairedConcat
<1>11. ~overlapped' => Single(old \o x.new)
  <2> SUFFICES ASSUME ~overlapped' PROVE Single(old \o x.new)
    OBVIOUS
  <2>1. x.fresh /\ ~overlapped
    <3>1. overlapped' = (overlapped \/ ~x.fresh) /\ overlapped \in BOOLEAN /\ x.fresh \in BOOLEAN
      BY <1>1, TxFields DEF Committed, LedgerInv
    <3> QED BY <3>1
  <2>2. x.done \cap processed = {}
    BY <1>1, <2>1 DEF FreshOK
  <2>3. \A i \in DOMAIN x.new : IsCorp(x.new[i]) => x.new[i].ref \notin processed
    BY <1>7, <2>2
  <2> QED BY <1>2, <1>3, <1>6, <1>8, <1>9, <2>1, <2>3, SingleConcat
<1>12. \A i \in DOMAIN (old \o x.new) :
          IsCorp((old \o x.new)[i]) => (old \o x.new)[i].ref \in processed \cup x.done
  <2> DEFINE all == old \o x.new
  <2>1. \A i \in DOMAIN all :
            \/ i \in DOMAIN old /\ all[i] = old[i]
            \/ i - Len(old) \in DOMAIN x.new /\ all[i] = x.new[i - Len(old)]
    BY <1>2, <1>3, ConcatAt
  <2> HIDE DEF all
  <2>2. \A i \in DOMAIN all : IsCorp(all[i]) => all[i].ref \in processed \cup x.done
    BY <1>7, <1>9, <2>1
  <2> QED BY <2>2 DEF all
<1> QED BY <1>3, <1>4, <1>10, <1>11, <1>12 DEF CorpInv, Paired, Single

LEMMA CommitRows ==
  ASSUME LedgerInv, NEW c \in Client, NEW x, Committed(c, x)
  PROVE  RowInv'
<1>1. TxOK(x) /\ KindOK(x) /\ SeenOK(x) /\ IsTx(x)
  BY DEF Committed, TxOK
<1>2. \A i \in DOMAIN trades : SameTrade(Turned(x)[i], trades[i])
  BY <1>1, TurnedFacts
<1>3. /\ today' = today /\ x.op \in {"trade", "reverse", "adjust", "corp", "other"}
      /\ DOMAIN x.new = 1..Len(x.new)
  BY <1>1, TxFields DEF Committed, KindOK
<1>4. \A i \in DOMAIN trades' :
              \/ i \in DOMAIN trades /\ trades'[i] = Turned(x)[i]
              \/ i - Len(trades) \in DOMAIN x.new /\ trades'[i] = x.new[i - Len(trades)]
  BY NewTrades
<1>5. ASSUME NEW i \in DOMAIN x.new
      PROVE  SignOK(x.new[i]) /\ x.new[i].entered <= today
  <2>1. x.op \notin {"adjust", "other"}
    BY <1>1, NoRow DEF KindOK
  <2>2. x.op \in {"trade", "reverse"} => i = 1
    <3>1. x.op \in {"trade", "reverse"} => Len(x.new) = 1
      BY <1>1 DEF KindOK
    <3>2. i \in 1..Len(x.new)
      BY <1>3
    <3>3. Len(x.new) = 1 => i = 1
      BY <3>2
    <3> QED BY <3>1, <3>3
  <2> QED BY <1>1, <1>3, <2>1, <2>2 DEF KindOK, SeenOK
<1>6. ASSUME NEW i \in DOMAIN trades', NEW t, t = trades'[i]
      PROVE  SignOK(t) /\ t.entered <= today
  <2>1. CASE i \in DOMAIN trades /\ t = Turned(x)[i]
    <3>1. SignOK(trades[i]) /\ trades[i].entered <= today
      BY <2>1 DEF LedgerInv, RowInv
    <3>2. SameTrade(t, trades[i])
      BY <1>2, <2>1
    <3> QED BY <3>1, <3>2 DEF SignOK, SameTrade
  <2>2. CASE i - Len(trades) \in DOMAIN x.new /\ t = x.new[i - Len(trades)]
    BY <1>5, <2>2
  <2> QED BY <1>4, <1>6, <2>1, <2>2
<1>7. \A i \in DOMAIN trades' :
        SignOK(trades'[i]) /\ trades'[i].entered <= today'
  BY <1>3, <1>6
<1> QED BY <1>7 DEF RowInv

(* The transactions that stay open know that one has committed. *)
LEMMA CommitOthers ==
  ASSUME LedgerInv, NEW c \in Client, Commit(c)
  PROVE  /\ (tx = [d \in Client |-> tx[d]])'
         /\ \A d \in Client : (tx[d] = Idle \/ TxOK(tx[d]))'
<1>1. PICK x : Committed(c, x)
  BY CommitShape
<1>2. tx' = [d \in Client |-> CASE d = c -> Idle
                               [] d # c /\ tx[d] = Idle -> Idle
                               [] OTHER -> [tx[d] EXCEPT !.fresh = FALSE]]
  BY DEF Commit
<1>3. TxOK(x)
  BY <1>1 DEF Committed
<1>4. /\ DOMAIN Turned(x) = DOMAIN trades
      /\ \A i \in DOMAIN trades : SameTrade(Turned(x)[i], trades[i])
  BY <1>3, TurnedFacts
<1>5. \A i \in DOMAIN trades : i \in DOMAIN trades' /\ trades'[i] = Turned(x)[i]
  BY <1>1, NewTrades
<1>6. \A i \in DOMAIN trades : i \in DOMAIN trades' /\ trades'[i].source = trades[i].source
  BY <1>4, <1>5 DEF SameTrade
<1>7. ASSUME NEW d \in Client PROVE (tx[d] = Idle \/ TxOK(tx[d]))'
  <2>1. CASE d = c \/ tx[d] = Idle
    BY <1>2, <2>1
  <2>2. CASE ~(d = c \/ tx[d] = Idle)
    <3> DEFINE y == tx[d]
               n == [y EXCEPT !.fresh = FALSE]
    <3>1. (tx[d])' = n
      BY <1>2, <2>2
    <3>2. TxOK(y) /\ IsTx(y)
      BY <2>2 DEF LedgerInv, TxOK
    <3>3. /\ n = [f \in TxField |-> n[f]] /\ n.op = y.op /\ n.new = y.new /\ n.read = y.read
          /\ n.saw = y.saw /\ n.undo = y.undo /\ n.amount = y.amount /\ n.todo = y.todo
          /\ n.cur = y.cur /\ n.done = y.done /\ n.locks = y.locks /\ n.fresh = FALSE
      <4>1. y = [f \in TxField |-> y[f]]
        BY <3>2, TxFields
      <4> QED BY <4>1 DEF TxField
    <3> HIDE DEF n
    <3>4. IsTx(n)
      <4>1. n.fresh \in BOOLEAN /\ y.op \in {"trade", "reverse", "adjust", "corp", "other"}
        BY <3>2, <3>3 DEF TxOK, KindOK
      <4> QED BY <3>2, <3>3, <4>1, MakeTx, TxFields
    <3>5. KindOK(n)
      BY <3>2, <3>3 DEF TxOK, KindOK
    <3>6. today' = today
      BY <1>1 DEF Committed
    <3>7. /\ n.locks => n.read
          /\ n.todo \cap (n.cur \cup n.done) = {} /\ n.cur \cap n.done = {}
          /\ n.op = "reverse" => n.undo \in DOMAIN trades' /\ trades'[n.undo].source # "reversal"
          /\ n.op = "trade" /\ n.read /\ n.new[1].side = "BUY" => n.saw >= n.new[1].value
          /\ \A i \in DOMAIN n.new : n.new[i].entered <= today'
      <4>1. SeenOK(y)
        BY <3>2 DEF TxOK
      <4> QED BY <1>6, <3>3, <3>6, <4>1 DEF SeenOK
    <3>8. ~n.fresh
      BY <3>3
    <3>9. IsTx(tx[d])' /\ KindOK(tx[d])' /\ ~(tx[d].fresh)'
      BY <3>1, <3>4, <3>5, <3>8
    <3>10. SeenOK(tx[d])'
      BY <3>1, <3>7 DEF SeenOK
    <3> QED BY <3>9, <3>10 DEF TxOK
  <2> QED BY <2>1, <2>2
<1>8. tx' = [d \in Client |-> tx'[d]]
  BY <1>2
<1> QED BY <1>7, <1>8

(* Rows that weigh nothing. *)
LEMMA SumZero ==
  ASSUME NEW rows \in Seq(Row), NEW W \in Weight, \A i \in DOMAIN rows : W[rows[i]] = 0
  PROVE  Sum(rows, W) = 0
<1>1. Sum(rows, W) = Sum(rows, W) + Sum(rows, W)
  BY SumPlus
<1>2. Sum(rows, W) \in Int
  BY SumInt
<1> QED BY <1>1, <1>2

LEMMA SumPositive ==
  ASSUME NEW rows \in Seq(Row), NEW W \in Weight, \A i \in DOMAIN rows : W[rows[i]] >= 0
  PROVE  Sum(rows, W) >= 0
<1> DEFINE Z == [t \in Row |-> 0]
<1>1. Z \in Weight /\ \A i \in DOMAIN rows : rows[i] \in Row
  BY LenProperties DEF Weight
<1>2. \A i \in DOMAIN rows : Z[rows[i]] = 0 /\ Z[rows[i]] <= W[rows[i]]
  BY <1>1
<1> HIDE DEF Z
<1>3. Sum(rows, Z) = 0 /\ Sum(rows, Z) <= Sum(rows, W)
  BY <1>1, <1>2, SumZero, SumAtMost
<1> QED BY <1>3

LEMMA SumLike ==
  ASSUME NEW r \in Seq(Row), NEW m \in Seq(Row), NEW W \in Weight, DOMAIN r = DOMAIN m,
         \A i \in DOMAIN r : W[r[i]] = W[m[i]]
  PROVE  Sum(r, W) = Sum(m, W)
<1>1. Weighed(r, W) = Weighed(m, W)
  BY DEF Weighed
<1> QED BY <1>1 DEF Sum

(* The balance takes what the transaction does, if it had seen the balance. *)
LEMMA CommitCash ==
  ASSUME LedgerInv, NEW c \in Client, NEW x, Committed(c, x)
  PROVE  CashSum' /\ cash' \in Int /\ deposits' \in Seq(Int)
<1> DEFINE old == Turned(x)
           W == LastingEffect
           u == x.undo
<1>1. /\ TxOK(x) /\ KindOK(x) /\ SeenOK(x) /\ IsTx(x) /\ (x.fresh => FreshOK(x))
      /\ x.op \in {"trade", "reverse", "adjust", "corp", "other"}
  BY DEF Committed, TxOK, KindOK
<1>2. /\ old \in Seq(Row) /\ DOMAIN old = DOMAIN trades /\ Len(old) = Len(trades)
      /\ \A i \in DOMAIN trades :
            /\ trades[i] \in Row /\ old[i] \in Row /\ SameTrade(old[i], trades[i])
            /\ old[i].undone = IF x.undo # 0 /\ i = x.undo THEN Len(trades) + 1 ELSE trades[i].undone
      /\ Len(trades) \in Nat /\ DOMAIN trades = 1..Len(trades)
  BY <1>1, TurnedFacts
<1>3. /\ x.new \in Seq(Row) /\ \A i \in DOMAIN x.new : x.new[i] \in Row
      /\ x.amount \in Int /\ x.saw \in Int /\ x.undo \in Nat /\ Len(x.new) \in Nat
      /\ DOMAIN x.new = 1..Len(x.new)
  BY <1>1, TxFields
<1>4. trades \in Seq(Row) /\ cash \in Int /\ deposits \in Seq(Int)
  BY DEF LedgerInv
<1>5. trades' = old \o x.new
  BY DEF Committed
<1> HIDE DEF old
<1>6. SumOver(x.new, Inflow) = Sum(x.new, BalanceEffect) /\ Sum(x.new, BalanceEffect) \in Int
  BY <1>3, NewInflow, SumInt, MoreWeights
<1>7. x.undo # 0 => /\ x.op = "reverse" /\ u \in DOMAIN trades
                    /\ Inflow(trades[u]) \in Int /\ trades[u].source # "reversal"
  BY <1>1, <1>2, InflowInt DEF KindOK, SeenOK
<1>8. Effect(x) = x.amount + (IF u > 0 THEN -Inflow(trades[u]) ELSE Sum(x.new, BalanceEffect))
  BY <1>6 DEF Effect
<1>9. Effect(x) \in Int
  BY <1>3, <1>6, <1>7, <1>8
<1>10. cash' \in Int
  BY <1>3, <1>4, <1>9 DEF Committed
<1>11. deposits' \in Seq(Int) /\ Total(deposits') = Total(deposits) + x.amount
  <2>1. CASE x.op = "adjust"
    <3>1. deposits' = Append(deposits, x.amount)
      BY <2>1 DEF Committed
    <3>2. <<x.amount>> \in Seq(Int) /\ Total(<<x.amount>>) = x.amount
      BY <1>3, OneRow, TotalOne
    <3>3. Append(deposits, x.amount) = deposits \o <<x.amount>>
      BY <1>3, <1>4, AppendIsConcat
    <3>4. /\ deposits \o <<x.amount>> \in Seq(Int)
          /\ Total(deposits \o <<x.amount>>) = Total(deposits) + Total(<<x.amount>>)
      BY <1>4, <3>2, ConcatProperties, TotalConcat
    <3> QED BY <3>1, <3>2, <3>3, <3>4
  <2>2. CASE x.op # "adjust"
    <3>1. deposits' = deposits /\ x.amount = 0
      BY <1>1, <2>2 DEF Committed, KindOK
    <3> QED BY <1>4, <3>1, TotalInt
  <2> QED BY <2>1, <2>2
<1>12. CashSum'
  <2> SUFFICES ASSUME ~overlapped'
               PROVE  cash' = Total(deposits') + Sum(trades', W)
    BY DEF CashSum, LastingEffect, Sum, Weighed, InForce, Inflow
  <2>1. ~overlapped /\ x.fresh /\ FreshOK(x)
    <3>1. overlapped' = (overlapped \/ ~x.fresh) /\ overlapped \in BOOLEAN /\ x.fresh \in BOOLEAN
      BY <1>1, TxFields DEF Committed, LedgerInv
    <3> QED BY <1>1, <3>1
  <2>2. cash = Total(deposits) + Sum(trades, W)
    BY <1>4, <2>1, InSums DEF LedgerInv, CashSum
  <2>3. /\ W \in Weight /\ BalanceEffect \in Weight
        /\ \A t \in Row : /\ W[t] = IF InForce(t) THEN Inflow(t) ELSE 0
                          /\ BalanceEffect[t] = Inflow(t)
    BY MoreWeights DEF LastingEffect, BalanceEffect
  <2> HIDE DEF W
  <2>4. Sum(trades', W) = Sum(old, W) + Sum(x.new, W)
    BY <1>2, <1>3, <1>5, <2>3, SumConcat
  <2>5. /\ Sum(old, W) \in Int /\ Sum(x.new, W) \in Int /\ Sum(trades, W) \in Int
        /\ Total(deposits) \in Int
    BY <1>2, <1>3, <1>4, <2>3, SumInt, TotalInt
  <2>6. cash' = cash + Effect(x)
    <3>1. CASE Effect(x) = 0
      BY <1>4, <3>1 DEF Committed
    <3>2. CASE Effect(x) # 0
      <4>1. x.read
        <5> SUFFICES ASSUME ~x.read PROVE FALSE
          BY <1>1, TxFields
        <5>1. x.op \in {"corp", "other"}
          BY <1>1 DEF Committed
        <5>2. \A i \in DOMAIN x.new : BalanceEffect[x.new[i]] = 0
          BY <1>1, <1>3, <2>3, <5>1, NoRow DEF KindOK
        <5>3. Sum(x.new, BalanceEffect) = 0
          BY <1>3, <2>3, <5>2, SumZero
        <5>4. x.amount = 0 /\ x.undo = 0
          BY <1>1, <5>1 DEF KindOK
        <5> QED BY <1>8, <3>2, <5>3, <5>4
      <4>2. x.saw = cash
        BY <2>1, <4>1 DEF FreshOK
      <4> QED BY <3>2, <4>2 DEF Committed
    <3> QED BY <3>1, <3>2
  <2>7. Effect(x) = x.amount + (Sum(old, W) - Sum(trades, W)) + Sum(x.new, W)
    <3>1. CASE x.undo = 0
      <4>1. \A i \in DOMAIN old : W[old[i]] = W[trades[i]]
        <5>1. \A i \in DOMAIN trades :
                InForce(old[i]) = InForce(trades[i]) /\ Inflow(old[i]) = Inflow(trades[i])
          BY <1>2, <3>1 DEF InForce, Inflow, SameTrade
        <5> QED BY <1>2, <2>3, <5>1
      <4>2. Sum(old, W) = Sum(trades, W)
        BY <1>2, <1>4, <2>3, <4>1, SumLike
      <4>3. \A i \in DOMAIN x.new : x.new[i].undone = 0 /\ x.new[i].source # "reversal"
        <5> SUFFICES ASSUME NEW i \in DOMAIN x.new
                     PROVE  x.new[i].undone = 0 /\ x.new[i].source # "reversal"
          OBVIOUS
        <5>1. x.op \notin {"adjust", "other"}
          BY <1>1, NoRow DEF KindOK
        <5>2. x.op # "reverse"
          BY <1>1, <1>2, <3>1 DEF KindOK, SeenOK
        <5>3. x.op = "trade" => i = 1
          BY <1>1, <1>3 DEF KindOK
        <5> QED BY <1>1, <5>1, <5>2, <5>3 DEF KindOK, IsCorp
      <4>4. \A i \in DOMAIN x.new : W[x.new[i]] = BalanceEffect[x.new[i]]
        BY <1>3, <2>3, <4>3 DEF InForce
      <4>5. Sum(x.new, W) = Sum(x.new, BalanceEffect)
        BY <1>3, <2>3, <4>4, SumSame
      <4>6. Effect(x) = x.amount + Sum(x.new, W)
        BY <1>8, <3>1, <4>5
      <4> QED BY <1>3, <2>5, <4>2, <4>6
    <3>2. CASE x.undo # 0
      <4>1. trades[u].undone = 0
        BY <1>7, <2>1, <3>2 DEF FreshOK
      <4>2. W[trades[u]] = Inflow(trades[u])
        BY <1>2, <1>7, <2>3, <3>2, <4>1 DEF InForce
      <4>3. W[old[u]] = 0
        <5>1. old[u] \in Row /\ old[u].undone = Len(trades) + 1
          BY <1>2, <1>7, <3>2
        <5>2. ~InForce(old[u])
          BY <1>2, <5>1 DEF InForce
        <5> QED BY <2>3, <5>1, <5>2
      <4>4. ASSUME NEW i \in DOMAIN trades, i # u PROVE W[old[i]] = W[trades[i]]
        <5>1. InForce(old[i]) = InForce(trades[i]) /\ Inflow(old[i]) = Inflow(trades[i])
          BY <1>2, <4>4 DEF InForce, Inflow, SameTrade
        <5> QED BY <1>2, <2>3, <5>1
      <4>5. Sum(old, W) = Sum(trades, W) + (W[old[u]] - W[trades[u]])
        BY <1>2, <1>4, <1>7, <2>3, <3>2, <4>4, SumExcept
      <4>6. Sum(x.new, W) = 0
        <5>1. \A i \in DOMAIN x.new : x.new[i].source = "reversal"
          BY <1>1, <1>3, <1>7, <3>2 DEF KindOK
        <5>2. \A i \in DOMAIN x.new : W[x.new[i]] = 0
          BY <1>3, <2>3, <5>1 DEF InForce
        <5> QED BY <1>3, <2>3, <5>2, SumZero
      <4>7. x.amount = 0
        BY <1>1, <1>7, <3>2 DEF KindOK
      <4>8. Effect(x) = x.amount - Inflow(trades[u])
        BY <1>3, <1>7, <1>8, <3>2
      <4> QED BY <1>7, <2>5, <3>2, <4>2, <4>3, <4>5, <4>6, <4>7, <4>8
    <3> QED BY <3>1, <3>2
  <2>8. (Total(deposits) + Sum(trades, W)) + (x.amount + (Sum(old, W) - Sum(trades, W)) + Sum(x.new, W))
          = (Total(deposits) + x.amount) + (Sum(old, W) + Sum(x.new, W))
    <3>1. x.amount \in Int
      BY <1>3
    <3> QED BY <2>5, <3>1, Settle
  <2>9. cash' = (Total(deposits) + Sum(trades, W))
                  + (x.amount + (Sum(old, W) - Sum(trades, W)) + Sum(x.new, W))
    BY <2>2, <2>6, <2>7
  <2>10. Total(deposits') + Sum(trades', W) = (Total(deposits) + x.amount) + (Sum(old, W) + Sum(x.new, W))
    BY <1>11, <2>4
  <2> QED BY <2>8, <2>9, <2>10
<1> QED BY <1>10, <1>11, <1>12

(* How the shares of a stock divide on the last day of the ledger. *)
LEMMA Divided ==
  ASSUME NEW rows \in Seq(Row), NEW s, NEW d \in Day, \A i \in DOMAIN rows : SignOK(rows[i]),
         \A i \in DOMAIN rows : rows[i].stock = s => rows[i].day <= d
  PROVE  Sum(rows, Sold(s, d)) + Sum(rows, Shares(s))
           <= Sum(rows, Before(s, d)) + Sum(rows, Bought(s, d)) + Sum(rows, Granted(s, d))
<1> DEFINE Left == [t \in Row |-> Sold(s, d)[t] + Shares(s)[t]]
           Some == [t \in Row |-> Before(s, d)[t] + Bought(s, d)[t]]
           Right == [t \in Row |-> Some[t] + Granted(s, d)[t]]
<1>1. /\ Sold(s, d) \in Weight /\ Shares(s) \in Weight /\ Before(s, d) \in Weight
      /\ Bought(s, d) \in Weight /\ Granted(s, d) \in Weight
  BY Weights, MoreWeights
<1>2. \A i \in DOMAIN rows : rows[i] \in Row
  BY LenProperties
<1>3. Left \in Weight /\ Some \in Weight
  BY <1>1 DEF Weight
<1>4. Right \in Weight
  BY <1>1, <1>3 DEF Weight
<1>5. ASSUME NEW t \in Row, SignOK(t), t.stock = s => t.day <= d
      PROVE  Left[t] <= Right[t]
  <2>1. t.side \in {"BUY", "SELL", "DIVIDEND", "CORP_ACTION"} /\ t.qty \in Int /\ t.day \in Nat
        /\ t.source \in {"manual", "corp_action", "reversal"} /\ d \in Nat
    BY LedgerConstants DEF Row, Side, Day
  <2>2. Left[t] = Sold(s, d)[t] + Shares(s)[t]
    OBVIOUS
  <2>3. Right[t] = Before(s, d)[t] + Bought(s, d)[t] + Granted(s, d)[t]
    OBVIOUS
  <2> HIDE DEF Left, Right
  <2>4. Shares(s)[t] = IF t.stock = s THEN IF t.side = "DIVIDEND" THEN 0 ELSE t.qty ELSE 0
    BY DEF Shares, Moves
  <2>5. Sold(s, d)[t] = IF t.stock = s /\ t.day = d /\ t.source = "manual" /\ t.side = "SELL"
                        THEN -t.qty ELSE 0
    BY DEF Sold
  <2>6. Before(s, d)[t] = IF t.stock = s /\ t.day < d THEN t.qty ELSE 0
    BY DEF Before
  <2>7. Bought(s, d)[t] = IF t.stock = s /\ t.side = "BUY" /\ t.day = d THEN t.qty ELSE 0
    BY DEF Bought
  <2>8. Granted(s, d)[t] =
          IF t.stock = s /\ t.day = d /\ t.source # "reversal" /\ t.side = "CORP_ACTION"
          THEN t.qty ELSE 0
    BY DEF Granted
  <2>9. CASE t.stock # s
    BY <2>2, <2>3, <2>4, <2>5, <2>6, <2>7, <2>8, <2>9
  <2>10. CASE t.stock = s /\ t.day < d
    <3>1. Shares(s)[t] = t.qty
      BY <1>5, <2>4, <2>10 DEF SignOK
    <3>2. Sold(s, d)[t] = 0 /\ Before(s, d)[t] = t.qty /\ Bought(s, d)[t] = 0
          /\ Granted(s, d)[t] = 0
      BY <2>1, <2>5, <2>6, <2>7, <2>8, <2>10
    <3> QED BY <2>1, <2>2, <2>3, <3>1, <3>2
  <2>11. CASE t.stock = s /\ t.day = d
    <3>1. Before(s, d)[t] = 0
      BY <2>1, <2>6, <2>11
    <3>2. CASE t.side = "BUY"
      BY <2>1, <2>2, <2>3, <2>4, <2>5, <2>7, <2>8, <2>11, <3>1, <3>2
    <3>3. CASE t.side = "SELL"
      <4>1. Shares(s)[t] = t.qty /\ Bought(s, d)[t] = 0 /\ Granted(s, d)[t] = 0 /\ t.qty <= 0
        BY <1>5, <2>4, <2>7, <2>8, <2>11, <3>3 DEF SignOK
      <4>2. Sold(s, d)[t] = -t.qty \/ Sold(s, d)[t] = 0
        BY <2>5
      <4> QED BY <2>1, <2>2, <2>3, <3>1, <4>1, <4>2
    <3>4. CASE t.side = "DIVIDEND"
      BY <2>1, <2>2, <2>3, <2>4, <2>5, <2>7, <2>8, <2>11, <3>1, <3>4
    <3>5. CASE t.side = "CORP_ACTION"
      <4>1. Shares(s)[t] = t.qty /\ Bought(s, d)[t] = 0 /\ Sold(s, d)[t] = 0
        BY <2>4, <2>5, <2>7, <2>11, <3>5
      <4>2. Granted(s, d)[t] = t.qty \/ (Granted(s, d)[t] = 0 /\ t.qty <= 0)
        BY <1>5, <2>8, <2>11, <3>5 DEF SignOK
      <4> QED BY <2>1, <2>2, <2>3, <3>1, <4>1, <4>2
    <3> QED BY <2>1, <3>2, <3>3, <3>4, <3>5
  <2> QED BY <1>5, <2>1, <2>9, <2>10, <2>11
<1>6. Sum(rows, Left) <= Sum(rows, Right)
  <2> HIDE DEF Left, Right
  <2>1. \A i \in DOMAIN rows : Left[rows[i]] <= Right[rows[i]]
    BY <1>2, <1>5
  <2> QED BY <1>3, <1>4, <2>1, SumAtMost
<1>7. Sum(rows, Left) = Sum(rows, Sold(s, d)) + Sum(rows, Shares(s))
  <2>1. \A i \in DOMAIN rows : Left[rows[i]] = Sold(s, d)[rows[i]] + Shares(s)[rows[i]]
    BY <1>2
  <2> HIDE DEF Left
  <2> QED BY <1>1, <1>3, <2>1, SumPlus
<1>8. Sum(rows, Some) = Sum(rows, Before(s, d)) + Sum(rows, Bought(s, d))
  <2>1. \A i \in DOMAIN rows : Some[rows[i]] = Before(s, d)[rows[i]] + Bought(s, d)[rows[i]]
    BY <1>2
  <2> HIDE DEF Some
  <2> QED BY <1>1, <1>3, <2>1, SumPlus
<1>9. Sum(rows, Right) = Sum(rows, Some) + Sum(rows, Granted(s, d))
  <2>1. \A i \in DOMAIN rows : Right[rows[i]] = Some[rows[i]] + Granted(s, d)[rows[i]]
    BY <1>2
  <2> HIDE DEF Some, Right
  <2> QED BY <1>1, <1>3, <1>4, <2>1, SumPlus
<1> HIDE DEF Left, Some, Right
<1> QED BY <1>6, <1>7, <1>8, <1>9

LEMMA DaysAreNumbers == (\A d \in Day : d \in Nat) /\ \A t \in Row : t.day \in Nat
<1>1. \A d \in Day : d \in Nat
  BY LedgerConstants DEF Day
<1>2. \A t \in Row : t.day \in Day
  BY DEF Row
<1> QED BY <1>1, <1>2

LEMMA CommitTrades ==
  ASSUME LedgerInv, NEW c \in Client, NEW x, Committed(c, x)
  PROVE  TradeSum'
<1> DEFINE old == Turned(x)
<1>1. /\ TxOK(x) /\ KindOK(x) /\ SeenOK(x) /\ IsTx(x) /\ (x.fresh => FreshOK(x))
      /\ x.op \in {"trade", "reverse", "adjust", "corp", "other"}
  BY DEF Committed, TxOK, KindOK
<1>2. /\ old \in Seq(Row) /\ DOMAIN old = DOMAIN trades
      /\ \A i \in DOMAIN trades :
            trades[i] \in Row /\ old[i] \in Row /\ SameTrade(old[i], trades[i])
  BY <1>1, TurnedFacts
<1>3. /\ x.new \in Seq(Row) /\ \A i \in DOMAIN x.new : x.new[i] \in Row
      /\ DOMAIN x.new = 1..Len(x.new)
  BY <1>1, TxFields
<1>4. trades' = old \o x.new /\ trades \in Seq(Row) /\ LastDay \in Nat
  BY LedgerConstants DEF Committed, LedgerInv
<1> HIDE DEF old
<1> SUFFICES ASSUME ~overlapped', NEW s \in Stock, NEW d \in Day, Timely(s)',
                    Sum(trades', Sold(s, d)) > 0
             PROVE  Sum(trades', Sold(s, d))
                      <= Sum(trades', Before(s, d)) + Sum(trades', Granted(s, d))
  BY DEF TradeSum
<1>5. ~overlapped /\ x.fresh /\ FreshOK(x)
  <2>1. overlapped' = (overlapped \/ ~x.fresh) /\ overlapped \in BOOLEAN /\ x.fresh \in BOOLEAN
    BY <1>1, TxFields DEF Committed, LedgerInv
  <2> QED BY <1>1, <2>1
<1>6. /\ Sold(s, d) \in Weight /\ Shares(s) \in Weight /\ Before(s, d) \in Weight
      /\ Bought(s, d) \in Weight /\ Granted(s, d) \in Weight
  BY Weights, MoreWeights
<1>7. ASSUME NEW W \in {Sold(s, d), Before(s, d), Granted(s, d)}
      PROVE  Sum(trades', W) = Sum(trades, W) + Sum(x.new, W)
             /\ Sum(trades, W) \in Int /\ Sum(x.new, W) \in Int
  <2>1. W \in Weight
    BY <1>6
  <2>2. ASSUME NEW i \in DOMAIN old PROVE W[old[i]] = W[trades[i]]
    <3>1. old[i] \in Row /\ trades[i] \in Row /\ SameTrade(old[i], trades[i])
      BY <1>2
    <3>2. CASE W = Sold(s, d)
      BY <3>1, <3>2 DEF Sold, SameTrade
    <3>3. CASE W = Before(s, d)
      BY <3>1, <3>3 DEF Before, SameTrade
    <3>4. CASE W = Granted(s, d)
      BY <3>1, <3>4 DEF Granted, SameTrade
    <3> QED BY <3>2, <3>3, <3>4
  <2>3. Sum(old, W) = Sum(trades, W)
    BY <1>2, <1>4, <2>1, <2>2, SumLike
  <2>4. Sum(old \o x.new, W) = Sum(old, W) + Sum(x.new, W)
    BY <1>2, <1>3, <2>1, SumConcat
  <2> QED BY <1>3, <1>4, <2>1, <2>3, <2>4, SumInt
<1> DEFINE so == Sum(trades, Sold(s, d))
           be == Sum(trades, Before(s, d))
           gr == Sum(trades, Granted(s, d))
           dso == Sum(x.new, Sold(s, d))
           dbe == Sum(x.new, Before(s, d))
           dgr == Sum(x.new, Granted(s, d))
<1>8. /\ Sum(trades', Sold(s, d)) = so + dso /\ Sum(trades', Before(s, d)) = be + dbe
      /\ Sum(trades', Granted(s, d)) = gr + dgr
      /\ so \in Int /\ be \in Int /\ gr \in Int /\ dso \in Int /\ dbe \in Int /\ dgr \in Int
  BY <1>7
<1>16. Timely(s) /\ \A i \in DOMAIN x.new : x.new[i].stock = s => x.new[i].day = x.new[i].entered
  <2>1. \A i \in DOMAIN trades' : trades'[i].stock = s => trades'[i].day = trades'[i].entered
    BY DEF Timely
  <2>2. /\ \A i \in DOMAIN old : i \in DOMAIN trades' /\ trades'[i] = old[i]
        /\ \A i \in DOMAIN x.new : /\ i + Len(old) \in DOMAIN trades'
                                   /\ trades'[i + Len(old)] = x.new[i]
    BY <1>2, <1>3, <1>4, ConcatProperties
  <2>3. ASSUME NEW i \in DOMAIN trades, trades[i].stock = s
        PROVE  trades[i].day = trades[i].entered
    <3>1. i \in DOMAIN trades' /\ trades'[i] = old[i] /\ SameTrade(old[i], trades[i])
      BY <1>2, <2>2
    <3> QED BY <2>1, <2>3, <3>1 DEF SameTrade
  <2>4. ASSUME NEW i \in DOMAIN x.new, x.new[i].stock = s
        PROVE  x.new[i].day = x.new[i].entered
    BY <2>1, <2>2, <2>4
  <2> QED BY <2>3, <2>4 DEF Timely
<1>9. \A i \in DOMAIN x.new, j \in DOMAIN trades :
        x.new[i].stock = s /\ trades[j].stock = s => trades[j].day <= x.new[i].day
  <2>1. \A i \in DOMAIN x.new, j \in DOMAIN trades : trades[j].entered <= x.new[i].entered
    BY <1>5 DEF FreshOK
  <2> QED BY <1>16, <2>1 DEF Timely
<1>10. ASSUME NEW i \in DOMAIN x.new
       PROVE  /\ SignOK(x.new[i]) /\ (x.op = "trade" => i = 1 /\ Len(x.new) = 1)
              /\ x.new[i].source = "manual" => x.op = "trade"
  <2>1. x.op \notin {"adjust", "other"}
    BY <1>1, NoRow DEF KindOK
  <2>2. x.op \in {"trade", "reverse"} => i = 1 /\ Len(x.new) = 1
    <3>1. x.op \in {"trade", "reverse"} => Len(x.new) = 1
      BY <1>1 DEF KindOK
    <3> QED BY <1>3, <3>1
  <2> QED BY <1>1, <2>1, <2>2 DEF KindOK, IsCorp
<1>11. dgr >= 0
  <2>1. ASSUME NEW i \in DOMAIN x.new PROVE Granted(s, d)[x.new[i]] >= 0
    BY <1>3, <1>10 DEF Granted, SignOK
  <2> QED BY <1>3, <1>6, <2>1, SumPositive
<1>12. so > 0 => so <= be + gr
  BY <1>4, <1>5, <1>16, InSums DEF LedgerInv, TradeSum
<1>13. ASSUME \A i \in DOMAIN x.new : x.new[i].stock = s => x.new[i].day >= d
       PROVE  dbe = 0
  <2>1. ASSUME NEW i \in DOMAIN x.new PROVE Before(s, d)[x.new[i]] = 0
    <3>1. x.new[i].day \in Nat /\ d \in Nat
      BY <1>3, DaysAreNumbers
    <3> QED BY <1>3, <1>13, <3>1 DEF Before
  <2> QED BY <1>3, <1>6, <2>1, SumZero
<1> HIDE DEF dbe, dgr
<1>14. CASE \A i \in DOMAIN x.new : Sold(s, d)[x.new[i]] = 0
  <2>1. dso = 0
    BY <1>3, <1>6, <1>14, SumZero
  <2>2. so > 0 /\ so <= be + gr
    BY <1>8, <1>12, <2>1
  <2>3. \A i \in DOMAIN x.new : x.new[i].stock = s => x.new[i].day >= d
    <3> SUFFICES ASSUME NEW i \in DOMAIN x.new, x.new[i].stock = s, x.new[i].day < d
                 PROVE  FALSE
      <4>1. \A i \in DOMAIN x.new : x.new[i].day \in Nat /\ d \in Nat
        BY <1>3, DaysAreNumbers
      <4> QED BY <4>1
    <3>1. ASSUME NEW j \in DOMAIN trades PROVE Sold(s, d)[trades[j]] = 0
      <4>1. trades[j].stock = s => trades[j].day <= x.new[i].day
        BY <1>9
      <4>2. trades[j] \in Row /\ x.new[i] \in Row
        BY <1>2, <1>3
      <4>3. trades[j].day \in Nat /\ x.new[i].day \in Nat /\ d \in Nat
        BY <4>2, DaysAreNumbers
      <4>4. ~(trades[j].stock = s /\ trades[j].day = d)
        BY <4>1, <4>3
      <4> QED BY <4>2, <4>4 DEF Sold
    <3>2. so = 0
      BY <1>4, <1>6, <3>1, SumZero
    <3> QED BY <2>2, <3>2
  <2> QED BY <1>8, <1>11, <1>13, <2>1, <2>2, <2>3
<1>15. CASE ~ \A i \in DOMAIN x.new : Sold(s, d)[x.new[i]] = 0
  <2>1. PICK i \in DOMAIN x.new : Sold(s, d)[x.new[i]] # 0
    BY <1>15
  <2> DEFINE r == x.new[1]
  <2>2. /\ r \in Row /\ r.stock = s /\ r.day = d /\ r.source = "manual" /\ r.side = "SELL"
        /\ x.op = "trade" /\ Len(x.new) = 1 /\ DOMAIN x.new = {1}
    <3>1. /\ x.new[i].stock = s /\ x.new[i].day = d /\ x.new[i].source = "manual"
          /\ x.new[i].side = "SELL"
      BY <1>3, <2>1 DEF Sold
    <3>2. i = 1 /\ x.op = "trade" /\ Len(x.new) = 1
      BY <1>10, <3>1
    <3> QED BY <1>3, <3>1, <3>2
  <2>3. r.qty <= 0 /\ r.qty \in Int
    BY <1>10, <2>2 DEF SignOK, Row
  <2>4. dso = -r.qty
    <3>1. <<r>> \in Seq(Row) /\ Len(<<r>>) = 1 /\ <<r>>[1] = r
      BY <2>2, OneRow
    <3>2. x.new = <<r>>
      <4> HIDE DEF r
      <4>1. x.new[1] = r
        BY DEF r
      <4> QED BY <1>3, <2>2, <3>1, <4>1, SeqEqual
    <3>3. Sum(<<r>>, Sold(s, d)) = Sold(s, d)[r]
      BY <1>6, <2>2, SumOne
    <3>4. Sold(s, d)[r] = -r.qty
      BY <2>2 DEF Sold
    <3> QED BY <3>2, <3>3, <3>4
  <2>5. -r.qty <= Available(trades, s, d)
    BY <1>5, <2>2 DEF FreshOK
  <2> HIDE DEF r
  <2>6. d \in Nat
    BY <1>4 DEF Day
  <2>7. dbe = 0
    <3>1. x.new[1].day = d
      BY <2>2 DEF r
    <3> QED BY <1>13, <2>2, <2>6, <3>1
  <2> DEFINE bo == Sum(trades, Bought(s, d))
             held == Sum(trades, Shares(s))
  <2>8. Held(trades, s) = held /\ BoughtOn(trades, s, d) = bo /\ held \in Int /\ bo \in Int
    BY <1>4, <1>6, PositionMoves, BoughtSum, SumInt
  <2>9. so + held <= be + bo + gr
    <3>1. \A j \in DOMAIN trades : SignOK(trades[j])
      BY DEF LedgerInv, RowInv
    <3>2. \A j \in DOMAIN trades : trades[j].stock = s => trades[j].day <= d
      <4>1. 1 \in DOMAIN x.new /\ x.new[1].stock = s /\ x.new[1].day = d
        BY <2>2 DEF r
      <4> QED BY <1>9, <4>1
    <3> QED BY <1>4, <3>1, <3>2, Divided
  <2> HIDE DEF so, be, gr, dso, bo, held
  <2>10. CASE held - bo > 0
    <3>1. -r.qty <= held - bo
      BY <2>5, <2>8, <2>10 DEF Available
    <3> QED BY <1>8, <1>11, <2>3, <2>4, <2>7, <2>8, <2>9, <3>1
  <2>11. CASE ~(held - bo > 0)
    <3>1. -r.qty <= 0
      BY <2>5, <2>8, <2>11 DEF Available
    <3>2. dso = 0
      BY <1>8, <2>3, <2>4, <3>1
    <3> QED BY <1>8, <1>11, <1>12, <2>7, <3>2
  <2> QED BY <2>10, <2>11
<1> QED BY <1>14, <1>15

LEMMA CommitKeeps ==
  ASSUME LedgerInv, NEW c \in Client, Commit(c)
  PROVE  LedgerInv'
<1>1. PICK x : Committed(c, x)
  BY CommitShape
<1>2. TxOK(x) /\ IsTx(x)
  BY <1>1 DEF Committed
<1>3. /\ trades' \in Seq(Row) /\ cash' \in Int /\ deposits' \in Seq(Int)
      /\ ReversalInv' /\ CorpInv' /\ RowInv'
  BY <1>1, NewTrades, CommitCash, CommitReversals, CommitCorp, CommitRows
<1>4. /\ processed' = processed \cup x.done /\ today' = today
      /\ overlapped' = (overlapped \/ ~x.fresh)
  BY <1>1 DEF Committed
<1>5. delisted' = delisted \cup {ActionInfo[a].stock :
                      a \in {b \in x.done : ActionInfo[b].kind = "delist"}}
  BY <1>1 DEF Commit, Committed
<1>6. \A a \in Action : ActionInfo[a].stock \in Stock
  BY LedgerConstants DEF Columns
<1>7. x.done \subseteq Action /\ x.fresh \in BOOLEAN
  BY <1>2, TxFields
<1>8. processed' \subseteq Action /\ delisted' \subseteq Stock
  BY <1>4, <1>5, <1>6, <1>7 DEF LedgerInv
<1>9. today' \in Day /\ overlapped' \in BOOLEAN
  BY <1>4, <1>7 DEF LedgerInv
<1>10. CashMatchesLedger'
  BY <1>1, <1>3, CommitCash, InSumsNext
<1>11. TPlusOne'
  BY <1>1, <1>3, CommitTrades, InSumsNext
<1>12. /\ (tx = [d \in Client |-> tx[d]])'
       /\ \A d \in Client : (tx[d] = Idle \/ TxOK(tx[d]))'
  BY CommitOthers
<1> QED BY <1>3, <1>8, <1>9, <1>10, <1>11, <1>12 DEF LedgerInv

LEMMA StutterKeeps == LedgerInv /\ UNCHANGED ledgerVars => LedgerInv'
<1> SUFFICES ASSUME LedgerInv, UNCHANGED ledgerVars PROVE LedgerInv'
  OBVIOUS
<1>1. UNCHANGED <<trades, cash, deposits, processed, delisted, today, tx, overlapped>>
  BY DEF ledgerVars
<1>2. ASSUME NEW d \in Client PROVE (tx[d] = Idle \/ TxOK(tx[d]))'
  <2>1. tx[d] = Idle \/ TxOK(tx[d])
    BY DEF LedgerInv
  <2>2. TxOK(tx[d]) => TxOK(tx[d])'
    BY <1>1 DEF TxOK, SeenOK, FreshOK
  <2> QED BY <1>1, <2>1, <2>2
<1>3. /\ (trades \in Seq(Row) /\ cash \in Int /\ deposits \in Seq(Int))'
      /\ (processed \subseteq Action /\ delisted \subseteq Stock)'
      /\ (today \in Day /\ overlapped \in BOOLEAN)' /\ (tx = [c \in Client |-> tx[c]])'
  BY <1>1 DEF LedgerInv
<1>4. ReversalInv' /\ CorpInv' /\ RowInv'
  BY <1>1 DEF LedgerInv, ReversalInv, CorpInv, RowInv, ReversalsOf
<1>5. CashSum' /\ TradeSum'
  BY <1>1, InSums DEF LedgerInv, CashSum, TradeSum, Timely
<1>6. CashMatchesLedger' /\ TPlusOne'
  BY <1>3, <1>5, InSumsNext
<1> QED BY <1>2, <1>3, <1>4, <1>6 DEF LedgerInv

LEMMA NextLedger == LedgerInv /\ [LedgerNext]_ledgerVars => LedgerInv'
<1> SUFFICES ASSUME LedgerInv, [LedgerNext]_ledgerVars PROVE LedgerInv'
  OBVIOUS
<1>1. CASE UNCHANGED ledgerVars
  BY <1>1, StutterKeeps
<1>2. CASE NextDay
  BY <1>2, DayKeeps
<1>3. ASSUME NEW c \in Client, Serve(c) PROVE LedgerInv'
  <2>1. ASSUME NEW o \in Order, NEW d \in Day, BeginTrade(c, o, d) PROVE LedgerInv'
    BY <2>1, TradeKeeps
  <2>2. ASSUME NEW i \in 1..MaxTrades, BeginReverse(c, i) PROVE LedgerInv'
    BY <2>2, ReverseKeeps
  <2>3. ASSUME NEW n \in Amount, BeginAdjust(c, n) PROVE LedgerInv'
    BY <2>3, AdjustKeeps
  <2>4. ASSUME NEW Todo \in SUBSET Pending, BeginCorp(c, Todo) PROVE LedgerInv'
    BY <2>4, BatchKeeps
  <2>5. ASSUME NEW a \in Action, Apply(c, a) \/ Break(c, a) PROVE LedgerInv'
    BY <2>5, ApplyKeeps, BreakKeeps
  <2>6. CASE Flush(c) \/ ReadCash(c) \/ Commit(c) \/ Rollback(c)
    BY <2>6, FlushKeeps, ReadKeeps, CommitKeeps, RollbackKeeps
  <2>7. Due \in SUBSET Pending /\ Pending \in SUBSET Pending
        /\ \A a \in Pending : {a} \in SUBSET Pending
    BY DEF Due
  <2> QED BY <1>3, <2>1, <2>2, <2>3, <2>4, <2>5, <2>6, <2>7 DEF Serve
<1> QED BY <1>1, <1>2, <1>3 DEF LedgerNext

LEMMA LedgerInvariant == LedgerSpec => []LedgerInv
BY InitLedger, NextLedger, PTL DEF LedgerSpec

-----------------------------------------------------------------------------
(* Types, and the shape of a transaction. *)
THEOREM LedgerTypes == LedgerSpec => []LedgerTypeOK
<1>1. LedgerInv => LedgerTypeOK
  <2> SUFFICES ASSUME LedgerInv PROVE LedgerTypeOK
    OBVIOUS
  <2>1. ASSUME NEW c \in Client, tx[c] # Idle
        PROVE  /\ tx[c] \in Tx
               /\ tx[c].locks => tx[c].read
               /\ tx[c].todo \cap (tx[c].cur \cup tx[c].done) = {}
               /\ tx[c].cur \cap tx[c].done = {}
    <3>1. TxOK(tx[c])
      BY <2>1 DEF LedgerInv
    <3> QED BY <3>1 DEF TxOK, IsTx, SeenOK
  <2> QED BY <2>1 DEF LedgerInv, LedgerTypeOK
<1> QED BY <1>1, LedgerInvariant, PTL

(* A set whose members are all equal counts at most one. *)
LEMMA AtMostOne ==
  ASSUME NEW S, \A e, f \in S : e = f
  PROVE  Cardinality(S) <= 1
<1>1. CASE S = {}
  <2>1. Cardinality({}) = 0
    BY FS_EmptySet
  <2> QED BY <1>1, <2>1
<1>2. ASSUME NEW e \in S PROVE Cardinality(S) <= 1
  <2>1. S = {e}
    OBVIOUS
  <2>2. Cardinality({e}) = 1
    BY FS_Singleton
  <2>3. Cardinality(S) = 1
    BY <2>1, <2>2, Zenon
  <2> QED BY <2>3
<1> QED BY <1>1, <1>2

(* A reversal and its trade point at each other; two sessions that reverse one *)
(* trade at once leave two reversals, and the trade points at the later.       *)
THEOREM ReversalsMatch == LedgerSpec => []ReversedOnce
<1>1. LedgerInv => ReversedOnce
  <2> SUFFICES ASSUME LedgerInv, NEW i \in DOMAIN trades
               PROVE  /\ trades[i].undone # 0 => trades[i].undone \in ReversalsOf(i)
                      /\ \A j \in ReversalsOf(i) : j <= trades[i].undone
                      /\ ~overlapped => Cardinality(ReversalsOf(i)) <= 1
    BY DEF ReversedOnce
  <2>1. ReversalInv
    BY DEF LedgerInv
  <2>2. trades[i].undone # 0 => trades[i].undone \in ReversalsOf(i)
    BY <2>1 DEF ReversalInv
  <2>3. \A j \in ReversalsOf(i) : j <= trades[i].undone
    BY <2>1 DEF ReversalInv, ReversalsOf
  <2>4. ASSUME ~overlapped PROVE Cardinality(ReversalsOf(i)) <= 1
    <3>1. ReversalsOf(i) \subseteq {trades[i].undone}
      BY <2>1, <2>4 DEF ReversalInv, ReversalsOf
    <3> QED BY <3>1, AtMostOne
  <2> QED BY <2>2, <2>3, <2>4
<1> QED BY <1>1, LedgerInvariant, PTL

(* The rows of a corporate action are committed with its processed_at, a merger's *)
(* SELL and BUY together.                                                          *)
THEOREM ActionsAreWhole == LedgerSpec => []AppliedWhole
<1>1. LedgerInv => AppliedWhole
  <2> SUFFICES ASSUME LedgerInv, NEW a \in Action
               PROVE  /\ RowsOf(a, Side) # {} => a \in processed
                      /\ Cardinality(RowsOf(a, {"SELL"})) = Cardinality(RowsOf(a, {"BUY"}))
    BY DEF AppliedWhole
  <2>1. CorpInv /\ trades \in Seq(Row)
    BY DEF LedgerInv
  <2>2. RowsOf(a, Side) # {} => a \in processed
    BY <2>1 DEF CorpInv, RowsOf, IsCorp
  <2> DEFINE S == RowsOf(a, {"SELL"})
             B == RowsOf(a, {"BUY"})
             f == [i \in S |-> i + 1]
  <2>3. DOMAIN trades = 1..Len(trades) /\ Len(trades) \in Nat
    BY <2>1, LenProperties
  <2>4. S \subseteq Int /\ B \subseteq Int
    BY <2>3 DEF RowsOf
  <2>5. \A i \in S : i + 1 \in B
    BY <2>1 DEF CorpInv, Paired, RowsOf, IsCorp
  <2>6. \A i \in B : i - 1 \in S
    BY <2>1 DEF CorpInv, Paired, RowsOf, IsCorp
  <2> HIDE DEF S, B
  <2>7. f \in Bijection(S, B)
    <3>1. f \in [S -> B]
      BY <2>5
    <3>2. \A i, j \in S : f[i] = f[j] => i = j
      BY <2>4
    <3>3. \A i \in B : \E j \in S : f[j] = i
      <4> SUFFICES ASSUME NEW i \in B PROVE \E j \in S : f[j] = i
        OBVIOUS
      <4>1. i - 1 \in S /\ (i - 1) + 1 = i
        BY <2>4, <2>6
      <4> QED BY <4>1
    <3> QED BY <3>1, <3>2, <3>3 DEF Bijection, Injection, IsInjective, Surjection
  <2>8. IsFiniteSet(S)
    <3>1. S \subseteq 1..Len(trades)
      BY <2>3 DEF S, RowsOf
    <3>2. IsFiniteSet(1..Len(trades))
      BY <2>3, FS_Interval
    <3> QED BY <3>1, <3>2, FS_Subset
  <2>9. Cardinality(S) = Cardinality(B)
    BY <2>7, <2>8, FS_Bijection DEF ExistsBijection
  <2> QED BY <2>2, <2>9 DEF S, B
<1> QED BY <1>1, LedgerInvariant, PTL

(* Unless transactions have overlapped, an action is applied at most once. *)
THEOREM ActionsAreAppliedOnce == LedgerSpec => []AppliedOnce
<1>1. LedgerInv => AppliedOnce
  <2> SUFFICES ASSUME LedgerInv, ~overlapped, NEW a \in Action
               PROVE  Cardinality(RowsOf(a, Side \ {"BUY"})) <= 1
    BY DEF AppliedOnce
  <2> DEFINE S == RowsOf(a, Side \ {"BUY"})
  <2>1. Single(trades)
    BY DEF LedgerInv, CorpInv
  <2>2. \A i, j \in S : i = j
    BY <2>1 DEF Single, RowsOf, IsCorp
  <2> HIDE DEF S
  <2>3. Cardinality(S) <= 1
    BY <2>2, AtMostOne
  <2> QED BY <2>3 DEF S
<1> QED BY <1>1, LedgerInvariant, PTL

(* Unless transactions have overlapped, the balance is what the deposits and the *)
(* trades in force make it.                                                       *)
THEOREM BalanceMatchesLedger == LedgerSpec => []CashMatchesLedger
<1>1. LedgerInv => CashMatchesLedger
  BY DEF LedgerInv
<1> QED BY <1>1, LedgerInvariant, PTL

(* Unless transactions have overlapped, no shares of a stock are sold the day *)
(* they were bought, as long as none of its rows is filled on another day     *)
(* than it was entered.                                                       *)
THEOREM NoSaleOnTheDayOfPurchase == LedgerSpec => []TPlusOne
<1>1. LedgerInv => TPlusOne
  BY DEF LedgerInv
<1> QED BY <1>1, LedgerInvariant, PTL

-----------------------------------------------------------------------------
LEMMA OnlyCommits ==
  ASSUME LedgerNext
  PROVE  UNCHANGED <<trades, overlapped>> \/ \E c \in Client : Commit(c)
<1>1. CASE NextDay
  BY <1>1 DEF NextDay
<1>2. ASSUME NEW c \in Client, Serve(c)
      PROVE  UNCHANGED <<trades, overlapped>> \/ Commit(c)
  BY <1>2 DEF Serve, BeginTrade, BeginReverse, BeginAdjust, BeginCorp, Apply, Break, Flush,
              ReadCash, Rollback, Open, Step
<1> QED BY <1>1, <1>2 DEF LedgerNext

OversoldByReversal ==
  \A s \in Stock : (~overlapped' /\ Held(trades, s) >= 0 /\ Held(trades', s) < 0)
                      => trades'[Len(trades')].source = "reversal"

BuysCovered ==
  \A c \in Client :
    (/\ tx[c] # Idle /\ tx'[c] = Idle /\ trades' # trades
     /\ tx[c].op = "trade" /\ tx[c].new[1].side = "BUY") => cash' >= 0

LEMMA NotOversold ==
  ASSUME LedgerInv, NEW c \in Client, NEW x, Committed(c, x)
  PROVE  OversoldByReversal
<1> DEFINE old == Turned(x)
<1>1. /\ TxOK(x) /\ KindOK(x) /\ SeenOK(x) /\ IsTx(x) /\ (x.fresh => FreshOK(x))
      /\ x.op \in {"trade", "reverse", "adjust", "corp", "other"}
  BY DEF Committed, TxOK, KindOK
<1>2. /\ old \in Seq(Row) /\ DOMAIN old = DOMAIN trades
      /\ \A i \in DOMAIN trades :
            trades[i] \in Row /\ old[i] \in Row /\ SameTrade(old[i], trades[i])
  BY <1>1, TurnedFacts
<1>3. /\ x.new \in Seq(Row) /\ \A i \in DOMAIN x.new : x.new[i] \in Row
      /\ DOMAIN x.new = 1..Len(x.new)
  BY <1>1, TxFields
<1>4. trades' = old \o x.new /\ trades \in Seq(Row)
  BY DEF Committed, LedgerInv
<1> HIDE DEF old
<1> SUFFICES ASSUME NEW s \in Stock, ~overlapped', Held(trades, s) >= 0, Held(trades', s) < 0
             PROVE  trades'[Len(trades')].source = "reversal"
  BY DEF OversoldByReversal
<1>5. x.fresh /\ FreshOK(x)
  <2>1. overlapped' = (overlapped \/ ~x.fresh) /\ overlapped \in BOOLEAN /\ x.fresh \in BOOLEAN
    BY <1>1, TxFields DEF Committed, LedgerInv
  <2> QED BY <1>1, <2>1
<1> DEFINE moved == Sum(x.new, Shares(s))
<1>6. /\ Held(trades, s) \in Int /\ moved \in Int
      /\ Held(trades', s) = Held(trades, s) + moved
  <2>1. Held(old \o x.new, s) = Held(old, s) + moved
    BY <1>2, <1>3, HeldConcat
  <2>2. Held(old, s) = Held(trades, s)
    <3>1. \A i \in DOMAIN old : Shares(s)[old[i]] = Shares(s)[trades[i]]
      BY <1>2 DEF Shares, Moves, SameTrade
    <3>2. Sum(old, Shares(s)) = Sum(trades, Shares(s))
      BY <1>2, <1>4, <3>1, Weights, SumLike
    <3> QED BY <1>2, <1>4, <3>2, PositionMoves
  <2>3. moved \in Int /\ Held(trades, s) \in Int
    BY <1>3, <1>4, Weights, SumInt, HeldInt
  <2> QED BY <1>4, <2>1, <2>2, <2>3
<1>7. moved < 0 /\ Held(trades, s) + moved < 0
  BY <1>6
<1>8. x.op \notin {"adjust", "other"}
  <2> SUFFICES ASSUME x.op \in {"adjust", "other"} PROVE FALSE
    OBVIOUS
  <2>1. \A i \in DOMAIN x.new : Shares(s)[x.new[i]] >= 0
    BY <1>1, NoRow DEF KindOK
  <2>2. moved >= 0
    BY <1>3, <2>1, Weights, SumPositive
  <2> QED BY <1>6, <1>7, <2>2
<1>9. x.op # "corp"
  <2> SUFFICES ASSUME x.op = "corp" PROVE FALSE
    OBVIOUS
  <2>1. Held(trades \o x.new, s) >= 0
    BY <1>5 DEF FreshOK
  <2>2. Held(trades \o x.new, s) = Held(trades, s) + moved
    BY <1>3, <1>4, HeldConcat
  <2> HIDE DEF moved
  <2> QED BY <1>6, <1>7, <2>1, <2>2
<1>10. x.op # "trade"
  <2> SUFFICES ASSUME x.op = "trade" PROVE FALSE
    OBVIOUS
  <2> DEFINE r == x.new[1]
  <2>1. /\ Len(x.new) = 1 /\ SignOK(r)
        /\ r.side = "SELL" => -r.qty <= Available(trades, r.stock, r.day)
    BY <1>1, <1>5 DEF KindOK, FreshOK
  <2>2. r \in Row /\ r.source = "manual"
    BY <1>1, <1>3, <2>1 DEF KindOK
  <2>3. moved = Shares(s)[r]
    <3>1. <<r>> \in Seq(Row) /\ Len(<<r>>) = 1 /\ <<r>>[1] = r
      BY <2>2, OneRow
    <3>2. x.new = <<r>>
      <4> HIDE DEF r
      <4>1. x.new[1] = r
        BY DEF r
      <4> QED BY <1>3, <2>1, <3>1, <4>1, SeqEqual
    <3>3. Sum(<<r>>, Shares(s)) = Shares(s)[r]
      BY <2>2, Weights, SumOne
    <3> QED BY <3>2, <3>3
  <2> HIDE DEF r
  <2>4. r.side = "SELL" /\ r.stock = s /\ moved = r.qty /\ r.qty \in Int
    BY <1>6, <1>7, <2>1, <2>2, <2>3 DEF Shares, Moves, SignOK, Row, Side
  <2>5. BoughtOn(trades, s, r.day) \in Int /\ BoughtOn(trades, s, r.day) >= 0
    <3>1. ASSUME NEW i \in DOMAIN trades PROVE Bought(s, r.day)[trades[i]] >= 0
      <4>1. trades[i] \in Row /\ SignOK(trades[i])
        BY <1>2 DEF LedgerInv, RowInv
      <4> QED BY <4>1 DEF Bought, SignOK
    <3>2. Bought(s, r.day) \in Weight
      BY MoreWeights
    <3>3. Sum(trades, Bought(s, r.day)) >= 0 /\ Sum(trades, Bought(s, r.day)) \in Int
      BY <1>4, <3>1, <3>2, SumPositive, SumInt
    <3> QED BY <1>4, <3>3, BoughtSum
  <2>6. -r.qty <= Held(trades, s)
    <3>1. -r.qty <= Available(trades, s, r.day)
      BY <2>1, <2>4
    <3>2. Available(trades, s, r.day) <= Held(trades, s)
      BY <1>6, <2>5 DEF Available
    <3>3. Available(trades, s, r.day) \in Int
      BY <1>6, <2>5 DEF Available
    <3> QED BY <1>6, <2>4, <3>1, <3>2, <3>3
  <2> HIDE DEF moved
  <2> QED BY <1>6, <1>7, <2>4, <2>6
<1>11. x.op = "reverse"
  BY <1>1, <1>8, <1>9, <1>10
<1>12. Len(x.new) = 1 /\ x.new[1].source = "reversal"
  BY <1>1, <1>11 DEF KindOK
<1>13. /\ Len(trades') = Len(trades) + Len(x.new) /\ 1 \in DOMAIN x.new
       /\ trades'[Len(trades) + 1] = x.new[1]
  <2>1. /\ Len(trades') = Len(trades) + Len(x.new)
        /\ \A i \in DOMAIN x.new : trades'[Len(trades) + i] = x.new[i]
    <3>1. /\ trades' \in Seq(Row) /\ Len(trades') = Len(trades) + Len(x.new)
          /\ \A i \in DOMAIN x.new :
               Len(trades) + i \in DOMAIN trades' /\ trades'[Len(trades) + i] = x.new[i]
      BY <1>3, NewTrades
    <3> QED BY <3>1
  <2>2. 1 \in DOMAIN x.new
    <3>1. x.new \in Seq(Row)
      BY <1>3, TxFields DEF Committed
    <3> QED BY <1>12, <3>1
  <2> QED BY <2>1, <2>2
<1> QED BY <1>12, <1>13

LEMMA Covered ==
  ASSUME LedgerInv, NEW d \in Client, Commit(d)
  PROVE  BuysCovered
<1> SUFFICES ASSUME NEW c \in Client, tx[c] # Idle, tx'[c] = Idle, trades' # trades,
                    tx[c].op = "trade", tx[c].new[1].side = "BUY"
             PROVE  cash' >= 0
  BY DEF BuysCovered
<1>1. c = d
  <2> SUFFICES ASSUME c # d PROVE FALSE
    OBVIOUS
  <2>1. tx'[c] = [tx[c] EXCEPT !.fresh = FALSE]
    BY DEF Commit
  <2>2. tx'[c].op = "trade"
    <3>1. TxOK(tx[c]) /\ IsTx(tx[c])
      BY DEF LedgerInv, TxOK
    <3>2. tx[c] = [f \in TxField |-> tx[c][f]]
      BY <3>1, TxFields
    <3> QED BY <2>1, <3>2 DEF TxField
  <2> QED BY <2>2 DEF Idle
<1>2. PICK x : Committed(d, x)
  BY CommitShape
<1>3. /\ x = tx[c] /\ TxOK(x) /\ KindOK(x) /\ SeenOK(x) /\ IsTx(x) /\ x.op = "trade" /\ x.read
      /\ x.new[1].side = "BUY"
  BY <1>1, <1>2 DEF Committed, TxOK
<1> DEFINE r == x.new[1]
<1>4. /\ x.new \in Seq(Row) /\ \A i \in DOMAIN x.new : x.new[i] \in Row
      /\ DOMAIN x.new = 1..Len(x.new) /\ x.saw \in Int
  BY <1>3, TxFields
<1>5. /\ Len(x.new) = 1 /\ r.value > 0 /\ x.saw >= r.value /\ x.amount = 0 /\ x.undo = 0
  BY <1>3 DEF KindOK, SeenOK
<1>6. r \in Row
  BY <1>4, <1>5
<1>7. SumOver(x.new, Inflow) = -r.value
  <2>1. <<r>> \in Seq(Row) /\ Len(<<r>>) = 1 /\ <<r>>[1] = r
    BY <1>6, OneRow
  <2>2. x.new = <<r>>
    <3> HIDE DEF r
    <3>1. x.new[1] = r
      BY DEF r
    <3> QED BY <1>4, <1>5, <2>1, <3>1, SeqEqual
  <2>3. SumOver(x.new, Inflow) = Sum(x.new, BalanceEffect)
    BY <1>4, NewInflow
  <2>4. Sum(<<r>>, BalanceEffect) = BalanceEffect[r]
    BY <1>6, MoreWeights, SumOne
  <2>5. BalanceEffect[r] = -r.value
    BY <1>3, <1>6 DEF BalanceEffect, Inflow
  <2> QED BY <2>2, <2>3, <2>4, <2>5
<1>8. Effect(x) = -r.value /\ r.value \in Int
  BY <1>5, <1>6, <1>7 DEF Effect, Row
<1>9. cash' = x.saw + Effect(x)
  <2> HIDE DEF r
  <2>1. Effect(x) # 0
    BY <1>5, <1>8
  <2> QED BY <1>2, <2>1 DEF Committed
<1> HIDE DEF r
<1> QED BY <1>4, <1>5, <1>8, <1>9

(* Neither shares nor cash are spent that are not there: unless transactions   *)
(* have overlapped only a reversal takes a position below zero, and no BUY ever *)
(* leaves the balance below zero.                                              *)
THEOREM NothingIsOverspent == LedgerSpec => SpentIsCovered
<1>1. LedgerInv /\ [LedgerNext]_ledgerVars => [OversoldByReversal]_ledgerVars
  <2> SUFFICES ASSUME LedgerInv, LedgerNext PROVE OversoldByReversal
    OBVIOUS
  <2>1. CASE UNCHANGED <<trades, overlapped>>
    <3>1. trades \in Seq(Row)
      BY DEF LedgerInv
    <3>2. \A s : Held(trades, s) \in Int
      BY <3>1, HeldInt
    <3> QED BY <2>1, <3>2 DEF OversoldByReversal
  <2>2. ASSUME NEW c \in Client, Commit(c) PROVE OversoldByReversal
    BY <2>2, CommitShape, NotOversold
  <2> QED BY <2>1, <2>2, OnlyCommits
<1>2. LedgerInv /\ [LedgerNext]_ledgerVars => [BuysCovered]_ledgerVars
  <2> SUFFICES ASSUME LedgerInv, LedgerNext PROVE BuysCovered
    OBVIOUS
  <2>1. CASE UNCHANGED <<trades, overlapped>>
    BY <2>1 DEF BuysCovered
  <2>2. ASSUME NEW c \in Client, Commit(c) PROVE BuysCovered
    BY <2>2, Covered
  <2> QED BY <2>1, <2>2, OnlyCommits
<1>3. NeverOversold <=> [][OversoldByReversal]_ledgerVars
  BY DEF NeverOversold, OversoldByReversal
<1>4. BuyCovered <=> [][BuysCovered]_ledgerVars
  BY DEF BuyCovered, BuysCovered
<1> QED BY <1>1, <1>2, <1>3, <1>4, LedgerInvariant, PTL DEF LedgerSpec, SpentIsCovered

-----------------------------------------------------------------------------
(* Order drafts. A session that is fresh when it commits has seen the       *)
(* drafts as they are now, because drafts change in commits only and every  *)
(* commit takes the freshness of the other sessions.  The invariant of the  *)
(* ledger is shown to hold of these transactions as well.                   *)

Final == {"executed", "cancelled", "superseded"}

WritesField == {"to", "cut", "new", "broken", "fills", "locked"}

(* What is open in a session: no row, or the trade of a user. *)
IsDraftTx(x) ==
    /\ x = [f \in TxField |-> x[f]]
    /\ x.op \in {"other", "trade"} /\ x.undo = 0 /\ x.fresh \in BOOLEAN
    /\ x.op = "other" => x.new = <<>>
    /\ x.op = "trade" => \E r \in Row : x.new = <<r>>

IsWrites(w) ==
    /\ w = [f \in WritesField |-> w[f]]
    /\ \A i \in DOMAIN w.to : w.to[i] \in Final
    /\ \A i \in DOMAIN w.cut : w.cut[i] \in BOOLEAN
    /\ w.new \in Seq(Draft) /\ w.fills \in Nat

TypeInv ==
    /\ today \in Day
    /\ trades \in Seq(Row) /\ drafts \in Seq(Draft)
    /\ tx = [c \in Client |-> tx[c]] /\ dtx = [c \in Client |-> dtx[c]]
    /\ \A c \in Client : /\ tx[c] = Idle \/ IsDraftTx(tx[c])
                         /\ IsWrites(dtx[c])
                         /\ tx[c] = Idle => dtx[c] = NoWrites

(* What a session that has seen the drafts as they are may write. *)
Alike(d, e) == d.stock = e.stock /\ d.side = e.side /\ d.status = "pending" /\ e.status = "pending"
Prepared(w) ==
    /\ \A i \in DOMAIN w.to : i \in DOMAIN drafts /\ drafts[i].status = "pending"
    /\ \A k, l \in DOMAIN w.new : Alike(w.new[k], w.new[l]) => k = l
    /\ \A k \in DOMAIN w.new, i \in DOMAIN drafts : Alike(w.new[k], drafts[i]) => i \in DOMAIN w.to

(* A session that executes a draft will write it, and its trade names it. *)
Filling(w) ==
    w.fills # 0 => /\ w.fills \in DOMAIN drafts
                   /\ w.fills \in DOMAIN w.to /\ w.to[w.fills] = "executed"

SessionInv ==
    \A c \in Client :
        /\ tx[c] # Idle /\ tx[c].fresh => Prepared(dtx[c])
        /\ Filling(dtx[c])
        /\ tx[c] # Idle /\ tx[c].op = "trade" => tx[c].new[1].ref = dtx[c].fills

RefsKnown == \A k \in DOMAIN trades : trades[k].source = "manual" => trades[k].ref <= Len(drafts)

(* One pending draft of a stock and side, without counting. *)
NoTwins ==
    ~overlapped => \A i, j \in DOMAIN drafts : Alike(drafts[i], drafts[j]) => i = j

DraftInv == TypeInv /\ SessionInv /\ RefsKnown /\ FilledOnce /\ NoTwins

-----------------------------------------------------------------------------
(* Helpers.                                                                 *)

(* SetToSeq lists a set of stocks without repetition. *)
LEMMA Listing ==
  ASSUME NEW R \in SUBSET Stock
  PROVE  /\ SetToSeq(R) \in Seq(R)
         /\ \A i, j \in DOMAIN SetToSeq(R) : SetToSeq(R)[i] = SetToSeq(R)[j] => i = j
         /\ DOMAIN SetToSeq(R) = 1..Cardinality(R)
<1>1. Cardinality(R) \in Nat /\ ExistsBijection(1..Cardinality(R), R)
  BY FS_Subset, FS_CardinalityType, DraftConstants
<1>2. SetToSeq(R) \in [1..Cardinality(R) -> R] /\ IsInjective(SetToSeq(R))
  BY <1>1 DEF ExistsBijection, Bijection, Injection, IsInjective, SetToSeq
<1>3. SetToSeq(R) \in Seq(R)
  BY <1>1, <1>2
<1>4. \A i, j \in DOMAIN SetToSeq(R) : SetToSeq(R)[i] = SetToSeq(R)[j] => i = j
  BY <1>2 DEF IsInjective
<1> QED BY <1>2, <1>3, <1>4

(* NoWrites writes nothing. *)
LEMMA NoWritesType == IsWrites(NoWrites) /\ NoWrites.fills = 0 /\ NoWrites.new = <<>>
                      /\ DOMAIN NoWrites.to = {} /\ DOMAIN NoWrites.cut = {}
  BY DEF NoWrites, IsWrites, WritesField

LEMMA NoWritesRecord ==
  /\ NoWrites = [f \in WritesField |-> NoWrites[f]]
  /\ NoWrites.cut = <<>> /\ DOMAIN NoWrites.cut = {} /\ NoWrites.new = <<>> /\ NoWrites.fills = 0
  BY DEF NoWrites, WritesField

(* The transactions that begin here. *)
LEMMA BeginType ==
  /\ IsDraftTx(Begin("other")) /\ Begin("other") # Idle
  /\ Begin("other").op = "other" /\ Begin("other").fresh = TRUE
  BY DEF Begin, IsDraftTx, TxField, Idle

LEMMA NotIdle == ASSUME NEW x, IsDraftTx(x) PROVE x # Idle
  BY DEF IsDraftTx, Idle

(* A commit of another session takes the freshness and nothing else. *)
LEMMA StaleType ==
  ASSUME NEW x, IsDraftTx(x), NEW y, y = [x EXCEPT !.fresh = FALSE]
  PROVE  IsDraftTx(y) /\ ~y.fresh /\ y.op = x.op /\ y.new = x.new
<1>1. y = [f \in TxField |-> IF f = "fresh" THEN FALSE ELSE x[f]]
  BY DEF IsDraftTx
<1>2. y.op = x.op /\ y.new = x.new /\ y.undo = x.undo /\ y.fresh = FALSE
  BY <1>1 DEF TxField
<1>3. y = [f \in TxField |-> y[f]]
  BY <1>1
<1>4. IsDraftTx(y)
  BY <1>2, <1>3 DEF IsDraftTx
<1> QED BY <1>2, <1>4
-----------------------------------------------------------------------------
(* A step of one session that commits nothing.                              *)

Allowed(x, w) ==
    \/ x = Idle /\ w = NoWrites
    \/ /\ IsDraftTx(x) /\ IsWrites(w) /\ Filling(w)
       /\ x.fresh => Prepared(w)
       /\ x.op = "trade" => x.new[1].ref = w.fills

LEMMA SessionKeeps ==
  ASSUME DraftInv, NEW c \in Client, NEW x, NEW w, Allowed(x, w),
         UNCHANGED <<trades, drafts, overlapped, today>>,
         tx' = [tx EXCEPT ![c] = x], dtx' = [dtx EXCEPT ![c] = w]
  PROVE  DraftInv'
<1>1. /\ tx' = [d \in Client |-> tx'[d]] /\ dtx' = [d \in Client |-> dtx'[d]]
      /\ tx'[c] = x /\ dtx'[c] = w
      /\ \A d \in Client \ {c} : tx'[d] = tx[d] /\ dtx'[d] = dtx[d]
  BY DEF DraftInv, TypeInv
<1>2. TypeInv'
  <2>1. \A d \in Client : /\ tx'[d] = Idle \/ IsDraftTx(tx'[d])
                          /\ IsWrites(dtx'[d])
                          /\ tx'[d] = Idle => dtx'[d] = NoWrites
    <3>1. IsDraftTx(x) => x # Idle
      BY NotIdle
    <3> QED BY <1>1, <3>1, NoWritesType DEF DraftInv, TypeInv, Allowed
  <2>2. today' \in Day /\ trades' \in Seq(Row) /\ drafts' \in Seq(Draft)
    BY DEF DraftInv, TypeInv
  <2>3. tx' = [d \in Client |-> tx'[d]] /\ dtx' = [d \in Client |-> dtx'[d]]
    BY <1>1
  <2> QED BY <2>1, <2>2, <2>3 DEF TypeInv
<1>3. SessionInv'
  <2>1. drafts' = drafts
    OBVIOUS
  <2>2. \A d \in Client \ {c} :
            /\ tx'[d] # Idle /\ tx'[d].fresh => Prepared(dtx'[d])
            /\ Filling(dtx'[d])
            /\ tx'[d] # Idle /\ tx'[d].op = "trade" => tx'[d].new[1].ref = dtx'[d].fills
    BY <1>1 DEF DraftInv, SessionInv
  <2>3. /\ tx'[c] # Idle /\ tx'[c].fresh => Prepared(dtx'[c])
        /\ Filling(dtx'[c])
        /\ tx'[c] # Idle /\ tx'[c].op = "trade" => tx'[c].new[1].ref = dtx'[c].fills
    BY <1>1, NoWritesType DEF Allowed, Filling
  <2> QED BY <2>1, <2>2, <2>3 DEF SessionInv, Prepared, Filling
<1>4. RefsKnown' /\ FilledOnce' /\ NoTwins'
  BY DEF DraftInv, RefsKnown, FilledOnce, Fills, NoTwins, Alike
<1> QED BY <1>2, <1>3, <1>4 DEF DraftInv

(* BeginDraft, for writes that are prepared on the drafts as they are. *)
LEMMA BeginKeeps ==
  ASSUME DraftInv, NEW c \in Client, NEW w, BeginDraft(c, w),
         IsWrites(w), Prepared(w), Filling(w)
  PROVE  DraftInv'
<1>1. Allowed(Begin("other"), w)
  BY BeginType DEF Allowed
<1> QED BY <1>1, SessionKeeps DEF BeginDraft, Open

LEMMA ExecuteKeeps ==
  ASSUME DraftInv, NEW c \in Client, NEW i \in DraftId, BeginExecute(c, i)
  PROVE  DraftInv'
<1> DEFINE w == [NoWrites EXCEPT !.to = To({i}, "executed"), !.fills = i]
<1>0. w = [f \in WritesField |->
            IF f = "to" THEN To({i}, "executed")
            ELSE IF f = "fills" THEN i ELSE NoWrites[f]]
  BY NoWritesRecord DEF w, WritesField
<1> HIDE DEF w
<1>1. /\ w.to = To({i}, "executed") /\ w.fills = i /\ w.new = <<>> /\ DOMAIN w.cut = {}
      /\ w = [f \in WritesField |-> w[f]]
  BY <1>0, NoWritesRecord DEF WritesField
<1>2. DOMAIN w.to = {i} /\ w.to[i] = "executed"
  BY <1>1 DEF To
<1>3. IsWrites(w)
  BY <1>1, <1>2 DEF IsWrites, Final, DraftId
<1>4. i \in DOMAIN drafts /\ drafts[i].status = "pending" /\ BeginDraft(c, w)
  BY DEF BeginExecute, w
<1>5. Prepared(w) /\ Filling(w)
  BY <1>1, <1>2, <1>4 DEF Prepared, Filling
<1> QED BY <1>3, <1>4, <1>5, BeginKeeps

LEMMA CancelKeeps ==
  ASSUME DraftInv, NEW c \in Client, NEW i \in DraftId, BeginCancel(c, i)
  PROVE  DraftInv'
<1> DEFINE w == [NoWrites EXCEPT !.to = To({i}, "cancelled")]
<1>0. w = [f \in WritesField |->
            IF f = "to" THEN To({i}, "cancelled") ELSE NoWrites[f]]
  BY NoWritesRecord DEF w, WritesField
<1> HIDE DEF w
<1>1. /\ w.to = To({i}, "cancelled") /\ w.fills = 0 /\ w.new = <<>> /\ DOMAIN w.cut = {}
      /\ w = [f \in WritesField |-> w[f]]
  BY <1>0, NoWritesRecord DEF WritesField
<1>2. DOMAIN w.to = {i} /\ w.to[i] = "cancelled"
  BY <1>1 DEF To
<1>3. IsWrites(w)
  BY <1>1, <1>2 DEF IsWrites, Final
<1>4. i \in DOMAIN drafts /\ drafts[i].status = "pending" /\ BeginDraft(c, w)
  BY DEF BeginCancel, w
<1>5. Prepared(w) /\ Filling(w)
  BY <1>1, <1>2, <1>4 DEF Prepared, Filling
<1> QED BY <1>3, <1>4, <1>5, BeginKeeps

(* The generator supersedes the pending BUY drafts of the stocks it drafts. *)
LEMMA GenerateKeeps ==
  ASSUME DraftInv, NEW c \in Client, NEW S \in SUBSET Stock, BeginGenerate(c, S)
  PROVE  DraftInv'
<1> DEFINE old == {i \in PendingOf(Stock, "BUY") : drafts[i].until < today}
           rest == PendingOf(S, "BUY") \ old
           to == [i \in old \cup rest |-> IF i \in old THEN "cancelled" ELSE "superseded"]
           new == RowsEach(S, "BUY", FALSE, today + TTL)
           w == [NoWrites EXCEPT !.to = to, !.new = new]
<1>1. BeginDraft(c, w)
  BY DEF BeginGenerate
<1>2. today + TTL \in Nat
  BY DraftConstants, LedgerConstants DEF DraftInv, TypeInv, Day
<1>3. /\ new \in Seq(Draft)
      /\ \A k \in DOMAIN new : new[k].stock \in S /\ new[k].side = "BUY"
      /\ \A k, l \in DOMAIN new : new[k].stock = new[l].stock => k = l
  <2> DEFINE order == SetToSeq(S)
             until == today + TTL
  <2>1. S \in SUBSET Stock /\ until \in Nat
    BY <1>2
  <2>2. order \in Seq(S) /\ \A k, l \in DOMAIN order : order[k] = order[l] => k = l
    BY <2>1, Listing
  <2>3. new = [k \in DOMAIN order |-> NewDraft(order[k], "BUY", FALSE, until)]
    BY DEF RowsEach, new
  <2> HIDE DEF order, new, until
  <2>4. \A k \in DOMAIN order :
            /\ NewDraft(order[k], "BUY", FALSE, until) \in Draft
            /\ NewDraft(order[k], "BUY", FALSE, until).stock = order[k]
            /\ NewDraft(order[k], "BUY", FALSE, until).side = "BUY"
    BY <2>1, <2>2 DEF NewDraft, Draft, DraftStatus
  <2>5. new \in Seq(Draft) /\ DOMAIN new = DOMAIN order
    <3> DEFINE row(k) == NewDraft(order[k], "BUY", FALSE, until)
    <3>1. \A k \in DOMAIN order : row(k) \in Draft
      BY <2>4
    <3>2. new = [k \in DOMAIN order |-> row(k)]
      BY <2>3
    <3> HIDE DEF row
    <3> QED BY <2>2, <3>1, <3>2
  <2>6. \A k \in DOMAIN new : new[k].stock = order[k] /\ new[k].side = "BUY"
    BY <2>3, <2>4, <2>5
  <2> QED BY <2>2, <2>5, <2>6
<1>4. /\ DOMAIN to = old \cup rest /\ \A i \in DOMAIN to : to[i] \in Final
      /\ \A i \in DOMAIN to : i \in DOMAIN drafts /\ drafts[i].status = "pending"
      /\ PendingOf(S, "BUY") \subseteq DOMAIN to
  BY DEF PendingOf, Final
<1> HIDE DEF new, to, old, rest
<1>0. w = [f \in WritesField |->
            IF f = "to" THEN to
            ELSE IF f = "new" THEN new ELSE NoWrites[f]]
  BY NoWritesRecord DEF w, WritesField
<1> HIDE DEF w
<1>5. /\ w.to = to /\ w.fills = 0 /\ w.new = new /\ DOMAIN w.cut = {}
      /\ w = [f \in WritesField |-> w[f]]
  BY <1>0, NoWritesRecord DEF WritesField
<1>6. IsWrites(w)
  BY <1>3, <1>4, <1>5 DEF IsWrites
<1>7. \A k \in DOMAIN new, i \in DOMAIN drafts : Alike(new[k], drafts[i]) => i \in DOMAIN to
  BY <1>3, <1>4 DEF Alike, PendingOf
<1>8. Prepared(w) /\ Filling(w)
  BY <1>3, <1>4, <1>5, <1>7 DEF Prepared, Filling, Alike
<1> QED BY <1>1, <1>6, <1>8, BeginKeeps

(* A breach supersedes the BUY drafts, and drafts a SELL where there is none. *)
LEMMA BreachKeeps ==
  ASSUME DraftInv, NEW c \in Client, NEW S \in SUBSET Stock, NEW part \in BOOLEAN,
         NEW Broken, BeginBreach(c, S, part, Broken)
  PROVE  DraftInv'
<1> DEFINE open == {s \in S : Held(trades, s) # 0}
           sells == PendingOf(open, "SELL")
           covered == {drafts[i].stock : i \in sells}
           to == To(PendingOf(open, "BUY"), "superseded")
           cut == [i \in sells |-> part]
           bare == open \ covered
           new == RowsEach(bare, "SELL", part, LastDay)
           w == [NoWrites EXCEPT !.to = to, !.cut = cut, !.new = new, !.broken = Broken]
<1>1. BeginDraft(c, w)
  BY DEF BeginBreach
<1>2. /\ new \in Seq(Draft)
      /\ \A k \in DOMAIN new : new[k].stock \in bare /\ new[k].side = "SELL"
      /\ \A k, l \in DOMAIN new : new[k].stock = new[l].stock => k = l
  <2> DEFINE order == SetToSeq(bare)
  <2>1. bare \in SUBSET Stock /\ LastDay \in Nat
    BY LedgerConstants
  <2>2. order \in Seq(bare) /\ \A k, l \in DOMAIN order : order[k] = order[l] => k = l
    BY <2>1, Listing
  <2>3. new = [k \in DOMAIN order |-> NewDraft(order[k], "SELL", part, LastDay)]
    BY DEF RowsEach, new
  <2> HIDE DEF order, new, bare
  <2>4. \A k \in DOMAIN order :
            /\ NewDraft(order[k], "SELL", part, LastDay) \in Draft
            /\ NewDraft(order[k], "SELL", part, LastDay).stock = order[k]
            /\ NewDraft(order[k], "SELL", part, LastDay).side = "SELL"
    BY <2>1, <2>2 DEF NewDraft, Draft, DraftStatus
  <2>5. new \in Seq(Draft) /\ DOMAIN new = DOMAIN order
    BY <2>2, <2>3, <2>4
  <2>6. \A k \in DOMAIN new : new[k].stock = order[k] /\ new[k].side = "SELL"
    BY <2>3, <2>4, <2>5
  <2> QED BY <2>2, <2>5, <2>6
<1>3. /\ \A i \in DOMAIN to : to[i] \in Final
      /\ \A i \in DOMAIN to : i \in DOMAIN drafts /\ drafts[i].status = "pending"
      /\ \A i \in DOMAIN cut : cut[i] \in BOOLEAN
  BY DEF PendingOf, Final, To
<1>4. \A k \in DOMAIN new, i \in DOMAIN drafts : ~Alike(new[k], drafts[i])
  <2> SUFFICES ASSUME NEW k \in DOMAIN new, NEW i \in DOMAIN drafts, Alike(new[k], drafts[i])
               PROVE  FALSE
    OBVIOUS
  <2>1. drafts[i].stock \in open \ covered /\ drafts[i].side = "SELL" /\ drafts[i].status = "pending"
    BY <1>2 DEF Alike
  <2>2. i \in sells
    BY <2>1 DEF PendingOf
  <2> QED BY <2>1, <2>2
<1> HIDE DEF new, to, cut
<1>0. w = [f \in WritesField |->
            IF f = "to" THEN to
            ELSE IF f = "cut" THEN cut
            ELSE IF f = "new" THEN new
            ELSE IF f = "broken" THEN Broken ELSE NoWrites[f]]
  BY NoWritesRecord DEF w, WritesField
<1> HIDE DEF w
<1>5. /\ w.to = to /\ w.fills = 0 /\ w.new = new /\ w.cut = cut
      /\ w = [f \in WritesField |-> w[f]]
  BY <1>0, NoWritesRecord DEF WritesField
<1>6. IsWrites(w)
  BY <1>2, <1>3, <1>5 DEF IsWrites
<1>7. Prepared(w) /\ Filling(w)
  BY <1>2, <1>3, <1>4, <1>5 DEF Prepared, Filling, Alike
<1> QED BY <1>1, <1>6, <1>7, BeginKeeps
-----------------------------------------------------------------------------
(* The trade of a user, with a draft or without.                            *)

LEMMA TradeRowType ==
  ASSUME NEW o \in Order, NEW d \in Day, NEW ref \in Nat, today \in Day
  PROVE  /\ TradeRow(o, SignedQty(o), Value(o), d, "manual", ref) \in Row
         /\ TradeRow(o, SignedQty(o), Value(o), d, "manual", ref).ref = ref
<1>1. /\ o.stock \in Stock /\ o.side \in Side /\ o.qty \in Nat /\ o.price \in Nat
      /\ Fee["BUY"] \in Nat /\ Fee["SELL"] \in Nat
  BY LedgerConstants
<1>2. o.price * o.qty \in Nat
  BY <1>1
<1>3. SignedQty(o) \in Int
  BY <1>1 DEF SignedQty, Side
<1>4. Value(o) \in Int
  <2> DEFINE n == o.price * o.qty
  <2>1. n + Fee["BUY"] \in Int /\ n - Fee["SELL"] \in Int /\ -n \in Int
    BY <1>1, <1>2
  <2> HIDE DEF n
  <2>2. \/ Value(o) = n + Fee["BUY"] \/ Value(o) = n - Fee["SELL"]
        \/ Value(o) = -n \/ Value(o) = 0
    BY <1>1 DEF Value, Side, n
  <2> QED BY <2>1, <2>2
<1> QED BY <1>1, <1>3, <1>4 DEF TradeRow, Row

LEMMA TradeTxType ==
  ASSUME NEW o \in Order, NEW d \in Day, NEW ref \in Nat, today \in Day
  PROVE  LET x == TradeTx(o, d, ref)
         IN  /\ IsDraftTx(x) /\ x.op = "trade" /\ x.new[1].ref = ref /\ x.fresh = TRUE
<1> DEFINE row == TradeRow(o, SignedQty(o), Value(o), d, "manual", ref)
           x == TradeTx(o, d, ref)
<1>1. row \in Row /\ row.ref = ref
  BY TradeRowType
<1>2. x = [Begin("trade") EXCEPT !.new = <<row>>]
  BY DEF TradeTx
<1> HIDE DEF row, x
<1>3. /\ Begin("trade") = [f \in TxField |-> Begin("trade")[f]]
      /\ Begin("trade").op = "trade" /\ Begin("trade").undo = 0 /\ Begin("trade").fresh = TRUE
  BY DEF Begin, TxField
<1>4. x = [f \in TxField |-> IF f = "new" THEN <<row>> ELSE Begin("trade")[f]]
  BY <1>2, <1>3 DEF TxField
<1>5. x.op = "trade" /\ x.undo = 0 /\ x.fresh = TRUE /\ x.new = <<row>>
  BY <1>3, <1>4 DEF TxField
<1>6. x = [f \in TxField |-> x[f]]
  BY <1>4
<1>7. IsDraftTx(x)
  BY <1>1, <1>5, <1>6 DEF IsDraftTx
<1> QED BY <1>1, <1>5, <1>7 DEF x

LEMMA EnterKeeps ==
  ASSUME DraftInv, NEW c \in Client, Enter(c)
  PROVE  DraftInv'
<1>1. PICK o \in Order : BeginTrade(c, o, today)
  BY DEF Enter
<1>2. /\ tx[c] = Idle /\ tx' = [tx EXCEPT ![c] = TradeTx(o, today, 0)]
      /\ UNCHANGED <<trades, drafts, overlapped, today, dtx>>
  BY <1>1 DEF BeginTrade, Open, Enter, draftVars
<1>3. dtx[c] = NoWrites /\ dtx' = [dtx EXCEPT ![c] = NoWrites] /\ today \in Day
  BY <1>2 DEF DraftInv, TypeInv
<1>4. Allowed(TradeTx(o, today, 0), NoWrites)
  <2>1. Prepared(NoWrites) /\ Filling(NoWrites)
    BY NoWritesType DEF Prepared, Filling
  <2> DEFINE x == TradeTx(o, today, 0)
  <2>2. /\ IsDraftTx(x) /\ x.op = "trade" /\ x.new[1].ref = 0
    BY <1>3, TradeTxType
  <2> HIDE DEF x
  <2>3. Allowed(x, NoWrites)
    BY <2>1, <2>2, NoWritesType DEF Allowed
  <2> QED BY <2>3 DEF x
<1> QED BY <1>2, <1>3, <1>4, SessionKeeps

(* The flush of execute: the session is not idle, as it writes. *)
LEMMA FlushExecuteKeeps ==
  ASSUME DraftInv, NEW c \in Client, FlushExecute(c)
  PROVE  DraftInv'
<1> DEFINE w == [dtx[c] EXCEPT !.locked = TRUE]
<1>1. /\ tx[c] # Idle /\ IsDraftTx(tx[c]) /\ IsWrites(dtx[c])
      /\ tx' = [tx EXCEPT ![c] = tx[c]] /\ dtx' = [dtx EXCEPT ![c] = w]
      /\ UNCHANGED <<trades, drafts, overlapped, today>>
  BY NoWritesType DEF DraftInv, TypeInv, FlushExecute, ledgerVars
<1>2. w = [f \in WritesField |-> IF f = "locked" THEN TRUE ELSE dtx[c][f]]
  BY <1>1 DEF IsWrites
<1> HIDE DEF w
<1>3. /\ w.to = dtx[c].to /\ w.cut = dtx[c].cut /\ w.new = dtx[c].new /\ w.fills = dtx[c].fills
      /\ w = [f \in WritesField |-> w[f]]
  BY <1>2 DEF WritesField
<1>4. Allowed(tx[c], w)
  <2>1. /\ Filling(dtx[c])
        /\ tx[c].fresh => Prepared(dtx[c])
        /\ tx[c].op = "trade" => tx[c].new[1].ref = dtx[c].fills
    BY <1>1 DEF DraftInv, SessionInv
  <2>2. IsWrites(w)
    BY <1>1, <1>3 DEF IsWrites
  <2>3. Filling(w)
    BY <1>3, <2>1 DEF Filling
  <2>4. tx[c].fresh => Prepared(w)
    BY <1>3, <2>1 DEF Prepared
  <2> QED BY <1>1, <1>3, <2>1, <2>2, <2>3, <2>4 DEF Allowed
<1> QED BY <1>1, <1>4, SessionKeeps

LEMMA FillKeeps ==
  ASSUME DraftInv, NEW c \in Client, NEW o \in Order, Fill(c, o, today)
  PROVE  DraftInv'
<1> DEFINE y == TradeTx(o, today, dtx[c].fills)
           x == [y EXCEPT !.fresh = tx[c].fresh]
<1>1. /\ tx[c].op = "other" /\ tx' = [tx EXCEPT ![c] = x]
      /\ UNCHANGED <<trades, drafts, overlapped, today, dtx>>
  BY DEF Fill, Step, draftVars
<1>2. /\ tx[c] # Idle /\ IsDraftTx(tx[c]) /\ IsWrites(dtx[c]) /\ dtx[c].fills \in Nat /\ today \in Day
      /\ dtx' = [dtx EXCEPT ![c] = dtx[c]] /\ tx[c].fresh \in BOOLEAN
  BY <1>1 DEF DraftInv, TypeInv, Idle, IsDraftTx, IsWrites
<1>3. /\ IsDraftTx(y) /\ y.op = "trade" /\ y.new[1].ref = dtx[c].fills
  BY <1>2, TradeTxType
<1> HIDE DEF y
<1>4. x = [f \in TxField |-> IF f = "fresh" THEN tx[c].fresh ELSE y[f]]
  BY <1>3 DEF IsDraftTx
<1> HIDE DEF x
<1>5. /\ x.op = y.op /\ x.undo = y.undo /\ x.new = y.new /\ x.fresh = tx[c].fresh
      /\ x = [f \in TxField |-> x[f]]
  BY <1>4 DEF TxField
<1>6. IsDraftTx(x)
  BY <1>2, <1>3, <1>5 DEF IsDraftTx
<1>7. Allowed(x, dtx[c])
  BY <1>2, <1>3, <1>5, <1>6 DEF Allowed, DraftInv, SessionInv
<1> QED BY <1>1, <1>2, <1>7, SessionKeeps

(* The balance is read, or the trade is rejected and both parts roll back. *)
LEMMA ReadCashKeeps ==
  ASSUME DraftInv, NEW c \in Client, DraftReadCash(c)
  PROVE  DraftInv'
<1> DEFINE x == [tx[c] EXCEPT !.read = TRUE, !.saw = cash]
<1>1. /\ tx[c].op = "trade" \/ tx[c].op = "reverse" \/ tx[c].op = "adjust"
      /\ tx' = [tx EXCEPT ![c] = x] \/ tx' = [tx EXCEPT ![c] = Idle]
      /\ UNCHANGED <<trades, drafts, overlapped, today>>
  BY DEF DraftReadCash, ReadCash, Step
<1>2. tx[c] # Idle /\ IsDraftTx(tx[c]) /\ IsWrites(dtx[c])
  BY <1>1 DEF DraftInv, TypeInv, Idle
<1>3. x = [f \in TxField |-> IF f = "read" THEN TRUE ELSE IF f = "saw" THEN cash ELSE tx[c][f]]
  BY <1>2 DEF IsDraftTx, TxField
<1> HIDE DEF x
<1>4. /\ x.op = tx[c].op /\ x.undo = tx[c].undo /\ x.new = tx[c].new /\ x.fresh = tx[c].fresh
      /\ x = [f \in TxField |-> x[f]]
  BY <1>3 DEF TxField
<1>5. IsDraftTx(x) /\ x # Idle
  <2>1. IsDraftTx(x)
    BY <1>2, <1>4 DEF IsDraftTx
  <2> QED BY <2>1, NotIdle
<1>6. CASE tx' = [tx EXCEPT ![c] = x]
  <2>1. dtx' = [dtx EXCEPT ![c] = dtx[c]]
    <3>1. tx'[c] = x
      BY <1>6 DEF DraftInv, TypeInv
    <3> QED BY <1>5, <3>1 DEF DraftReadCash, DraftInv, TypeInv
  <2>2. Allowed(x, dtx[c])
    BY <1>2, <1>4, <1>5 DEF Allowed, DraftInv, SessionInv
  <2> QED BY <1>1, <1>6, <2>1, <2>2, SessionKeeps
<1>7. CASE tx' = [tx EXCEPT ![c] = Idle]
  <2>1. dtx' = [dtx EXCEPT ![c] = NoWrites]
    <3>1. tx'[c] = Idle
      BY <1>7 DEF DraftInv, TypeInv
    <3> QED BY <3>1 DEF DraftReadCash
  <2> QED BY <1>1, <1>7, <2>1, SessionKeeps DEF Allowed
<1> QED BY <1>1, <1>6, <1>7

LEMMA DraftRollbackKeeps ==
  ASSUME DraftInv, NEW c \in Client, DraftRollback(c)
  PROVE  DraftInv'
<1>1. /\ tx' = [tx EXCEPT ![c] = Idle] /\ dtx' = [dtx EXCEPT ![c] = NoWrites]
      /\ UNCHANGED <<trades, drafts, overlapped, today>>
  BY DEF DraftRollback, Rollback, Step
<1> QED BY <1>1, SessionKeeps DEF Allowed
-----------------------------------------------------------------------------
(* The commit.                                                              *)

(* What a commit does: the rows of the session are appended, its writes are *)
(* made, and the other sessions are no longer fresh.                        *)
LEMMA CommitDoes ==
  ASSUME DraftInv, NEW c \in Client, DraftCommit(c)
  PROVE  LET x == tx[c]
             w == dtx[c]
         IN  /\ IsDraftTx(x) /\ IsWrites(w) /\ Filling(w)
             /\ x.fresh => Prepared(w)
             /\ x.op = "trade" => x.new[1].ref = w.fills
             /\ trades' = trades \o x.new
             /\ ~overlapped' => ~overlapped /\ x.fresh
             /\ today' = today
<1>1. tx[c] # Idle
  BY DEF DraftCommit, Commit
<1>2. IsDraftTx(tx[c]) /\ IsWrites(dtx[c])
  BY <1>1 DEF DraftInv, TypeInv
<1>3. trades' = trades \o tx[c].new /\ today' = today
  BY <1>2 DEF DraftCommit, Commit, IsDraftTx
<1>4. ~overlapped' => ~overlapped /\ tx[c].fresh
  BY DEF DraftCommit, Commit
<1> QED BY <1>1, <1>2, <1>3, <1>4 DEF DraftInv, SessionInv

LEMMA CommitSessions ==
  ASSUME DraftInv, NEW c \in Client, DraftCommit(c)
  PROVE  /\ tx' = [d \in Client |-> tx'[d]] /\ dtx' = [d \in Client |-> dtx'[d]]
         /\ tx'[c] = Idle /\ dtx'[c] = NoWrites
         /\ \A d \in Client \ {c} :
               /\ dtx'[d] = dtx[d]
               /\ tx[d] = Idle => tx'[d] = Idle
               /\ tx[d] # Idle => /\ IsDraftTx(tx'[d]) /\ ~tx'[d].fresh
                                  /\ tx'[d].op = tx[d].op /\ tx'[d].new = tx[d].new
<1>1. tx' = [d \in Client |-> CASE d = c -> Idle
                                [] d # c /\ tx[d] = Idle -> Idle
                                [] OTHER -> [tx[d] EXCEPT !.fresh = FALSE]]
  BY DEF DraftCommit, Commit
<1>2. /\ tx'[c] = Idle
      /\ \A d \in Client \ {c} : tx[d] = Idle => tx'[d] = Idle
      /\ \A d \in Client \ {c} : tx[d] # Idle => tx'[d] = [tx[d] EXCEPT !.fresh = FALSE]
  BY <1>1
<1>3. tx' = [d \in Client |-> tx'[d]]
  BY <1>1
<1>4. /\ dtx' = [d \in Client |-> dtx'[d]] /\ dtx'[c] = NoWrites
      /\ \A d \in Client \ {c} : dtx'[d] = dtx[d]
  BY DEF DraftCommit, DraftInv, TypeInv
<1>5. ASSUME NEW d \in Client \ {c}, tx[d] # Idle
      PROVE  /\ IsDraftTx(tx'[d]) /\ ~tx'[d].fresh
             /\ tx'[d].op = tx[d].op /\ tx'[d].new = tx[d].new
  <2>1. IsDraftTx(tx[d])
    BY <1>5 DEF DraftInv, TypeInv
  <2>2. tx'[d] = [tx[d] EXCEPT !.fresh = FALSE]
    BY <1>2, <1>5
  <2> QED BY <2>1, <2>2, StaleType
<1> QED BY <1>2, <1>3, <1>4, <1>5

(* What a concatenation holds. *)
LEMMA Joined ==
  ASSUME NEW S, NEW a \in Seq(S), NEW b \in Seq(S)
  PROVE  /\ a \o b \in Seq(S) /\ Len(a \o b) = Len(a) + Len(b)
         /\ \A i \in 1..Len(a) : (a \o b)[i] = a[i]
         /\ \A i \in (Len(a) + 1)..(Len(a) + Len(b)) : (a \o b)[i] = b[i - Len(a)]
  OBVIOUS

(* The elements of a sequence over a set are members of it. *)
LEMMA Entries ==
  ASSUME NEW S, NEW q \in Seq(S), NEW k \in DOMAIN q
  PROVE  q[k] \in S
  OBVIOUS

(* The drafts after a commit. *)
LEMMA CommitDrafts ==
  ASSUME DraftInv, NEW c \in Client, DraftCommit(c)
  PROVE  LET w == dtx[c]
             n == Len(drafts)
         IN  /\ drafts' \in Seq(Draft) /\ n \in Nat /\ DOMAIN drafts = 1..n
             /\ DOMAIN drafts' = 1..(n + Len(w.new)) /\ Len(w.new) \in Nat
             /\ \A i \in DOMAIN drafts :
                   /\ i \in DOMAIN drafts'
                   /\ drafts'[i].stock = drafts[i].stock /\ drafts'[i].side = drafts[i].side
                   /\ i \in DOMAIN w.to => drafts'[i].status = w.to[i]
                   /\ i \notin DOMAIN w.to => drafts'[i].status = drafts[i].status
                   /\ i \in DOMAIN w.cut => drafts'[i].part = w.cut[i]
             /\ \A i \in DOMAIN drafts' \ DOMAIN drafts :
                   i - n \in DOMAIN w.new /\ drafts'[i] = w.new[i - n]
             /\ \A k \in DOMAIN w.new : n + k \in DOMAIN drafts' /\ drafts'[n + k] = w.new[k]
<1> DEFINE w == dtx[c]
           n == Len(drafts)
           st(i) == IF i \in DOMAIN w.to THEN w.to[i] ELSE drafts[i].status
           pt(i) == IF i \in DOMAIN w.cut THEN w.cut[i] ELSE drafts[i].part
           row(i) == [drafts[i] EXCEPT !.status = st(i), !.part = pt(i)]
           old == [i \in DOMAIN drafts |-> row(i)]
<1>1. IsWrites(w) /\ drafts \in Seq(Draft) /\ w.new \in Seq(Draft)
  BY CommitDoes DEF DraftInv, TypeInv, IsWrites
<1>2. n \in Nat /\ DOMAIN drafts = 1..n /\ Len(w.new) \in Nat /\ DOMAIN w.new = 1..Len(w.new)
  BY <1>1
<1>3. drafts' = old \o w.new
  BY DEF DraftCommit
<1>4. ASSUME NEW i \in DOMAIN drafts
      PROVE  /\ row(i) \in Draft /\ row(i).status = st(i)
             /\ row(i).stock = drafts[i].stock /\ row(i).side = drafts[i].side
             /\ i \in DOMAIN w.cut => row(i).part = w.cut[i]
  <2>1. drafts[i] \in Draft
    BY <1>1
  <2>2. st(i) \in DraftStatus
    BY <1>1, <2>1 DEF IsWrites, Draft, DraftStatus, Final
  <2>3. pt(i) \in BOOLEAN
    BY <1>1, <2>1 DEF IsWrites, Draft
  <2>4. ASSUME i \in DOMAIN w.cut PROVE pt(i) = w.cut[i]
    BY <2>4
  <2> HIDE DEF st, pt
  <2>5. row(i) \in Draft /\ row(i).status = st(i) /\ row(i).part = pt(i)
        /\ row(i).stock = drafts[i].stock /\ row(i).side = drafts[i].side
    BY <2>1, <2>2, <2>3 DEF Draft
  <2> HIDE DEF row
  <2>6. i \in DOMAIN w.cut => row(i).part = w.cut[i]
    BY <2>4, <2>5
  <2> QED BY <2>5, <2>6
<1> HIDE DEF w, n, row
<1>5. old \in Seq(Draft) /\ Len(old) = n /\ \A i \in DOMAIN drafts : old[i] = row(i)
  BY <1>2, <1>4
<1> HIDE DEF old, st, pt
<1>6. /\ drafts' \in Seq(Draft) /\ Len(drafts') = n + Len(w.new)
      /\ \A i \in 1..n : drafts'[i] = old[i]
      /\ \A i \in (n + 1)..(n + Len(w.new)) : drafts'[i] = w.new[i - n]
  BY <1>1, <1>3, <1>5, Joined
<1>7. DOMAIN drafts' = 1..(n + Len(w.new))
  BY <1>6
<1>8. \A i \in DOMAIN drafts :
          /\ i \in DOMAIN drafts'
          /\ drafts'[i].stock = drafts[i].stock /\ drafts'[i].side = drafts[i].side
          /\ i \in DOMAIN w.to => drafts'[i].status = w.to[i]
          /\ i \notin DOMAIN w.to => drafts'[i].status = drafts[i].status
          /\ i \in DOMAIN w.cut => drafts'[i].part = w.cut[i]
  <2> SUFFICES ASSUME NEW i \in DOMAIN drafts
               PROVE  /\ i \in DOMAIN drafts'
                      /\ drafts'[i].stock = drafts[i].stock /\ drafts'[i].side = drafts[i].side
                      /\ i \in DOMAIN w.to => drafts'[i].status = w.to[i]
                      /\ i \notin DOMAIN w.to => drafts'[i].status = drafts[i].status
                      /\ i \in DOMAIN w.cut => drafts'[i].part = w.cut[i]
    OBVIOUS
  <2>1. i \in DOMAIN drafts' /\ drafts'[i] = row(i)
    BY <1>2, <1>5, <1>6, <1>7
  <2>2. st(i) = IF i \in DOMAIN w.to THEN w.to[i] ELSE drafts[i].status
    BY DEF st
  <2> QED BY <1>4, <2>1, <2>2
<1>9. \A i \in DOMAIN drafts' \ DOMAIN drafts :
          i - n \in DOMAIN w.new /\ drafts'[i] = w.new[i - n]
  BY <1>2, <1>6, <1>7
<1>10. \A k \in DOMAIN w.new : n + k \in DOMAIN drafts' /\ drafts'[n + k] = w.new[k]
  <2> SUFFICES ASSUME NEW k \in DOMAIN w.new
               PROVE  n + k \in DOMAIN drafts' /\ drafts'[n + k] = w.new[k]
    OBVIOUS
  <2>1. k \in 1..Len(w.new) /\ n + k \in (n + 1)..(n + Len(w.new)) /\ (n + k) - n = k
    BY <1>2
  <2> QED BY <1>2, <1>6, <1>7, <2>1
<1> QED BY <1>2, <1>6, <1>7, <1>8, <1>9, <1>10 DEF w, n
(* A transaction adds no row or one. *)
LEMMA Longer ==
  ASSUME NEW R, NEW q \in Seq(R), NEW r \in R
  PROVE  /\ q \o <<>> = q
         /\ q \o <<r>> \in Seq(R)
         /\ DOMAIN q = 1..Len(q) /\ DOMAIN (q \o <<r>>) = 1..(Len(q) + 1)
         /\ \A k \in 1..Len(q) : (q \o <<r>>)[k] = q[k]
         /\ (q \o <<r>>)[Len(q) + 1] = r
  OBVIOUS

LEMMA CommitTradeRows ==
  ASSUME DraftInv, NEW c \in Client, DraftCommit(c)
  PROVE  \/ trades' = trades
         \/ \E r \in Row : trades' = trades \o <<r>> /\ r.ref = dtx[c].fills
<1>1. /\ IsDraftTx(tx[c]) /\ trades' = trades \o tx[c].new
      /\ tx[c].op = "trade" => tx[c].new[1].ref = dtx[c].fills
  BY CommitDoes
<1>2. trades \in Seq(Row)
  BY DEF DraftInv, TypeInv
<1>3. CASE tx[c].op = "other"
  <2>1. trades' = trades \o <<>>
    BY <1>1, <1>3 DEF IsDraftTx
  <2> QED BY <1>2, <2>1
<1>4. CASE tx[c].op = "trade"
  <2>1. PICK r \in Row : tx[c].new = <<r>>
    BY <1>1, <1>4 DEF IsDraftTx
  <2>2. r.ref = dtx[c].fills
    BY <1>1, <1>4, <2>1
  <2>3. trades' = trades \o <<r>>
    BY <1>1, <2>1
  <2> QED BY <2>2, <2>3
<1> QED BY <1>1, <1>3, <1>4 DEF IsDraftTx

LEMMA CommitType ==
  ASSUME DraftInv, NEW c \in Client, DraftCommit(c)
  PROVE  TypeInv'
<1>1. \A d \in Client : /\ tx'[d] = Idle \/ IsDraftTx(tx'[d])
                        /\ IsWrites(dtx'[d])
                        /\ tx'[d] = Idle => dtx'[d] = NoWrites
  <2>1. ASSUME NEW d \in Client \ {c}, tx[d] # Idle
        PROVE  tx'[d] # Idle /\ IsDraftTx(tx'[d]) /\ IsWrites(dtx'[d])
    BY <2>1, CommitSessions, NotIdle DEF DraftInv, TypeInv
  <2>2. ASSUME NEW d \in Client \ {c}, tx[d] = Idle
        PROVE  tx'[d] = Idle /\ dtx'[d] = NoWrites
    BY <2>2, CommitSessions DEF DraftInv, TypeInv
  <2>3. tx'[c] = Idle /\ dtx'[c] = NoWrites
    BY CommitSessions
  <2> QED BY <2>1, <2>2, <2>3, NoWritesType
<1>2. today' \in Day /\ drafts' \in Seq(Draft)
  BY CommitDoes, CommitDrafts DEF DraftInv, TypeInv
<1>3. trades' \in Seq(Row)
  <2>1. trades \in Seq(Row)
    BY DEF DraftInv, TypeInv
  <2>2. CASE trades' = trades
    BY <2>1, <2>2
  <2>3. CASE \E r \in Row : trades' = trades \o <<r>>
    <3>1. PICK r \in Row : trades' = trades \o <<r>>
      BY <2>3
    <3> QED BY <2>1, <3>1, Longer
  <2> QED BY <2>2, <2>3, CommitTradeRows
<1>4. tx' = [d \in Client |-> tx'[d]] /\ dtx' = [d \in Client |-> dtx'[d]]
  BY CommitSessions
<1> QED BY <1>1, <1>2, <1>3, <1>4 DEF TypeInv

(* The other sessions have lost their freshness; their drafts are still there. *)
LEMMA CommitSessionInv ==
  ASSUME DraftInv, NEW c \in Client, DraftCommit(c)
  PROVE  SessionInv'
<1>1. /\ drafts' \in Seq(Draft) /\ drafts \in Seq(Draft)
      /\ DOMAIN drafts \subseteq DOMAIN drafts'
  BY CommitDrafts DEF DraftInv, TypeInv
<1>2. \A d \in Client : Filling(dtx[d])
  BY DEF DraftInv, SessionInv
<1>3. \A d \in Client \ {c} : /\ tx'[d] # Idle => ~tx'[d].fresh
                              /\ dtx'[d] = dtx[d]
                              /\ tx'[d] # Idle /\ tx'[d].op = "trade"
                                    => tx'[d].new[1].ref = dtx'[d].fills
  BY CommitSessions DEF DraftInv, SessionInv
<1>4. tx'[c] = Idle /\ dtx'[c] = NoWrites
  BY CommitSessions
<1>5. \A d \in Client : dtx'[d].fills # 0 =>
          /\ dtx'[d].fills \in DOMAIN drafts'
          /\ dtx'[d].fills \in DOMAIN dtx'[d].to /\ dtx'[d].to[dtx'[d].fills] = "executed"
  BY <1>1, <1>2, <1>3, <1>4, NoWritesType DEF Filling
<1>6. \A d \in Client : tx'[d] # Idle => ~tx'[d].fresh
  BY <1>3, <1>4
<1> QED BY <1>3, <1>4, <1>5, <1>6 DEF SessionInv, Filling

(* Executed by a fresh session, a draft was pending, so no trade had filled it. *)
LEMMA CommitFilledOnce ==
  ASSUME DraftInv, NEW c \in Client, DraftCommit(c)
  PROVE  RefsKnown' /\ FilledOnce'
<1> DEFINE x == tx[c]
           w == dtx[c]
           n == Len(trades)
<1>1. /\ IsDraftTx(x) /\ Filling(w) /\ IsWrites(w)
      /\ x.fresh => Prepared(w)
      /\ x.op = "trade" => x.new[1].ref = w.fills
      /\ trades' = trades \o x.new
      /\ ~overlapped' => ~overlapped /\ x.fresh
  BY CommitDoes
<1>2. /\ \A i \in DOMAIN drafts :
            /\ i \in DOMAIN drafts'
            /\ i \in DOMAIN w.to => drafts'[i].status = w.to[i]
            /\ i \notin DOMAIN w.to => drafts'[i].status = drafts[i].status
      /\ DOMAIN drafts \subseteq DOMAIN drafts'
      /\ Len(drafts) \in Nat /\ DOMAIN drafts = 1..Len(drafts)
      /\ drafts' \in Seq(Draft) /\ Len(drafts) <= Len(drafts')
      /\ DOMAIN drafts' = 1..Len(drafts')
  BY CommitDrafts
<1>3. trades \in Seq(Row) /\ n \in Nat /\ DOMAIN trades = 1..n
  BY DEF DraftInv, TypeInv
<1>4. \A k \in 1..n : trades[k].ref \in Nat
  <2>1. \A k \in 1..n : trades[k] \in Row
    BY <1>3
  <2> QED BY <2>1 DEF Row
<1>5. \/ /\ DOMAIN trades' = 1..n
         /\ \A k \in 1..n : trades'[k] = trades[k]
      \/ /\ DOMAIN trades' = 1..(n + 1)
         /\ \A k \in 1..n : trades'[k] = trades[k]
         /\ trades'[n + 1].ref = w.fills
  <2>1. CASE trades' = trades
    BY <1>3, <2>1
  <2>2. ASSUME NEW r \in Row, trades' = trades \o <<r>>, r.ref = w.fills
        PROVE  /\ DOMAIN trades' = 1..(n + 1)
               /\ \A k \in 1..n : trades'[k] = trades[k]
               /\ trades'[n + 1].ref = w.fills
    <3> DEFINE all == trades \o <<r>>
    <3>1. /\ DOMAIN all = 1..(n + 1) /\ all[n + 1] = r
          /\ \A k \in 1..n : all[k] = trades[k]
      BY <1>3, Longer
    <3> HIDE DEF all
    <3>2. trades' = all
      BY <2>2 DEF all
    <3> QED BY <2>2, <3>1, <3>2
  <2> QED BY <2>1, <2>2, CommitTradeRows
<1> HIDE DEF x, w, n
<1>6. \A k \in DOMAIN trades' : trades'[k].source = "manual" => trades'[k].ref <= Len(drafts)
  <2>1. w.fills <= Len(drafts)
    BY <1>1, <1>2 DEF Filling
  <2> QED BY <1>3, <1>5, <2>1 DEF DraftInv, RefsKnown
<1>7. RefsKnown'
  <2>1. \A k \in DOMAIN trades' : trades'[k].source = "manual" => trades'[k].ref \in Nat
    BY <1>1, <1>3, <1>4, <1>5 DEF IsWrites
  <2> QED BY <1>2, <1>6, <2>1 DEF RefsKnown
<1>8. ASSUME NEW i \in DOMAIN drafts', Fills(i)' # {}
      PROVE  /\ drafts'[i].status # "pending"
             /\ ~overlapped' => drafts'[i].status = "executed" /\ Cardinality(Fills(i)') = 1
  <2>1. i \in DOMAIN drafts
    BY <1>2, <1>6, <1>8 DEF Fills
  <2>2. i # 0
    BY <1>2, <2>1
  <2>3. CASE Fills(i)' = Fills(i)
    <3>1. Fills(i) # {}
      BY <1>8, <2>3
    <3>2. /\ drafts[i].status # "pending"
          /\ ~overlapped => drafts[i].status = "executed" /\ Cardinality(Fills(i)) = 1
      BY <2>1, <3>1 DEF DraftInv, FilledOnce
    <3>3. drafts'[i].status # "pending"
      BY <1>1, <1>2, <2>1, <3>2 DEF IsWrites, Final
    <3>4. ~overlapped' => i \notin DOMAIN w.to
      BY <1>1, <3>2 DEF Prepared
    <3> QED BY <1>1, <1>2, <2>1, <2>3, <3>2, <3>3, <3>4
  <2>4. CASE Fills(i)' = Fills(i) \cup {n + 1} /\ w.fills = i
    <3>1. i \in DOMAIN w.to /\ drafts'[i].status = "executed"
      BY <1>1, <1>2, <2>1, <2>2, <2>4 DEF Filling
    <3>2. ~overlapped' => drafts[i].status = "pending"
      BY <1>1, <3>1 DEF Prepared
    <3>3. ~overlapped' => Fills(i) = {}
      BY <2>1, <3>2 DEF DraftInv, FilledOnce
    <3>4. ~overlapped' => Fills(i)' = {n + 1}
      BY <2>4, <3>3
    <3> QED BY <3>1, <3>4, FS_Singleton
  <2> QED
    <3>1. \A k \in 1..n : k \in Fills(i)' <=> k \in Fills(i)
      BY <1>3, <1>5 DEF Fills
    <3>2. Fills(i) \subseteq 1..n
      BY <1>3 DEF Fills
    <3>3. Fills(i)' \subseteq 1..(n + 1)
      BY <1>3, <1>5 DEF Fills
    <3>4. n + 1 \in Fills(i)' => w.fills = i
      BY <1>3, <1>5 DEF Fills
    <3>5. \A k \in 1..(n + 1) : k \in 1..n \/ k = n + 1
      BY <1>3
    <3> QED BY <2>3, <2>4, <3>1, <3>2, <3>3, <3>4, <3>5
<1> QED BY <1>7, <1>8 DEF FilledOnce

LEMMA CommitNoTwins ==
  ASSUME DraftInv, NEW c \in Client, DraftCommit(c)
  PROVE  NoTwins'
<1> DEFINE w == dtx[c]
           n == Len(drafts)
<1>1. /\ ~overlapped' => ~overlapped /\ Prepared(w)
      /\ IsWrites(w)
  BY CommitDoes
<1>2. /\ DOMAIN drafts = 1..n /\ n \in Nat /\ Len(w.new) \in Nat
      /\ DOMAIN drafts' = 1..(n + Len(w.new))
      /\ \A i \in DOMAIN drafts :
            /\ drafts'[i].stock = drafts[i].stock /\ drafts'[i].side = drafts[i].side
            /\ i \in DOMAIN w.to => drafts'[i].status = w.to[i]
            /\ i \notin DOMAIN w.to => drafts'[i].status = drafts[i].status
      /\ \A i \in DOMAIN drafts' \ DOMAIN drafts :
            i - n \in DOMAIN w.new /\ drafts'[i] = w.new[i - n]
  BY CommitDrafts
<1> HIDE DEF w, n
<1> SUFFICES ASSUME ~overlapped', NEW i \in DOMAIN drafts', NEW j \in DOMAIN drafts',
                    Alike(drafts'[i], drafts'[j])
             PROVE  i = j
  BY DEF NoTwins, Alike
<1>3. ~overlapped /\ Prepared(w)
  BY <1>1
<1>4. \A k \in DOMAIN drafts : drafts'[k].status = "pending" =>
          k \notin DOMAIN w.to /\ drafts[k].status = "pending"
  BY <1>1, <1>2 DEF IsWrites, Final
<1>5. CASE i \in DOMAIN drafts /\ j \in DOMAIN drafts
  <2>1. Alike(drafts[i], drafts[j])
    BY <1>2, <1>4, <1>5 DEF Alike
  <2> QED BY <1>3, <1>5, <2>1 DEF DraftInv, NoTwins
<1>6. CASE i \notin DOMAIN drafts /\ j \notin DOMAIN drafts
  <2>1. i - n = j - n
    BY <1>2, <1>3, <1>6 DEF Prepared
  <2> QED BY <1>2, <2>1
<1>7. ASSUME NEW k \in DOMAIN drafts, NEW l \in DOMAIN drafts', l \notin DOMAIN drafts
      PROVE  ~Alike(drafts'[l], drafts'[k])
  <2> SUFFICES ASSUME Alike(drafts'[l], drafts'[k])
               PROVE  FALSE
    OBVIOUS
  <2>1. k \notin DOMAIN w.to /\ drafts[k].status = "pending"
    BY <1>4 DEF Alike
  <2>2. l - n \in DOMAIN w.new /\ Alike(w.new[l - n], drafts[k])
    BY <1>2, <1>7, <2>1 DEF Alike
  <2> QED BY <1>3, <2>1, <2>2 DEF Prepared
<1>8. Alike(drafts'[j], drafts'[i])
  BY DEF Alike
<1> QED BY <1>5, <1>6, <1>7, <1>8

LEMMA DraftCommitKeeps ==
  ASSUME DraftInv, NEW c \in Client, DraftCommit(c)
  PROVE  DraftInv'
<1> QED BY CommitType, CommitSessionInv, CommitFilledOnce, CommitNoTwins DEF DraftInv
-----------------------------------------------------------------------------
(* The invariant.                                                           *)

LEMMA InitInv == DraftInit => DraftInv
<1> SUFFICES ASSUME DraftInit
             PROVE  DraftInv
  OBVIOUS
<1>1. TypeInv
  BY NoWritesType, LedgerConstants DEF DraftInit, LedgerInit, TypeInv, Day
<1>2. SessionInv
  BY NoWritesType DEF DraftInit, LedgerInit, SessionInv, Filling
<1>3. RefsKnown /\ FilledOnce /\ NoTwins
  BY DEF DraftInit, LedgerInit, RefsKnown, FilledOnce, NoTwins
<1> QED BY <1>1, <1>2, <1>3 DEF DraftInv

LEMMA SameTables ==
  ASSUME DraftInv, UNCHANGED <<trades, drafts, tx, dtx, overlapped>>, today' \in Day
  PROVE  DraftInv'
<1>1. TypeInv'
  BY DEF DraftInv, TypeInv
<1>2. SessionInv'
  BY DEF DraftInv, SessionInv, Prepared, Filling
<1>3. RefsKnown' /\ FilledOnce' /\ NoTwins'
  BY DEF DraftInv, RefsKnown, FilledOnce, Fills, NoTwins, Alike
<1> QED BY <1>1, <1>2, <1>3 DEF DraftInv

LEMMA NextDayKeeps ==
  ASSUME DraftInv, NextDay, UNCHANGED draftVars
  PROVE  DraftInv'
<1>1. /\ UNCHANGED <<trades, drafts, tx, dtx, overlapped>>
      /\ today < LastDay /\ today' = today + 1
  BY DEF NextDay, draftVars
<1>2. today' \in Day
  BY <1>1, LedgerConstants DEF DraftInv, TypeInv, Day
<1> QED BY <1>1, <1>2, SameTables

LEMMA DraftStutterKeeps ==
  ASSUME DraftInv, UNCHANGED vars
  PROVE  DraftInv'
<1>1. UNCHANGED <<trades, drafts, tx, dtx, overlapped, today>>
  BY DEF vars, ledgerVars, draftVars
<1> QED BY <1>1, SameTables DEF DraftInv, TypeInv

LEMMA NextKeeps == DraftInv /\ [Next]_vars => DraftInv'
<1> SUFFICES ASSUME DraftInv, [Next]_vars
             PROVE  DraftInv'
  OBVIOUS
<1>1. ASSUME NEW c \in Client, ServeDraft(c)
      PROVE  DraftInv'
  <2>1. CASE Enter(c)
    BY <2>1, EnterKeeps
  <2>2. ASSUME NEW i \in DraftId, BeginExecute(c, i)
        PROVE  DraftInv'
    BY <2>2, ExecuteKeeps
  <2>3. ASSUME NEW i \in DraftId, BeginCancel(c, i)
        PROVE  DraftInv'
    BY <2>3, CancelKeeps
  <2>4. CASE FlushExecute(c)
    BY <2>4, FlushExecuteKeeps
  <2>5. ASSUME NEW o \in Order, Fill(c, o, today)
        PROVE  DraftInv'
    BY <2>5, FillKeeps
  <2>6. ASSUME NEW S \in SUBSET Stock, BeginGenerate(c, S)
        PROVE  DraftInv'
    BY <2>6, GenerateKeeps
  <2>7. ASSUME NEW S \in SUBSET Stock, SellTrigger(c, S)
        PROVE  DraftInv'
    BY <2>7, BreachKeeps DEF SellTrigger
  <2>8. ASSUME NEW s \in Stock, ThesisBreach(c, s)
        PROVE  DraftInv'
    <3>1. {s} \in SUBSET Stock
      OBVIOUS
    <3> QED BY <2>8, <3>1, BreachKeeps DEF ThesisBreach
  <2>9. CASE DraftReadCash(c)
    BY <2>9, ReadCashKeeps
  <2>10. CASE DraftCommit(c)
    BY <2>10, DraftCommitKeeps
  <2>11. CASE DraftRollback(c)
    BY <2>11, DraftRollbackKeeps
  <2> QED BY <1>1, <2>1, <2>2, <2>3, <2>4, <2>5, <2>6, <2>7, <2>8, <2>9, <2>10, <2>11
          DEF ServeDraft
<1>2. CASE NextDay /\ UNCHANGED draftVars
  BY <1>2, NextDayKeeps
<1>3. CASE UNCHANGED vars
  BY <1>3, DraftStutterKeeps
<1> QED BY <1>1, <1>2, <1>3 DEF Next

LEMMA Invariance == Spec => []DraftInv
<1> QED BY InitInv, NextKeeps, PTL DEF Spec
-----------------------------------------------------------------------------
(* Theorems.                                                                *)

(* For every number of sessions: a draft that a trade has filled is never   *)
(* pending again, and unless transactions have overlapped it is executed    *)
(* and filled by one trade (draft_service.execute, draft_execution).        *)
THEOREM DraftsAreFilledOnce == Spec => []FilledOnce
<1>1. DraftInv => FilledOnce
  BY DEF DraftInv
<1> QED BY <1>1, Invariance, PTL

(* Two drafts that may not be pending beside each other, counted. *)
LEMMA Counted == DraftInv => OneOpenDraft
<1> SUFFICES ASSUME DraftInv, ~overlapped, NEW s \in Stock, NEW side \in {"BUY", "SELL"}
             PROVE  Cardinality(PendingOf({s}, side)) <= 1
  BY DEF OneOpenDraft
<1> DEFINE P == PendingOf({s}, side)
<1>1. \A i, j \in P : i = j
  BY DEF DraftInv, NoTwins, Alike, PendingOf
<1> HIDE DEF P
<1>2. P = {} \/ \E i : P = {i}
  BY <1>1
<1>3. Cardinality(P) <= 1
  <2>1. CASE P = {}
    BY <2>1, FS_EmptySet
  <2>2. ASSUME NEW i, P = {i}
        PROVE  Cardinality(P) = 1
    BY <2>2, FS_Singleton
  <2> QED BY <1>2, <2>1, <2>2
<1> QED BY <1>3 DEF P

(* Unless transactions have overlapped, a stock has at most one pending BUY *)
(* and one pending SELL draft (draft_generator, sell_trigger, draft_service). *)
THEOREM OneDraftIsOpen == Spec => []OneOpenDraft
<1> QED BY Counted, Invariance, PTL

(* Drafts change in commits only. *)
LEMMA DraftsChangeInCommits ==
  ASSUME [Next]_vars, drafts' # drafts
  PROVE  \E c \in Client : DraftCommit(c)
<1>1. ~UNCHANGED vars /\ ~UNCHANGED draftVars
  BY DEF vars, draftVars
<1>2. PICK c \in Client : ServeDraft(c)
  BY <1>1 DEF Next
<1>3. ~DraftReadCash(c) /\ ~DraftRollback(c) /\ ~Enter(c) /\ ~FlushExecute(c)
  BY <1>1 DEF DraftReadCash, DraftRollback, Enter, FlushExecute
<1>4. \A o \in Order : ~Fill(c, o, today)
  BY <1>1 DEF Fill
<1>5. \A w : ~BeginDraft(c, w)
  BY DEF BeginDraft
<1>6. /\ \A i \in DraftId : ~BeginExecute(c, i) /\ ~BeginCancel(c, i)
      /\ \A S \in SUBSET Stock : ~BeginGenerate(c, S) /\ ~SellTrigger(c, S)
      /\ \A s \in Stock : ~ThesisBreach(c, s)
  BY <1>5 DEF BeginExecute, BeginCancel, BeginGenerate, SellTrigger, ThesisBreach, BeginBreach
<1> QED BY <1>2, <1>3, <1>4, <1>6 DEF ServeDraft

(* Unless transactions have overlapped, a draft that has left "pending"     *)
(* keeps the status it got.                                                 *)
THEOREM SettledDraftsAreFinal == Spec => SettledDraftIsFinal
<1> DEFINE Keeps == \A i \in DOMAIN drafts :
                             drafts[i].status # "pending" /\ ~overlapped'
                                 => drafts'[i].status = drafts[i].status
<1>1. DraftInv /\ [Next]_vars => Keeps
  <2> SUFFICES ASSUME DraftInv, [Next]_vars, NEW i \in DOMAIN drafts,
                      drafts[i].status # "pending", ~overlapped'
               PROVE  drafts'[i].status = drafts[i].status
    OBVIOUS
  <2>1. CASE drafts' = drafts
    BY <2>1
  <2>2. ASSUME NEW c \in Client, DraftCommit(c)
        PROVE  drafts'[i].status = drafts[i].status
    <3>1. Prepared(dtx[c])
      BY <2>2, CommitDoes
    <3>2. i \notin DOMAIN dtx[c].to
      BY <3>1 DEF Prepared
    <3> QED BY <2>2, <3>2, CommitDrafts
  <2> QED BY <2>1, <2>2, DraftsChangeInCommits
<1> QED BY <1>1, Invariance, PTL DEF Spec, SettledDraftIsFinal
-----------------------------------------------------------------------------
(* The breach of a thesis.  Whether the stock is held is asked when the      *)
(* session begins, so nothing of how a position is computed is needed.       *)

Pends(d, s, side) == d.stock = s /\ d.side = side /\ d.status = "pending"

(* Committed on the drafts as they are, w leaves no pending BUY of s, and a  *)
(* pending SELL of all of it: one it updates or one it brings.               *)
Sells(w, s) ==
    /\ \A i \in DOMAIN drafts : Pends(drafts[i], s, "BUY") => i \in DOMAIN w.to
    /\ \A k \in DOMAIN w.new : w.new[k].side = "SELL"
    /\ \/ \E i \in DOMAIN drafts : /\ Pends(drafts[i], s, "SELL") /\ i \notin DOMAIN w.to
                                   /\ i \in DOMAIN w.cut /\ ~w.cut[i]
       \/ \E k \in DOMAIN w.new : Pends(w.new[k], s, "SELL") /\ ~w.new[k].part

Sound(w) == \A s \in w.broken : Sells(w, s)

BreachInv == \A c \in Client : tx[c] # Idle /\ tx[c].fresh => Sound(dtx[c])

LEMMA SoundNothing == \A w : w.broken = {} => Sound(w)
BY DEF Sound

LEMMA NothingBroken == NoWrites.broken = {} /\ Sound(NoWrites)
BY DEF NoWrites, Sound

(* A step of one session that commits nothing. *)
LEMMA BreachStep ==
  ASSUME DraftInv, BreachInv, NEW c \in Client, NEW x, NEW w,
         UNCHANGED drafts,
         tx' = [tx EXCEPT ![c] = x], dtx' = [dtx EXCEPT ![c] = w],
         x # Idle /\ x.fresh => Sound(w)
  PROVE  BreachInv'
<1>1. /\ tx'[c] = x /\ dtx'[c] = w
      /\ \A d \in Client \ {c} : tx'[d] = tx[d] /\ dtx'[d] = dtx[d]
  BY DEF DraftInv, TypeInv
<1>2. ASSUME NEW d \in Client, tx'[d] # Idle /\ tx'[d].fresh PROVE Sound(dtx[d])'
  <2>1. Sound(dtx'[d])
    BY <1>1, <1>2 DEF BreachInv
  <2> QED BY <2>1 DEF Sound, Sells
<1> QED BY <1>2 DEF BreachInv

LEMMA BeginBreachInv ==
  ASSUME DraftInv, BreachInv, NEW c \in Client, NEW w, BeginDraft(c, w), Sound(w)
  PROVE  BreachInv'
BY BreachStep DEF BeginDraft, Open

(* The thesis of a held stock breaks. *)
LEMMA BreachSound ==
  ASSUME DraftInv, BreachInv, NEW c \in Client, NEW s \in Stock, ThesisBreach(c, s)
  PROVE  BreachInv'
<1> DEFINE open == {q \in {s} : Held(trades, q) # 0}
           sells == PendingOf(open, "SELL")
           covered == {drafts[i].stock : i \in sells}
           to == To(PendingOf(open, "BUY"), "superseded")
           cut == [i \in sells |-> FALSE]
           bare == open \ covered
           new == RowsEach(bare, "SELL", FALSE, LastDay)
           w == [NoWrites EXCEPT !.to = to, !.cut = cut, !.new = new, !.broken = {s}]
<1>1. BeginDraft(c, w)
  BY DEF ThesisBreach, BeginBreach
<1>2. open = {s}
  BY DEF ThesisBreach, BeginBreach
<1>3. /\ \A i \in DOMAIN drafts : Pends(drafts[i], s, "BUY") => i \in DOMAIN to
      /\ \A i \in DOMAIN to : drafts[i].side = "BUY"
      /\ \A i \in sells : i \in DOMAIN drafts /\ Pends(drafts[i], s, "SELL")
      /\ \A i \in sells : i \in DOMAIN cut /\ ~cut[i]
  BY <1>2 DEF Pends, PendingOf, To
<1>4. /\ \A k \in DOMAIN new : new[k].side = "SELL"
      /\ bare = {s} => \E k \in DOMAIN new : Pends(new[k], s, "SELL") /\ ~new[k].part
  <2> DEFINE order == SetToSeq(bare)
  <2>1. bare \in SUBSET Stock
    OBVIOUS
  <2>2. order \in Seq(bare) /\ DOMAIN order = 1..Cardinality(bare)
    BY <2>1, Listing
  <2>6. \A k \in DOMAIN order : order[k] \in bare
    <3> HIDE DEF order, bare
    <3> QED BY <2>2, Entries
  <2>3. new = [k \in DOMAIN order |-> NewDraft(order[k], "SELL", FALSE, LastDay)]
    BY DEF RowsEach
  <2> HIDE DEF order, bare, new
  <2>4. \A k \in DOMAIN new : /\ new[k].side = "SELL" /\ new[k].status = "pending"
                              /\ ~new[k].part /\ new[k].stock = order[k]
    BY <2>3 DEF NewDraft
  <2>5. ASSUME bare = {s} PROVE 1 \in DOMAIN new /\ order[1] = s
    <3>1. Cardinality(bare) = 1
      BY <2>5, FS_Singleton
    <3>2. DOMAIN order = 1..1 /\ DOMAIN new = DOMAIN order
      BY <2>2, <2>3, <3>1
    <3>3. order[1] \in bare
      BY <2>6, <3>2
    <3> QED BY <2>5, <3>2, <3>3
  <2> QED BY <2>4, <2>5 DEF Pends
<1>5. bare = {} \/ bare = {s}
  BY <1>2
<1>6. bare = {} => \E i \in sells : TRUE
  BY <1>2
<1> HIDE DEF to, cut, new, bare, sells, open
<1>7. w.to = to /\ w.cut = cut /\ w.new = new /\ w.broken = {s}
  BY DEF NoWrites
<1> HIDE DEF w
<1>8. Sells(w, s)
  BY <1>3, <1>4, <1>5, <1>6, <1>7 DEF Sells, Pends
<1> QED BY <1>1, <1>7, <1>8, BeginBreachInv DEF Sound

LEMMA InitBreach == DraftInit => BreachInv
BY DEF DraftInit, LedgerInit, BreachInv

LEMMA NextBreach == DraftInv /\ BreachInv /\ [Next]_vars => BreachInv'
<1> SUFFICES ASSUME DraftInv, BreachInv, [Next]_vars PROVE BreachInv'
  OBVIOUS
<1>1. CASE UNCHANGED <<tx, dtx, drafts>>
  BY <1>1 DEF BreachInv, Sound, Sells
<1>2. ASSUME NEW c \in Client, ServeDraft(c) PROVE BreachInv'
  <2>1. CASE Enter(c)
    <3>1. PICK o \in Order : BeginTrade(c, o, today)
      BY <2>1 DEF Enter
    <3> DEFINE x == TradeTx(o, today, 0)
    <3>2. tx[c] = Idle /\ tx' = [tx EXCEPT ![c] = x] /\ UNCHANGED <<drafts, dtx>>
      BY <2>1, <3>1 DEF BeginTrade, Open, Enter, draftVars
    <3> HIDE DEF x
    <3>3. dtx[c] = NoWrites /\ dtx' = [dtx EXCEPT ![c] = NoWrites]
      BY <3>2 DEF DraftInv, TypeInv
    <3> QED BY <3>2, <3>3, NothingBroken, BreachStep
  <2>2. ASSUME NEW i \in DraftId, BeginExecute(c, i) PROVE BreachInv'
    <3> DEFINE w == [NoWrites EXCEPT !.to = To({i}, "executed"), !.fills = i]
    <3>1. BeginDraft(c, w)
      BY <2>2 DEF BeginExecute
    <3>2. w.broken = {}
      BY DEF NoWrites
    <3> HIDE DEF w
    <3> QED BY <3>1, <3>2, SoundNothing, BeginBreachInv
  <2>3. ASSUME NEW i \in DraftId, BeginCancel(c, i) PROVE BreachInv'
    <3> DEFINE w == [NoWrites EXCEPT !.to = To({i}, "cancelled")]
    <3>1. BeginDraft(c, w)
      BY <2>3 DEF BeginCancel
    <3>2. w.broken = {}
      BY DEF NoWrites
    <3> HIDE DEF w
    <3> QED BY <3>1, <3>2, SoundNothing, BeginBreachInv
  <2>4. CASE FlushExecute(c)
    <3> DEFINE w == [dtx[c] EXCEPT !.locked = TRUE]
    <3>1. /\ tx[c] # Idle /\ IsWrites(dtx[c])
          /\ tx' = [tx EXCEPT ![c] = tx[c]] /\ dtx' = [dtx EXCEPT ![c] = w] /\ UNCHANGED drafts
      BY <2>4, NoWritesType DEF DraftInv, TypeInv, FlushExecute, ledgerVars
    <3>2. w = [f \in WritesField |-> IF f = "locked" THEN TRUE ELSE dtx[c][f]]
      BY <3>1 DEF IsWrites
    <3> HIDE DEF w
    <3>3. w.to = dtx[c].to /\ w.cut = dtx[c].cut /\ w.new = dtx[c].new /\ w.broken = dtx[c].broken
      BY <3>2 DEF WritesField
    <3>4. tx[c].fresh => Sound(w)
      BY <3>1, <3>3 DEF BreachInv, Sound, Sells
    <3> QED BY <3>1, <3>4, BreachStep
  <2>5. ASSUME NEW o \in Order, Fill(c, o, today) PROVE BreachInv'
    <3> DEFINE y == TradeTx(o, today, dtx[c].fills)
               x == [y EXCEPT !.fresh = tx[c].fresh]
    <3>1. /\ tx[c].op = "other" /\ tx' = [tx EXCEPT ![c] = x] /\ UNCHANGED <<drafts, dtx>>
      BY <2>5 DEF Fill, Step, draftVars
    <3>2. /\ tx[c] # Idle /\ today \in Day /\ dtx[c].fills \in Nat
          /\ dtx' = [dtx EXCEPT ![c] = dtx[c]]
      BY <3>1 DEF DraftInv, TypeInv, Idle, IsWrites
    <3>3. IsDraftTx(y)
      BY <3>2, TradeTxType
    <3> HIDE DEF y
    <3>4. x = [f \in TxField |-> IF f = "fresh" THEN tx[c].fresh ELSE y[f]]
      BY <3>3 DEF IsDraftTx
    <3> HIDE DEF x
    <3>5. x.fresh = tx[c].fresh
      BY <3>4 DEF TxField
    <3>6. x.fresh => Sound(dtx[c])
      BY <3>2, <3>5 DEF BreachInv
    <3> QED BY <3>1, <3>2, <3>6, BreachStep
  <2>6. ASSUME NEW S \in SUBSET Stock, BeginGenerate(c, S) PROVE BreachInv'
    <3>1. PICK to, new : BeginDraft(c, [NoWrites EXCEPT !.to = to, !.new = new])
      BY <2>6 DEF BeginGenerate
    <3> DEFINE w == [NoWrites EXCEPT !.to = to, !.new = new]
    <3>2. w.broken = {}
      BY DEF NoWrites
    <3> HIDE DEF w
    <3>3. BeginDraft(c, w)
      BY <3>1 DEF w
    <3> QED BY <3>2, <3>3, SoundNothing, BeginBreachInv
  <2>7. ASSUME NEW S \in SUBSET Stock, SellTrigger(c, S) PROVE BreachInv'
    <3>1. PICK to, cut, new :
            BeginDraft(c, [NoWrites EXCEPT !.to = to, !.cut = cut, !.new = new, !.broken = {}])
      BY <2>7 DEF SellTrigger, BeginBreach
    <3> DEFINE w == [NoWrites EXCEPT !.to = to, !.cut = cut, !.new = new, !.broken = {}]
    <3>2. w.broken = {}
      BY DEF NoWrites
    <3> HIDE DEF w
    <3>3. BeginDraft(c, w)
      BY <3>1 DEF w
    <3> QED BY <3>2, <3>3, SoundNothing, BeginBreachInv
  <2>8. ASSUME NEW s \in Stock, ThesisBreach(c, s) PROVE BreachInv'
    BY <2>8, BreachSound
  <2>9. CASE DraftReadCash(c)
    <3> DEFINE x == [tx[c] EXCEPT !.read = TRUE, !.saw = cash]
    <3>1. /\ tx[c].op = "trade" \/ tx[c].op = "reverse" \/ tx[c].op = "adjust"
          /\ tx' = [tx EXCEPT ![c] = x] \/ tx' = [tx EXCEPT ![c] = Idle]
          /\ UNCHANGED drafts
      BY <2>9 DEF DraftReadCash, ReadCash, Step
    <3>2. tx[c] # Idle /\ IsDraftTx(tx[c])
      BY <3>1 DEF DraftInv, TypeInv, Idle
    <3>3. x = [f \in TxField |-> IF f = "read" THEN TRUE ELSE IF f = "saw" THEN cash ELSE tx[c][f]]
      BY <3>2 DEF IsDraftTx, TxField
    <3> HIDE DEF x
    <3>4. x.fresh = tx[c].fresh
      BY <3>3 DEF TxField
    <3>5. dtx' = [dtx EXCEPT ![c] = dtx[c]] \/ dtx' = [dtx EXCEPT ![c] = NoWrites]
      BY <2>9 DEF DraftReadCash, DraftInv, TypeInv
    <3>6. tx[c].fresh => Sound(dtx[c])
      BY <3>2 DEF BreachInv
    <3>7. CASE tx' = [tx EXCEPT ![c] = x]
      BY <3>1, <3>4, <3>5, <3>6, <3>7, NothingBroken, BreachStep
    <3>8. CASE tx' = [tx EXCEPT ![c] = Idle]
      BY <3>1, <3>5, <3>8, BreachStep
    <3> QED BY <3>1, <3>7, <3>8
  <2>10. CASE DraftCommit(c)
    <3>1. \A d \in Client : tx'[d] = Idle \/ ~tx'[d].fresh
      BY <2>10, CommitSessions
    <3> QED BY <3>1 DEF BreachInv
  <2>11. CASE DraftRollback(c)
    <3>1. /\ tx' = [tx EXCEPT ![c] = Idle] /\ dtx' = [dtx EXCEPT ![c] = NoWrites]
          /\ UNCHANGED drafts
      BY <2>11 DEF DraftRollback, Rollback, Step
    <3> QED BY <3>1, BreachStep
  <2> QED BY <1>2, <2>1, <2>2, <2>3, <2>4, <2>5, <2>6, <2>7, <2>8, <2>9, <2>10, <2>11
          DEF ServeDraft
<1>3. CASE NextDay /\ UNCHANGED draftVars
  BY <1>1, <1>3 DEF NextDay, draftVars
<1>4. CASE UNCHANGED vars
  BY <1>1, <1>4 DEF vars, ledgerVars, draftVars
<1> QED BY <1>2, <1>3, <1>4 DEF Next

(* When the breach of a held stock's thesis is committed, no BUY draft of it *)
(* is pending and a SELL draft is, for all of the position, unless           *)
(* transactions have overlapped (create_thesis_breach_sell_draft).           *)
THEOREM BreachesAreSold == Spec => BreachSells
<1> DEFINE SoldOut == \A c \in Client, s \in Stock :
              (/\ s \in dtx[c].broken /\ dtx'[c] = NoWrites /\ drafts' # drafts
               /\ ~overlapped' /\ Held(trades, s) # 0)
                  => \E i \in DOMAIN drafts' :
                        /\ drafts'[i].stock = s /\ drafts'[i].side = "SELL"
                        /\ drafts'[i].status = "pending" /\ ~drafts'[i].part
                        /\ \A j \in DOMAIN drafts' :
                              ~(/\ drafts'[j].stock = s /\ drafts'[j].side = "BUY"
                                /\ drafts'[j].status = "pending")
<1>1. DraftInv /\ BreachInv /\ [Next]_vars => [SoldOut]_vars
  <2> SUFFICES ASSUME DraftInv, BreachInv, [Next]_vars, NEW c \in Client, NEW s \in Stock,
                      s \in dtx[c].broken, dtx'[c] = NoWrites, drafts' # drafts, ~overlapped'
               PROVE  \E i \in DOMAIN drafts' :
                        /\ Pends(drafts'[i], s, "SELL") /\ ~drafts'[i].part
                        /\ \A j \in DOMAIN drafts' : ~Pends(drafts'[j], s, "BUY")
    BY DEF Pends
  <2>1. PICK d \in Client : DraftCommit(d)
    BY DraftsChangeInCommits
  <2>2. d = c
    <3>1. d # c => dtx'[c] = dtx[c]
      BY <2>1, CommitSessions
    <3> QED BY <3>1, NothingBroken
  <2> DEFINE w == dtx[c]
             n == Len(drafts)
  <2>3. tx[c] # Idle /\ tx[c].fresh /\ IsWrites(w)
    BY <2>1, <2>2, CommitDoes DEF DraftCommit, Commit
  <2>4. Sells(w, s)
    BY <2>3 DEF BreachInv, Sound
  <2>5. /\ n \in Nat /\ DOMAIN drafts = 1..n
        /\ \A i \in DOMAIN drafts :
              /\ i \in DOMAIN drafts'
              /\ drafts'[i].stock = drafts[i].stock /\ drafts'[i].side = drafts[i].side
              /\ i \in DOMAIN w.to => drafts'[i].status = w.to[i]
              /\ i \notin DOMAIN w.to => drafts'[i].status = drafts[i].status
              /\ i \in DOMAIN w.cut => drafts'[i].part = w.cut[i]
        /\ \A i \in DOMAIN drafts' \ DOMAIN drafts :
              i - n \in DOMAIN w.new /\ drafts'[i] = w.new[i - n]
        /\ \A k \in DOMAIN w.new : n + k \in DOMAIN drafts' /\ drafts'[n + k] = w.new[k]
    BY <2>1, <2>2, CommitDrafts
  <2> HIDE DEF w, n
  <2>6. ASSUME NEW j \in DOMAIN drafts' PROVE ~Pends(drafts'[j], s, "BUY")
    <3>1. CASE j \in DOMAIN drafts
      <4>1. CASE j \in DOMAIN w.to
        <5>1. drafts'[j].status = w.to[j] /\ w.to[j] \in Final
          BY <2>3, <2>5, <3>1, <4>1 DEF IsWrites
        <5> QED BY <5>1 DEF Pends, Final
      <4>2. CASE j \notin DOMAIN w.to
        <5>1. ~Pends(drafts[j], s, "BUY")
          BY <2>4, <3>1, <4>2 DEF Sells
        <5> QED BY <2>5, <3>1, <4>2, <5>1 DEF Pends
      <4> QED BY <4>1, <4>2
    <3>2. CASE j \notin DOMAIN drafts
      BY <2>4, <2>5, <3>2 DEF Sells, Pends
    <3> QED BY <3>1, <3>2
  <2>7. \E i \in DOMAIN drafts' : Pends(drafts'[i], s, "SELL") /\ ~drafts'[i].part
    <3>1. ASSUME NEW i \in DOMAIN drafts, Pends(drafts[i], s, "SELL"), i \notin DOMAIN w.to,
                 i \in DOMAIN w.cut, ~w.cut[i]
          PROVE  i \in DOMAIN drafts' /\ Pends(drafts'[i], s, "SELL") /\ ~drafts'[i].part
      BY <2>5, <3>1 DEF Pends
    <3>2. ASSUME NEW k \in DOMAIN w.new, Pends(w.new[k], s, "SELL"), ~w.new[k].part
          PROVE  n + k \in DOMAIN drafts' /\ Pends(drafts'[n + k], s, "SELL")
                 /\ ~drafts'[n + k].part
      BY <2>5, <3>2
    <3> QED BY <2>4, <3>1, <3>2 DEF Sells
  <2> QED BY <2>6, <2>7
<1>2. Spec => []BreachInv
  BY InitBreach, NextBreach, Invariance, PTL DEF Spec
<1> QED BY <1>1, <1>2, Invariance, PTL DEF Spec, BreachSells

-----------------------------------------------------------------------------
(* The ledger under the transactions of this module.  A session that fills a *)
(* draft is one of the ledger that writes nothing at first ("other") and has *)
(* a trade in hand later; if another session commits in between, the trade   *)
(* is not fresh, although it was checked afterwards.                         *)

LEMMA OtherTxOK ==
  ASSUME LedgerInv
  PROVE  TxOK(Begin("other"))
<1> DEFINE x == Begin("other")
<1>1. /\ x = [f \in TxField |-> x[f]] /\ x.op = "other" /\ x.new = <<>> /\ x.read = FALSE
      /\ x.saw = 0 /\ x.undo = 0 /\ x.amount = 0 /\ x.todo = {} /\ x.cur = {} /\ x.done = {}
      /\ x.locks = FALSE /\ x.fresh = TRUE
  BY DEF Begin, TxField
<1> HIDE DEF x
<1>2. x.new \in Seq(Row) /\ DOMAIN x.new = {}
  BY <1>1, NoRow
<1>3. x.undo \in 0..MaxTrades /\ x.amount \in Int
  BY <1>1, LedgerConstants
<1>4. /\ IsTx(x) /\ ~x.read /\ ~x.locks /\ x.fresh
      /\ x.cur \cup x.done = {} /\ x.cur \cap x.done = {}
  BY <1>1, <1>2, <1>3, MakeBegun
<1>5. KindOK(x)
  BY <1>1 DEF KindOK
<1>6. SeenOK(x) /\ FreshOK(x)
  BY <1>1, <1>2, <1>4 DEF SeenOK, FreshOK
<1>7. TxOK(x)
  BY <1>4, <1>5, <1>6 DEF TxOK
<1> QED BY <1>7 DEF x

LEMMA BeginKeepsLedger ==
  ASSUME LedgerInv, NEW c \in Client, NEW w, BeginDraft(c, w)
  PROVE  LedgerInv'
<1>1. Step(c, Begin("other"))
  BY OpenSteps DEF BeginDraft
<1> QED BY <1>1, OtherTxOK, StepKeeps

LEMMA FillKeepsLedger ==
  ASSUME LedgerInv, DraftInv, NEW c \in Client, NEW o \in Order, Fill(c, o, today)
  PROVE  LedgerInv'
<1> DEFINE y == TradeTx(o, today, dtx[c].fills)
           x == [y EXCEPT !.fresh = tx[c].fresh]
<1>1. tx[c].op = "other" /\ Admissible(o, today) /\ Step(c, x)
  BY DEF Fill
<1>2. today \in Day /\ dtx[c].fills \in Nat
  BY DEF DraftInv, TypeInv, IsWrites
<1>3. TxOK(y) /\ y.op = "trade" /\ y.fresh
  <2>1. TxOK(y)
    BY <1>1, <1>2, TradeTxOK
  <2> QED BY <2>1 DEF TradeTx, Begin
<1> HIDE DEF y
<1>4. IsTx(y) /\ KindOK(y) /\ SeenOK(y) /\ FreshOK(y)
  BY <1>3 DEF TxOK
<1>5. y = [f \in TxField |-> y[f]]
  BY <1>4, TxFields
<1>6. /\ x = [f \in TxField |-> x[f]] /\ x.op = y.op /\ x.new = y.new /\ x.read = y.read
      /\ x.saw = y.saw /\ x.undo = y.undo /\ x.amount = y.amount /\ x.todo = y.todo
      /\ x.cur = y.cur /\ x.done = y.done /\ x.locks = y.locks /\ x.fresh = tx[c].fresh
  BY <1>5 DEF TxField
<1> HIDE DEF x
<1>7. tx[c].fresh \in BOOLEAN
  BY <1>1, OpenTx, TxFields
<1>8. IsTx(x)
  <2>1. x.op \in {"trade", "reverse", "adjust", "corp", "other"} /\ x.fresh \in BOOLEAN
    BY <1>3, <1>6, <1>7
  <2> QED BY <1>4, <1>6, <2>1, MakeTx, TxFields
<1>9. KindOK(x)
  BY <1>4, <1>6 DEF KindOK
<1>10. SeenOK(x) /\ FreshOK(x)
  BY <1>4, <1>6 DEF SeenOK, FreshOK
<1>11. TxOK(x)
  BY <1>8, <1>9, <1>10 DEF TxOK
<1> QED BY <1>1, <1>11, StepKeeps

LEMMA ServeKeepsLedger ==
  ASSUME LedgerInv, DraftInv, NEW c \in Client, ServeDraft(c)
  PROVE  LedgerInv'
<1>1. CASE Enter(c)
  <2>1. PICK o \in Order : BeginTrade(c, o, today)
    BY <1>1 DEF Enter
  <2>2. today \in Day
    BY DEF LedgerInv
  <2> QED BY <2>1, <2>2, TradeKeeps
<1>2. ASSUME NEW i \in DraftId, BeginExecute(c, i) \/ BeginCancel(c, i) PROVE LedgerInv'
  BY <1>2, BeginKeepsLedger DEF BeginExecute, BeginCancel
<1>3. CASE FlushExecute(c)
  <2>1. UNCHANGED ledgerVars
    BY <1>3 DEF FlushExecute, ledgerVars
  <2> QED BY <2>1, StutterKeeps
<1>4. ASSUME NEW o \in Order, Fill(c, o, today) PROVE LedgerInv'
  BY <1>4, FillKeepsLedger
<1>5. ASSUME NEW S \in SUBSET Stock, BeginGenerate(c, S) PROVE LedgerInv'
  BY <1>5, BeginKeepsLedger DEF BeginGenerate
<1>6. ASSUME NEW S \in SUBSET Stock, SellTrigger(c, S) PROVE LedgerInv'
  BY <1>6, BeginKeepsLedger DEF SellTrigger, BeginBreach
<1>7. ASSUME NEW s \in Stock, ThesisBreach(c, s) PROVE LedgerInv'
  BY <1>7, BeginKeepsLedger DEF ThesisBreach, BeginBreach
<1>8. CASE DraftReadCash(c)
  BY <1>8, ReadKeeps DEF DraftReadCash
<1>9. CASE DraftCommit(c)
  BY <1>9, CommitKeeps DEF DraftCommit
<1>10. CASE DraftRollback(c)
  BY <1>10, RollbackKeeps DEF DraftRollback
<1> QED BY <1>1, <1>2, <1>3, <1>4, <1>5, <1>6, <1>7, <1>8, <1>9, <1>10 DEF ServeDraft

LEMMA NextKeepsLedger == LedgerInv /\ DraftInv /\ [Next]_vars => LedgerInv'
<1>1. ASSUME LedgerInv, UNCHANGED vars PROVE LedgerInv'
  BY <1>1, StutterKeeps DEF vars
<1> QED BY <1>1, DayKeeps, ServeKeepsLedger DEF Next

LEMMA DraftsLedger == Spec => []LedgerInv
<1>1. DraftInit => LedgerInv
  BY InitLedger DEF DraftInit
<1> QED BY <1>1, NextKeepsLedger, Invariance, PTL DEF Spec

(* With drafts beside users' own trades: unless transactions have overlapped, *)
(* the balance is what the deposits and the trades in force make it, and the  *)
(* fill of a draft sells no share on the day it was bought, as a user's trade *)
(* does not.                                                                  *)
THEOREM FillsKeepTheLedger == Spec => [](CashMatchesLedger /\ TPlusOne)
<1>1. LedgerInv => CashMatchesLedger /\ TPlusOne
  BY DEF LedgerInv
<1> QED BY <1>1, DraftsLedger, PTL

LEMMA TradesChangeInCommits ==
  ASSUME [Next]_vars
  PROVE  UNCHANGED <<trades, overlapped>> \/ \E c \in Client : Commit(c)
<1>1. CASE UNCHANGED vars
  BY <1>1 DEF vars, ledgerVars
<1>2. CASE NextDay
  BY <1>2 DEF NextDay
<1>3. ASSUME NEW c \in Client, ServeDraft(c)
      PROVE  UNCHANGED <<trades, overlapped>> \/ Commit(c)
  <2>1. ASSUME NEW w, BeginDraft(c, w) PROVE UNCHANGED <<trades, overlapped>>
    BY <2>1 DEF BeginDraft, Open
  <2>2. CASE Enter(c) \/ FlushExecute(c) \/ DraftReadCash(c) \/ DraftRollback(c)
    BY <2>2 DEF Enter, BeginTrade, FlushExecute, ledgerVars, DraftReadCash, ReadCash,
                DraftRollback, Rollback, Open, Step
  <2>3. ASSUME NEW o \in Order, Fill(c, o, today) PROVE UNCHANGED <<trades, overlapped>>
    BY <2>3 DEF Fill, Step
  <2>4. ASSUME NEW i \in DraftId, BeginExecute(c, i) \/ BeginCancel(c, i)
        PROVE  UNCHANGED <<trades, overlapped>>
    BY <2>1, <2>4 DEF BeginExecute, BeginCancel
  <2>5. ASSUME NEW S \in SUBSET Stock, BeginGenerate(c, S)
        PROVE  UNCHANGED <<trades, overlapped>>
    BY <2>1, <2>5 DEF BeginGenerate
  <2>6. ASSUME NEW S \in SUBSET Stock, SellTrigger(c, S)
        PROVE  UNCHANGED <<trades, overlapped>>
    BY <2>1, <2>6 DEF SellTrigger, BeginBreach
  <2>7. ASSUME NEW s \in Stock, ThesisBreach(c, s) PROVE UNCHANGED <<trades, overlapped>>
    BY <2>1, <2>7 DEF ThesisBreach, BeginBreach
  <2>8. DraftCommit(c) => Commit(c)
    BY DEF DraftCommit
  <2> QED BY <1>3, <2>2, <2>3, <2>4, <2>5, <2>6, <2>7, <2>8 DEF ServeDraft
<1> QED BY <1>1, <1>2, <1>3 DEF Next

(* The fill of a draft spends neither shares nor cash that are not there: no  *)
(* BUY leaves the balance below zero, whoever has overlapped, and without an  *)
(* overlap no SELL takes a position below zero.                               *)
THEOREM FillsAreCovered == Spec => SpentIsCovered
<1>1. LedgerInv /\ [Next]_vars => OversoldByReversal /\ BuysCovered
  <2> SUFFICES ASSUME LedgerInv, [Next]_vars PROVE OversoldByReversal /\ BuysCovered
    OBVIOUS
  <2>1. CASE UNCHANGED <<trades, overlapped>>
    <3>1. \A s : Held(trades, s) \in Int
      BY HeldInt DEF LedgerInv
    <3> QED BY <2>1, <3>1 DEF OversoldByReversal, BuysCovered
  <2>2. ASSUME NEW c \in Client, Commit(c) PROVE OversoldByReversal /\ BuysCovered
    BY <2>2, CommitShape, NotOversold, Covered
  <2> QED BY <2>1, <2>2, TradesChangeInCommits
<1>2. NeverOversold <=> [][OversoldByReversal]_ledgerVars
  BY DEF NeverOversold, OversoldByReversal
<1>3. BuyCovered <=> [][BuysCovered]_ledgerVars
  BY DEF BuyCovered, BuysCovered
<1> QED BY <1>1, <1>2, <1>3, DraftsLedger, PTL DEF Spec, SpentIsCovered

=============================================================================
