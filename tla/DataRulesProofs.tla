-------------------------- MODULE DataRulesProofs --------------------------
(***************************************************************************)
(* What the rules about rows guarantee for every input of their types:     *)
(* the universe of the stocks, what is read of the rows, what is measured, *)
(* and the records that both the program and its users write.              *)
(***************************************************************************)
EXTENDS RulesProofs

-----------------------------------------------------------------------------
(* The list of all companies and what is stored of it.                       *)

AnyCompany == [code: STRING, name: STRING, fs: STRING]
AnyStored  == [name: STRING, industry: STRING \cup {None}, source: STRING \cup {None}, delisted: BOOLEAN]
AnyAction  == [date: Int, type: ActionTypes]
AnyRecord  == [date: Int \cup {None}, amounts: [ActionTypes -> Int]]
AnyClose   == [day: Int \cup {None}, close: Int]

AnyRowsOf(S)    == [kind: {"universe"}, rows: [S -> AnyStored], list: Seq(AnyCompany), size: Nat \ {0}]
AnyAnswersOf(S) ==
  [kind: {"dividend"}, stored: [S -> SUBSET AnyAction], answers: [S -> Seq(AnyRecord) \cup {None}]]
AnyClosesOf(D)  == [kind: {"index"}, stored: [D -> Int], answer: Seq(AnyClose)]

(* Rows, lists, spans, distributions and closes of any number and size.      *)
AnyUniverse ==
  (UNION {AnyRowsOf(S) : S \in SUBSET STRING})
  \cup [kind: {"segment"}, start: Int, end: Int, span: Nat]
  \cup (UNION {AnyAnswersOf(S) : S \in SUBSET STRING})
  \cup (UNION {AnyClosesOf(D) : D \in SUBSET Int})

\* BootstrapWins for any rows, list and classification.
LEMMA BootstrapsWin ==
  ASSUME NEW C, NEW rows \in [C -> AnyStored], NEW list, NEW names
  PROVE  BootstrapWins(rows, list, names)
<1> DEFINE after == SyncPhase1(rows, list)
           synced == SyncStocksFromLixinger(rows, list, names)
<1>1. DOMAIN rows = C /\ DOMAIN after = C \cup Codes(list)
  BY DEF SyncPhase1
<1>2. ASSUME NEW c \in C
      PROVE  \E n, i : synced[c] = [rows[c] EXCEPT !.name = n, !.industry = i]
  <2>1. rows[c] \in AnyStored /\ rows[c] = [rows[c] EXCEPT !.name = rows[c].name, !.industry = rows[c].industry]
    BY DEF AnyStored
  <2>2. PICK n : after[c] = [rows[c] EXCEPT !.name = n]
    <3>1. after[c] = IF Named(list, c) # {}
                     THEN [rows[c] EXCEPT !.name = list[Max(Named(list, c))].name]
                     ELSE rows[c]
      BY <1>1 DEF SyncPhase1
    <3>2. rows[c] = [rows[c] EXCEPT !.name = rows[c].name]
      BY <2>1 DEF AnyStored
    <3> HIDE DEF after
    <3> QED BY <3>1, <3>2
  <2>3. synced[c] = IF c \in DOMAIN names THEN [after[c] EXCEPT !.industry = names[c]] ELSE after[c]
    BY <1>1 DEF SyncStocksFromLixinger, SyncIndustries
  <2>4. after[c] = [rows[c] EXCEPT !.name = n, !.industry = rows[c].industry]
    BY <2>1, <2>2 DEF AnyStored
  <2>5. [after[c] EXCEPT !.industry = names[c]] = [rows[c] EXCEPT !.name = n, !.industry = names[c]]
    BY <2>1, <2>2 DEF AnyStored
  <2> HIDE DEF after, synced
  <2>6. CASE c \in DOMAIN names
    BY <2>2, <2>3, <2>5, <2>6
  <2>7. CASE c \notin DOMAIN names
    BY <2>3, <2>4, <2>7
  <2> QED BY <2>6, <2>7
<1>3. ASSUME NEW c \in C
      PROVE  synced[c].delisted = rows[c].delisted /\ synced[c].source = rows[c].source
  <2>1. PICK n, i : synced[c] = [rows[c] EXCEPT !.name = n, !.industry = i]
    BY <1>2
  <2>2. rows[c] \in AnyStored
    OBVIOUS
  <2> HIDE DEF synced
  <2> QED BY <2>1, <2>2 DEF AnyStored
<1>4. ASSUME NEW c \in C \cap Codes(list), Entry(list, c).fs # ""
      PROVE  UpsertCompanies(synced, list)[c] = UpsertCompanies(rows, list)[c]
  <2>1. PICK n, i : synced[c] = [rows[c] EXCEPT !.name = n, !.industry = i]
    BY <1>2
  <2>2. rows[c] \in AnyStored
    OBVIOUS
  <2>3. c \in DOMAIN synced
    BY <1>1 DEF SyncStocksFromLixinger, SyncIndustries
  <2>4. UpsertCompanies(rows, list)[c] = Bootstrapped(rows[c], Entry(list, c), c)
    BY <1>1 DEF UpsertCompanies
  <2> HIDE DEF synced
  <2>5. UpsertCompanies(synced, list)[c] = Bootstrapped(synced[c], Entry(list, c), c)
    BY <2>3 DEF UpsertCompanies
  <2>6. PICK e : e = Entry(list, c) /\ e.fs # ""
    BY <1>4
  <2>7. Tracked(synced[c]) <=> Tracked(rows[c])
    BY <2>1, <2>2 DEF Tracked, AnyStored
  <2>8. Bootstrapped(synced[c], e, c) = Bootstrapped(rows[c], e, c)
    BY <2>1, <2>2, <2>6, <2>7 DEF Bootstrapped, AnyStored
  <2> QED BY <2>4, <2>5, <2>6, <2>8
<1> QED BY <1>1, <1>3, <1>4 DEF BootstrapWins

\* The numbers that are left when a number is divided.
LEMMA Remainders ==
  ASSUME NEW n \in Nat \ {0}
  PROVE  /\ \A x \in Int : x % n \in 0..n - 1 /\ (x - (x % n)) % n = 0
         /\ \A x, y \in Int : x % n = 0 /\ y % n = 0 /\ x < y => x + n <= y
<1>1. \A x \in Int : \E q \in Int : \E r \in 0..n - 1 : r = x % n /\ x = q * n + r
  <2>1. ASSUME NEW x \in Int PROVE \E q \in Int : \E r \in 0..n - 1 : r = x % n /\ x = q * n + r
    <3>1. PICK q \in Int, r \in Int : q = x \div n /\ r = x % n
      OBVIOUS
    <3>2. r \in 0..n - 1 /\ x = n * q + r
      BY <3>1
    <3>3. n * q = q * n
      OBVIOUS
    <3> QED BY <3>1, <3>2, <3>3
  <2> QED BY <2>1
<1>2. \A k \in Int : k > 0 => n <= k * n
  <2>1. ASSUME NEW k \in Int, k > 0 PROVE n <= k * n
    <3>1. PICK j \in Nat : k = j + 1
      <4>1. k - 1 \in Nat /\ k = k - 1 + 1
        BY <2>1
      <4> QED BY <4>1
    <3>2. k * n = j * n + n /\ j * n \in Nat
      BY <3>1
    <3> QED BY <3>2
  <2> QED BY <2>1
<1>3. ASSUME NEW x \in Int, NEW y \in Int, x % n = 0, y % n = 0, x < y PROVE x + n <= y
  <2>1. PICK a \in Int : x = a * n
    <3>1. PICK q \in Int, r \in 0..n - 1 : r = x % n /\ x = q * n + r
      BY <1>1
    <3>2. x = q * n
      BY <1>3, <3>1
    <3> QED BY <3>2
  <2>2. PICK b \in Int : y = b * n
    <3>1. PICK q \in Int, r \in 0..n - 1 : r = y % n /\ y = q * n + r
      BY <1>1
    <3>2. y = q * n
      BY <1>3, <3>1
    <3> QED BY <3>2
  <2>3. y - x = (b - a) * n
    BY <2>1, <2>2
  <2>4. PICK k \in Int : k = b - a /\ y - x = k * n
    BY <2>3
  <2>5. k > 0
    <3>1. SUFFICES ASSUME k <= 0 PROVE FALSE
      BY <2>4
    <3>2. k * n <= 0
      <4>1. PICK j \in Nat : k = 0 - j
        <5>1. 0 - k \in Nat /\ k = 0 - (0 - k)
          BY <3>1
        <5> QED BY <5>1
      <4>2. k * n = 0 - j * n /\ j * n \in Nat
        BY <4>1
      <4> QED BY <4>2
    <3> QED BY <1>3, <2>4, <3>2
  <2> QED BY <1>2, <2>4, <2>5
<1>4. ASSUME NEW x \in Int PROVE x % n \in 0..n - 1 /\ (x - (x % n)) % n = 0
  <2>1. PICK q \in Int, r \in 0..n - 1 : r = x % n /\ x = q * n + r
    BY <1>1
  <2>2. PICK y \in Int : y = x - r /\ y = q * n
    BY <2>1
  <2>3. PICK p \in Int, s \in 0..n - 1 : s = y % n /\ y = p * n + s
    BY <1>1
  <2>4. s = (q - p) * n
    BY <2>2, <2>3
  <2>5. PICK k \in Int : k = q - p /\ s = k * n
    BY <2>4
  <2>6. k <= 0
    BY <1>2, <2>5
  <2>7. k * n <= 0
    <3>1. PICK j \in Nat : k = 0 - j
      <4>1. 0 - k \in Nat /\ k = 0 - (0 - k)
        BY <2>6
      <4> QED BY <4>1
    <3>2. k * n = 0 - j * n /\ j * n \in Nat
      BY <3>1
    <3> QED BY <3>2
  <2>8. s = 0
    BY <2>5, <2>7
  <2> QED BY <2>1, <2>2, <2>3, <2>8
<1> QED BY <1>3, <1>4

\* SegmentsCover for any years and spans.
LEMMA SegmentsAlwaysCover ==
  ASSUME NEW start \in Int, NEW end \in Int, NEW span \in Nat
  PROVE  SegmentsCover(start, end, span)
<1> DEFINE segs == Segments(start, end, span)
           Span(g) == g.from..g.to
           From == {d \in start..end - 1 : (d - start) % (span + 1) = 0}
<1>1. PICK n \in Nat \ {0} : n = span + 1
  OBVIOUS
<1>a. ASSUME NEW g \in segs
      PROVE  /\ g.from \in start..end - 1 /\ (g.from - start) % n = 0
             /\ g.to \in Int /\ g.to <= g.from + span /\ g.to <= end
             /\ g.to = g.from + span \/ g.to = end
             /\ g = [from |-> g.from, to |-> Min({g.from + span, end})]
  <2>1. PICK c \in From : g = [from |-> c, to |-> Min({c + span, end})]
    BY DEF Segments
  <2>2. PICK e \in Int : e = c + span
    OBVIOUS
  <2>3. Min({e, end}) \in Int /\ Min({e, end}) <= e /\ Min({e, end}) <= end /\ (Min({e, end}) = e \/ Min({e, end}) = end)
    BY MinOfTwo
  <2> QED BY <1>1, <2>1, <2>2, <2>3
<1> HIDE DEF segs
<1>2. \A g \in segs : /\ g.from \in Int /\ g.from >= start /\ g.from <= end - 1 /\ (g.from - start) % n = 0
                      /\ g.to \in Int /\ g.to <= g.from + span /\ g.to <= end
                      /\ g.to = g.from + span \/ g.to = end
  <2>1. \A x \in start..end - 1 : x \in Int /\ x >= start /\ x <= end - 1
    OBVIOUS
  <2> QED BY <1>a, <2>1
<1>b. \A g, h \in segs : g.from = h.from => g = h
  BY <1>a
<1>3. \A g \in segs : g.to - g.from <= span /\ g.to <= end
  BY <1>2
<1>4. ASSUME NEW g \in segs, NEW h \in segs, g.from < h.from PROVE Span(g) \cap Span(h) = {}
  <2>1. PICK x \in Int, y \in Int : x = g.from - start /\ y = h.from - start
    BY <1>2
  <2>2. x % n = 0 /\ y % n = 0 /\ x < y
    BY <1>2, <1>4, <2>1
  <2>3. x + n <= y
    BY <2>2, Remainders
  <2>4. g.to < h.from
    BY <1>1, <1>2, <2>1, <2>3
  <2> QED BY <1>2, <2>4
<1>5. ASSUME NEW g \in segs, NEW h \in segs, g # h PROVE Span(g) \cap Span(h) = {}
  <2>1. g.from # h.from
    BY <1>b, <1>5
  <2>2. CASE g.from < h.from
    BY <1>4, <2>2
  <2>3. CASE h.from < g.from
    BY <1>4, <2>3
  <2> QED BY <1>2, <2>1, <2>2, <2>3
<1>6. ASSUME NEW d \in start..end - 1 PROVE \E g \in segs : d \in Span(g)
  <2>1. PICK x \in Nat, r \in 0..n - 1 : x = d - start /\ r = x % n /\ (x - r) % n = 0
    <3>1. PICK x \in Nat : x = d - start
      <4>1. d - start \in Nat
        OBVIOUS
      <4> QED BY <4>1
    <3>2. x % n \in 0..n - 1 /\ (x - (x % n)) % n = 0
      <4>1. \A y \in Int : y % n \in 0..n - 1 /\ (y - (y % n)) % n = 0
        BY Remainders
      <4>2. x \in Int
        OBVIOUS
      <4> QED BY <4>1, <4>2, Zenon
    <3>3. PICK r \in 0..n - 1 : r = x % n
      BY <3>2
    <3>4. (x - r) % n = 0
      BY <3>2, <3>3
    <3> QED BY <3>1, <3>3, <3>4
  <2>2. r <= x
    <3>1. SUFFICES ASSUME x < r PROVE FALSE
      BY <2>1
    <3>2. x % n = x
      BY <2>1, <3>1
    <3> QED BY <2>1, <3>1, <3>2
  <2>3. PICK c \in From : c = start + (x - r)
    <3>1. start + (x - r) \in start..end - 1
      BY <2>1, <2>2
    <3>2. start + (x - r) - start = x - r
      BY <2>1
    <3>3. start + (x - r) \in From
      BY <1>1, <2>1, <3>1, <3>2
    <3> QED BY <3>3
  <2>4. PICK g \in segs : g.from = c
    <3>1. [from |-> c, to |-> Min({c + span, end})] \in segs
      BY DEF Segments, segs
    <3> QED BY <3>1
  <2>5. c <= d /\ d <= c + span /\ d <= end
    BY <1>1, <2>1, <2>3
  <2>6. d \in Span(g)
    <3>1. g.to \in Int /\ (g.to = c + span \/ g.to = end)
      BY <1>2, <2>4
    <3>2. d <= g.to /\ d \in Int
      BY <2>5, <3>1
    <3> QED BY <2>4, <2>5, <3>1, <3>2
  <2> QED BY <2>6
<1>7. start..end - 1 \subseteq UNION {Span(g) : g \in segs}
  BY <1>6
<1> QED BY <1>3, <1>5, <1>7 DEF SegmentsCover, segs

\* DividendsMirrored for any rows and answers.
LEMMA DividendsAlwaysMirrored ==
  ASSUME NEW S, NEW stored \in [S -> SUBSET AnyAction], NEW answers \in [S -> Seq(AnyRecord) \cup {None}]
  PROVE  DividendsMirrored(stored, answers)
<1> DEFINE after == SyncDividendsBatch(stored, answers)
           Of(s) == UNION {ParseDividendRecord(answers[s][i]) : i \in DOMAIN answers[s]}
           Held(s) == IF answers[s] = None THEN {} ELSE Of(s)
           broken == \E s \in S : answers[s] # None /\ BreaksKey(stored[s], answers[s])
<1>1. \A s \in S : after[s] = IF broken \/ answers[s] = None THEN stored[s]
                              ELSE stored[s] \cup (Of(s) \ stored[s])
  <2>1. after = IF broken THEN stored
                ELSE [s \in S |-> IF answers[s] = None THEN stored[s]
                                  ELSE stored[s] \cup NewActions(stored[s], answers[s])]
    BY DEF SyncDividendsBatch
  <2>2. \A s \in S : NewActions(stored[s], answers[s]) = Of(s) \ stored[s]
    <3>1. ASSUME NEW s \in S PROVE NewActions(stored[s], answers[s]) = Of(s) \ stored[s]
      BY Zenon DEF NewActions
    <3> QED BY <3>1
  <2> HIDE DEF after, Of, broken
  <2> QED BY <2>1, <2>2
<1>2. DOMAIN stored = S /\ DOMAIN answers = S
  OBVIOUS
<1> HIDE DEF after, Of
<1>3. \A s \in S : stored[s] \subseteq after[s] /\ after[s] \subseteq stored[s] \cup Held(s)
  BY <1>1
<1>4. ~broken => \A s \in S : Held(s) \subseteq after[s]
  BY <1>1
<1> QED BY <1>2, <1>3, <1>4 DEF DividendsMirrored, after, Of

\* IndexIsMirrored for any closes and answers.
LEMMA IndexAlwaysMirrored ==
  ASSUME NEW D, NEW stored \in [D -> Int], NEW answer \in Seq(AnyClose)
  PROVE  IndexIsMirrored(stored, answer)
<1> DEFINE dated == {i \in DOMAIN answer : answer[i].day # None}
           Twice(s) == \E i, j \in dated : i # j /\ answer[i].day = answer[j].day /\ answer[i].day \notin DOMAIN s
           days == {answer[i].day : i \in dated}
           Close(d) == answer[Max({i \in dated : answer[i].day = d})].close
           once == SyncIndexKlines(stored, answer)
<1>1. \A s : SyncIndexKlines(s, answer)
               = IF Twice(s) THEN s
                 ELSE [d \in DOMAIN s \cup days |-> IF d \in days THEN Close(d) ELSE s[d]]
  BY DEF SyncIndexKlines
<1>2. \A i \in dated : answer[i].day \in days
  OBVIOUS
<1>3. CASE Twice(stored)
  <2>1. once = stored
    BY <1>1, <1>3
  <2>2. \E i, j \in DOMAIN answer : i # j /\ answer[i].day = answer[j].day
    BY <1>3
  <2> QED BY <2>1, <2>2 DEF IndexIsMirrored
<1>4. CASE ~Twice(stored)
  <2>1. once = [d \in DOMAIN stored \cup days |-> IF d \in days THEN Close(d) ELSE stored[d]]
    BY <1>1, <1>4
  <2> HIDE DEF once, days, Close
  <2>2. DOMAIN once = DOMAIN stored \cup days
    BY <2>1
  <2>3. ~Twice(once)
    BY <1>2, <2>2
  <2>4. SyncIndexKlines(once, answer) = once
    <3>1. SyncIndexKlines(once, answer)
            = [d \in DOMAIN once \cup days |-> IF d \in days THEN Close(d) ELSE once[d]]
      BY <1>1, <2>3
    <3>2. \A d \in DOMAIN stored \cup days : (IF d \in days THEN Close(d) ELSE once[d]) = once[d]
      BY <2>1
    <3>3. DOMAIN once \cup days = DOMAIN stored \cup days
      BY <2>2
    <3>4. [d \in DOMAIN once \cup days |-> IF d \in days THEN Close(d) ELSE once[d]]
            = [d \in DOMAIN stored \cup days |-> once[d]]
      BY <3>2, <3>3
    <3>5. once = [d \in DOMAIN stored \cup days |-> once[d]]
      BY <2>1
    <3> QED BY <3>1, <3>4, <3>5
  <2>5. ASSUME \A i, j \in DOMAIN answer : i # j => answer[i].day # answer[j].day,
               NEW i \in DOMAIN answer, answer[i].day # None
        PROVE  once[answer[i].day] = answer[i].close
    <3>1. {j \in dated : answer[j].day = answer[i].day} = {i}
      BY <2>5
    <3>2. Max({i}) = i
      <4>1. i \in Int
        BY LenProperties
      <4> QED BY <4>1 DEF Max
    <3>3. Close(answer[i].day) = answer[i].close
      BY <3>1, <3>2 DEF Close
    <3> QED BY <1>2, <2>1, <2>5, <3>3
  <2> QED BY <2>2, <2>4, <2>5 DEF IndexIsMirrored, once
<1> QED BY <1>3, <1>4

\* The list of all companies: for rows and lists of any size, any years, any
\* distributions and any closes, the next bootstrap wins over what a user
\* synchronised, segments are disjoint and cover the years, every distribution
\* of every answer is stored once, and so is every close of the index.
THEOREM UniverseHolds ==
  input \in AnyUniverse /\ [][Next]_input => []UniverseIsSound
<1>1. input \in AnyUniverse => UniverseIsSound
  <2> SUFFICES ASSUME input \in AnyUniverse PROVE UniverseIsSound
    OBVIOUS
  <2>1. ASSUME input.kind = "universe"
        PROVE  BootstrapWins(input.rows, input.list, [c \in {"a", "b", "c"} |-> "sw"])
    <3>1. \E S : input \in AnyRowsOf(S)
      BY <2>1 DEF AnyUniverse, AnyAnswersOf, AnyClosesOf
    <3>2. PICK S : input.rows \in [S -> AnyStored]
      BY <3>1 DEF AnyRowsOf
    <3> QED BY <3>2, BootstrapsWin
  <2>2. input.kind = "segment" => SegmentsCover(input.start, input.end, input.span)
    BY SegmentsAlwaysCover DEF AnyUniverse, AnyRowsOf, AnyAnswersOf, AnyClosesOf
  <2>3. ASSUME input.kind = "dividend" PROVE DividendsMirrored(input.stored, input.answers)
    <3>1. \E S : input \in AnyAnswersOf(S)
      BY <2>3 DEF AnyUniverse, AnyRowsOf, AnyClosesOf
    <3>2. PICK S : input.stored \in [S -> SUBSET AnyAction] /\ input.answers \in [S -> Seq(AnyRecord) \cup {None}]
      BY <3>1 DEF AnyAnswersOf
    <3> QED BY <3>2, DividendsAlwaysMirrored
  <2>4. ASSUME input.kind = "index" PROVE IndexIsMirrored(input.stored, input.answer)
    <3>1. \E D : input \in AnyClosesOf(D)
      BY <2>4 DEF AnyUniverse, AnyRowsOf, AnyAnswersOf
    <3>2. PICK D : input.stored \in [D -> Int] /\ input.answer \in Seq(AnyClose)
      BY <3>1 DEF AnyClosesOf
    <3> QED BY <3>2, IndexAlwaysMirrored
  <2> QED BY <2>1, <2>2, <2>3, <2>4 DEF UniverseIsSound
<1>2. input \in AnyUniverse /\ [Next]_input => (input \in AnyUniverse)'
  BY DEF Next
<1> QED BY <1>1, <1>2, PTL

-----------------------------------------------------------------------------
(* What the user reads and edits of the stocks.                              *)

AnyHeld  == [quantity: Nat, cost: Nat, price: Nat \cup {None}]
AnyDay   == [code: STRING, day: Int]
AnyYield == [code: STRING, day: Int, dyr: Int \cup {None}]

Partly(V) == UNION {[D -> V] : D \in SUBSET STRING}

AnyNamesOf(S) == [kind: {"create"}, names: [S -> STRING], code: STRING \ {""}, name: STRING,
                  auto: BOOLEAN, profile: Seq(STRING) \cup {None}, list: Partly(STRING) \cup {None}]
AnyEditOf(F)  == [kind: {"edit"}, stock: [F -> Int \cup {None}], set: Partly(Int \cup {None}),
                  prev: (Nat \ {0}) \cup {None}, closes: Seq(Int) \cup {None}]
AnyViewOf(H)  == [kind: {"view"}, held: [H -> AnyHeld], states: Partly(STRING), known: SUBSET STRING]

(* A stock has one yield a day.                                              *)
OnceADay(R) == \A r, o \in R : r.code = o.code /\ r.day = o.day => r = o

(* Stocks, edits, holdings and rows of any number, and requests that fail.   *)
AnyReads ==
  (UNION {AnyNamesOf(S) : S \in SUBSET STRING})
  \cup (UNION {AnyEditOf(F) : F \in SUBSET STRING})
  \cup (UNION {AnyViewOf(H) : H \in {T \in SUBSET STRING : IsFiniteSet(T)}})
  \cup [kind: {"cleanup"}, rows: {R \in SUBSET AnyDay : IsFiniteSet(R)}, codes: SUBSET STRING,
        before: Int \cup {None}, after: Int \cup {None}]
  \cup [kind: {"yield"}, codes: SUBSET STRING, rows: {R \in SUBSET AnyYield : OnceADay(R)}]

(* The sums, under names.                                                    *)
HeldValues(S, held) == SumOver(S, LAMBDA c : ValueOf(held[c]))
WeightNums(S, view) == SumOver(S, LAMBDA c : view[c].weight.num)

\* Each of them is a total: the values of the positions
LEMMA HeldSum ==
  ASSUME NEW S, NEW held, NEW W, \A x \in S : W[x] = ValueOf(held[x])
  PROVE  HeldValues(S, held) = Total(S, W)
<1> DEFINE P(f) == f = [s \in SUBSET S |->
                         IF s = {} THEN 0
                         ELSE LET x == CHOOSE y \in s : TRUE IN f[s \ {x}] + ValueOf(held[x])]
<1>1. HeldValues(S, held) = (CHOOSE f : P(f))[S]
  BY DEF HeldValues, SumOver, FoldSet, MapThenFoldSet
<1>2. \A f : P(f) <=> Folds(f, S, W)
  BY DEF Folds
<1> HIDE DEF P
<1>3. (CHOOSE f : P(f)) = (CHOOSE f : Folds(f, S, W))
  BY <1>2, Zenon
<1> QED BY <1>1, <1>3, TotalIsFold

\* and their weights.
LEMMA ShownSum ==
  ASSUME NEW S, NEW view, NEW W, \A x \in S : W[x] = view[x].weight.num
  PROVE  WeightNums(S, view) = Total(S, W)
<1> DEFINE P(f) == f = [s \in SUBSET S |->
                         IF s = {} THEN 0
                         ELSE LET x == CHOOSE y \in s : TRUE IN f[s \ {x}] + view[x].weight.num]
<1>1. WeightNums(S, view) = (CHOOSE f : P(f))[S]
  BY DEF WeightNums, SumOver, FoldSet, MapThenFoldSet
<1>2. \A f : P(f) <=> Folds(f, S, W)
  BY DEF Folds
<1> HIDE DEF P
<1>3. (CHOOSE f : P(f)) = (CHOOSE f : Folds(f, S, W))
  BY <1>2, Zenon
<1> QED BY <1>1, <1>3, TotalIsFold

\* create_stock on any names: what StockIsNamed says of it.
LEMMA StocksAreNamed ==
  ASSUME NEW S, NEW names \in [S -> STRING], NEW code \in STRING \ {""}, NEW name \in STRING,
         NEW auto \in BOOLEAN, NEW profile, NEW list
  PROVE  StockIsNamed(names, code, name, auto, profile, list)
<1> DEFINE info == IF auto THEN FetchStockInfo(profile, list, code) ELSE None
           new == CreateStock(names, code, name, auto, profile, list)
<1>1. new = IF code \in S THEN names
            ELSE [c \in S \cup {code} |->
                    IF c # code THEN names[c]
                    ELSE IF name # "" THEN name
                    ELSE IF info \notin {None, ""} THEN info
                    ELSE code]
  BY DEF CreateStock
<1> HIDE DEF info, new
<1>2. code \in DOMAIN new
  BY <1>1
<1>3. CreateStock(new, code, "other", FALSE, None, None) = new
  BY <1>2 DEF CreateStock
<1>4. \A c \in S : new[c] = names[c]
  BY <1>1
<1>5. ASSUME code \notin S
      PROVE  new[code] \notin {"", None} /\ name \in {"", new[code]}
  <2>1. new[code] = IF name # "" THEN name ELSE IF info \notin {None, ""} THEN info ELSE code
    BY <1>1, <1>5
  <2>2. name # None /\ code # None /\ code # ""
    BY NoneIsNoName
  <2> QED BY <2>1, <2>2
<1>6. DOMAIN names = S
  OBVIOUS
<1> QED BY <1>3, <1>4, <1>5, <1>6 DEF StockIsNamed, new

\* Edits of any fields: what EditsAreLocal says of them.
LEMMA EditsStayLocal ==
  ASSUME NEW F, NEW D, NEW V, NEW stock \in [F -> V], NEW set \in [D -> V]
  PROVE  EditsAreLocal(stock, set)
<1> DEFINE put == PutFields(stock, set)
           patched == PatchFlags(stock, set)
<1>1. DOMAIN stock = F /\ DOMAIN set = D
  OBVIOUS
<1>2. put = [x \in F |-> IF x \in D THEN set[x] ELSE stock[x]]
  BY DEF PutFields
<1>3. patched = [x \in F |-> IF x \in D /\ set[x] # None THEN set[x] ELSE stock[x]]
  BY DEF PatchFlags
<1>4. PutFields(put, set) = [x \in F |-> IF x \in D THEN set[x] ELSE put[x]]
  BY <1>2 DEF PutFields
<1>5. PatchFlags(patched, set) = [x \in F |-> IF x \in D /\ set[x] # None THEN set[x] ELSE patched[x]]
  BY <1>3 DEF PatchFlags
<1> HIDE DEF put, patched
<1>6. \A x \in F : (IF x \in D THEN set[x] ELSE put[x]) = (IF x \in D THEN set[x] ELSE stock[x])
  BY <1>2
<1>7. \A x \in F : (IF x \in D /\ set[x] # None THEN set[x] ELSE patched[x])
                     = (IF x \in D /\ set[x] # None THEN set[x] ELSE stock[x])
  BY <1>3
<1>8. PutFields(put, set) = put
  BY <1>2, <1>4, <1>6
<1>9. PatchFlags(patched, set) = patched
  BY <1>3, <1>5, <1>7
<1>10. \A x \in F \ D : put[x] = stock[x] /\ patched[x] = stock[x]
  BY <1>2, <1>3
<1>11. \A x \in F : stock[x] # None => patched[x] # None
  BY <1>3
<1> QED BY <1>1, <1>8, <1>9, <1>10, <1>11 DEF EditsAreLocal, put, patched

\* api_price_band: what BandIsFound says of it.
LEMMA BandsAreFound ==
  ASSUME NEW prev \in (Nat \ {0}) \cup {None}, NEW closes \in Seq(Int) \cup {None}
  PROVE  BandIsFound(prev, closes)
<1> DEFINE r == AskedBand(prev, closes)
<1>1. ASSUME closes \notin {None, <<>>} PROVE Head(closes) \in Int
  <2>1. closes \in Seq(Int) /\ closes # <<>>
    BY <1>1
  <2> QED BY <2>1, HeadTailProperties
<1>2. PICK found : r.prev = found /\ (r.band <=> found # None)
                   /\ found = IF prev # None THEN prev
                              ELSE IF closes \in {None, <<>>} THEN prev
                              ELSE IF Head(closes) > 0 THEN Head(closes) ELSE prev
  BY DEF AskedBand, UpdatePrevClose
<1>3. found \in (Nat \ {0}) \cup {None}
  BY <1>1, <1>2
<1>4. prev # None => found = prev
  BY <1>2
<1>5. found # None => found > 0
  BY <1>3
<1>6. found # None => AskedBand(found, None) = [prev |-> found, band |-> TRUE]
  BY DEF AskedBand, UpdatePrevClose
<1>7. found # None => r = [prev |-> found, band |-> TRUE]
  BY <1>2 DEF AskedBand
<1>8. found = None => closes \in {None, <<>>} \/ Head(closes) <= 0
  <2>1. SUFFICES ASSUME found = None, closes \notin {None, <<>>} PROVE Head(closes) <= 0
    OBVIOUS
  <2>2. PICK h \in Int : h = Head(closes)
    BY <1>1, <2>1
  <2>3. ~(h > 0)
    BY <1>2, <2>1, <2>2, NoneAssumption
  <2> QED BY <2>2, <2>3
<1> HIDE DEF r
<1> QED BY <1>2, <1>4, <1>5, <1>6, <1>7, <1>8 DEF BandIsFound, r

\* build_universe_view on any holdings: what WeightsAddUp says of it.
LEMMA WeightsAlwaysAddUp ==
  ASSUME NEW H, IsFiniteSet(H), NEW S, NEW held \in [H -> AnyHeld], NEW states \in [S -> STRING], NEW known
  PROVE  WeightsAddUp(held, states, known)
<1> DEFINE view == BuildUniverseView(held, states, known)
           watched == {c \in S : states[c] \in WATCHED_STATES}
           total == HeldValues(H, held)
           shown == {c \in DOMAIN view : view[c].weight # None}
           W == [c \in H |-> ValueOf(held[c])]
<1>1. DOMAIN held = H /\ DOMAIN states = S
  OBVIOUS
<1>2. \A c \in H : ValueOf(held[c]) \in Nat
  <2>1. ASSUME NEW c \in H PROVE ValueOf(held[c]) \in Nat
    <3>1. PICK h \in AnyHeld : h = held[c]
      OBVIOUS
    <3>2. h.quantity \in Nat /\ h.cost \in Nat /\ (h.price # None => h.price \in Nat)
      BY DEF AnyHeld
    <3>3. h.price # None => h.price * h.quantity \in Nat
      BY <3>2, Products
    <3> QED BY <3>1, <3>2, <3>3 DEF ValueOf
  <2> QED BY <2>1
<1>3. W \in [H -> Int] /\ \A c \in H : W[c] = ValueOf(held[c]) /\ W[c] >= 0
  BY <1>2
<1>4. total = Total(H, W) /\ total \in Int
  <2>1. \A x \in H : W[x] = ValueOf(held[x])
    BY <1>3
  <2>2. HeldValues(H, held) = Total(H, W)
    BY <2>1, HeldSum
  <2>3. Total(H, W) \in Int
    BY <1>3, TotalStep
  <2> QED BY <2>2, <2>3
<1>5. /\ DOMAIN view = (H \cup watched) \cap known
      /\ \A c \in DOMAIN view :
           /\ view[c].held <=> c \in H
           /\ view[c].candidate <=> c \in S /\ states[c] = "candidate"
           /\ view[c].weight = IF c \notin H THEN None ELSE IF ValueOf(held[c]) = 0 THEN None
                               ELSE [num |-> ValueOf(held[c]), den |-> total]
  BY DEF BuildUniverseView, HeldValues
<1> HIDE DEF view, total, W
<1>6. ASSUME NEW c \in DOMAIN view
      PROVE  /\ view[c].weight # None <=> c \in H /\ W[c] # 0
             /\ view[c].weight # None => view[c].weight.num = W[c]
  <2>1. c \in H => [num |-> ValueOf(held[c]), den |-> total] # None
    <3>1. SUFFICES ASSUME c \in H PROVE [num |-> ValueOf(held[c]), den |-> total] # None
      OBVIOUS
    <3>2. [num |-> ValueOf(held[c]), den |-> total] \in [num: Int, den: Int]
      BY <1>2, <1>4, <3>1
    <3> QED BY <3>2, NoneIsNoWeight
  <2>2. view[c].weight = IF c \notin H THEN None ELSE IF ValueOf(held[c]) = 0 THEN None
                         ELSE [num |-> ValueOf(held[c]), den |-> total]
    BY <1>5
  <2>3. CASE c \notin H
    BY <2>2, <2>3
  <2>4. CASE c \in H
    <3>1. W[c] = ValueOf(held[c])
      BY <1>3, <2>4
    <3> QED BY <2>1, <2>2, <2>4, <3>1
  <2> QED BY <2>3, <2>4
<1>7. shown = {c \in H \cap known : W[c] # 0}
  BY <1>5, <1>6
<1>8. WeightNums(shown, view) = Total(shown, W)
  <2>1. \A x \in shown : W[x] = view[x].weight.num
    BY <1>6
  <2> HIDE DEF shown
  <2> QED BY <2>1, ShownSum
<1>9. Total(shown, W) <= Total(H, W)
  <2>1. shown \in SUBSET H
    BY <1>7
  <2>2. \A x \in H : W[x] >= 0
    BY <1>3
  <2> HIDE DEF shown
  <2> QED BY <1>3, <2>1, <2>2, TotalOfPart
<1>10. H \subseteq known => Total(shown, W) = Total(H, W)
  <2>1. SUFFICES ASSUME H \subseteq known PROVE Total(shown, W) = Total(H, W)
    OBVIOUS
  <2> DEFINE rest == H \ shown
  <2>2. shown \in SUBSET H /\ rest \in SUBSET H /\ shown \cap rest = {} /\ shown \cup rest = H
        /\ \A x \in rest : W[x] = 0
    BY <1>7, <2>1
  <2> HIDE DEF shown, rest
  <2>3. Total(rest, W) = 0
    BY <1>3, <2>2, TotalOfZeros
  <2>4. Total(shown \cup rest, W) = Total(shown, W) + Total(rest, W)
    BY <1>3, <2>2, TotalUnion
  <2>5. PICK a \in Int : a = Total(shown, W) /\ a + 0 = a
    <3>1. Total(shown, W) \in Int
      BY <1>3, <2>2, TotalStep
    <3> QED BY <3>1
  <2> QED BY <2>2, <2>3, <2>4, <2>5
<1>11. \A c \in DOMAIN view : view[c].candidate => c \in S
  BY <1>5
<1>12. \A c \in DOMAIN view : ~view[c].held => states[c] \in WATCHED_STATES
  BY <1>5
<1>13. /\ WeightNums(shown, view) <= total
       /\ H \subseteq known => WeightNums(shown, view) = total
  BY <1>4, <1>8, <1>9, <1>10
<1> HIDE DEF watched
<1> QED BY <1>1, <1>11, <1>12, <1>13, Zenon DEF WeightsAddUp, WeightNums, HeldValues, view, total

\* The cleanup of any rows: what PreviewIsDeleted says of it.
LEMMA PreviewsAreDeleted ==
  ASSUME NEW rows \in SUBSET AnyDay, IsFiniteSet(rows), NEW codes \in SUBSET STRING,
         NEW before \in Int \cup {None}, NEW after \in Int \cup {None}
  PROVE  PreviewIsDeleted(rows, codes, before, after)
<1> DEFINE M == Matching(rows, codes, before, after)
           left == ExecuteCleanup(rows, codes, before, after)
           own == {r \in rows : r.code \in codes}
<1>1. M \subseteq rows /\ left = rows \ M
  BY DEF Matching, ExecuteCleanup
<1>2. \A A, B : IsFiniteSet(A) /\ B \subseteq A =>
        Cardinality(A) \in Nat /\ Cardinality(B) \in Nat /\ Cardinality(A \ B) = Cardinality(A) - Cardinality(B)
  <2>1. ASSUME NEW A, NEW B, IsFiniteSet(A), B \subseteq A
        PROVE  Cardinality(A) \in Nat /\ Cardinality(B) \in Nat /\ Cardinality(A \ B) = Cardinality(A) - Cardinality(B)
    <3>1. IsFiniteSet(B)
      BY <2>1, FS_Subset
    <3>2. Cardinality(A \ B) = Cardinality(A) - Cardinality(A \cap B)
      BY <2>1, FS_Difference
    <3>3. A \cap B = B
      BY <2>1
    <3>4. Cardinality(A) \in Nat /\ Cardinality(B) \in Nat
      BY <2>1, <3>1, FS_CardinalityType
    <3> QED BY <3>2, <3>3, <3>4
  <2> QED BY <2>1
<1>3. Cardinality(rows) - Cardinality(left) = PreviewCleanup(rows, codes, before, after)
  <2> HIDE DEF M, left
  <2>1. PICK a \in Nat, b \in Nat : a = Cardinality(rows) /\ b = Cardinality(M) /\ Cardinality(rows \ M) = a - b
    BY <1>1, <1>2
  <2>2. a - (a - b) = b
    OBVIOUS
  <2> QED BY <1>1, <2>1, <2>2 DEF PreviewCleanup, M
<1>4. codes # {} => {r \in rows : r.code \notin codes} \subseteq left
  BY DEF ExecuteCleanup, Matching
<1>5. ExecuteCleanup(left, codes, before, after) = left
  BY DEF ExecuteCleanup, Matching
<1>6. ASSUME before = None, after = None, NEW c \in codes
      PROVE  ~Completeness(codes, codes, left)[c]
  <2>1. \A r \in left : r.code # c
    BY <1>6 DEF ExecuteCleanup, Matching
  <2> HIDE DEF left
  <2> QED BY <2>1 DEF Completeness
<1>7. ASSUME codes # {}
      PROVE  DataStatus(codes, left).total
               = DataStatus(codes, rows).total - PreviewCleanup(rows, codes, before, after)
  <2>1. M \subseteq own
    BY <1>7 DEF Matching
  <2>2. {r \in left : r.code \in codes} = own \ M
    BY <1>1
  <2>3. IsFiniteSet(own)
    BY FS_Subset
  <2>4. DataStatus(codes, left).total = Cardinality({r \in left : r.code \in codes})
    BY <1>7 DEF DataStatus
  <2>5. DataStatus(codes, rows).total = Cardinality(own)
    BY <1>7 DEF DataStatus
  <2> HIDE DEF M, left, own
  <2>6. Cardinality(own \ M) = Cardinality(own) - Cardinality(M)
    BY <1>2, <2>1, <2>3
  <2> QED BY <2>2, <2>4, <2>5, <2>6 DEF PreviewCleanup, M
<1> HIDE DEF left
<1> QED BY <1>3, <1>4, <1>5, <1>6, <1>7 DEF PreviewIsDeleted, left

\* The yields of any rows: what YieldsAgree says of them.
LEMMA YieldsAlwaysAgree ==
  ASSUME NEW rows \in SUBSET AnyYield, OnceADay(rows), NEW codes
  PROVE  YieldsAgree(rows, codes)
<1> DEFINE all == {r \in UNION {Newest(rows, c) : c \in codes} : r.dyr # None}
           batch == BatchLatestDyrs(rows, codes)
<1>1. \A c : \A r, o \in Newest(rows, c) : r = o
  <2>1. ASSUME NEW c, NEW r \in Newest(rows, c), NEW o \in Newest(rows, c) PROVE r = o
    <3>1. /\ r \in rows /\ o \in rows /\ r.code = c /\ o.code = c
          /\ r.day <= o.day /\ o.day <= r.day
      BY DEF Newest
    <3>2. r.day \in Int /\ o.day \in Int
      BY <3>1 DEF AnyYield
    <3>3. r.day = o.day
      BY <3>1, <3>2
    <3> QED BY <3>1, <3>3 DEF OnceADay
  <2> QED BY <2>1
<1>2. \A c : \A r \in Newest(rows, c) : r.code = c
  BY DEF Newest
<1>3. \A r : r \in all <=> (\E c \in codes : r \in Newest(rows, c)) /\ r.dyr # None
  OBVIOUS
<1>4. batch = [c \in {r.code : r \in all} |-> (CHOOSE r \in all : r.code = c).dyr]
  BY DEF BatchLatestDyrs
<1> HIDE DEF all, batch
<1>5. ASSUME NEW c \in codes
      PROVE  LatestDyr(rows, c) = IF c \in DOMAIN batch THEN batch[c] ELSE None
  <2>1. CASE Newest(rows, c) = {}
    <3>1. \A r \in all : r.code # c
      BY <1>2, <1>3, <2>1
    <3> QED BY <1>4, <2>1, <3>1 DEF LatestDyr
  <2>2. CASE Newest(rows, c) # {}
    <3>1. PICK n \in Newest(rows, c) : TRUE
      BY <2>2
    <3>2. (CHOOSE r \in Newest(rows, c) : TRUE) = n
      BY <1>1, <3>1
    <3>3. LatestDyr(rows, c) = n.dyr
      BY <2>2, <3>2 DEF LatestDyr
    <3>4. \A r \in all : r.code = c => r = n
      BY <1>1, <1>2, <1>3, <3>1
    <3>5. CASE n.dyr = None
      <4>1. \A r \in all : r.code # c
        BY <1>3, <3>4, <3>5
      <4> QED BY <1>4, <3>3, <3>5, <4>1
    <3>6. CASE n.dyr # None
      <4>1. n \in all /\ n.code = c
        BY <1>2, <1>3, <3>1, <3>6
      <4>2. (CHOOSE r \in all : r.code = c) = n
        BY <3>4, <4>1
      <4>3. c \in DOMAIN batch /\ batch[c] = n.dyr
        BY <1>4, <4>1, <4>2
      <4> QED BY <3>3, <4>3
    <3> QED BY <3>5, <3>6
  <2> QED BY <2>1, <2>2
<1> QED BY <1>5 DEF YieldsAgree, batch

\* What the user reads and edits: for stocks, edits, holdings and rows of any
\* number, and requests that fail, a new stock has a name and keeps it, edits
\* touch only what they name, a price band is found again, weights add up,
\* what a cleanup previews is deleted, and one and many yields agree.
THEOREM ReadsHold ==
  input \in AnyReads /\ [][Next]_input => []ReadsAreSound
<1>1. input \in AnyReads => ReadsAreSound
  <2> SUFFICES ASSUME input \in AnyReads PROVE ReadsAreSound
    OBVIOUS
  <2>a. /\ \A S : \A x \in AnyNamesOf(S) : x.kind = "create"
        /\ \A S : \A x \in AnyEditOf(S) : x.kind = "edit"
        /\ \A S : \A x \in AnyViewOf(S) : x.kind = "view"
    BY DEF AnyNamesOf, AnyEditOf, AnyViewOf
  <2>1. ASSUME input.kind = "create"
        PROVE  StockIsNamed(input.names, input.code, input.name, input.auto, input.profile, input.list)
    <3>1. \E S : input \in AnyNamesOf(S)
      BY <2>a, <2>1 DEF AnyReads
    <3>2. PICK S : /\ input.names \in [S -> STRING] /\ input.code \in STRING \ {""}
                   /\ input.name \in STRING /\ input.auto \in BOOLEAN
      BY <3>1 DEF AnyNamesOf
    <3> QED BY <3>2, StocksAreNamed
  <2>2. ASSUME input.kind = "edit"
        PROVE  EditsAreLocal(input.stock, input.set) /\ BandIsFound(input.prev, input.closes)
    <3>1. \E F : input \in AnyEditOf(F)
      BY <2>a, <2>2 DEF AnyReads
    <3>2. PICK F : /\ input.stock \in [F -> Int \cup {None}] /\ input.set \in Partly(Int \cup {None})
                   /\ input.prev \in (Nat \ {0}) \cup {None} /\ input.closes \in Seq(Int) \cup {None}
      BY <3>1 DEF AnyEditOf
    <3>3. PICK D : input.set \in [D -> Int \cup {None}]
      BY <3>2 DEF Partly
    <3>4. EditsAreLocal(input.stock, input.set)
      BY <3>2, <3>3, EditsStayLocal
    <3> QED BY <3>2, <3>4, BandsAreFound
  <2>3. ASSUME input.kind = "view" PROVE WeightsAddUp(input.held, input.states, input.known)
    <3>1. \E H : IsFiniteSet(H) /\ input \in AnyViewOf(H)
      BY <2>a, <2>3 DEF AnyReads
    <3>2. PICK H : IsFiniteSet(H) /\ input.held \in [H -> AnyHeld] /\ input.states \in Partly(STRING)
      BY <3>1 DEF AnyViewOf
    <3>3. PICK S : input.states \in [S -> STRING]
      BY <3>2 DEF Partly
    <3> QED BY <3>2, <3>3, WeightsAlwaysAddUp
  <2>4. input.kind = "cleanup" => PreviewIsDeleted(input.rows, input.codes, input.before, input.after)
    BY <2>a, PreviewsAreDeleted DEF AnyReads
  <2>5. input.kind = "yield" => YieldsAgree(input.rows, input.codes)
    BY <2>a, YieldsAlwaysAgree DEF AnyReads
  <2> QED BY <2>1, <2>2, <2>3, <2>4, <2>5 DEF ReadsAreSound
<1>2. input \in AnyReads /\ [Next]_input => (input \in AnyReads)'
  BY DEF Next
<1> QED BY <1>1, <1>2, PTL

-----------------------------------------------------------------------------
(* Folds over sequences.                                                     *)

\* The largest number of a set of numbers.
LEMMA MaxUpTo ==
  ASSUME NEW m \in Nat, NEW s \in SUBSET (1..m), s # {}
  PROVE  Max(s) \in s /\ \A x \in s : x <= Max(s)
<1>1. IsFiniteSet(s)
  <2>1. IsFiniteSet(1..m)
    BY UpToFinite
  <2> QED BY <2>1, FS_Subset
<1>2. s \subseteq Int
  OBVIOUS
<1> QED BY <1>1, <1>2, Extremes

\* The last of the first k numbers, and those before it.
LEMMA LastUpTo ==
  ASSUME NEW k \in Nat \ {0}
  PROVE  1..k # {} /\ Max(1..k) = k /\ 1..k \ {Max(1..k)} = 1..k - 1
<1>1. k \in 1..k
  OBVIOUS
<1>2. Max(1..k) \in 1..k /\ \A x \in 1..k : x <= Max(1..k)
  BY <1>1, MaxUpTo
<1>3. PICK m \in 1..k : m = Max(1..k) /\ \A x \in 1..k : x <= m
  BY <1>2
<1>4. m = k
  BY <1>1, <1>3
<1> QED BY <1>1, <1>3, <1>4

(* What a fold computes, for all sets of places.                             *)
FoldsTo(f, n, H, base, G) ==
  /\ f \in [SUBSET (1..n) -> H]
  /\ f[{}] = base
  /\ \A s \in SUBSET (1..n) : s # {} => f[s] = G[Max(s)][f[s \ {Max(s)}]]

\* One place more.
LEMMA FoldExtends ==
  ASSUME NEW H, NEW base \in H, NEW n \in Nat, NEW G \in [1..n -> [H -> H]],
         NEW k \in Nat, NEW f, FoldsTo(f, k, H, base, G), k + 1 <= n
  PROVE  \E g : FoldsTo(g, k + 1, H, base, G)
<1> DEFINE m == k + 1
           g == [s \in SUBSET (1..m) |-> IF m \in s THEN G[m][f[s \ {m}]] ELSE f[s]]
<1>1. f \in [SUBSET (1..k) -> H] /\ f[{}] = base
  BY DEF FoldsTo
<1>2. \A s \in SUBSET (1..k) : s # {} => f[s] = G[Max(s)][f[s \ {Max(s)}]]
  BY DEF FoldsTo
<1>3. m \in 1..n /\ m \in Nat /\ m \notin 1..k
  OBVIOUS
<1>4. \A s \in SUBSET (1..m) : s \ {m} \in SUBSET (1..k)
  OBVIOUS
<1>5. \A s \in SUBSET (1..m) : m \notin s => s \in SUBSET (1..k)
  <2>1. \A s \in SUBSET (1..m) : m \notin s => s \ {m} = s
    OBVIOUS
  <2> QED BY <1>4, <2>1
<1>6. \A s \in SUBSET (1..k) : s \in SUBSET (1..m) /\ m \notin s
  BY <1>3
<1> HIDE DEF m
<1>7. g \in [SUBSET (1..m) -> H]
  <2>1. ASSUME NEW s \in SUBSET (1..m) PROVE (IF m \in s THEN G[m][f[s \ {m}]] ELSE f[s]) \in H
    <3>1. CASE m \in s
      <4>1. f[s \ {m}] \in H
        BY <1>1, <1>4
      <4>2. G[m] \in [H -> H]
        BY <1>3
      <4> QED BY <3>1, <4>1, <4>2
    <3>2. CASE m \notin s
      BY <1>1, <1>5, <3>2
    <3> QED BY <3>1, <3>2
  <2> QED BY <2>1
<1>8. \A s \in SUBSET (1..k) : g[s] = f[s]
  BY <1>6
<1>9. ASSUME NEW s \in SUBSET (1..m), s # {} PROVE g[s] = G[Max(s)][g[s \ {Max(s)}]]
  <2>1. Max(s) \in s /\ \A x \in s : x <= Max(s)
    BY <1>3, <1>9, MaxUpTo
  <2>2. CASE m \in s
    <3>1. Max(s) = m
      <4>1. PICK x \in 1..m : x = Max(s) /\ m <= x
        BY <2>1, <2>2
      <4> QED BY <1>3, <4>1
    <3>2. g[s \ {m}] = f[s \ {m}]
      BY <1>4, <1>8
    <3>3. g[s] = G[m][f[s \ {m}]]
      BY <2>2
    <3> QED BY <3>1, <3>2, <3>3
  <2>3. CASE m \notin s
    <3>1. s \in SUBSET (1..k)
      BY <1>5, <2>3
    <3>2. f[s] = G[Max(s)][f[s \ {Max(s)}]]
      BY <1>2, <1>9, <3>1
    <3>3. s \ {Max(s)} \in SUBSET (1..k)
      BY <3>1
    <3> HIDE DEF g
    <3> QED BY <1>8, <3>1, <3>2, <3>3
  <2> QED BY <2>2, <2>3
<1>10. g[{}] = base
  <2>1. {} \in SUBSET (1..k)
    OBVIOUS
  <2> QED BY <1>1, <1>8, <2>1
<1> HIDE DEF g
<1>11. FoldsTo(g, m, H, base, G)
  BY <1>7, <1>9, <1>10 DEF FoldsTo
<1> QED BY <1>11 DEF m

\* A fold whose operation maps results to results computes something.
LEMMA FoldExists ==
  ASSUME NEW H, NEW base \in H, NEW n \in Nat, NEW G \in [1..n -> [H -> H]]
  PROVE  \E f : FoldsTo(f, n, H, base, G)
<1> DEFINE Runs(k) == \E f : FoldsTo(f, k, H, base, G)
           D == {k \in Nat : k <= n => Runs(k)}
<1>1. Runs(0)
  <2> DEFINE f == [s \in SUBSET (1..0) |-> base]
  <2>1. f \in [SUBSET (1..0) -> H] /\ f[{}] = base
    OBVIOUS
  <2>2. \A s \in SUBSET (1..0) : s = {}
    OBVIOUS
  <2> HIDE DEF f
  <2>3. FoldsTo(f, 0, H, base, G)
    BY <2>1, <2>2 DEF FoldsTo
  <2> QED BY <2>3
<1>2. \A k \in Nat : k + 1 <= n /\ Runs(k) => Runs(k + 1)
  BY FoldExtends
<1> HIDE DEF Runs
<1>3. \A k \in Nat : k \in D => k + 1 \in D
  BY <1>2
<1>4. 0 \in D
  BY <1>1
<1> HIDE DEF D
<1>5. n \in D
  BY <1>3, <1>4, Steps
<1>6. Runs(n)
  BY <1>5 DEF D
<1> QED BY <1>6 DEF Runs

\* What holds of the start and with each step of the next holds throughout.
LEMMA StepByStep ==
  ASSUME NEW n \in Nat, NEW D, 0 \in D, \A k \in 1..n : k - 1 \in D => k \in D
  PROVE  \A k \in 0..n : k \in D
<1> DEFINE E == {k \in Nat : k <= n => k \in D}
<1>1. 0 \in E
  OBVIOUS
<1>2. ASSUME NEW k \in Nat, k \in E PROVE k + 1 \in E
  <2>1. SUFFICES ASSUME k + 1 <= n PROVE k + 1 \in D
    OBVIOUS
  <2>2. PICK j \in 1..n : j = k + 1 /\ j - 1 = k
    BY <2>1
  <2>3. k \in D
    BY <1>2, <2>1
  <2> QED BY <2>2, <2>3
<1> HIDE DEF E
<1>3. \A k \in Nat : k \in E
  BY <1>1, <1>2, Steps
<1> QED BY <1>3 DEF E

-----------------------------------------------------------------------------
(* What the program measures of the outside world and of its use of it.      *)

AnyOutcome   == [at: Int, count: Int, error: STRING \cup {None}]
AnyFreshness == [synced: Int \cup {None}, success: Int \cup {None}, count: Int \cup {None},
                 error: STRING \cup {None}]

\* The freshness after each synchronisation.
LEMMA FreshnessRun ==
  ASSUME NEW outcomes \in Seq(AnyOutcome)
  PROVE  \E h \in [0..Len(outcomes) -> AnyFreshness] :
           /\ h[0] = NeverSynced
           /\ \A k \in 1..Len(outcomes) : h[k] = RecordCompletion(h[k - 1], outcomes[k])
           /\ FreshnessOf(outcomes) = h[Len(outcomes)]
<1> DEFINE P(f) == f = [s \in SUBSET (DOMAIN outcomes) |->
                         IF s = {} THEN NeverSynced
                         ELSE LET x == Max(s) IN RecordCompletion(f[s \ {x}], outcomes[x])]
           c == CHOOSE f : P(f)
<1>1. PICK n \in Nat : n = Len(outcomes) /\ DOMAIN outcomes = 1..n /\ \A i \in 1..n : outcomes[i] \in AnyOutcome
  BY LenProperties
<1>2. FreshnessOf(outcomes) = (CHOOSE f : P(f))[DOMAIN outcomes]
  BY DEF FreshnessOf, FoldLeft, MapThenFoldSet
<1>3. NeverSynced \in AnyFreshness /\ \A r \in AnyFreshness, x \in AnyOutcome : RecordCompletion(r, x) \in AnyFreshness
  BY DEF NeverSynced, AnyFreshness, AnyOutcome, RecordCompletion, RecordSuccess, RecordFailure
<1>4. \E f : P(f)
  <2> DEFINE G == [i \in 1..n |-> [r \in AnyFreshness |-> RecordCompletion(r, outcomes[i])]]
  <2>1. G \in [1..n -> [AnyFreshness -> AnyFreshness]] /\ \A i \in 1..n, r \in AnyFreshness : G[i][r] = RecordCompletion(r, outcomes[i])
    BY <1>1, <1>3
  <2> HIDE DEF G
  <2>2. PICK f : FoldsTo(f, n, AnyFreshness, NeverSynced, G)
    <3>1. NeverSynced \in AnyFreshness /\ n \in Nat /\ G \in [1..n -> [AnyFreshness -> AnyFreshness]]
      BY <1>3, <2>1
    <3> QED BY <3>1, FoldExists, Zenon
  <2>22. /\ f \in [SUBSET (1..n) -> AnyFreshness]
         /\ f[{}] = NeverSynced
         /\ \A s \in SUBSET (1..n) : s # {} => f[s] = G[Max(s)][f[s \ {Max(s)}]]
    BY <2>2 DEF FoldsTo
  <2>3. ASSUME NEW s \in SUBSET (1..n)
        PROVE  f[s] = IF s = {} THEN NeverSynced ELSE RecordCompletion(f[s \ {Max(s)}], outcomes[Max(s)])
    <3>1. CASE s = {}
      BY <2>22, <3>1
    <3>2. CASE s # {}
      <4>1. Max(s) \in 1..n
        <5>1. Max(s) \in s
          BY <3>2, MaxUpTo
        <5> QED BY <5>1
      <4>2. f[s \ {Max(s)}] \in AnyFreshness
        BY <2>22
      <4>3. f[s] = G[Max(s)][f[s \ {Max(s)}]]
        BY <2>22, <3>2
      <4>4. G[Max(s)][f[s \ {Max(s)}]] = RecordCompletion(f[s \ {Max(s)}], outcomes[Max(s)])
        BY <2>1, <4>1, <4>2
      <4> QED BY <3>2, <4>3, <4>4
    <3> QED BY <3>1, <3>2
  <2>4. P(f)
    BY <1>1, <2>22, <2>3
  <2> HIDE DEF P
  <2> QED BY <2>4
<1>5. P(c)
  <2> HIDE DEF P
  <2> QED BY <1>4
<1>6. c[{}] = NeverSynced
  BY <1>5
<1>7. \A s \in SUBSET (1..n) : s # {} => c[s] = RecordCompletion(c[s \ {Max(s)}], outcomes[Max(s)])
  BY <1>1, <1>5
<1>8. FreshnessOf(outcomes) = c[1..n]
  BY <1>1, <1>2
<1> HIDE DEF c, P
<1>9. ASSUME NEW k \in 1..n PROVE c[1..k] = RecordCompletion(c[1..k - 1], outcomes[k])
  <2>1. 1..k \in SUBSET (1..n) /\ k \in Nat \ {0}
    OBVIOUS
  <2>2. 1..k # {} /\ Max(1..k) = k /\ 1..k \ {Max(1..k)} = 1..k - 1
    BY <2>1, LastUpTo
  <2>3. c[1..k] = RecordCompletion(c[1..k \ {Max(1..k)}], outcomes[Max(1..k)])
    BY <1>7, <2>1, <2>2
  <2> QED BY <2>2, <2>3
<1>10. c[1..0] = NeverSynced
  <2>1. 1..0 = {}
    OBVIOUS
  <2> QED BY <1>6, <2>1
<1>11. \A k \in 0..n : c[1..k] \in AnyFreshness
  <2> DEFINE D == {k \in Nat : k <= n => c[1..k] \in AnyFreshness}
  <2>1. 0 \in D
    BY <1>3, <1>10
  <2>2. ASSUME NEW k \in Nat, k \in D PROVE k + 1 \in D
    <3>1. SUFFICES ASSUME k + 1 <= n PROVE c[1..k + 1] \in AnyFreshness
      OBVIOUS
    <3>2. PICK j \in 1..n : j = k + 1 /\ j - 1 = k
      BY <3>1
    <3>3. c[1..k] \in AnyFreshness
      BY <2>2, <3>1
    <3>4. outcomes[j] \in AnyOutcome
      BY <1>1
    <3>5. c[1..j] = RecordCompletion(c[1..k], outcomes[j])
      BY <1>9, <3>2
    <3> QED BY <1>3, <3>2, <3>3, <3>4, <3>5
  <2> HIDE DEF D
  <2>3. \A k \in Nat : k \in D
    BY <2>1, <2>2, Steps
  <2> QED BY <2>3 DEF D
<1> DEFINE h == [k \in 0..n |-> c[1..k]]
<1>12. h \in [0..n -> AnyFreshness] /\ \A k \in 0..n : h[k] = c[1..k]
  BY <1>11
<1>13. \A k \in 1..n : k \in 0..n /\ k - 1 \in 0..n
  OBVIOUS
<1> HIDE DEF h
<1>14. \A k \in 1..n : h[k] = RecordCompletion(h[k - 1], outcomes[k])
  BY <1>9, <1>12, <1>13
<1>15. h[0] = NeverSynced /\ FreshnessOf(outcomes) = h[n]
  BY <1>8, <1>10, <1>12
<1> QED BY <1>1, <1>12, <1>14, <1>15

\* record_pipeline_completion on any history: what FreshnessIsHistory says of it.
LEMMA FreshnessFollows ==
  ASSUME NEW outcomes \in Seq(AnyOutcome), NEW now \in Int, NEW maxAge \in Int,
         \A i, j \in DOMAIN outcomes : i <= j => outcomes[i].at <= outcomes[j].at
  PROVE  FreshnessIsHistory(outcomes, now, maxAge)
<1>1. PICK n \in Nat : n = Len(outcomes) /\ DOMAIN outcomes = 1..n /\ \A i \in 1..n : outcomes[i] \in AnyOutcome
  BY LenProperties
<1>2. PICK h \in [0..n -> AnyFreshness] :
        /\ h[0] = NeverSynced
        /\ \A k \in 1..n : h[k] = RecordCompletion(h[k - 1], outcomes[k])
        /\ FreshnessOf(outcomes) = h[n]
  BY <1>1, FreshnessRun
<1> DEFINE Good(k) == {i \in 1..k : outcomes[i].error = None}
           Seen(k) == \/ Good(k) = {} /\ h[k].success = None
                      \/ \E i \in Good(k) : /\ \A j \in Good(k) : j <= i
                                            /\ h[k].success = outcomes[i].at
                                            /\ h[k].count = outcomes[i].count
           D == {k \in 0..n : /\ Seen(k)
                              /\ k > 0 => h[k].error = outcomes[k].error /\ h[k].synced = outcomes[k].at}
<1>3. 0 \in D
  <2>1. Good(0) = {}
    OBVIOUS
  <2> QED BY <1>2, <2>1 DEF NeverSynced
<1>4. ASSUME NEW k \in 1..n, k - 1 \in D PROVE k \in D
  <2>1. PICK p \in 0..n : p = k - 1
    OBVIOUS
  <2>2. Seen(p)
    BY <1>4, <2>1
  <2>3. h[k] = RecordCompletion(h[p], outcomes[k]) /\ h[p] \in AnyFreshness /\ outcomes[k] \in AnyOutcome
    BY <1>1, <1>2, <2>1
  <2>4. h[k].error = outcomes[k].error /\ h[k].synced = outcomes[k].at
    BY <2>3 DEF RecordCompletion, RecordSuccess, RecordFailure, AnyFreshness
  <2>5. CASE outcomes[k].error = None
    <3>1. h[k].success = outcomes[k].at /\ h[k].count = outcomes[k].count
      BY <2>3, <2>5 DEF RecordCompletion, RecordSuccess
    <3>2. k \in Good(k) /\ \A j \in Good(k) : j <= k
      BY <2>5
    <3>3. Seen(k)
      BY <3>1, <3>2
    <3> HIDE DEF Seen
    <3> QED BY <2>4, <3>3
  <2>6. CASE outcomes[k].error # None
    <3>1. h[k].success = h[p].success /\ h[k].count = h[p].count
      BY <2>3, <2>6 DEF RecordCompletion, RecordFailure, AnyFreshness
    <3>2. Good(k) = Good(p)
      BY <2>1, <2>6
    <3>3. Seen(k)
      <4> HIDE DEF Good
      <4> QED BY <2>2, <3>1, <3>2
    <3> HIDE DEF Seen
    <3> QED BY <2>4, <3>3
  <2> QED BY <2>5, <2>6
<1> HIDE DEF D
<1>5. n \in D
  <2>1. \A k \in 1..n : k - 1 \in D => k \in D
    BY <1>4
  <2>2. \A k \in 0..n : k \in D
    BY <1>3, <2>1, StepByStep
  <2> QED BY <2>2
<1>6. Seen(n) /\ (n > 0 => h[n].error = outcomes[n].error /\ h[n].synced = outcomes[n].at)
  <2> HIDE DEF Seen
  <2> QED BY <1>5 DEF D
<1> DEFINE good == {i \in DOMAIN outcomes : outcomes[i].error = None}
<1>7. good = Good(n)
  BY <1>1
<1>8. FreshEnough(h[n], now, maxAge) <=> \E i \in good : now - outcomes[i].at <= maxAge
  <2>1. CASE Good(n) = {} /\ h[n].success = None
    BY <1>7, <2>1 DEF FreshEnough
  <2>2. ASSUME NEW i \in Good(n), \A j \in Good(n) : j <= i, h[n].success = outcomes[i].at
        PROVE  FreshEnough(h[n], now, maxAge) <=> \E j \in good : now - outcomes[j].at <= maxAge
    <3>1. \A j \in Good(n) : outcomes[j].at \in Int /\ outcomes[j].at <= outcomes[i].at
      <4>1. ASSUME NEW j \in Good(n) PROVE outcomes[j].at \in Int /\ outcomes[j].at <= outcomes[i].at
        <5>1. j <= i /\ j \in DOMAIN outcomes /\ i \in DOMAIN outcomes
          BY <1>1, <2>2
        <5>2. outcomes[j] \in AnyOutcome
          BY <1>1
        <5> QED BY <5>1, <5>2 DEF AnyOutcome
      <4> QED BY <4>1
    <3>2. outcomes[i].at \in Int /\ outcomes[i].at # None
      BY <2>2, <3>1, NoneAssumption
    <3>3. FreshEnough(h[n], now, maxAge) <=> now - outcomes[i].at <= maxAge
      BY <2>2, <3>2 DEF FreshEnough
    <3>4. \A j \in Good(n) : now - outcomes[j].at <= maxAge => now - outcomes[i].at <= maxAge
      <4>1. ASSUME NEW j \in Good(n), now - outcomes[j].at <= maxAge PROVE now - outcomes[i].at <= maxAge
        <5>1. PICK a \in Int, b \in Int : a = outcomes[j].at /\ b = outcomes[i].at /\ a <= b
          BY <3>1, <3>2
        <5>2. now - a <= maxAge
          BY <4>1, <5>1
        <5> HIDE DEF Good, good
        <5>3. now - b <= maxAge
          BY <5>1, <5>2
        <5> QED BY <5>1, <5>3
      <4> QED BY <4>1
    <3> HIDE DEF Good, good
    <3> QED BY <1>7, <2>2, <3>3, <3>4
  <2> QED BY <1>6, <2>1, <2>2
<1>9. good # {} => h[n].count = outcomes[Max(good)].count
  <2>1. SUFFICES ASSUME Good(n) # {} PROVE h[n].count = outcomes[Max(Good(n))].count
    BY <1>7
  <2>2. PICK i \in Good(n) : /\ \A j \in Good(n) : j <= i
                             /\ h[n].count = outcomes[i].count
    BY <1>6, <2>1
  <2>3. Max(Good(n)) \in Good(n) /\ \A x \in Good(n) : x <= Max(Good(n))
    <3>1. Good(n) \in SUBSET (1..n)
      OBVIOUS
    <3> HIDE DEF Good
    <3> QED BY <2>1, <3>1, MaxUpTo
  <2>4. PICK m \in 1..n : m = Max(Good(n)) /\ m <= i /\ i <= m
    BY <2>2, <2>3
  <2>5. m = i
    BY <2>4
  <2> QED BY <2>2, <2>4, <2>5
<1>10. outcomes # <<>> => h[n].error = Last(outcomes).error /\ h[n].synced = Last(outcomes).at
  <2>1. SUFFICES ASSUME outcomes # <<>> PROVE n > 0 /\ Last(outcomes) = outcomes[n]
    BY <1>6
  <2>2. n > 0
    BY <1>1, <2>1, EmptySeq
  <2> QED BY <1>1, <2>2 DEF Last
<1> HIDE DEF good
<1> QED BY <1>2, <1>8, <1>9, <1>10, Zenon DEF FreshnessIsHistory, good


AnyEmitted == [last: Int \cup {None}, raised: Seq(Int)]
NoneEmitted == [last |-> None, raised |-> <<>>]
Emitted(times) == FoldLeft(EmitJobFailure, NoneEmitted, times)

\* The alerts after each failure.
LEMMA EmittedRun ==
  ASSUME NEW times \in Seq(Int)
  PROVE  \E h \in [0..Len(times) -> AnyEmitted] :
           /\ h[0] = NoneEmitted
           /\ \A k \in 1..Len(times) : h[k] = EmitJobFailure(h[k - 1], times[k])
           /\ Emitted(times) = h[Len(times)]
<1> DEFINE P(f) == f = [s \in SUBSET (DOMAIN times) |->
                         IF s = {} THEN NoneEmitted
                         ELSE LET x == Max(s) IN EmitJobFailure(f[s \ {x}], times[x])]
           c == CHOOSE f : P(f)
<1>1. PICK n \in Nat : n = Len(times) /\ DOMAIN times = 1..n /\ \A i \in 1..n : times[i] \in Int
  BY LenProperties
<1>2. Emitted(times) = (CHOOSE f : P(f))[DOMAIN times]
  BY DEF Emitted, FoldLeft, MapThenFoldSet
<1>3. NoneEmitted \in AnyEmitted /\ \A r \in AnyEmitted, x \in Int : EmitJobFailure(r, x) \in AnyEmitted
  <2>1. \A t \in Seq(Int) : \A x \in Int : Append(t, x) \in Seq(Int)
    OBVIOUS
  <2>2. <<>> \in Seq(Int)
    OBVIOUS
  <2> QED BY <2>1, <2>2 DEF NoneEmitted, AnyEmitted, EmitJobFailure
<1>4. \E f : P(f)
  <2> DEFINE G == [i \in 1..n |-> [r \in AnyEmitted |-> EmitJobFailure(r, times[i])]]
  <2>1. G \in [1..n -> [AnyEmitted -> AnyEmitted]] /\ \A i \in 1..n, r \in AnyEmitted : G[i][r] = EmitJobFailure(r, times[i])
    BY <1>1, <1>3
  <2> HIDE DEF G
  <2>2. PICK f : FoldsTo(f, n, AnyEmitted, NoneEmitted, G)
    <3>1. NoneEmitted \in AnyEmitted /\ n \in Nat /\ G \in [1..n -> [AnyEmitted -> AnyEmitted]]
      BY <1>3, <2>1
    <3> QED BY <3>1, FoldExists, Zenon
  <2>22. /\ f \in [SUBSET (1..n) -> AnyEmitted]
         /\ f[{}] = NoneEmitted
         /\ \A s \in SUBSET (1..n) : s # {} => f[s] = G[Max(s)][f[s \ {Max(s)}]]
    BY <2>2 DEF FoldsTo
  <2>3. ASSUME NEW s \in SUBSET (1..n)
        PROVE  f[s] = IF s = {} THEN NoneEmitted ELSE EmitJobFailure(f[s \ {Max(s)}], times[Max(s)])
    <3>1. CASE s = {}
      BY <2>22, <3>1
    <3>2. CASE s # {}
      <4>1. Max(s) \in 1..n
        <5>1. Max(s) \in s
          BY <3>2, MaxUpTo
        <5> QED BY <5>1
      <4>2. f[s \ {Max(s)}] \in AnyEmitted
        BY <2>22
      <4>3. f[s] = G[Max(s)][f[s \ {Max(s)}]]
        BY <2>22, <3>2
      <4>4. G[Max(s)][f[s \ {Max(s)}]] = EmitJobFailure(f[s \ {Max(s)}], times[Max(s)])
        BY <2>1, <4>1, <4>2
      <4> QED BY <3>2, <4>3, <4>4
    <3> QED BY <3>1, <3>2
  <2>4. P(f)
    BY <1>1, <2>22, <2>3
  <2> HIDE DEF P
  <2> QED BY <2>4
<1>5. P(c)
  <2> HIDE DEF P
  <2> QED BY <1>4
<1>6. c[{}] = NoneEmitted
  BY <1>5
<1>7. \A s \in SUBSET (1..n) : s # {} => c[s] = EmitJobFailure(c[s \ {Max(s)}], times[Max(s)])
  BY <1>1, <1>5
<1>8. Emitted(times) = c[1..n]
  BY <1>1, <1>2
<1> HIDE DEF c, P
<1>9. ASSUME NEW k \in 1..n PROVE c[1..k] = EmitJobFailure(c[1..k - 1], times[k])
  <2>1. 1..k \in SUBSET (1..n) /\ k \in Nat \ {0}
    OBVIOUS
  <2>2. 1..k # {} /\ Max(1..k) = k /\ 1..k \ {Max(1..k)} = 1..k - 1
    BY <2>1, LastUpTo
  <2>3. c[1..k] = EmitJobFailure(c[1..k \ {Max(1..k)}], times[Max(1..k)])
    BY <1>7, <2>1, <2>2
  <2> QED BY <2>2, <2>3
<1>10. c[1..0] = NoneEmitted
  <2>1. 1..0 = {}
    OBVIOUS
  <2> QED BY <1>6, <2>1
<1>11. \A k \in 0..n : c[1..k] \in AnyEmitted
  <2> DEFINE D == {k \in Nat : k <= n => c[1..k] \in AnyEmitted}
  <2>1. 0 \in D
    BY <1>3, <1>10
  <2>2. ASSUME NEW k \in Nat, k \in D PROVE k + 1 \in D
    <3>1. SUFFICES ASSUME k + 1 <= n PROVE c[1..k + 1] \in AnyEmitted
      OBVIOUS
    <3>2. PICK j \in 1..n : j = k + 1 /\ j - 1 = k
      BY <3>1
    <3>3. c[1..k] \in AnyEmitted
      BY <2>2, <3>1
    <3>4. times[j] \in Int
      BY <1>1
    <3>5. c[1..j] = EmitJobFailure(c[1..k], times[j])
      BY <1>9, <3>2
    <3> QED BY <1>3, <3>2, <3>3, <3>4, <3>5
  <2> HIDE DEF D
  <2>3. \A k \in Nat : k \in D
    BY <2>1, <2>2, Steps
  <2> QED BY <2>3 DEF D
<1> DEFINE h == [k \in 0..n |-> c[1..k]]
<1>12. h \in [0..n -> AnyEmitted] /\ \A k \in 0..n : h[k] = c[1..k]
  BY <1>11
<1>13. \A k \in 1..n : k \in 0..n /\ k - 1 \in 0..n
  OBVIOUS
<1> HIDE DEF h
<1>14. \A k \in 1..n : h[k] = EmitJobFailure(h[k - 1], times[k])
  BY <1>9, <1>12, <1>13
<1>15. h[0] = NoneEmitted /\ Emitted(times) = h[n]
  BY <1>8, <1>10, <1>12
<1> QED BY <1>1, <1>12, <1>14, <1>15

\* emit_job_failure_alert on any failures: what OneAlertPerWindow says of it.
LEMMA AlertsStayApart ==
  ASSUME NEW times \in Seq(Int), \A i, j \in DOMAIN times : i <= j => times[i] <= times[j]
  PROVE  OneAlertPerWindow(times)
<1>1. PICK n \in Nat : n = Len(times) /\ DOMAIN times = 1..n /\ \A i \in 1..n : times[i] \in Int
  BY LenProperties
<1>2. PICK h \in [0..n -> AnyEmitted] :
        /\ h[0] = NoneEmitted
        /\ \A k \in 1..n : h[k] = EmitJobFailure(h[k - 1], times[k])
        /\ Emitted(times) = h[n]
  BY <1>1, EmittedRun
<1> DEFINE w == DEDUP_WINDOW_SECONDS
           Apart(t) == \A i, j \in DOMAIN t : i < j => t[j] - t[i] > w
           Covers(t, k) == \A m \in 1..k : \E i \in DOMAIN t : t[i] <= times[m] /\ times[m] - t[i] <= w
           Latest(t, last) == last \in Int /\ \A i \in DOMAIN t : t[i] <= last
           Holds(t, last, k) == /\ Apart(t) /\ Covers(t, k)
                                /\ k = 0 => t = <<>> /\ last = None
                                /\ k > 0 => /\ Latest(t, last) /\ last <= times[k]
                                            /\ \E i \in DOMAIN t : t[i] = last
           D == {k \in 0..n : Holds(h[k].raised, h[k].last, k)}
<1>w. w \in Nat
  BY DEF DEDUP_WINDOW_SECONDS
<1> HIDE DEF w
<1>3. 0 \in D
  BY <1>2 DEF NoneEmitted
<1>4. ASSUME NEW k \in 1..n, k - 1 \in D PROVE k \in D
  <2>1. PICK p \in 0..n, now \in Int, t \in Seq(Int), last \in Int \cup {None} :
          p = k - 1 /\ now = times[k] /\ t = h[p].raised /\ last = h[p].last
    <3>1. k - 1 \in 0..n
      OBVIOUS
    <3>2. h[k - 1].raised \in Seq(Int) /\ h[k - 1].last \in Int \cup {None}
      BY <1>2, <3>1 DEF AnyEmitted
    <3> QED BY <1>1, <3>1, <3>2
  <2>2. Holds(t, last, p)
    BY <1>4, <2>1
  <2>3. h[k] = IF last = None \/ now - last > w THEN [last |-> now, raised |-> Append(t, now)] ELSE h[p]
    BY <1>2, <2>1 DEF EmitJobFailure, w
  <2>4. PICK m \in Nat : /\ m = Len(t) /\ DOMAIN t = 1..m /\ \A i \in 1..m : t[i] \in Int
    BY LenProperties
  <2>5. /\ DOMAIN Append(t, now) = 1..m + 1 /\ Append(t, now)[m + 1] = now
        /\ \A i \in 1..m : Append(t, now)[i] = t[i]
    BY <2>4
  <2>6. CASE last = None \/ now - last > w
    <3> DEFINE u == Append(t, now)
    <3>1. h[k].last = now /\ h[k].raised = u
      BY <2>3, <2>6
    <3>2. \A i \in 1..m : now - t[i] > w
      <4>1. CASE p = 0
        <5>1. m = 0
          BY <2>2, <2>4, <4>1
        <5> QED BY <5>1
      <4>2. CASE p > 0
        <5>1. last \in Int /\ \A i \in 1..m : t[i] <= last
          BY <2>2, <2>4, <4>2
        <5>2. now - last > w
          BY <2>6, <5>1, NoneAssumption
        <5> QED BY <1>w, <2>4, <5>1, <5>2
      <4> QED BY <4>1, <4>2
    <3>3. DOMAIN u = 1..m + 1 /\ u[m + 1] = now /\ \A i \in 1..m : u[i] = t[i]
      BY <2>5
    <3> HIDE DEF u
    <3>4. Apart(u)
      <4>1. SUFFICES ASSUME NEW i \in 1..m + 1, NEW j \in 1..m + 1, i < j PROVE u[j] - u[i] > w
        BY <3>3
      <4>2. i \in 1..m
        BY <4>1
      <4>3. CASE j = m + 1
        BY <3>2, <3>3, <4>2, <4>3
      <4>4. CASE j # m + 1
        <5>1. j \in 1..m
          BY <4>4
        <5>2. t[j] - t[i] > w
          BY <2>2, <2>4, <4>1, <4>2, <5>1
        <5> QED BY <3>3, <4>2, <5>1, <5>2
      <4> QED BY <4>3, <4>4
    <3>5. Covers(u, k)
      <4>1. SUFFICES ASSUME NEW x \in 1..k
                     PROVE  \E i \in DOMAIN u : u[i] <= times[x] /\ times[x] - u[i] <= w
        OBVIOUS
      <4>2. CASE x = k
        <5>1. m + 1 \in DOMAIN u /\ u[m + 1] = now /\ times[x] = now
          BY <2>1, <3>3, <4>2
        <5>2. now <= now /\ now - now <= w
          BY <1>w
        <5> QED BY <5>1, <5>2
      <4>3. CASE x # k
        <5>1. x \in 1..p
          BY <2>1, <4>3
        <5>2. PICK i \in 1..m : t[i] <= times[x] /\ times[x] - t[i] <= w
          BY <2>2, <2>4, <5>1
        <5>3. i \in DOMAIN u /\ u[i] = t[i]
          BY <3>3
        <5> QED BY <5>2, <5>3
      <4> QED BY <4>2, <4>3
    <3>6. Latest(u, now) /\ m + 1 \in DOMAIN u /\ u[m + 1] = now
      <4>1. ASSUME NEW i \in 1..m + 1 PROVE u[i] <= now
        <5>1. CASE i = m + 1
          BY <3>3, <5>1
        <5>2. CASE i # m + 1
          <6>1. i \in 1..m
            BY <5>2
          <6>2. now - t[i] > w /\ t[i] \in Int
            BY <2>4, <3>2, <6>1
          <6>3. u[i] = t[i]
            BY <3>3, <6>1
          <6> QED BY <1>w, <6>2, <6>3
        <5> QED BY <5>1, <5>2
      <4> QED BY <3>3, <4>1
    <3>7. now <= times[k]
      BY <2>1
    <3> HIDE DEF Apart, Covers, Latest
    <3>8. Holds(u, now, k)
      BY <3>4, <3>5, <3>6, <3>7
    <3> HIDE DEF Holds
    <3> QED BY <3>1, <3>8
  <2>7. CASE ~(last = None \/ now - last > w)
    <3>1. h[k] = h[p]
      BY <2>3, <2>7
    <3>2. p > 0
      BY <2>2, <2>7
    <3>3. last \in Int /\ now - last <= w /\ last <= times[p] /\ p \in 1..n
      <4>1. last \in Int /\ ~(now - last > w)
        BY <2>7
      <4>2. last <= times[k - 1] /\ k - 1 \in 1..n
        <5>1. last <= times[p]
          BY <2>2, <3>2
        <5>2. p \in 1..n
          BY <3>2
        <5> QED BY <2>1, <5>1, <5>2
      <4> QED BY <1>w, <2>1, <4>1, <4>2
    <3>4. times[p] \in Int /\ times[p] <= now
      <4>1. p \in DOMAIN times /\ k \in DOMAIN times /\ p <= k
        BY <1>1, <2>1, <3>3
      <4>2. times[p] <= times[k]
        BY <4>1
      <4> QED BY <1>1, <2>1, <3>3, <4>2
    <3>5. last <= now
      BY <3>3, <3>4, <1>1
    <3>6. Covers(t, k)
      <4>1. SUFFICES ASSUME NEW x \in 1..k
                     PROVE  \E i \in DOMAIN t : t[i] <= times[x] /\ times[x] - t[i] <= w
        OBVIOUS
      <4>2. CASE x = k
        <5>1. \E i \in DOMAIN t : t[i] = last
          BY <2>2, <3>2
        <5> QED BY <2>1, <3>3, <3>5, <4>2, <5>1
      <4>3. CASE x # k
        <5>1. x \in 1..p
          BY <2>1, <4>3
        <5> QED BY <2>2, <5>1
      <4> QED BY <4>2, <4>3
    <3>7. Apart(t) /\ Latest(t, last) /\ \E i \in DOMAIN t : t[i] = last
      BY <2>2, <3>2
    <3>8. last <= times[k]
      BY <2>1, <3>5
    <3> HIDE DEF Apart, Covers, Latest
    <3>9. Holds(t, last, k)
      BY <3>6, <3>7, <3>8
    <3> HIDE DEF Holds
    <3> QED BY <2>1, <3>1, <3>9
  <2> QED BY <2>6, <2>7
<1> HIDE DEF D
<1>5. n \in D
  <2>1. \A k \in 1..n : k - 1 \in D => k \in D
    BY <1>4
  <2>2. \A k \in 0..n : k \in D
    BY <1>3, <2>1, StepByStep
  <2> QED BY <2>2
<1>6. PICK all : all = h[n].raised /\ Apart(all) /\ Covers(all, n)
  BY <1>5 DEF D
<1>7. FoldLeft(EmitJobFailure, [last |-> None, raised |-> <<>>], SubSeq(times, 1, Len(times))).raised = all
  <2>1. SubSeq(times, 1, Len(times)) = times
    BY SubSeqFull
  <2> QED BY <1>2, <1>6, <2>1 DEF Emitted, NoneEmitted
<1>8. \A m \in DOMAIN times : \E i \in DOMAIN all : all[i] <= times[m] /\ times[m] - all[i] <= w
  BY <1>1, <1>6
<1>9. \A i, j \in DOMAIN all : i < j => all[j] - all[i] > w
  BY <1>6
<1> QED BY <1>7, <1>8, <1>9, Zenon DEF OneAlertPerWindow, w


\* An empty sequence has no places.
LEMMA EmptyDomain == DOMAIN <<>> = {}
<1>1. <<>> \in Seq({}) /\ Len(<<>>) = 0
  BY EmptySeq
<1>2. DOMAIN <<>> = 1..0
  BY <1>1, LenProperties
<1> QED BY <1>2

\* get_realtime_prices on any cache and answer: what QuotesAreFresh says of it.
LEMMA QuotesStayFresh ==
  ASSUME NEW K, NEW Q, NEW cache \in [K -> [at: Int, quote: Q]], NEW codes, NEW now \in Int,
         NEW R, NEW answer \in Seq(R) \cup {None}
  PROVE  QuotesAreFresh(cache, codes, now, answer)
<1> DEFINE hits == CacheHits(cache, codes, now)
           asked == codes \ hits
           parsed == IF answer = None THEN <<>> ELSE ParseSinaResponse(answer)
           found == {c \in asked : ToSinaCode(c) \in DOMAIN parsed}
           new == RefreshedCache(cache, codes, now, answer)
           prices == GetRealtimePrices(cache, codes, now, answer)
           soon == now + CACHE_TTL - 1
           later == GetRealtimePrices(new, DOMAIN prices, soon, None)
           Told(c) == {i \in DOMAIN answer : answer[i].code = ToSinaCode(c) /\ answer[i].fields >= 6}
<1>1. now - now < CACHE_TTL /\ soon - now < CACHE_TTL
  BY DEF CACHE_TTL
<1>2. hits = {c \in codes \cap K : now - cache[c].at < CACHE_TTL}
  BY DEF CacheHits
<1>3. new = [c \in K \cup found |->
               IF c \in found THEN [at |-> now, quote |-> parsed[ToSinaCode(c)]] ELSE cache[c]]
  BY DEF RefreshedCache
<1>4. answer = None => found = {}
  <2>1. SUFFICES ASSUME answer = None PROVE found = {}
    OBVIOUS
  <2>2. DOMAIN parsed = {}
    BY <2>1
  <2> QED BY <2>2
<1>5. ASSUME answer # None
      PROVE  /\ \A c \in codes : Told(c) # {} => c \in hits \cup found
             /\ \A c \in found : \E i \in Told(c) : parsed[ToSinaCode(c)] = answer[i].quote
  <2> DEFINE good == {i \in DOMAIN answer : answer[i].fields >= 6}
             Of(s) == {i \in good : answer[i].code = s}
  <2>1. parsed = [s \in {answer[i].code : i \in good} |-> answer[Max(Of(s))].quote]
    BY <1>5 DEF ParseSinaResponse
  <2>2. \A c : Told(c) = Of(ToSinaCode(c))
    OBVIOUS
  <2> HIDE DEF parsed
  <2>3. \A c : Told(c) # {} <=> ToSinaCode(c) \in DOMAIN parsed
    BY <2>1, <2>2
  <2>4. \A s : Of(s) # {} => Max(Of(s)) \in Of(s)
    <3>1. PICK n \in Nat : DOMAIN answer = 1..n
      BY <1>5, LenProperties
    <3>2. \A s : Of(s) \in SUBSET (1..n)
      BY <3>1
    <3> HIDE DEF Of
    <3> QED BY <3>2, MaxUpTo
  <2>5. ASSUME NEW c \in found PROVE \E i \in Told(c) : parsed[ToSinaCode(c)] = answer[i].quote
    <3>1. ToSinaCode(c) \in DOMAIN parsed /\ Told(c) # {}
      BY <2>3
    <3>2. parsed[ToSinaCode(c)] = answer[Max(Of(ToSinaCode(c)))].quote
      BY <2>1, <3>1
    <3> HIDE DEF Of, Told
    <3> QED BY <2>2, <2>4, <3>1, <3>2
  <2> HIDE DEF hits
  <2> QED BY <2>3, <2>5
<1> HIDE DEF parsed, new, hits
<1>6. found \subseteq codes /\ hits \subseteq codes /\ found \cap hits = {} /\ DOMAIN cache = K
  BY <1>2
<1> HIDE DEF found
<1>7. /\ DOMAIN new = K \cup found
      /\ \A c \in found : new[c] = [at |-> now, quote |-> parsed[ToSinaCode(c)]]
      /\ \A c \in K \ found : new[c] = cache[c]
  BY <1>3
<1>8. CacheHits(new, codes, now) = hits \cup found
  <2>1. \A c : c \in CacheHits(new, codes, now) <=> c \in codes /\ c \in K \cup found /\ now - new[c].at < CACHE_TTL
    BY <1>7 DEF CacheHits
  <2>2. \A c \in found : new[c].at = now
    BY <1>7
  <2>3. ASSUME NEW c \in K \ found PROVE new[c].at = cache[c].at
    <3>1. new[c] = cache[c]
      BY <1>7
    <3> QED BY <3>1
  <2> QED BY <1>1, <1>2, <1>6, <2>1, <2>2, <2>3
<1>9. DOMAIN prices = hits \cup found /\ \A c \in hits \cup found : prices[c] = new[c].quote
  BY <1>8 DEF GetRealtimePrices, new
<1> HIDE DEF prices, later
<1>10. \A c \in found : later[c] = prices[c]
  <2> DEFINE next == RefreshedCache(new, DOMAIN prices, soon, None)
  <2>1. DOMAIN next = DOMAIN new /\ \A c \in DOMAIN new : next[c] = new[c]
    <3> DEFINE none == {c \in DOMAIN prices \ CacheHits(new, DOMAIN prices, soon) :
                          ToSinaCode(c) \in DOMAIN <<>>}
    <3>1. next = [c \in DOMAIN new \cup none |->
                    IF c \in none THEN [at |-> soon, quote |-> (<<>>)[ToSinaCode(c)]] ELSE new[c]]
      BY DEF RefreshedCache
    <3>2. none = {}
      BY EmptyDomain
    <3> HIDE DEF none, next
    <3> QED BY <3>1, <3>2
  <2> HIDE DEF next
  <2>2. later = [c \in CacheHits(next, DOMAIN prices, soon) |-> next[c].quote]
    BY DEF later, GetRealtimePrices, next
  <2>3. ASSUME NEW c \in found PROVE later[c] = prices[c]
    <3>1. c \in DOMAIN next /\ next[c] = new[c] /\ new[c].at = now /\ c \in DOMAIN prices
      BY <1>7, <1>9, <2>1
    <3>2. c \in CacheHits(next, DOMAIN prices, soon)
      BY <1>1, <3>1 DEF CacheHits
    <3> QED BY <1>9, <2>2, <3>1, <3>2
  <2> QED BY <2>3
<1>11. \A c \in hits : c \in DOMAIN cache /\ now - cache[c].at < CACHE_TTL
  BY <1>2
<1>12. \A c \in found : answer # None /\ prices[c] = parsed[ToSinaCode(c)]
  BY <1>4, <1>7, <1>9
<1>13. \A c \in DOMAIN prices : \/ c \in DOMAIN cache /\ now - cache[c].at < CACHE_TTL
                                \/ \E i \in Told(c) : prices[c] = answer[i].quote
  <2> HIDE DEF Told
  <2> QED BY <1>5, <1>9, <1>11, <1>12
<1>14. answer # None => \A c \in codes : Told(c) # {} => c \in DOMAIN prices
  <2> HIDE DEF Told
  <2> QED BY <1>5, <1>9
<1>15. \A c \in DOMAIN prices \ hits : later[c] = prices[c]
  BY <1>9, <1>10
<1>16. hits \subseteq DOMAIN prices /\ (answer = None => DOMAIN prices = hits)
  BY <1>4, <1>9
<1> QED BY <1>13, <1>14, <1>15, <1>16, Zenon DEF QuotesAreFresh, hits, new, prices, later

AnyPaceOf(p) == p.budget \in Nat /\ p.period \in Nat /\ p.window \in Nat /\ p.threshold \in Nat
                /\ p.min \in Nat /\ p.max \in Nat /\ p.min <= p.max

\* acquire at any time after any requests and errors: what PaceFollowsErrors
\* says of it.
LEMMA PacesFollowErrors ==
  ASSUME NEW p, AnyPaceOf(p), NEW now \in Int, NEW calls \in Seq(Int), NEW errors \in Seq(Int),
         \A i \in DOMAIN calls : calls[i] <= now, \A i \in DOMAIN errors : errors[i] <= now
  PROVE  PaceFollowsErrors(p, calls, errors, now)
<1> DEFINE Within(s, t) == PeriodCalls(s, t, p.period)
           Bad(s, t) == Recent(s, t, p.window)
           Asked(s, t) == Max({1, Cardinality(Within(s, t) \cap Bad(s, t))})
           more == Append(errors, now)
           again == Append(calls, now)
           late == now + p.period + p.window + 1
<1>0. PICK budget \in Nat, period \in Nat, window \in Nat, threshold \in Nat, min \in Nat, max \in Nat :
        /\ budget = p.budget /\ period = p.period /\ window = p.window /\ threshold = p.threshold
        /\ min = p.min /\ max = p.max /\ min <= max
  BY DEF AnyPaceOf
<1>1. ASSUME NEW s \in Seq(Int), NEW t \in Int
      PROVE  /\ IsFiniteSet(Within(s, t)) /\ Cardinality(Within(s, t)) \in Nat
             /\ IsFiniteSet(Bad(s, t)) /\ Cardinality(Bad(s, t)) \in Nat
             /\ Asked(s, t) \in Nat /\ Asked(s, t) >= 1
  <2>1. PICK n \in Nat : DOMAIN s = 1..n
    BY LenProperties
  <2>2. IsFiniteSet(1..n)
    BY UpToFinite
  <2>3. Within(s, t) \subseteq 1..n /\ Bad(s, t) \subseteq 1..n
    BY <2>1 DEF PeriodCalls, Recent
  <2> DEFINE A == Within(s, t)
             B == Bad(s, t)
             both == A \cap B
  <2> HIDE DEF A, B
  <2>4. both \subseteq 1..n
    BY <2>3 DEF A, B
  <2>5. IsFiniteSet(A) /\ IsFiniteSet(B)
    BY <2>2, <2>3, FS_Subset DEF A, B
  <2>6. IsFiniteSet(both)
    BY <2>2, <2>4, FS_Subset
  <2>7. Cardinality(A) \in Nat /\ Cardinality(B) \in Nat /\ Cardinality(both) \in Nat
    BY <2>5, <2>6, FS_CardinalityType
  <2>8. PICK c \in Nat : c = Cardinality(both)
    BY <2>7
  <2>9. Max({1, c}) \in Nat /\ Max({1, c}) >= 1
    <3>1. \A a, b \in Int : Max({a, b}) \in {a, b} /\ Max({a, b}) >= a /\ Max({a, b}) >= b
      BY MaxOfTwo
    <3>2. 1 \in Int /\ c \in Int
      OBVIOUS
    <3>3. Max({1, c}) \in {1, c} /\ Max({1, c}) >= 1
      BY <3>1, <3>2
    <3> QED BY <3>3
  <2> QED BY <2>5, <2>7, <2>8, <2>9 DEF A, B
<1>2. \A s, e \in Seq(Int) : \A t \in Int :
        Wait(p, s, e, t) = IF budget > 0 /\ 100 * Cardinality(Within(s, t)) > 80 * budget THEN 2 * max
                           ELSE IF 100 * Cardinality(Bad(e, t)) > threshold * Asked(s, t) THEN max
                           ELSE min
  BY <1>0 DEF Wait
<1>3. more \in Seq(Int) /\ again \in Seq(Int) /\ late \in Int
  BY <1>0
<1>4. Cardinality(Bad(errors, now)) <= Cardinality(Bad(more, now))
  <2>1. Bad(errors, now) \subseteq Bad(more, now)
    BY DEF Recent
  <2> HIDE DEF Bad
  <2> QED BY <1>1, <1>3, <2>1, FS_Subset
<1>5. Cardinality(Within(calls, now)) <= Cardinality(Within(again, now))
  <2>1. Within(calls, now) \subseteq Within(again, now)
    BY DEF PeriodCalls
  <2> HIDE DEF Within
  <2> QED BY <1>1, <1>3, <2>1, FS_Subset
<1>6. Within(calls, late) = {} /\ Bad(errors, late) = {}
  <2>1. ASSUME NEW i \in DOMAIN calls PROVE ~(late - calls[i] <= p.period)
    <3>1. PICK c \in Int : c = calls[i] /\ c <= now
      BY LenProperties
    <3>2. PICK l \in Int : l = late /\ l = now + period + window + 1
      <4>1. late = now + period + window + 1
        BY <1>0
      <4>2. now + period + window + 1 \in Int
        OBVIOUS
      <4> HIDE DEF late
      <4> QED BY <4>1, <4>2
    <3>3. ~(l - c <= period)
      BY <3>1, <3>2
    <3> QED BY <1>0, <3>1, <3>2, <3>3
  <2>2. ASSUME NEW i \in DOMAIN errors PROVE ~(late - errors[i] < p.window)
    <3>1. PICK c \in Int : c = errors[i] /\ c <= now
      BY LenProperties
    <3>2. PICK l \in Int : l = late /\ l = now + period + window + 1
      <4>1. late = now + period + window + 1
        BY <1>0
      <4>2. now + period + window + 1 \in Int
        OBVIOUS
      <4> HIDE DEF late
      <4> QED BY <4>1, <4>2
    <3>3. ~(l - c < window)
      BY <3>1, <3>2
    <3> QED BY <1>0, <3>1, <3>2, <3>3
  <2> HIDE DEF late
  <2> QED BY <2>1, <2>2 DEF PeriodCalls, Recent
<1> HIDE DEF Within, Bad, Asked, more, again, late
<1>7. Wait(p, calls, more, now) >= Wait(p, calls, errors, now)
  <2>1. PICK bad \in Nat, worse \in Nat, kept \in Nat, asked \in Nat :
          /\ bad = Cardinality(Bad(errors, now)) /\ worse = Cardinality(Bad(more, now)) /\ bad <= worse
          /\ kept = Cardinality(Within(calls, now)) /\ asked = Asked(calls, now)
    BY <1>1, <1>3, <1>4
  <2>2. PICK limit \in Int : limit = threshold * asked
    OBVIOUS
  <2>3. Wait(p, calls, errors, now) = IF budget > 0 /\ 100 * kept > 80 * budget THEN 2 * max
                                      ELSE IF 100 * bad > limit THEN max ELSE min
    BY <1>2, <2>1, <2>2
  <2>4. Wait(p, calls, more, now) = IF budget > 0 /\ 100 * kept > 80 * budget THEN 2 * max
                                    ELSE IF 100 * worse > limit THEN max ELSE min
    <3>1. Wait(p, calls, more, now)
            = IF budget > 0 /\ 100 * Cardinality(Within(calls, now)) > 80 * budget THEN 2 * max
              ELSE IF 100 * Cardinality(Bad(more, now)) > threshold * Asked(calls, now) THEN max
              ELSE min
      BY <1>2, <1>3
    <3> QED BY <2>1, <2>2, <3>1
  <2>5. 100 * bad > limit => 100 * worse > limit
    <3>1. \A x, y \in Nat : x <= y => 100 * x <= 100 * y
      OBVIOUS
    <3>2. 100 * bad <= 100 * worse
      BY <2>1, <3>1
    <3> QED BY <3>2
  <2> QED BY <1>0, <2>3, <2>4, <2>5
<1>8. 100 * Cardinality(Within(calls, now)) > 80 * p.budget /\ p.budget > 0 =>
        Wait(p, again, errors, now) >= Wait(p, calls, errors, now)
  <2>1. PICK kept \in Nat, grown \in Nat : /\ kept = Cardinality(Within(calls, now))
                                           /\ grown = Cardinality(Within(again, now)) /\ kept <= grown
    BY <1>1, <1>3, <1>5
  <2>2. SUFFICES ASSUME 100 * kept > 80 * budget, budget > 0
                 PROVE  Wait(p, again, errors, now) >= Wait(p, calls, errors, now)
    BY <1>0, <2>1
  <2>3. Wait(p, calls, errors, now) = 2 * max
    BY <1>2, <2>1, <2>2
  <2>4. 100 * grown > 80 * budget
    BY <2>1, <2>2
  <2>5. Wait(p, again, errors, now) = 2 * max
    BY <1>2, <1>3, <2>1, <2>2, <2>4
  <2> QED BY <2>3, <2>5
<1>9. Wait(p, calls, errors, late) = p.min
  <2>1. Cardinality(Within(calls, late)) = 0 /\ Cardinality(Bad(errors, late)) = 0
    BY <1>6, FS_EmptySet
  <2>2. PICK asked \in Nat : asked = Asked(calls, late)
    BY <1>1, <1>3
  <2>3. PICK limit \in Nat : limit = threshold * asked
    BY Products
  <2>4. ~(100 * 0 > limit) /\ (budget > 0 => ~(100 * 0 > 80 * budget))
    OBVIOUS
  <2> QED BY <1>0, <1>2, <1>3, <2>1, <2>2, <2>3, <2>4
<1> QED BY <1>7, <1>8, <1>9, Zenon DEF PaceFollowsErrors, Within, more, again, late


-----------------------------------------------------------------------------
(* The sums of the log of requests, under names.                             *)

AnyRequest == [endpoint: STRING, day: Int, cached: BOOLEAN, error: BOOLEAN]

EndpointCalls(S, by) == SumOver(S, LAMBDA e : by[e].calls)
EndpointCached(S, by) == SumOver(S, LAMBDA e : by[e].cached)
EndpointErrors(S, by) == SumOver(S, LAMBDA e : by[e].errors)
DailyCalls(S, log)   == SumOver(S, LAMBDA d : DayTotals(log, d).calls)
DailyCached(S, log)   == SumOver(S, LAMBDA d : DayTotals(log, d).cached)
DailyErrors(S, log)   == SumOver(S, LAMBDA d : DayTotals(log, d).errors)

\* Each of them is a total: the requests of a day
LEMMA EndpointCallsSum ==
  ASSUME NEW S, NEW by, NEW W, \A x \in S : W[x] = by[x].calls
  PROVE  EndpointCalls(S, by) = Total(S, W)
<1> DEFINE P(f) == f = [s \in SUBSET S |->
                         IF s = {} THEN 0
                         ELSE LET x == CHOOSE y \in s : TRUE IN f[s \ {x}] + by[x].calls]
<1>1. EndpointCalls(S, by) = (CHOOSE f : P(f))[S]
  BY DEF EndpointCalls, SumOver, FoldSet, MapThenFoldSet
<1>2. \A f : P(f) <=> Folds(f, S, W)
  BY DEF Folds
<1> HIDE DEF P
<1>3. (CHOOSE f : P(f)) = (CHOOSE f : Folds(f, S, W))
  BY <1>2, Zenon
<1> QED BY <1>1, <1>3, TotalIsFold

\* the cached ones
LEMMA EndpointCachedSum ==
  ASSUME NEW S, NEW by, NEW W, \A x \in S : W[x] = by[x].cached
  PROVE  EndpointCached(S, by) = Total(S, W)
<1> DEFINE P(f) == f = [s \in SUBSET S |->
                         IF s = {} THEN 0
                         ELSE LET x == CHOOSE y \in s : TRUE IN f[s \ {x}] + by[x].cached]
<1>1. EndpointCached(S, by) = (CHOOSE f : P(f))[S]
  BY DEF EndpointCached, SumOver, FoldSet, MapThenFoldSet
<1>2. \A f : P(f) <=> Folds(f, S, W)
  BY DEF Folds
<1> HIDE DEF P
<1>3. (CHOOSE f : P(f)) = (CHOOSE f : Folds(f, S, W))
  BY <1>2, Zenon
<1> QED BY <1>1, <1>3, TotalIsFold

\* and the failed ones;
LEMMA EndpointErrorsSum ==
  ASSUME NEW S, NEW by, NEW W, \A x \in S : W[x] = by[x].errors
  PROVE  EndpointErrors(S, by) = Total(S, W)
<1> DEFINE P(f) == f = [s \in SUBSET S |->
                         IF s = {} THEN 0
                         ELSE LET x == CHOOSE y \in s : TRUE IN f[s \ {x}] + by[x].errors]
<1>1. EndpointErrors(S, by) = (CHOOSE f : P(f))[S]
  BY DEF EndpointErrors, SumOver, FoldSet, MapThenFoldSet
<1>2. \A f : P(f) <=> Folds(f, S, W)
  BY DEF Folds
<1> HIDE DEF P
<1>3. (CHOOSE f : P(f)) = (CHOOSE f : Folds(f, S, W))
  BY <1>2, Zenon
<1> QED BY <1>1, <1>3, TotalIsFold

\* the requests of days
LEMMA DailyCallsSum ==
  ASSUME NEW S, NEW log, NEW W, \A x \in S : W[x] = DayTotals(log, x).calls
  PROVE  DailyCalls(S, log) = Total(S, W)
<1> DEFINE P(f) == f = [s \in SUBSET S |->
                         IF s = {} THEN 0
                         ELSE LET x == CHOOSE y \in s : TRUE IN f[s \ {x}] + DayTotals(log, x).calls]
<1>1. DailyCalls(S, log) = (CHOOSE f : P(f))[S]
  BY DEF DailyCalls, SumOver, FoldSet, MapThenFoldSet
<1>2. \A f : P(f) <=> Folds(f, S, W)
  BY DEF Folds
<1> HIDE DEF P
<1>3. (CHOOSE f : P(f)) = (CHOOSE f : Folds(f, S, W))
  BY <1>2, Zenon
<1> QED BY <1>1, <1>3, TotalIsFold

\* the cached ones
LEMMA DailyCachedSum ==
  ASSUME NEW S, NEW log, NEW W, \A x \in S : W[x] = DayTotals(log, x).cached
  PROVE  DailyCached(S, log) = Total(S, W)
<1> DEFINE P(f) == f = [s \in SUBSET S |->
                         IF s = {} THEN 0
                         ELSE LET x == CHOOSE y \in s : TRUE IN f[s \ {x}] + DayTotals(log, x).cached]
<1>1. DailyCached(S, log) = (CHOOSE f : P(f))[S]
  BY DEF DailyCached, SumOver, FoldSet, MapThenFoldSet
<1>2. \A f : P(f) <=> Folds(f, S, W)
  BY DEF Folds
<1> HIDE DEF P
<1>3. (CHOOSE f : P(f)) = (CHOOSE f : Folds(f, S, W))
  BY <1>2, Zenon
<1> QED BY <1>1, <1>3, TotalIsFold

\* and the failed ones.
LEMMA DailyErrorsSum ==
  ASSUME NEW S, NEW log, NEW W, \A x \in S : W[x] = DayTotals(log, x).errors
  PROVE  DailyErrors(S, log) = Total(S, W)
<1> DEFINE P(f) == f = [s \in SUBSET S |->
                         IF s = {} THEN 0
                         ELSE LET x == CHOOSE y \in s : TRUE IN f[s \ {x}] + DayTotals(log, x).errors]
<1>1. DailyErrors(S, log) = (CHOOSE f : P(f))[S]
  BY DEF DailyErrors, SumOver, FoldSet, MapThenFoldSet
<1>2. \A f : P(f) <=> Folds(f, S, W)
  BY DEF Folds
<1> HIDE DEF P
<1>3. (CHOOSE f : P(f)) = (CHOOSE f : Folds(f, S, W))
  BY <1>2, Zenon
<1> QED BY <1>1, <1>3, TotalIsFold

\* The sizes of the groups add up to the size of the whole.
LEMMA GroupsAddUp ==
  ASSUME NEW D, IsFiniteSet(D), NEW R, IsFiniteSet(R), NEW K \in [D -> R], NEW V \in [R -> Int],
         \A k \in R : V[k] = Cardinality({x \in D : K[x] = k})
  PROVE  Total(R, V) = Cardinality(D)
<1> DEFINE W == [x \in D |-> 1]
           Of(k) == {x \in D : K[x] = k}
<1>1. W \in [D -> Int] /\ \A x \in D : W[x] = 1
  OBVIOUS
<1> HIDE DEF W
<1>2. \A S \in SUBSET D : Total(S, W) = Cardinality(S)
  BY <1>1, TotalCounts
<1>3. ASSUME NEW k \in R PROVE V[k] = Total(Of(k), W)
  <2>1. Of(k) \in SUBSET D
    OBVIOUS
  <2> QED BY <1>2, <2>1
<1>4. Total(R, V) = Total(D, W)
  BY <1>1, <1>3, TotalOfGroups
<1> QED BY <1>2, <1>4

\* The totals of a day count its requests,
LEMMA DayTotalCalls ==
  ASSUME NEW log \in Seq(AnyRequest), NEW d
  PROVE  DayTotals(log, d).calls = Cardinality({i \in DOMAIN log : log[i].day = d})
<1> DEFINE by == DailySummary(log, d)
           C == DOMAIN log
           E == {log[i].endpoint : i \in {k \in DOMAIN log : log[k].day = d}}
           Of(e) == {i \in C : log[i].day = d /\ log[i].endpoint = e}
           V == [e \in E |-> Cardinality(Of(e))]
<1>1. C \in SUBSET DOMAIN log
  OBVIOUS
<1>2. ASSUME NEW e \in E PROVE Cardinality(Of(e)) \in Int
  <2>1. PICK n \in Nat : DOMAIN log = 1..n
    BY LenProperties
  <2>2. Of(e) \subseteq 1..n
    BY <2>1
  <2>3. IsFiniteSet(Of(e))
    BY <2>2, UpToFinite, FS_Subset
  <2> QED BY <2>3, FS_CardinalityType
<1>3. DOMAIN by = E
  BY DEF DailySummary
<1>4. ASSUME NEW e \in E PROVE by[e].calls = Cardinality(Of(e))
  <2>1. by[e].calls = Cardinality({i \in DOMAIN log : log[i].day = d /\ log[i].endpoint = e})
    BY DEF DailySummary, Count
  <2>2. {i \in DOMAIN log : log[i].day = d /\ log[i].endpoint = e} = Of(e)
    OBVIOUS
  <2> QED BY <2>1, <2>2
<1>5. DayTotals(log, d).calls = EndpointCalls(DOMAIN by, by)
  BY Zenon DEF DayTotals, EndpointCalls
<1> HIDE DEF by
<1>6. V \in [E -> Int] /\ \A e \in E : V[e] = Cardinality(Of(e))
  BY <1>2
<1> HIDE DEF V
<1>7. EndpointCalls(E, by) = Total(E, V)
  <2>1. \A x \in E : V[x] = by[x].calls
    BY <1>4, <1>6
  <2> HIDE DEF E
  <2> QED BY <2>1, EndpointCallsSum
<1>8. IsFiniteSet(E)
  <2> DEFINE days == {k \in DOMAIN log : log[k].day = d}
             f == [i \in days |-> log[i].endpoint]
  <2>1. f \in [days -> E] /\ \A e \in E : \E i \in days : f[i] = e
    OBVIOUS
  <2>2. IsFiniteSet(days)
    <3>1. PICK n \in Nat : DOMAIN log = 1..n
      BY LenProperties
    <3>2. days \subseteq 1..n
      BY <3>1
    <3> QED BY <3>2, UpToFinite, FS_Subset
  <2> HIDE DEF f, days, E
  <2> QED BY <2>1, <2>2, FiniteRange
<1>9. Total(E, V) = Cardinality({i \in C : log[i].day = d})
  <2> DEFINE D == {i \in C : log[i].day = d}
  <2>1. IsFiniteSet(D)
    <3>1. PICK n \in Nat : DOMAIN log = 1..n
      BY LenProperties
    <3>2. D \subseteq 1..n
      BY <3>1
    <3> QED BY <3>2, UpToFinite, FS_Subset
  <2>2. \A i \in D : log[i].endpoint \in E
    OBVIOUS
  <2> DEFINE K == [i \in D |-> log[i].endpoint]
  <2>3. K \in [D -> E]
    BY <2>2
  <2>4. ASSUME NEW e \in E PROVE V[e] = Cardinality({x \in D : K[x] = e})
    <3>1. {x \in D : K[x] = e} = Of(e)
      OBVIOUS
    <3> QED BY <1>6, <3>1
  <2>5. V \in [E -> Int]
    BY <1>6
  <2> HIDE DEF D, E, K
  <2>6. Total(E, V) = Cardinality(D)
    BY <1>8, <2>1, <2>3, <2>4, <2>5, GroupsAddUp
  <2> QED BY <2>6 DEF D
<1> QED BY <1>3, <1>5, <1>7, <1>9

\* the cached ones
LEMMA DayTotalCached ==
  ASSUME NEW log \in Seq(AnyRequest), NEW d
  PROVE  DayTotals(log, d).cached = Cardinality({i \in {k \in DOMAIN log : log[k].cached} : log[i].day = d})
<1> DEFINE by == DailySummary(log, d)
           C == {k \in DOMAIN log : log[k].cached}
           E == {log[i].endpoint : i \in {k \in DOMAIN log : log[k].day = d}}
           Of(e) == {i \in C : log[i].day = d /\ log[i].endpoint = e}
           V == [e \in E |-> Cardinality(Of(e))]
<1>1. C \in SUBSET DOMAIN log
  OBVIOUS
<1>2. ASSUME NEW e \in E PROVE Cardinality(Of(e)) \in Int
  <2>1. PICK n \in Nat : DOMAIN log = 1..n
    BY LenProperties
  <2>2. Of(e) \subseteq 1..n
    BY <2>1
  <2>3. IsFiniteSet(Of(e))
    BY <2>2, UpToFinite, FS_Subset
  <2> QED BY <2>3, FS_CardinalityType
<1>3. DOMAIN by = E
  BY DEF DailySummary
<1>4. ASSUME NEW e \in E PROVE by[e].cached = Cardinality(Of(e))
  <2>1. by[e].cached = Cardinality({i \in DOMAIN log : (log[i].day = d /\ log[i].endpoint = e) /\ log[i].cached})
    BY DEF DailySummary, Count
  <2>2. {i \in DOMAIN log : (log[i].day = d /\ log[i].endpoint = e) /\ log[i].cached} = Of(e)
    OBVIOUS
  <2> QED BY <2>1, <2>2
<1>5. DayTotals(log, d).cached = EndpointCached(DOMAIN by, by)
  BY Zenon DEF DayTotals, EndpointCached
<1> HIDE DEF by
<1>6. V \in [E -> Int] /\ \A e \in E : V[e] = Cardinality(Of(e))
  BY <1>2
<1> HIDE DEF V
<1>7. EndpointCached(E, by) = Total(E, V)
  <2>1. \A x \in E : V[x] = by[x].cached
    BY <1>4, <1>6
  <2> HIDE DEF E
  <2> QED BY <2>1, EndpointCachedSum
<1>8. IsFiniteSet(E)
  <2> DEFINE days == {k \in DOMAIN log : log[k].day = d}
             f == [i \in days |-> log[i].endpoint]
  <2>1. f \in [days -> E] /\ \A e \in E : \E i \in days : f[i] = e
    OBVIOUS
  <2>2. IsFiniteSet(days)
    <3>1. PICK n \in Nat : DOMAIN log = 1..n
      BY LenProperties
    <3>2. days \subseteq 1..n
      BY <3>1
    <3> QED BY <3>2, UpToFinite, FS_Subset
  <2> HIDE DEF f, days, E
  <2> QED BY <2>1, <2>2, FiniteRange
<1>9. Total(E, V) = Cardinality({i \in C : log[i].day = d})
  <2> DEFINE D == {i \in C : log[i].day = d}
  <2>1. IsFiniteSet(D)
    <3>1. PICK n \in Nat : DOMAIN log = 1..n
      BY LenProperties
    <3>2. D \subseteq 1..n
      BY <3>1
    <3> QED BY <3>2, UpToFinite, FS_Subset
  <2>2. \A i \in D : log[i].endpoint \in E
    OBVIOUS
  <2> DEFINE K == [i \in D |-> log[i].endpoint]
  <2>3. K \in [D -> E]
    BY <2>2
  <2>4. ASSUME NEW e \in E PROVE V[e] = Cardinality({x \in D : K[x] = e})
    <3>1. {x \in D : K[x] = e} = Of(e)
      OBVIOUS
    <3> QED BY <1>6, <3>1
  <2>5. V \in [E -> Int]
    BY <1>6
  <2> HIDE DEF D, E, K
  <2>6. Total(E, V) = Cardinality(D)
    BY <1>8, <2>1, <2>3, <2>4, <2>5, GroupsAddUp
  <2> QED BY <2>6 DEF D
<1> QED BY <1>3, <1>5, <1>7, <1>9

\* and the failed ones.
LEMMA DayTotalErrors ==
  ASSUME NEW log \in Seq(AnyRequest), NEW d
  PROVE  DayTotals(log, d).errors = Cardinality({i \in {k \in DOMAIN log : log[k].error} : log[i].day = d})
<1> DEFINE by == DailySummary(log, d)
           C == {k \in DOMAIN log : log[k].error}
           E == {log[i].endpoint : i \in {k \in DOMAIN log : log[k].day = d}}
           Of(e) == {i \in C : log[i].day = d /\ log[i].endpoint = e}
           V == [e \in E |-> Cardinality(Of(e))]
<1>1. C \in SUBSET DOMAIN log
  OBVIOUS
<1>2. ASSUME NEW e \in E PROVE Cardinality(Of(e)) \in Int
  <2>1. PICK n \in Nat : DOMAIN log = 1..n
    BY LenProperties
  <2>2. Of(e) \subseteq 1..n
    BY <2>1
  <2>3. IsFiniteSet(Of(e))
    BY <2>2, UpToFinite, FS_Subset
  <2> QED BY <2>3, FS_CardinalityType
<1>3. DOMAIN by = E
  BY DEF DailySummary
<1>4. ASSUME NEW e \in E PROVE by[e].errors = Cardinality(Of(e))
  <2>1. by[e].errors = Cardinality({i \in DOMAIN log : (log[i].day = d /\ log[i].endpoint = e) /\ log[i].error})
    BY DEF DailySummary, Count
  <2>2. {i \in DOMAIN log : (log[i].day = d /\ log[i].endpoint = e) /\ log[i].error} = Of(e)
    OBVIOUS
  <2> QED BY <2>1, <2>2
<1>5. DayTotals(log, d).errors = EndpointErrors(DOMAIN by, by)
  BY Zenon DEF DayTotals, EndpointErrors
<1> HIDE DEF by
<1>6. V \in [E -> Int] /\ \A e \in E : V[e] = Cardinality(Of(e))
  BY <1>2
<1> HIDE DEF V
<1>7. EndpointErrors(E, by) = Total(E, V)
  <2>1. \A x \in E : V[x] = by[x].errors
    BY <1>4, <1>6
  <2> HIDE DEF E
  <2> QED BY <2>1, EndpointErrorsSum
<1>8. IsFiniteSet(E)
  <2> DEFINE days == {k \in DOMAIN log : log[k].day = d}
             f == [i \in days |-> log[i].endpoint]
  <2>1. f \in [days -> E] /\ \A e \in E : \E i \in days : f[i] = e
    OBVIOUS
  <2>2. IsFiniteSet(days)
    <3>1. PICK n \in Nat : DOMAIN log = 1..n
      BY LenProperties
    <3>2. days \subseteq 1..n
      BY <3>1
    <3> QED BY <3>2, UpToFinite, FS_Subset
  <2> HIDE DEF f, days, E
  <2> QED BY <2>1, <2>2, FiniteRange
<1>9. Total(E, V) = Cardinality({i \in C : log[i].day = d})
  <2> DEFINE D == {i \in C : log[i].day = d}
  <2>1. IsFiniteSet(D)
    <3>1. PICK n \in Nat : DOMAIN log = 1..n
      BY LenProperties
    <3>2. D \subseteq 1..n
      BY <3>1
    <3> QED BY <3>2, UpToFinite, FS_Subset
  <2>2. \A i \in D : log[i].endpoint \in E
    OBVIOUS
  <2> DEFINE K == [i \in D |-> log[i].endpoint]
  <2>3. K \in [D -> E]
    BY <2>2
  <2>4. ASSUME NEW e \in E PROVE V[e] = Cardinality({x \in D : K[x] = e})
    <3>1. {x \in D : K[x] = e} = Of(e)
      OBVIOUS
    <3> QED BY <1>6, <3>1
  <2>5. V \in [E -> Int]
    BY <1>6
  <2> HIDE DEF D, E, K
  <2>6. Total(E, V) = Cardinality(D)
    BY <1>8, <2>1, <2>3, <2>4, <2>5, GroupsAddUp
  <2> QED BY <2>6 DEF D
<1> QED BY <1>3, <1>5, <1>7, <1>9

\* get_daily_summary, get_monthly_summary and get_trend of any log: what
\* LogsAddUp says of them.
LEMMA LogsAlwaysAddUp ==
  ASSUME NEW log \in Seq(AnyRequest), NEW start \in Int, NEW end \in Int
  PROVE  LogsAddUp(log, start, end)
<1> DEFINE month == MonthlySummary(log, start, end)
           trend == Trend(log, start)
           S == start..(end - 1)
           T == {d \in DOMAIN trend : d < end}
<1>1. \A i \in DOMAIN log : /\ log[i].day \in Int /\ log[i].endpoint \in STRING
                            /\ log[i].cached \in BOOLEAN /\ log[i].error \in BOOLEAN
  <2>1. \A i \in DOMAIN log : log[i] \in [endpoint: STRING, day: Int, cached: BOOLEAN, error: BOOLEAN]
    BY LenProperties DEF AnyRequest
  <2> QED BY <2>1
<1>2. \A i \in DOMAIN log : log[i].day >= start /\ log[i].day < end => log[i].day \in S
  BY <1>1
<1>3. IsFiniteSet(DOMAIN log)
      /\ \A A \in SUBSET DOMAIN log : IsFiniteSet(A) /\ Cardinality(A) \in Nat /\ Cardinality(A) \in Int
  <2>1. PICK n \in Nat : DOMAIN log = 1..n
    BY LenProperties
  <2>2. IsFiniteSet(1..n)
    BY UpToFinite
  <2>3. \A A \in SUBSET (1..n) : IsFiniteSet(A)
    BY <2>2, FS_Subset
  <2>4. \A A \in SUBSET (1..n) : Cardinality(A) \in Nat
    BY <2>3, FS_CardinalityType
  <2>5. \A A \in SUBSET (1..n) : Cardinality(A) \in Int
    BY <2>4
  <2> QED BY <2>1, <2>2, <2>3, <2>4, <2>5
<1>4. IsFiniteSet(S) /\ \A d \in S : d \in Int /\ start <= d /\ d < end
  <2>1. IsFiniteSet(S)
    <3>1. end - 1 \in Int
      OBVIOUS
    <3> QED BY <3>1, FS_Interval
  <2> QED BY <2>1
<1> HIDE DEF month, S
<1>5. DailyCalls(S, log) = month.calls
  <2> DEFINE C == DOMAIN log
             Of(d) == {i \in C : log[i].day = d}
             V == [d \in S |-> Cardinality(Of(d))]
             own == {i \in C : log[i].day >= start /\ log[i].day < end}
  <2>1. C \in SUBSET DOMAIN log /\ \A d : Of(d) \in SUBSET DOMAIN log
    OBVIOUS
  <2>2. V \in [S -> Int] /\ \A d \in S : V[d] = Cardinality(Of(d))
    BY <1>3, <2>1
  <2>3. \A d \in S : V[d] = DayTotals(log, d).calls
    BY <2>2, DayTotalCalls
  <2> HIDE DEF V
  <2>4. DailyCalls(S, log) = Total(S, V)
    BY <2>3, DailyCallsSum
  <2>5. month.calls = Cardinality({i \in DOMAIN log : log[i].day >= start /\ log[i].day < end})
    BY DEF month, MonthlySummary, Count
  <2>6. {i \in DOMAIN log : log[i].day >= start /\ log[i].day < end} = own
    OBVIOUS
  <2>7. IsFiniteSet(own) /\ \A i \in own : log[i].day \in S
    <3>1. own \in SUBSET DOMAIN log
      BY <2>1
    <3>2. \A i \in own : log[i].day \in S
      BY <1>2, <2>1
    <3> HIDE DEF own, C
    <3> QED BY <1>3, <3>1, <3>2
  <2> DEFINE K == [i \in own |-> log[i].day]
  <2>8. K \in [own -> S]
    BY <2>7
  <2>9. ASSUME NEW d \in S PROVE V[d] = Cardinality({x \in own : K[x] = d})
    <3>1. start <= d /\ d < end
      BY <1>4
    <3>2. {x \in own : K[x] = d} = Of(d)
      BY <3>1
    <3> QED BY <2>2, <3>2
  <2>10. V \in [S -> Int] /\ IsFiniteSet(S) /\ IsFiniteSet(own)
    BY <1>4, <2>2, <2>7
  <2> HIDE DEF C, Of, own, K
  <2>12. Total(S, V) = Cardinality(own)
    BY <2>8, <2>9, <2>10, GroupsAddUp
  <2>11. month.calls = Cardinality(own)
    BY <2>5, <2>6 DEF own, C
  <2> QED BY <2>4, <2>11, <2>12
<1>6. DailyCached(S, log) = month.cached
  <2> DEFINE C == {k \in DOMAIN log : log[k].cached}
             Of(d) == {i \in C : log[i].day = d}
             V == [d \in S |-> Cardinality(Of(d))]
             own == {i \in C : log[i].day >= start /\ log[i].day < end}
  <2>1. C \in SUBSET DOMAIN log /\ \A d : Of(d) \in SUBSET DOMAIN log
    OBVIOUS
  <2>2. V \in [S -> Int] /\ \A d \in S : V[d] = Cardinality(Of(d))
    BY <1>3, <2>1
  <2>3. \A d \in S : V[d] = DayTotals(log, d).cached
    BY <2>2, DayTotalCached
  <2> HIDE DEF V
  <2>4. DailyCached(S, log) = Total(S, V)
    BY <2>3, DailyCachedSum
  <2>5. month.cached = Cardinality({i \in DOMAIN log : (log[i].day >= start /\ log[i].day < end) /\ log[i].cached})
    BY DEF month, MonthlySummary, Count
  <2>6. {i \in DOMAIN log : (log[i].day >= start /\ log[i].day < end) /\ log[i].cached} = own
    OBVIOUS
  <2>7. IsFiniteSet(own) /\ \A i \in own : log[i].day \in S
    <3>1. own \in SUBSET DOMAIN log
      BY <2>1
    <3>2. \A i \in own : log[i].day \in S
      BY <1>2, <2>1
    <3> HIDE DEF own, C
    <3> QED BY <1>3, <3>1, <3>2
  <2> DEFINE K == [i \in own |-> log[i].day]
  <2>8. K \in [own -> S]
    BY <2>7
  <2>9. ASSUME NEW d \in S PROVE V[d] = Cardinality({x \in own : K[x] = d})
    <3>1. start <= d /\ d < end
      BY <1>4
    <3>2. {x \in own : K[x] = d} = Of(d)
      BY <3>1
    <3> QED BY <2>2, <3>2
  <2>10. V \in [S -> Int] /\ IsFiniteSet(S) /\ IsFiniteSet(own)
    BY <1>4, <2>2, <2>7
  <2> HIDE DEF C, Of, own, K
  <2>12. Total(S, V) = Cardinality(own)
    BY <2>8, <2>9, <2>10, GroupsAddUp
  <2>11. month.cached = Cardinality(own)
    BY <2>5, <2>6 DEF own, C
  <2> QED BY <2>4, <2>11, <2>12
<1>7. DailyErrors(S, log) = month.errors
  <2> DEFINE C == {k \in DOMAIN log : log[k].error}
             Of(d) == {i \in C : log[i].day = d}
             V == [d \in S |-> Cardinality(Of(d))]
             own == {i \in C : log[i].day >= start /\ log[i].day < end}
  <2>1. C \in SUBSET DOMAIN log /\ \A d : Of(d) \in SUBSET DOMAIN log
    OBVIOUS
  <2>2. V \in [S -> Int] /\ \A d \in S : V[d] = Cardinality(Of(d))
    BY <1>3, <2>1
  <2>3. \A d \in S : V[d] = DayTotals(log, d).errors
    BY <2>2, DayTotalErrors
  <2> HIDE DEF V
  <2>4. DailyErrors(S, log) = Total(S, V)
    BY <2>3, DailyErrorsSum
  <2>5. month.errors = Cardinality({i \in DOMAIN log : (log[i].day >= start /\ log[i].day < end) /\ log[i].error})
    BY DEF month, MonthlySummary, Count
  <2>6. {i \in DOMAIN log : (log[i].day >= start /\ log[i].day < end) /\ log[i].error} = own
    OBVIOUS
  <2>7. IsFiniteSet(own) /\ \A i \in own : log[i].day \in S
    <3>1. own \in SUBSET DOMAIN log
      BY <2>1
    <3>2. \A i \in own : log[i].day \in S
      BY <1>2, <2>1
    <3> HIDE DEF own, C
    <3> QED BY <1>3, <3>1, <3>2
  <2> DEFINE K == [i \in own |-> log[i].day]
  <2>8. K \in [own -> S]
    BY <2>7
  <2>9. ASSUME NEW d \in S PROVE V[d] = Cardinality({x \in own : K[x] = d})
    <3>1. start <= d /\ d < end
      BY <1>4
    <3>2. {x \in own : K[x] = d} = Of(d)
      BY <3>1
    <3> QED BY <2>2, <3>2
  <2>10. V \in [S -> Int] /\ IsFiniteSet(S) /\ IsFiniteSet(own)
    BY <1>4, <2>2, <2>7
  <2> HIDE DEF C, Of, own, K
  <2>12. Total(S, V) = Cardinality(own)
    BY <2>8, <2>9, <2>10, GroupsAddUp
  <2>11. month.errors = Cardinality(own)
    BY <2>5, <2>6 DEF own, C
  <2> QED BY <2>4, <2>11, <2>12
<1>8. Total(T, trend) = month.calls
  <2> DEFINE own == {i \in DOMAIN log : log[i].day >= start /\ log[i].day < end}
             Of(d) == {i \in DOMAIN log : log[i].day = d}
             days == {log[i].day : i \in DOMAIN log}
  <2>1. DOMAIN trend = {x \in days : x >= start} /\ \A d \in DOMAIN trend : trend[d] = Cardinality(Of(d))
    BY DEF Trend, Count
  <2>2. IsFiniteSet(days)
    <3> DEFINE f == [i \in DOMAIN log |-> log[i].day]
    <3>1. f \in [DOMAIN log -> days] /\ \A e \in days : \E i \in DOMAIN log : f[i] = e
      OBVIOUS
    <3> HIDE DEF f, days
    <3> QED BY <1>3, <3>1, FiniteRange
  <2>3. IsFiniteSet(DOMAIN trend) /\ IsFiniteSet(T) /\ T \subseteq DOMAIN trend
    <3>1. DOMAIN trend \subseteq days
      BY <2>1
    <3> HIDE DEF trend, days
    <3> QED BY <2>2, <3>1, FS_Subset
  <2>4. trend \in [DOMAIN trend -> Int]
    <3>1. \A d : Of(d) \in SUBSET DOMAIN log
      OBVIOUS
    <3>2. \A d \in DOMAIN trend : trend[d] \in Int
      BY <1>3, <2>1, <3>1
    <3>3. trend = [d \in DOMAIN trend |-> trend[d]]
      BY DEF Trend
    <3> HIDE DEF trend
    <3> QED BY <3>2, <3>3
  <2> DEFINE V == [d \in T |-> trend[d]]
  <2>5. V \in [T -> Int] /\ \A d \in T : V[d] = trend[d]
    BY <2>4
  <2>6. \A d \in T : d \in Int /\ start <= d /\ d < end
    BY <1>1, <2>1
  <2>7. IsFiniteSet(own) /\ \A i \in own : log[i].day \in T
    <3>1. own \in SUBSET DOMAIN log
      OBVIOUS
    <3>2. \A i \in own : log[i].day \in T
      BY <2>1
    <3> HIDE DEF own, T, trend
    <3> QED BY <1>3, <3>1, <3>2
  <2> DEFINE K == [i \in own |-> log[i].day]
  <2>8. K \in [own -> T]
    <3> HIDE DEF own, T
    <3> QED BY <2>7
  <2>9. ASSUME NEW d \in T PROVE V[d] = Cardinality({x \in own : K[x] = d})
    <3>1. d \in Int /\ start <= d /\ d < end
      BY <2>6
    <3>2. {x \in own : K[x] = d} = Of(d)
      BY <3>1
    <3>3. V[d] = Cardinality(Of(d))
      BY <2>1, <2>3, <2>5
    <3> QED BY <3>2, <3>3
  <2>12. V \in [T -> Int] /\ IsFiniteSet(T) /\ IsFiniteSet(own)
    BY <2>3, <2>5, <2>7
  <2> HIDE DEF trend, T, V, Of, K
  <2>13. Total(T, V) = Cardinality(own)
    <3> HIDE DEF own
    <3> QED BY <2>8, <2>9, <2>12, GroupsAddUp
  <2>10. Total(T, V) = Total(T, trend)
    BY <2>3, <2>4, <2>5, TotalSame
  <2>11. month.calls = Cardinality(own)
    BY DEF month, MonthlySummary, Count
  <2> QED BY <2>10, <2>11, <2>13
<1>9. month.errors <= month.calls /\ month.cached <= month.calls
  <2> DEFINE own == {i \in DOMAIN log : log[i].day >= start /\ log[i].day < end}
             bad == {i \in own : log[i].error}
             hit == {i \in own : log[i].cached}
  <2>1. month.calls = Cardinality(own) /\ month.errors = Cardinality(bad) /\ month.cached = Cardinality(hit)
    <3>1. /\ month.calls = Cardinality(own)
          /\ month.errors = Cardinality({i \in DOMAIN log : (log[i].day >= start /\ log[i].day < end) /\ log[i].error})
          /\ month.cached = Cardinality({i \in DOMAIN log : (log[i].day >= start /\ log[i].day < end) /\ log[i].cached})
      BY DEF month, MonthlySummary, Count
    <3>2. /\ {i \in DOMAIN log : (log[i].day >= start /\ log[i].day < end) /\ log[i].error} = bad
          /\ {i \in DOMAIN log : (log[i].day >= start /\ log[i].day < end) /\ log[i].cached} = hit
      OBVIOUS
    <3> QED BY <3>1, <3>2
  <2>2. bad \subseteq own /\ hit \subseteq own /\ own \in SUBSET DOMAIN log
    OBVIOUS
  <2> HIDE DEF own, bad, hit
  <2>3. IsFiniteSet(own)
    BY <1>3, <2>2
  <2>4. Cardinality(bad) <= Cardinality(own) /\ Cardinality(hit) <= Cardinality(own)
    BY <2>2, <2>3, FS_Subset
  <2> QED BY <2>1, <2>4
<1> HIDE DEF trend
<1> QED BY <1>5, <1>6, <1>7, <1>8, <1>9, Zenon
        DEF LogsAddUp, DailyCalls, DailyCached, DailyErrors, Total, month, S, trend


-----------------------------------------------------------------------------
(* The log of the model's calls.                                             *)

AnyCall  == [id: Int, session_fails: BOOLEAN, fallback_fails: BOOLEAN]
AnyLog   == [usable: BOOLEAN, pending: Seq(AnyCall), stored: Seq(AnyCall)]
EmptyLog == [usable |-> TRUE, pending |-> <<>>, stored |-> <<>>]
LogOf(entries) == FoldLeft(SafeWriteLog, EmptyLog, entries)

\* The log after each call.
LEMMA LogRun ==
  ASSUME NEW entries \in Seq(AnyCall)
  PROVE  \E h \in [0..Len(entries) -> AnyLog] :
           /\ h[0] = EmptyLog
           /\ \A k \in 1..Len(entries) : h[k] = SafeWriteLog(h[k - 1], entries[k])
           /\ LogOf(entries) = h[Len(entries)]
<1> DEFINE P(f) == f = [s \in SUBSET (DOMAIN entries) |->
                         IF s = {} THEN EmptyLog
                         ELSE LET x == Max(s) IN SafeWriteLog(f[s \ {x}], entries[x])]
           c == CHOOSE f : P(f)
<1>1. PICK n \in Nat : n = Len(entries) /\ DOMAIN entries = 1..n /\ \A i \in 1..n : entries[i] \in AnyCall
  BY LenProperties
<1>2. LogOf(entries) = (CHOOSE f : P(f))[DOMAIN entries]
  BY DEF LogOf, FoldLeft, MapThenFoldSet
<1>3. EmptyLog \in AnyLog /\ \A r \in AnyLog, x \in AnyCall : SafeWriteLog(r, x) \in AnyLog
  <2>1. \A t \in Seq(AnyCall) : \A x \in AnyCall : Append(t, x) \in Seq(AnyCall)
    OBVIOUS
  <2>2. <<>> \in Seq(AnyCall)
    OBVIOUS
  <2>3. EmptyLog \in AnyLog
    BY <2>2 DEF EmptyLog, AnyLog
  <2>4. ASSUME NEW r \in AnyLog, NEW x \in AnyCall PROVE SafeWriteLog(r, x) \in AnyLog
    <3>1. r.pending \in Seq(AnyCall) /\ r.stored \in Seq(AnyCall) /\ r.usable \in BOOLEAN
      BY DEF AnyLog
    <3>2. Append(r.pending, x) \in Seq(AnyCall) /\ Append(r.stored, x) \in Seq(AnyCall)
      BY <2>1, <3>1
    <3>3. CASE r.usable /\ ~x.session_fails
      <4>1. SafeWriteLog(r, x) = [r EXCEPT !.pending = Append(@, x)]
        BY <3>3 DEF SafeWriteLog
      <4>2. [r EXCEPT !.pending = Append(@, x)] \in AnyLog
        BY <3>2 DEF AnyLog
      <4> QED BY <4>1, <4>2
    <3>4. CASE ~(r.usable /\ ~x.session_fails)
      <4>1. SafeWriteLog(r, x) = [usable |-> FALSE, pending |-> <<>>,
                                  stored |-> IF x.fallback_fails THEN r.stored ELSE Append(r.stored, x)]
        BY <3>4 DEF SafeWriteLog
      <4>2. (IF x.fallback_fails THEN r.stored ELSE Append(r.stored, x)) \in Seq(AnyCall)
        BY <3>1, <3>2
      <4> QED BY <2>2, <4>1, <4>2 DEF AnyLog
    <3> QED BY <3>3, <3>4
  <2> QED BY <2>3, <2>4
<1>4. \E f : P(f)
  <2> DEFINE G == [i \in 1..n |-> [r \in AnyLog |-> SafeWriteLog(r, entries[i])]]
  <2>1. G \in [1..n -> [AnyLog -> AnyLog]] /\ \A i \in 1..n, r \in AnyLog : G[i][r] = SafeWriteLog(r, entries[i])
    BY <1>1, <1>3
  <2> HIDE DEF G
  <2>2. PICK f : FoldsTo(f, n, AnyLog, EmptyLog, G)
    <3>1. EmptyLog \in AnyLog /\ n \in Nat /\ G \in [1..n -> [AnyLog -> AnyLog]]
      BY <1>3, <2>1
    <3> QED BY <3>1, FoldExists, Zenon
  <2>22. /\ f \in [SUBSET (1..n) -> AnyLog]
         /\ f[{}] = EmptyLog
         /\ \A s \in SUBSET (1..n) : s # {} => f[s] = G[Max(s)][f[s \ {Max(s)}]]
    BY <2>2 DEF FoldsTo
  <2>3. ASSUME NEW s \in SUBSET (1..n)
        PROVE  f[s] = IF s = {} THEN EmptyLog ELSE SafeWriteLog(f[s \ {Max(s)}], entries[Max(s)])
    <3>1. CASE s = {}
      BY <2>22, <3>1
    <3>2. CASE s # {}
      <4>1. Max(s) \in 1..n
        <5>1. Max(s) \in s
          BY <3>2, MaxUpTo
        <5> QED BY <5>1
      <4>2. f[s \ {Max(s)}] \in AnyLog
        BY <2>22
      <4>3. f[s] = G[Max(s)][f[s \ {Max(s)}]]
        BY <2>22, <3>2
      <4>4. G[Max(s)][f[s \ {Max(s)}]] = SafeWriteLog(f[s \ {Max(s)}], entries[Max(s)])
        BY <2>1, <4>1, <4>2
      <4> QED BY <3>2, <4>3, <4>4
    <3> QED BY <3>1, <3>2
  <2>4. P(f)
    BY <1>1, <2>22, <2>3
  <2> HIDE DEF P
  <2> QED BY <2>4
<1>5. P(c)
  <2> HIDE DEF P
  <2> QED BY <1>4
<1>6. c[{}] = EmptyLog
  BY <1>5
<1>7. \A s \in SUBSET (1..n) : s # {} => c[s] = SafeWriteLog(c[s \ {Max(s)}], entries[Max(s)])
  BY <1>1, <1>5
<1>8. LogOf(entries) = c[1..n]
  BY <1>1, <1>2
<1> HIDE DEF c, P
<1>9. ASSUME NEW k \in 1..n PROVE c[1..k] = SafeWriteLog(c[1..k - 1], entries[k])
  <2>1. 1..k \in SUBSET (1..n) /\ k \in Nat \ {0}
    OBVIOUS
  <2>2. 1..k # {} /\ Max(1..k) = k /\ 1..k \ {Max(1..k)} = 1..k - 1
    BY <2>1, LastUpTo
  <2>3. c[1..k] = SafeWriteLog(c[1..k \ {Max(1..k)}], entries[Max(1..k)])
    BY <1>7, <2>1, <2>2
  <2> QED BY <2>2, <2>3
<1>10. c[1..0] = EmptyLog
  <2>1. 1..0 = {}
    OBVIOUS
  <2> QED BY <1>6, <2>1
<1>11. \A k \in 0..n : c[1..k] \in AnyLog
  <2> DEFINE D == {k \in Nat : k <= n => c[1..k] \in AnyLog}
  <2>1. 0 \in D
    BY <1>3, <1>10
  <2>2. ASSUME NEW k \in Nat, k \in D PROVE k + 1 \in D
    <3>1. SUFFICES ASSUME k + 1 <= n PROVE c[1..k + 1] \in AnyLog
      OBVIOUS
    <3>2. PICK j \in 1..n : j = k + 1 /\ j - 1 = k
      BY <3>1
    <3>3. c[1..k] \in AnyLog
      BY <2>2, <3>1
    <3>4. entries[j] \in AnyCall
      BY <1>1
    <3>5. c[1..j] = SafeWriteLog(c[1..k], entries[j])
      BY <1>9, <3>2
    <3> QED BY <1>3, <3>2, <3>3, <3>4, <3>5
  <2> HIDE DEF D
  <2>3. \A k \in Nat : k \in D
    BY <2>1, <2>2, Steps
  <2> QED BY <2>3 DEF D
<1> DEFINE h == [k \in 0..n |-> c[1..k]]
<1>12. h \in [0..n -> AnyLog] /\ \A k \in 0..n : h[k] = c[1..k]
  BY <1>11
<1>13. \A k \in 1..n : k \in 0..n /\ k - 1 \in 0..n
  OBVIOUS
<1> HIDE DEF h
<1>14. \A k \in 1..n : h[k] = SafeWriteLog(h[k - 1], entries[k])
  BY <1>9, <1>12, <1>13
<1>15. h[0] = EmptyLog /\ LogOf(entries) = h[n]
  BY <1>8, <1>10, <1>12
<1> QED BY <1>1, <1>12, <1>14, <1>15

\* Calls with identities of their own are as many as their identities.
LEMMA IdsCount ==
  ASSUME NEW s \in Seq(AnyCall), \A i, j \in DOMAIN s : s[i].id = s[j].id => i = j
  PROVE  Cardinality({s[i].id : i \in DOMAIN s}) = Len(s)
<1>1. PICK n \in Nat : n = Len(s) /\ DOMAIN s = 1..n
  BY LenProperties
<1> DEFINE T == {s[i].id : i \in DOMAIN s}
           f == [i \in 1..n |-> s[i].id]
<1>2. f \in [1..n -> T] /\ (\A a, b \in 1..n : f[a] = f[b] => a = b) /\ \A t \in T : \E i \in 1..n : f[i] = t
  BY <1>1
<1>3. IsFiniteSet(1..n) /\ Cardinality(1..n) = n
  <2>1. IsFiniteSet(1..n)
    BY UpToFinite
  <2>2. \A a, b \in Int : Cardinality(a..b) = IF a > b THEN 0 ELSE b - a + 1
    BY FS_Interval
  <2>3. 1 \in Int /\ n \in Int
    OBVIOUS
  <2>4. Cardinality(1..n) = IF 1 > n THEN 0 ELSE n - 1 + 1
    BY <2>2, <2>3
  <2> QED BY <2>1, <2>4
<1> HIDE DEF T, f
<1>4. Cardinality(T) = Cardinality(1..n)
  BY <1>2, <1>3, Paired
<1> QED BY <1>1, <1>3, <1>4 DEF T

\* _safe_write_log on any calls: what CallsAreLogged says of it.
LEMMA CallsStayLogged ==
  ASSUME NEW entries \in Seq(AnyCall), NEW commits \in BOOLEAN,
         \A i, j \in DOMAIN entries : entries[i].id = entries[j].id => i = j
  PROVE  CallsAreLogged(entries, commits)
<1>1. PICK n \in Nat : n = Len(entries) /\ DOMAIN entries = 1..n /\ \A i \in 1..n : entries[i] \in AnyCall
  BY LenProperties
<1>2. PICK h \in [0..n -> AnyLog] :
        /\ h[0] = EmptyLog
        /\ \A k \in 1..n : h[k] = SafeWriteLog(h[k - 1], entries[k])
        /\ LogOf(entries) = h[n]
  BY <1>1, LogRun
<1> DEFINE Broke(k) == \E j \in 1..k : entries[j].session_fails
           Waiting(s, k) == Len(s) = k /\ \A i \in 1..k : s[i] = entries[i]
           Written(s, k) == \A i \in DOMAIN s : \E j \in 1..k : s[i] = entries[j]
           Once(s) == \A i, j \in DOMAIN s : s[i].id = s[j].id => i = j
           Aside(s, k) == \A i \in 1..k : ~entries[i].fallback_fails /\ Broke(i)
                                            => \E m \in DOMAIN s : s[m].id = entries[i].id
           Holds(g, k) == /\ g.usable <=> ~Broke(k)
                          /\ g.usable => g.stored = <<>> /\ Waiting(g.pending, k)
                          /\ Written(g.stored, k) /\ Once(g.stored) /\ Aside(g.stored, k)
           D == {k \in 0..n : Holds(h[k], k)}
<1>3. 0 \in D
  <2>1. h[0].usable = TRUE /\ h[0].pending = <<>> /\ h[0].stored = <<>>
    BY <1>2 DEF EmptyLog
  <2>2. ~Broke(0) /\ Len(<<>>) = 0 /\ DOMAIN <<>> = {}
    BY EmptyDomain
  <2> HIDE DEF Broke
  <2> QED BY <2>1, <2>2
<1>4. ASSUME NEW k \in 1..n, k - 1 \in D PROVE k \in D
  <2>1. PICK p \in 0..n, g \in AnyLog, e \in AnyCall :
          p = k - 1 /\ g = h[p] /\ e = entries[k] /\ h[k] = SafeWriteLog(g, e) /\ Holds(g, p)
    <3>1. k - 1 \in 0..n
      OBVIOUS
    <3>2. h[k - 1] \in AnyLog /\ entries[k] \in AnyCall /\ h[k] = SafeWriteLog(h[k - 1], entries[k])
      BY <1>1, <1>2, <3>1
    <3>3. Holds(h[k - 1], k - 1)
      BY <1>4
    <3> HIDE DEF Holds
    <3> QED BY <3>1, <3>2, <3>3
  <2>2. g.usable \in BOOLEAN /\ g.pending \in Seq(AnyCall) /\ g.stored \in Seq(AnyCall)
    BY DEF AnyLog
  <2>3. Broke(k) <=> Broke(p) \/ e.session_fails
    <3>1. 1..k = 1..p \cup {k}
      BY <2>1
    <3> QED BY <2>1, <3>1
  <2>4. \A i \in 1..k : i = k \/ i \in 1..p
    BY <2>1
  <2>5. \A i \in 1..p : i \in 1..k /\ i # k
    BY <2>1
  <2>6. CASE g.usable /\ ~e.session_fails
    <3>1. PICK q \in Seq(AnyCall) : q = Append(g.pending, e) /\ h[k] = [g EXCEPT !.pending = q]
      <4>1. Append(g.pending, e) \in Seq(AnyCall)
        BY <2>2
      <4>2. h[k] = [g EXCEPT !.pending = Append(g.pending, e)]
        BY <2>1, <2>6 DEF SafeWriteLog
      <4> QED BY <4>1, <4>2
    <3>2. h[k].usable = g.usable /\ h[k].stored = g.stored /\ h[k].pending = q
      BY <3>1 DEF AnyLog
    <3>3. Waiting(q, k)
      <4>1. Waiting(g.pending, p)
        BY <2>1, <2>6
      <4>2. PICK t \in Seq(AnyCall) : t = g.pending /\ q = Append(t, e)
        BY <2>2, <3>1
      <4>3. Len(q) = Len(t) + 1 /\ q[Len(t) + 1] = e /\ \A i \in 1..Len(t) : q[i] = t[i]
        BY <4>2
      <4>4. Len(t) = p /\ p + 1 = k
        BY <2>1, <4>1, <4>2
      <4> QED BY <2>1, <2>4, <4>1, <4>2, <4>3, <4>4
    <3>4. g.stored = <<>> /\ DOMAIN g.stored = {} /\ ~Broke(k)
      BY <2>1, <2>3, <2>6, EmptyDomain
    <3>5. \A i \in 1..k : ~Broke(i)
      BY <3>4
    <3> HIDE DEF Broke
    <3>6. Written(g.stored, k) /\ Once(g.stored) /\ Aside(g.stored, k)
      BY <3>4, <3>5
    <3> HIDE DEF Waiting, Written, Once, Aside
    <3>7. h[k].usable /\ ~Broke(k)
      BY <2>6, <3>2, <3>4
    <3>8. h[k].stored = <<>> /\ Waiting(h[k].pending, k)
      BY <3>2, <3>3, <3>4
    <3>9. Written(h[k].stored, k) /\ Once(h[k].stored) /\ Aside(h[k].stored, k)
      BY <3>2, <3>6
    <3>10. Holds(h[k], k)
      BY <3>7, <3>8, <3>9
    <3> HIDE DEF Holds
    <3> QED BY <3>10
  <2>7. CASE ~(g.usable /\ ~e.session_fails)
    <3>1. h[k] = [usable |-> FALSE, pending |-> <<>>,
                  stored |-> IF e.fallback_fails THEN g.stored ELSE Append(g.stored, e)]
      BY <2>1, <2>7 DEF SafeWriteLog
    <3>2. h[k].usable = FALSE /\ Broke(k)
      BY <2>1, <2>3, <2>7, <3>1
    <3>3. Written(g.stored, p) /\ Once(g.stored) /\ Aside(g.stored, p)
      BY <2>1
    <3> HIDE DEF Broke
    <3>4. CASE e.fallback_fails
      <4>1. h[k].stored = g.stored
        BY <3>1, <3>4
      <4>2. Written(g.stored, k)
        BY <2>5, <3>3
      <4>3. Aside(g.stored, k)
        BY <2>1, <2>4, <3>3, <3>4
      <4> HIDE DEF Written, Once, Aside, Waiting
      <4> QED BY <3>2, <3>3, <4>1, <4>2, <4>3
    <3>5. CASE ~e.fallback_fails
      <4>1. PICK t \in Seq(AnyCall), m \in Nat :
              t = g.stored /\ m = Len(t) /\ DOMAIN t = 1..m /\ h[k].stored = Append(t, e)
        <5>1. PICK t \in Seq(AnyCall) : t = g.stored
          BY <2>2
        <5>2. h[k].stored = Append(t, e)
          BY <3>1, <3>5, <5>1
        <5>3. PICK m \in Nat : m = Len(t) /\ DOMAIN t = 1..m
          BY LenProperties
        <5> QED BY <5>1, <5>2, <5>3
      <4> DEFINE u == Append(t, e)
      <4>2. DOMAIN u = 1..m + 1 /\ u[m + 1] = e /\ (\A i \in 1..m : u[i] = t[i])
            /\ (\A i \in 1..m + 1 : i = m + 1 \/ i \in 1..m) /\ m + 1 \in 1..m + 1
            /\ \A i \in 1..m : i \in 1..m + 1
        BY <4>1
      <4>3. Written(t, p) /\ Once(t) /\ Aside(t, p)
        BY <3>3, <4>1
      <4> HIDE DEF u
      <4>4. Written(u, k)
        <5>1. ASSUME NEW i \in 1..m + 1 PROVE \E j \in 1..k : u[i] = entries[j]
          <6>1. CASE i = m + 1
            BY <2>1, <4>2, <6>1
          <6>2. CASE i # m + 1
            <7>1. i \in 1..m /\ u[i] = t[i]
              BY <4>2, <6>2
            <7>2. PICK j \in 1..p : t[i] = entries[j]
              BY <4>1, <4>3, <7>1
            <7> QED BY <2>5, <7>1, <7>2
          <6> QED BY <6>1, <6>2
        <5> QED BY <4>2, <5>1
      <4>5. \A i \in 1..m : t[i].id # e.id
        <5>1. ASSUME NEW i \in 1..m, t[i].id = e.id PROVE FALSE
          <6>1. PICK j \in 1..p : t[i] = entries[j]
            BY <4>1, <4>3
          <6>2. j \in DOMAIN entries /\ k \in DOMAIN entries /\ j # k
            BY <1>1, <2>1, <2>5
          <6> QED BY <2>1, <5>1, <6>1, <6>2
        <5> QED BY <5>1
      <4>6. Once(u)
        <5>1. SUFFICES ASSUME NEW i \in 1..m + 1, NEW j \in 1..m + 1, u[i].id = u[j].id PROVE i = j
          BY <4>2
        <5>2. CASE i \in 1..m /\ j \in 1..m
          <6>1. t[i].id = t[j].id
            BY <4>2, <5>1, <5>2
          <6>2. i \in DOMAIN t /\ j \in DOMAIN t
            BY <4>1, <5>2
          <6> QED BY <4>3, <6>1, <6>2
        <5>3. CASE i = m + 1 \/ j = m + 1
          BY <4>2, <4>5, <5>1, <5>3
        <5> QED BY <4>2, <5>2, <5>3
      <4>7. Aside(u, k)
        <5>1. SUFFICES ASSUME NEW i \in 1..k, ~entries[i].fallback_fails, Broke(i)
                       PROVE  \E x \in DOMAIN u : u[x].id = entries[i].id
          OBVIOUS
        <5>2. CASE i = k
          <6>1. m + 1 \in DOMAIN u /\ u[m + 1] = e
            BY <4>2
          <6> QED BY <2>1, <5>2, <6>1
        <5>3. CASE i # k
          <6>1. i \in 1..p
            BY <2>4, <5>3
          <6>2. PICK x \in 1..m : t[x].id = entries[i].id
            BY <4>1, <4>3, <5>1, <6>1
          <6>3. x \in DOMAIN u /\ u[x] = t[x]
            BY <4>2
          <6> QED BY <6>2, <6>3
        <5> QED BY <5>2, <5>3
      <4>8. h[k].stored = u
        BY <4>1 DEF u
      <4> HIDE DEF Written, Once, Aside, Waiting
      <4> QED BY <3>2, <4>4, <4>6, <4>7, <4>8
    <3> QED BY <3>4, <3>5
  <2> QED BY <2>6, <2>7
<1> HIDE DEF D
<1>5. n \in D
  <2>1. \A k \in 1..n : k - 1 \in D => k \in D
    BY <1>4
  <2>2. \A k \in 0..n : k \in D
    BY <1>3, <2>1, StepByStep
  <2> QED BY <2>2
<1>6. Holds(h[n], n)
  <2> HIDE DEF Holds
  <2> QED BY <1>5 DEF D
<1> DEFINE all == Stored(entries, commits)
           broke == {i \in DOMAIN entries : entries[i].session_fails}
           aside == {i \in DOMAIN entries : ~entries[i].fallback_fails /\ \E j \in broke : j <= i}
<1>7. PICK g \in AnyLog : g = h[n] /\ all = IF commits /\ g.usable THEN g.stored \o g.pending ELSE g.stored
  <2>1. h[n] \in AnyLog
    BY <1>2
  <2>2. LogOf(entries) = FoldLeft(SafeWriteLog, [usable |-> TRUE, pending |-> <<>>, stored |-> <<>>], entries)
    BY DEF LogOf, EmptyLog
  <2> QED BY <1>2, <2>1, <2>2 DEF Stored
<1>8. g.pending \in Seq(AnyCall) /\ g.stored \in Seq(AnyCall)
  BY DEF AnyLog
<1>9. broke = {} <=> ~Broke(n)
  BY <1>1
<1>10. \A i \in aside : i \in 1..n /\ ~entries[i].fallback_fails /\ Broke(i)
  <2>1. ASSUME NEW i \in aside PROVE i \in 1..n /\ ~entries[i].fallback_fails /\ Broke(i)
    <3>1. i \in 1..n /\ ~entries[i].fallback_fails
      BY <1>1
    <3>2. PICK j \in 1..n : entries[j].session_fails /\ j <= i
      BY <1>1
    <3>3. j \in 1..i
      BY <3>1, <3>2
    <3> QED BY <3>1, <3>2, <3>3
  <2> QED BY <2>1
<1> HIDE DEF all, aside, broke
<1>11. CASE commits /\ g.usable
  <2>1. all = <<>> \o g.pending /\ Waiting(g.pending, n) /\ ~Broke(n)
    BY <1>6, <1>7, <1>11
  <2>2. <<>> \o g.pending = g.pending
    BY <1>8, ConcatEmptySeq
  <2>3. all = entries
    <3>1. g.pending = entries
      BY <1>1, <1>8, <2>1, SeqEqual
    <3> QED BY <2>1, <2>2, <3>1
  <2>4. aside = {}
    <3>1. \A i \in 1..n : ~Broke(i)
      BY <2>1
    <3> HIDE DEF Broke
    <3> QED BY <1>10, <3>1
  <2>5. Cardinality({all[i].id : i \in DOMAIN all}) = Len(all)
    BY <2>3, IdsCount
  <2>6. {entries[i].id : i \in aside} \subseteq {all[i].id : i \in DOMAIN all}
    BY <2>4
  <2> QED BY <2>3, <2>5, <2>6, Zenon DEF CallsAreLogged, all, aside, broke
<1>12. CASE ~(commits /\ g.usable)
  <2>1. all = g.stored /\ all \in Seq(AnyCall) /\ Once(all) /\ Aside(all, n)
    BY <1>6, <1>7, <1>8, <1>12
  <2>2. ~(commits /\ broke = {})
    BY <1>6, <1>7, <1>9, <1>12
  <2>3. Cardinality({all[i].id : i \in DOMAIN all}) = Len(all)
    BY <2>1, IdsCount
  <2>4. {entries[i].id : i \in aside} \subseteq {all[i].id : i \in DOMAIN all}
    <3> HIDE DEF Broke
    <3> QED BY <1>10, <2>1
  <2> QED BY <2>2, <2>3, <2>4, Zenon DEF CallsAreLogged, all, aside, broke
<1> QED BY <1>11, <1>12

AnyResponse == [choices: BOOLEAN, submitted: Seq(STRING), cost: Int]

\* complete on any responses: what CostOfCall says of it.
LEMMA CallsCost ==
  ASSUME NEW responses \in Seq(AnyResponse)
  PROVE  CostOfCall(responses)
<1>1. PICK n \in Nat : DOMAIN responses = 1..n /\ \A i \in 1..n : responses[i] \in AnyResponse
  BY LenProperties
<1> DEFINE Bad(r) == ~r.choices \/ \E i \in DOMAIN r.submitted : r.submitted[i] = "invalid"
           parsed == {i \in DOMAIN responses : i <= MAX_RETRIES /\ ParseResponse(responses[i]) # None}
           e == Complete(responses)
<1>2. ASSUME NEW r \in AnyResponse
      PROVE  /\ ParseResponse(r) = None <=> Bad(r)
             /\ ParseResponse(r) # None => /\ ParseResponse(r).cost = r.cost
                                           /\ ParseResponse(r).args \notin {"invalid", ""}
  <2>1. PICK s \in Seq(STRING) : s = r.submitted /\ r.cost \in Int /\ r.choices \in BOOLEAN
    BY DEF AnyResponse
  <2>2. CASE Bad(r)
    BY <2>2 DEF ParseResponse
  <2>3. CASE ~Bad(r)
    <3> DEFINE args == IF s = <<>> \/ Last(s) = "" THEN None ELSE Last(s)
    <3>1. ParseResponse(r) = [args |-> args, cost |-> r.cost]
      BY <2>1, <2>3 DEF ParseResponse
    <3>2. args \in STRING \cup {None} /\ args \notin {"invalid", ""}
      <4>1. CASE s = <<>> \/ Last(s) = ""
        <5>1. None # "invalid" /\ None # ""
          BY NoneIsNoAnswer
        <5> QED BY <4>1, <5>1
      <4>2. CASE ~(s = <<>> \/ Last(s) = "")
        <5>1. PICK m \in Nat : m = Len(s) /\ DOMAIN s = 1..m /\ m # 0 /\ \A i \in 1..m : s[i] \in STRING
          BY <4>2, LenProperties, EmptySeq
        <5>2. Last(s) = s[m] /\ m \in 1..m
          BY <5>1 DEF Last
        <5>3. s[m] # "invalid"
          BY <2>1, <2>3, <5>1, <5>2
        <5> QED BY <4>2, <5>1, <5>2, <5>3
      <4> QED BY <4>1, <4>2
    <3> HIDE DEF args
    <3>3. [args |-> args, cost |-> r.cost] \in [args: STRING \cup {None}, cost: Int]
      BY <2>1, <3>2
    <3>4. ParseResponse(r) # None
      BY <3>1, <3>3, NoneIsNoAnswer
    <3>5. ParseResponse(r).cost = r.cost /\ ParseResponse(r).args = args
      BY <3>1
    <3> HIDE DEF Bad
    <3> QED BY <2>3, <3>2, <3>4, <3>5
  <2> QED BY <2>2, <2>3
<1>3. CASE parsed = {}
  <2>1. e = [success |-> FALSE, args |-> None, cost |-> 0]
    BY <1>3 DEF Complete
  <2>2. \A i \in DOMAIN responses :
          i <= MAX_RETRIES /\ responses[i].choices => "invalid" \in Range(responses[i].submitted)
    <3>1. ASSUME NEW i \in DOMAIN responses, i <= MAX_RETRIES, responses[i].choices
          PROVE  "invalid" \in Range(responses[i].submitted)
      <4>1. ParseResponse(responses[i]) = None /\ responses[i] \in AnyResponse
        BY <1>1, <1>3, <3>1
      <4>2. Bad(responses[i])
        BY <1>2, <4>1
      <4> QED BY <3>1, <4>2 DEF Range
    <3> QED BY <3>1
  <2>3. None # "invalid" /\ None # ""
    BY NoneIsNoAnswer
  <2>4. ~e.success /\ e.cost = 0 /\ e.args \notin {"invalid", ""}
    <3>1. e.success = FALSE /\ e.cost = 0 /\ e.args = None
      BY <2>1
    <3> QED BY <2>3, <3>1
  <2> HIDE DEF e
  <2> QED BY <2>2, <2>4 DEF CostOfCall, e
<1>4. CASE parsed # {}
  <2>1. Min(parsed) \in parsed
    <3>1. parsed \subseteq 1..n
      BY <1>1
    <3> HIDE DEF parsed
    <3>2. IsFiniteSet(parsed)
      <4>1. IsFiniteSet(1..n)
        <5>1. n \in Int
          BY <1>1
        <5> QED BY <5>1, UpToFinite
      <4>2. IsFiniteSet(parsed)
        BY <3>1, <4>1, FS_Subset
      <4> QED BY <4>2
    <3>3. parsed \subseteq Int
      BY <3>1
    <3> QED BY <1>4, <3>2, <3>3, Extremes
  <2>2. PICK i \in parsed : i = Min(parsed)
    BY <2>1
  <2>3. e = [success |-> TRUE, args |-> ParseResponse(responses[i]).args,
             cost |-> ParseResponse(responses[i]).cost]
    BY <1>4, <2>2 DEF Complete
  <2>4. i \in DOMAIN responses /\ i <= MAX_RETRIES /\ ParseResponse(responses[i]) # None /\ responses[i] \in AnyResponse
    BY <1>1
  <2>5. ParseResponse(responses[i]).cost = responses[i].cost /\ ParseResponse(responses[i]).args \notin {"invalid", ""}
    BY <1>2, <2>4
  <2>6. e.success /\ e.cost = responses[i].cost /\ e.args \notin {"invalid", ""}
    <3>1. e.success = TRUE /\ e.cost = ParseResponse(responses[i]).cost
          /\ e.args = ParseResponse(responses[i]).args
      BY <2>3
    <3> QED BY <2>5, <3>1
  <2> HIDE DEF e
  <2> QED BY <2>4, <2>6 DEF CostOfCall, e
<1> QED BY <1>3, <1>4


-----------------------------------------------------------------------------
(* Measures of any size.                                                     *)

(* Synchronisations, failures, requests and errors come in the order of time.*)
InOrder(s)   == \A i, j \in DOMAIN s : i <= j => s[i] <= s[j]
UpTo(s, now) == \A i \in DOMAIN s : s[i] <= now

AnyHistory == {s \in Seq(AnyOutcome) : \A i, j \in DOMAIN s : i <= j => s[i].at <= s[j].at}
AnyPace    == {p \in [budget: Nat, period: Nat, window: Nat, threshold: Nat, min: Nat, max: Nat] :
                 p.min <= p.max}
AnyCalls   == {s \in Seq(AnyCall) : \A i, j \in DOMAIN s : s[i].id = s[j].id => i = j}
AnyCode    == [board: STRING, id: Int]
AnyLine    == [code: [market: STRING, id: Int], fields: Nat, quote: Int]

AnyQuoteOf(K) == [kind: {"quote"}, now: Int, codes: SUBSET AnyCode, cache: [K -> [at: Int, quote: Int]],
                  answer: Seq(AnyLine) \cup {None}]
AnyPaceAt(t)  == [kind: {"pace"}, now: {t}, p: AnyPace, calls: {s \in Seq(Int) : UpTo(s, t)},
                  errors: {s \in Seq(Int) : UpTo(s, t)}]

AnyMeters ==
  [kind: {"freshness"}, now: Int, age: Int, outcomes: AnyHistory]
  \cup [kind: {"failure"}, times: {s \in Seq(Int) : InOrder(s)}]
  \cup (UNION {AnyQuoteOf(K) : K \in SUBSET AnyCode})
  \cup (UNION {AnyPaceAt(t) : t \in Int})
  \cup [kind: {"log"}, log: Seq(AnyRequest), start: Int, end: Int]
  \cup [kind: {"call"}, commits: BOOLEAN, attempts: Seq(AnyResponse), entries: AnyCalls]

\* What the program measures: for histories, failures, caches, answers,
\* requests and calls of any number, freshness is the history, a failing job
\* raises one alert a window, quotes are fresh, the pace follows the errors, the
\* logs add up, and a call is logged and paid once.
THEOREM MetersHold ==
  input \in AnyMeters /\ [][Next]_input => []MetersAreSound
<1>1. input \in AnyMeters => MetersAreSound
  <2> SUFFICES ASSUME input \in AnyMeters PROVE MetersAreSound
    OBVIOUS
  <2>a. /\ \A K : \A x \in AnyQuoteOf(K) : x.kind = "quote"
        /\ \A t : \A x \in AnyPaceAt(t) : x.kind = "pace"
    BY DEF AnyQuoteOf, AnyPaceAt
  <2>1. ASSUME input.kind = "freshness" PROVE FreshnessIsHistory(input.outcomes, input.now, input.age)
    <3>1. input.now \in Int /\ input.age \in Int /\ input.outcomes \in AnyHistory
      BY <2>a, <2>1 DEF AnyMeters
    <3>2. input.outcomes \in Seq(AnyOutcome)
          /\ \A i, j \in DOMAIN input.outcomes : i <= j => input.outcomes[i].at <= input.outcomes[j].at
      BY <3>1 DEF AnyHistory
    <3> QED BY <3>1, <3>2, FreshnessFollows
  <2>2. ASSUME input.kind = "failure" PROVE OneAlertPerWindow(input.times)
    <3>1. input.times \in {s \in Seq(Int) : InOrder(s)}
      BY <2>a, <2>2 DEF AnyMeters
    <3>2. input.times \in Seq(Int) /\ \A i, j \in DOMAIN input.times : i <= j => input.times[i] <= input.times[j]
      BY <3>1 DEF InOrder
    <3> QED BY <3>2, AlertsStayApart
  <2>3. ASSUME input.kind = "quote" PROVE QuotesAreFresh(input.cache, input.codes, input.now, input.answer)
    <3>1. \E K : input \in AnyQuoteOf(K)
      BY <2>a, <2>3 DEF AnyMeters
    <3>2. PICK K : /\ input.now \in Int /\ input.cache \in [K -> [at: Int, quote: Int]]
                   /\ input.answer \in Seq(AnyLine) \cup {None}
      BY <3>1 DEF AnyQuoteOf
    <3> QED BY <3>2, QuotesStayFresh
  <2>4. ASSUME input.kind = "pace" PROVE PaceFollowsErrors(input.p, input.calls, input.errors, input.now)
    <3>1. \E t \in Int : input \in AnyPaceAt(t)
      BY <2>a, <2>4 DEF AnyMeters
    <3>2. PICK t \in Int : /\ input.now = t /\ input.p \in AnyPace
                           /\ input.calls \in Seq(Int) /\ UpTo(input.calls, t)
                           /\ input.errors \in Seq(Int) /\ UpTo(input.errors, t)
      BY <3>1 DEF AnyPaceAt
    <3>3. AnyPaceOf(input.p)
      BY <3>2 DEF AnyPace, AnyPaceOf
    <3>4. /\ \A i \in DOMAIN input.calls : input.calls[i] <= t
          /\ \A i \in DOMAIN input.errors : input.errors[i] <= t
      BY <3>2 DEF UpTo
    <3> QED BY <3>2, <3>3, <3>4, PacesFollowErrors
  <2>5. ASSUME input.kind = "log" PROVE LogsAddUp(input.log, input.start, input.end)
    <3>1. input.log \in Seq(AnyRequest) /\ input.start \in Int /\ input.end \in Int
      BY <2>a, <2>5 DEF AnyMeters
    <3> QED BY <3>1, LogsAlwaysAddUp
  <2>6. ASSUME input.kind = "call" PROVE CallsAreLogged(input.entries, input.commits) /\ CostOfCall(input.attempts)
    <3>1. input.entries \in AnyCalls /\ input.commits \in BOOLEAN /\ input.attempts \in Seq(AnyResponse)
      BY <2>a, <2>6 DEF AnyMeters
    <3>2. input.entries \in Seq(AnyCall)
          /\ \A i, j \in DOMAIN input.entries : input.entries[i].id = input.entries[j].id => i = j
      BY <3>1 DEF AnyCalls
    <3>3. CallsAreLogged(input.entries, input.commits)
      BY <3>1, <3>2, CallsStayLogged
    <3> QED BY <3>1, <3>3, CallsCost
  <2> QED BY <2>1, <2>2, <2>3, <2>4, <2>5, <2>6 DEF MetersAreSound
<1>2. input \in AnyMeters /\ [Next]_input => (input \in AnyMeters)'
  BY DEF Next
<1> QED BY <1>1, <1>2, PTL


-----------------------------------------------------------------------------
(* Records that both the program and its users write.                        *)

AnyTask == [config: Int, tags: Int, enabled: BOOLEAN, status: STRING]
AnyEdit == [task: STRING, config: Int \cup {None}, enabled: BOOLEAN \cup {None}, status: STRING \cup {None}]

\* An edit leaves tasks tasks.
LEMMA EditsKeepTasks ==
  ASSUME NEW R, NEW rows \in [R -> AnyTask], NEW edit \in AnyEdit
  PROVE  EditTask(rows, edit) \in [R -> AnyTask]
<1>1. CASE edit.task \notin R
  BY <1>1 DEF EditTask
<1>2. CASE edit.task \in R
  <2> DEFINE t == edit.task
             row == [rows[t] EXCEPT !.config  = Or(edit.config, rows[t].config),
                                    !.enabled = Or(edit.enabled, rows[t].enabled),
                                    !.status  = Or(edit.status, rows[t].status)]
  <2>1. rows[t] \in AnyTask
    BY <1>2
  <2>2. row \in AnyTask
    <3>1. PICK r \in AnyTask : r = rows[t]
      BY <2>1
    <3>2. r.config \in Int /\ r.enabled \in BOOLEAN /\ r.status \in STRING
      BY DEF AnyTask
    <3>3. /\ Or(edit.config, r.config) \in Int /\ Or(edit.enabled, r.enabled) \in BOOLEAN
          /\ Or(edit.status, r.status) \in STRING
      BY <3>2 DEF AnyEdit, Or
    <3> QED BY <3>1, <3>3 DEF AnyTask
  <2>3. EditTask(rows, edit) = [rows EXCEPT ![t] = row]
    BY <1>2, <2>1 DEF EditTask, AnyTask
  <2> HIDE DEF row, t
  <2> QED BY <2>2, <2>3
<1> QED BY <1>1, <1>2

\* The tasks after each edit.
LEMMA EditRun ==
  ASSUME NEW R, NEW rows \in [R -> AnyTask], NEW edits \in Seq(AnyEdit)
  PROVE  \E h \in [0..Len(edits) -> [R -> AnyTask]] :
           /\ h[0] = rows
           /\ \A k \in 1..Len(edits) : h[k] = EditTask(h[k - 1], edits[k])
           /\ After(rows, edits) = h[Len(edits)]
<1> DEFINE P(f) == f = [s \in SUBSET (DOMAIN edits) |->
                         IF s = {} THEN rows
                         ELSE LET x == Max(s) IN EditTask(f[s \ {x}], edits[x])]
           c == CHOOSE f : P(f)
<1>1. PICK n \in Nat : n = Len(edits) /\ DOMAIN edits = 1..n /\ \A i \in 1..n : edits[i] \in AnyEdit
  BY LenProperties
<1>2. After(rows, edits) = (CHOOSE f : P(f))[DOMAIN edits]
  BY DEF After, FoldLeft, MapThenFoldSet
<1>3. rows \in [R -> AnyTask] /\ \A r \in [R -> AnyTask], x \in AnyEdit : EditTask(r, x) \in [R -> AnyTask]
  BY EditsKeepTasks
<1>4. \E f : P(f)
  <2> DEFINE G == [i \in 1..n |-> [r \in [R -> AnyTask] |-> EditTask(r, edits[i])]]
  <2>1. G \in [1..n -> [[R -> AnyTask] -> [R -> AnyTask]]] /\ \A i \in 1..n, r \in [R -> AnyTask] : G[i][r] = EditTask(r, edits[i])
    BY <1>1, <1>3
  <2> HIDE DEF G
  <2>2. PICK f : FoldsTo(f, n, [R -> AnyTask], rows, G)
    <3>1. rows \in [R -> AnyTask] /\ n \in Nat /\ G \in [1..n -> [[R -> AnyTask] -> [R -> AnyTask]]]
      BY <1>3, <2>1
    <3> QED BY <3>1, FoldExists, Zenon
  <2>22. /\ f \in [SUBSET (1..n) -> [R -> AnyTask]]
         /\ f[{}] = rows
         /\ \A s \in SUBSET (1..n) : s # {} => f[s] = G[Max(s)][f[s \ {Max(s)}]]
    BY <2>2 DEF FoldsTo
  <2>3. ASSUME NEW s \in SUBSET (1..n)
        PROVE  f[s] = IF s = {} THEN rows ELSE EditTask(f[s \ {Max(s)}], edits[Max(s)])
    <3>1. CASE s = {}
      BY <2>22, <3>1
    <3>2. CASE s # {}
      <4>1. Max(s) \in 1..n
        <5>1. Max(s) \in s
          BY <3>2, MaxUpTo
        <5> QED BY <5>1
      <4>2. f[s \ {Max(s)}] \in [R -> AnyTask]
        BY <2>22
      <4>3. f[s] = G[Max(s)][f[s \ {Max(s)}]]
        BY <2>22, <3>2
      <4>4. G[Max(s)][f[s \ {Max(s)}]] = EditTask(f[s \ {Max(s)}], edits[Max(s)])
        BY <2>1, <4>1, <4>2
      <4> QED BY <3>2, <4>3, <4>4
    <3> QED BY <3>1, <3>2
  <2>4. P(f)
    BY <1>1, <2>22, <2>3
  <2> HIDE DEF P
  <2> QED BY <2>4
<1>5. P(c)
  <2> HIDE DEF P
  <2> QED BY <1>4
<1>6. c[{}] = rows
  BY <1>5
<1>7. \A s \in SUBSET (1..n) : s # {} => c[s] = EditTask(c[s \ {Max(s)}], edits[Max(s)])
  BY <1>1, <1>5
<1>8. After(rows, edits) = c[1..n]
  BY <1>1, <1>2
<1> HIDE DEF c, P
<1>9. ASSUME NEW k \in 1..n PROVE c[1..k] = EditTask(c[1..k - 1], edits[k])
  <2>1. 1..k \in SUBSET (1..n) /\ k \in Nat \ {0}
    OBVIOUS
  <2>2. 1..k # {} /\ Max(1..k) = k /\ 1..k \ {Max(1..k)} = 1..k - 1
    BY <2>1, LastUpTo
  <2>3. c[1..k] = EditTask(c[1..k \ {Max(1..k)}], edits[Max(1..k)])
    BY <1>7, <2>1, <2>2
  <2> QED BY <2>2, <2>3
<1>10. c[1..0] = rows
  <2>1. 1..0 = {}
    OBVIOUS
  <2> QED BY <1>6, <2>1
<1>11. \A k \in 0..n : c[1..k] \in [R -> AnyTask]
  <2> DEFINE D == {k \in Nat : k <= n => c[1..k] \in [R -> AnyTask]}
  <2>1. 0 \in D
    BY <1>3, <1>10
  <2>2. ASSUME NEW k \in Nat, k \in D PROVE k + 1 \in D
    <3>1. SUFFICES ASSUME k + 1 <= n PROVE c[1..k + 1] \in [R -> AnyTask]
      OBVIOUS
    <3>2. PICK j \in 1..n : j = k + 1 /\ j - 1 = k
      BY <3>1
    <3>3. c[1..k] \in [R -> AnyTask]
      BY <2>2, <3>1
    <3>4. edits[j] \in AnyEdit
      BY <1>1
    <3>5. c[1..j] = EditTask(c[1..k], edits[j])
      BY <1>9, <3>2
    <3> QED BY <1>3, <3>2, <3>3, <3>4, <3>5
  <2> HIDE DEF D
  <2>3. \A k \in Nat : k \in D
    BY <2>1, <2>2, Steps
  <2> QED BY <2>3 DEF D
<1> DEFINE h == [k \in 0..n |-> c[1..k]]
<1>12. h \in [0..n -> [R -> AnyTask]] /\ \A k \in 0..n : h[k] = c[1..k]
  BY <1>11
<1>13. \A k \in 1..n : k \in 0..n /\ k - 1 \in 0..n
  OBVIOUS
<1> HIDE DEF h
<1>14. \A k \in 1..n : h[k] = EditTask(h[k - 1], edits[k])
  BY <1>9, <1>12, <1>13
<1>15. h[0] = rows /\ After(rows, edits) = h[n]
  BY <1>8, <1>10, <1>12
<1> QED BY <1>1, <1>12, <1>14, <1>15

\* sync_to_db on any tasks after any edits: what RestartKeepsPauses says of it.
LEMMA RestartsKeepPauses ==
  ASSUME NEW R, NEW rows \in [R -> AnyTask], NEW K, NEW code \in [K -> Int], NEW edits \in Seq(AnyEdit)
  PROVE  RestartKeepsPauses(rows, code, edits)
<1>1. PICK edited \in [R -> AnyTask] : edited = After(rows, edits)
  <2>1. PICK n \in Nat : n = Len(edits)
    BY LenProperties
  <2>2. PICK h \in [0..n -> [R -> AnyTask]] : After(rows, edits) = h[n]
    BY <2>1, EditRun
  <2>3. h[n] \in [R -> AnyTask]
    OBVIOUS
  <2> QED BY <2>2, <2>3
<1> DEFINE New(t) == [config |-> code[t], tags |-> code[t], enabled |-> TRUE, status |-> "active"]
           once == SyncToDb(edited, code)
           twice == SyncToDb(once, code)
<1>2. DOMAIN rows = R /\ DOMAIN edited = R /\ DOMAIN code = K
  OBVIOUS
<1>3. once = [x \in R \cup K |-> IF x \in K
                                 THEN IF x \in R THEN [edited[x] EXCEPT !.config = code[x]] ELSE New(x)
                                 ELSE edited[x]]
  BY <1>2 DEF SyncToDb, Updated
<1>4. DOMAIN once = R \cup K
  BY <1>3
<1>5. twice = [x \in R \cup K |-> IF x \in K THEN [once[x] EXCEPT !.config = code[x]] ELSE once[x]]
  <2> HIDE DEF once
  <2>1. twice = [x \in (R \cup K) \cup K |->
                   IF x \in K
                   THEN IF x \in R \cup K THEN [once[x] EXCEPT !.config = code[x]] ELSE New(x)
                   ELSE once[x]]
    BY <1>2, <1>4 DEF SyncToDb, Updated
  <2>2. (R \cup K) \cup K = R \cup K /\ \A x \in K : x \in R \cup K
    OBVIOUS
  <2> QED BY <2>1, <2>2
<1> HIDE DEF once
<1>6. \A x \in R : edited[x] \in AnyTask
  OBVIOUS
<1>7. ASSUME NEW x \in K PROVE once[x].config = code[x] /\ [once[x] EXCEPT !.config = code[x]] = once[x]
  <2>1. CASE x \in R
    <3>1. PICK e \in AnyTask : e = edited[x]
      BY <1>6, <2>1
    <3>2. once[x] = [e EXCEPT !.config = code[x]]
      BY <1>3, <2>1, <3>1
    <3> QED BY <3>2 DEF AnyTask
  <2>2. CASE x \notin R
    <3>1. once[x] = New(x)
      BY <1>3, <2>2
    <3>2. \A c, b, a : /\ [config |-> c, tags |-> c, enabled |-> b, status |-> a].config = c
                       /\ [[config |-> c, tags |-> c, enabled |-> b, status |-> a] EXCEPT !.config = c]
                            = [config |-> c, tags |-> c, enabled |-> b, status |-> a]
      OBVIOUS
    <3>3. New(x).config = code[x] /\ [New(x) EXCEPT !.config = code[x]] = New(x)
      BY <3>2, Zenon
    <3> HIDE DEF New
    <3> QED BY <3>1, <3>3
  <2> QED BY <2>1, <2>2
<1>8. twice = once
  <2>1. \A x \in R \cup K : (IF x \in K THEN [once[x] EXCEPT !.config = code[x]] ELSE once[x]) = once[x]
    BY <1>7
  <2>2. once = [x \in R \cup K |-> once[x]]
    BY <1>3
  <2> QED BY <1>5, <2>1, <2>2
<1>9. \A x \in R \cup K : once[x].enabled <=> (x \in R /\ edited[x].enabled) \/ x \in K \ R
  <2>1. ASSUME NEW x \in R \cup K PROVE once[x].enabled <=> (x \in R /\ edited[x].enabled) \/ x \in K \ R
    <3>1. CASE x \in R
      <4>1. PICK e \in AnyTask : e = edited[x]
        BY <1>6, <3>1
      <4>2. once[x] = IF x \in K THEN [e EXCEPT !.config = code[x]] ELSE e
        BY <1>3, <3>1, <4>1
      <4>3. once[x].enabled = e.enabled
        BY <4>2 DEF AnyTask
      <4> QED BY <3>1, <4>1, <4>3
    <3>2. CASE x \notin R
      <4>1. once[x] = New(x)
        BY <1>3, <3>2
      <4> QED BY <3>2, <4>1
    <3> QED BY <3>1, <3>2
  <2> QED BY <2>1
<1>10. ActiveTasks(once) = ActiveTasks(edited) \cup (K \ R)
  BY <1>2, <1>4, <1>9 DEF ActiveTasks
<1>11. \A t \in R \ K : once[t] = edited[t]
  BY <1>3
<1> QED BY <1>1, <1>2, <1>7, <1>8, <1>10, <1>11 DEF RestartKeepsPauses, once

AnyJob == [cron: Int, enabled: BOOLEAN]

\* ensure_defaults and api_update_job on any jobs: what JobEditsStand says of
\* them.
LEMMA JobEditsAlwaysStand ==
  ASSUME NEW J, NEW jobs \in [J -> AnyJob], NEW D, NEW defaults \in [D -> Int], NEW valid,
         \A j \in D : defaults[j] \in valid,
         NEW edit, edit.cron \in Int \cup {None}, edit.enabled \in BOOLEAN \cup {None}
  PROVE  JobEditsStand(jobs, defaults, edit, valid)
<1> DEFINE start == EnsureDefaults(jobs, defaults)
           edited == ApiUpdateJob(start, defaults, edit, valid)
           again == EnsureDefaults(edited, defaults)
           New(j) == [cron |-> defaults[j], enabled |-> j \notin DISABLED_BY_DEFAULT]
<1>1. DOMAIN jobs = J /\ DOMAIN defaults = D
  OBVIOUS
<1>2. start = [x \in D \cup J |-> IF x \in J THEN jobs[x] ELSE New(x)]
  BY <1>1 DEF EnsureDefaults, Updated
<1>3. DOMAIN start = D \cup J
  BY <1>2
<1> HIDE DEF start
<1>4. /\ DOMAIN edited = D \cup J
      /\ \A x \in D \cup J : x # edit.job => edited[x] = start[x]
      /\ \A x \in D \cup J : edited[x].cron = start[x].cron
                             \/ (edited[x].cron = edit.cron /\ edit.cron # None /\ edit.cron \in valid)
      /\ edited = [x \in D \cup J |-> edited[x]]
  <2> DEFINE job == [cron |-> Or(edit.cron, start[edit.job].cron),
                     enabled |-> Or(edit.enabled, start[edit.job].enabled)]
  <2>1. CASE edited = start
    BY <1>2, <1>3, <2>1
  <2>2. CASE edited # start
    <3>1. /\ edit.job \in D \cup J /\ (edit.cron = None \/ edit.cron \in valid)
          /\ edited = [start EXCEPT ![edit.job] = job]
      BY <1>1, <1>3, <2>2 DEF ApiUpdateJob, UpdateConfig
    <3>2. job.cron = IF edit.cron = None THEN start[edit.job].cron ELSE edit.cron
      BY DEF Or
    <3> HIDE DEF job, edited
    <3> QED BY <1>2, <1>3, <3>1, <3>2
  <2> QED BY <2>1, <2>2
<1> HIDE DEF edited
<1>5. again = edited
  <2>1. again = [x \in D \cup (D \cup J) |-> IF x \in D \cup J THEN edited[x] ELSE New(x)]
    BY <1>1, <1>4 DEF EnsureDefaults, Updated
  <2>2. D \cup (D \cup J) = D \cup J
    OBVIOUS
  <2> QED BY <1>4, <2>1, <2>2
<1>6. ASSUME \A j \in J : jobs[j].cron \in valid, NEW x \in D \cup J PROVE edited[x].cron \in valid
  <2>1. start[x].cron \in valid
    BY <1>2, <1>6
  <2> QED BY <1>4, <2>1
<1>7. \A j \in J \ {edit.job} : edited[j] = jobs[j]
  BY <1>2, <1>4
<1> HIDE DEF again
<1> QED BY <1>1, <1>4, <1>5, <1>6, <1>7, Zenon DEF JobEditsStand, start, edited, again


AnyAlert  == [id: Int, severity: STRING, category: STRING, by: STRING \cup {None}]
AnyFilter == [severity: STRING \cup {None}, category: STRING \cup {None}]

\* resolve_alert and resolve_matching on any alerts: what FirstResolverStays
\* says of them.
LEMMA FirstResolversStay ==
  ASSUME NEW alerts \in SUBSET AnyAlert, IsFiniteSet(alerts),
         \A a, b \in alerts : a.id = b.id => a = b, NEW id, NEW filter
  PROVE  FirstResolverStays(alerts, id, filter)
<1> DEFINE one == ResolveAlert(alerts, id, "user")
           all == ResolveMatching(one, filter, "auto")
           First(a) == IF a.id = id /\ a.by = None THEN [a EXCEPT !.by = "user"] ELSE a
           Then(a) == IF a \in Unresolved(one, filter) THEN [a EXCEPT !.by = "auto"] ELSE a
           Both(a) == Then(First(a))
           Now(a) == IF a.by # None THEN a.by
                     ELSE IF a.id = id THEN "user"
                     ELSE IF Matches(a, filter) THEN "auto" ELSE None
<1>1. one = {First(a) : a \in alerts}
  BY DEF ResolveAlert
<1>2. all = {Then(a) : a \in one}
  BY DEF ResolveMatching
<1>3. None # "user" /\ None # "auto"
  BY NoneIsNoResolver
<1> HIDE DEF one
<1>4. ASSUME NEW a \in alerts
      PROVE  /\ First(a) \in one
             /\ First(a).id = a.id /\ First(a).severity = a.severity /\ First(a).category = a.category
             /\ First(a).by = IF a.by = None /\ a.id = id THEN "user" ELSE a.by
             /\ First(a).by = None => First(a) = a
  <2>1. CASE a.id = id /\ a.by = None
    <3>1. First(a) = [a EXCEPT !.by = "user"]
      BY <2>1
    <3>2. First(a).by = "user" /\ First(a).id = a.id /\ First(a).severity = a.severity
          /\ First(a).category = a.category
      BY <3>1 DEF AnyAlert
    <3>3. First(a) \in one
      BY <1>1
    <3> QED BY <1>3, <2>1, <3>2, <3>3
  <2>2. CASE ~(a.id = id /\ a.by = None)
    BY <1>1, <2>2
  <2> QED BY <2>1, <2>2
<1>5. ASSUME NEW a \in alerts
      PROVE  /\ Both(a) \in all
             /\ Both(a).id = a.id /\ Both(a).severity = a.severity /\ Both(a).category = a.category
             /\ Both(a).by = Now(a)
             /\ Both(a).by = None => Both(a) = a
  <2> DEFINE b == First(a)
  <2>1. /\ b \in one
        /\ b.id = a.id /\ b.severity = a.severity /\ b.category = a.category
        /\ b.by = IF a.by = None /\ a.id = id THEN "user" ELSE a.by
        /\ b.by = None => b = a
    BY <1>4
  <2>2. Both(a) = Then(b)
    OBVIOUS
  <2>3. Both(a) \in all
    BY <1>2, <2>1
  <2>4. Matches(b, filter) <=> Matches(a, filter)
    BY <2>1 DEF Matches
  <2>5. b \in Unresolved(one, filter) <=> b.by = None /\ Matches(a, filter)
    BY <2>1, <2>4 DEF Unresolved
  <2> HIDE DEF b, Both
  <2>6. CASE b.by = None /\ Matches(a, filter)
    <3>1. Then(b) = [a EXCEPT !.by = "auto"]
      BY <2>1, <2>5, <2>6
    <3>2. [a EXCEPT !.by = "auto"].by = "auto" /\ [a EXCEPT !.by = "auto"].id = a.id
          /\ [a EXCEPT !.by = "auto"].severity = a.severity /\ [a EXCEPT !.by = "auto"].category = a.category
      BY DEF AnyAlert
    <3>3. a.by = None /\ a.id # id
      BY <1>3, <2>1, <2>6
    <3> QED BY <1>3, <2>2, <2>3, <2>6, <3>1, <3>2, <3>3
  <2>7. CASE ~(b.by = None /\ Matches(a, filter))
    <3>1. Then(b) = b
      BY <2>5, <2>7
    <3> QED BY <1>3, <2>1, <2>2, <2>3, <2>7, <3>1
  <2> QED BY <2>6, <2>7
<1>6. ASSUME NEW b \in all PROVE \E a \in alerts : b = Both(a)
  <2>1. PICK c \in one : b = Then(c)
    BY <1>2
  <2>2. PICK a \in alerts : c = First(a)
    BY <1>1
  <2> HIDE DEF First, Then, all
  <2> QED BY <2>1, <2>2
<1> HIDE DEF all, First, Then, Both
<1>7. Unresolved(all, filter) = {}
  <2>1. SUFFICES ASSUME NEW b \in all, b.by = None, Matches(b, filter) PROVE FALSE
    BY DEF Unresolved
  <2>2. PICK a \in alerts : b = Both(a)
    BY <1>6
  <2>3. b = a /\ Now(a) = None
    BY <1>5, <2>1, <2>2
  <2>4. Matches(a, filter) /\ a.by = None
    BY <2>1, <2>3
  <2> QED BY <1>3, <2>3, <2>4
<1>8. \A a \in alerts : \E b \in all :
        /\ b.id = a.id /\ b.severity = a.severity /\ b.category = a.category
        /\ b.by = Now(a)
  BY <1>5
<1>9. IsFiniteSet(all) /\ Cardinality(all) = Cardinality(alerts)
  <2> DEFINE f == [a \in alerts |-> Both(a)]
  <2>1. f \in [alerts -> all] /\ \A b \in all : \E a \in alerts : f[a] = b
    BY <1>5, <1>6
  <2>2. \A a, b \in alerts : f[a] = f[b] => a = b
    <3>1. ASSUME NEW a \in alerts, NEW b \in alerts, f[a] = f[b] PROVE a = b
      <4>1. Both(a).id = a.id /\ Both(b).id = b.id /\ Both(a) = Both(b)
        BY <1>5, <3>1
      <4> QED BY <4>1
    <3> QED BY <3>1
  <2> HIDE DEF f
  <2> QED BY <2>1, <2>2, Paired
<1>10. CriticalUnresolved(all) <= CriticalUnresolved(alerts)
  <2> DEFINE A == {a \in alerts : a.severity = "critical" /\ a.by = None}
             B == {b \in all : b.severity = "critical" /\ b.by = None}
  <2>1. B \subseteq A
    <3>1. ASSUME NEW b \in B PROVE b \in A
      <4>1. PICK a \in alerts : b = Both(a)
        BY <1>6
      <4>2. b = a
        BY <1>5, <4>1
      <4> QED BY <4>2
    <3> QED BY <3>1
  <2>2. IsFiniteSet(A)
    BY FS_Subset
  <2> HIDE DEF A, B
  <2>3. Cardinality(B) <= Cardinality(A)
    BY <2>1, <2>2, FS_Subset
  <2> QED BY <2>3 DEF CriticalUnresolved, A, B
<1> QED BY <1>7, <1>8, <1>9, <1>10, Zenon DEF FirstResolverStays, one, all


AnySignals == [held: BOOLEAN, buys: Nat, sells: Nat, pct: Nat, audit: Nat, alerts: Nat]

\* What a signal to sell does to the drafts of a stock.
LEMMA SellsOf ==
  ASSUME NEW s \in AnySignals, NEW p \in Nat
  PROVE  LET t == CreateThesisBreachSell(s, p) IN
         /\ t \in AnySignals
         /\ ~s.held \/ s.sells > 1 => t = s
         /\ s.held /\ s.sells <= 1 =>
              /\ t.held = s.held /\ t.buys = 0 /\ t.sells = 1 /\ t.pct = p /\ t.audit = s.audit
              /\ t.alerts = IF s.sells = 0 THEN s.alerts + 1 ELSE s.alerts
<1> DEFINE t == CreateThesisBreachSell(s, p)
<1>1. /\ s.held \in BOOLEAN /\ s.buys \in Nat /\ s.sells \in Nat /\ s.pct \in Nat
      /\ s.audit \in Nat /\ s.alerts \in Nat
  BY DEF AnySignals
<1>2. CASE ~s.held \/ s.sells > 1
  <2>1. t = s
    BY <1>2 DEF CreateThesisBreachSell
  <2>2. ~(s.held /\ s.sells <= 1)
    BY <1>1, <1>2
  <2> QED BY <2>1, <2>2
<1>3. CASE ~(~s.held \/ s.sells > 1)
  <2>1. PICK n \in Nat : n = IF s.sells = 0 THEN s.alerts + 1 ELSE s.alerts
    BY <1>1
  <2>2. t = [s EXCEPT !.buys = 0, !.sells = 1, !.pct = p, !.alerts = n]
    <3>1. t = [SupersedePendingBuys(s) EXCEPT !.sells = 1, !.pct = p,
                 !.alerts = IF s.sells = 0 THEN @ + 1 ELSE @]
      BY <1>3 DEF CreateThesisBreachSell
    <3> QED BY <2>1, <3>1 DEF SupersedePendingBuys, AnySignals
  <2>3. t \in AnySignals /\ t.held = s.held /\ t.buys = 0 /\ t.sells = 1 /\ t.pct = p /\ t.audit = s.audit
        /\ t.alerts = n
    <3>1. t = [held |-> s.held, buys |-> 0, sells |-> 1, pct |-> p, audit |-> s.audit, alerts |-> n]
      BY <2>2 DEF AnySignals
    <3> HIDE DEF t
    <3>2. t \in AnySignals
      BY <1>1, <2>1, <3>1 DEF AnySignals
    <3> QED BY <3>1, <3>2
  <2> HIDE DEF t
  <2> QED BY <1>3, <2>1, <2>3 DEF t
<1> QED BY <1>2, <1>3

\* What the handler of a broken thesis does before it asks for the sale.
LEMMA AuditedOf ==
  ASSUME NEW s \in AnySignals, NEW fails
  PROVE  \E r \in AnySignals :
           /\ r.held = s.held /\ r.buys = s.buys /\ r.sells = s.sells /\ r.pct = s.pct
           /\ "audit" \in fails => OnThesisAlertTriggered(s, fails) = s
           /\ "audit" \notin fails /\ fails \cap {"alert", "commit"} # {} =>
                OnThesisAlertTriggered(s, fails) = r
           /\ "audit" \notin fails /\ fails \cap {"alert", "commit"} = {} =>
                /\ OnThesisAlertTriggered(s, fails) = CreateThesisBreachSell(r, 100)
                /\ r.audit > s.audit /\ r.alerts > s.alerts
<1>1. /\ s.held \in BOOLEAN /\ s.buys \in Nat /\ s.sells \in Nat /\ s.pct \in Nat
      /\ s.audit \in Nat /\ s.alerts \in Nat
  BY DEF AnySignals
<1>2. PICK m \in Nat, n \in Nat : m = s.audit + 1 /\ n = IF "alert" \in fails THEN s.alerts ELSE s.alerts + 1
  BY <1>1
<1> DEFINE r == [held |-> s.held, buys |-> s.buys, sells |-> s.sells, pct |-> s.pct, audit |-> m, alerts |-> n]
<1>3. r \in AnySignals
  BY <1>1 DEF AnySignals
<1>4. r = IF "alert" \in fails THEN [s EXCEPT !.audit = @ + 1]
          ELSE [[s EXCEPT !.audit = @ + 1] EXCEPT !.alerts = @ + 1]
  BY <1>2 DEF AnySignals
<1>5. r.held = s.held /\ r.buys = s.buys /\ r.sells = s.sells /\ r.pct = s.pct /\ r.audit = m /\ r.alerts = n
  OBVIOUS
<1> HIDE DEF r
<1>6. "audit" \in fails => OnThesisAlertTriggered(s, fails) = s
  BY DEF OnThesisAlertTriggered
<1>7. "audit" \notin fails /\ fails \cap {"alert", "commit"} # {} => OnThesisAlertTriggered(s, fails) = r
  BY <1>4 DEF OnThesisAlertTriggered
<1>8. "audit" \notin fails /\ fails \cap {"alert", "commit"} = {} =>
        OnThesisAlertTriggered(s, fails) = CreateThesisBreachSell(r, 100)
  BY <1>4 DEF OnThesisAlertTriggered
<1>9. fails \cap {"alert", "commit"} = {} => m > s.audit /\ n > s.alerts
  BY <1>1, <1>2
<1> QED BY <1>3, <1>5, <1>6, <1>7, <1>8, <1>9

\* on_thesis_alert_triggered on any drafts and failures: what BreachIsWhole says
\* of it.
LEMMA BreachesAreWhole ==
  ASSUME NEW s \in AnySignals, NEW fails
  PROVE  BreachIsWhole(s, fails)
<1> DEFINE t == OnThesisAlertTriggered(s, fails)
           u == OnThesisAlertTriggered(t, {})
           sold == "audit" \notin fails /\ fails \cap {"alert", "commit"} = {}
<1>1. PICK r \in AnySignals :
        /\ r.held = s.held /\ r.buys = s.buys /\ r.sells = s.sells /\ r.pct = s.pct
        /\ "audit" \in fails => t = s
        /\ "audit" \notin fails /\ fails \cap {"alert", "commit"} # {} => t = r
        /\ sold => t = CreateThesisBreachSell(r, 100) /\ r.audit > s.audit /\ r.alerts > s.alerts
  BY AuditedOf
<1>2. r.sells \in Nat /\ r.held \in BOOLEAN /\ r.alerts \in Nat /\ s.alerts \in Nat /\ r.audit \in Nat
  BY DEF AnySignals
<1>3. PICK v \in AnySignals :
        /\ v = CreateThesisBreachSell(r, 100)
        /\ ~r.held \/ r.sells > 1 => v = r
        /\ r.held /\ r.sells <= 1 =>
             /\ v.buys = 0 /\ v.sells = 1 /\ v.pct = 100 /\ v.audit = r.audit
             /\ v.alerts = IF r.sells = 0 THEN r.alerts + 1 ELSE r.alerts
  <2>1. \A p \in Nat : LET w == CreateThesisBreachSell(r, p) IN
         /\ w \in AnySignals
         /\ ~r.held \/ r.sells > 1 => w = r
         /\ r.held /\ r.sells <= 1 =>
              /\ w.held = r.held /\ w.buys = 0 /\ w.sells = 1 /\ w.pct = p /\ w.audit = r.audit
              /\ w.alerts = IF r.sells = 0 THEN r.alerts + 1 ELSE r.alerts
    BY SellsOf
  <2>2. 100 \in Nat
    OBVIOUS
  <2> QED BY <2>1, <2>2
<1> HIDE DEF t
<1>4. t \in AnySignals
  BY <1>1, <1>3
<1>5. t.buys = s.buys \/ (t.buys = 0 /\ t.sells = 1)
  BY <1>1, <1>2, <1>3
<1>6. s.held /\ s.sells <= 1 /\ fails \subseteq {"dispatch"} => t.buys = 0 /\ t.sells = 1 /\ t.pct = 100
  BY <1>1, <1>3
<1>7. t.sells > s.sells => t.audit > s.audit /\ t.alerts > s.alerts
  <2>1. SUFFICES ASSUME t.sells > s.sells PROVE t.audit > s.audit /\ t.alerts > s.alerts
    OBVIOUS
  <2>2. ~(s.sells > s.sells)
    BY <1>1, <1>2
  <2>3. sold /\ r.held /\ r.sells <= 1
    BY <1>1, <1>2, <1>3, <2>1, <2>2
  <2>4. v.alerts >= r.alerts /\ v.audit = r.audit /\ t = v
    BY <1>1, <1>2, <1>3, <2>3
  <2>5. PICK a \in Nat, b \in Nat, c \in Nat : a = s.alerts /\ b = r.alerts /\ c = v.alerts /\ a < b /\ b <= c
    BY <1>1, <1>2, <2>3, <2>4 DEF AnySignals
  <2>6. a < c
    BY <2>5
  <2> QED BY <1>1, <2>3, <2>4, <2>5, <2>6
<1>8. s.sells <= 1 => t.sells <= 1
  BY <1>1, <1>2, <1>3
<1>9. t.sells <= 1 => u.sells <= 1
  <2>1. PICK q \in AnySignals : q.sells = t.sells /\ u = CreateThesisBreachSell(q, 100)
    <3>1. "audit" \notin {} /\ {} \cap {"alert", "commit"} = {}
      OBVIOUS
    <3> QED BY <1>4, <3>1, AuditedOf
  <2>2. q.held /\ q.sells <= 1 => u.sells = 1
    <3>1. \A p \in Nat : q.held /\ q.sells <= 1 => CreateThesisBreachSell(q, p).sells = 1
      BY SellsOf
    <3>2. 100 \in Nat
      OBVIOUS
    <3> QED BY <2>1, <3>1, <3>2
  <2>3. ~q.held \/ q.sells > 1 => u = q
    <3>1. \A p \in Nat : ~q.held \/ q.sells > 1 => CreateThesisBreachSell(q, p) = q
      BY SellsOf
    <3>2. 100 \in Nat
      OBVIOUS
    <3> QED BY <2>1, <3>1, <3>2
  <2>4. q.sells \in Nat
    BY DEF AnySignals
  <2> QED BY <2>1, <2>2, <2>3, <2>4
<1> HIDE DEF u
<1> QED BY <1>5, <1>6, <1>7, <1>8, <1>9 DEF BreachIsWhole, t, u


\* The drafts of a held stock, with one sale at most, after a signal to sell.
LEMMA SoldOf ==
  ASSUME NEW s \in AnySignals, NEW p \in Nat, s.held, s.sells <= 1
  PROVE  LET t == CreateThesisBreachSell(s, p) IN
         /\ t \in AnySignals
         /\ t.held = s.held /\ t.buys = 0 /\ t.sells = 1 /\ t.pct = p /\ t.audit = s.audit
         /\ t.alerts = IF s.sells = 0 THEN s.alerts + 1 ELSE s.alerts
<1> DEFINE t == CreateThesisBreachSell(s, p)
<1>1. t \in AnySignals
  BY SellsOf
<1>2. s.held /\ s.sells <= 1 => t.held = s.held
  BY SellsOf
<1>5. s.held /\ s.sells <= 1 => t.buys = 0 /\ t.sells = 1
  BY SellsOf
<1>3. s.held /\ s.sells <= 1 => t.pct = p /\ t.audit = s.audit
  BY SellsOf
<1>4. s.held /\ s.sells <= 1 => t.alerts = IF s.sells = 0 THEN s.alerts + 1 ELSE s.alerts
  BY SellsOf
<1> HIDE DEF t
<1> QED BY <1>1, <1>2, <1>3, <1>4, <1>5 DEF t

\* Two accounts of a stock's drafts that agree in everything are one.
LEMMA SameSignals ==
  ASSUME NEW x \in AnySignals, NEW y \in AnySignals,
         x.held = y.held, x.buys = y.buys, x.sells = y.sells,
         x.pct = y.pct, x.audit = y.audit, x.alerts = y.alerts
  PROVE  x = y
<1>1. \A z \in AnySignals : z = [held |-> z.held, buys |-> z.buys, sells |-> z.sells,
                                 pct |-> z.pct, audit |-> z.audit, alerts |-> z.alerts]
  BY DEF AnySignals
<1> QED BY <1>1

\* run_all_signals on any drafts, percentile and weight: what SignalsLeaveOneSell
\* says of them.
LEMMA SignalsAlwaysLeaveOneSell ==
  ASSUME NEW s \in AnySignals, NEW percentile \in Int \cup {None}, NEW weight \in Int \cup {None}
  PROVE  SignalsLeaveOneSell(s, percentile, weight)
<1> DEFINE high == ~(percentile = None \/ percentile < 90)
           heavy == ~(weight = None \/ weight <= 15)
           t == RunAllSignals(s, percentile, weight)
           c == CheckFundamentalDeterioration(t, "earnings_review", "invalidates")
<1>1. \A x \in AnySignals : x.held \in BOOLEAN /\ x.buys \in Nat /\ x.sells \in Nat /\ x.pct \in Nat
                            /\ x.audit \in Nat /\ x.alerts \in Nat
  BY DEF AnySignals
<1>2. PICK q \in 1..100 : heavy => q = (100 * (weight - 10)) \div weight
  <2>1. CASE heavy
    <3>1. PICK w \in Nat \ {0}, x \in Int : w = weight /\ w > 15 /\ x = 100 * (w - 10)
      BY <2>1
    <3>2. PICK p \in Int : p = x \div w /\ (1 * w <= x => 1 <= p) /\ (x <= 100 * w => p <= 100)
      <4>1. x \div w \in Int /\ (\A a \in Int : a * w <= x => a <= x \div w)
                             /\ (\A a \in Int : x <= a * w => x \div w <= a)
        BY <3>1, Quotients
      <4> QED BY <4>1
    <3>3. 1 * w <= x /\ x <= 100 * w
      BY <3>1
    <3>4. p \in 1..100
      BY <3>2, <3>3
    <3> QED BY <3>1, <3>2, <3>4
  <2>2. CASE ~heavy
    <3>1. 1 \in 1..100
      OBVIOUS
    <3> QED BY <2>2, <3>1
  <2> QED BY <2>1, <2>2
<1>3. \A x : ScanValuationOvervalued(x, percentile) = IF high THEN CreateThesisBreachSell(x, 50) ELSE x
  BY DEF ScanValuationOvervalued, TRIM_RATIO_OVERVALUED
<1>4. \A x : ScanPositionOverweight(x, weight) = IF heavy THEN CreateThesisBreachSell(x, q) ELSE x
  BY <1>2 DEF ScanPositionOverweight
<1> HIDE DEF high, heavy
<1>5. \A x : RunAllSignals(x, percentile, weight)
             = LET y == IF high THEN CreateThesisBreachSell(x, 50) ELSE x
               IN  IF heavy THEN CreateThesisBreachSell(y, q) ELSE y
  BY <1>3, <1>4 DEF RunAllSignals
<1>6. 50 \in Nat /\ 100 \in Nat /\ q \in Nat /\ 50 \in 1..100
  OBVIOUS
<1>7. \A x \in AnySignals, p \in Nat : LET y == CreateThesisBreachSell(x, p) IN
        /\ y \in AnySignals
        /\ ~x.held \/ x.sells > 1 => y = x
        /\ x.held /\ x.sells <= 1 =>
             /\ y.held = x.held /\ y.buys = 0 /\ y.sells = 1 /\ y.pct = p /\ y.audit = x.audit
             /\ y.alerts = IF x.sells = 0 THEN x.alerts + 1 ELSE x.alerts
  BY SellsOf
<1>8. c = CreateThesisBreachSell(t, 100)
  <2>1. <<"earnings_review", "invalidates">> \in {<<"news_pulse", "thesis_review">>, <<"earnings_review", "invalidates">>}
    OBVIOUS
  <2> HIDE DEF t
  <2> QED BY <2>1 DEF CheckFundamentalDeterioration
<1>9. CASE ~s.held \/ s.sells > 1
  <2>1. t = s
    BY <1>5, <1>6, <1>7, <1>9
  <2>2. ~(s.sells <= 1 /\ s.held) /\ (s.sells > 1 => ~(s.sells <= 1) /\ ~(s.sells = 1))
    BY <1>1, <1>9
  <2> HIDE DEF t
  <2>3. ~(t.sells = 1 /\ s.sells = 0)
    BY <1>1, <2>1
  <2> QED BY <1>9, <2>1, <2>2, <2>3 DEF SignalsLeaveOneSell, t
<1>10. CASE s.held /\ s.sells <= 1
  <2> DEFINE Sold(x, p) == /\ x \in AnySignals /\ x.held = s.held /\ x.buys = 0 /\ x.sells = 1 /\ x.pct = p
                           /\ x.audit = s.audit
                           /\ x.alerts = IF s.sells = 0 THEN s.alerts + 1 ELSE s.alerts
  <2>1. ASSUME NEW p \in Nat PROVE Sold(CreateThesisBreachSell(s, p), p)
    <3> DEFINE y == CreateThesisBreachSell(s, p)
    <3>1. /\ y \in AnySignals
          /\ y.held = s.held /\ y.buys = 0 /\ y.sells = 1 /\ y.pct = p /\ y.audit = s.audit
          /\ y.alerts = IF s.sells = 0 THEN s.alerts + 1 ELSE s.alerts
      <4> QED BY <1>10, SoldOf
    <3> QED BY <3>1
  <2>2. ASSUME NEW x, NEW p \in Nat, Sold(x, p), NEW r \in Nat PROVE Sold(CreateThesisBreachSell(x, r), r)
    <3>1. x.held /\ x.sells <= 1 /\ x.sells # 0 /\ x \in AnySignals
      BY <1>10, <2>2
    <3> DEFINE y == CreateThesisBreachSell(x, r)
    <3>2. /\ y \in AnySignals /\ y.held = x.held /\ y.buys = 0 /\ y.sells = 1 /\ y.pct = r
          /\ y.audit = x.audit /\ y.alerts = x.alerts
      <4> HIDE DEF Sold
      <4>1. x.held /\ x.sells <= 1 => y.held = x.held
        BY <3>1, SellsOf
      <4>2. /\ y \in AnySignals /\ y.buys = 0 /\ y.sells = 1 /\ y.pct = r /\ y.audit = x.audit
            /\ y.alerts = IF x.sells = 0 THEN x.alerts + 1 ELSE x.alerts
        BY <3>1, SoldOf
      <4> HIDE DEF y
      <4> QED BY <3>1, <4>1, <4>2
    <3> QED BY <2>2, <3>2
  <2>3. ASSUME NEW x, NEW y, NEW p \in Nat, Sold(x, p), Sold(y, p) PROVE x = y
    <3>1. x \in AnySignals /\ y \in AnySignals /\ x.held = y.held /\ x.buys = y.buys /\ x.sells = y.sells
          /\ x.pct = y.pct /\ x.audit = y.audit /\ x.alerts = y.alerts
      BY <2>3
    <3> QED BY <3>1, SameSignals
  <2>31. \A x : \A p \in 1..100 : Sold(x, p) =>
           /\ x.buys = 0 /\ x.sells = 1 /\ x.pct \in 1..100
           /\ s.sells = 0 => x.alerts = s.alerts + 1
    OBVIOUS
  <2>32. s.sells = 0 \/ s.sells = 1
    BY <1>1, <1>10
  <2> HIDE DEF Sold
  <2>4. CASE ~high /\ ~heavy
    <3>1. t = s /\ RunAllSignals(t, percentile, weight) = t
      BY <1>5, <2>4
    <3>2. Sold(c, 100)
      BY <1>6, <1>8, <2>1, <3>1
    <3>3. c.pct = 100
      BY <3>2 DEF Sold
    <3> HIDE DEF t, c
    <3> QED BY <1>10, <2>32, <3>1, <3>3 DEF SignalsLeaveOneSell, t, c
  <2>5. CASE high \/ heavy
    <3>1. PICK p \in 1..100 : /\ Sold(t, p)
                              /\ \A x, r : r \in Nat /\ Sold(x, r) => Sold(RunAllSignals(x, percentile, weight), p)
      <4>1. CASE heavy
        <5>1. \A x, r : r \in Nat /\ Sold(x, r) => Sold(RunAllSignals(x, percentile, weight), q)
          BY <1>5, <1>6, <2>2, <4>1
        <5>2. Sold(t, q)
          BY <1>5, <1>6, <2>1, <2>2, <4>1
        <5> QED BY <5>1, <5>2
      <4>2. CASE ~heavy
        <5>1. high
          BY <2>5, <4>2
        <5>2. \A x, r : r \in Nat /\ Sold(x, r) => Sold(RunAllSignals(x, percentile, weight), 50)
          BY <1>5, <1>6, <2>2, <4>2, <5>1
        <5>3. Sold(t, 50)
          BY <1>5, <1>6, <2>1, <4>2, <5>1
        <5> QED BY <1>6, <5>2, <5>3
      <4> QED BY <4>1, <4>2
    <3> HIDE DEF t
    <3>2. p \in Nat
      OBVIOUS
    <3>3. RunAllSignals(t, percentile, weight) = t
      BY <2>3, <3>1, <3>2
    <3>4. c.pct = 100
      <4>1. Sold(c, 100)
        BY <1>6, <1>8, <2>2, <3>1, <3>2
      <4> QED BY <4>1 DEF Sold
    <3>5. t.buys = 0 /\ t.sells = 1 /\ t.pct \in 1..100 /\ (s.sells = 0 => t.alerts = s.alerts + 1)
      BY <2>31, <3>1
    <3> HIDE DEF c
    <3>6. t.sells <= 1
      BY <3>5
    <3> QED BY <1>10, <3>3, <3>4, <3>5, <3>6 DEF SignalsLeaveOneSell, t, c
  <2> QED BY <2>4, <2>5
<1>11. s.sells > 1 \/ s.sells <= 1
  BY <1>1
<1> QED BY <1>9, <1>10, <1>11


AnyItem == [status: STRING \cup {"pending"}, score: Int \cup {None}, cost: {None}, conflicts: {0}, red: {FALSE}]

\* A function of nothing is the empty sequence.
LEMMA EmptyFunction ==
  ASSUME NEW f, f = [c \in {} |-> f[c]]
  PROVE  f = <<>>
<1>1. DOMAIN <<>> = {} /\ DOMAIN f = {}
  BY EmptyDomain
<1>2. <<>> = [c \in DOMAIN <<>> |-> (<<>>)[c]]
  OBVIOUS
<1> QED BY <1>1, <1>2

\* compare_runs on the items of any two runs: what DriftIsSymmetric says of it.
LEMMA DriftsAreSymmetric ==
  ASSUME NEW before, NEW after, NEW S, NEW T, before.items \in [S -> AnyItem], after.items \in [T -> AnyItem]
  PROVE  DriftIsSymmetric(before, after)
<1> DEFINE Score(I, c) == IF c \in DOMAIN I THEN OrZero(I[c].score) ELSE 0
           Diff(I, J, c) == Score(J, c) - Score(I, c)
           Differs(I, J, c) == \/ Abs(Diff(I, J, c)) > 1
                               \/ c \notin DOMAIN I \cap DOMAIN J
                               \/ I[c].status # J[c].status
                               \/ I[c].conflicts # J[c].conflicts
                               \/ I[c].red # J[c].red
                               \/ Abs(OrZero(J[c].cost) - OrZero(I[c].cost)) > 1
           Changed(I, J) == {c \in DOMAIN I \cup DOMAIN J : Differs(I, J, c)}
           Compared(I, J) == [c \in Changed(I, J) |-> Diff(I, J, c)]
           I1 == before.items
           I2 == after.items
<1>1. /\ CompareRuns(before, after) = Compared(I1, I2)
      /\ CompareRuns(after, before) = Compared(I2, I1)
      /\ CompareRuns(before, before) = Compared(I1, I1)
  BY DEF CompareRuns, ScoreDiff
<1>2. /\ DOMAIN I1 = S /\ \A c \in S : I1[c] \in AnyItem
      /\ DOMAIN I2 = T /\ \A c \in T : I2[c] \in AnyItem
  OBVIOUS
<1> HIDE DEF I1, I2
<1>3. \A c : Score(I1, c) \in Int /\ Score(I2, c) \in Int
  <2>1. \A x \in AnyItem : OrZero(x.score) \in Int
    BY DEF AnyItem, OrZero, Or
  <2>2. (\A c \in S : OrZero(I1[c].score) \in Int) /\ (\A c \in T : OrZero(I2[c].score) \in Int)
    BY <1>2, <2>1
  <2>3. 0 \in Int
    OBVIOUS
  <2> QED BY <1>2, <2>2, <2>3
<1>4. \A x \in AnyItem : OrZero(x.cost) = 0
  BY DEF AnyItem, OrZero, Or
<1> HIDE DEF Score
<1>5. \A x, y \in Int : x - y = -(y - x) /\ Abs(x - y) = Abs(y - x) /\ ~(Abs(x - x) > 1) /\ x - y \in Int
  BY DEF Abs
<1>6. \A c : Diff(I1, I2, c) = -Diff(I2, I1, c) /\ Abs(Diff(I1, I2, c)) = Abs(Diff(I2, I1, c))
  BY <1>3, <1>5
<1>7. \A c : ~(Abs(Diff(I1, I1, c)) > 1)
  BY <1>3, <1>5
<1> HIDE DEF Diff
<1>8. 0 \in Int /\ ~(Abs(0 - 0) > 1)
  BY DEF Abs
<1>9. Changed(I1, I2) = Changed(I2, I1)
  <2>1. ASSUME NEW c, c \in S, c \in T PROVE Differs(I1, I2, c) <=> Differs(I2, I1, c)
    <3>1. OrZero(I1[c].cost) = 0 /\ OrZero(I2[c].cost) = 0
      BY <1>2, <1>4, <2>1
    <3> QED BY <1>2, <1>6, <2>1, <3>1
  <2>2. ASSUME NEW c, c \in S \cup T, ~(c \in S /\ c \in T) PROVE Differs(I1, I2, c) /\ Differs(I2, I1, c)
    BY <1>2, <2>2
  <2> HIDE DEF Differs
  <2> QED BY <1>2, <2>1, <2>2
<1>10. Changed(I1, I1) = {}
  <2>1. ASSUME NEW c \in S PROVE ~Differs(I1, I1, c)
    <3>1. OrZero(I1[c].cost) = 0
      BY <1>2, <1>4
    <3> QED BY <1>2, <1>7, <1>8, <3>1
  <2> HIDE DEF Differs
  <2> QED BY <1>2, <2>1
<1>11. Compared(I1, I1) = <<>>
  <2> HIDE DEF Changed
  <2>1. Compared(I1, I1) = [c \in {} |-> Compared(I1, I1)[c]]
    BY <1>10
  <2> HIDE DEF Compared
  <2> QED BY <2>1, EmptyFunction
<1> HIDE DEF Changed
<1>12. /\ DOMAIN Compared(I1, I2) = DOMAIN Compared(I2, I1)
       /\ \A c \in DOMAIN Compared(I1, I2) : Compared(I1, I2)[c] = -(Compared(I2, I1)[c])
  BY <1>6, <1>9
<1> HIDE DEF Compared
<1> QED BY <1>1, <1>11, <1>12 DEF DriftIsSymmetric


AB        == {"a", "b"}
AnyUpdate == [code: STRING, status: STRING, score: Int \cup {None}]
AnyRun    == [items: [AB -> AnyItem], status: {"completed"}, passed: Nat, failed: Nat,
              stock_count: {Cardinality(AB)}]

UpdatedBy(r, u) == UpdateItem(r, u.code, u.status, u.score)
RunOf(updates)  == FoldLeft(LAMBDA r, u : UpdateItem(r, u.code, u.status, u.score), RunEval(AB), updates)

\* An update of an item writes its status and its score.
LEMMA ItemUpdate ==
  ASSUME NEW i \in AnyItem, NEW d, NEW e
  PROVE  [[i EXCEPT !.status = d] EXCEPT !.score = e]
           = [status |-> d, score |-> e, cost |-> i.cost, conflicts |-> i.conflicts, red |-> i.red]
<1>1. PICK a, b, n, z, g : a = i.status /\ b = i.score /\ n = i.cost /\ z = i.conflicts /\ g = i.red
  OBVIOUS
<1>2. i = [status |-> a, score |-> b, cost |-> n, conflicts |-> z, red |-> g]
  BY <1>1 DEF AnyItem
<1>3. PICK x : x = [i EXCEPT !.status = d]
  OBVIOUS
<1>4. x = [status |-> d, score |-> b, cost |-> n, conflicts |-> z, red |-> g]
  BY <1>2, <1>3
<1>5. [x EXCEPT !.score = e] = [status |-> d, score |-> e, cost |-> n, conflicts |-> z, red |-> g]
  BY <1>4
<1> QED BY <1>1, <1>3, <1>5, Zenon

\* What an update does to the items and the counts of a run.
LEMMA UpdateOf ==
  ASSUME NEW r \in AnyRun, NEW u \in AnyUpdate
  PROVE  /\ UpdatedBy(r, u) \in AnyRun
         /\ u.code \notin AB => UpdatedBy(r, u) = r
         /\ u.code \in AB =>
              /\ UpdatedBy(r, u).passed = IF u.status = "completed" THEN r.passed + 1 ELSE r.passed
              /\ UpdatedBy(r, u).failed = IF u.status = "failed" THEN r.failed + 1 ELSE r.failed
              /\ \A c \in AB : UpdatedBy(r, u).items[c].status
                                 = IF c = u.code THEN u.status ELSE r.items[c].status
<1>1. /\ r.items \in [AB -> AnyItem] /\ r.status = "completed" /\ r.passed \in Nat /\ r.failed \in Nat
      /\ r.stock_count = Cardinality(AB)
  BY DEF AnyRun
<1>2. CASE u.code \notin AB
  BY <1>1, <1>2 DEF UpdatedBy, UpdateItem
<1>3. CASE u.code \in AB
  <2>1. PICK c \in AB : c = u.code
    BY <1>3
  <2>2. PICK i \in AnyItem : i = r.items[c]
    BY <1>1
  <2>3. PICK p \in Nat, f \in Nat : /\ p = IF u.status = "completed" THEN r.passed + 1 ELSE r.passed
                                    /\ f = IF u.status = "failed" THEN r.failed + 1 ELSE r.failed
    BY <1>1
  <2> DEFINE j == [status |-> u.status, score |-> Or(u.score, i.score), cost |-> None,
                   conflicts |-> 0, red |-> FALSE]
             J == [r.items EXCEPT ![c] = j]
             t == [items |-> J, status |-> "completed", passed |-> p, failed |-> f,
                   stock_count |-> Cardinality(AB)]
  <2>4. j \in AnyItem
    <3>1. u.status \in STRING /\ Or(u.score, i.score) \in Int \cup {None}
      BY DEF AnyUpdate, AnyItem, Or
    <3> QED BY <3>1 DEF AnyItem
  <2>5. J \in [AB -> AnyItem] /\ \A x \in AB : J[x].status = IF x = c THEN u.status ELSE r.items[x].status
    <3>1. j.status = u.status
      OBVIOUS
    <3> HIDE DEF j
    <3> QED BY <1>1, <2>4, <3>1
  <2>6. UpdatedBy(r, u) = t
    <3>1. j = [[i EXCEPT !.status = u.status] EXCEPT !.score = Or(u.score, i.score)]
      <4>1. i.cost = None /\ i.conflicts = 0 /\ i.red = FALSE
        BY DEF AnyItem
      <4>2. [[i EXCEPT !.status = u.status] EXCEPT !.score = Or(u.score, i.score)]
              = [status |-> u.status, score |-> Or(u.score, i.score),
                 cost |-> i.cost, conflicts |-> i.conflicts, red |-> i.red]
        BY ItemUpdate
      <4> QED BY <4>1, <4>2, Zenon
    <3>2. UpdatedBy(r, u) = [[[[r EXCEPT !.items = [r.items EXCEPT ![c] = [i EXCEPT !.status = u.status]]]
                                 EXCEPT !.items = J] EXCEPT !.passed = p] EXCEPT !.failed = f]
      <4> HIDE DEF J
      <4>1. UpdatedBy(r, u) = [r EXCEPT !.items[c].status = u.status,
                                        !.items[c].score = Or(u.score, @),
                                        !.passed = IF u.status = "completed" THEN @ + 1 ELSE @,
                                        !.failed = IF u.status = "failed" THEN @ + 1 ELSE @]
        BY <1>1, <2>1 DEF UpdatedBy, UpdateItem
      <4>2. J = [[r.items EXCEPT ![c] = [i EXCEPT !.status = u.status]]
                   EXCEPT ![c] = [[i EXCEPT !.status = u.status] EXCEPT !.score = Or(u.score, i.score)]]
        BY <1>1, <2>1, <2>2, <3>1 DEF J
      <4> QED BY <1>1, <2>1, <2>2, <2>3, <4>1, <4>2 DEF AnyRun, AnyItem
    <3> HIDE DEF J
    <3> QED BY <1>1, <3>2 DEF AnyRun
  <2>7. t \in AnyRun
    <3> HIDE DEF J
    <3> QED BY <2>5 DEF AnyRun
  <2>8. t.passed = p /\ t.failed = f /\ t.items = J
    BY DEF t
  <2> HIDE DEF t, J, j
  <2> QED BY <1>3, <2>1, <2>3, <2>5, <2>6, <2>7, <2>8
<1> QED BY <1>2, <1>3

\* A new evaluation of two stocks.
LEMMA NewRun ==
  /\ RunEval(AB) \in AnyRun
  /\ RunEval(AB).passed = 0 /\ RunEval(AB).failed = 0
  /\ \A c \in AB : RunEval(AB).items[c].status = "pending"
<1> DEFINE i == [status |-> "pending", score |-> None, cost |-> None, conflicts |-> 0, red |-> FALSE]
           I == [c \in AB |-> i]
<1>1. i \in AnyItem /\ i.status = "pending"
  BY DEF AnyItem
<1>2. RunEval(AB) = [items |-> I, status |-> "completed", passed |-> 0, failed |-> 0,
                     stock_count |-> Cardinality(AB)]
  BY DEF RunEval
<1> HIDE DEF i
<1>3. I \in [AB -> AnyItem] /\ \A c \in AB : I[c].status = "pending"
  BY <1>1
<1> HIDE DEF I
<1> QED BY <1>2, <1>3 DEF AnyRun

\* The run of an evaluation after each update.
LEMMA UpdateRun ==
  ASSUME NEW updates \in Seq(AnyUpdate)
  PROVE  \E h \in [0..Len(updates) -> AnyRun] :
           /\ h[0] = RunEval(AB)
           /\ \A k \in 1..Len(updates) : h[k] = UpdatedBy(h[k - 1], updates[k])
           /\ RunOf(updates) = h[Len(updates)]
<1> DEFINE P(f) == f = [s \in SUBSET (DOMAIN updates) |->
                         IF s = {} THEN RunEval(AB)
                         ELSE LET x == Max(s) IN UpdatedBy(f[s \ {x}], updates[x])]
           c == CHOOSE f : P(f)
<1>1. PICK n \in Nat : n = Len(updates) /\ DOMAIN updates = 1..n /\ \A i \in 1..n : updates[i] \in AnyUpdate
  BY LenProperties
<1>2. RunOf(updates) = (CHOOSE f : P(f))[DOMAIN updates]
  BY DEF RunOf, UpdatedBy, FoldLeft, MapThenFoldSet
<1>3. RunEval(AB) \in AnyRun /\ \A r \in AnyRun, x \in AnyUpdate : UpdatedBy(r, x) \in AnyRun
  BY NewRun, UpdateOf
<1>4. \E f : P(f)
  <2> DEFINE G == [i \in 1..n |-> [r \in AnyRun |-> UpdatedBy(r, updates[i])]]
  <2>1. G \in [1..n -> [AnyRun -> AnyRun]] /\ \A i \in 1..n, r \in AnyRun : G[i][r] = UpdatedBy(r, updates[i])
    BY <1>1, <1>3
  <2> HIDE DEF G
  <2>2. PICK f : FoldsTo(f, n, AnyRun, RunEval(AB), G)
    <3>1. RunEval(AB) \in AnyRun /\ n \in Nat /\ G \in [1..n -> [AnyRun -> AnyRun]]
      BY <1>3, <2>1
    <3> QED BY <3>1, FoldExists, Zenon
  <2>22. /\ f \in [SUBSET (1..n) -> AnyRun]
         /\ f[{}] = RunEval(AB)
         /\ \A s \in SUBSET (1..n) : s # {} => f[s] = G[Max(s)][f[s \ {Max(s)}]]
    BY <2>2 DEF FoldsTo
  <2>3. ASSUME NEW s \in SUBSET (1..n)
        PROVE  f[s] = IF s = {} THEN RunEval(AB) ELSE UpdatedBy(f[s \ {Max(s)}], updates[Max(s)])
    <3>1. CASE s = {}
      BY <2>22, <3>1
    <3>2. CASE s # {}
      <4>1. Max(s) \in 1..n
        <5>1. Max(s) \in s
          BY <3>2, MaxUpTo
        <5> QED BY <5>1
      <4>2. f[s \ {Max(s)}] \in AnyRun
        BY <2>22
      <4>3. f[s] = G[Max(s)][f[s \ {Max(s)}]]
        BY <2>22, <3>2
      <4>4. G[Max(s)][f[s \ {Max(s)}]] = UpdatedBy(f[s \ {Max(s)}], updates[Max(s)])
        BY <2>1, <4>1, <4>2
      <4> QED BY <3>2, <4>3, <4>4
    <3> QED BY <3>1, <3>2
  <2>4. P(f)
    BY <1>1, <2>22, <2>3
  <2> HIDE DEF P
  <2> QED BY <2>4
<1>5. P(c)
  <2> HIDE DEF P
  <2> QED BY <1>4
<1>6. c[{}] = RunEval(AB)
  BY <1>5
<1>7. \A s \in SUBSET (1..n) : s # {} => c[s] = UpdatedBy(c[s \ {Max(s)}], updates[Max(s)])
  BY <1>1, <1>5
<1>8. RunOf(updates) = c[1..n]
  BY <1>1, <1>2
<1> HIDE DEF c, P
<1>9. ASSUME NEW k \in 1..n PROVE c[1..k] = UpdatedBy(c[1..k - 1], updates[k])
  <2>1. 1..k \in SUBSET (1..n) /\ k \in Nat \ {0}
    OBVIOUS
  <2>2. 1..k # {} /\ Max(1..k) = k /\ 1..k \ {Max(1..k)} = 1..k - 1
    BY <2>1, LastUpTo
  <2>3. c[1..k] = UpdatedBy(c[1..k \ {Max(1..k)}], updates[Max(1..k)])
    BY <1>7, <2>1, <2>2
  <2> QED BY <2>2, <2>3
<1>10. c[1..0] = RunEval(AB)
  <2>1. 1..0 = {}
    OBVIOUS
  <2> QED BY <1>6, <2>1
<1>11. \A k \in 0..n : c[1..k] \in AnyRun
  <2> DEFINE D == {k \in Nat : k <= n => c[1..k] \in AnyRun}
  <2>1. 0 \in D
    BY <1>3, <1>10
  <2>2. ASSUME NEW k \in Nat, k \in D PROVE k + 1 \in D
    <3>1. SUFFICES ASSUME k + 1 <= n PROVE c[1..k + 1] \in AnyRun
      OBVIOUS
    <3>2. PICK j \in 1..n : j = k + 1 /\ j - 1 = k
      BY <3>1
    <3>3. c[1..k] \in AnyRun
      BY <2>2, <3>1
    <3>4. updates[j] \in AnyUpdate
      BY <1>1
    <3>5. c[1..j] = UpdatedBy(c[1..k], updates[j])
      BY <1>9, <3>2
    <3> QED BY <1>3, <3>2, <3>3, <3>4, <3>5
  <2> HIDE DEF D
  <2>3. \A k \in Nat : k \in D
    BY <2>1, <2>2, Steps
  <2> QED BY <2>3 DEF D
<1> DEFINE h == [k \in 0..n |-> c[1..k]]
<1>12. h \in [0..n -> AnyRun] /\ \A k \in 0..n : h[k] = c[1..k]
  BY <1>11
<1>13. \A k \in 1..n : k \in 0..n /\ k - 1 \in 0..n
  OBVIOUS
<1> HIDE DEF h
<1>14. \A k \in 1..n : h[k] = UpdatedBy(h[k - 1], updates[k])
  BY <1>9, <1>12, <1>13
<1>15. h[0] = RunEval(AB) /\ RunOf(updates) = h[n]
  BY <1>8, <1>10, <1>12
<1> QED BY <1>1, <1>12, <1>14, <1>15


\* There are finitely many stocks to evaluate.
LEMMA ABIsFinite == IsFiniteSet(AB)
<1>1. IsFiniteSet({"a"})
  BY FS_Singleton
<1>2. IsFiniteSet({"a"} \cup {"b"})
  BY <1>1, FS_AddElement
<1> QED BY <1>2 DEF AB

\* Two values that differ from a third are counted apart in a set of two.
LEMMA CountedApart ==
  ASSUME NEW P \in SUBSET AB, NEW F \in SUBSET AB, P \cap F = {}
  PROVE  Cardinality(P) + Cardinality(F) <= Cardinality(AB)
<1>1. IsFiniteSet(AB)
  BY ABIsFinite
<1>2. IsFiniteSet(P) /\ IsFiniteSet(F)
  BY <1>1, FS_Subset
<1>3. P \cup F \in SUBSET AB
  OBVIOUS
<1>4. Cardinality(P \cup F) <= Cardinality(AB)
  BY <1>1, <1>3, FS_Subset
<1>5. Cardinality(P \cup F) = Cardinality(P) + Cardinality(F) - Cardinality({})
  BY <1>2, FS_Union
<1>6. Cardinality({}) = 0
  BY FS_EmptySet
<1>7. Cardinality(P) \in Nat /\ Cardinality(F) \in Nat
  BY <1>2, FS_CardinalityType
<1> QED BY <1>4, <1>5, <1>6, <1>7

(* The items of a run that have a status.                                    *)
With(r, status) == {c \in AB : r.items[c].status = status}

\* An update of an item that was pending counts it once.
LEMMA UpdateCounts ==
  ASSUME NEW r \in AnyRun, NEW u \in AnyUpdate,
         u.code \in AB => r.items[u.code].status = "pending",
         r.passed = Cardinality(With(r, "completed")), r.failed = Cardinality(With(r, "failed"))
  PROVE  LET t == UpdatedBy(r, u) IN
         t.passed = Cardinality(With(t, "completed")) /\ t.failed = Cardinality(With(t, "failed"))
<1> DEFINE t == UpdatedBy(r, u)
<1>1. CASE u.code \notin AB
  <2>1. t = r
    BY <1>1, UpdateOf
  <2> QED BY <2>1
<1>2. CASE u.code \in AB
  <2>1. /\ t.passed = IF u.status = "completed" THEN r.passed + 1 ELSE r.passed
        /\ t.failed = IF u.status = "failed" THEN r.failed + 1 ELSE r.failed
        /\ \A c \in AB : t.items[c].status = IF c = u.code THEN u.status ELSE r.items[c].status
    BY <1>2, UpdateOf
  <2> HIDE DEF t
  <2>2. ASSUME NEW v, v # "pending"
        PROVE  Cardinality(With(t, v)) = IF u.status = v THEN Cardinality(With(r, v)) + 1
                                         ELSE Cardinality(With(r, v))
    <3>1. u.code \notin With(r, v)
      BY <1>2, <2>2 DEF With
    <3>2. With(t, v) = IF u.status = v THEN With(r, v) \cup {u.code} ELSE With(r, v)
      BY <1>2, <2>1, <3>1 DEF With
    <3>3. IsFiniteSet(With(r, v))
      <4>1. IsFiniteSet(AB)
        BY ABIsFinite
      <4>2. With(r, v) \in SUBSET AB
        BY DEF With
      <4> QED BY <4>1, <4>2, FS_Subset
    <3> QED BY <3>1, <3>2, <3>3, FS_AddElement
  <2>3. "completed" # "pending" /\ "failed" # "pending"
    OBVIOUS
  <2> QED BY <2>1, <2>2, <2>3 DEF t
<1> HIDE DEF t
<1> QED BY <1>1, <1>2 DEF t

\* update_item and compare_runs on any updates: what EvalIsCounted says of them.
LEMMA EvalsAreCounted ==
  ASSUME NEW updates \in Seq(AnyUpdate)
  PROVE  EvalIsCounted(updates)
<1> DEFINE once == \A i, j \in DOMAIN updates : i # j => updates[i].code # updates[j].code
<1>1. PICK n \in Nat : n = Len(updates) /\ DOMAIN updates = 1..n /\ \A i \in 1..n : updates[i] \in AnyUpdate
  BY LenProperties
<1>2. PICK h \in [0..n -> AnyRun] : /\ h[0] = RunEval(AB)
                                    /\ \A k \in 1..n : h[k] = UpdatedBy(h[k - 1], updates[k])
                                    /\ RunOf(updates) = h[n]
  BY <1>1, UpdateRun
<1>3. PICK run \in AnyRun : run = RunOf(updates) /\ run = h[n]
  BY <1>2
<1>4. ASSUME once PROVE CountsItems(run) /\ run.passed + run.failed <= run.stock_count
  <2> DEFINE Counted(r) == r.passed = Cardinality(With(r, "completed")) /\ r.failed = Cardinality(With(r, "failed"))
             Waits(k) == \A c \in AB : (\A i \in 1..k : updates[i].code # c) => h[k].items[c].status = "pending"
             D == {k \in 0..n : Counted(h[k]) /\ Waits(k)}
  <2>1. 0 \in D
    <3>1. \A c \in AB : h[0].items[c].status = "pending"
      BY <1>2, NewRun
    <3>2. With(h[0], "completed") = {} /\ With(h[0], "failed") = {}
      BY <3>1 DEF With
    <3>3. h[0].passed = 0 /\ h[0].failed = 0 /\ Cardinality({}) = 0
      BY <1>2, NewRun, FS_EmptySet
    <3>4. Counted(h[0])
      BY <3>2, <3>3
    <3>5. Waits(0)
      BY <3>1
    <3>6. 0 \in 0..n
      OBVIOUS
    <3> HIDE DEF Counted, Waits
    <3> QED BY <3>4, <3>5, <3>6
  <2>2. ASSUME NEW k \in 1..n, k - 1 \in D PROVE k \in D
    <3>1. k - 1 \in 0..n /\ h[k - 1] \in AnyRun /\ updates[k] \in AnyUpdate /\ k \in 0..n
      BY <1>1
    <3>2. PICK r \in AnyRun, u \in AnyUpdate : r = h[k - 1] /\ u = updates[k] /\ h[k] = UpdatedBy(r, u)
      BY <1>2, <3>1
    <3>3. Counted(r) /\ Waits(k - 1)
      BY <2>2, <3>2
    <3>4. u.code \in AB => r.items[u.code].status = "pending"
      <4>1. \A i \in 1..(k - 1) : i \in 1..n /\ i # k
        OBVIOUS
      <4>2. \A i \in 1..(k - 1) : updates[i].code # u.code
        BY <1>1, <1>4, <3>2, <4>1
      <4> QED BY <3>2, <3>3, <4>2
    <3>5. Counted(h[k])
      BY <3>2, <3>3, <3>4, UpdateCounts
    <3>6. Waits(k)
      <4>1. SUFFICES ASSUME NEW c \in AB, \A i \in 1..k : updates[i].code # c
                     PROVE  h[k].items[c].status = "pending"
        OBVIOUS
      <4>2. c # u.code /\ \A i \in 1..(k - 1) : updates[i].code # c
        <5>1. k \in 1..k /\ \A i \in 1..(k - 1) : i \in 1..k
          OBVIOUS
        <5> QED BY <3>2, <4>1, <5>1
      <4>3. r.items[c].status = "pending"
        BY <3>2, <3>3, <4>2
      <4>4. CASE u.code \in AB
        <5>1. UpdatedBy(r, u).items[c].status = IF c = u.code THEN u.status ELSE r.items[c].status
          BY <4>4, UpdateOf
        <5> QED BY <3>2, <4>2, <4>3, <5>1
      <4>5. CASE u.code \notin AB
        <5>1. UpdatedBy(r, u) = r
          BY <4>5, UpdateOf
        <5> QED BY <3>2, <4>3, <5>1
      <4> QED BY <4>4, <4>5
    <3> HIDE DEF Counted, Waits
    <3> QED BY <3>1, <3>5, <3>6
  <2>3. \A k \in 1..n : k - 1 \in D => k \in D
    BY <2>2
  <2> HIDE DEF D
  <2>4. \A k \in 0..n : k \in D
    BY <2>1, <2>3, StepByStep
  <2>5. n \in D
    BY <2>4
  <2>6. Counted(run)
    BY <1>3, <2>5 DEF D
  <2>7. run.items \in [AB -> AnyItem] /\ run.stock_count = Cardinality(AB)
    BY DEF AnyRun
  <2>8. CountsItems(run)
    <3>1. DOMAIN run.items = AB
      BY <2>7
    <3> QED BY <2>6, <3>1 DEF CountsItems, With
  <2>9. With(run, "completed") \in SUBSET AB /\ With(run, "failed") \in SUBSET AB
        /\ With(run, "completed") \cap With(run, "failed") = {}
    BY DEF With
  <2>10. Cardinality(With(run, "completed")) + Cardinality(With(run, "failed")) <= Cardinality(AB)
    BY <2>9, CountedApart
  <2> QED BY <2>6, <2>7, <2>8, <2>10
<1>5. DriftIsSymmetric(RunEval(AB \ {"a"}), run) /\ DriftIsSymmetric(RunEval(AB), run)
  <2> DEFINE i == [status |-> "pending", score |-> None, cost |-> None, conflicts |-> 0, red |-> FALSE]
  <2>1. i \in AnyItem
    BY DEF AnyItem
  <2>2. \A S : RunEval(S).items = [c \in S |-> i]
    BY DEF RunEval
  <2> HIDE DEF i
  <2>3. RunEval(AB).items \in [AB -> AnyItem] /\ RunEval(AB \ {"a"}).items \in [AB \ {"a"} -> AnyItem]
    BY <2>1, <2>2
  <2>4. run.items \in [AB -> AnyItem]
    BY DEF AnyRun
  <2> QED BY <2>3, <2>4, DriftsAreSymmetric
<1> HIDE DEF once
<1> QED BY <1>3, <1>4, <1>5, Zenon DEF EvalIsCounted, RunOf, AB, once


AnyTasks  == Partly(AnyTask)
AnyJobs   == Partly(AnyJob)
AnyAlerts == {A \in SUBSET AnyAlert : IsFiniteSet(A) /\ \A a, b \in A : a.id = b.id => a = b}
AnyChange == [job: STRING, cron: Int \cup {None}, enabled: BOOLEAN \cup {None}]

(* The defaults of the code have expressions that a trigger accepts.         *)
AnyJobOf(V) == [kind: {"job"}, valid: {V}, defaults: Partly(V), jobs: AnyJobs, edit: AnyChange]

AnyRecords ==
  [kind: {"restart"}, rows: AnyTasks, code: Partly(Int), edits: Seq(AnyEdit)]
  \cup (UNION {AnyJobOf(V) : V \in SUBSET Int})
  \cup [kind: {"resolve"}, id: Int, alerts: AnyAlerts, filter: AnyFilter]
  \cup [kind: {"sell"}, s: AnySignals, fails: SUBSET STRING,
        percentile: Int \cup {None}, weight: Int \cup {None}]
  \cup [kind: {"eval"}, updates: Seq(AnyUpdate)]

\* What a partial function is.
LEMMA PartlyOf ==
  ASSUME NEW V, NEW f \in Partly(V)
  PROVE  \E D : f \in [D -> V]
  BY DEF Partly

\* Records that both the program and its users write: for tasks, jobs, edits,
\* alerts, drafts and updates of any number, pauses survive restarts, the edits of
\* jobs stand, the first resolver stays, signals leave one whole draft, and
\* evaluations are counted and compared as they were recorded.
THEOREM RecordsHold ==
  input \in AnyRecords /\ [][Next]_input => []RecordsAreSound
<1>1. input \in AnyRecords => RecordsAreSound
  <2> SUFFICES ASSUME input \in AnyRecords PROVE RecordsAreSound
    OBVIOUS
  <2>a. \A V : \A x \in AnyJobOf(V) : x.kind = "job"
    BY DEF AnyJobOf
  <2>1. ASSUME input.kind = "restart" PROVE RestartKeepsPauses(input.rows, input.code, input.edits)
    <3>1. input.rows \in Partly(AnyTask) /\ input.code \in Partly(Int) /\ input.edits \in Seq(AnyEdit)
      BY <2>a, <2>1 DEF AnyRecords, AnyTasks
    <3>2. PICK R : input.rows \in [R -> AnyTask]
      BY <3>1, PartlyOf
    <3>3. PICK K : input.code \in [K -> Int]
      BY <3>1, PartlyOf
    <3> QED BY <3>1, <3>2, <3>3, RestartsKeepPauses
  <2>2. ASSUME input.kind = "job" PROVE JobEditsStand(input.jobs, input.defaults, input.edit, input.valid)
    <3>1. \E V \in SUBSET Int : input \in AnyJobOf(V)
      BY <2>a, <2>2 DEF AnyRecords
    <3>2. PICK V \in SUBSET Int : /\ input.valid = V /\ input.defaults \in Partly(V)
                                  /\ input.jobs \in Partly(AnyJob) /\ input.edit \in AnyChange
      BY <3>1 DEF AnyJobOf, AnyJobs
    <3>3. PICK J : input.jobs \in [J -> AnyJob]
      BY <3>2, PartlyOf
    <3>4. PICK D : input.defaults \in [D -> V]
      BY <3>2, PartlyOf
    <3>5. PICK d \in [D -> Int] : d = input.defaults /\ \A j \in D : d[j] \in V
      BY <3>4
    <3>6. PICK e : e = input.edit /\ e.cron \in Int \cup {None} /\ e.enabled \in BOOLEAN \cup {None}
      BY <3>2 DEF AnyChange
    <3>7. PICK jobs \in [J -> AnyJob] : jobs = input.jobs
      BY <3>3
    <3>8. JobEditsStand(jobs, d, e, V)
      BY <3>5, <3>6, JobEditsAlwaysStand
    <3> QED BY <3>2, <3>5, <3>6, <3>7, <3>8, Zenon
  <2>3. ASSUME input.kind = "resolve" PROVE FirstResolverStays(input.alerts, input.id, input.filter)
    <3>1. input.alerts \in AnyAlerts
      BY <2>a, <2>3 DEF AnyRecords
    <3>2. PICK A \in SUBSET AnyAlert : A = input.alerts /\ IsFiniteSet(A) /\ \A a, b \in A : a.id = b.id => a = b
      BY <3>1 DEF AnyAlerts
    <3>3. \A id, filter : FirstResolverStays(A, id, filter)
      BY <3>2, FirstResolversStay
    <3> QED BY <3>2, <3>3
  <2>4. ASSUME input.kind = "sell"
        PROVE  /\ BreachIsWhole(input.s, input.fails)
               /\ SignalsLeaveOneSell(input.s, input.percentile, input.weight)
    <3>1. input.s \in AnySignals /\ input.percentile \in Int \cup {None} /\ input.weight \in Int \cup {None}
      BY <2>a, <2>4 DEF AnyRecords
    <3> QED BY <3>1, BreachesAreWhole, SignalsAlwaysLeaveOneSell
  <2>5. ASSUME input.kind = "eval" PROVE EvalIsCounted(input.updates)
    <3>1. input.updates \in Seq(AnyUpdate)
      BY <2>a, <2>5 DEF AnyRecords
    <3> QED BY <3>1, EvalsAreCounted
  <2> QED BY <2>1, <2>2, <2>3, <2>4, <2>5 DEF RecordsAreSound
<1>2. input \in AnyRecords /\ [Next]_input => (input \in AnyRecords)'
  BY DEF Next
<1> QED BY <1>1, <1>2, PTL


-----------------------------------------------------------------------------
(* The invariants of the run.                                                *)

\* Rows that a bootstrap, a start, a job and a user all write, for tables and
\* histories of any size.
THEOREM RowsHold ==
  (input \in AnyUniverse \/ input \in AnyRecords) /\ [][Next]_input => []RowsAreSound
<1> DEFINE a == {"universe", "segment", "dividend", "index"}
           b == {"restart", "job", "resolve", "sell", "eval"}
<1>1. input \in AnyUniverse => input.kind \in a
  BY DEF AnyUniverse, AnyRowsOf, AnyAnswersOf, AnyClosesOf
<1>2. input \in AnyRecords => input.kind \in b
  BY DEF AnyRecords, AnyJobOf
<1>3. input.kind \in a => RecordsAreSound
  BY DEF RecordsAreSound
<1>4. input.kind \in b => UniverseIsSound
  BY DEF UniverseIsSound
<1>5. input.kind \in a /\ [Next]_input => (input.kind \in a)'
  BY DEF Next
<1>6. input.kind \in b /\ [Next]_input => (input.kind \in b)'
  BY DEF Next
<1>7. RowsAreSound <=> UniverseIsSound /\ RecordsAreSound
  BY DEF RowsAreSound
<1> HIDE DEF a, b
<1> QED BY UniverseHolds, RecordsHold, <1>1, <1>2, <1>3, <1>4, <1>5, <1>6, <1>7, PTL

\* What users read of the rows and what the program measures of itself, for
\* tables, portfolios and histories of any size.
THEOREM ReadingsHold ==
  (input \in AnyReads \/ input \in AnyMeters) /\ [][Next]_input => []ReadingsAreSound
<1> DEFINE a == {"create", "edit", "view", "cleanup", "yield"}
           b == {"freshness", "failure", "quote", "pace", "log", "call"}
<1>1. input \in AnyReads => input.kind \in a
  <2>1. /\ \A S : \A x \in AnyNamesOf(S) : x.kind = "create"
        /\ \A S : \A x \in AnyEditOf(S) : x.kind = "edit"
        /\ \A S : \A x \in AnyViewOf(S) : x.kind = "view"
    BY DEF AnyNamesOf, AnyEditOf, AnyViewOf
  <2> QED BY <2>1 DEF AnyReads
<1>2. input \in AnyMeters => input.kind \in b
  BY DEF AnyMeters, AnyQuoteOf, AnyPaceAt
<1>3. input.kind \in a => MetersAreSound
  BY DEF MetersAreSound
<1>4. input.kind \in b => ReadsAreSound
  BY DEF ReadsAreSound
<1>5. input.kind \in a /\ [Next]_input => (input.kind \in a)'
  BY DEF Next
<1>6. input.kind \in b /\ [Next]_input => (input.kind \in b)'
  BY DEF Next
<1>7. ReadingsAreSound <=> ReadsAreSound /\ MetersAreSound
  BY DEF ReadingsAreSound
<1> HIDE DEF a, b
<1> QED BY ReadsHold, MetersHold, <1>1, <1>2, <1>3, <1>4, <1>5, <1>6, <1>7, PTL
=============================================================================
