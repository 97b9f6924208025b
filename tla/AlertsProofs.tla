---------------------------- MODULE AlertsProofs ----------------------------
(***************************************************************************)
(* What holds of the alert rules for any number of rules, evaluations,     *)
(* events, reports and restarts.                                           *)
(*                                                                         *)
(* Every evaluation goes up the numbers of the rules: what it has locked   *)
(* is below what it has marked since, and that is below what it has still  *)
(* to look at.  And a mark is never before the start of its process, which *)
(* is what every statement carries as its created_at: once an event about  *)
(* a statement is committed, last_evaluated_at is not before its created_at *)
(* again, whichever evaluation writes it.                                   *)
(***************************************************************************)
EXTENDS Alerts, FiniteSetTheorems, WellFoundedInduction, SequenceTheorems, TLAPS

EvalField == {"running", "todo", "event", "new", "marks", "held", "seen"}
EventField == {"id", "rule", "about", "fired_at", "acked", "again", "early"}
IsEval(e) == e = [f \in EvalField |-> e[f]]
IsEvent(v) == v = [f \in EventField |-> v[f]] /\ v.rule \in RuleIds
IsRule(n) ==
  /\ n = [f \in {"row", "on", "last"} |-> n[f]]
  /\ n.row \in {"none", "live", "deleted"} /\ n.last \in 0..Never
Stub == [rule : RuleIds, last : 0..Never]
Reporting(r) == TypeOf[r] = "financial_report_released"

Shape ==
  /\ clock \in 0..MaxClock /\ boot \in 0..clock
  /\ rules = [r \in RuleIds |-> rules[r]] /\ \A r \in RuleIds : IsRule(rules[r])
  /\ evals = [c \in Clients |-> evals[c]]
  /\ \A c \in Clients : /\ IsEval(evals[c]) /\ evals[c].todo \in Seq(Stub)
                        /\ evals[c].marks \in [RuleIds -> 0..Never]

(* An evaluation goes up the numbers of the rules. *)
Ascends(e) ==
  /\ \A i, j \in DOMAIN e.todo : i < j => e.todo[i].rule < e.todo[j].rule
  /\ \A r \in Marked(e), i \in DOMAIN e.todo : r < e.todo[i].rule
  /\ e.held \subseteq Marked(e)
  /\ \A r \in e.held, q \in Marked(e) \ e.held : r < q
  /\ \A v \in e.event : e.todo # <<>> /\ v.rule = Head(e.todo).rule

(* Statements are numbered, and created when a process was started. *)
ReportInv ==
  /\ IsFiniteSet(reports)
  /\ \A s \in reports : s.report_date \in 1..Cardinality(reports) /\ s.created_at \in 0..boot
  /\ \A r \in RuleIds : rules[r].row = "none" => rules[r].last = Never

(* The statement an event is about is not younger than the last evaluation. *)
Known(r, about, last) ==
  Reporting(r) =>
    /\ last # Never /\ about \in 1..Cardinality(reports)
    /\ \A s \in reports : s.report_date = about => s.created_at <= last

EventInv ==
  \A v \in events : /\ IsEvent(v) /\ Known(v.rule, v.about, rules[v.rule].last)
                    /\ ~v.early /\ (Reporting(v.rule) => ~v.again)

(* What an evaluation looks at, has marked, saw when it began and has raised. *)
TodoOK(e) == \A i \in DOMAIN e.todo : rules[e.todo[i].rule].row # "none"

MarksOK(e) == \A r \in Marked(e) : rules[r].row # "none" /\ e.marks[r] >= boot

SeenOK(e) ==
  \A t \in e.seen :
    /\ t[1] \in RuleIds
    /\ \A i \in DOMAIN e.todo : e.todo[i].rule = t[1] => Known(t[1], t[2], e.todo[i].last)
    /\ rules[t[1]].row = "deleted" \/ \E v \in events : Trace(v) = t

RaisedOK(e) ==
  /\ \A v \in e.event \cup e.new :
       /\ IsEvent(v)
       /\ Reporting(v.rule) => ~v.again /\ v.about \in 1..Cardinality(reports)
  /\ \A v \in e.event : v.early => rules[v.rule].row = "deleted"
  /\ \A v \in e.new : ~v.early /\ v.rule \in Marked(e)

EvalOK(e) == Ascends(e) /\ TodoOK(e) /\ MarksOK(e) /\ SeenOK(e) /\ RaisedOK(e)

AlertsInv ==
  /\ Shape /\ ReportInv /\ EventInv
  /\ \A c \in Clients : EvalOK(evals[c])

-----------------------------------------------------------------------------
(* Helpers.                                                                 *)

(* A non-empty finite set of numbers has a greatest one. *)
LEMMA GreatestOf ==
  ASSUME NEW D, D \subseteq Nat, IsFiniteSet(D), D # {}
  PROVE  \E m \in D : \A d \in D : m >= d
<1> DEFINE After(m) == {d \in D : d > m}
           Family == {After(m) : m \in D}
<1>1. Family \subseteq FiniteSubsetsOf(D) /\ Family # {}
  <2>1. \A m \in D : After(m) \subseteq D
    OBVIOUS
  <2>2. \A m \in D : IsFiniteSet(After(m))
    BY <2>1, FS_Subset
  <2> QED BY <2>1, <2>2 DEF FiniteSubsetsOf
<1>2. PICK U \in Family : \A V \in Family : <<V, U>> \notin StrictSubsetOrdering(D)
  BY <1>1, FS_StrictSubsetOrderingWellFounded, WFMin
<1>3. PICK m \in D : U = After(m)
  BY <1>2
<1>4. ASSUME NEW d \in D, d > m PROVE FALSE
  <2>1. d \in After(m) /\ d \notin After(d) /\ d \in Nat /\ m \in Nat
    BY <1>4
  <2>2. After(d) \subseteq After(m)
    <3>1. \A x \in D : x > d => x > m
      BY <1>4, <2>1
    <3> QED BY <3>1
  <2>3. After(d) \in Family /\ After(d) \subseteq D /\ After(m) \subseteq D
    OBVIOUS
  <2> QED BY <1>2, <1>3, <2>1, <2>2, <2>3 DEF StrictSubsetOrdering
<1>5. \A d \in D : m >= d
  BY <1>4
<1> HIDE DEF Family
<1> QED BY <1>5

Enumerates(order, S) ==
  /\ order \in [1..Cardinality(S) -> S]
  /\ \A i, j \in DOMAIN order : i < j => order[i] < order[j]

(* A finite set of numbers can be listed in order: otherwise take a smallest *)
(* one that cannot, and list it without its greatest number.                 *)
LEMMA Listable ==
  ASSUME NEW S, S \subseteq Nat, IsFiniteSet(S)
  PROVE  \E order : Enumerates(order, S)
<1> DEFINE Bad == {T \in FiniteSubsetsOf(S) : \A order : ~Enumerates(order, T)}
<1>1. SUFFICES ASSUME Bad # {} PROVE FALSE
  BY DEF FiniteSubsetsOf
<1>2. PICK T \in Bad : \A V \in Bad : <<V, T>> \notin StrictSubsetOrdering(S)
  <2>1. Bad \subseteq FiniteSubsetsOf(S)
    OBVIOUS
  <2> QED BY <1>1, <2>1, FS_StrictSubsetOrderingWellFounded, WFMin
<1>3. T \subseteq Nat /\ T \subseteq S /\ IsFiniteSet(T) /\ \A order : ~Enumerates(order, T)
  BY <1>2 DEF FiniteSubsetsOf
<1>4. T # {}
  <2>1. SUFFICES ASSUME T = {} PROVE FALSE
    OBVIOUS
  <2>2. Cardinality(T) = 0
    BY <2>1, FS_EmptySet
  <2>3. Enumerates([i \in 1..Cardinality(T) |-> 0], T)
    BY <2>2 DEF Enumerates
  <2> QED BY <1>3, <2>3
<1>5. PICK m \in T : \A d \in T : m >= d
  BY <1>3, <1>4, GreatestOf
<1> DEFINE R == T \ {m}
           n == Cardinality(R)
<1>6. IsFiniteSet(R) /\ n \in Nat /\ Cardinality(T) = n + 1
  <2>1. IsFiniteSet(R) /\ n = Cardinality(T) - 1
    BY <1>3, FS_RemoveElement
  <2>2. n \in Nat /\ Cardinality(T) \in Nat
    BY <1>3, <2>1, FS_CardinalityType
  <2> QED BY <2>1, <2>2
<1>7. PICK order : Enumerates(order, R)
  <2>1. R \in FiniteSubsetsOf(S) /\ R \subseteq T /\ m \in T /\ m \notin R
    BY <1>3, <1>6 DEF FiniteSubsetsOf
  <2>2. R \notin Bad
    BY <1>2, <1>3, <2>1 DEF StrictSubsetOrdering
  <2> QED BY <2>1, <2>2
<1> DEFINE more == [i \in 1..(n + 1) |-> IF i <= n THEN order[i] ELSE m]
<1>8. order \in [1..n -> R] /\ \A i, j \in 1..n : i < j => order[i] < order[j]
  BY <1>7 DEF Enumerates
<1> HIDE DEF n
<1>9. more \in [1..(n + 1) -> T]
  BY <1>5, <1>6, <1>8
<1>10. \A d \in R : d < m
  BY <1>3, <1>5
<1>11. ASSUME NEW i \in 1..(n + 1), NEW j \in 1..(n + 1), i < j PROVE more[i] < more[j]
  <2>1. CASE j <= n
    BY <1>6, <1>8, <1>11, <2>1
  <2>2. CASE ~(j <= n)
    <3>1. i <= n /\ order[i] \in R
      BY <1>6, <1>8, <1>11, <2>2
    <3>2. more[i] = order[i] /\ more[j] = m
      BY <2>2, <3>1
    <3> QED BY <1>10, <3>1, <3>2
  <2> QED BY <2>1, <2>2
<1>12. Enumerates(more, T)
  BY <1>6, <1>9, <1>11 DEF Enumerates
<1> QED BY <1>3, <1>12

(* list_rules returns the enabled rules in the order of their numbers. *)
LEMMA RulesInOrder ==
  /\ Cardinality(EnabledRules) \in Nat
  /\ ListRules \in [1..Cardinality(EnabledRules) -> EnabledRules]
  /\ \A i, j \in DOMAIN ListRules : i < j => ListRules[i] < ListRules[j]
<1>1. EnabledRules \subseteq Nat /\ EnabledRules \subseteq RuleIds /\ IsFiniteSet(RuleIds)
  BY AlertsAssumption DEF EnabledRules
<1>2. IsFiniteSet(EnabledRules)
  BY <1>1, FS_Subset
<1>3. Cardinality(EnabledRules) \in Nat
  BY <1>2, FS_CardinalityType
<1>4. \E order : Enumerates(order, EnabledRules)
  BY <1>1, <1>2, Listable
<1> QED BY <1>3, <1>4 DEF ListRules, Enumerates

(* A sequence that is not empty, without its head. *)
LEMMA Rest ==
  ASSUME NEW T, NEW s \in Seq(T), s # <<>>
  PROVE  /\ Tail(s) \in Seq(T) /\ Head(s) \in T /\ Head(s) = s[1] /\ 1 \in DOMAIN s
         /\ \A i \in DOMAIN Tail(s) : /\ i \in Nat /\ i + 1 \in DOMAIN s
                                      /\ Tail(s)[i] = s[i + 1] /\ i >= 1
  OBVIOUS

(* One record of a table of records is replaced. *)
LEMMA EvalTurn ==
  ASSUME Shape, NEW c \in Clients, NEW n, IsEval(n), evals' = [evals EXCEPT ![c] = n]
  PROVE  /\ evals'[c] = n /\ \A d \in Clients : d # c => evals'[d] = evals[d]
         /\ evals' = [d \in Clients |-> evals'[d]] /\ \A d \in Clients : IsEval(evals'[d])
  BY DEF Shape

LEMMA RuleTurn ==
  ASSUME Shape, NEW r \in RuleIds, NEW n, IsRule(n), rules' = [rules EXCEPT ![r] = n]
  PROVE  /\ rules'[r] = n /\ \A q \in RuleIds : q # r => rules'[q] = rules[q]
         /\ rules' = [q \in RuleIds |-> rules'[q]] /\ \A q \in RuleIds : IsRule(rules'[q])
  BY DEF Shape

LEMMA IdleEval ==
  /\ IsEval(Idle) /\ Idle.todo = <<>> /\ Idle.event = {} /\ Idle.new = {}
  /\ Idle.held = {} /\ Idle.seen = {} /\ Idle.marks \in [RuleIds -> 0..Never]
  /\ Idle.todo \in Seq(Stub) /\ Marked(Idle) = {}
  BY AlertsAssumption DEF Idle, IsEval, EvalField, Marked, Never

LEMMA IdleOK ==
  ASSUME NEW c \in Clients, evals'[c] = Idle
  PROVE  EvalOK(evals[c])' /\ evals'[c].todo \in Seq(Stub) /\ evals'[c].marks \in [RuleIds -> 0..Never]
<1>1. \A i \in DOMAIN Idle.todo : FALSE
  BY IdleEval
<1>2. Marked(evals[c])' = {}
  BY IdleEval DEF Marked
<1>3. Ascends(evals[c])'
  BY <1>1, <1>2, IdleEval DEF Ascends
<1>4. TodoOK(evals[c])' /\ MarksOK(evals[c])' /\ SeenOK(evals[c])' /\ RaisedOK(evals[c])'
  BY <1>1, <1>2, IdleEval DEF TodoOK, MarksOK, SeenOK, RaisedOK
<1> QED BY <1>3, <1>4, IdleEval DEF EvalOK

(* A step of one evaluation that changes nothing else. *)
LEMMA OneTurn ==
  ASSUME AlertsInv, NEW c \in Clients, NEW n, IsEval(n), evals' = [evals EXCEPT ![c] = n],
         n.todo \in Seq(Stub), n.marks \in [RuleIds -> 0..Never],
         UNCHANGED <<clock, boot, rules, events, reports>>, EvalOK(evals[c])'
  PROVE  AlertsInv'
<1>1. /\ evals'[c] = n /\ \A d \in Clients : d # c => evals'[d] = evals[d]
      /\ evals' = [d \in Clients |-> evals'[d]] /\ \A d \in Clients : IsEval(evals'[d])
  BY EvalTurn DEF AlertsInv
<1>2. Shape'
  BY <1>1 DEF Shape, AlertsInv
<1>3. ReportInv' /\ EventInv'
  BY DEF ReportInv, EventInv, Known, AlertsInv
<1>4. \A d \in Clients : EvalOK(evals[d])'
  <2>1. SUFFICES ASSUME NEW d \in Clients, d # c PROVE EvalOK(evals[d])'
    OBVIOUS
  <2>2. EvalOK(evals[d]) /\ evals'[d] = evals[d]
    BY <1>1, <2>1 DEF AlertsInv
  <2> QED BY <2>2 DEF EvalOK, Ascends, TodoOK, MarksOK, SeenOK, RaisedOK, Marked, Known
<1> QED BY <1>2, <1>3, <1>4 DEF AlertsInv

-----------------------------------------------------------------------------
(* Every step keeps the invariant.                                          *)

LEMMA InitAlerts == Init => AlertsInv
<1> SUFFICES ASSUME Init PROVE AlertsInv
  OBVIOUS
<1>1. IsRule(NoRule) /\ NoRule.row = "none" /\ NoRule.last = Never
  BY AlertsAssumption DEF IsRule, NoRule, Never
<1>2. Shape
  <2>1. clock \in 0..MaxClock /\ boot \in 0..clock
    BY AlertsAssumption DEF Init
  <2>2. rules = [r \in RuleIds |-> rules[r]] /\ \A r \in RuleIds : rules[r] = NoRule
    BY DEF Init
  <2>3. evals = [c \in Clients |-> evals[c]] /\ \A c \in Clients : evals[c] = Idle
    BY DEF Init
  <2> QED BY <1>1, <2>1, <2>2, <2>3, IdleEval DEF Shape
<1>3. ReportInv /\ EventInv
  BY <1>1, FS_EmptySet DEF Init, ReportInv, EventInv
<1>4. ASSUME NEW c \in Clients PROVE EvalOK(evals[c])
  <2>1. evals[c] = Idle /\ \A i \in DOMAIN Idle.todo : FALSE
    BY IdleEval DEF Init
  <2>2. Ascends(Idle)
    BY <2>1, IdleEval DEF Ascends
  <2>3. TodoOK(Idle) /\ MarksOK(Idle) /\ SeenOK(Idle) /\ RaisedOK(Idle)
    BY <2>1, IdleEval DEF TodoOK, MarksOK, SeenOK, RaisedOK
  <2> QED BY <2>1, <2>2, <2>3 DEF EvalOK
<1> QED BY <1>2, <1>3, <1>4 DEF AlertsInv

LEMMA BeginKeeps ==
  ASSUME AlertsInv, NEW c \in Clients, Begin(c)
  PROVE  AlertsInv'
<1> DEFINE list == [i \in DOMAIN ListRules |->
                      [rule |-> ListRules[i], last |-> rules[ListRules[i]].last]]
           n == [Idle EXCEPT !.running = TRUE, !.seen = {Trace(v) : v \in events}, !.todo = list]
<1>1. evals' = [evals EXCEPT ![c] = n] /\ UNCHANGED <<clock, boot, rules, events, reports>>
  BY DEF Begin
<1>2. /\ IsEval(n) /\ n.todo = list /\ n.seen = {Trace(v) : v \in events}
      /\ n.event = {} /\ n.new = {} /\ n.held = {} /\ n.marks = Idle.marks
  BY DEF Idle, IsEval, EvalField
<1>3. /\ Cardinality(EnabledRules) \in Nat /\ DOMAIN list = 1..Cardinality(EnabledRules)
      /\ \A i \in DOMAIN list : ListRules[i] \in EnabledRules /\ ListRules[i] \in RuleIds
      /\ \A i, j \in DOMAIN list : i < j => ListRules[i] < ListRules[j]
  BY RulesInOrder DEF EnabledRules
<1>4. \A i \in DOMAIN list : /\ list[i] \in Stub /\ list[i].rule = ListRules[i]
                             /\ list[i].last = rules[ListRules[i]].last
  BY <1>3 DEF Stub, AlertsInv, Shape, IsRule
<1>5. list \in Seq(Stub)
  <2>1. list \in [1..Cardinality(EnabledRules) -> Stub]
    BY <1>3, <1>4
  <2> HIDE DEF list
  <2> QED BY <1>3, <2>1, SeqDef
<1> HIDE DEF list, n
<1>6. evals'[c] = n
  BY <1>1, <1>2, EvalTurn DEF AlertsInv
<1>7. Marked(evals[c])' = {} /\ n.marks \in [RuleIds -> 0..Never]
  BY <1>2, <1>6, IdleEval DEF Marked
<1>8. Ascends(evals[c])'
  BY <1>2, <1>3, <1>4, <1>6, <1>7 DEF Ascends
<1>9. TodoOK(evals[c])' /\ MarksOK(evals[c])' /\ RaisedOK(evals[c])'
  <2>1. \A r \in EnabledRules : rules[r].row = "live"
    BY DEF EnabledRules, Live
  <2>2. TodoOK(evals[c])'
    BY <1>1, <1>2, <1>3, <1>4, <1>6, <2>1 DEF TodoOK
  <2> QED BY <1>2, <1>6, <1>7, <2>2 DEF MarksOK, RaisedOK
<1>10. SeenOK(evals[c])'
  <2>1. SUFFICES ASSUME NEW v \in events
                 PROVE  LET t == Trace(v) IN
                        /\ t[1] \in RuleIds
                        /\ \A i \in DOMAIN list : list[i].rule = t[1] =>
                              Known(t[1], t[2], list[i].last)
    BY <1>1, <1>2, <1>6 DEF SeenOK, Known
  <2>2. Trace(v)[1] = v.rule /\ Trace(v)[2] = v.about
    BY DEF Trace
  <2>3. v.rule \in RuleIds /\ Known(v.rule, v.about, rules[v.rule].last)
    BY DEF AlertsInv, EventInv, IsEvent
  <2> QED BY <1>4, <2>2, <2>3
<1> QED BY <1>1, <1>2, <1>5, <1>7, <1>8, <1>9, <1>10, OneTurn DEF EvalOK

(* The head rule is marked and left behind. *)
LEMMA HeadPassed ==
  ASSUME AlertsInv, NEW c \in Clients, evals[c].todo # <<>>, NEW r, r = Head(evals[c].todo).rule,
         evals'[c].todo = Tail(evals[c].todo), evals'[c].marks = [evals[c].marks EXCEPT ![r] = clock],
         evals'[c].seen = evals[c].seen, UNCHANGED <<boot, rules, events, reports>>
  PROVE  /\ evals'[c].todo \in Seq(Stub) /\ evals'[c].marks \in [RuleIds -> 0..Never]
         /\ r \in RuleIds /\ Marked(evals[c])' = Marked(evals[c]) \cup {r}
         /\ \A q \in Marked(evals[c]) : q < r
         /\ \A i, j \in DOMAIN evals'[c].todo : i < j => evals'[c].todo[i].rule < evals'[c].todo[j].rule
         /\ \A q \in Marked(evals[c])', i \in DOMAIN evals'[c].todo : q < evals'[c].todo[i].rule
         /\ TodoOK(evals[c])' /\ MarksOK(evals[c])' /\ SeenOK(evals[c])'
<1> DEFINE todo == evals[c].todo
<1>1. /\ Shape /\ todo \in Seq(Stub) /\ evals[c].marks \in [RuleIds -> 0..Never]
      /\ EvalOK(evals[c])
  BY DEF AlertsInv, Shape
<1>2. /\ Tail(todo) \in Seq(Stub) /\ Head(todo) \in Stub /\ Head(todo) = todo[1] /\ 1 \in DOMAIN todo
      /\ \A i \in DOMAIN Tail(todo) : /\ i \in Nat /\ i + 1 \in DOMAIN todo
                                      /\ Tail(todo)[i] = todo[i + 1] /\ i >= 1
  BY <1>1, Rest
<1>3. clock \in 0..Never /\ clock # Never /\ boot <= clock
  BY <1>1, AlertsAssumption DEF Shape, Never
<1>4. r \in RuleIds
  BY <1>2 DEF Stub
<1>5. evals'[c].marks \in [RuleIds -> 0..Never] /\ evals'[c].marks[r] = clock
      /\ \A q \in RuleIds : q # r => evals'[c].marks[q] = evals[c].marks[q]
  BY <1>1, <1>3, <1>4
<1>6. Marked(evals[c])' = Marked(evals[c]) \cup {r}
  BY <1>3, <1>4, <1>5 DEF Marked, Never
<1>7. \A q \in Marked(evals[c]) : q < r
  BY <1>1, <1>2 DEF EvalOK, Ascends
<1>8. \A i, j \in DOMAIN Tail(todo) : i < j => Tail(todo)[i].rule < Tail(todo)[j].rule
  <2>1. SUFFICES ASSUME NEW i \in DOMAIN Tail(todo), NEW j \in DOMAIN Tail(todo), i < j
                 PROVE  Tail(todo)[i].rule < Tail(todo)[j].rule
    OBVIOUS
  <2>2. i + 1 < j + 1 /\ i + 1 \in DOMAIN todo /\ j + 1 \in DOMAIN todo
    BY <1>2, <2>1
  <2> QED BY <1>1, <1>2, <2>2 DEF EvalOK, Ascends
<1>9. ASSUME NEW q \in Marked(evals[c]) \cup {r}, NEW i \in DOMAIN Tail(todo)
      PROVE  q < Tail(todo)[i].rule
  <2>1. i + 1 \in DOMAIN todo /\ 1 < i + 1 /\ Tail(todo)[i] = todo[i + 1]
    BY <1>2
  <2>2. r < todo[i + 1].rule
    BY <1>1, <1>2, <2>1 DEF EvalOK, Ascends
  <2>3. q \in Marked(evals[c]) => q < todo[i + 1].rule
    BY <1>1, <2>1 DEF EvalOK, Ascends
  <2> QED BY <2>1, <2>2, <2>3
<1>10. TodoOK(evals[c])'
  BY <1>1, <1>2 DEF EvalOK, TodoOK
<1>11. MarksOK(evals[c])'
  <2>1. rules[r].row # "none"
    BY <1>1, <1>2 DEF EvalOK, TodoOK
  <2>2. ASSUME NEW q \in Marked(evals[c])' PROVE rules[q].row # "none" /\ evals'[c].marks[q] >= boot
    <3>1. CASE q = r
      BY <1>3, <1>5, <2>1, <3>1
    <3>2. CASE q # r
      <4>1. q \in Marked(evals[c]) /\ q \in RuleIds
        BY <1>6, <3>2 DEF Marked
      <4> QED BY <1>1, <1>5, <3>2, <4>1 DEF EvalOK, MarksOK
    <3> QED BY <3>1, <3>2
  <2> QED BY <2>2 DEF MarksOK
<1>12. SeenOK(evals[c])'
  <2>1. SUFFICES ASSUME NEW t \in evals[c].seen
                 PROVE  /\ t[1] \in RuleIds
                        /\ \A i \in DOMAIN Tail(todo) : Tail(todo)[i].rule = t[1] =>
                              Known(t[1], t[2], Tail(todo)[i].last)
                        /\ rules[t[1]].row = "deleted" \/ \E v \in events : Trace(v) = t
    BY DEF SeenOK, Known
  <2>2. /\ t[1] \in RuleIds
        /\ \A i \in DOMAIN todo : todo[i].rule = t[1] => Known(t[1], t[2], todo[i].last)
        /\ rules[t[1]].row = "deleted" \/ \E v \in events : Trace(v) = t
    BY <1>1 DEF EvalOK, SeenOK
  <2> QED BY <1>2, <2>2
<1> QED BY <1>2, <1>4, <1>5, <1>6, <1>7, <1>8, <1>9, <1>10, <1>11, <1>12

LEMMA PassKeeps ==
  ASSUME AlertsInv, NEW c \in Clients, Pass(c)
  PROVE  AlertsInv'
<1> DEFINE e == evals[c]
           r == Head(e.todo).rule
           n == [e EXCEPT !.todo = Tail(@), !.marks[r] = clock]
<1>1. /\ e.todo # <<>> /\ e.event = {} /\ IsEval(e) /\ EvalOK(e)
      /\ evals' = [evals EXCEPT ![c] = n] /\ UNCHANGED <<clock, boot, rules, events, reports>>
  BY DEF Pass, AlertsInv, Shape
<1>2. /\ IsEval(n) /\ n.todo = Tail(e.todo) /\ n.marks = [e.marks EXCEPT ![r] = clock]
      /\ n.seen = e.seen /\ n.event = {} /\ n.new = e.new /\ n.held = e.held
  BY <1>1 DEF IsEval, EvalField
<1> HIDE DEF n
<1>3. evals'[c] = n
  BY <1>1, <1>2, EvalTurn DEF AlertsInv
<1> HIDE DEF r
<1>4. /\ n.todo \in Seq(Stub) /\ n.marks \in [RuleIds -> 0..Never]
      /\ r \in RuleIds /\ Marked(evals[c])' = Marked(e) \cup {r} /\ \A q \in Marked(e) : q < r
      /\ \A i, j \in DOMAIN n.todo : i < j => n.todo[i].rule < n.todo[j].rule
      /\ \A q \in Marked(evals[c])', i \in DOMAIN n.todo : q < n.todo[i].rule
      /\ TodoOK(evals[c])' /\ MarksOK(evals[c])' /\ SeenOK(evals[c])'
  BY <1>1, <1>2, <1>3, HeadPassed DEF r
<1>5. Ascends(evals[c])'
  <2>1. e.held \subseteq Marked(e) /\ \A p \in e.held, q \in Marked(e) \ e.held : p < q
    BY <1>1 DEF EvalOK, Ascends
  <2>2. \A p \in e.held, q \in (Marked(e) \cup {r}) \ e.held : p < q
    BY <1>4, <2>1
  <2> QED BY <1>2, <1>3, <1>4, <2>1, <2>2 DEF Ascends
<1>6. RaisedOK(evals[c])'
  BY <1>1, <1>2, <1>3, <1>4 DEF EvalOK, RaisedOK
<1> QED BY <1>1, <1>2, <1>4, <1>5, <1>6, OneTurn DEF EvalOK

(* A second event about a report would need a report newer than the last     *)
(* evaluation; one while the first is young would be deduplicated, unless    *)
(* the rule and its events are gone.                                         *)
LEMMA RaiseKeeps ==
  ASSUME AlertsInv, NEW c \in Clients, Raise(c)
  PROVE  AlertsInv'
<1> DEFINE e == evals[c]
           r == Head(e.todo).rule
           last == Head(e.todo).last
<1>1. /\ e.todo # <<>> /\ e.event = {} /\ IsEval(e) /\ EvalOK(e) /\ e.todo \in Seq(Stub)
      /\ e.marks \in [RuleIds -> 0..Never] /\ Shape /\ ReportInv
      /\ ~ShouldDedupe(r, e.new) /\ UNCHANGED <<clock, boot, rules, events, reports>>
  BY DEF Raise, AlertsInv, Shape
<1>2. PICK what \in Found(r, last) :
        evals' = [evals EXCEPT ![c].event =
              {[id |-> Min(FreeIds), rule |-> r, about |-> what, fired_at |-> boot,
                acked |-> FALSE,
                again |-> \E t \in e.seen : t[1] = r /\ t[2] = what,
                early |-> /\ \E t \in e.seen : t[1] = r /\ t[3] = boot
                          /\ clock <= boot + DedupeHours]}]
  BY DEF Raise
<1> DEFINE again == \E t \in e.seen : t[1] = r /\ t[2] = what
           early == /\ \E t \in e.seen : t[1] = r /\ t[3] = boot
                    /\ clock <= boot + DedupeHours
           v == [id |-> Min(FreeIds), rule |-> r, about |-> what, fired_at |-> boot,
                 acked |-> FALSE, again |-> again, early |-> early]
           n == [e EXCEPT !.event = {v}]
<1>3. evals' = [evals EXCEPT ![c] = n]
  BY <1>2
<1>4. /\ IsEval(n) /\ n.todo = e.todo /\ n.marks = e.marks /\ n.seen = e.seen
      /\ n.event = {v} /\ n.new = e.new /\ n.held = e.held
  BY <1>1 DEF IsEval, EvalField
<1>5. Head(e.todo) \in Stub /\ Head(e.todo) = e.todo[1] /\ 1 \in DOMAIN e.todo /\ r \in RuleIds
  <2>1. Head(e.todo) \in Stub /\ Head(e.todo) = e.todo[1] /\ 1 \in DOMAIN e.todo
    BY <1>1, Rest
  <2> QED BY <2>1 DEF Stub
<1>6. IsEvent(v) /\ v.rule = r /\ v.about = what /\ (v.again <=> again) /\ (v.early <=> early)
  BY <1>5 DEF IsEvent, EventField
<1> HIDE DEF n, v
<1>7. evals'[c] = n
  BY <1>1, <1>3, <1>4, EvalTurn
<1>8. Ascends(evals[c])'
  BY <1>1, <1>4, <1>6, <1>7 DEF EvalOK, Ascends, Marked
<1>9. TodoOK(evals[c])' /\ MarksOK(evals[c])' /\ SeenOK(evals[c])'
  BY <1>1, <1>4, <1>7 DEF EvalOK, TodoOK, MarksOK, SeenOK, Marked, Known
<1>10. ASSUME Reporting(r) PROVE ~again /\ what \in 1..Cardinality(reports)
  <2> DEFINE rows == {s \in reports : last = Never \/ s.created_at > last}
             dates == {s.report_date : s \in rows}
  <2>1. Found(r, last) = IF rows = {} THEN {} ELSE {Max(dates)}
    BY <1>10 DEF Found, Released, Reporting
  <2>2. rows # {} /\ what = Max(dates)
    BY <2>1
  <2>3. dates \subseteq 1..Cardinality(reports) /\ Cardinality(reports) \in Nat /\ dates # {}
    BY <1>1, <2>2, FS_CardinalityType DEF ReportInv
  <2>4. Max(dates) \in dates
    <3>0. IsFiniteSet(1..Cardinality(reports))
      BY <2>3, FS_Interval
    <3>1. IsFiniteSet(dates)
      BY <2>3, <3>0, FS_Subset
    <3>2. dates \subseteq Nat
      BY <2>3
    <3>3. \E m \in dates : \A d \in dates : m >= d
      BY <2>3, <3>1, <3>2, GreatestOf
    <3> QED BY <3>3 DEF Max
  <2>5. PICK s \in rows : s.report_date = what
    BY <2>2, <2>4
  <2>6. ASSUME NEW t \in e.seen, t[1] = r, t[2] = what PROVE FALSE
    <3>1. Known(r, what, last)
      BY <1>1, <1>5, <2>6 DEF EvalOK, SeenOK
    <3>2. last # Never /\ s.created_at <= last /\ s.created_at > last
      BY <1>10, <2>5, <3>1 DEF Known
    <3>3. s.created_at \in Nat /\ last \in Nat
      BY <1>1, <1>5, <2>5, AlertsAssumption DEF ReportInv, Stub, Never, Shape
    <3> QED BY <3>2, <3>3
  <2> QED BY <2>2, <2>3, <2>4, <2>6
<1>11. ASSUME early PROVE rules[r].row = "deleted"
  <2>1. PICK t \in e.seen : t[1] = r /\ t[3] = boot
    BY <1>11
  <2>2. ASSUME NEW u \in events, Trace(u) = t PROVE FALSE
    <3>1. u.rule = r /\ u.fired_at = boot
      BY <2>1, <2>2 DEF Trace
    <3>2. ~(boot + DedupeHours >= clock)
      BY <1>1, <3>1 DEF ShouldDedupe
    <3>3. boot \in Nat /\ DedupeHours \in Nat /\ clock \in Nat
      BY <1>1, AlertsAssumption DEF Shape
    <3> QED BY <1>11, <3>2, <3>3
  <2> QED BY <1>1, <2>1, <2>2 DEF EvalOK, SeenOK
<1>12. RaisedOK(evals[c])'
  <2>1. \A u \in e.new : /\ IsEvent(u) /\ ~u.early /\ u.rule \in Marked(e)
                         /\ Reporting(u.rule) => ~u.again /\ u.about \in 1..Cardinality(reports)
    BY <1>1 DEF EvalOK, RaisedOK
  <2>2. v.early => rules[v.rule].row = "deleted"
    BY <1>6, <1>11
  <2>3. Reporting(v.rule) => ~v.again /\ v.about \in 1..Cardinality(reports)
    BY <1>6, <1>10
  <2> QED BY <1>1, <1>4, <1>6, <1>7, <2>1, <2>2, <2>3 DEF RaisedOK, Marked
<1> QED BY <1>1, <1>3, <1>4, <1>8, <1>9, <1>12, OneTurn DEF EvalOK

(* A flush that finds its rules still there. *)
LEMMA EmitKeeps ==
  ASSUME AlertsInv, NEW c \in Clients, Emit(c)
  PROVE  AlertsInv'
<1> DEFINE e == evals[c]
           r == Head(e.todo).rule
<1>1. /\ e.event # {} /\ IsEval(e) /\ EvalOK(e) /\ UNCHANGED <<clock, boot, rules, events, reports>>
  BY DEF Emit, AlertsInv, Shape
<1>2. CASE Gone(c)
  <2>1. evals' = [evals EXCEPT ![c] = Idle]
    BY <1>2 DEF Emit, Lost
  <2>2. evals'[c] = Idle
    BY <2>1, IdleEval, EvalTurn DEF AlertsInv
  <2> QED BY <1>1, <2>1, <2>2, IdleEval, IdleOK, OneTurn
<1>3. CASE ~Gone(c)
  <2> DEFINE n == [e EXCEPT !.held = Marked(e), !.todo = Tail(@), !.event = {},
                            !.new = @ \cup e.event, !.marks[r] = clock]
  <2>1. evals' = [evals EXCEPT ![c] = n]
    BY <1>3 DEF Emit, AlertsInv, Shape
  <2>2. /\ IsEval(n) /\ n.todo = Tail(e.todo) /\ n.marks = [e.marks EXCEPT ![r] = clock]
        /\ n.seen = e.seen /\ n.event = {} /\ n.new = e.new \cup e.event /\ n.held = Marked(e)
    BY <1>1 DEF IsEval, EvalField
  <2> HIDE DEF n
  <2>3. evals'[c] = n
    BY <2>1, <2>2, EvalTurn DEF AlertsInv
  <2>4. e.todo # <<>> /\ \A v \in e.event : v.rule = r
    BY <1>1 DEF EvalOK, Ascends
  <2> HIDE DEF r
  <2>5. /\ n.todo \in Seq(Stub) /\ n.marks \in [RuleIds -> 0..Never]
        /\ r \in RuleIds /\ Marked(evals[c])' = Marked(e) \cup {r} /\ \A q \in Marked(e) : q < r
        /\ \A i, j \in DOMAIN n.todo : i < j => n.todo[i].rule < n.todo[j].rule
        /\ \A q \in Marked(evals[c])', i \in DOMAIN n.todo : q < n.todo[i].rule
        /\ TodoOK(evals[c])' /\ MarksOK(evals[c])' /\ SeenOK(evals[c])'
    BY <1>1, <2>2, <2>3, <2>4, HeadPassed DEF r
  <2>6. Ascends(evals[c])'
    BY <2>2, <2>3, <2>5 DEF Ascends
  <2>7. \A v \in e.event : rules[v.rule].row # "deleted"
    BY <1>3 DEF Gone, Live
  <2>8. RaisedOK(evals[c])'
    BY <1>1, <2>2, <2>3, <2>4, <2>5, <2>7 DEF EvalOK, RaisedOK
  <2> QED BY <1>1, <2>1, <2>2, <2>5, <2>6, <2>8, OneTurn DEF EvalOK
<1> QED BY <1>2, <1>3

LEMMA LostKeeps ==
  ASSUME AlertsInv, NEW c \in Clients, Lost(c), UNCHANGED <<clock, boot, rules, events, reports>>
  PROVE  AlertsInv'
<1>1. evals' = [evals EXCEPT ![c] = Idle]
  BY DEF Lost
<1>2. evals'[c] = Idle
  BY <1>1, IdleEval, EvalTurn DEF AlertsInv
<1> QED BY <1>1, <1>2, IdleEval, IdleOK, OneTurn

(* An evaluation looks at the same things when the rules of its list, its     *)
(* marks and what it saw are still as they were.                             *)
LEMMA SameEval ==
  ASSUME NEW c \in Clients, EvalOK(evals[c]), evals'[c] = evals[c], UNCHANGED <<boot, reports>>,
         \A r \in RuleIds : /\ rules[r].row # "none" => rules'[r].row # "none"
                            /\ rules[r].row = "deleted" => rules'[r].row = "deleted",
         \A i \in DOMAIN evals[c].todo : evals[c].todo[i].rule \in RuleIds,
         \A v \in events : \/ \E u \in events' : Trace(u) = Trace(v)
                           \/ rules'[v.rule].row = "deleted"
  PROVE  EvalOK(evals[c])'
<1> DEFINE e == evals[c]
<1>1. Marked(evals[c])' = Marked(e)
  BY DEF Marked
<1>2. Ascends(evals[c])' /\ TodoOK(evals[c])' /\ MarksOK(evals[c])' /\ RaisedOK(evals[c])'
  <2>1. Ascends(evals[c])'
    BY <1>1 DEF EvalOK, Ascends
  <2>2. TodoOK(evals[c])'
    BY DEF EvalOK, TodoOK
  <2>3. MarksOK(evals[c])'
    BY <1>1 DEF EvalOK, MarksOK, Marked
  <2>4. RaisedOK(evals[c])'
    BY <1>1 DEF EvalOK, RaisedOK, IsEvent
  <2> QED BY <2>1, <2>2, <2>3, <2>4
<1>3. SeenOK(evals[c])'
  <2>1. SUFFICES ASSUME NEW t \in e.seen
                 PROVE  /\ t[1] \in RuleIds
                        /\ \A i \in DOMAIN e.todo : e.todo[i].rule = t[1] =>
                              Known(t[1], t[2], e.todo[i].last)
                        /\ rules'[t[1]].row = "deleted" \/ \E v \in events' : Trace(v) = t
    BY DEF SeenOK, Known
  <2>2. /\ t[1] \in RuleIds
        /\ \A i \in DOMAIN e.todo : e.todo[i].rule = t[1] => Known(t[1], t[2], e.todo[i].last)
        /\ rules[t[1]].row = "deleted" \/ \E v \in events : Trace(v) = t
    BY DEF EvalOK, SeenOK
  <2>3. ASSUME NEW v \in events, Trace(v) = t
        PROVE  rules'[t[1]].row = "deleted" \/ \E u \in events' : Trace(u) = t
    BY <2>3 DEF Trace
  <2> QED BY <2>2, <2>3
<1> QED BY <1>2, <1>3 DEF EvalOK

LEMMA StubsOK ==
  ASSUME Shape, NEW c \in Clients
  PROVE  \A i \in DOMAIN evals[c].todo : evals[c].todo[i] \in Stub /\ evals[c].todo[i].rule \in RuleIds
<1>1. evals[c].todo \in Seq(Stub)
  BY DEF Shape
<1>2. \A i \in DOMAIN evals[c].todo : evals[c].todo[i] \in Stub
  BY <1>1
<1> QED BY <1>2 DEF Stub

(* The events of an evaluation are stored with the marks of their rules, and  *)
(* no mark is before the start of the process.                               *)
LEMMA CommitKeeps ==
  ASSUME AlertsInv, NEW c \in Clients, Commit(c)
  PROVE  AlertsInv'
<1> DEFINE e == evals[c]
<1>1. /\ evals' = [evals EXCEPT ![c] = Idle] /\ UNCHANGED <<clock, boot, reports>>
      /\ Shape /\ ReportInv /\ EventInv /\ EvalOK(e) /\ e.marks \in [RuleIds -> 0..Never]
  BY DEF Commit, Lost, AlertsInv, Shape
<1>2. CASE Gone(c)
  BY <1>1, <1>2, LostKeeps DEF Commit
<1>3. CASE ~Gone(c)
  <2>1. /\ events' = events \cup e.new
        /\ rules' = [r \in RuleIds |-> IF r \in Marked(e)
                       THEN [rules[r] EXCEPT !.last = e.marks[r]] ELSE rules[r]]
    BY <1>3 DEF Commit
  <2>2. /\ evals'[c] = Idle /\ \A d \in Clients : d # c => evals'[d] = evals[d]
        /\ evals' = [d \in Clients |-> evals'[d]] /\ \A d \in Clients : IsEval(evals'[d])
    BY <1>1, IdleEval, EvalTurn
  <2>3. ASSUME NEW r \in RuleIds
        PROVE  /\ IsRule(rules'[r]) /\ rules'[r].row = rules[r].row
               /\ r \in Marked(e) => rules'[r].last = e.marks[r]
               /\ r \notin Marked(e) => rules'[r] = rules[r]
    <3>1. CASE r \in Marked(e)
      <4> DEFINE n == [rules[r] EXCEPT !.last = e.marks[r]]
      <4>1. rules'[r] = n /\ IsRule(rules[r]) /\ e.marks[r] \in 0..Never
        BY <1>1, <2>1, <3>1 DEF Shape
      <4>2. IsRule(n) /\ n.row = rules[r].row /\ n.last = e.marks[r]
        BY <4>1 DEF IsRule
      <4> QED BY <3>1, <4>1, <4>2
    <3>2. CASE r \notin Marked(e)
      BY <1>1, <2>1, <3>2 DEF Shape
    <3> QED BY <3>1, <3>2
  <2>4. Shape'
    <3>1. rules' = [r \in RuleIds |-> rules'[r]]
      BY <2>1
    <3>2. \A d \in Clients : evals'[d].todo \in Seq(Stub) /\ evals'[d].marks \in [RuleIds -> 0..Never]
      BY <1>1, <2>2, IdleEval DEF Shape
    <3> QED BY <1>1, <2>2, <2>3, <3>1, <3>2 DEF Shape
  <2>5. \A r \in Marked(e) : /\ r \in RuleIds /\ rules[r].row # "none" /\ e.marks[r] >= boot
                             /\ e.marks[r] # Never /\ e.marks[r] \in Nat
    BY <1>1, AlertsAssumption DEF EvalOK, MarksOK, Marked, Never
  <2>6. ReportInv'
    <3>1. \A r \in RuleIds : rules'[r].row = "none" => rules'[r].last = Never
      BY <1>1, <2>3, <2>5 DEF ReportInv
    <3> QED BY <1>1, <3>1 DEF ReportInv
  <2>7. EventInv'
    <3>1. ASSUME NEW v \in events \cup e.new
          PROVE  /\ IsEvent(v) /\ ~v.early /\ (Reporting(v.rule) => ~v.again)
                 /\ Reporting(v.rule) => v.about \in 1..Cardinality(reports)
      BY <1>1 DEF EventInv, EvalOK, RaisedOK, Known
    <3>2. ASSUME NEW v \in events \cup e.new PROVE Known(v.rule, v.about, rules'[v.rule].last)
      <4>1. v.rule \in RuleIds
        BY <3>1 DEF IsEvent
      <4>2. CASE v.rule \in Marked(e)
        <5>1. rules'[v.rule].last = e.marks[v.rule]
          BY <2>3, <4>1, <4>2
        <5>2. \A s \in reports : s.created_at <= e.marks[v.rule]
          <6>1. \A s \in reports : s.created_at \in 0..boot /\ boot \in Nat
            BY <1>1, AlertsAssumption DEF ReportInv, Shape
          <6> QED BY <2>5, <4>2, <6>1
        <5> QED BY <2>5, <3>1, <4>2, <5>1, <5>2 DEF Known
      <4>3. CASE v.rule \notin Marked(e)
        <5>1. v \in events
          BY <1>1, <4>3 DEF EvalOK, RaisedOK
        <5>2. rules'[v.rule] = rules[v.rule]
          BY <2>3, <4>1, <4>3
        <5> QED BY <1>1, <5>1, <5>2 DEF EventInv
      <4> QED BY <4>2, <4>3
    <3>3. SUFFICES ASSUME NEW v \in events'
                   PROVE  /\ IsEvent(v) /\ Known(v.rule, v.about, rules[v.rule].last)'
                          /\ ~v.early /\ (Reporting(v.rule) => ~v.again)
      BY DEF EventInv
    <3>4. v \in events \cup e.new
      BY <2>1
    <3> QED BY <1>1, <3>1, <3>2, <3>4 DEF Known
  <2>8. ASSUME NEW d \in Clients PROVE EvalOK(evals[d])'
    <3>1. CASE d = c
      BY <2>2, <3>1, IdleOK
    <3>2. CASE d # c
      BY <1>1, <2>1, <2>2, <2>3, <3>2, StubsOK, SameEval DEF AlertsInv
    <3> QED BY <3>1, <3>2
  <2> QED BY <2>4, <2>6, <2>7, <2>8 DEF AlertsInv
<1> QED BY <1>2, <1>3

(* A request that touches one rule while no evaluation moves. *)
LEMMA RuleKeeps ==
  ASSUME AlertsInv, NEW r \in RuleIds, CreateRule(r) \/ UpdateRule(r)
  PROVE  AlertsInv'
<1>1. /\ Shape /\ ReportInv /\ EventInv /\ IsRule(rules[r])
      /\ UNCHANGED <<clock, boot, events, reports, evals>>
  BY DEF CreateRule, UpdateRule, AlertsInv, Shape
<1>2. \E n : /\ IsRule(n) /\ rules' = [rules EXCEPT ![r] = n]
             /\ rules[r].row # "deleted" /\ n.row = "live" /\ n.last = rules[r].last
  <2>1. CASE CreateRule(r)
    <3> DEFINE n == [row |-> "live", on |-> TRUE, last |-> Never]
    <3>1. rules' = [rules EXCEPT ![r] = n] /\ rules[r].row = "none"
      BY <2>1 DEF CreateRule
    <3>2. IsRule(n) /\ n.row = "live" /\ n.last = Never
      BY AlertsAssumption DEF IsRule, Never
    <3>3. rules[r].last = Never
      BY <1>1, <3>1 DEF ReportInv
    <3> HIDE DEF n
    <3> QED BY <3>1, <3>2, <3>3
  <2>2. CASE UpdateRule(r)
    <3> DEFINE n == [rules[r] EXCEPT !.on = ~@]
    <3>1. rules' = [rules EXCEPT ![r] = n] /\ rules[r].row = "live"
      BY <2>2 DEF UpdateRule, Live
    <3>2. IsRule(n) /\ n.row = "live" /\ n.last = rules[r].last
      BY <1>1, <3>1 DEF IsRule
    <3> HIDE DEF n
    <3> QED BY <3>1, <3>2
  <2> QED BY <2>1, <2>2
<1>3. PICK n : /\ IsRule(n) /\ rules' = [rules EXCEPT ![r] = n]
               /\ rules[r].row # "deleted" /\ n.row = "live" /\ n.last = rules[r].last
  BY <1>2
<1>4. /\ rules'[r] = n /\ \A q \in RuleIds : q # r => rules'[q] = rules[q]
      /\ rules' = [q \in RuleIds |-> rules'[q]] /\ \A q \in RuleIds : IsRule(rules'[q])
  BY <1>1, <1>3, RuleTurn
<1>5. Shape'
  BY <1>1, <1>4 DEF Shape
<1>6. ReportInv'
  BY <1>1, <1>3, <1>4 DEF ReportInv
<1>7. EventInv'
  BY <1>1, <1>3, <1>4 DEF EventInv, Known, IsEvent
<1>8. \A c \in Clients : EvalOK(evals[c])'
  BY <1>1, <1>3, <1>4, StubsOK, SameEval DEF AlertsInv
<1> QED BY <1>5, <1>6, <1>7, <1>8 DEF AlertsInv

LEMMA DeleteKeeps ==
  ASSUME AlertsInv, NEW r \in RuleIds, DeleteRule(r)
  PROVE  AlertsInv'
<1>1. /\ Shape /\ ReportInv /\ EventInv /\ UNCHANGED <<clock, boot, reports, evals>>
      /\ rules' = [rules EXCEPT ![r] = Deleted] /\ events' = {v \in events : v.rule # r}
  BY DEF DeleteRule, AlertsInv
<1>2. IsRule(Deleted) /\ Deleted.row = "deleted"
  <2>1. Never \in 0..Never
    BY AlertsAssumption DEF Never
  <2>2. IsRule(NoRule)
    BY <2>1 DEF IsRule, NoRule
  <2> QED BY <2>2 DEF IsRule, Deleted
<1>3. /\ rules'[r] = Deleted /\ \A q \in RuleIds : q # r => rules'[q] = rules[q]
      /\ rules' = [q \in RuleIds |-> rules'[q]] /\ \A q \in RuleIds : IsRule(rules'[q])
  BY <1>1, <1>2, RuleTurn
<1>4. Shape'
  BY <1>1, <1>3 DEF Shape
<1>5. ReportInv'
  BY <1>1, <1>2, <1>3 DEF ReportInv
<1>6. EventInv'
  BY <1>1, <1>3 DEF EventInv, Known, IsEvent
<1>7. \A v \in events : v \in events' \/ rules'[v.rule].row = "deleted"
  BY <1>1, <1>2, <1>3
<1>8. \A c \in Clients : EvalOK(evals[c])'
  BY <1>1, <1>2, <1>3, <1>7, StubsOK, SameEval DEF AlertsInv
<1> QED BY <1>4, <1>5, <1>6, <1>8 DEF AlertsInv

LEMMA AckKeeps ==
  ASSUME AlertsInv, NEW evs, evs \subseteq events, AckEvents(evs)
  PROVE  AlertsInv'
<1>1. /\ Shape /\ ReportInv /\ EventInv /\ UNCHANGED <<clock, boot, rules, reports, evals>>
      /\ events' = (events \ evs) \cup {[v EXCEPT !.acked = TRUE] : v \in evs}
  BY DEF AckEvents, AlertsInv
<1>2. ASSUME NEW v \in events
      PROVE  LET u == [v EXCEPT !.acked = TRUE]
             IN /\ IsEvent(u) /\ u.rule = v.rule /\ u.about = v.about /\ u.fired_at = v.fired_at
                /\ u.early = v.early /\ u.again = v.again
  BY <1>1 DEF EventInv, IsEvent, EventField
<1>3. \A u \in events' : \E v \in events :
        /\ IsEvent(u) /\ u.rule = v.rule /\ u.about = v.about
        /\ u.early = v.early /\ u.again = v.again
  <2>1. SUFFICES ASSUME NEW u \in events'
                 PROVE  \E v \in events : /\ IsEvent(u) /\ u.rule = v.rule /\ u.about = v.about
                                          /\ u.early = v.early /\ u.again = v.again
    OBVIOUS
  <2>2. CASE u \in events
    BY <1>1, <2>2 DEF EventInv
  <2>3. CASE u \notin events
    <3>1. PICK v \in evs : u = [v EXCEPT !.acked = TRUE]
      BY <1>1, <2>3
    <3> QED BY <1>2, <3>1
  <2> QED BY <2>2, <2>3
<1>4. \A v \in events : \E u \in events' : Trace(u) = Trace(v)
  <2>1. SUFFICES ASSUME NEW v \in events PROVE \E u \in events' : Trace(u) = Trace(v)
    OBVIOUS
  <2>2. CASE v \in evs
    <3>1. [v EXCEPT !.acked = TRUE] \in events'
      BY <1>1, <2>2
    <3> QED BY <1>2, <3>1 DEF Trace
  <2>3. CASE v \notin evs
    BY <1>1, <2>3
  <2> QED BY <2>2, <2>3
<1>5. Shape' /\ ReportInv'
  BY <1>1 DEF Shape, ReportInv
<1>6. EventInv'
  BY <1>1, <1>3 DEF EventInv, Known
<1>7. \A c \in Clients : EvalOK(evals[c])'
  BY <1>1, <1>4, StubsOK, SameEval DEF AlertsInv
<1> QED BY <1>5, <1>6, <1>7 DEF AlertsInv

(* A statement that is stored is none of those events are about. *)
LEMMA StoreKeeps ==
  ASSUME AlertsInv, StoreReport
  PROVE  AlertsInv'
<1> DEFINE k == Cardinality(reports)
           s0 == [report_date |-> Cardinality(reports) + 1, created_at |-> boot]
<1>1. /\ Shape /\ ReportInv /\ EventInv /\ UNCHANGED <<clock, boot, rules, events, evals>>
      /\ reports' = reports \cup {s0}
  BY DEF StoreReport, AlertsInv
<1>2. k \in Nat /\ s0.report_date = k + 1 /\ s0.created_at = boot
  BY <1>1, FS_CardinalityType DEF ReportInv
<1>3. s0 \notin reports
  BY <1>1, <1>2 DEF ReportInv
<1> HIDE DEF s0
<1>4. IsFiniteSet(reports') /\ Cardinality(reports)' = k + 1
  BY <1>1, <1>3, FS_AddElement DEF ReportInv
<1> HIDE DEF k
<1>5. boot \in Nat /\ clock \in Nat
  BY <1>1, AlertsAssumption DEF Shape
<1>6. Shape'
  BY <1>1 DEF Shape
<1>7. ReportInv'
  <2>1. \A s \in reports' : s.report_date \in 1..(k + 1) /\ s.created_at \in 0..boot
    BY <1>1, <1>2, <1>5 DEF ReportInv, k
  <2> QED BY <1>1, <1>4, <2>1 DEF ReportInv
<1>8. \A about \in 1..k : about \in 1..(k + 1) /\ about # s0.report_date
  BY <1>2
<1>9. ASSUME NEW r, NEW about, NEW last, Known(r, about, last), Reporting(r)
      PROVE  /\ last # Never /\ about \in 1..(k + 1)
             /\ \A s \in reports' : s.report_date = about => s.created_at <= last
  BY <1>1, <1>8, <1>9 DEF Known, k
<1>10. EventInv'
  <2>1. SUFFICES ASSUME NEW v \in events, Reporting(v.rule)
                 PROVE  /\ rules[v.rule].last # Never /\ v.about \in 1..(k + 1)
                        /\ \A s \in reports' :
                              s.report_date = v.about => s.created_at <= rules[v.rule].last
    BY <1>1, <1>4 DEF EventInv, Known
  <2>2. Known(v.rule, v.about, rules[v.rule].last)
    BY <1>1 DEF EventInv
  <2> QED BY <1>9, <2>1, <2>2
<1>11. ASSUME NEW c \in Clients PROVE EvalOK(evals[c])'
  <2>1. EvalOK(evals[c]) /\ evals'[c] = evals[c] /\ Marked(evals[c])' = Marked(evals[c])
    BY <1>1 DEF AlertsInv, Marked
  <2>2. Ascends(evals[c])' /\ TodoOK(evals[c])' /\ MarksOK(evals[c])'
    BY <1>1, <2>1 DEF EvalOK, Ascends, TodoOK, MarksOK
  <2>3. SeenOK(evals[c])'
    <3> DEFINE todo == evals[c].todo
    <3>1. /\ \A t \in evals[c].seen :
               /\ t[1] \in RuleIds
               /\ rules[t[1]].row = "deleted" \/ \E v \in events : Trace(v) = t
      BY <2>1 DEF EvalOK, SeenOK
    <3>2. SUFFICES ASSUME NEW t \in evals[c].seen, NEW i \in DOMAIN todo, todo[i].rule = t[1],
                          Reporting(t[1])
                   PROVE  /\ todo[i].last # Never /\ t[2] \in 1..(k + 1)
                          /\ \A s \in reports' : s.report_date = t[2] => s.created_at <= todo[i].last
      BY <1>1, <1>4, <2>1, <3>1 DEF SeenOK, Known
    <3>3. Known(t[1], t[2], todo[i].last)
      BY <2>1, <3>2 DEF EvalOK, SeenOK
    <3> QED BY <1>9, <3>2, <3>3
  <2>4. RaisedOK(evals[c])'
    BY <1>1, <1>4, <1>8, <2>1 DEF EvalOK, RaisedOK, k
  <2> QED BY <2>2, <2>3, <2>4 DEF EvalOK
<1> QED BY <1>6, <1>7, <1>10, <1>11 DEF AlertsInv

LEMMA TimeKeeps ==
  ASSUME AlertsInv, UNCHANGED <<boot, rules, events, reports, evals>>, clock' \in clock..MaxClock
  PROVE  AlertsInv'
<1>1. Shape /\ ReportInv /\ EventInv
  BY DEF AlertsInv
<1>2. clock' \in 0..MaxClock /\ boot \in 0..clock'
  BY <1>1, AlertsAssumption DEF Shape
<1>3. Shape'
  BY <1>1, <1>2 DEF Shape
<1>4. ReportInv' /\ EventInv'
  BY <1>1 DEF ReportInv, EventInv, Known
<1>5. \A c \in Clients : EvalOK(evals[c])'
  BY <1>1, StubsOK, SameEval DEF AlertsInv
<1> QED BY <1>3, <1>4, <1>5 DEF AlertsInv

LEMMA RestartKeeps ==
  ASSUME AlertsInv, Restart
  PROVE  AlertsInv'
<1>1. /\ Shape /\ ReportInv /\ EventInv /\ UNCHANGED <<clock, rules, events, reports>>
      /\ boot < clock /\ boot' = clock /\ evals' = [c \in Clients |-> Idle]
  BY DEF Restart, AlertsInv
<1>2. \A c \in Clients : evals'[c] = Idle
  BY <1>1
<1>3. boot' \in Nat /\ boot \in Nat /\ boot' \in 0..clock
  BY <1>1, AlertsAssumption DEF Shape
<1>4. Shape'
  BY <1>1, <1>2, <1>3, IdleEval DEF Shape
<1>5. ReportInv'
  <2>1. \A n \in 0..boot : n \in 0..boot'
    BY <1>1, <1>3
  <2> QED BY <1>1, <2>1 DEF ReportInv
<1>6. EventInv'
  BY <1>1 DEF EventInv, Known
<1>7. \A c \in Clients : EvalOK(evals[c])'
  BY <1>2, IdleOK
<1> QED BY <1>4, <1>5, <1>6, <1>7 DEF AlertsInv

LEMMA NextAlerts == AlertsInv /\ [Next]_vars => AlertsInv'
<1> SUFFICES ASSUME AlertsInv, [Next]_vars PROVE AlertsInv'
  OBVIOUS
<1>1. ASSUME NEW r \in RuleIds, CreateRule(r) \/ UpdateRule(r) \/ DeleteRule(r) PROVE AlertsInv'
  BY <1>1, RuleKeeps, DeleteKeeps
<1>2. CASE AckEvent
  <2>1. PICK v \in events : AckEvents({v})
    BY <1>2 DEF AckEvent
  <2> QED BY <2>1, AckKeeps
<1>3. CASE AckAll
  <2>1. {v \in events : ~v.acked} \subseteq events
    OBVIOUS
  <2> QED BY <1>3, <2>1, AckKeeps DEF AckAll
<1>4. CASE StoreReport
  BY <1>4, StoreKeeps
<1>5. clock \in clock..MaxClock
  BY AlertsAssumption DEF AlertsInv, Shape
<1>6. CASE StoreDividend \/ UNCHANGED vars
  BY <1>5, <1>6, TimeKeeps DEF StoreDividend, vars
<1>7. CASE Tick
  <2>1. clock' \in clock..MaxClock
    BY <1>7, AlertsAssumption DEF Tick, AlertsInv, Shape
  <2> QED BY <1>7, <2>1, TimeKeeps DEF Tick
<1>8. ASSUME NEW c \in Clients, Begin(c) \/ Pass(c) \/ Raise(c) \/ Emit(c) \/ Commit(c) \/ Fail(c)
      PROVE  AlertsInv'
  <2>1. Fail(c) => AlertsInv'
    BY LostKeeps DEF Fail
  <2> QED BY <1>8, <2>1, BeginKeeps, PassKeeps, RaiseKeeps, EmitKeeps, CommitKeeps
<1>9. CASE Restart
  BY <1>9, RestartKeeps
<1> QED BY <1>1, <1>2, <1>3, <1>4, <1>6, <1>7, <1>8, <1>9 DEF Next

-----------------------------------------------------------------------------
(* Results.                                                                 *)

(* The strengthened invariant holds in every reachable state. *)
LEMMA AlertsInvariant == Spec => []AlertsInv
  BY InitAlerts, NextAlerts, PTL DEF Spec

(* Theorem: no two evaluations ever wait for each other's rows, however many  *)
(* run side by side and whatever rules are created, switched and deleted      *)
(* meanwhile: all go up the numbers of the rules (the order_by of list_rules) *)
(* and lock what they have marked before they mark more.                      *)
THEOREM EvaluationsDoNotDeadlock == Spec => []NoLockCycle
<1>1. AlertsInv => NoLockCycle
  <2>1. SUFFICES ASSUME AlertsInv, NEW c \in Clients, NEW d \in Clients, Waits(c, d), Waits(d, c)
                 PROVE  FALSE
    BY DEF NoLockCycle
  <2>2. PICK p \in ToFlush(c) \cap evals[d].held : TRUE
    BY <2>1 DEF Waits
  <2>3. PICK q \in ToFlush(d) \cap evals[c].held : TRUE
    BY <2>1 DEF Waits
  <2>4. q < p /\ p < q
    BY <2>1, <2>2, <2>3 DEF AlertsInv, EvalOK, Ascends, ToFlush
  <2>5. p \in Nat /\ q \in Nat
    BY <2>2, <2>3, AlertsAssumption DEF ToFlush, Marked
  <2> QED BY <2>4, <2>5
<1> QED BY <1>1, AlertsInvariant, PTL

(* Theorem: no evaluation raises what one before it has raised: of a report   *)
(* never again, by last_evaluated_at, whichever evaluations write it and in   *)
(* which order; of a rule no second event while the process is young, by      *)
(* _should_dedupe, although fired_at is the time the process was started.     *)
THEOREM EventsAreRaisedOnce == Spec => []RaisedOnce
<1>1. AlertsInv => RaisedOnce
  BY DEF AlertsInv, EventInv, RaisedOnce, ReportRaisedOnce, DedupedWhileYoung, Reporting
<1> QED BY <1>1, AlertsInvariant, PTL

=============================================================================
