------------------------------- MODULE Alerts -------------------------------
(***************************************************************************)
(* Alert rules and the events they raise (services/alert_service.py,       *)
(* routers/alerts.py, the alert_evaluation task of tasks/data_sync.py).    *)
(*                                                                         *)
(* An evaluation, started by a request or by the task, reads the enabled   *)
(* rules, looks at them one by one in the order of their numbers, flushes  *)
(* the events it raises and commits once.  Two evaluations, and requests   *)
(* that change or delete rules, run side by side; PostgreSQL makes a flush *)
(* wait for the rows another transaction has updated.                      *)
(*                                                                         *)
(* Time is counted in steps of some hours.  Two columns default to a value *)
(* computed when the process was started and not when the row is stored:   *)
(* the fired_at of an event and the created_at of a financial statement.   *)
(***************************************************************************)
EXTENDS Naturals, FiniteSets, FiniteSetsExt, Sequences, SequencesExt

CONSTANTS
  RuleIds,       \* the numbers rules may get
  TypeOf,        \* the rule_type each rule is created with
  Clients,       \* the requests and tasks that may evaluate at one time
  DedupeHours,   \* dedupe_hours, in steps of the clock
  DaysAhead,     \* params["days_ahead"], in steps of the clock
  MaxClock,      \* bound: steps of the clock
  MaxEvents,     \* bound: events ever raised
  MaxReports     \* bound: financial statements stored

RULE_TYPES == {"dividend_ex_date_near", "financial_report_released"}

ASSUME AlertsAssumption ==
  /\ RuleIds \subseteq Nat /\ IsFiniteSet(RuleIds)
  /\ TypeOf \in [RuleIds -> RULE_TYPES]
  /\ {DedupeHours, DaysAhead, MaxClock, MaxEvents, MaxReports} \subseteq Nat

VARIABLES
  clock,         \* now()
  boot,          \* when this process was started
  rules,         \* the rows of alert_rules
  events,        \* the rows of alert_events
  reports,       \* the financial statements of the stock
  exDate,        \* the ex-date of the stock's next dividend
  evals          \* what each evaluation has done

vars == <<clock, boot, rules, events, reports, exDate, evals>>

Never  == MaxClock + 1                        \* a date that is NULL
NoRule  == [row |-> "none", on |-> FALSE, last |-> Never]
Deleted == [NoRule EXCEPT !.row = "deleted"]
Rule    == [row: {"none", "live", "deleted"}, on: BOOLEAN, last: 0..Never]
Live(r) == rules[r].row = "live"

(***************************************************************************)
(* An event: "about" is the report or the ex-date it is raised for.  Two   *)
(* fields are not columns and serve the properties only: whether the       *)
(* evaluation that raised it began after an event of the rule about the    *)
(* same thing was committed ("again"), and whether it began after one of   *)
(* the same process, which was then not older than dedupe_hours ("early"). *)
(***************************************************************************)
Event  == [id: 1..MaxEvents, rule: RuleIds, about: 0..Never, fired_at: 0..MaxClock,
           acked: BOOLEAN, again: BOOLEAN, early: BOOLEAN]

(* A statement: report_date is its place in the order of report dates. *)
Report == [report_date: 1..MaxReports, created_at: 0..MaxClock]

(***************************************************************************)
(* An evaluation: "todo" the rules still to look at with the               *)
(* last_evaluated_at it read, "event" the event of the head rule that is   *)
(* built and not yet flushed, "new" the flushed events, "marks" the rules  *)
(* whose last_evaluated_at it has set, "held" those of them it has flushed *)
(* and so holds locked, "seen" the rule, subject and fired_at of the       *)
(* events that were committed when it began (for the properties only).     *)
(***************************************************************************)
Idle == [running |-> FALSE, todo |-> <<>>, event |-> {}, new |-> {},
         marks |-> [r \in RuleIds |-> Never], held |-> {}, seen |-> {}]

Marked(e) == {r \in RuleIds : e.marks[r] # Never}
Ids(evs)  == {v.id : v \in evs}
Trace(v)  == <<v.rule, v.about, v.fired_at>>
Taken     == Ids(events) \cup UNION {Ids(evals[c].new \cup evals[c].event) : c \in Clients}
FreeIds   == 1..MaxEvents \ Taken

AlertsTypeOK ==
  /\ clock \in 0..MaxClock /\ boot \in 0..clock
  /\ rules \in [RuleIds -> Rule]
  /\ events \subseteq Event
  /\ reports \subseteq Report
  /\ exDate \in 0..Never
  /\ \A c \in Clients :
       /\ evals[c].new \cup evals[c].event \subseteq Event
       /\ evals[c].held \subseteq Marked(evals[c])
       /\ ~evals[c].running => evals[c] = Idle

Init ==
  /\ clock = 0 /\ boot = 0
  /\ rules = [r \in RuleIds |-> NoRule]
  /\ events = {} /\ reports = {} /\ exDate = Never
  /\ evals = [c \in Clients |-> Idle]

-----------------------------------------------------------------------------
(* Rules and events are changed by requests, each in its own transaction.   *)

(* Rows another transaction has updated can be read but not changed until   *)
(* it ends; those its new events refer to cannot be deleted.                *)
LockedBy(c)   == evals[c].held \cup {v.rule : v \in evals[c].new}
Unlocked(r)   == \A c \in Clients : r \notin LockedBy(c)
Unwritten(r)  == \A c \in Clients : r \notin evals[c].held

CreateRule(r) ==
  /\ rules[r].row = "none"
  /\ rules' = [rules EXCEPT ![r] = [row |-> "live", on |-> TRUE, last |-> Never]]
  /\ UNCHANGED <<clock, boot, events, reports, exDate, evals>>

UpdateRule(r) ==
  /\ Live(r) /\ Unwritten(r)
  /\ rules' = [rules EXCEPT ![r].on = ~@]
  /\ UNCHANGED <<clock, boot, events, reports, exDate, evals>>

(* Deleting a rule deletes its events with it. *)
DeleteRule(r) ==
  /\ Live(r) /\ Unlocked(r)
  /\ rules' = [rules EXCEPT ![r] = Deleted]
  /\ events' = {v \in events : v.rule # r}
  /\ UNCHANGED <<clock, boot, reports, exDate, evals>>

AckEvents(evs) ==
  /\ evs # {}
  /\ events' = (events \ evs) \cup {[v EXCEPT !.acked = TRUE] : v \in evs}
  /\ UNCHANGED <<clock, boot, rules, reports, exDate, evals>>

AckEvent == \E v \in events : ~v.acked /\ AckEvents({v})
AckAll   == AckEvents({v \in events : ~v.acked})

-----------------------------------------------------------------------------
(* What the rules look at is stored by the data pipelines.                   *)

StoreReport ==
  /\ Cardinality(reports) < MaxReports
  /\ reports' = reports \cup
       {[report_date |-> Cardinality(reports) + 1, created_at |-> boot]}
  /\ UNCHANGED <<clock, boot, rules, events, exDate, evals>>

StoreDividend ==
  /\ exDate = Never
  /\ \E d \in clock..MaxClock : exDate' = d
  /\ UNCHANGED <<clock, boot, rules, events, reports, evals>>

-----------------------------------------------------------------------------
(* evaluate_all_rules.                                                       *)

EnabledRules == {r \in RuleIds : Live(r) /\ rules[r].on}

(* Mutant of ListRules: the order_by is gone, the rows come in any order. *)
ListRulesUnordered ==
  IF \E c \in Clients : evals[c].running THEN SetToSortSeq(EnabledRules, >)
                                          ELSE SetToSortSeq(EnabledRules, <)

(* list_rules: the enabled rules in the order of their numbers. *)
ListRules ==
  CHOOSE order \in [1..Cardinality(EnabledRules) -> EnabledRules] :
    \A i, j \in DOMAIN order : i < j => order[i] < order[j]

Begin(c) ==
  /\ ~evals[c].running
  /\ EnabledRules # {}
  /\ evals' = [evals EXCEPT ![c] =
       [Idle EXCEPT !.running = TRUE, !.seen = {Trace(v) : v \in events},
         !.todo = [i \in DOMAIN ListRules |->
                     [rule |-> ListRules[i], last |-> rules[ListRules[i]].last]]]]
  /\ UNCHANGED <<clock, boot, rules, events, reports, exDate>>

(* Mutant of ShouldDedupe: the comparison with the cutoff is reversed. *)
ShouldDedupeOld(r, own) ==
  \E v \in events \cup own : v.rule = r /\ v.fired_at + DedupeHours < clock

(* _should_dedupe: an event of the rule that is not old enough, among those *)
(* that are committed and those the evaluation has raised itself.           *)
ShouldDedupe(r, own) ==
  \E v \in events \cup own : v.rule = r /\ v.fired_at + DedupeHours >= clock

(* _eval_dividend_ex_date_near: an ex-date from today to the cutoff. *)
ExDateNear == IF exDate \in clock..(clock + DaysAhead) /\ exDate # Never
              THEN {exDate} ELSE {}

(* Mutant of Released: the last evaluation is not looked at. *)
ReleasedEver(last) ==
  IF reports = {} THEN {} ELSE {Max({s.report_date : s \in reports})}

(* _eval_financial_report_released: the newest statement whose created_at  *)
(* is later than the last evaluation, any statement if there was none.     *)
Released(last) ==
  LET rows == {s \in reports : last = Never \/ s.created_at > last}
  IN  IF rows = {} THEN {} ELSE {Max({s.report_date : s \in rows})}

Found(r, last) ==
  CASE TypeOf[r] = "dividend_ex_date_near"     -> ExDateNear
    [] TypeOf[r] = "financial_report_released" -> Released(last)

(* One rule that raises nothing: recent events, or nothing found. *)
Pass(c) ==
  /\ evals[c].running /\ evals[c].todo # <<>> /\ evals[c].event = {}
  /\ LET e == evals[c]  r == Head(e.todo).rule IN
       /\ ShouldDedupe(r, e.new) \/ Found(r, Head(e.todo).last) = {}
       /\ evals' = [evals EXCEPT ![c].todo = Tail(@), ![c].marks[r] = clock]
  /\ UNCHANGED <<clock, boot, rules, events, reports, exDate>>

(* One rule that found something: the event is built ... *)
Raise(c) ==
  /\ evals[c].running /\ evals[c].todo # <<>> /\ evals[c].event = {}
  /\ FreeIds # {}
  /\ LET e == evals[c]  r == Head(e.todo).rule IN
       /\ ~ShouldDedupe(r, e.new)
       /\ \E what \in Found(r, Head(e.todo).last) :
            evals' = [evals EXCEPT ![c].event =
              {[id |-> Min(FreeIds), rule |-> r, about |-> what, fired_at |-> boot,
                acked |-> FALSE,
                again |-> \E t \in e.seen : t[1] = r /\ t[2] = what,
                early |-> /\ \E t \in e.seen : t[1] = r /\ t[3] = boot
                          /\ clock <= boot + DedupeHours]}]
  /\ UNCHANGED <<clock, boot, rules, events, reports, exDate>>

(* The rows a flush updates, and whether it must wait for another one's.    *)
ToFlush(c)  == Marked(evals[c]) \ evals[c].held
Waits(c, d) == c # d /\ ToFlush(c) \cap evals[d].held # {}
Flushing(c) == evals[c].running /\ (evals[c].event # {} \/ evals[c].todo = <<>>)
Granted(c)  == \A d \in Clients : ~Waits(c, d)

(* A row that was deleted in the meantime fails the flush; the failure is   *)
(* caught and the session not rolled back, so every later statement fails   *)
(* and the commit loses the whole evaluation.                               *)
Gone(c) == \E r \in ToFlush(c) \cup {v.rule : v \in evals[c].event} : ~Live(r)
Lost(c) == evals' = [evals EXCEPT ![c] = Idle]

(* ... and flushed with the marks of the rules before it; its own mark is  *)
(* set afterwards.                                                         *)
Emit(c) ==
  /\ evals[c].running /\ evals[c].event # {} /\ Granted(c)
  /\ IF Gone(c) THEN Lost(c)
     ELSE evals' = [evals EXCEPT
            ![c].held = Marked(evals[c]), ![c].todo = Tail(@), ![c].event = {},
            ![c].new = @ \cup evals[c].event,
            ![c].marks[Head(evals[c].todo).rule] = clock]
  /\ UNCHANGED <<clock, boot, rules, events, reports, exDate>>

Commit(c) ==
  /\ evals[c].running /\ evals[c].todo = <<>> /\ Granted(c)
  /\ Lost(c)
  /\ IF Gone(c) THEN UNCHANGED <<rules, events>>
     ELSE /\ events' = events \cup evals[c].new
          /\ rules' = [r \in RuleIds |-> IF r \in Marked(evals[c])
                         THEN [rules[r] EXCEPT !.last = evals[c].marks[r]] ELSE rules[r]]
  /\ UNCHANGED <<clock, boot, reports, exDate>>

(* The data source or the database fails, or the task times out. *)
Fail(c) ==
  /\ evals[c].running
  /\ Lost(c)
  /\ UNCHANGED <<clock, boot, rules, events, reports, exDate>>

-----------------------------------------------------------------------------
Tick ==
  /\ clock < MaxClock
  /\ clock' = clock + 1
  /\ exDate' = IF exDate < clock' THEN Never ELSE exDate
  /\ UNCHANGED <<boot, rules, events, reports, evals>>

Restart ==
  /\ boot < clock
  /\ boot' = clock
  /\ evals' = [c \in Clients |-> Idle]
  /\ UNCHANGED <<clock, rules, events, reports, exDate>>

Next ==
  \/ \E r \in RuleIds : CreateRule(r) \/ UpdateRule(r) \/ DeleteRule(r)
  \/ AckEvent \/ AckAll
  \/ StoreReport \/ StoreDividend
  \/ \E c \in Clients : Begin(c) \/ Pass(c) \/ Raise(c) \/ Emit(c) \/ Commit(c) \/ Fail(c)
  \/ Tick \/ Restart

Spec == Init /\ [][Next]_vars

-----------------------------------------------------------------------------
(* A report is raised again only by an evaluation that ran beside the first *)
(* one: an evaluation that began after an event was committed does not      *)
(* raise the same report for the same rule.  It is last_evaluated_at, read  *)
(* when the evaluation begins and written by any number of evaluations in   *)
(* any order, that must keep it from doing so.                              *)
ReportRaisedOnce ==
  \A v \in events : TypeOf[v.rule] = "financial_report_released" => ~v.again

(* Within one process, and as long as it is not older than dedupe_hours, a  *)
(* rule raises no second event after an evaluation that saw its first one,  *)
(* whatever was stored and evaluated in between (_should_dedupe).           *)
DedupedWhileYoung == \A v \in events : ~v.early

(* Both: within those bounds no evaluation raises again what an earlier one *)
(* has raised; a dividend older than dedupe_hours may be raised again.      *)
RaisedOnce == ReportRaisedOnce /\ DedupedWhileYoung

(* Two evaluations never wait for each other's rows: both go through the    *)
(* rules in one order (list_rules), so neither deadlocks in the database.   *)
NoLockCycle ==
  \A c, d \in Clients : ~(Flushing(c) /\ Flushing(d) /\ Waits(c, d) /\ Waits(d, c))

(* What the design says of financial_report_released: a statement stored    *)
(* since last_evaluated_at raises an event.  So when a rule that has raised *)
(* none yet is looked at and there is a statement, an event is raised.  It  *)
(* fails: the created_at of a statement is the time the process was        *)
(* started, and an evaluation that found no statement is later than that,  *)
(* so the rule never raises an event.                                       *)
NewReportRaised ==
  [][\A c \in Clients :
       evals[c].todo # <<>> /\ evals'[c].running /\ evals'[c].todo # evals[c].todo =>
         LET r == Head(evals[c].todo).rule IN
           TypeOf[r] = "financial_report_released" /\ reports # {} =>
             \E v \in events \cup evals'[c].new : v.rule = r]_vars
=============================================================================
