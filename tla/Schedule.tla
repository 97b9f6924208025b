------------------------------ MODULE Schedule -------------------------------
(***************************************************************************)
(* When work is due, as functions of what the code reads: the day-of-week  *)
(* field of a crontab expression (scheduler_config_service.py), the        *)
(* engine's check for cron tasks (task/engine.py) and the calendar of      *)
(* trading days (trading_calendar_service.py).  The trigger itself is      *)
(* APScheduler's and is modelled from how the code uses it.                *)
(***************************************************************************)
EXTENDS Values

\* A refused expression is told from the days of one that is accepted.
ASSUME NoneIsNoDays == \A days \in SUBSET (0..6) : days # None

-----------------------------------------------------------------------------
(* The day-of-week field: a list of parts, each a number, a range or a step.*)
(* Crontab counts the days from Sunday = 0, APScheduler from Monday = 0.    *)

Single(d)      == [kind |-> "single", lo |-> d, hi |-> d]
DowRange(a, b) == [kind |-> "range",  lo |-> a, hi |-> b]
Step(a, b)     == [kind |-> "step",   lo |-> a, hi |-> b]   \* a-b/2

Sunday0(d)  == (d + 6) % 7          \* a crontab day as APScheduler counts it
HasName(d)  == d \in 0..7

(* Mutant of TranslatePart: the numbers are passed on as they are. *)
TranslatePartVerbatim(p) == p

(* Named days are shown by APScheduler's number for them; a number without  *)
(* a name, and a step, are passed on as they are.                           *)
TranslatePart(p) ==
  IF p.kind # "step" /\ HasName(p.lo) /\ HasName(p.hi)
  THEN [p EXCEPT !.lo = Sunday0(@), !.hi = Sunday0(@)]
  ELSE p

TranslateDowField(parts) == {TranslatePart(p) : p \in parts}

(* CronTrigger: a part out of 0..6, or a range that runs backwards, is      *)
(* refused, and with it the whole expression.                               *)
ApsAccepts(parts) == \A p \in parts : p.lo >= 0 /\ p.lo <= p.hi /\ p.hi <= 6
ApsDays(parts)    ==
  {d \in 0..6 : \E p \in parts :
     d \in p.lo..p.hi /\ (p.kind = "step" => (d - p.lo) % 2 = 0)}

(* The days on which an expression fires: None when it is refused. *)
CronToTrigger(parts) ==
  LET field == TranslateDowField(parts)
  IN  IF ApsAccepts(field) THEN ApsDays(field) ELSE None

-----------------------------------------------------------------------------
(* The check for cron tasks, every CHECK_INTERVAL seconds or, as the loop   *)
(* sleeps a second between two looks at its clock, a little later.          *)

CHECK_INTERVAL == 60
CHECK_WINDOW   == Max({CHECK_INTERVAL, 30})

(* now() has no time zone; the trigger of cron_to_trigger has one. *)
Moment(t)   == [at |-> t, aware |-> FALSE]
FireTime(t) == [at |-> t, aware |-> TRUE]

(* get_next_fire_time(None, from): the first of the task's times from then. *)
NextFire(times, from) ==
  LET later == {t \in times : t >= from.at}
  IN  IF later = {} THEN None ELSE FireTime(Min(later))

Comparable(a, b) == a.aware = b.aware

(* A cron task: whether its expression is valid, its times, and whether it  *)
(* has a queued or running run.  The tasks for which a run is queued: none  *)
(* when a comparison raises, for the transaction is given up.               *)
CheckCronTasks(tasks, now) ==
  LET from     == Moment(now.at - CHECK_WINDOW)
      Next(t)  == NextFire(tasks[t].times, from)
      timed    == {t \in DOMAIN tasks : tasks[t].valid /\ Next(t) # None}
  IN  IF \E t \in timed : ~Comparable(Next(t), now) THEN {}
      ELSE {t \in timed : Next(t).at <= now.at /\ ~tasks[t].outstanding}

-----------------------------------------------------------------------------
(* The trading calendar: rows for some dates, and Monday to Friday for the  *)
(* others.  A date is a number whose remainder by seven is its weekday.     *)

IsTradingDay(rows, day) ==
  IF day \in DOMAIN rows THEN rows[day] ELSE day % 7 < 5

TradingDaysInRange(rows, start, end) == {d \in start..end : IsTradingDay(rows, d)}

(* seed_default_holidays: a date with a row keeps it. *)
SeedHolidays(rows, holidays) ==
  [d \in DOMAIN rows \cup holidays |-> IF d \in DOMAIN rows THEN rows[d] ELSE FALSE]

-----------------------------------------------------------------------------
(* Properties, each of one input.                                            *)

CrontabDays(parts) ==
  UNION {{d % 7 : d \in p.lo..p.hi} : p \in parts}

(* cron_to_trigger: an expression of numbers and ranges that is accepted    *)
(* fires on the days that crontab gives it, 0 and 7 both being Sunday, and  *)
(* every range from Monday to Saturday is accepted.  Steps are passed on a  *)
(* day late, and 0-7 as Sunday alone.                                       *)
FiresOnItsDays(parts) ==
  (\A p \in parts : p.kind # "step" /\ p.lo <= p.hi /\ p # DowRange(0, 7)) =>
    /\ CronToTrigger(parts) # None =>
         CronToTrigger(parts) = {Sunday0(d) : d \in CrontabDays(parts)}
    /\ (\A p \in parts : 1 <= p.lo /\ p.lo <= p.hi /\ p.hi <= 6) => CronToTrigger(parts) # None

(* _check_cron_tasks: a task whose time came after the last check is queued *)
(* by this one, unless it has a run already.                                *)
DueIsQueued(tasks, last, now) ==
  \A t \in DOMAIN tasks :
    (/\ tasks[t].valid /\ ~tasks[t].outstanding
     /\ \E at \in tasks[t].times : last < at /\ at <= now)
    => t \in CheckCronTasks(tasks, Moment(now))

(* Seeding the known holidays closes each of them, overrules no row that    *)
(* somebody entered, and changes nothing the second time.                   *)
HolidaysClosed(rows, holidays, first, end) ==
  LET seeded == SeedHolidays(rows, holidays)
  IN  /\ \A d \in (holidays \ DOMAIN rows) \cap first..end : d \notin TradingDaysInRange(seeded, first, end)
      /\ \A d \in first..end \ (holidays \ DOMAIN rows) :
           IsTradingDay(seeded, d) = IsTradingDay(rows, d)
      /\ SeedHolidays(seeded, holidays) = seeded
=============================================================================
