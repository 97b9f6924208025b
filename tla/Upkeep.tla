------------------------------- MODULE Upkeep -------------------------------
(***************************************************************************)
(* Records that both the program and its users write: the tasks that the   *)
(* registry writes at every start (task/registry.py, routers/task.py), the *)
(* jobs of the scheduler (scheduler_config_service.py), system alerts      *)
(* (system_alert_service.py), the drafts of a stock whose thesis broke     *)
(* (event_handlers.py), and the runs of an evaluation                      *)
(* (eval_set_service.py).                                                  *)
(***************************************************************************)
EXTENDS Values

(* f with the entries of g, where g has one. *)
Updated(f, g) == [x \in DOMAIN f \cup DOMAIN g |-> IF x \in DOMAIN g THEN g[x] ELSE f[x]]

-----------------------------------------------------------------------------
(* Tasks: rows are a function from names to [config, tags, enabled, status],*)
(* where config stands for all that a definition in the code sets anew: the *)
(* cron expression, time-out, retries, dependencies, mutex and description. *)

(* Mutant of SyncToDb: what the code defines is enabled again.              *)
SyncToDbEnables(rows, code) ==
  Updated(rows, [t \in DOMAIN code |->
    IF t \in DOMAIN rows
    THEN [rows[t] EXCEPT !.config = code[t], !.enabled = TRUE]
    ELSE [config |-> code[t], tags |-> code[t], enabled |-> TRUE, status |-> "active"]])

SyncToDb(rows, code) ==
  Updated(rows, [t \in DOMAIN code |->
    IF t \in DOMAIN rows
    THEN [rows[t] EXCEPT !.config = code[t]]
    ELSE [config |-> code[t], tags |-> code[t], enabled |-> TRUE, status |-> "active"]])

(* An edit is [task, config, enabled, status], None for what it keeps: a    *)
(* pause, a resumption or a PUT of any fields.                              *)
Pause(t)  == [task |-> t, config |-> None, enabled |-> FALSE, status |-> None]
Resume(t) == [task |-> t, config |-> None, enabled |-> TRUE, status |-> "active"]
Put(t, config, enabled) == [task |-> t, config |-> config, enabled |-> enabled, status |-> None]

Or(new, old) == IF new = None THEN old ELSE new

EditTask(rows, edit) ==
  IF edit.task \notin DOMAIN rows THEN rows
  ELSE [rows EXCEPT ![edit.task].config  = Or(edit.config, @),
                    ![edit.task].enabled = Or(edit.enabled, @),
                    ![edit.task].status  = Or(edit.status, @)]

ActiveTasks(rows) == {t \in DOMAIN rows : rows[t].enabled}

(* Jobs are [cron, enabled]; valid are the expressions a trigger accepts.   *)
DISABLED_BY_DEFAULT == {"intraday_price_poll"}

EnsureDefaults(jobs, defaults) ==
  Updated([j \in DOMAIN defaults |->
             [cron |-> defaults[j], enabled |-> j \notin DISABLED_BY_DEFAULT]], jobs)

UpdateConfig(jobs, edit, valid) ==
  IF edit.job \notin DOMAIN jobs \/ (edit.cron # None /\ edit.cron \notin valid) THEN jobs
  ELSE [jobs EXCEPT ![edit.job] = [cron |-> Or(edit.cron, @.cron), enabled |-> Or(edit.enabled, @.enabled)]]

ApiUpdateJob(jobs, defaults, edit, valid) ==
  IF edit.job \notin DOMAIN defaults \/ (edit.cron = None /\ edit.enabled = None) THEN jobs
  ELSE UpdateConfig(jobs, edit, valid)

-----------------------------------------------------------------------------
(* System alerts: [id, severity, category, by], by None while unresolved,   *)
(* and else who resolved it.                                                *)
ASSUME NoneIsNoResolver == None \notin {"user", "auto"}

Matches(a, filter) ==
  /\ filter.severity \in {None, a.severity}
  /\ filter.category \in {None, a.category}

Unresolved(alerts, filter) == {a \in alerts : a.by = None /\ Matches(a, filter)}

ResolveAlert(alerts, id, by) ==
  {IF a.id = id /\ a.by = None THEN [a EXCEPT !.by = by] ELSE a : a \in alerts}

ResolveMatching(alerts, filter, by) ==
  {IF a \in Unresolved(alerts, filter) THEN [a EXCEPT !.by = by] ELSE a : a \in alerts}

CriticalUnresolved(alerts) ==
  Cardinality({a \in alerts : a.severity = "critical" /\ a.by = None})

-----------------------------------------------------------------------------
(* A signal to sell: what the database holds of the stock is s, a record    *)
(* [held, buys, sells, pct, audit, alerts]: counts of its pending BUY and   *)
(* thesis_breach SELL drafts, the percentage the SELL asks to sell, counts  *)
(* of audit entries and of alerts.                                          *)

(* Every pending BUY of the stock is superseded; a pending SELL is written  *)
(* over, whatever signal it is from.  Two pending SELLs make the look-up    *)
(* fail, and the transaction with it.                                       *)
SupersedePendingBuys(s) == [s EXCEPT !.buys = 0]

CreateThesisBreachSell(s, pct) ==
  IF ~s.held \/ s.sells > 1 THEN s
  ELSE [SupersedePendingBuys(s) EXCEPT !.sells = 1, !.pct = pct,
                                       !.alerts = IF s.sells = 0 THEN @ + 1 ELSE @]

(* fails names the steps of the handler that fail: the audit, the alert,    *)
(* its dispatch, the last commit. A failure of the database leaves the      *)
(* session unusable, one of the dispatch does not: nothing is rolled back   *)
(* before the last step.                                                    *)
OnThesisAlertTriggered(s, fails) ==
  LET audited == [s EXCEPT !.audit = @ + 1]
      alerted == IF "alert" \in fails THEN audited ELSE [audited EXCEPT !.alerts = @ + 1]
  IN  IF "audit" \in fails THEN s
      ELSE IF fails \cap {"alert", "commit"} = {} THEN CreateThesisBreachSell(alerted, 100)
      ELSE alerted

(* Signals 2, 3 and 5, with their numbers in percent; a signal that is not  *)
(* given leaves the drafts alone. run_all_signals runs 2 and then 3.        *)
TRIM_RATIO_OVERVALUED == 50

ScanValuationOvervalued(s, percentile) ==
  IF percentile = None \/ percentile < 90 THEN s ELSE CreateThesisBreachSell(s, TRIM_RATIO_OVERVALUED)

ScanPositionOverweight(s, weight) ==
  IF weight = None \/ weight <= 15 THEN s
  ELSE CreateThesisBreachSell(s, (100 * (weight - 10)) \div weight)

CheckFundamentalDeterioration(s, pipeline, action) ==
  IF <<pipeline, action>> \in {<<"news_pulse", "thesis_review">>, <<"earnings_review", "invalidates">>}
  THEN CreateThesisBreachSell(s, 100) ELSE s

RunAllSignals(s, percentile, weight) ==
  ScanPositionOverweight(ScanValuationOvervalued(s, percentile), weight)

-----------------------------------------------------------------------------
(* The runs of an evaluation: items are a function from the stocks of the   *)
(* run to [status, score, cost, conflicts, red], and counts what the run    *)
(* itself counts.                                                           *)

RunEval(stocks) ==
  [items  |-> [c \in stocks |-> [status |-> "pending", score |-> None, cost |-> None,
                                 conflicts |-> 0, red |-> FALSE]],
   status |-> "completed", passed |-> 0, failed |-> 0, stock_count |-> Cardinality(stocks)]

(* Every update counts, whether the item was counted before or not. *)
UpdateItem(run, c, status, score) ==
  IF c \notin DOMAIN run.items THEN run
  ELSE [run EXCEPT !.items[c].status = status,
                   !.items[c].score  = Or(score, @),
                   !.passed = IF status = "completed" THEN @ + 1 ELSE @,
                   !.failed = IF status = "failed" THEN @ + 1 ELSE @]

OrZero(x) == Or(x, 0)

(* In tenths of a point; a score that is missing counts as 0. *)
ScoreDiff(before, after, c) ==
  LET Score(run) == IF c \in DOMAIN run.items THEN OrZero(run.items[c].score) ELSE 0
  IN  Score(after) - Score(before)

CompareRuns(before, after) ==
  LET i1 == before.items
      i2 == after.items
      Differs(c) == \/ Abs(ScoreDiff(before, after, c)) > 1
                    \/ c \notin DOMAIN i1 \cap DOMAIN i2
                    \/ i1[c].status # i2[c].status
                    \/ i1[c].conflicts # i2[c].conflicts
                    \/ i1[c].red # i2[c].red
                    \/ Abs(OrZero(i2[c].cost) - OrZero(i1[c].cost)) > 1
      changed == {c \in DOMAIN i1 \cup DOMAIN i2 : Differs(c)}
  IN  [c \in changed |-> ScoreDiff(before, after, c)]

-----------------------------------------------------------------------------
(* Properties, each of one input.                                            *)

After(rows, edits) == FoldLeft(EditTask, rows, edits)

(* sync_to_db at a restart, after any edits: what a user paused stays       *)
(* paused and what he resumed resumed, a row of a task that the code no     *)
(* longer defines is not touched, and the second restart changes nothing.   *)
(* The configuration is the code's again, whatever a user set.              *)
RestartKeepsPauses(rows, code, edits) ==
  LET edited    == After(rows, edits)
      restarted == SyncToDb(edited, code)
  IN  /\ ActiveTasks(restarted) = ActiveTasks(edited) \cup (DOMAIN code \ DOMAIN rows)
      /\ \A t \in DOMAIN rows \ DOMAIN code : restarted[t] = edited[t]
      /\ \A t \in DOMAIN code : restarted[t].config = code[t]
      /\ SyncToDb(restarted, code) = restarted

(* ensure_defaults and api_update_job: after an edit and a restart every    *)
(* default job has one configuration, with an expression that a trigger     *)
(* accepts, and what the user set stands.                                   *)
JobEditsStand(jobs, defaults, edit, valid) ==
  LET started   == EnsureDefaults(jobs, defaults)
      edited    == ApiUpdateJob(started, defaults, edit, valid)
      restarted == EnsureDefaults(edited, defaults)
  IN  /\ restarted = edited
      /\ DOMAIN defaults \subseteq DOMAIN restarted
      /\ (\A j \in DOMAIN jobs : jobs[j].cron \in valid) =>
           \A j \in DOMAIN restarted : restarted[j].cron \in valid
      /\ \A j \in DOMAIN jobs \ {edit.job} : restarted[j] = jobs[j]

(* resolve_alert and resolve_matching, one after the other: who resolved an *)
(* alert first stays its resolver, the filter is left without unresolved    *)
(* alerts, no other alert is resolved, and none is lost.                    *)
FirstResolverStays(alerts, id, filter) ==
  LET one == ResolveAlert(alerts, id, "user")
      all == ResolveMatching(one, filter, "auto")
  IN  /\ Unresolved(all, filter) = {}
      /\ \A a \in alerts : \E b \in all :
           /\ b.id = a.id /\ b.severity = a.severity /\ b.category = a.category
           /\ b.by = IF a.by # None THEN a.by
                     ELSE IF a.id = id THEN "user"
                     ELSE IF Matches(a, filter) THEN "auto" ELSE None
      /\ Cardinality(all) = Cardinality(alerts)
      /\ CriticalUnresolved(all) <= CriticalUnresolved(alerts)

(* on_thesis_alert_triggered: it never supersedes the pending BUYs of a     *)
(* stock without leaving one SELL of it, and does so whenever the stock is  *)
(* held and the database does not fail, however the dispatch goes; the same *)
(* alert a second time adds no second SELL.                                 *)
BreachIsWhole(s, fails) ==
  LET t == OnThesisAlertTriggered(s, fails)
      u == OnThesisAlertTriggered(t, {})
  IN  /\ t.buys = s.buys \/ (t.buys = 0 /\ t.sells = 1)
      /\ s.held /\ s.sells <= 1 /\ fails \subseteq {"dispatch"} =>
           t.buys = 0 /\ t.sells = 1 /\ t.pct = 100
      /\ t.sells > s.sells => t.audit > s.audit /\ t.alerts > s.alerts
      /\ s.sells <= 1 => u.sells <= 1

(* run_all_signals: whatever signals meet on one stock leave one SELL, for  *)
(* a part between nothing and all, and raise one alert for it; a stock that *)
(* is not held gets none. Earnings that refute the thesis sell all of it.   *)
SignalsLeaveOneSell(s, percentile, weight) ==
  LET t == RunAllSignals(s, percentile, weight) IN
  /\ s.sells <= 1 => t.sells <= 1
  /\ t.sells = 1 /\ s.sells = 0 => t.pct \in 1..100 /\ t.alerts = s.alerts + 1 /\ t.buys = 0
  /\ ~s.held => t = s
  /\ RunAllSignals(t, percentile, weight) = t
  /\ s.held /\ s.sells <= 1 => CheckFundamentalDeterioration(t, "earnings_review", "invalidates").pct = 100

(* "thesis_tracker INVALIDATED: SELL 100%" (docs/active/                    *)
(* redesign-decisions-v2.md:116): the day's trim signals leave that as it is.*)
SellAllStands(s, percentile, weight) ==
  LET t == OnThesisAlertTriggered(s, {}) IN
  t.sells = 1 /\ t.pct = 100 => RunAllSignals(t, percentile, weight).pct = 100

(* update_item and compare_runs: a run whose items are updated once each    *)
(* counts them right, and two runs differ by the same stocks in either      *)
(* order, by opposite amounts, and a run never from itself.                 *)
DriftIsSymmetric(before, after) ==
  LET there == CompareRuns(before, after)
      back  == CompareRuns(after, before)
  IN  /\ DOMAIN there = DOMAIN back
      /\ \A c \in DOMAIN there : there[c] = -back[c]
      /\ CompareRuns(before, before) = <<>>

CountsItems(run) ==
  /\ run.passed = Cardinality({c \in DOMAIN run.items : run.items[c].status = "completed"})
  /\ run.failed = Cardinality({c \in DOMAIN run.items : run.items[c].status = "failed"})

EvalIsCounted(updates) ==
  LET stocks == {"a", "b"}
      run    == FoldLeft(LAMBDA r, u : UpdateItem(r, u.code, u.status, u.score), RunEval(stocks), updates)
      once   == \A i, j \in DOMAIN updates : i # j => updates[i].code # updates[j].code
  IN  /\ once => CountsItems(run) /\ run.passed + run.failed <= run.stock_count
      /\ DriftIsSymmetric(RunEval(stocks \ {"a"}), run)
      /\ DriftIsSymmetric(RunEval(stocks), run)
=============================================================================
