# A TLA+ model of Gojira

Gojira (`src/README.md`) is a single-user investment autopilot for A shares: it
synchronises market data, screens and researches stocks with an LLM, drafts
orders, books the trades the user confirms and watches the positions. The
program is a FastAPI process with SQLAlchemy on PostgreSQL, a task engine with
its own threads, and a React front end. This directory models its back end,
`src/backend/app`: seven state machines for the parts where something happens
at the same time as something else, and a group of modules for the rules that
are functions of what they read.

## 1. Inventory

Paths are relative to `src/backend/app`. "Hard" says what a test hardly reaches.

| Component | State | Operations | Hard | What makes it correct | Modules |
|---|---|---|---|---|---|
| **TaskEngine** (`services/task`, `routers/task.py`) | rows of `tasks` and `task_runs`; in memory the loop's batch, coroutines, worker threads, `_running_tasks`, `_active_runs` | trigger, cancel, pause, resume, update; cron check, tick, dispatch, finalize, watchdog; start with recovery, shutdown | five kinds of threads write the same rows without locks; crash and restart; time-outs that race with answers; retries | a request is attempted once at a time and at most `max_retries + 1` times; no run is stranded; the queue drains | `TaskEngine`, `RetryChain`, `Upkeep` |
| **Task functions** (`tasks/`) | none of their own | some thirty jobs | they catch their own exceptions | see the services they call | with the services |
| **Trade ledger** (`trade_service`, `position_service`, `routers/trades.py`, `routers/cash.py`) | append-only `trades`, the single row of `cash_balance`, `cash_adjustments` | record, reverse, deposit; positions are folded from the trades | transactions at READ COMMITTED that read, compute in Python and write back; T+1; reversal | the balance is what the ledger says; shares sold the day they were bought are never sold; one reversal per trade | `Ledger`, `TradeRules` |
| **Corporate actions** (`corp_action_processor_service`, `corp_action_sync_service`, `routers/corp_actions.py`) | `corp_actions.processed_at`, rows of `trades` | sync, process one, process all, daily task | failure in the middle of a batch; two batches at once; two records of a day | an action is stored once, applied once and whole | `Ledger`, `Universe` |
| **Drafts** (`draft_service`, `draft_generator`, `sell_trigger`, `routers/drafts.py`) | `drafts` | generate, expire, supersede, breach, trim, execute, cancel | two cron jobs at the same minute, users; execution writes two tables | one open draft per stock and side; a draft is filled once; a broken thesis leads to a SELL | `Drafts`, `Upkeep` |
| **Cron windows** (`scheduler_config_service`, `_check_cron_tasks`) | the time of the check; jobs users reschedule | translate an expression, decide what is due | windows that overlap or leave gaps; naive and aware times; two countings of the days of a week | a due time fires once, on its day | `Schedule`, `Upkeep` |
| **Pipelines** (`services/pipelines`, `tasks/data_sync.py`) | `pipeline_runs`, `_cancelled_runs`, checkpoints, dead letters, the data tables | start, execute, cancel, retry, sweep, clean up | cancel and sweep race with the worker; load and checkpoint are two commits; a failed flush breaks the session | no hole behind a checkpoint; a failure leaves its letter; a run settles, by its thread or at a later start | `DataSync`, `TradeRules`, `Universe`, `Meters` |
| **Lixinger client** (`services/lixinger_client.py`) | breaker, cache, alert flag | requests with retries, pages, segments | calls in flight while the breaker changes; an alert that is marked later than written | opens on failures in a row, tells the operator, lets calls through again | `LixingerClient`, `Universe` |
| **Reports and lifecycle** (`routers/research_v2.py`, `services/pipelines/llm`, `lifecycle_service`) | `research_reports`, `theme_scan_reports`, `stock_lifecycle` | request, queue, run, conclude, cancel, recover; screen, weekly research | the process ends between placeholder, job and verdict; three writers of one row; calls that hang | no report is forgotten, and one that is settled stays so; the funnel follows the verdict | `Research`, `ThemeScan` |
| **Judgement** (`services/llm`, `core/scoring_config.py`) | `llm_call_logs`, `red_line_events` | score, red lines, conflicts, budget; call with attempts | missing masters and fields, JSON null, thresholds | a red line rejects; a higher score is never worse | `Judgement`, `Meters` |
| **Alerts** (`alert_service`, `system_alert_service`, `core/event_handlers.py`) | rules, events, `last_evaluated_at` | evaluate, create, switch, delete; emit and resolve | two evaluations, windows measured against import-time columns, row locks | an event is raised once; no deadlock; the first to resolve stays | `Alerts`, `Upkeep` |
| **Portfolio and valuation** (`holding_service`, `cockpit_service`, `valuation_service`, `financial_service`, `dividend_service`) | none | sums, weights, signals, percentiles, yields | absent numbers, boundaries, parts that fail | totals add up; a better number is never judged worse | `Portfolio`, `Valuation` |
| **Stocks, pages, quality** (`stocks_sync_service`, `universe_bootstrap_pipeline`, `routers/stocks.py`, `data_quality_service`, `evaluation_service`) | `stocks` and its tables | synchronise, list, edit, clean up, evaluate | a list that changes between two pages; filters after paging | rows mirror the answers; pages show each stock once; a preview is what is deleted | `Universe`, `Reads`, `Quality` |
| **Start-up** (`main.py`) | none | pipelines, reports and engine recovered in this order | the engine ticks while it recovers; a recovery that fails is logged and forgotten | what a start could recover is not left running | in each state machine |
| **Front end, observability** | none others depend on | presentation, logs | - | - | - |

How they interact: the engine calls task functions in its pool; task functions
and HTTP requests open a session each (`db/session.py`) and call the services;
services call each other in the caller's session and meet other sessions only
in the database; `core/events.py` delivers to handlers in the caller's thread
or in a pool of four. So there are two kinds of concurrency: threads that share
rows *and* memory (`TaskEngine`, `LixingerClient`, the cancelled set of
`DataSync`), and sessions that share rows only (`Ledger`, `Drafts`, `Research`,
`Alerts`). `Drafts` is composed with `Ledger` (a fill writes both), and
`Research` carries the part of the engine it needs: a queued job, its
cancellation and its retry.

`PROJECT.json` lists every component with its status, the lines each definition
translates, and the hazards at their lines.

## 2. Plan

| Order | Modules | Subject | State |
|---|---|---|---|
| 1 | `RetryChain`, `TaskEngine`, `TaskEngineProofs` | the task engine, what it promises, and the proofs | done |
| 2 | `Ledger`, `LedgerProofs`, `Drafts` (extends `Ledger`) | trades, cash, corporate actions; drafts on top | done, proved |
| 3 | `DataSync`, `DataSyncProofs` | pipelines, tasks, checkpoints, dead letters, sweep | done, proved |
| 4 | `LixingerClient`, `LixingerClientProofs` | breaker, cache, outage alerts | done, proved |
| 5 | `Research`, `ResearchProofs` | placeholders, jobs, verdicts, the funnel | done, proved |
| 6 | `Alerts`, `AlertsProofs` | rules, evaluations, events | done, proved |
| 7 | `Judgement`, `Schedule`, `Portfolio`, `Valuation`, `TradeRules`, `Universe`, `Quality`, `Upkeep`, `Meters`, `ThemeScan`, `Reads` | the rules that are functions, against reference definitions | done |
| 8 | `LedgerProofs`, its second half | `FilledOnce`, `OneOpenDraft`, `SettledDraftIsFinal`, `BreachSells` for every instance, and the ledger's invariants for the transactions of `Drafts`: a fill is a trade of a session that did something else before | done |
| 9 | `RulesProofs` | the rules of the calendar, of orders, portfolios, verdicts, valuation and quality, for inputs of any size and not only around the thresholds | done |
| 10 | `DataRulesProofs` | the same for the rules about rows: the universe, what is read and measured, and what users and program both write | done |
| 11 | what sorts, cuts and joins sequences (`ListsAreSound`) | pages, rankings, bands | model-checked; see section 12 |

## 3. The task engine

`TaskEngine.tla` has one action per step of one thread:

| Thread | Actions | Code |
|---|---|---|
| loop | `TickLoad`, `TickDisabled`, `TickSkip`, `TickDispatch`, `CronFire`; between two ticks `Submit`, `Complete`, `ExecTimeout` | `_process_pending_tasks`, `_dispatch_run`, `_check_cron_tasks`, `_execute_and_finalize`, `_finalize_run` |
| pool | `FnStart`, `FnEnd` | `TaskExecutor` |
| watchdog | `WatchdogRead`, `WatchdogCommit` | `_check_timeouts`, `_on_task_timeout` |
| API | `Trigger`, `CancelRead`, `CancelCommit`, `PauseTask`, `ResumeTask`, `UpdateTask` | `routers/task.py` and the methods of the engine it calls |
| start-up | `Start`, `RecoverRead`, `RecoverCommit` | `TaskEngine.start`, `_recover_stale_runs` |
| operator | `Stop` | `shutdown`, or a crash |

The variables are the columns of `tasks` and `task_runs` that control anything
(`status`, `info`, `enabled`, `taskStatus`), the engine's in-memory tables
(`batch`, `tracked`, `activeRuns`), how far each run's coroutine and function have
come (`stage`), and the transactions that have read a row and not committed
(`txs`). `Finalize` is the transaction of `_finalize_run` with the retry that
`RetryManager.schedule_retry` inserts.

Details of the code the model keeps because they decide properties:

- the loop thread is started before the recovery runs, so a tick may dispatch
  what the recovery has read;
- `created_at` has a default computed at import, so the runs of one process tie
  in every `ORDER BY created_at` (`info.born`, `LastRuns`);
- the mutex looks at one row of an unordered query that includes queued runs
  (`MayAcquire`, `MayConflict`);
- a function that times out keeps its worker (`zombie`);
- cancelling changes the row only; the function goes on and `_finalize_run`
  overwrites the row;
- the watchdog fails the row and leaves the retry to the coroutine's time-out.

`RetryChain.tla` is the abstract specification: a request is a chain of attempts,
of which at most one waits or is active, each is active once, and a failed one
has at most one successor while retries are left. It does not speak of the
status in the database, which several threads overwrite. `TaskEngine` implements
it under the mapping `chainAttempt`, `chainPhase` (property `PromiseKept`).

Left out of this part: when a cron task is due (a cron insertion may happen at
any time), `task_run_logs`, the stored progress and result, the backoff time (which the
code computes and does not use), failing commits, and that a tick's rows become
visible to others only when it commits.

| Run | Instance | Properties |
|---|---|---|
| `engine_retry` | one task, two retries (three attempts), one request, two processes, one worker | `OneRunPerAttempt`, `NoLostRetry`, `NoBookkeepingLeak`, `NoOrphanRun`, `PromiseKept`, `RunsEnd` |
| `engine_queue` | three tasks: one with the mutex, one that depends on it, one without a definition; two runs, batches of one, no restart, users who pause and resume | `TypeOK`, `TaskStatusSettles`, `DispatchedOnce`, `SettledIsFinal`, `QueueDrains` |

Two retries are the least with which a second finalizer could insert a second
successor of an attempt that already has one; one worker is the least with
which a function that never returns blocks the others; two processes are one
recovery. The stages a run goes through are independent of how many runs wait.

### Fairness

`FairSpec` assumes that start-up finishes and that the loop thread ticks and works
through its batch (weak fairness; both are plain loops), and that a callback that is
ready in pause after pause of the loop is run (strong fairness on `Resume`: asyncio
runs all ready callbacks between two ticks), which includes the time-out of
`asyncio.wait_for`. Nothing is assumed of the order in which an unordered query
returns its rows, so neither the limit of a tick (one run in `engine_queue`, with
two that wait) nor the mutex ever has to let a run pass: `QueueDrains` excuses the runs
that may be passed over again and again (`MayBePassedOver`), and promises the others
that they leave the queue.
Nothing is assumed of users, cron, task functions, crashes or the watchdog.

### Proofs

`TaskEngineProofs.tla` holds for all tasks, retries, workers, limits and bounds
that satisfy `ConstantsAssumption`.

1. `TypeCorrect`: `TypeOK` is inductive.
2. `NoOrphans`, `TablesClean`, `AtMostOneDispatch`: from `OrphanInv`. "A running
   row has a live coroutine" is not inductive, since it fails between the end of a
   process and the commit of the recovery; `OrphanInv` says instead that a running row
   has a live coroutine *or* is still ahead of the recovery (`Unrecovered`), and
   that what the tick holds in its batch has not been dispatched.
3. `AttemptsUnique`, `RetriesKept`: from `AttemptInv`, which adds that the attempts of a
   request are numbered without gaps, that all but the last are over, and that a
   last one exists. Without the middle part a second finalizer could insert a second
   successor of an attempt.
4. `SettledStays`: action property, from the same invariants.
5. `TaskStatusFollows`: from `StatusInv`. `TaskStatusSettles` speaks of tasks none
   of whose runs is in the works; a step that ends one run can leave others, and
   what those will do to `tasks.status` depends on where they are. `StatusInv`
   says that a task shown as queued or running has a run that *answers* for it
   (`Answers`): one with a coroutine, one whose coroutine was lost in a restart, or a
   queued one whose readers (recovery, cancel) will all write the task together
   with the row. It rests on `TypeOK` alone.
6. `EngineKeepsPromise`: the initial state maps to the initial state of
   `RetryChain`, and each action to one of its steps or a stutter.

Only model-checked: the liveness properties (fairness is out of the prover's
reach).

## 4. The ledger

`Ledger.tla` models sessions ("clients"): HTTP requests and tasks. The code takes
no row locks when it reads and writes the balance as a number computed from
the one it has read. So an operation is a transaction in steps: `Begin...` reads
and makes the checks that come first, `ReadCash` reads the balance and rejects a
BUY it does not cover, `Commit` makes the rows and the new balance visible,
`Rollback` may happen in between. What has been read and not committed is in `tx`.

| Definition | Code |
|---|---|
| `FoldTrade`, `Replay`, `Position`, `Available` | `position_service`: `_fold_trades`, `position_for`, `available_quantity` |
| `Value`, `SignedQty`, `Inflow`, `Admissible`, `BeginTrade`, `ReadCash`, `Commit` | `record_trade` |
| `Reversal`, `Effect`, `BeginReverse` | `reverse_trade` |
| `BeginAdjust` | `create_adjustment` |
| `BeginCorp`, `RowsFor`, `Apply`, `Break`, `Flush` | `process_pending_corp_actions`, `process_one`, the appliers, the API and the daily task |

A batch of corporate actions applies them in the order of the ex dates (any order
within a day), flushes after each, and so holds row locks until it commits. If an
action's parameters cannot be parsed, the batch ends and keeps what it has done;
if the database refuses a row (a merger into an unknown code), the session is
unusable and everything rolls back.

A row has two dates: `day` (`filled_at`, a field of the request) and `entered`
(`created_at`, the day of the commit). A record that cannot be parsed breaks its
batch only when shares of its stock are held, as the appliers look at the position
first.

Data is reduced to small numbers: prices and quantities are naturals (lots of one
or two), the fees of a side are a constant, the price band is met by every order,
days are numbered. Floating-point rounding is not modelled. `deposits` starts with an
opening deposit so that small instances reach the interesting part.

Some properties are stated for transactions that do not overlap (`overlapped`
is FALSE: no transaction has committed after another one had since it
began). This is on purpose: with overlapping ones the code loses updates of the
balance and lets two SELLs pass the T+1 check, and nothing in the code or its
documents promises otherwise. What holds even then is stated without the
condition: `BuyCovered`, `AppliedWhole`, and that a trade points at one of its
reversals.

| Run | Instance | Properties |
|---|---|---|
| `ledger_race` | two sessions, one stock, a dividend and a split of one day, three trades of users, two days | `AppliedOnce`, `ReversedOnce`, `TPlusOne`, `SpentIsCovered` |
| `ledger_serial` | one session, two stocks, every side of a trade, five actions (a dividend, a merger, one that cannot be parsed, one that breaks a foreign key, a delisting) | `CashMatchesLedger`, `AppliedWhole` |

Two sessions are enough for every property here: each concerns a pair of
commits, and what a third session commits is like a later step of the first.
Three trades are a BUY, its SELL and a reversal. Two days separate shares that
are frozen from those that are not.

In these runs fills are entered on their day (`Backdating = FALSE`, a bound of the
instances and of nothing else). `TPlusOne` speaks of the stocks whose rows are all
filled on the day they were entered (`Timely`). `Ledger_days.cfg` is an instance with
fills of any day (one session, two stocks, three days, four trades, a split):
`TPlusOne` holds in it as well, and `TPlusOneAnyDay`, the same of every stock, does not.

### Proofs

`LedgerProofs.tla` holds for any number of sessions, stocks, orders, corporate
actions, days and trades that satisfy `LedgerConstants`. Invariants:
`BalanceMatchesLedger`, `ReversalsMatch`, `ActionsAreWhole`,
`ActionsAreAppliedOnce`, `LedgerTypes`, and `NoSaleOnTheDayOfPurchase`, whatever
days users enter for their fills: of a stock without a row filled on another day
than it was entered. Action property: `NothingIsOverspent`. The argument has three parts.

1. *Folds become sums.* `Position` folds the rows day by day, `Total` adds
   numbers up; both are functions on an interval. `FoldMoves`, `ReplayMoves`
   and `PositionMoves` show that the shares held are the sum of what each row
   moves, whatever the order (`Held(rows, s) = Sum(rows, Shares(s))`), and the
   lemmas on `Sum` say what appending a row, changing one row and splitting a
   sequence do to a sum. So a position or a balance after a commit is the one
   before it plus what the commit appends and turns.
2. *`LedgerInv` is inductive.* Each session's transaction satisfies `TxOK`:
   `KindOK` says what its operation may write, `SeenOK` what it has read
   consistently, and `FreshOK`, only while no other session has committed since
   it began, that what it read is still so: the balance, the shares available
   for its SELL, `processed_at` of its actions, `reversed_by_trade_id` of its
   trade, and that its corporate actions take no position below zero. A commit
   takes the freshness of all others, so `FreshOK` needs to survive only the
   session's own steps and the passing of days. `CorpInv` adds that the two rows
   of a merger are neighbours, which is `AppliedWhole` without counting, and
   `ReversalInv` that a reversal comes after its trade.
3. *Commits.* Rows and balance change in commits only (`OnlyCommits`); there is
   one lemma for what a commit does to reversals, to corporate rows, to signs
   and days, to the balance (`CommitCash`) and to the T+1 sums (`Divided`,
   `CommitTrades`).

`LedgerInv` was checked as an invariant of both runs as well.

## 5. Drafts

`Drafts.tla` extends `Ledger`. A transaction on drafts is one of `Ledger` with
a second part, `dtx[c]`, which says what the session will write: new statuses
(`to`), new ratios (`cut`), new rows (`new`). `DraftCommit` is `Commit` and
those writes in one step; `DraftRollback` takes both back.

| Definition | Code |
|---|---|
| `BeginExecute`, `FlushExecute`, `Fill` | `draft_service.execute`, `routers/drafts.py: execute_draft` with `record_trade` in the same session |
| `BeginCancel` | `draft_service.cancel` |
| `BeginGenerate` | `generate_buy_drafts` with the expiry of old drafts |
| `BeginBreach`, `ThesisBreach`, `SellTrigger` | `create_thesis_breach_sell_draft` and its two callers |
| `DraftReadCash`, `DraftCommit`, `DraftRollback` | the session that serves all of these |

The run `drafts` has two sessions, one stock, two drafts, two trades, two days
and a validity of no day, so that a draft expires: `FilledOnce`,
`OneOpenDraft`, `SettledDraftIsFinal`, `BreachSells`.

What holds although sessions overlap is in `FilledOnce`: a draft that a trade
has filled is never pending again. The rest is stated for transactions that do
not overlap, because the status is checked on a copy that is not read again
when the row lock is granted: two requests may execute one draft twice.

### Proofs

The second half of `LedgerProofs.tla` holds for any number of stocks, sessions,
orders, drafts, trades and days (`LedgerConstants`, `DraftConstants`: the stocks are finitely
many, the bounds are naturals). `DraftsAreFilledOnce` and `OneDraftIsOpen` are
invariants, `SettledDraftsAreFinal` and `BreachesAreSold` action properties.
None of them follows from the drafts alone: what a commit does to the drafts
depends on what its session saw when it began. `DraftInv` adds

- `SessionInv`: a session that is still fresh (no one has committed since it
  began) has seen the drafts as they are: it changes pending drafts only and
  brings no row beside a pending one (`Prepared`); whether fresh or not, a
  session that fills a draft will set it to executed (`Filling`), and its trade
  names it;
- `RefsKnown`: a trade refers to a draft that exists;
- `NoTwins`: `OneOpenDraft` without counting.

Drafts change in commits only (`OnlyCommits`), and a commit takes the freshness
of all other sessions, so `Prepared` needs to hold only where no one has written
since; every action but the commit is a case of one lemma (`SessionKeeps`).
`BreachesAreSold` (`BreachSells`) has an invariant of its own, `BreachInv`: a fresh
session in which a thesis broke would, committed on the drafts as they are,
supersede every pending BUY of the stock and leave a pending SELL of all of it,
updated or new (`Sells`). Whether the stock is held is asked when the session
begins and not again, so nothing of how `Ledger` computes a position is needed.
`CommitDrafts` says what a commit does to each draft and is shared with the
invariants above.

It also carries the results of the first half over to the transactions of
`Drafts`: `FillsKeepTheLedger` (`CashMatchesLedger` and `TPlusOne`)
and `FillsAreCovered` (`SpentIsCovered`). This
is no instance of the ledger's own theorems: a session that executes a draft
begins with no trade in hand, is checked for shares later (`FillKeepsLedger`), and
may have been overtaken in between, so that a trade in hand is not fresh from the
start as it is in `BeginTrade`. `LedgerInv` allows for such sessions (kind "other" in
`KindOK`), and its lemmas on reading, committing and rolling back apply to
`DraftReadCash`, `DraftCommit` and `DraftRollback` as they are.

## 6. Pipelines

`DataSync.tla` models a pipeline run as a thread with a session, from one commit
(or one read that is used later) to the next: `Load`, `Enter`, `Work` (fetch,
load, commit, checkpoint of each item), `End`, `Leave`; beside it users start,
cancel, retry and delete, the sweep fails runs that look dead (at a start-up, or when a
user triggers its task: the check for cron tasks queues nothing, `rules_cron`),
tasks fill the same tables by other code, and the process restarts.

Kept because it decides properties: rows and checkpoint are two commits; the
days already stored are read before the new ones are inserted, and the insert
has a unique key, so that a run may meet rows of another; a flush that fails
leaves the session unusable (`poisoned`), and the items after it fail as well;
the set of cancelled runs is in memory, the row is not read again until the
end; the commit that ends a run may fail, also the one that is to mark it as failed after
a letter could not be written (`lost`); six hours after its start, a process takes every run of its own for stale, since
`created_at` has a default computed at import.

| Run | Instance | Properties |
|---|---|---|
| `sync_rows` | one stock, two overlapping runs of the kline pipeline, the daily task, three days, one deletion | `NoHoles`, `CompletedIsStored` |
| `sync_runs` | three stocks, one run of a pipeline of items (dividends) or of batches (valuations), one cancel, two restarts, under fairness | `DeadLettersComplete`, `RunsSettle` |

Three days with an overlap and a lag of one are the least with which a day that
is published late lies before the overlap. Three stocks are a letter that is written,
one that fails, and an item without. Two restarts are a process older than six
hours and the one that finds its runs. `SyncAssumption` demands `Lag <= Overlap`: a provider that is
later than the days fetched again leaves holes, and the code has no other
defence. It also says that runs and tasks are different things
(`Run \cap Task = {}`): `Job` is their union.

`FairSpec`: the thread of a run, once started, goes on (it is a plain loop whose
requests have time-outs); a cancel request and a sweep that have begun end. Nothing
is assumed of users, the provider, time or restarts, nor that a sweep ever begins.
So `RunsSettle` says what holds without one: a run leaves pending and running
by its thread; one whose thread died, or lost its last commit, is left behind until a
start-up that finds its process six hours old (`LeftBehind`).

`DeadLettersComplete` excuses the runs in `lost`: in `_execute_with_db` each letter
is a commit, and the first one commits the result of the run with it; when a
later letter and then the commit that is to mark the run as failed both fail, the
run stands as completed with errors with its first letters only.

### Proofs

`DataSyncProofs.tla` proves `SeriesHaveNoHoles`, `CompletedRunsStored` and
`ErrorsLeaveLetters` for any number of runs, tasks, stocks, days, restarts and
deletions. The invariant `SyncInv` speaks of rows that are *covered*, stored or
deleted by a user: no step uncovers a row, so what holds of covered rows
survives the steps of all other jobs.

- `SeenOK`: as long as a job has met no error, each row it was given is covered or
  in its hand. When it ends without an error it has nothing in hand, which is
  `CompletedIsStored`.
- `BehindOK`: `NoHoles` is not inductive, since a checkpoint is moved by a job
  that looked at the table long before. While a price run holds rows, every
  published row more than `Overlap` days older than one of them is covered or in its
  hand as well: what the provider published late is at most `Lag` days
  old, and `Lag <= Overlap`; what lies before the window of the run was covered
  when it asked.
- `StatusOK`: no status says completed before the thread has ended its items,
  and a run says "with errors" from its first letter on; that it then has all of
  them, unless it is `lost`, is true when its thread has ended it.

## 7. The provider's client

`LixingerClient.tla`: threads share one breaker, one cache and one alert flag,
each behind a lock held for a single operation. A call is `Call`, the breaker's
gate (`Refuse`, `Pass`), the posts with their retries, and the end: `Succeed`
and `Store`, or `Fail`, `Check` and `Ask` (two reads of the breaker, each with a lock
of its own), `Write`, `Mark` when the circuit has opened.

The run `client` has two threads, two keys, a circuit that opens on two failures
for one tick, two posts for each call and a cache of one entry, so that it
evicts: `OpensOnStreak`, `OutageAlerted`, `Recovers`. Two failures are the least
number with a first that is not the last. `FairSpec`: time passes, and a thread
in a call goes on; `Recovers` is conditional on a provider that is up and on
threads that keep asking.

`LixingerClientProofs.tla` proves `OpensOnStreak` and `OutageAlerted` for any
number of threads, keys, failures and posts. `OutageAlerted` speaks of moments
when no call is ending; `AlertInv` says what holds in between: a circuit that
is open has been told of, or a thread is between its failure and its mark, and
the flag, unless it was set after the success that ended its outage (`lapse`),
tells of this one.

## 8. Reports and the funnel

`Research.tla`: a request places a report as running, commits, and queues a job;
the job runs the pipeline and writes the verdict, which moves the stock in the
funnel (`enter_state`, one transaction to read and one to write); a report may
be cancelled, and the weekly research and the weekly screen write the same rows.
The calls of a model are one phase in which nothing is committed; a call may hang,
and then the job does not end (`with ThreadPoolExecutor` waits for the thread
although the watchdog has given it up).

A start of the process is two steps. In `Restart` lifespan fails the reports of
stocks, and the engine's loop begins to tick; in `Recover` the engine fails the jobs
that wait and the reports of themes. A job that waits survives the first step, and
one that the loop has loaded by the second is dispatched all the same. Either
recovery may fail, which the code logs and forgets. A recovery reads and writes
in one step. A job that fails is queued again without its input (`Retry`), so the
retry does nothing, and is no one a report could wait for.

Three history variables say which cases the properties excuse: `contested`, reports
placed while their stock had another running report or a job, or failed by a
start-up whose engine had loaded their job; `stranded`, reports the code leaves
running: their waiting job was cancelled, a start-up could not recover them, or the
request that ran their pipeline itself met a clash of the lifecycle's key, after
which `_mark_report_failed` uses a session that refuses everything (`Strand`);
`crossed`, stocks written on a state that had changed since it was read.

The run `research` has one stock, one theme, one client and two reports:
`FunnelFollowsVerdict`, `NoReportForgotten`, `SettledStays`. Two reports of one stock
come from two requests or from a request and the weekly research; the theme
shares the recovery and the job table. `Research_settle.cfg` is the same instance with
the weekly research paused (`Enabled`; it has no report) and under fairness, where
TLC checks `ReportsSettle`: every placeholder gets a terminal status, but for those that
are contested or stranded, and for a call that hangs. `FairSpec`: requests end,
jobs that do not hang go on, the engine takes queued jobs (`QueueDrains` of
section 3: these tasks have no mutex), a start-up and the screen go on.

### Proofs

`ResearchProofs.tla` proves `FunnelIsSound`, `SettledReportsStay` and
`ReportsAreLookedAfter` for any number of stocks, themes, clients and reports;
`Stock` is finite (`IsFiniteSet(Stock)`), as it must be to be listed. For the funnel,
`ScreenInv` adds that a row the screen has read, or holds, was no candidate's
then. For the reports the hard part is that a job takes *a* running report of its
subject and not the one it was queued for, and that a job of the process before may
still do so. `AloneInv` says that while a report of a stock runs uncontested, no job of
the stock but its own is to come, so none is left to write it once it is
settled; `TargetInv` that a job works on a report of its subject that is running or
contested. The two are the theorem `JobsHaveReports`. `ForgetInv` adds what keeps
a report from being forgotten (`NoReportForgotten`): one whose job works on another
report is contested, a single request is for one subject, and while the process
starts no request is served and what lifespan left running is known. Only
model-checked: liveness.

Left out: costs, the pipelines that a batch runs inline when the engine
refuses its jobs, the time-outs of the engine (which end the run and not the
thread), `history_json`, `rejected_count`.

## 9. Alerts

`Alerts.tla`: an evaluation reads the enabled rules, goes through them in the
order of their numbers, flushes the events it raises and commits once, while
users create, switch and delete rules and other evaluations do the same.
`created_at` of a statement and `fired_at` of an event are the time at which
the process was started, and the windows are measured against them.

The run `alerts` has two rules of both types, two clients, one step of the
clock, two events and one report: `RaisedOnce`, `NoLockCycle`. Two rules and two
clients are what a cycle of waits needs; the clients are symmetric and only
invariants are checked, so the symmetry is sound.

### Proofs

`AlertsProofs.tla` proves `EvaluationsDoNotDeadlock` and `EventsAreRaisedOnce`
for any number of rules, evaluations, events, reports and restarts. `Ascends`:
what an evaluation has locked is below what it has marked since, which is below
what it has still to look at; two evaluations that wait for each other would
each hold a rule below the other's. For this `ListRules` is the strictly
increasing sequence of the enabled rules, which exists because they are
finitely many (`Listable`, by a minimal counterexample). `Known`: the statement
an event is about was created no later than the rule's `last_evaluated_at`,
whichever evaluation wrote that last, because no mark is before the start of its
process and every `created_at` is such a start; so an evaluation that begins
later finds the statement old.

## 10. Rules

The modules of this group have no state. Each translates functions of the code
and states what should be true of them for every input, as a relation between
several results or against a definition written another way. `MCRules` makes
every input of bounded sets an initial state, built around the thresholds of
the code (515 972 states in the run `rules`).

| Module | Source | Property | Says |
|---|---|---|---|
| `Judgement` | `core/scoring_config.py`, `services/llm`, `pipelines/llm` | `JudgementIsSound` | a higher score is never worse; a flag that the checker reads, or losses in the three newest statements, reject; the screen's verdict is supported by the numbers; a conflict is a difference; the budget stops |
| `Schedule` | `scheduler_config_service.py`, `trading_calendar_service.py` | `ScheduleIsSound` | an expression fires on crontab's days; seeded holidays are closed |
| `Portfolio` | `holding_service.py`, `sell_trigger.py`, `cockpit_service.py` | `OrdersAreSound` (`PortfolioIsSound`) | totals and weights add up with prices known or not; a trim ends at the target; a rising price never worsens a signal; a section that fails hides no other |
| `Valuation` | `valuation_service.py`, `financial_service.py`, `dividend_service.py` | `FiguresAreSound` (`ValuationIsSound`) | the forward yield is earned; a dividend called sustainable is covered; a worse year shows no anomaly less; a stock one endpoint knows is found, and a multiple of its industry's endpoint is kept |
| `TradeRules` | `fee_calculator_service.py`, `price_validator_service.py`, `data_sanity_service.py` | `OrdersAreSound` (`TradeRulesAreSound`) | a round trip loses its fees; splitting an order is never cheaper; limit prices pass; a bad record keeps the stored row |
| `Quality` | `data_quality_service.py`, `evaluation_service.py`, `metrics_service.py` | `FiguresAreSound` (`QualityIsSound`) | the score keeps its bounds and a filled gap never lowers it; gains are wins; each draft is attributed once; the breaker stays open under another conflict; the slippage of the sides is that of the whole |
| `Universe` | `universe_bootstrap_pipeline.py`, `stocks_sync_service.py`, `corp_action_sync_service.py`, `lixinger_client.py` | `RowsAreSound` (`UniverseIsSound`) | the next bootstrap overrules a user's synchronisation; segments are disjoint and cover the years; a distribution is stored once |
| `Reads` | `routers/stocks.py`, `universe_service.py`, `holding_service.py` | `ReadingsAreSound` (`ReadsAreSound`) | a new stock has a name and keeps it; edits touch what they name; a price band is found again; weights add up; what a cleanup previews is what it deletes |
| `Meters` | `data_freshness_service.py`, `llm/client.py`, `pipelines/metrics.py`, `pipelines/throttler.py` | `ReadingsAreSound` (`MetersAreSound`) | freshness follows from the history; one alert a window; quotes are of the code and minute asked for; the pace follows the errors; logs add up; a call is logged once, at what it cost |
| `Upkeep` | `task/registry.py`, `scheduler_config_service.py`, `system_alert_service.py`, `event_handlers.py`, `eval_set_service.py` | `RowsAreSound` (`RecordsAreSound`) | a pause survives a start; an edit of a job stands; the first to resolve stays; a breach leaves one SELL draft, never half a change; the runs of an evaluation are counted and compared as recorded |
| `ThemeScan`, `Universe`, `Reads`, `Valuation` | `theme_scan_pipeline.py`, `theme_scan.py`, `universe_bootstrap_pipeline.py`, `universe_service.py`, `kline_service.py` | `ListsAreSound` | rows mirror the list of companies; pages show each stock once; segments of a composition are shown once; bands are ordered and percentiles in range; a scan drops no company unseen and ranks by score; progress grows |

Numbers are small integers, quotients are compared crosswise, so that no
property depends on rounding. Where a property leaves out a case in which the
code does otherwise, its comment says so, and section 11 lists the case.

An invariant of the run with a name in brackets is the conjunction of two parts,
each with the name of its subject. The run takes every invariant over every
input; 515 972 inputs are enough to meet each threshold from both sides and each
part absent, and too few to say anything of long sequences and large numbers. That is what the proofs add.

### Proofs

`RulesProofs.tla` and `DataRulesProofs.tla` prove these invariants, all but
`ListsAreSound`, for the inputs of `AnyJudgement`, `AnySchedule`, ... : the same
records as in `MCRules`, with fields of any number and size. `input` does not
change, so each part has a theorem of the form
`input \in AnyX /\ [][Next]_input => []XIsSound`, the theorems of two parts give
that of their conjunction (`OrdersHold`, `FiguresHold`, `RowsHold`, `ReadingsHold`),
and the work is in one lemma for each conjunct of a part.

- *Sums.* The code adds up the weights of a finite set, `SumOver` of the module
  `Values`, a fold that takes an operator, so that no lemma says anything of it
  for all weights. `Total` is that sum with its weights in a function; `TotalStep`, `TotalUnion`,
  `TotalOfGroups` and `TotalScale` say what it does on one more element, on disjoint
  sets, on groups and on multiples. They follow by induction over the finite subsets
  of a set, from a minimal counterexample. Each place where the model adds up has
  a lemma that its sum is a total.
- *Folds over sequences.* A fold is the result of a history: `LogRun`, `EditRun`,
  `UpdateRun` and their like name the state after each element, from
  the definition of `FoldLeft` (`FoldExists`: a fold over a sequence computes a function
  on sets of places). What holds of the first state and is kept by one element
  holds of the last (`StepByStep`). So `CallsStayLogged` is an invariant of the log,
  `FreshnessFollows` one of the records of a synchronisation, `EvalsAreCounted` one of a
  run: as long as an item has not been updated it is pending, so an update
  counts it for the first time.
- *Quotients.* `Quotients` bounds `x \div n` by multiples of `n`; the rest of a proof
  compares products.
- *Boundaries.* `SaleTrims`, `TranslatedDays`, `LimitsPass` and the like are case
  splits over the thresholds, with the monotone part as a lemma.

The hypotheses are those of the tables: keys are unique where the table has a
primary key, sets of rows are finite, quantities, costs and fees are not
negative, requests and failures come in the order of time, the default
jobs of the code have expressions that a trigger accepts. Each `AnyX`
has members among the inputs of `MCRules`.

Assumptions on constants: `None` is none of the things it stands in for
(`NoneAssumption`, `NoneIsNoDays`, `NoneIsNoError`, `NoneIsNoStatement`, `NoneIsNoFinding`,
`NoneIsNoName`, `NoneIsNoWeight`, `NoneIsNoAnswer`, `NoneIsNoResolver`), which in the code
holds of Python's `None`. TLC evaluates each in the runs.

## 11. Where the code does otherwise

One run shows a disagreement as a counterexample: `rules_cron` violates
`CronDueIsQueued`. `_check_cron_tasks` (`services/task/engine.py:406-424`) is to
queue a cron task that came due since the last check; the trigger answers with
a time that has a zone, the clock it is compared with has none, and the
comparison raises.

Others have a definition, most of them a configuration that finds the
counterexample as well:

| Configuration or definition | Violated | What is said, what happens |
|---|---|---|
| `TaskEngine_mutex.cfg` | `MutexHolds` | `task/mutex.py:14`: "at most one instance of a task runs". The check looks at one row of an unordered query. |
| `TaskEngine_cancel.cfg` | `CancelledStaysCancelled` | `routers/task.py:203`: "Cancel a queued or running task run." The finalizer writes over the status. |
| `TPlusOneAnyDay` in the instance of `Ledger_days.cfg` | | `trade_service.py`: "T+1 check (SELL only) — NEVER bypassed". A fill entered for another day is checked against the shares of now. |
| `Ledger_reversal.cfg` | `ReversalUndoes` | `routers/trades.py:123-124`: "merely undoes a prior effect". Reversing a BUY after its SELL leaves a cost or a gain. |
| `Drafts_invalid.cfg` | `NoBuyOnInvalidThesis` | `draft_generator.py:3`: a BUY draft only if the thesis is not INVALIDATED. Nothing looks at the thesis. |
| `DataSync_sweep.cfg` | `SweepSparesLive` | `pipelines/manager.py:328-329`: "6h is a safe upper bound", no live run is failed. In a process older than six hours every live run is. |
| `DataSync_dividends.cfg` | `DividendsOnce` | `dividend_pipeline.py:36-37`: a dividend is stored once. The check for it and the insert are apart, and no unique key backs them. |
| `LixingerClient_probe.cfg` | `SingleProbe` | `lixinger_client.py:92-98`: "allows a single half-open probe". Every thread that asks after the window passes. |
| `Research!CacheHolds` | | `lifecycle_service.py:157`: a stock that was researched is not researched again for thirty days. A candidate that passes again keeps its old time. |
| `Research!RecoveredStays` | | `task/engine.py:644`: "Mark any 'running' or 'queued' task runs as failed on startup". A job that the loop has loaded by then is dispatched all the same, and writes the report of its theme that was failed. |
| `Research!Strand` | | `routers/research_v2.py:285-300`: "flip the placeholder to FAILED in its own transaction". After a flush that failed in the same session it cannot, and the report stays running. |
| `Judgement!AnnualLossesReject` | | `red_line_checker.py:60`: "latest N annual reports all show negative net profit". The query takes the three newest statements of any type. |
| `Valuation!PeIsFound` | | `valuation_service.py:263`: "Stops as soon as pe_ttm … is found". A row with a price and no multiple stops the search as well. |
| `Judgement!Raises` | | `red_line_checker.py:90`: the model is to name the red lines it sees. A list of plain names raises, the handler returns no red line, and the losses in the database are lost with it. |
| `Alerts_report.cfg` | `NewReportRaised` | `docs/reports/completed/2026-06-05-phase2-financial-watchlist-alerts.md:39`: a statement stored since the last evaluation raises an event. Its `created_at` is the start of the process. |
| `Upkeep!SellAllStands` | | `docs/active/redesign-decisions-v2.md:116`: "INVALIDATED: SELL 100%". A trim signal of the same stock then writes its ratio over it. |
| `ThemeScan!RankedAreStocks` | | `theme_scan_pipeline.py`: "Unknown/fabricated codes are dropped". The ranking is a further answer of the model, which nothing compares with the stocks kept. |
| `Universe!ListedStaysListed` | | A company in the list all the time should stay listed; when the list shrinks between two pages, one falls between them and is marked delisted. |
| `Quality!FirstRowClosesGap`, `CompletedIsSuccess` | | Storing the first row of a stock can open gaps, as stocks without rows count as none; the summary counts a status "success" that no run has. |
| `Judgement!CollapseIsNoticed` | | "Revenue not collapsing": a drop between the last two annual statements is missed when a quarterly one is newer. |

Seen while modelling, and in no property:

- *Time.* All 35 columns with `default=now()` have the time of the import.
  `get_health`'s count of failures since yesterday compares with it, and
  `intraday_price_poll` looks for alerts of the last five minutes with it. The
  same job is off by default in the old scheduler and on in the engine.
- *Engine.* `schedule_retry` computes a backoff and drops it; the functions of
  `tasks/trading.py` catch every exception, so the engine never retries them;
  the default of `retry_config` is 0 in the registry and 3 in the manager; edits
  of a task are overwritten at the next start.
- *Money.* Failed calls of a model are logged without their cost, and those of
  a pipeline that fails are rolled back with it; the budget is checked at the
  HTTP entry points and not by the weekly tasks; a sale smaller than its minimum
  commission has negative proceeds; a position held for no day is shown in red.
- *Data.* Actions of one day are applied in any order, to the shares held when
  they are processed; a day twice in an answer fails the synchronisation of an
  index; the universe filters values after it has cut pages; a cleanup without
  codes deletes the rows of all stocks; JSON null as conflict flags makes the
  conflict rate 100 %; the circuit breaker of the pipelines never trips, as two
  names differ; a trailing year adds four statements whatever their dates.
- *Events.* `emit_async` may deliver before the caller commits; two events are
  emitted by no one, one has no subscriber.
- *No caller.* `app/scheduler.py` except through `routers/scheduler.py`,
  `historical_data_pipeline`, `deep_sync_service`,
  `point_in_time_context_service`, `zhipu_client`, `with_alerting`,
  `assert_fresh_enough`, `update_prev_close_batch`, `detect_delistings`, the
  pipelines for news and earnings; dead letters have no consumer; two functions
  import or call names that no longer exist.

## 12. Proved and model-checked

| Proved for every instance | Only model-checked |
|---|---|
| engine: `TypeOK`, `NoOrphanRun`, `NoBookkeepingLeak`, `DispatchedOnce`, `OneRunPerAttempt`, `NoLostRetry`, `SettledIsFinal`, `TaskStatusSettles`, `PromiseKept` | liveness: `RunsEnd`, `QueueDrains` |
| ledger: `CashMatchesLedger`, `TPlusOne`, `SpentIsCovered`, `ReversedOnce`, `AppliedWhole`, `AppliedOnce` | |
| drafts: `FilledOnce`, `OneOpenDraft`, `SettledDraftIsFinal`, `BreachSells`; `CashMatchesLedger`, `TPlusOne`, `SpentIsCovered` with fills of drafts | |
| pipelines: `NoHoles`, `CompletedIsStored`, `DeadLettersComplete` | liveness: `RunsSettle` |
| client: `OpensOnStreak`, `OutageAlerted` | liveness: `Recovers` |
| reports: `FunnelFollowsVerdict`, `NoReportForgotten`, `SettledStays` | liveness: `ReportsSettle` |
| alerts: `RaisedOnce`, `NoLockCycle` | |
| rules: `JudgementIsSound`, `ScheduleIsSound`, `OrdersAreSound`, `FiguresAreSound`, `RowsAreSound`, `ReadingsAreSound` | `ListsAreSound` |

Liveness and ENABLED are out of the provers' reach, and so are theorems that
take an operator as a parameter, among them the induction rules of the library
and the lemmas about its folds. Where a proof needs induction over numbers or
finite sets, it argues from a minimal counterexample: strict inclusion is well
founded on finite sets (`FS_StrictSubsetOrderingWellFounded`), so a non-empty set
of numbers has a least one (`LeastOf`), and what holds at 0 and carries over from
n to n + 1 holds everywhere (`Induct`, `Steps`, for sets of numbers). That reaches
functions on an interval, as those of `Ledger`, and the folds of the community
modules whose definitions can be unfolded (`FoldLeft`, `FoldSet`): section 10.

It does not reach `SelectSeq`, `SortSeq` and `FlattenSeq`, which the provers do not
unfold. `ListsAreSound` rests on them: it says what filtering, cutting into pages,
sorting by score and joining segments do to the list as a whole. It is checked by
TLC for all lists of the sizes in `MCRules`, and so are the properties of the state
machines named on the right.

## 13. Not modelled

- Prompts and texts, layouts of responses, logs, metrics, traces, the front end
  and the website: nothing in the back end depends on them.
- HTTP itself, the database's engine and the provider: external; they answer,
  fail or do not answer.
- Failing commits in the engine; `task_run_logs`, stored progress and results.
- Columns of rows that no modelled decision reads; the tasks `daily_base_sync`,
  `daily_prev_close_sync` and `quarterly_shareholders_refresh`, which only write
  such columns.
- The annualised return (a power formula in floating point) and other floating
  point; wall-clock times other than their order.
- Code without a caller, listed in section 11.

## 14. Files

`X.tla` is a model, `MCX.tla` gives it values for TLC, `X*.cfg` is a
configuration, `XProofs.tla` holds proofs (`LedgerProofs` also of `Drafts`,
`RulesProofs` and `DataRulesProofs` of the rules).
Operators whose comment begins with "Mutant" are plausible mistakes in the
definition that follows them: put in its place, each breaks a property, which
shows that the property says something about the code. `Values.tla` holds `None`
and a few helpers of the rules.

    tlc -workers 2 -config TaskEngine_retry.cfg MCTaskEngine
    tlapm LedgerProofs.tla
