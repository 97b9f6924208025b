----------------------------- MODULE TaskEngine -----------------------------
(***************************************************************************)
(* The unified task engine (backend/app/services/task, routers/task.py).   *)
(*                                                                         *)
(* The actors, each of which may run between any two steps of another:     *)
(*   - the engine's loop thread: the tick, the cron check and, between two *)
(*     ticks, the coroutines that await and finalize the dispatched runs;  *)
(*   - the worker threads of the pool, where task functions run;           *)
(*   - the watchdog thread;                                                *)
(*   - the API requests (trigger, cancel, pause, resume, update);          *)
(*   - the start-up thread, which recovers stale runs when the loop thread *)
(*     already ticks;                                                      *)
(*   - the operator, or a crash, that ends the process.                    *)
(*                                                                         *)
(* Rows are read and written by ORM transactions at READ COMMITTED without *)
(* row versions, so a transaction that read a row and writes it later      *)
(* overwrites what was committed in between.  Such a transaction is two    *)
(* actions here, with an element of txs (or of the recovery's variables)   *)
(* between them.                                                           *)
(***************************************************************************)
EXTENDS Naturals, FiniteSets

CONSTANTS
    Task,          \* the rows of the tasks table
    CronTask,      \* those with trigger_type = "cron" and a cron_expr
    MutexTask,     \* those with mutex_enabled
    Registered,    \* those a @task decorator has registered in this build
    Deps,          \* [Task -> SUBSET Task]: depends_on
    MaxRetries,    \* max_retries of the retry_config of every task
    ApiTask,       \* the tasks that users pause, resume and update
    Workers,       \* max_sync_workers of the pool
    BatchLimit,    \* how many queued runs a tick loads
    MaxRuns,       \* bound: the task_runs rows a behaviour may create
    MaxRoots,      \* bound: those created by cron or by the API
    MaxStarts      \* bound: the times the process is started

Run == 1..MaxRuns

ASSUME ConstantsAssumption ==
    /\ CronTask \subseteq Task
    /\ MutexTask \subseteq Task
    /\ Registered \subseteq Task
    /\ ApiTask \subseteq Task
    /\ Deps \in [Task -> SUBSET Task]
    /\ MaxRetries \in Nat
    /\ Workers \in Nat \ {0}
    /\ BatchLimit \in Nat \ {0}
    /\ MaxRuns \in Nat /\ MaxRoots \in Nat /\ MaxStarts \in Nat

VARIABLES
  \* the database
    nextRun,       \* the id the next inserted run gets
    info,          \* [Run -> Info]: the columns of a run that never change
    status,        \* [Run -> Status]: task_runs.status
    enabled,       \* [Task -> BOOLEAN]: tasks.enabled
    taskStatus,    \* [Task -> TaskStatus]: tasks.status
  \* the process
    boot,          \* how far TaskEngine.start has come
    gen,           \* how many times the process was started
    recRuns,       \* the run rows the recovery has read and will write
    recTasks,      \* the task rows it will write
    stage,         \* [Run -> Stage]: the run's coroutine and task function
    batch,         \* the runs this tick has loaded and not yet processed
    tracked,       \* TimeoutWatchdog._running_tasks
    activeRuns,    \* WorkerManager._active_runs
    txs            \* the transactions that have read a run and not committed

db == <<nextRun, info, status, enabled, taskStatus>>
startup == <<boot, gen, recRuns, recTasks>>
memory == <<tracked, activeRuns>>
vars == <<db, startup, stage, batch, memory, txs>>

Status == {"absent", "queued", "running", "success", "failed", "cancelled"}
TaskStatus == {"active", "queued", "running", "failed", "cancelled"}

\* born is the process that inserted the run.  created_at says no more: its
\* default is evaluated once, when the process imports the model.
Info == [task : Task, retry : Nat, trace : Run, born : Nat]

\* scheduled: the coroutine is handed to the loop; pooled: the function waits
\* for a worker; executing: it runs; returned, raised: it has ended and its
\* coroutine has not resumed; done, failed: finalized; zombie: finalized on a
\* timeout while the function goes on; lost: the process ended first.
Stage == {"none", "scheduled", "pooled", "executing", "returned", "raised",
          "done", "failed", "zombie", "lost"}
Live == {"scheduled", "pooled", "executing", "returned", "raised"}

\* A transaction that has read the row of run and will set its status to
\* "cancelled" (cancel) or "failed" (timeout).  task says whether it will also
\* write tasks.status: the ORM writes only a value that differs from the one
\* it read.
Tx == [kind : {"cancel", "timeout"}, run : Run, task : BOOLEAN]

Inserted == {r \in Run : status[r] # "absent"}

\* Types, and that everything in the engine's tables is an inserted row.
TypeOK ==
    /\ nextRun \in 1..(MaxRuns + 1)
    /\ info \in [Run -> Info \cup {<<>>}]
    /\ status \in [Run -> Status]
    /\ stage \in [Run -> Stage]
    /\ \A r \in Run : IF r < nextRun
                      THEN status[r] # "absent" /\ info[r] \in Info
                      ELSE status[r] = "absent" /\ stage[r] = "none"
    /\ enabled \in [Task -> BOOLEAN]
    /\ taskStatus \in [Task -> TaskStatus]
    /\ boot \in {"down", "started", "recovering", "serving"}
    /\ gen \in 0..MaxStarts
    /\ recTasks \subseteq Task /\ recRuns \subseteq Inserted
    /\ batch \subseteq Inserted
    /\ tracked \subseteq Inserted /\ activeRuns \subseteq Inserted
    /\ txs \subseteq Tx /\ \A x \in txs : x.run \in Inserted
-----------------------------------------------------------------------------
RunsOf(t) == {r \in Inserted : info[r].task = t}
Outstanding(t) == {r \in RunsOf(t) : status[r] \in {"queued", "running"}}

\* What ORDER BY created_at DESC LIMIT 1 may return of the runs of t: any run
\* of the last process that inserted one, as these runs all tie.
LastRuns(t) == {r \in RunsOf(t) : \A s \in RunsOf(t) : info[s].born <= info[r].born}

\* are_dependencies_satisfied may answer yes, may answer no.
MaySatisfy(t) == \A d \in Deps[t] : \E r \in LastRuns(d) : status[r] = "success"
MayBlock(t) == \E d \in Deps[t] : \/ RunsOf(d) = {}
                                  \/ \E r \in LastRuns(d) : status[r] # "success"

\* Mutant: the run that asks counts as one that holds the mutex.
MayAcquireAsOther(r) == Outstanding(info[r].task) = {}

\* MutexLock.try_acquire looks at one row of an unordered query for the
\* outstanding runs of the task, and fails if that row is another run.
MayAcquire(r) == LET Rows == Outstanding(info[r].task) IN Rows = {} \/ r \in Rows
MayConflict(r) == \E s \in Outstanding(info[r].task) : s # r

IsUp == boot # "down"
LoopIdle == IsUp /\ batch = {}         \* the loop thread awaits, no tick is open
Occupied == {r \in Run : stage[r] \in {"executing", "zombie"}}

\* One more row of task_runs, for attempt n of the request k.
InsertRun(t, n, k) ==
    /\ nextRun \in Run
    /\ nextRun' = nextRun + 1
    /\ info' = [info EXCEPT ![nextRun] =
                  [task |-> t, retry |-> n, trace |-> k, born |-> gen]]

\* The bound on the runs cron and the API create.
RootsLeft == Cardinality({r \in Inserted : info[r].retry = 0}) < MaxRoots

InsertRoot(t) ==
    /\ RootsLeft
    /\ InsertRun(t, 0, nextRun)
    /\ status' = [status EXCEPT ![nextRun] = "queued"]
    /\ taskStatus' = [taskStatus EXCEPT ![t] = "queued"]

\* Mutants of Finalize: a retry only if nobody has changed the row meanwhile; the
\* watchdog's entry forgotten; the outcome of the run copied to its task.
FinalizeIfRunning(r, ok) ==
    LET t == info[r].task
        again == ~ok /\ info[r].retry < MaxRetries /\ status[r] = "running"
        outcome == [status EXCEPT ![r] = IF ok THEN "success" ELSE "failed"]
    IN  /\ tracked' = tracked \ {r}
        /\ activeRuns' = activeRuns \ {r}
        /\ taskStatus' = [taskStatus EXCEPT ![t] = IF ok THEN "active" ELSE "failed"]
        /\ IF again
           THEN /\ InsertRun(t, info[r].retry + 1, info[r].trace)
                /\ status' = [outcome EXCEPT ![nextRun] = "queued"]
           ELSE status' = outcome /\ UNCHANGED <<nextRun, info>>
        /\ UNCHANGED <<enabled, startup, batch, txs>>

FinalizeStillTracked(r, ok) ==
    /\ activeRuns' = activeRuns \ {r}
    /\ status' = [status EXCEPT ![r] = IF ok THEN "success" ELSE "failed"]
    /\ UNCHANGED <<nextRun, info, taskStatus, tracked, enabled, startup, batch, txs>>

FinalizeCopiesStatus(r, ok) ==
    LET outcome == IF ok THEN "success" ELSE "failed" IN
    /\ tracked' = tracked \ {r}
    /\ activeRuns' = activeRuns \ {r}
    /\ status' = [status EXCEPT ![r] = outcome]
    /\ taskStatus' = [taskStatus EXCEPT ![info[r].task] = outcome]
    /\ UNCHANGED <<nextRun, info, enabled, startup, batch, txs>>

\* _finalize_run: whatever the row says by now, it gets the outcome of this
\* coroutine; a failure with retries left inserts the next attempt at once.
Finalize(r, ok) ==
    LET t == info[r].task
        again == ~ok /\ info[r].retry < MaxRetries
        outcome == [status EXCEPT ![r] = IF ok THEN "success" ELSE "failed"]
    IN  /\ tracked' = tracked \ {r}
        /\ activeRuns' = activeRuns \ {r}
        /\ taskStatus' = [taskStatus EXCEPT ![t] = IF ok THEN "active" ELSE "failed"]
        /\ \/ /\ again
              /\ InsertRun(t, info[r].retry + 1, info[r].trace)
              /\ status' = [outcome EXCEPT ![nextRun] = "queued"]
           \/ /\ ~again
              /\ status' = outcome
              /\ UNCHANGED <<nextRun, info>>
        /\ UNCHANGED <<enabled, startup, batch, txs>>
-----------------------------------------------------------------------------
(* The life of the process.  Before the first start the registry has synced *)
(* its definitions: every task is enabled and active, and no run exists.    *)

Init ==
    /\ nextRun = 1
    /\ info = [r \in Run |-> <<>>]
    /\ status = [r \in Run |-> "absent"]
    /\ enabled = [t \in Task |-> TRUE]
    /\ taskStatus = [t \in Task |-> "active"]
    /\ boot = "down" /\ gen = 0
    /\ recRuns = {} /\ recTasks = {}
    /\ stage = [r \in Run |-> "none"]
    /\ batch = {}
    /\ tracked = {} /\ activeRuns = {}
    /\ txs = {}

\* TaskEngine.start up to the start of the loop thread.
Start ==
    /\ boot = "down" /\ gen < MaxStarts
    /\ boot' = "started" /\ gen' = gen + 1
    /\ UNCHANGED <<db, recRuns, recTasks, stage, batch, memory, txs>>

\* Mutant: only the runs of enabled tasks are recovered.
RecoverReadEnabled ==
    /\ boot = "started"
    /\ boot' = "recovering"
    /\ recRuns' = UNION {Outstanding(t) : t \in {u \in Task : enabled[u]}}
    /\ recTasks' = {t \in Task : enabled[t] /\ Outstanding(t) # {}}
    /\ UNCHANGED <<db, gen, stage, batch, memory, txs>>

\* _recover_stale_runs, first half: the query.
RecoverRead ==
    /\ boot = "started"
    /\ boot' = "recovering"
    /\ recRuns' = UNION {Outstanding(t) : t \in Task}
    /\ recTasks' = {t \in Task : Outstanding(t) # {} /\ taskStatus[t] # "failed"}
    /\ UNCHANGED <<db, gen, stage, batch, memory, txs>>

\* Mutant: recovered runs go back to the queue.
RecoverCommitRequeue ==
    /\ boot = "recovering"
    /\ boot' = "serving"
    /\ status' = [r \in Run |-> IF r \in recRuns THEN "queued" ELSE status[r]]
    /\ recRuns' = {} /\ recTasks' = {}
    /\ UNCHANGED <<nextRun, info, enabled, taskStatus, gen, stage, batch, memory, txs>>

\* Second half: the commit.  Only now does the application serve requests.
RecoverCommit ==
    /\ boot = "recovering"
    /\ boot' = "serving"
    /\ status' = [r \in Run |-> IF r \in recRuns THEN "failed" ELSE status[r]]
    /\ taskStatus' = [t \in Task |-> IF t \in recTasks THEN "failed" ELSE taskStatus[t]]
    /\ recRuns' = {} /\ recTasks' = {}
    /\ UNCHANGED <<nextRun, info, enabled, gen, stage, batch, memory, txs>>

\* A crash, or shutdown(): either way no coroutine finalizes its run any more.
Stop ==
    /\ IsUp /\ gen < MaxStarts
    /\ boot' = "down"
    /\ recRuns' = {} /\ recTasks' = {}
    /\ stage' = [r \in Run |->
                   IF stage[r] \in Live \cup {"zombie"} THEN "lost" ELSE stage[r]]
    /\ batch' = {} /\ tracked' = {} /\ activeRuns' = {} /\ txs' = {}
    /\ UNCHANGED <<db, gen>>
-----------------------------------------------------------------------------
(* API requests.                                                            *)

\* Mutant: a retry by hand puts the failed row itself back in the queue.
TriggerReusesRow(t) ==
    /\ boot = "serving" /\ enabled[t]
    /\ \/ InsertRoot(t)
       \/ /\ \E r \in RunsOf(t) : /\ status[r] = "failed"
                                  /\ status' = [status EXCEPT ![r] = "queued"]
          /\ UNCHANGED <<nextRun, info, taskStatus>>
    /\ UNCHANGED <<enabled, startup, stage, batch, memory, txs>>

\* POST /{task_id}/trigger, and POST /runs/{run_id}/retry, which triggers the
\* task of the run whatever state the run is in.
Trigger(t) ==
    /\ boot = "serving"
    /\ enabled[t]
    /\ InsertRoot(t)
    /\ UNCHANGED <<enabled, startup, stage, batch, memory, txs>>

\* cancel_task_run up to its flush.  The event cancel_run sets is read by no
\* one, so the task function does not learn of it.
CancelRead(r) ==
    /\ boot = "serving"
    /\ status[r] \in {"queued", "running"}
    /\ txs' = txs \cup {[kind |-> "cancel", run |-> r,
                         task |-> taskStatus[info[r].task] # "cancelled"]}
    /\ tracked' = IF status[r] = "running" THEN tracked \ {r} ELSE tracked
    /\ UNCHANGED <<db, startup, stage, batch, activeRuns>>

\* Commits a transaction of kind k, which sets the run, and the task if the
\* transaction saw another value there, to st.
Commit(k, st) ==
    \E x \in txs :
        /\ x.kind = k
        /\ txs' = txs \ {x}
        /\ status' = [status EXCEPT ![x.run] = st]
        /\ taskStatus' = IF x.task THEN [taskStatus EXCEPT ![info[x.run].task] = st]
                                   ELSE taskStatus
        /\ UNCHANGED <<nextRun, info, enabled, startup, stage, batch, memory>>

CancelCommit == Commit("cancel", "cancelled")

PauseTask(t) ==
    /\ boot = "serving"
    /\ enabled' = [enabled EXCEPT ![t] = FALSE]
    /\ UNCHANGED <<nextRun, info, status, taskStatus, startup, stage, batch, memory, txs>>

ResumeTask(t) ==
    /\ boot = "serving"
    /\ enabled' = [enabled EXCEPT ![t] = TRUE]
    /\ taskStatus' = [taskStatus EXCEPT ![t] = "active"]
    /\ UNCHANGED <<nextRun, info, status, startup, stage, batch, memory, txs>>

\* PUT /{task_id}: sets enabled and leaves the status alone.
UpdateTask(t) ==
    /\ boot = "serving"
    /\ \E on \in BOOLEAN : enabled' = [enabled EXCEPT ![t] = on]
    /\ UNCHANGED <<nextRun, info, status, taskStatus, startup, stage, batch, memory, txs>>
-----------------------------------------------------------------------------
(* The loop thread.                                                         *)

\* _check_cron_tasks for a task that is due.  When it is due is Schedule's
\* subject; here it may be at any time.
CronFire(t) ==
    /\ LoopIdle
    /\ t \in CronTask /\ enabled[t]
    /\ Outstanding(t) = {}
    /\ InsertRoot(t)
    /\ UNCHANGED <<enabled, startup, stage, batch, memory, txs>>

\* Mutant: the query also finds the runs that are already running.
TickLoadOutstanding ==
    /\ LoopIdle
    /\ \E r \in Run : status[r] \in {"queued", "running"} /\ batch' = {r}
    /\ UNCHANGED <<db, startup, stage, memory, txs>>

\* _process_pending_tasks: the query.  Runs of one process tie in its order.
TickLoad ==
    /\ LoopIdle
    /\ LET Queued == {r \in Run : status[r] = "queued"}
       IN  /\ Queued # {}
           /\ batch' \in SUBSET Queued
           /\ Cardinality(batch') = IF Cardinality(Queued) < BatchLimit
                                    THEN Cardinality(Queued) ELSE BatchLimit
           /\ \A r \in batch', s \in Queued \ batch' : info[r].born <= info[s].born
    /\ UNCHANGED <<db, startup, stage, memory, txs>>

\* Mutant: the task of a run that is dropped keeps its status.
TickDisabledRunOnly(r) ==
    /\ r \in batch /\ ~enabled[info[r].task]
    /\ batch' = batch \ {r}
    /\ status' = [status EXCEPT ![r] = "cancelled"]
    /\ UNCHANGED <<nextRun, info, enabled, taskStatus, startup, stage, memory, txs>>

\* The loop's body for a run of a disabled task.
TickDisabled(r) ==
    /\ r \in batch /\ ~enabled[info[r].task]
    /\ batch' = batch \ {r}
    /\ status' = [status EXCEPT ![r] = "cancelled"]
    /\ taskStatus' = [taskStatus EXCEPT ![info[r].task] = "cancelled"]
    /\ UNCHANGED <<nextRun, info, enabled, startup, stage, memory, txs>>

\* Its three reasons to leave the run as it is.
TickSkip(r) ==
    LET t == info[r].task IN
    /\ r \in batch /\ enabled[t]
    /\ \/ MayBlock(t)
       \/ MaySatisfy(t) /\ t \in MutexTask /\ MayConflict(r)
       \/ MaySatisfy(t) /\ (t \in MutexTask => MayAcquire(r)) /\ t \notin Registered
    /\ batch' = batch \ {r}
    /\ UNCHANGED <<db, startup, stage, memory, txs>>

\* _dispatch_run.  The row becomes "running" though it may have been written
\* by someone else since TickLoad.
TickDispatch(r) ==
    LET t == info[r].task IN
    /\ r \in batch /\ enabled[t]
    /\ MaySatisfy(t)
    /\ t \in MutexTask => MayAcquire(r)
    /\ t \in Registered
    /\ batch' = batch \ {r}
    /\ status' = [status EXCEPT ![r] = "running"]
    /\ taskStatus' = [taskStatus EXCEPT ![t] = "running"]
    /\ stage' = [stage EXCEPT ![r] = "scheduled"]
    /\ tracked' = tracked \cup {r}
    /\ activeRuns' = activeRuns \cup {r}
    /\ UNCHANGED <<nextRun, info, enabled, startup, txs>>

\* Moves the stage of r, and changes nothing else.
Advance(r, from, to) ==
    /\ stage[r] = from
    /\ stage' = [stage EXCEPT ![r] = to]
    /\ UNCHANGED <<db, startup, batch, memory, txs>>

\* The coroutine starts: execute_sync hands the function to the pool.
Submit(r) == LoopIdle /\ Advance(r, "scheduled", "pooled")

\* The coroutine resumes when the function has ended.
Complete(r) ==
    /\ LoopIdle
    /\ \/ stage[r] = "returned" /\ Finalize(r, TRUE)
          /\ stage' = [stage EXCEPT ![r] = "done"]
       \/ stage[r] = "raised" /\ Finalize(r, FALSE)
          /\ stage' = [stage EXCEPT ![r] = "failed"]

\* Mutant: the timeout covers the wait for a worker, not the execution.
ExecTimeoutPooled(r) ==
    /\ LoopIdle
    /\ stage[r] = "pooled"
    /\ Finalize(r, FALSE)
    /\ stage' = [stage EXCEPT ![r] = "failed"]

\* asyncio.wait_for gives up.  A function still in the pool's queue will never
\* run; one that runs cannot be stopped, and keeps its worker.
ExecTimeout(r) ==
    /\ LoopIdle
    /\ stage[r] \in Live \ {"scheduled"}
    /\ Finalize(r, FALSE)
    /\ stage' = [stage EXCEPT ![r] = IF @ = "executing" THEN "zombie" ELSE "failed"]
-----------------------------------------------------------------------------
(* The worker threads, and the watchdog thread.                             *)

FnStart(r) == Cardinality(Occupied) < Workers /\ Advance(r, "pooled", "executing")

FnEnd(r) ==
    \/ Advance(r, "executing", "returned")
    \/ Advance(r, "executing", "raised")
    \/ Advance(r, "zombie", "failed")

\* _check_timeouts drops an entry, and _on_task_timeout reads its run.
WatchdogRead(r) ==
    /\ r \in tracked
    /\ \A x \in txs : x.kind # "timeout"
    /\ tracked' = tracked \ {r}
    /\ \/ /\ status[r] = "running"
          /\ activeRuns' = activeRuns \ {r}
          /\ txs' = txs \cup {[kind |-> "timeout", run |-> r,
                               task |-> taskStatus[info[r].task] # "failed"]}
       \/ status[r] # "running" /\ UNCHANGED <<activeRuns, txs>>
    /\ UNCHANGED <<db, startup, stage, batch>>

\* Mutant: the watchdog retries the run it fails.
WatchdogCommitRetries ==
    \E x \in txs :
        /\ x.kind = "timeout"
        /\ txs' = txs \ {x}
        /\ info[x.run].retry < MaxRetries
        /\ InsertRun(info[x.run].task, info[x.run].retry + 1, info[x.run].trace)
        /\ status' = [status EXCEPT ![x.run] = "failed", ![nextRun] = "queued"]
        /\ UNCHANGED <<taskStatus, enabled, startup, stage, batch, memory>>

WatchdogCommit == Commit("timeout", "failed")
-----------------------------------------------------------------------------
TickRun(r) == TickDisabled(r) \/ TickSkip(r) \/ TickDispatch(r)

Next ==
    \/ Start \/ RecoverRead \/ RecoverCommit \/ Stop
    \/ \E t \in ApiTask : PauseTask(t) \/ ResumeTask(t) \/ UpdateTask(t)
    \/ \E t \in Task : Trigger(t) \/ CronFire(t)
    \/ TickLoad
    \/ \E r \in Run : TickRun(r) \/ Submit(r) \/ Complete(r) \/ ExecTimeout(r)
    \/ \E r \in Run : FnStart(r) \/ FnEnd(r)
    \/ \E r \in Run : CancelRead(r) \/ WatchdogRead(r)
    \/ CancelCommit \/ WatchdogCommit

Spec == Init /\ [][Next]_vars
-----------------------------------------------------------------------------
(* Safety.                                                                  *)

\* Once the application serves requests, a run that the database shows as
\* running has a live coroutine that will finalize it, and one shown as queued
\* was never dispatched: no interleaving of the tick, the recovery of the
\* previous process's runs, the watchdog and cancellations strands a run.
NoOrphanRun ==
    \A r \in Run :
        /\ status[r] = "queued" => stage[r] = "none"
        /\ status[r] = "running" /\ boot = "serving" => stage[r] \in Live

\* Every attempt of a request exists at most once: however a run came to fail
\* (exception, timeout of the coroutine, watchdog, cancellation), it is retried
\* by at most one run, so a request executes at most MaxRetries + 1 times.
OneRunPerAttempt ==
    /\ \A r \in Inserted : info[r].retry <= MaxRetries
    /\ \A r, s \in Inserted :
           info[r].trace = info[s].trace /\ info[r].retry = info[s].retry => r = s

\* A run whose coroutine has seen it fail with retries left has its next
\* attempt, also when the watchdog had failed the row before (_on_task_timeout
\* itself schedules no retry).
NoLostRetry ==
    \A r \in Inserted :
        stage[r] \in {"failed", "zombie"} /\ info[r].retry < MaxRetries
            => \E s \in Inserted : /\ info[s].trace = info[r].trace
                                   /\ info[s].retry = info[r].retry + 1

\* The watchdog's and the worker manager's tables hold no run that is over,
\* whoever ended it and in whatever order the tables were updated.
NoBookkeepingLeak ==
    \A r \in tracked \cup activeRuns : stage[r] \in Live

\* Nothing is about to write the row of r.
Quiet(r) == /\ stage[r] \notin Live
            /\ r \notin batch /\ r \notin recRuns
            /\ \A x \in txs : x.run # r

\* tasks.status, which every handler sets for its own run without looking at
\* the other runs, does not stay "running" or "queued" when the task has no
\* run left in the queue, in execution or in a transaction.  (A run cancelled
\* while it executes and lost in a restart is not recovered, as its row is
\* terminal; the status of its task may then stay "running" for good.)
TaskStatusSettles ==
    boot = "serving" =>
        \A t \in Task :
            (\A r \in RunsOf(t) : /\ Quiet(r) /\ stage[r] # "lost"
                                  /\ status[r] \notin {"queued", "running"})
                => taskStatus[t] \notin {"queued", "running"}

-----------------------------------------------------------------------------
(* Action properties.                                                       *)

\* No run is dispatched twice, neither by two ticks nor by two processes.
DispatchedOnce ==
    [][\A r \in Run : stage'[r] = "scheduled" /\ stage[r] # "scheduled"
                          => stage[r] = "none"]_vars

\* The status of a run in a terminal state only changes by the hand of someone
\* who had it in the works when it became terminal.
SettledIsFinal ==
    [][\A r \in Inserted :
          Quiet(r) /\ status[r] \notin {"queued", "running"}
              => status'[r] = status[r]]_vars
-----------------------------------------------------------------------------
(* What the engine promises: RetryChain.  The chain of a request is the runs *)
(* that share its trace, and its current attempt is the last of them.        *)

AttemptsOf(k) == {r \in Inserted : info[r].trace = k}
CurrentOf(k) == CHOOSE r \in AttemptsOf(k) :
                    \A s \in AttemptsOf(k) : info[s].retry <= info[r].retry

chainAttempt ==
    [k \in Run |-> IF AttemptsOf(k) = {} THEN 0 ELSE info[CurrentOf(k)].retry]

\* A run waits while the next tick may load it, or this tick has loaded it; a
\* cancellation in between does not stop it.
PhaseOf(r) ==
    CASE stage[r] \in Live -> "active"
      [] stage[r] = "none" /\ (status[r] = "queued" \/ r \in batch) -> "waiting"
      [] OTHER -> "over"

chainPhase ==
    [k \in Run |-> IF AttemptsOf(k) = {} THEN "absent" ELSE PhaseOf(CurrentOf(k))]

Promise == INSTANCE RetryChain WITH
    Chain <- Run, MaxAttempt <- MaxRetries, attempt <- chainAttempt, phase <- chainPhase

\* Through every interleaving of ticks, timeouts, cancellations, the watchdog,
\* restarts and recovery, a request has at most one attempt that waits or is
\* active, and each attempt runs at most once.
PromiseKept == Promise!ChainSpec
-----------------------------------------------------------------------------
(* Liveness.                                                                *)

\* The start-up thread finishes, and the loop thread ticks and works through
\* what it has loaded: weak fairness.  Between two ticks the loop runs every
\* callback that is ready, so a coroutine whose step is possible at every pause
\* of the loop takes it: strong fairness.  Users, cron, task functions, crashes,
\* the watchdog's clock and the order of the rows of a query owe nothing: nobody
\* says that a run is ever among those a tick loads, or gets the mutex.
Resume(r) == Submit(r) \/ Complete(r) \/ ExecTimeout(r)

Fairness ==
    /\ WF_vars(Start \/ RecoverRead \/ RecoverCommit)
    /\ WF_vars(TickLoad) /\ WF_vars(\E r \in Run : TickRun(r))
    /\ \A r \in Run : SF_vars(Resume(r))

FairSpec == Spec /\ Fairness

\* A run shown as running leaves that status, even if its function never
\* returns and through a restart.
RunsEnd == \A r \in Run : status[r] = "running" ~> status[r] # "running"

\* More runs wait than a tick loads, or another run of its task is outstanding
\* and the mutex may look at that one: r may be passed over.
MayBePassedOver(r) ==
    /\ status[r] = "queued"
    /\ \/ Cardinality({s \in Run : status[s] = "queued"}) > BatchLimit
       \/ info[r].task \in MutexTask /\ MayConflict(r)

\* A queued run of a registered task with no dependencies leaves the queue: it is
\* dispatched, cancelled or failed, whatever is paused, cancelled or restarted
\* meanwhile, unless it may be passed over again and again, by the tick's limit
\* (_process_pending_tasks) or by the mutex (try_acquire).
QueueDrains ==
    \A r \in Run :
        \/ []<>MayBePassedOver(r)
        \/ (status[r] = "queued" /\ info[r].task \in Registered
                                 /\ Deps[info[r].task] = {})
               ~> status[r] # "queued"
-----------------------------------------------------------------------------
(* What the documents say and the code does not do.                         *)

\* MutexLock: "Ensures at most one instance of a task runs at any given time."
\* At most one run of a task with the mutex has its function in execution.
MutexHolds ==
    \A t \in MutexTask : Cardinality({r \in Occupied : info[r].task = t}) <= 1

\* POST /runs/{run_id}/cancel: "Cancel a queued or running task run."  A run
\* that was cancelled stays so.
CancelledStaysCancelled ==
    [][\A r \in Run : status[r] = "cancelled" => status'[r] = "cancelled"]_vars
=============================================================================
