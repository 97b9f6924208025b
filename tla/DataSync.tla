------------------------------ MODULE DataSync ------------------------------
(***************************************************************************)
(* The pipelines that copy the data of an external provider into the       *)
(* tables (services/pipelines), the tasks that fill the same tables by     *)
(* other code (tasks/data_sync.py and the services it calls), the users    *)
(* who start, retry and cancel runs or delete rows, and the sweep that     *)
(* fails the runs it takes for dead.                                       *)
(*                                                                         *)
(* A pipeline run is a thread with a session of its own.  The model steps  *)
(* from one commit or one read whose result is used later to the next.  A  *)
(* series is a set of days; the values of a row are left out.              *)
(***************************************************************************)
EXTENDS Naturals, FiniteSets, FiniteSetsExt

CONSTANTS
    Stock,          \* stock codes
    Run,            \* pipeline runs, numbered from 1 in the order of creation
    PipelineType,   \* registered pipeline types that users start
    Full,           \* the values of force_full that users ask for
    LastDay,        \* bound on the calendar
    Task,           \* the scheduled tasks that fill a table
    Watched,        \* the stocks that are watched or held
    TaskType,       \* what each of them fetches
    Overlap,        \* days before the checkpoint that are fetched again
    Lag,            \* days after which the provider has published a row
    MaxTasks,       \* bound on the starts of tasks
    MaxBoots,       \* bound on restarts of the process
    MaxAge,         \* bound on the processes that get older than six hours
    MaxCancels,     \* bound on the requests to cancel
    MaxCleanups     \* bound on the deletions by users

ASSUME SyncAssumption ==
    /\ PipelineType \subseteq {"klines", "dividends", "financials", "valuations"}
    /\ Run \subseteq Nat \ {0} /\ Run \cap Task = {} /\ Full \subseteq BOOLEAN /\ Watched \subseteq Stock
    /\ TaskType \in [Task -> {"tail", "dividends", "financials", "valuations"}]
    /\ Overlap \in Nat /\ Lag \in Nat /\ Lag <= Overlap
    /\ LastDay \in Nat \ {0} /\ MaxBoots \in Nat /\ MaxAge \in Nat /\ MaxTasks \in Nat
    /\ MaxCancels \in Nat /\ MaxCleanups \in Nat

Day == 1..LastDay

\* The rows that have a date and, for a price, a positive close.
Row == Stock \X Day
Table == {"klines", "dividends", "financials", "valuations"}
Live == {"pending", "running"}
Settled == {"completed", "completed_with_errors", "failed", "cancelled"}

Job == Run \cup Task

VARIABLES
    runs,           \* the table pipeline_runs
    worker,         \* the thread of each run and task
    stored,         \* the rows of each data table
    doubled,        \* the dividends that are in their table twice
    checkpoint,     \* the last day synchronised of each stock, 0 if none
    letters,        \* dead letters: run and stock
    flagged,        \* the in-memory set of cancelled runs
    request,        \* how far the request to cancel a run has come
    swept,          \* the runs the sweep has loaded and not yet committed
    boot,           \* the number of the current process
    aged,           \* processes up to this one were started six hours ago
    today,
    published,      \* the rows the provider has
    cleaned,        \* history: rows that a user deleted
    cleanups,       \* history: the number of deletions
    cancels,        \* history: the number of cancels
    tasks,          \* history: the number of tasks started
    late,           \* history: items a run began after it was flagged
    lost,           \* history: runs that lost a letter and the commit after it
    cutoff          \* history: processes up to this one the last start-up took for old

data == <<stored, doubled, checkpoint, cleaned, cleanups>>
history == <<late, tasks, lost, cutoff>>
clock == <<boot, aged, today, published>>
control == <<flagged, request, cancels, swept>>
vars == <<runs, worker, data, letters, control, clock, history>>

Idle == [pc |-> "idle", todo |-> {}, item |-> {}, rows |-> {}, seen |-> {},
         good |-> {}, bad |-> {}, poisoned |-> FALSE]

-----------------------------------------------------------------------------
TypeOf(w) == IF w \in Task THEN TaskType[w] ELSE runs[w].type
TableOf(w) == IF TypeOf(w) = "tail" THEN "klines" ELSE TypeOf(w)

\* Valuations are fetched for all stocks at once, and no cancel is looked for.
Batch(w) == TypeOf(w) = "valuations"

\* Mutant of Since: the days before the checkpoint are not fetched again.
SinceExactly(day) == {d \in Day : d >= day}

Since(day) == {d \in Day : d + Overlap >= day}
DaysOf(table, s) == {d \in Day : <<s, d>> \in stored[table]}

\* Incremental runs start some days before the checkpoint.
KlineDays(r, s) ==
    IF runs[r].full \/ checkpoint[s] = 0 THEN Day ELSE Since(checkpoint[s])

\* get_klines starts some days before the last row in the table.
TailDays(s) ==
    IF DaysOf("klines", s) = {} THEN Day ELSE Since(Max(DaysOf("klines", s)))

\* The days up to today that a job asks the provider for.
Window(w, s) ==
    {d \in 1..today :
        CASE TypeOf(w) = "klines" -> d \in KlineDays(w, s)
          [] TypeOf(w) = "tail" -> d \in TailDays(s)
          [] TypeOf(w) = "valuations" -> d = today
          [] OTHER -> TRUE}

\* The status a run reports when its loop is over.
Result(w) ==
    IF ~Batch(w) /\ worker[w].todo # {} THEN "cancelled"
    ELSE IF worker[w].bad = {} THEN "completed"
    ELSE IF worker[w].good # {} THEN "completed_with_errors"
    ELSE "failed"

At(w, pc) == worker[w].pc = pc
Alive(w) == worker[w].pc \notin {"idle", "done", "dead"}

\* Mutant of Stale: a run that never left pending is forgotten.
StaleRunning(r) == runs[r].status = "running" /\ runs[r].born <= aged

\* Every run of a process carries the time of its import as created_at.
Stale(r) == runs[r].status \in Live /\ runs[r].born <= aged

-----------------------------------------------------------------------------
Init ==
    /\ runs = [r \in Run |-> [status |-> "none", type |-> "klines", full |-> FALSE,
                              codes |-> {}, born |-> 0, failed |-> {}]]
    /\ worker = [w \in Job |-> Idle]
    /\ stored = [t \in Table |-> {}]
    /\ doubled = {} /\ checkpoint = [s \in Stock |-> 0]
    /\ letters = {} /\ flagged = {} /\ swept = {}
    /\ request = [r \in Run |-> "none"]
    /\ boot = 1 /\ aged = 0 /\ today = 1
    /\ published = {} /\ cleaned = {} /\ cleanups = 0 /\ cancels = 0
    /\ late = [r \in Run |-> 0] /\ tasks = 0 /\ lost = {} /\ cutoff = 0

-----------------------------------------------------------------------------
(* Starting runs.                                                          *)

Create(r, type, codes, full) ==
    /\ runs[r].status = "none"
    /\ \A q \in Run : q < r => runs[q].status # "none"
    /\ codes # {}
    /\ runs' = [runs EXCEPT ![r] = [status |-> "pending", type |-> type, full |-> full,
                                    codes |-> codes, born |-> boot, failed |-> {}]]
    /\ worker' = [worker EXCEPT ![r] = [Idle EXCEPT !.pc = "ready", !.todo = codes]]
    /\ UNCHANGED <<data, letters, control, clock, history>>

Start(r) ==
    \E type \in PipelineType, full \in Full : Create(r, type, Stock, full)

\* retry_failed looks at the summary of the run and not at its status.
RetryFailed(r, q) == Create(r, runs[q].type, runs[q].failed, runs[q].full)

StartTask(w) ==
    /\ ~Alive(w) /\ tasks < MaxTasks
    /\ worker' = [worker EXCEPT ![w] = [Idle EXCEPT !.pc = "next", !.todo = Watched]]
    /\ tasks' = tasks + 1
    /\ UNCHANGED <<runs, data, letters, control, clock, late, lost, cutoff>>

-----------------------------------------------------------------------------
(* The thread of a run.                                                    *)

\* The thread loads its row; a run cancelled before that is not executed.
Load(r) ==
    /\ At(r, "ready")
    /\ IF runs[r].status = "cancelled"
       THEN /\ worker' = [worker EXCEPT ![r] = [Idle EXCEPT !.pc = "done"]]
            /\ flagged' = flagged \ {r}
       ELSE worker' = [worker EXCEPT ![r].pc = "loaded"] /\ UNCHANGED flagged
    /\ UNCHANGED <<runs, data, letters, request, cancels, swept, clock, history>>

Enter(r) ==
    /\ At(r, "loaded")
    /\ runs' = [runs EXCEPT ![r].status = "running"]
    /\ worker' = [worker EXCEPT ![r].pc = "next"]
    /\ UNCHANGED <<data, letters, control, clock, history>>

\* Mutant of Stops: a cancel is looked for before the first item only.
StopsFirst(w) ==
    ~Batch(w) /\ w \in flagged /\ worker[w].good \cup worker[w].bad = {}

Stops(w) == ~Batch(w) /\ w \in flagged

\* The loop looks for a cancel, then takes an item and waits for the throttle.
NextItem(w) ==
    /\ At(w, "next")
    /\ \/ /\ worker[w].todo = {} \/ Stops(w)
          /\ worker' = IF w \in Task THEN [worker EXCEPT ![w] = Idle]
                       ELSE [worker EXCEPT ![w].pc = "end"]
       \/ /\ ~Stops(w)
          /\ \E item \in IF Batch(w) THEN {worker[w].todo} \ {{}}
                         ELSE {{s} : s \in worker[w].todo} :
                worker' = [worker EXCEPT ![w].pc = "fetch", ![w].item = item,
                                         ![w].todo = @ \ item]
    /\ UNCHANGED <<runs, data, letters, control, clock, history>>

\* Mutant of ItemFails: the item stays in hand.
ItemFailsHeld(w, poisoned) ==
    worker' = [worker EXCEPT ![w].pc = "next", ![w].rows = {},
                             ![w].bad = @ \cup worker[w].item,
                             ![w].poisoned = poisoned]

\* An exception ends the item; the loop goes on with the same session.
ItemFails(w, poisoned) ==
    worker' = [worker EXCEPT ![w].pc = "next", ![w].item = {}, ![w].rows = {},
                             ![w].bad = @ \cup worker[w].item,
                             ![w].poisoned = poisoned]

ItemDone(w) ==
    worker' = [worker EXCEPT ![w].pc = "next", ![w].item = {}, ![w].rows = {},
                             ![w].good = @ \cup worker[w].item]

\* Valuations that break a sanity rule are dropped and still count as done.
Accepted(w, got) == IF Batch(w) THEN SUBSET got ELSE {got}

Fetch(w) ==
    /\ At(w, "fetch")
    /\ \/ ItemFails(w, worker[w].poisoned)
       \/ /\ ~worker[w].poisoned
          /\ \E got \in Accepted(w, {x \in published : /\ x[1] \in worker[w].item
                                                    /\ x[2] \in Window(w, x[1])}) :
                worker' = [worker EXCEPT ![w].pc = "compare", ![w].rows = got,
                                         ![w].seen = @ \cup got]
    /\ late' = IF w \in flagged /\ ~Batch(w) THEN [late EXCEPT ![w] = @ + 1] ELSE late
    /\ UNCHANGED <<runs, data, letters, control, clock, tasks, lost, cutoff>>

\* Mutant of Compare: rows up to the last one in the table are taken as known.
CompareLatest(w) ==
    /\ At(w, "compare")
    /\ worker' = [worker EXCEPT ![w].pc = "store",
            ![w].rows = {x \in @ : \A d \in DaysOf(TableOf(w), x[1]) : d < x[2]}]
    /\ UNCHANGED <<runs, data, letters, control, clock, history>>

\* The days already in the table are read, and the others are inserted later.
Compare(w) ==
    /\ At(w, "compare")
    /\ worker' = [worker EXCEPT ![w].pc = "store", ![w].rows = @ \ stored[TableOf(w)]]
    /\ UNCHANGED <<runs, data, letters, control, clock, history>>

\* The commit of the new rows fails as a whole when one is there by now.
Insert(w) ==
    /\ worker[w].rows \cap stored[TableOf(w)] = {}
    /\ stored' = [stored EXCEPT ![TableOf(w)] = @ \cup worker[w].rows]
    /\ UNCHANGED doubled

\* Only the table of the dividends has no unique key.
InsertDividends(w) ==
    /\ doubled' = doubled \cup (worker[w].rows \cap stored["dividends"])
    /\ stored' = [stored EXCEPT !["dividends"] = @ \cup worker[w].rows]

\* A session whose flush failed refuses work until it is rolled back.
Abort(w, poisons) ==
    /\ worker[w].rows # {}
    /\ ItemFails(w, poisons)
    /\ UNCHANGED <<stored, doubled>>

ThenCheckpoint(w) ==
    IF worker[w].rows # {} THEN worker' = [worker EXCEPT ![w].pc = "checkpoint"]
    ELSE ItemDone(w)

LoadKlines(r) == (Insert(r) /\ ThenCheckpoint(r)) \/ Abort(r, TRUE)
LoadDividends(r) == (InsertDividends(r) /\ ThenCheckpoint(r)) \/ Abort(r, TRUE)
LoadFinancials(r) == (Insert(r) /\ ItemDone(r)) \/ Abort(r, TRUE)

\* The only pipeline that rolls its session back.
LoadValuations(r) == (Insert(r) /\ ItemDone(r)) \/ Abort(r, FALSE)

LoadTail(w) == (Insert(w) /\ ItemDone(w)) \/ Abort(w, TRUE)
FetchAndStoreDividends(w) == (InsertDividends(w) /\ ItemDone(w)) \/ Abort(w, TRUE)
FetchAndStoreFinancials(w) == (Insert(w) /\ ItemDone(w)) \/ Abort(w, TRUE)
Snapshot(w) == (Insert(w) /\ ItemDone(w)) \/ Abort(w, TRUE)

Store(w) ==
    /\ At(w, "store")
    /\ \/ w \in Run /\ TypeOf(w) = "klines" /\ LoadKlines(w)
       \/ w \in Run /\ TypeOf(w) = "dividends" /\ LoadDividends(w)
       \/ w \in Run /\ TypeOf(w) = "financials" /\ LoadFinancials(w)
       \/ w \in Run /\ TypeOf(w) = "valuations" /\ LoadValuations(w)
       \/ w \in Task /\ TypeOf(w) = "tail" /\ LoadTail(w)
       \/ w \in Task /\ TypeOf(w) = "dividends" /\ FetchAndStoreDividends(w)
       \/ w \in Task /\ TypeOf(w) = "financials" /\ FetchAndStoreFinancials(w)
       \/ w \in Task /\ TypeOf(w) = "valuations" /\ Snapshot(w)
    /\ UNCHANGED <<runs, checkpoint, cleaned, cleanups, letters, control, clock, history>>

\* The checkpoint is the last day inserted, in a commit of its own.  Those of
\* the dividends are never read.
SaveCheckpoint(w) ==
    /\ At(w, "checkpoint")
    /\ \/ /\ ItemDone(w)
          /\ checkpoint' = [s \in Stock |->
                IF TableOf(w) = "klines" /\ s \in worker[w].item
                THEN Max({x[2] : x \in worker[w].rows}) ELSE checkpoint[s]]
       \/ /\ ItemFails(w, TRUE)
          /\ UNCHANGED checkpoint
    /\ UNCHANGED <<runs, stored, doubled, cleaned, cleanups, letters, control, clock, history>>

\* Mutant of Letters: only runs that failed as a whole leave letters.
LettersIfFailed(w) == IF Batch(w) \/ worker[w].good # {} THEN {} ELSE worker[w].bad

\* Only the results of item pipelines carry the error type a letter needs.
Letters(w) == IF Batch(w) THEN {} ELSE worker[w].bad

Record(r, status, failed) ==
    runs' = [runs EXCEPT ![r].status = status, ![r].failed = failed]

\* The result and the dead letters: each letter is a commit, and the first one
\* carries the result of the run.  When a letter cannot be written the run is to
\* be failed, in one more commit; when that fails too, the run stays as it is.
End(r) ==
    LET left == {s \in Letters(r) : <<r, s>> \notin letters} IN
    /\ At(r, "end")
    /\ \/ /\ ~worker[r].poisoned /\ left # {}
          /\ \E s \in left : letters' = letters \cup {<<r, s>>}
          /\ IF left = Letters(r)
             THEN Record(r, Result(r), worker[r].bad) ELSE UNCHANGED runs
          /\ UNCHANGED <<worker, lost>>
       \/ /\ left # {}
          /\ \/ Record(r, "failed", {}) /\ UNCHANGED lost
             \/ UNCHANGED runs /\ lost' = lost \cup {r}
          /\ worker' = [worker EXCEPT ![r].pc = "record"]
          /\ UNCHANGED letters
       \/ /\ left = {}
          /\ \/ Letters(r) = {} /\ Record(r, Result(r), worker[r].bad)
             \/ UNCHANGED runs
          /\ worker' = [worker EXCEPT ![r].pc = "record"]
          /\ UNCHANGED <<letters, lost>>
    /\ UNCHANGED <<data, control, clock, late, tasks, cutoff>>

\* The freshness of the data and an event follow; then the thread ends.
Leave(r) ==
    /\ At(r, "record")
    /\ worker' = [worker EXCEPT ![r] = [Idle EXCEPT !.pc = "done"]]
    /\ UNCHANGED <<runs, data, letters, control, clock, history>>

Work(w) ==
    \/ NextItem(w) \/ Fetch(w) \/ Compare(w) \/ Store(w) \/ SaveCheckpoint(w)

Thread(r) == Load(r) \/ Enter(r) \/ Work(r) \/ End(r) \/ Leave(r)

-----------------------------------------------------------------------------
(* Users.                                                                  *)

CancelRead(r) ==
    /\ cancels < MaxCancels
    /\ request[r] = "none" /\ runs[r].status \in Live
    /\ request' = [request EXCEPT ![r] = "read"]
    /\ cancels' = cancels + 1
    /\ UNCHANGED <<runs, worker, data, letters, flagged, swept, clock, history>>

CancelCommit(r) ==
    /\ request[r] = "read"
    /\ request' = [request EXCEPT ![r] = "committed"]
    /\ runs' = [runs EXCEPT ![r].status = "cancelled"]
    /\ UNCHANGED <<worker, data, letters, flagged, cancels, swept, clock, history>>

CancelFlag(r) ==
    /\ request[r] = "committed"
    /\ request' = [request EXCEPT ![r] = "none"]
    /\ flagged' = flagged \cup {r}
    /\ UNCHANGED <<runs, worker, data, letters, cancels, swept, clock, history>>

\* Rows before or after a date are deleted; the checkpoints stay.
Cleanup ==
    /\ cleanups < MaxCleanups
    /\ \E t \in Table, d \in 1..(LastDay + 1), before \in BOOLEAN :
        LET gone == {x \in stored[t] : IF before THEN x[2] < d ELSE x[2] > d} IN
        /\ gone # {}
        /\ stored' = [stored EXCEPT ![t] = @ \ gone]
        /\ doubled' = IF t = "dividends" THEN doubled \ gone ELSE doubled
        /\ cleaned' = cleaned \cup ({t} \X gone)
    /\ cleanups' = cleanups + 1
    /\ UNCHANGED <<runs, worker, checkpoint, letters, control, clock, history>>

-----------------------------------------------------------------------------
(* The sweep: a task that may be triggered, and a step of the start-up.    *)

SweepRead ==
    /\ swept = {}
    /\ swept' = {r \in Run : Stale(r)}
    /\ swept' # {}
    /\ UNCHANGED <<runs, worker, data, letters, flagged, request, cancels, clock, history>>

SweepCommit ==
    /\ swept # {}
    /\ runs' = [r \in Run |->
                  IF r \in swept THEN [runs[r] EXCEPT !.status = "failed"] ELSE runs[r]]
    /\ swept' = {}
    /\ UNCHANGED <<worker, data, letters, flagged, request, cancels, clock, history>>

-----------------------------------------------------------------------------
(* The environment.                                                        *)

\* The provider (external) publishes the row of a day with a delay.
Publish ==
    /\ \E x \in Row :
        /\ x[2] <= today /\ x \notin published
        /\ published' = published \cup {x}
    /\ UNCHANGED <<runs, worker, data, letters, control, boot, aged, today, history>>

Tick ==
    /\ today < LastDay
    /\ \A x \in Row : x[2] + Lag <= today => x \in published
    /\ today' = today + 1
    /\ UNCHANGED <<runs, worker, data, letters, control, boot, aged, published, history>>

\* Six hours pass, in which every thread finishes, as recover_stale_runs says.
Age ==
    /\ aged < boot /\ boot <= MaxAge
    /\ \A r \in Run : ~Alive(r)
    /\ aged' = boot
    /\ UNCHANGED <<runs, worker, data, letters, control, boot, today, published, history>>

\* The process ends with all its threads and starts again, with a sweep, unless
\* that fails: its error is logged and the start goes on.
Restart ==
    /\ boot <= MaxBoots
    /\ boot' = boot + 1
    /\ \/ swept' = {r \in Run : Stale(r)} /\ cutoff' = aged
       \/ swept' = {} /\ cutoff' = 0
    /\ worker' = [w \in Job |-> IF Alive(w) THEN [Idle EXCEPT !.pc = "dead"]
                                            ELSE worker[w]]
    /\ flagged' = {}
    /\ request' = [r \in Run |-> "none"]
    /\ UNCHANGED <<runs, data, letters, cancels, aged, today, published, late, tasks, lost>>

Next ==
    \/ \E r \in Run : \/ Start(r) \/ Thread(r)
                      \/ CancelRead(r) \/ CancelCommit(r) \/ CancelFlag(r)
    \/ \E r, q \in Run : RetryFailed(r, q)
    \/ \E w \in Task : StartTask(w) \/ Work(w)
    \/ Cleanup \/ SweepRead \/ SweepCommit
    \/ Publish \/ Tick \/ Age \/ Restart

\* Threads run on, and a request or a sweep in progress ends.  Users, the
\* provider, restarts and the cron check, which queues no sweep, owe nothing.
Fairness ==
    /\ \A r \in Run : WF_vars(Thread(r)) /\ WF_vars(CancelCommit(r) \/ CancelFlag(r))
    /\ WF_vars(SweepCommit)

Spec == Init /\ [][Next]_vars
FairSpec == Spec /\ Fairness

-----------------------------------------------------------------------------
(* Properties.                                                             *)

\* The variables keep their shape, whatever the runs, users and restarts do.
SyncTypeOK ==
    /\ \A r \in Run : /\ runs[r].status \in Live \cup Settled \cup {"none"}
                      /\ runs[r].failed \subseteq runs[r].codes
                      /\ runs[r].born \in 0..boot
    /\ \A w \in Job : /\ worker[w].good \cap worker[w].bad = {}
                      /\ worker[w].item \cap (worker[w].good \cup worker[w].bad) = {}
    /\ \A t \in Table : stored[t] \subseteq published
    /\ checkpoint \in [Stock -> 0..today]
    /\ letters \subseteq Run \X Stock

\* No hole stays in a price series: a day that the next incremental run will
\* not ask for, because it lies too far before the checkpoint, is in the table,
\* unless a user deleted it.  The checkpoint is saved after the rows, in another
\* commit, by runs that overlap, fail, end with the process and meet rows that
\* a task stored and the provider published late.
NoHoles ==
    \A x \in published :
        (checkpoint[x[1]] # 0 /\ x[2] + Overlap < checkpoint[x[1]])
            => \/ x \in stored["klines"]
               \/ <<"klines", x>> \in cleaned

\* A run that reports itself completed has stored every row it was given, its
\* own or one that another job stored first (base.py, PipelineStatus).
CompletedIsStored ==
    \A r \in Run :
        (runs[r].status = "completed" /\ At(r, "record"))
            => \A x \in worker[r].seen :
                  \/ x \in stored[TableOf(r)]
                  \/ <<TableOf(r), x>> \in cleaned

\* A run that stands as completed with errors when its thread leaves offers a
\* retry exactly the stocks that failed, and each of them has its dead letter,
\* although every letter is a commit of its own in a session that may refuse to
\* commit; except for a run that lost a letter and then the commit that was to
\* fail it (_execute_with_db), which has the first letters only.
DeadLettersComplete ==
    \A r \in Run :
        (runs[r].status = "completed_with_errors" /\ At(r, "record") /\ ~Batch(r))
            => LET lettered == {s \in worker[r].bad : <<r, s>> \in letters} IN
               /\ runs[r].failed = worker[r].bad
               /\ lettered # {}
               /\ r \in lost \/ lettered = worker[r].bad

\* A cancel stops the work: after the request has returned, a run of an item
\* pipeline asks the provider for one more stock at most.
CancelStops == \A r \in Run : late[r] <= 1

\* The thread of r is gone, and the process it was of was not six hours old when
\* the present one started (or the sweep of that start failed).
LeftBehind(r) == ~Alive(r) /\ runs[r].born > cutoff

\* A run leaves pending and running by its thread, whatever is cancelled and swept
\* meanwhile; one whose thread died with the process or lost its last commit stays
\* there only until the process starts when the run's own is six hours old.
RunsSettle ==
    \A r \in Run :
        (runs[r].status \in Live) ~> (runs[r].status \notin Live \/ LeftBehind(r))

\* DividendPipeline "upserts into the dividends table": no dividend of a stock is
\* stored twice, whatever runs overlap.
DividendsOnce == doubled = {}

\* recover_stale_runs: "6h is a safe upper bound", the sweep fails no run whose
\* thread is at work.
SweepSparesLive ==
    [][\A r \in Run : (SweepCommit /\ r \in swept) => ~Alive(r)]_vars
=============================================================================
