------------------------------ MODULE Research ------------------------------
(***************************************************************************)
(* Research reports and the funnel they feed: the HTTP requests that place *)
(* a report and queue its job (routers/research_v2.py, theme_scan.py), the *)
(* jobs that run the LLM pipelines (tasks/llm_pipelines.py,                *)
(* services/pipelines/llm), the weekly screen and the weekly research of   *)
(* the watchlist, and the life of a stock (services/lifecycle_service.py). *)
(*                                                                         *)
(* Job 0 is the weekly research; job r > 0 is the one queued for report r. *)
(* The calls of a pipeline are one phase, in which nothing is committed    *)
(* (six for a stock, five for a theme); prompts, scores and costs are left *)
(* out: a pipeline ends with a verdict.  Every session runs at READ        *)
(* COMMITTED, so what a transaction wrote is seen when it commits and its  *)
(* rows are locked till then.  The time-out of the engine reaches no       *)
(* report: it ends the run, not the thread, and the retry it queues has no *)
(* input.                                                                  *)
(*                                                                         *)
(* A start of the process is two steps: lifespan fails the reports of      *)
(* stocks and starts the engine, whose loop may dispatch jobs of the old   *)
(* process before the engine fails them and the reports of themes.         *)
(***************************************************************************)
EXTENDS Naturals, FiniteSets, FiniteSetsExt, SequencesExt

CONSTANTS
    Stock, Theme,   \* what is researched, what is scanned
    Client,         \* threads that serve requests
    Enabled,        \* the weekly tasks that are not paused
    MaxReports      \* reports that are placed

ASSUME ResearchAssumption ==
    /\ Stock \cap Theme = {} /\ IsFiniteSet(Stock)
    /\ Enabled \subseteq {"screen", "research"} /\ MaxReports \in Nat

Subject == Stock \cup Theme
Report == 1..MaxReports
Job == 0..MaxReports
Verdict == {"pass", "reject"}

VARIABLES
    placed,         \* number of reports placed
    rep,            \* their subject and status
    job,            \* the jobs
    week,           \* stocks the weekly research has still to look at
    req,            \* the request each thread serves
    screen,         \* the weekly screen
    life,           \* current_state, "none" without a row
    last,           \* last_research_at
    young,          \* the process is younger than RUNNING_STALE_AFTER
    verdict,        \* history: the last verdict committed for a stock
    recent,         \* history: it is not thirty days old
    up,             \* the start-up is over and requests are served
    contested,      \* history: reports that were not their own job's alone
    stranded,       \* history: reports that were left running
    crossed         \* history: stocks written on a state no longer theirs

funnel == <<life, last, verdict, recent, crossed>>
reports == <<placed, rep, contested>>
process == <<young, up, stranded>>
vars == <<reports, job, week, req, screen, funnel, process>>

NoJob == [pc |-> "none", subj |-> CHOOSE s \in Subject : TRUE, target |-> 0,
          inline |-> FALSE, hung |-> FALSE, seen |-> "none", verdict |-> "pass"]
NoRequest == [pc |-> "idle", subjects |-> {}, batch |-> FALSE, report |-> 0]
Asking(subjects, batch) ==
    [NoRequest EXCEPT !.pc = "place", !.subjects = subjects, !.batch = batch]
NoScreen == [pc |-> "idle", todo |-> {}, code |-> CHOOSE s \in Stock : TRUE,
             seen |-> "none", held |-> {}, broken |-> FALSE]

At(j, pc) == job[j].pc = pc
Working(j) == At(j, "work") /\ ~job[j].hung
RunningFor(s) == {r \in Report : rep[r].subj = s /\ rep[r].status = "running"}
RunningIn(subjects) == {r \in Report : rep[r].subj \in subjects /\ rep[r].status = "running"}
Settled(r) == rep[r].status \in {"completed", "rejected", "empty", "failed"}

\* Two reports of a stock that are running at the same time.
TwinsOf(reps) ==
    {r \in Report : /\ reps[r].status = "running" /\ reps[r].subj \in Stock
                    /\ \E q \in Report \ {r} : /\ reps[q].status = "running"
                                               /\ reps[q].subj = reps[r].subj}

\* The job of report r waits or is under way, or its request is about to queue it.
JobActive == {"queued", "work", "write"}
HasJob(r) == job[r].pc \in JobActive
HasRequest(r) == \E c \in Client : req[c].pc = "queue" /\ req[c].report = r
ToCome(r) == HasJob(r) \/ HasRequest(r)

Pending(s) == {r \in Report : ToCome(r) /\ rep[r].subj = s}

SetReport(r, status) == rep' = [rep EXCEPT ![r].status = status]

-----------------------------------------------------------------------------
Init ==
    /\ placed = 0
    /\ rep = [r \in Report |-> [subj |-> NoJob.subj, status |-> "none"]]
    /\ job = [j \in Job |-> NoJob]
    /\ week = {} /\ req = [c \in Client |-> NoRequest] /\ screen = NoScreen
    /\ life = [s \in Stock |-> "none"]
    /\ last = [s \in Stock |-> "never"]
    /\ young = TRUE /\ up = TRUE
    /\ verdict = [s \in Stock |-> "none"]
    /\ recent = [s \in Stock |-> FALSE]
    /\ contested = {} /\ stranded = {} /\ crossed = {}

-----------------------------------------------------------------------------
(* Requests.                                                               *)

\* needs_research: not researched in the last thirty days.
NeedsResearch(s) == last[s] # "fresh"

\* created_at is the time the process was started, whatever the report.
InFlight(s) == young /\ RunningFor(s) # {}

\* The bound on reports leaves room for the requests under way.
Room(n) ==
    placed + n + MapThenSumSet(LAMBDA c : Cardinality(req[c].subjects), Client)
        <= MaxReports

\* The checks of trigger_research; a refused or a cached request changes nothing.
AskResearch(c) ==
    /\ up /\ req[c].pc = "idle" /\ Room(1)
    /\ \E s \in Stock, force \in BOOLEAN :
        /\ ~InFlight(s)
        /\ force \/ NeedsResearch(s)
        /\ req' = [req EXCEPT ![c] = Asking({s}, FALSE)]
    /\ UNCHANGED <<reports, job, week, screen, funnel, process>>

\* The checks of trigger_batch_research, stock by stock.
AskBatch(c) ==
    /\ up /\ req[c].pc = "idle"
    /\ \E asked \in SUBSET Stock :
        LET kept == {s \in asked : ~InFlight(s) /\ NeedsResearch(s)} IN
        /\ kept # {} /\ Room(Cardinality(kept))
        /\ req' = [req EXCEPT ![c] = Asking(kept, TRUE)]
    /\ UNCHANGED <<reports, job, week, screen, funnel, process>>

\* trigger_theme_scan asks for the budget and for nothing else.
AskTheme(c) ==
    /\ up /\ req[c].pc = "idle" /\ Room(1)
    /\ \E t \in Theme : req' = [req EXCEPT ![c] = Asking({t}, FALSE)]
    /\ UNCHANGED <<reports, job, week, screen, funnel, process>>

\* The placeholders, one for each subject, all of them running; contested from the
\* first if there is another report, or a job, of the stock.
PlaceReports(subjects) ==
    LET order == SetToSeq(subjects) IN
    /\ placed' = placed + Len(order)
    /\ rep' = [r \in Report |->
                  IF r \in placed + 1 .. placed'
                  THEN [subj |-> order[r - placed], status |-> "running"] ELSE rep[r]]
    /\ contested' = contested \cup TwinsOf(rep')
          \cup {r \in Report : /\ r > placed /\ r <= placed' /\ rep'[r].subj \in Stock
                              /\ Pending(rep'[r].subj) # {}}

JobFor(s) == [NoJob EXCEPT !.pc = "queued", !.subj = s]

\* A single request commits the placeholder before it queues the job ...
Place(c) ==
    /\ req[c].pc = "place" /\ ~req[c].batch
    /\ PlaceReports(req[c].subjects)
    /\ req' = [req EXCEPT ![c] = [NoRequest EXCEPT !.pc = "queue", !.report = placed']]
    /\ UNCHANGED <<job, week, screen, funnel, process>>

\* ... and when the engine refuses it (a task that is paused) runs the pipeline itself.
Queue(c) ==
    /\ req[c].pc = "queue"
    /\ \E inline \in BOOLEAN :
        LET r == req[c].report
            queued == JobFor(rep[r].subj) IN
        job' = [job EXCEPT ![r] =
                   IF ~inline THEN queued
                   ELSE [queued EXCEPT !.pc = "work", !.target = r, !.inline = TRUE]]
    /\ req' = [req EXCEPT ![c] = NoRequest]
    /\ UNCHANGED <<reports, week, screen, funnel, process>>

\* A batch commits its placeholders and its jobs together.
SubmitBatch(c) ==
    /\ req[c].pc = "place" /\ req[c].batch
    /\ PlaceReports(req[c].subjects)
    /\ job' = [j \in Job |->
                  IF j \in placed + 1 .. placed' THEN JobFor(rep'[j].subj) ELSE job[j]]
    /\ req' = [req EXCEPT ![c] = NoRequest]
    /\ UNCHANGED <<week, screen, funnel, process>>

-----------------------------------------------------------------------------
(* The jobs.                                                               *)

Goto(j, pc) == job' = [job EXCEPT ![j].pc = pc]

\* A job that is over; the weekly one goes on with the next stock.
Ended(j) == [NoJob EXCEPT !.pc = IF j = 0 THEN "next" ELSE "done"]

\* Mutant of Target: whatever the status of the report.
TargetAny(r) == {q \in Report : q <= placed /\ rep[q].subj = job[r].subj}

\* deep_research_on_demand takes the newest running report of its stock, and they
\* all have one created_at; theme_scan_on_demand is told the report.
Target(r) == IF job[r].subj \in Theme THEN {r} ELSE RunningFor(job[r].subj)

Start(r) ==
    /\ At(r, "queued")
    /\ IF Target(r) = {} THEN job' = [job EXCEPT ![r] = Ended(r)]
       ELSE \E q \in Target(r) :
            job' = [job EXCEPT ![r].pc = "work", ![r].target = q]
    /\ UNCHANGED <<reports, week, req, screen, funnel, process>>

\* The report of the job, if it has one, is failed, after a roll-back; the engine
\* queues a retry.
GiveUp(j) ==
    /\ job' = [job EXCEPT ![j] =
                  IF j = 0 \/ job[j].inline THEN Ended(j) ELSE [NoJob EXCEPT !.pc = "retry"]]
    /\ IF j = 0 THEN UNCHANGED rep ELSE SetReport(job[j].target, "failed")

\* complete raised: three attempts failed, or the answer had no result.
Fail(j) ==
    /\ Working(j)
    /\ GiveUp(j)
    /\ UNCHANGED <<placed, contested, week, req, screen, funnel, process>>

\* The pool of _call_with_watchdog joins its thread, so a call that never returns
\* is never given up ...
Hang(j) ==
    /\ Working(j)
    /\ job' = [job EXCEPT ![j].hung = TRUE]
    /\ UNCHANGED <<reports, week, req, screen, funnel, process>>

\* ... until the connection ends.
Release(j) ==
    /\ job[j].hung
    /\ job' = [job EXCEPT ![j].hung = FALSE]
    /\ UNCHANGED <<reports, week, req, screen, funnel, process>>

\* The calls gave their results and the red lines decide; get_lifecycle reads the row.
Conclude(j) ==
    /\ Working(j) /\ job[j].subj \in Stock
    /\ \E v \in Verdict :
        job' = [job EXCEPT ![j].pc = "write", ![j].verdict = v,
                           ![j].seen = life[job[j].subj]]
    /\ UNCHANGED <<reports, week, req, screen, funnel, process>>

\* Mutant of State: a stock that is rejected stays where it was.
StateKept(v, seen) == IF v = "pass" THEN "candidate" ELSE seen

\* mark_researched: where the verdict takes the stock.
State(v, seen) == IF v = "pass" THEN "candidate" ELSE "researched"

\* A row is inserted once; the second insert breaks the primary key.
Clashes(s, seen) == seen = "none" /\ life[s] # "none"

\* enter_state, of a row that was read in state `seen`: a state that does not
\* change changes nothing.
Enter(s, seen, state) ==
    /\ life' = IF seen = state THEN life ELSE [life EXCEPT ![s] = state]
    /\ crossed' = IF life[s] = seen THEN crossed ELSE crossed \cup {s}

\* _try_trigger_task marks the report in the session of the request, which refuses
\* everything after a flush that failed: the report stays running.
Strand(j) ==
    /\ job' = [job EXCEPT ![j] = Ended(j)]
    /\ stranded' = stranded \cup {job[j].target}
    /\ UNCHANGED rep

\* The report, the life of the stock and the red lines are committed together,
\* once the screen no longer holds the row.
Write(j) ==
    LET s == job[j].subj
        v == job[j].verdict
        seen == job[j].seen IN
    /\ At(j, "write") /\ s \notin screen.held
    /\ \/ Clashes(s, seen) /\ ~job[j].inline /\ GiveUp(j) /\ UNCHANGED <<funnel, stranded>>
       \/ Clashes(s, seen) /\ job[j].inline /\ Strand(j) /\ UNCHANGED funnel
       \/ /\ ~Clashes(s, seen)
          /\ Enter(s, seen, State(v, seen))
          /\ last' = IF seen = State(v, seen) THEN last ELSE [last EXCEPT ![s] = "fresh"]
          /\ verdict' = [verdict EXCEPT ![s] = v]
          /\ recent' = [recent EXCEPT ![s] = TRUE]
          /\ job' = [job EXCEPT ![j] = Ended(j)]
          /\ IF j = 0 THEN UNCHANGED rep
             ELSE SetReport(job[j].target, IF v = "pass" THEN "completed" ELSE "rejected")
          /\ UNCHANGED stranded
    /\ UNCHANGED <<placed, contested, week, req, screen, young, up>>

\* A theme scan is empty when none of its candidates is a stock.
WriteTheme(r) ==
    /\ Working(r) /\ job[r].subj \in Theme
    /\ \E status \in {"completed", "empty"} : SetReport(job[r].target, status)
    /\ job' = [job EXCEPT ![r] = Ended(r)]
    /\ UNCHANGED <<placed, contested, week, req, screen, funnel, process>>

\* The retry was queued without the input of the run, so it has nothing to do.
Retry(r) ==
    /\ At(r, "retry")
    /\ job' = [job EXCEPT ![r] = Ended(r)]
    /\ UNCHANGED <<reports, week, req, screen, funnel, process>>

\* cancel_task_run of a run that waits; one that runs, or that the tick has loaded,
\* does not look.  Nothing is done about the report.
Cancel(r) ==
    /\ up /\ job[r].pc \in {"queued", "retry"}
    /\ job' = [job EXCEPT ![r] = Ended(r)]
    /\ stranded' = stranded \cup {q \in {r} : At(r, "queued") /\ rep[r].status = "running"}
    /\ UNCHANGED <<reports, week, req, screen, funnel, young, up>>

-----------------------------------------------------------------------------
(* v2_deep_research, every week.                                           *)

WeekStart ==
    /\ "research" \in Enabled /\ At(0, "none")
    /\ week' = {s \in Stock : life[s] = "watchlist"}
    /\ Goto(0, "next")
    /\ UNCHANGED <<reports, req, screen, funnel, process>>

\* One stock after the other: skipped, or researched in the session of the job.
WeekNext ==
    /\ At(0, "next")
    /\ \E s \in week :
        /\ week' = week \ {s}
        /\ job' = IF NeedsResearch(s)
                  THEN [job EXCEPT ![0].pc = "work", ![0].subj = s] ELSE job
    /\ UNCHANGED <<reports, req, screen, funnel, process>>

\* All are done, or the run was cancelled between two of them.
WeekEnd ==
    /\ At(0, "next")
    /\ week' = {}
    /\ Goto(0, "none")
    /\ UNCHANGED <<reports, req, screen, funnel, process>>

-----------------------------------------------------------------------------
(* v2_quality_screen: one transaction for all the stocks.                  *)

ScreenStart ==
    /\ "screen" \in Enabled /\ screen.pc = "idle"
    /\ screen' = [NoScreen EXCEPT !.pc = "next", !.todo = Stock]
    /\ UNCHANGED <<reports, job, week, req, funnel, process>>

\* A stock fails the rules, or is where enter_state may not or need not move it.
ScreenPass(s) ==
    /\ screen.pc = "next" /\ s \in screen.todo
    /\ screen' = [screen EXCEPT !.todo = @ \ {s}]
    /\ UNCHANGED <<reports, job, week, req, funnel, process>>

\* A stock passes: its row is read ...
ScreenRead(s) ==
    /\ screen.pc = "next" /\ s \in screen.todo
    /\ life[s] \in {"none", "researched"} /\ ~screen.broken
    /\ screen' = [screen EXCEPT !.pc = "write", !.todo = @ \ {s},
                                !.code = s, !.seen = life[s]]
    /\ UNCHANGED <<reports, job, week, req, funnel, process>>

\* ... and written, and locked till the end.  A flush that fails breaks the session
\* for the stocks that follow and for the commit.
ScreenWrite ==
    LET s == screen.code IN
    /\ screen.pc = "write"
    /\ screen' = IF Clashes(s, screen.seen)
                 THEN [NoScreen EXCEPT !.pc = "next", !.todo = screen.todo, !.broken = TRUE]
                 ELSE [screen EXCEPT !.pc = "next", !.held = @ \cup {s}]
    /\ crossed' = IF life[s] = screen.seen THEN crossed ELSE crossed \cup {s}
    /\ UNCHANGED <<reports, job, week, req, life, last, verdict, recent, process>>

\* Mutant of Listed: every stock that was screened.
ListedAll == [s \in Stock |-> "watchlist"]

Listed == [s \in Stock |-> IF s \in screen.held THEN "watchlist" ELSE life[s]]

ScreenCommit ==
    /\ screen.pc = "next" /\ screen.todo = {}
    /\ life' = Listed
    /\ screen' = NoScreen
    /\ UNCHANGED <<reports, job, week, req, last, verdict, recent, crossed, process>>

-----------------------------------------------------------------------------
(* The process and the calendar.                                           *)

\* Mutant of Orphaned: reports are left as they were.
OrphanedNone(subjects) == {}

\* The reports of some subjects that a start-up finds running.
Orphaned(subjects) == RunningIn(subjects)

\* A recovery fails them, or fails itself, which is logged and forgotten.
Recovers(subjects) ==
    \/ /\ rep' = [r \in Report |->
                IF r \in Orphaned(subjects) THEN [rep[r] EXCEPT !.status = "failed"] ELSE rep[r]]
       /\ stranded' = stranded \ RunningIn(subjects)
    \/ /\ stranded' = stranded \cup RunningIn(subjects)
       /\ UNCHANGED rep

\* The process stops anywhere and starts again: what was not committed is gone, and
\* lifespan recovers the reports of stocks.  The rows of the jobs that wait are there.
Restart ==
    /\ young' = TRUE /\ up' = FALSE
    /\ Recovers(Stock)
    /\ job' = [j \in Job |->
                  IF job[j].pc = "none" \/ j = 0 THEN NoJob
                  ELSE IF job[j].pc \in {"queued", "retry"} THEN job[j] ELSE Ended(j)]
    /\ week' = {} /\ req' = [c \in Client |-> NoRequest] /\ screen' = NoScreen
    /\ UNCHANGED <<placed, contested, funnel>>

\* The engine, whose loop is running, fails the jobs that wait and the reports of
\* themes; a job that the loop has loaded by now is dispatched all the same.
Recover ==
    /\ ~up /\ up' = TRUE
    /\ Recovers(Theme)
    /\ \E loaded \in SUBSET {r \in Report : job[r].pc \in {"queued", "retry"}} :
        job' = [j \in Job |->
                  IF job[j].pc \in {"queued", "retry"} /\ j \notin loaded THEN Ended(j)
                  ELSE job[j]]
    /\ UNCHANGED <<placed, week, req, screen, funnel, young>>
    /\ contested' = contested \cup {r \in RunningIn(Theme) : ToCome(r)'}

\* The process is a quarter of an hour old.
Age ==
    /\ young /\ up
    /\ young' = FALSE
    /\ UNCHANGED <<reports, job, week, req, screen, funnel, up, stranded>>

\* Thirty days with nothing under way.
Expire ==
    /\ up /\ \A r \in Report : job[r].pc \in {"none", "done"}
    /\ At(0, "none") /\ screen.pc = "idle" /\ \A c \in Client : req[c].pc = "idle"
    /\ last' = [s \in Stock |-> IF last[s] = "fresh" THEN "stale" ELSE last[s]]
    /\ recent' = [s \in Stock |-> FALSE]
    /\ young' = FALSE
    /\ UNCHANGED <<reports, job, week, req, screen, life, verdict, crossed, up, stranded>>

-----------------------------------------------------------------------------
RequestStep(c) == Place(c) \/ Queue(c) \/ SubmitBatch(c)
JobStep(j) == Fail(j) \/ Conclude(j) \/ Write(j)
QueuedStep(r) == Start(r) \/ WriteTheme(r) \/ Retry(r)
ScreenStep == ScreenWrite \/ ScreenCommit \/ \E s \in Stock : ScreenPass(s) \/ ScreenRead(s)

Next ==
    \/ \E c \in Client : AskResearch(c) \/ AskBatch(c) \/ AskTheme(c) \/ RequestStep(c)
    \/ \E j \in Job : JobStep(j) \/ Hang(j) \/ Release(j)
    \/ \E r \in Report : QueuedStep(r) \/ Cancel(r)
    \/ WeekStart \/ WeekNext \/ WeekEnd
    \/ ScreenStart \/ ScreenStep
    \/ Restart \/ Recover \/ Age \/ Expire

Spec == Init /\ [][Next]_vars

\* The threads of the process go on, as long as no call hangs.
Fairness ==
    /\ \A c \in Client : WF_vars(RequestStep(c))
    /\ \A j \in Job : WF_vars(JobStep(j))
    /\ \A r \in Report : WF_vars(QueuedStep(r))
    /\ WF_vars(ScreenStep) /\ WF_vars(Recover)

FairSpec == Spec /\ Fairness

-----------------------------------------------------------------------------
\* Types: a job works on a report of its own subject, a lock is a row that was read.
ResearchTypeOK ==
    /\ placed \in 0..MaxReports /\ young \in BOOLEAN
    /\ \A r \in Report : (rep[r].status = "none") = (r > placed)
    /\ \A j \in Job : job[j].target # 0 => rep[job[j].target].subj = job[j].subj
    /\ \A r \in Report : job[r].pc \notin {"none", "done", "retry"} =>
           rep[r].subj = job[r].subj
    /\ week \subseteq Stock /\ screen.held \subseteq Stock \ screen.todo
    /\ life \in [Stock -> {"none", "watchlist", "researched", "candidate"}]
    /\ last \in [Stock -> {"never", "fresh", "stale"}]
    /\ \A s \in Stock : last[s] # "never" <=> verdict[s] # "none"

\* A placeholder gets a terminal status, through failures and restarts, as the
\* docstring of trigger_research says; except for one whose job was cancelled before
\* it ran, one whose job hangs in a call, one that was contested, whose job
\* may have taken another report, and one that was left running, by a clash in
\* a pipeline run by the request or by a start-up that could not recover it.
ReportsSettle ==
    \A r \in Report : rep[r].status = "running" ~>
        \/ Settled(r) \/ r \in contested \cup stranded
        \/ \E j \in Job : job[j].hung /\ job[j].target = r

\* A report that is running is some job's or request's to end, or the engine's that is
\* starting, so that none is forgotten by a failure, a retry, a hung call or a restart;
\* except for those that ReportsSettle excuses as contested or stranded.
NoReportForgotten ==
    \A r \in Report : rep[r].status = "running" =>
        \/ ToCome(r) \/ (~up /\ rep[r].subj \in Theme)
        \/ r \in contested \cup stranded

\* A report that is settled is not written again, by a job that was late, by one of
\* the process before or by a restart, unless it was contested: placed while its
\* stock had another running report or a job, or failed by a start-up whose engine
\* had already dispatched the job of its theme.
SettledStays ==
    [][\A r \in Report : Settled(r) /\ r \notin contested => rep'[r] = rep[r]]_vars

\* _recover_stale_runs "Mark any 'running' or 'queued' task runs as failed on startup",
\* so that what a start-up failed is not written by a job of the process before.
RecoveredStays ==
    [][\A r \in Report : (up /\ Settled(r) /\ rep[r].subj \in Theme) => rep'[r] = rep[r]]_vars

\* A stock is a candidate exactly when the last verdict on it was to pass, however
\* the screen, the weekly research and the jobs of requests interleave; except for
\* one whose row was written over a state that had changed since it was read.
FunnelFollowsVerdict ==
    \A s \in Stock \ crossed : (life[s] = "candidate") = (verdict[s] = "pass")

\* mark_researched "updates last_research_at (for 30-day cache)": a stock that was
\* researched within thirty days is not to be researched again.
CacheHolds == \A s \in Stock : recent[s] => ~NeedsResearch(s)

=============================================================================
