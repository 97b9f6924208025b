---------------------------- MODULE ResearchProofs ----------------------------
(***************************************************************************)
(* What holds of research reports and of the funnel for any number of      *)
(* stocks, themes, threads and reports.                                    *)
(*                                                                         *)
(* Funnel: the screen may move a stock only from a state that is not       *)
(* "candidate", and holds its row from then on; a job that writes on a     *)
(* state it did not read marks the stock as crossed.                       *)
(*                                                                         *)
(* Reports: while a report of a stock runs and is not contested, no job of *)
(* the stock but its own is to come, so none is left to write it again     *)
(* once it is settled; a job of the process before a restart finds the     *)
(* report it was queued for failed, and one placed meanwhile contested.    *)
(***************************************************************************)
EXTENDS Research, FiniteSetTheorems, TLAPS

JobField == {"pc", "subj", "target", "inline", "hung", "seen", "verdict"}
ScreenField == {"pc", "todo", "code", "seen", "held", "broken"}

(* Jobs, reports and requests are records, which no later step reshapes. *)
Shape ==
    /\ job = [j \in Job |-> job[j]]
    /\ \A j \in Job : job[j] = [f \in JobField |-> job[j][f]]
    /\ rep = [r \in Report |-> [subj |-> rep[r].subj, status |-> rep[r].status]]
    /\ req = [c \in Client |-> req[c]]
    /\ screen = [f \in ScreenField |-> screen[f]]
    /\ life = [s \in Stock |-> life[s]]
    /\ verdict = [s \in Stock |-> verdict[s]]

-----------------------------------------------------------------------------
(* The funnel.                                                              *)

(* A row the screen has read, or holds, was not a candidate's then. *)
ScreenInv ==
    /\ screen.pc = "write" => screen.code \in Stock /\ screen.seen \in {"none", "researched"}
    /\ screen.held \subseteq Stock
    /\ \A s \in screen.held \ crossed : life[s] \in {"none", "researched"}

FunnelInv == Shape /\ ScreenInv /\ FunnelFollowsVerdict

-----------------------------------------------------------------------------
(* The reports.                                                             *)

Live(r) == rep[r].status = "running" \/ r \in contested

PlacedInv ==
    /\ placed \in Nat
    /\ \A r \in Report : r <= placed => rep[r].subj \in Subject
    /\ \A r \in Report : r > placed => rep[r].status = "none" /\ r \notin contested
    /\ TwinsOf(rep) \subseteq contested
    /\ \A r \in Report : ToCome(r) => r <= placed

(* A request queues the job of its own report, which has none so far. *)
RequestInv ==
    /\ \A c \in Client : IsFiniteSet(req[c].subjects) /\ req[c].subjects \subseteq Subject
    /\ \A c \in Client : req[c].pc = "place" => req[c].subjects # {}
    /\ \A c \in Client : req[c].pc = "queue" =>
           /\ req[c].report \in 1..placed
           /\ req[c].report \in Report => ~HasJob(req[c].report)
    /\ \A c, d \in Client :
           /\ req[c].pc = "queue" /\ req[d].pc = "queue"
           /\ req[c].report = req[d].report
           => c = d

(* The job will write its own report, whatever else the stock has running. *)
Bound(r) == HasRequest(r) \/ (HasJob(r) /\ rep[r].subj \notin Stock)

(* A job works on a report of its subject that is running or contested; that  *)
(* of a theme, on its own, which is so from the start.                        *)
TargetInv ==
    /\ \A r \in Report : Bound(r) => Live(r)
    /\ \A r \in Report : HasJob(r) => job[r].subj = rep[r].subj
    /\ \A r \in Report : job[r].pc \in {"work", "write"} =>
           /\ job[r].target \in Report
           /\ Live(job[r].target)
           /\ rep[job[r].target].subj = rep[r].subj
           /\ rep[r].subj \notin Stock => job[r].target = r

(* While a report of a stock runs uncontested, no other job is to come. *)
AloneInv ==
    \A t \in Report :
        (rep[t].status = "running" /\ t \notin contested /\ rep[t].subj \in Stock)
            => Pending(rep[t].subj) \subseteq {t}

ReportInv == Shape /\ PlacedInv /\ RequestInv /\ TargetInv /\ AloneInv

-----------------------------------------------------------------------------
(* Helpers.                                                                 *)

LEMMA NoJobShape ==
  /\ NoJob = [f \in JobField |-> NoJob[f]]
  /\ NoJob.pc = "none" /\ NoJob.target = 0 /\ NoJob.hung = FALSE /\ NoJob.inline = FALSE
  BY DEF NoJob, JobField

LEMMA NoScreenShape ==
  /\ NoScreen = [f \in ScreenField |-> NoScreen[f]]
  /\ NoScreen.pc = "idle" /\ NoScreen.held = {}
<1>1. ASSUME NEW x
      PROVE  LET n == [pc |-> "idle", todo |-> {}, code |-> x, seen |-> "none",
                       held |-> {}, broken |-> FALSE]
             IN  n = [f \in ScreenField |-> n[f]] /\ n.pc = "idle" /\ n.held = {}
  BY DEF ScreenField
<1> QED BY <1>1 DEF NoScreen

LEMMA NoRequestShape ==
  /\ NoRequest.pc = "idle" /\ NoRequest.subjects = {}
  /\ \A n : [NoRequest EXCEPT !.pc = "queue", !.report = n].pc = "queue"
  /\ \A n : [NoRequest EXCEPT !.pc = "queue", !.report = n].report = n
  /\ \A n : [NoRequest EXCEPT !.pc = "queue", !.report = n].subjects = {}
  /\ \A S, b : Asking(S, b).pc = "place" /\ Asking(S, b).subjects = S
  BY DEF NoRequest, Asking

LEMMA EndedShape ==
  ASSUME NEW j \in Job
  PROVE  /\ Ended(j) = [f \in JobField |-> Ended(j)[f]]
         /\ Ended(j).pc \in {"next", "done"}
         /\ [NoJob EXCEPT !.pc = "retry"] = [f \in JobField |-> [NoJob EXCEPT !.pc = "retry"][f]]
         /\ [NoJob EXCEPT !.pc = "retry"].pc = "retry"
  BY NoJobShape DEF Ended, JobField

LEMMA JobForShape ==
  ASSUME NEW s
  PROVE  /\ JobFor(s) = [f \in JobField |-> JobFor(s)[f]]
         /\ JobFor(s).pc = "queued" /\ JobFor(s).subj = s
  BY NoJobShape DEF JobFor, JobField

(* SetToSeq lists a finite set. *)
LEMMA Listing ==
  ASSUME NEW S, IsFiniteSet(S)
  PROVE  /\ Len(SetToSeq(S)) \in Nat /\ Len(SetToSeq(S)) = Cardinality(S)
         /\ \A i \in 1..Len(SetToSeq(S)) : SetToSeq(S)[i] \in S
         /\ S # {} => Len(SetToSeq(S)) > 0
<1>1. Cardinality(S) \in Nat /\ ExistsBijection(1..Cardinality(S), S)
  BY FS_CardinalityType
<1>2. SetToSeq(S) \in [1..Cardinality(S) -> S]
  BY <1>1 DEF ExistsBijection, Bijection, Injection, IsInjective, SetToSeq
<1>3. Len(SetToSeq(S)) = Cardinality(S)
  BY <1>1, <1>2
<1>4. S # {} => Cardinality(S) # 0
  BY FS_EmptySet
<1> QED BY <1>1, <1>2, <1>3, <1>4

-----------------------------------------------------------------------------
(* Records keep their fields.                                               *)

LEMMA InitShape == Init => Shape
<1> SUFFICES ASSUME Init PROVE Shape
  OBVIOUS
<1>1. \A j \in Job : job[j] = [f \in JobField |-> job[j][f]]
  BY NoJobShape DEF Init
<1>2. screen = [f \in ScreenField |-> screen[f]]
  BY NoScreenShape DEF Init
<1> QED BY <1>1, <1>2 DEF Init, Shape

(* A job is replaced by one with the same fields, or some of its fields are. *)
LEMMA JobShape ==
  ASSUME Shape, Next
  PROVE  /\ job' = [j \in Job |-> job'[j]]
         /\ \A j \in Job : job'[j] = [f \in JobField |-> job'[j][f]]
<1> DEFINE Kept == /\ job' = [j \in Job |-> job'[j]]
                   /\ \A j \in Job : job'[j] = [f \in JobField |-> job'[j][f]]
<1>0. ASSUME UNCHANGED job PROVE Kept
  BY <1>0 DEF Shape
<1>1. ASSUME NEW j \in Job, NEW x, x = [f \in JobField |-> x[f]], job' = [job EXCEPT ![j] = x]
      PROVE  Kept
  BY <1>1 DEF Shape
<1>2. ASSUME NEW j, j \notin Job, NEW x, job' = [job EXCEPT ![j] = x] PROVE Kept
  BY <1>2 DEF Shape
<1>3. Report \subseteq Job /\ 0 \in Job
  BY ResearchAssumption DEF Report, Job
<1>a. ASSUME NEW j \in Job, NEW x, job' = [job EXCEPT ![j].pc = x] PROVE Kept
  <2> DEFINE n == [job[j] EXCEPT !.pc = x]
  <2>1. n = [f \in JobField |-> n[f]]
    BY DEF Shape, JobField
  <2>2. job' = [job EXCEPT ![j] = n]
    BY <1>a
  <2> HIDE DEF n
  <2> QED BY <2>1, <2>2, <1>1
<1>b. ASSUME NEW j \in Job, NEW x, NEW y, job' = [job EXCEPT ![j].pc = x, ![j].target = y]
      PROVE  Kept
  <2> DEFINE n == [job[j] EXCEPT !.pc = x, !.target = y]
  <2>1. n = [f \in JobField |-> n[f]]
    BY DEF Shape, JobField
  <2>2. job' = [job EXCEPT ![j] = n]
    BY <1>b DEF Shape
  <2> HIDE DEF n
  <2> QED BY <2>1, <2>2, <1>1
<1>c. ASSUME NEW j \in Job, NEW x, NEW y, job' = [job EXCEPT ![j].pc = x, ![j].subj = y]
      PROVE  Kept
  <2> DEFINE n == [job[j] EXCEPT !.pc = x, !.subj = y]
  <2>1. n = [f \in JobField |-> n[f]]
    BY DEF Shape, JobField
  <2>2. job' = [job EXCEPT ![j] = n]
    BY <1>c DEF Shape
  <2> HIDE DEF n
  <2> QED BY <2>1, <2>2, <1>1
<1>d. ASSUME NEW j \in Job, NEW x, NEW y, NEW z,
             job' = [job EXCEPT ![j].pc = x, ![j].verdict = y, ![j].seen = z]
      PROVE  Kept
  <2> DEFINE n == [job[j] EXCEPT !.pc = x, !.verdict = y, !.seen = z]
  <2>1. n = [f \in JobField |-> n[f]]
    BY DEF Shape, JobField
  <2>2. job' = [job EXCEPT ![j] = n]
    BY <1>d DEF Shape
  <2> HIDE DEF n
  <2> QED BY <2>1, <2>2, <1>1
<1> SUFFICES Kept
  OBVIOUS
<1> HIDE DEF Kept
<1>4. ASSUME NEW c \in Client, AskResearch(c) \/ AskBatch(c) \/ AskTheme(c) \/ Place(c)
      PROVE  Kept
  BY <1>0, <1>4 DEF AskResearch, AskBatch, AskTheme, Place
<1>5. ASSUME NEW c \in Client, Queue(c) PROVE Kept
  <2> DEFINE r == req[c].report
             queued == JobFor(rep[r].subj)
  <2>1. PICK inline \in BOOLEAN :
          job' = [job EXCEPT ![r] =
                   IF ~inline THEN queued
                   ELSE [queued EXCEPT !.pc = "work", !.target = r, !.inline = TRUE]]
    BY <1>5 DEF Queue
  <2>2. queued = [f \in JobField |-> queued[f]]
    BY JobForShape
  <2> HIDE DEF queued, r
  <2> DEFINE x == IF ~inline THEN queued
                  ELSE [queued EXCEPT !.pc = "work", !.target = r, !.inline = TRUE]
  <2>3. x = [f \in JobField |-> x[f]]
    BY <2>2 DEF JobField
  <2>4. job' = [job EXCEPT ![r] = x]
    BY <2>1
  <2> HIDE DEF x
  <2> QED BY <2>3, <2>4, <1>1, <1>2
<1>6. ASSUME NEW c \in Client, SubmitBatch(c) PROVE Kept
  <2>1. job' = [j \in Job |-> IF j \in placed + 1 .. placed' THEN JobFor(rep'[j].subj) ELSE job[j]]
    BY <1>6 DEF SubmitBatch
  <2>2. \A j \in Job : job'[j] = [f \in JobField |-> job'[j][f]]
    BY <2>1, JobForShape DEF Shape
  <2> QED BY <2>1, <2>2 DEF Kept
<1>7. ASSUME NEW j \in Job, GiveUp(j) PROVE Kept
  BY <1>7, <1>1, EndedShape DEF GiveUp
<1>8. ASSUME NEW j \in Job, Fail(j) PROVE Kept
  BY <1>7, <1>8 DEF Fail
<1>9. ASSUME NEW j \in Job, Hang(j) \/ Release(j) \/ Conclude(j) PROVE Kept
  <2>1. CASE Hang(j)
    BY <2>1 DEF Hang, Shape, Kept
  <2>2. CASE Release(j)
    BY <2>2 DEF Release, Shape, Kept
  <2>3. CASE Conclude(j)
    BY <2>3, <1>d DEF Conclude
  <2> QED BY <1>9, <2>1, <2>2, <2>3
<1>10. ASSUME NEW j \in Job, Write(j) PROVE Kept
  <2>1. GiveUp(j) \/ job' = [job EXCEPT ![j] = Ended(j)]
    BY <1>10 DEF Write, Strand
  <2> QED BY <1>7, <1>1, <2>1, EndedShape
<1>11. ASSUME NEW r \in Report, Start(r) PROVE Kept
  <2>1. CASE job' = [job EXCEPT ![r] = Ended(r)]
    BY <1>1, <1>3, <2>1, EndedShape
  <2>2. CASE \E q \in Target(r) : job' = [job EXCEPT ![r].pc = "work", ![r].target = q]
    BY <1>3, <2>2, <1>b
  <2> QED BY <1>11, <2>1, <2>2 DEF Start
<1>12. ASSUME NEW r \in Report, WriteTheme(r) \/ Retry(r) PROVE Kept
  BY <1>12, <1>1, <1>3, EndedShape DEF WriteTheme, Retry
<1>13. ASSUME NEW r \in Report, Cancel(r) PROVE Kept
  BY <1>13, <1>1, <1>3, EndedShape DEF Cancel
<1>14. CASE WeekStart \/ WeekEnd
  BY <1>14, <1>3, <1>a DEF WeekStart, WeekEnd, Goto
<1>15. CASE WeekNext
  <2>1. PICK s \in week : job' = IF NeedsResearch(s)
                  THEN [job EXCEPT ![0].pc = "work", ![0].subj = s] ELSE job
    BY <1>15 DEF WeekNext
  <2>2. CASE last[s] # "fresh"
    BY <2>1, <2>2, <1>3, <1>c DEF NeedsResearch
  <2>3. CASE last[s] = "fresh"
    BY <2>1, <2>3, <1>0 DEF NeedsResearch
  <2> QED BY <2>2, <2>3
<1>16. CASE ScreenStart \/ ScreenStep \/ Age \/ Expire
  <2>1. UNCHANGED job
    BY <1>16 DEF ScreenStart, ScreenStep, ScreenPass, ScreenRead, ScreenWrite, ScreenCommit, Age, Expire
  <2> QED BY <2>1, <1>0
<1>17. CASE Restart
  <2>1. job' = [j \in Job |->
                  IF job[j].pc = "none" \/ j = 0 THEN NoJob
                  ELSE IF job[j].pc \in {"queued", "retry"} THEN job[j] ELSE Ended(j)]
    BY <1>17 DEF Restart
  <2>2. ASSUME NEW j \in Job PROVE job'[j] = [f \in JobField |-> job'[j][f]]
    <3>1. job'[j] = NoJob \/ job'[j] = Ended(j) \/ job'[j] = job[j]
      BY <2>1
    <3> QED BY <3>1, NoJobShape, EndedShape DEF Shape
  <2> QED BY <2>1, <2>2 DEF Kept
<1>18. CASE Recover
  <2>1. PICK loaded : job' = [j \in Job |->
                  IF job[j].pc \in {"queued", "retry"} /\ j \notin loaded THEN Ended(j)
                  ELSE job[j]]
    BY <1>18 DEF Recover
  <2>2. \A j \in Job : job'[j] = [f \in JobField |-> job'[j][f]]
    BY <2>1, EndedShape DEF Shape
  <2> QED BY <2>1, <2>2 DEF Kept
<1> QED
  BY <1>4, <1>5, <1>6, <1>8, <1>9, <1>10, <1>11, <1>12, <1>13, <1>14, <1>15, <1>16, <1>17, <1>18
     DEF Next, RequestStep, JobStep, QueuedStep

(* The variables an action of the jobs and of the requests leaves alone. *)
LEMMA FunnelFrame ==
  ASSUME Next
  PROVE  \/ UNCHANGED <<life, verdict, crossed>>
         \/ ScreenWrite \/ ScreenCommit
         \/ \E j \in Job : Write(j) /\ ~Clashes(job[j].subj, job[j].seen)
<1> DEFINE Frame == UNCHANGED <<life, verdict, crossed>>
<1>1. ASSUME NEW c \in Client, AskResearch(c) \/ AskBatch(c) \/ AskTheme(c) \/ RequestStep(c)
      PROVE  Frame
  BY <1>1 DEF AskResearch, AskBatch, AskTheme, RequestStep, Place, Queue, SubmitBatch, funnel
<1>2. ASSUME NEW j \in Job, Fail(j) \/ Conclude(j) \/ Hang(j) \/ Release(j) PROVE Frame
  BY <1>2 DEF Fail, Conclude, Hang, Release, funnel
<1>3. ASSUME NEW j \in Job, Write(j), Clashes(job[j].subj, job[j].seen) PROVE Frame
  BY <1>3 DEF Write, funnel
<1>4. ASSUME NEW r \in Report, QueuedStep(r) \/ Cancel(r) PROVE Frame
  BY <1>4 DEF QueuedStep, Start, WriteTheme, Retry, Cancel, funnel
<1>5. ASSUME WeekStart \/ WeekNext \/ WeekEnd \/ ScreenStart \/ Restart \/ Recover \/ Age \/ Expire
      PROVE  Frame
  BY <1>5 DEF WeekStart, WeekNext, WeekEnd, ScreenStart, Restart, Recover, Age, Expire, funnel
<1>6. ASSUME NEW s \in Stock, ScreenPass(s) \/ ScreenRead(s) PROVE Frame
  BY <1>6 DEF ScreenPass, ScreenRead, funnel
<1> HIDE DEF Frame
<1> QED BY <1>1, <1>2, <1>3, <1>4, <1>5, <1>6 DEF Next, JobStep, ScreenStep, Frame

(* Only the steps of the screen, and a restart, change the screen. *)
LEMMA ScreenFrame ==
  ASSUME Next
  PROVE  \/ UNCHANGED screen
         \/ ScreenStart \/ ScreenWrite \/ ScreenCommit \/ Restart
         \/ \E s \in Stock : ScreenPass(s) \/ ScreenRead(s)
<1> DEFINE Frame == UNCHANGED screen
<1>1. ASSUME NEW c \in Client, AskResearch(c) \/ AskBatch(c) \/ AskTheme(c) \/ RequestStep(c)
      PROVE  Frame
  BY <1>1 DEF AskResearch, AskBatch, AskTheme, RequestStep, Place, Queue, SubmitBatch
<1>2. ASSUME NEW j \in Job, JobStep(j) \/ Hang(j) \/ Release(j) PROVE Frame
  BY <1>2 DEF JobStep, Fail, Conclude, Write, Hang, Release
<1>3. ASSUME NEW r \in Report, QueuedStep(r) \/ Cancel(r) PROVE Frame
  BY <1>3 DEF QueuedStep, Start, WriteTheme, Retry, Cancel
<1>4. ASSUME WeekStart \/ WeekNext \/ WeekEnd \/ Recover \/ Age \/ Expire PROVE Frame
  BY <1>4 DEF WeekStart, WeekNext, WeekEnd, Recover, Age, Expire
<1> HIDE DEF Frame
<1> QED BY <1>1, <1>2, <1>3, <1>4 DEF Next, ScreenStep, Frame

LEMMA ScreenShape ==
  ASSUME Shape, Next
  PROVE  screen' = [f \in ScreenField |-> screen'[f]]
<1> USE DEF Shape, ScreenField
<1>1. CASE UNCHANGED screen
  BY <1>1
<1>2. CASE ScreenStart
  BY <1>2, NoScreenShape DEF ScreenStart
<1>3. CASE ScreenWrite
  <2>1. CASE Clashes(screen.code, screen.seen)
    BY <1>3, <2>1, NoScreenShape DEF ScreenWrite
  <2>2. CASE ~Clashes(screen.code, screen.seen)
    BY <1>3, <2>2 DEF ScreenWrite
  <2> QED BY <2>1, <2>2
<1>4. CASE ScreenCommit \/ Restart
  BY <1>4, NoScreenShape DEF ScreenCommit, Restart
<1>5. ASSUME NEW s \in Stock, ScreenPass(s)
      PROVE  screen' = [f \in ScreenField |-> screen'[f]]
  BY <1>5 DEF ScreenPass
<1>6. ASSUME NEW s \in Stock, ScreenRead(s)
      PROVE  screen' = [f \in ScreenField |-> screen'[f]]
  BY <1>6 DEF ScreenRead
<1> QED BY <1>1, <1>2, <1>3, <1>4, <1>5, <1>6, ScreenFrame

(* What a job writes of the funnel. *)
LEMMA WriteFunnel ==
  ASSUME NEW j \in Job, Write(j), ~Clashes(job[j].subj, job[j].seen)
  PROVE  /\ Enter(job[j].subj, job[j].seen, State(job[j].verdict, job[j].seen))
         /\ verdict' = [verdict EXCEPT ![job[j].subj] = job[j].verdict]
         /\ job[j].subj \notin screen.held /\ UNCHANGED screen
  BY DEF Write

LEMMA FunnelShape ==
  ASSUME Shape, Next
  PROVE  life' = [s \in Stock |-> life'[s]] /\ verdict' = [s \in Stock |-> verdict'[s]]
<1> USE DEF Shape
<1>1. CASE UNCHANGED <<life, verdict, crossed>>
  BY <1>1
<1>2. CASE ScreenWrite
  BY <1>2 DEF ScreenWrite
<1>3. CASE ScreenCommit
  BY <1>3 DEF ScreenCommit, Listed
<1>4. ASSUME NEW j \in Job, Write(j), ~Clashes(job[j].subj, job[j].seen)
      PROVE  life' = [s \in Stock |-> life'[s]] /\ verdict' = [s \in Stock |-> verdict'[s]]
  <2>1. life' = life \/ \E state : life' = [life EXCEPT ![job[j].subj] = state]
    BY <1>4, WriteFunnel DEF Enter
  <2>2. verdict' = [verdict EXCEPT ![job[j].subj] = job[j].verdict]
    BY <1>4, WriteFunnel
  <2> QED BY <2>1, <2>2
<1> QED BY <1>1, <1>2, <1>3, <1>4, FunnelFrame

(* A report gets a status, or is placed, or failed by a restart. *)
LEMMA RepShape ==
  ASSUME Shape, Next
  PROVE  rep' = [r \in Report |-> [subj |-> rep'[r].subj, status |-> rep'[r].status]]
<1> DEFINE Kept == rep' = [r \in Report |-> [subj |-> rep'[r].subj, status |-> rep'[r].status]]
<1> SUFFICES Kept
  OBVIOUS
<1>1. ASSUME UNCHANGED rep PROVE Kept
  BY <1>1 DEF Shape
<1>2. ASSUME NEW t, NEW status, SetReport(t, status) PROVE Kept
  <2>1. rep' = [rep EXCEPT ![t].status = status]
    BY <1>2 DEF SetReport
  <2>2. CASE t \in Report
    BY <2>1, <2>2 DEF Shape
  <2>3. CASE t \notin Report
    BY <2>1, <2>3 DEF Shape
  <2> QED BY <2>2, <2>3
<1>3. ASSUME NEW S, PlaceReports(S) PROVE Kept
  <2> DEFINE order == SetToSeq(S)
  <2>1. rep' = [r \in Report |->
                  IF r \in placed + 1 .. placed'
                  THEN [subj |-> order[r - placed], status |-> "running"] ELSE rep[r]]
    BY <1>3 DEF PlaceReports
  <2> HIDE DEF order
  <2> QED BY <2>1 DEF Shape
<1>4. ASSUME NEW S, Recovers(S) PROVE Kept
  <2>1. CASE rep' = [r \in Report |->
                  IF r \in Orphaned(S) THEN [rep[r] EXCEPT !.status = "failed"] ELSE rep[r]]
    BY <2>1 DEF Shape
  <2> QED BY <1>1, <1>4, <2>1 DEF Recovers
<1>4a. CASE Restart \/ Recover
  BY <1>4, <1>4a DEF Restart, Recover
<1> HIDE DEF Kept
<1>5. ASSUME NEW j \in Job, GiveUp(j) PROVE Kept
  BY <1>1, <1>2, <1>5 DEF GiveUp
<1>6. ASSUME NEW c \in Client, AskResearch(c) \/ AskBatch(c) \/ AskTheme(c) \/ Queue(c)
      PROVE  Kept
  BY <1>1, <1>6 DEF AskResearch, AskBatch, AskTheme, Queue, reports
<1>7. ASSUME NEW c \in Client, Place(c) \/ SubmitBatch(c) PROVE Kept
  BY <1>3, <1>7 DEF Place, SubmitBatch
<1>8. ASSUME NEW j \in Job, Fail(j) PROVE Kept
  BY <1>5, <1>8 DEF Fail
<1>9. ASSUME NEW j \in Job, Conclude(j) \/ Hang(j) \/ Release(j) PROVE Kept
  BY <1>1, <1>9 DEF Conclude, Hang, Release, reports
<1>10. ASSUME NEW j \in Job, Write(j) PROVE Kept
  <2>1. GiveUp(j) \/ UNCHANGED rep \/ \E status : SetReport(job[j].target, status)
    BY <1>10 DEF Write, Strand
  <2> QED BY <1>1, <1>2, <1>5, <2>1
<1>11. ASSUME NEW r \in Report, WriteTheme(r) PROVE Kept
  BY <1>2, <1>11 DEF WriteTheme
<1>12. ASSUME NEW r \in Report, Start(r) \/ Retry(r) \/ Cancel(r) PROVE Kept
  BY <1>1, <1>12 DEF Start, Retry, Cancel, reports
<1>13. ASSUME WeekStart \/ WeekNext \/ WeekEnd \/ ScreenStart \/ ScreenWrite \/ ScreenCommit
              \/ Age \/ Expire
       PROVE  Kept
  <2>1. UNCHANGED rep
    BY <1>13 DEF WeekStart, WeekNext, WeekEnd, ScreenStart, ScreenWrite, ScreenCommit, Age, Expire, reports
  <2> QED BY <2>1, <1>1
<1>14. ASSUME NEW s \in Stock, ScreenPass(s) \/ ScreenRead(s) PROVE Kept
  BY <1>1, <1>14 DEF ScreenPass, ScreenRead, reports
<1> QED
  BY <1>4a, <1>6, <1>7, <1>8, <1>9, <1>10, <1>11, <1>12, <1>13, <1>14
     DEF Next, RequestStep, JobStep, QueuedStep, ScreenStep

LEMMA ReqShape ==
  ASSUME Shape, Next
  PROVE  req' = [c \in Client |-> req'[c]]
<1> DEFINE Kept == req' = [c \in Client |-> req'[c]]
<1> SUFFICES Kept
  OBVIOUS
<1>1. ASSUME UNCHANGED req PROVE Kept
  BY <1>1 DEF Shape
<1>2. ASSUME NEW c, NEW x, req' = [req EXCEPT ![c] = x] PROVE Kept
  BY <1>2 DEF Shape
<1>3. CASE Restart
  BY <1>3 DEF Restart
<1> HIDE DEF Kept
<1>4. ASSUME NEW c \in Client, AskResearch(c) \/ AskTheme(c) \/ RequestStep(c) PROVE Kept
  BY <1>2, <1>4 DEF AskResearch, AskTheme, RequestStep, Place, Queue, SubmitBatch
<1>5. ASSUME NEW c \in Client, AskBatch(c) PROVE Kept
  <2>1. \E x : req' = [req EXCEPT ![c] = x]
    BY <1>5 DEF AskBatch
  <2> QED BY <2>1, <1>2
<1>3a. CASE Recover
  BY <1>1, <1>3a DEF Recover
<1>6. ASSUME NEW j \in Job, JobStep(j) \/ Hang(j) \/ Release(j) PROVE Kept
  BY <1>1, <1>6 DEF JobStep, Fail, Conclude, Write, Hang, Release
<1>7. ASSUME NEW r \in Report, QueuedStep(r) \/ Cancel(r) PROVE Kept
  BY <1>1, <1>7 DEF QueuedStep, Start, WriteTheme, Retry, Cancel
<1>8. ASSUME WeekStart \/ WeekNext \/ WeekEnd \/ ScreenStart \/ ScreenWrite \/ ScreenCommit
              \/ Age \/ Expire
      PROVE  Kept
  <2>1. UNCHANGED req
    BY <1>8 DEF WeekStart, WeekNext, WeekEnd, ScreenStart, ScreenWrite, ScreenCommit, Age, Expire
  <2> QED BY <2>1, <1>1
<1>9. ASSUME NEW s \in Stock, ScreenPass(s) \/ ScreenRead(s) PROVE Kept
  BY <1>1, <1>9 DEF ScreenPass, ScreenRead
<1> QED
  BY <1>3, <1>3a, <1>4, <1>5, <1>6, <1>7, <1>8, <1>9 DEF Next, ScreenStep

LEMMA NextShape ==
  ASSUME Shape, [Next]_vars
  PROVE  Shape'
<1>1. CASE Next
  <2>1. job' = [j \in Job |-> job'[j]] /\ \A j \in Job : job'[j] = [f \in JobField |-> job'[j][f]]
    BY <1>1, JobShape
  <2> QED BY <1>1, <2>1, RepShape, ReqShape, ScreenShape, FunnelShape DEF Shape
<1>2. CASE UNCHANGED vars
  BY <1>2 DEF vars, reports, funnel, Shape
<1> QED BY <1>1, <1>2

-----------------------------------------------------------------------------
(* The funnel.                                                              *)

LEMMA InitFunnel == Init => FunnelInv
<1> SUFFICES ASSUME Init PROVE FunnelInv
  OBVIOUS
<1>1. ScreenInv
  BY NoScreenShape DEF Init, ScreenInv
<1>2. FunnelFollowsVerdict
  BY DEF Init, FunnelFollowsVerdict
<1> QED BY <1>1, <1>2, InitShape DEF FunnelInv

LEMMA WriteKeepsFunnel ==
  ASSUME FunnelInv, NEW j \in Job, Write(j), ~Clashes(job[j].subj, job[j].seen)
  PROVE  ScreenInv' /\ FunnelFollowsVerdict'
<1> DEFINE s == job[j].subj
           v == job[j].verdict
           seen == job[j].seen
<1>1. /\ life' = IF seen = State(v, seen) THEN life ELSE [life EXCEPT ![s] = State(v, seen)]
      /\ crossed' = IF life[s] = seen THEN crossed ELSE crossed \cup {s}
      /\ verdict' = [verdict EXCEPT ![s] = v]
      /\ s \notin screen.held /\ UNCHANGED screen
  BY WriteFunnel DEF Enter
<1>2. (State(v, seen) = "candidate") = (v = "pass")
  BY DEF State
<1> HIDE DEF s, v, seen
<1>3. ScreenInv'
  BY <1>1 DEF FunnelInv, ScreenInv, Shape
<1>4. ASSUME NEW u \in Stock, u \notin crossed'
      PROVE  (life'[u] = "candidate") = (verdict'[u] = "pass")
  <2>1. CASE u # s
    BY <1>1, <1>4, <2>1 DEF FunnelInv, FunnelFollowsVerdict, Shape
  <2>2. CASE u = s
    <3>1. life[s] = seen
      BY <1>1, <1>4, <2>2
    <3>2. life'[s] = State(v, seen) /\ verdict'[s] = v
      BY <1>1, <2>2, <3>1 DEF FunnelInv, Shape
    <3> QED BY <3>2, <2>2, <1>2
  <2> QED BY <2>1, <2>2
<1> QED BY <1>3, <1>4 DEF FunnelFollowsVerdict

LEMMA NextFunnel ==
  ASSUME FunnelInv, [Next]_vars
  PROVE  FunnelInv'
<1>1. Shape'
  BY NextShape DEF FunnelInv
<1> DEFINE Kept == ScreenInv' /\ FunnelFollowsVerdict'
<1>2. ASSUME NEW j \in Job, Write(j), ~Clashes(job[j].subj, job[j].seen) PROVE Kept
  BY <1>2, WriteKeepsFunnel
<1>3. ASSUME ScreenWrite PROVE Kept
  <2>1. FunnelFollowsVerdict'
    BY <1>3 DEF ScreenWrite, FunnelInv, FunnelFollowsVerdict
  <2>2. CASE Clashes(screen.code, screen.seen)
    <3>1. screen'.pc = "next" /\ screen'.held = {}
      BY <1>3, <2>2, NoScreenShape DEF ScreenWrite, ScreenField
    <3> QED BY <2>1, <3>1 DEF ScreenInv
  <2>3. CASE ~Clashes(screen.code, screen.seen)
    <3>1. screen'.pc = "next" /\ screen'.held = screen.held \cup {screen.code}
      BY <1>3, <2>3 DEF ScreenWrite, FunnelInv, Shape, ScreenField
    <3>2. screen.code \in Stock /\ screen.seen \in {"none", "researched"}
      BY <1>3 DEF ScreenWrite, FunnelInv, ScreenInv
    <3>3. UNCHANGED life /\ crossed' = IF life[screen.code] = screen.seen
                                       THEN crossed ELSE crossed \cup {screen.code}
      BY <1>3 DEF ScreenWrite
    <3> QED BY <2>1, <3>1, <3>2, <3>3 DEF FunnelInv, ScreenInv
  <2> QED BY <2>2, <2>3
<1>4. ASSUME ScreenCommit PROVE Kept
  <2>1. life' = [s \in Stock |-> IF s \in screen.held THEN "watchlist" ELSE life[s]]
    BY <1>4 DEF ScreenCommit, Listed
  <2>2. UNCHANGED <<verdict, crossed>> /\ screen'.pc = "idle" /\ screen'.held = {}
    BY <1>4, NoScreenShape DEF ScreenCommit
  <2> QED BY <2>1, <2>2 DEF FunnelInv, ScreenInv, FunnelFollowsVerdict
<1>5. ASSUME UNCHANGED <<life, verdict, crossed>> PROVE FunnelFollowsVerdict'
  BY <1>5 DEF FunnelInv, FunnelFollowsVerdict
<1>6. ASSUME UNCHANGED <<life, verdict, crossed>>, Next, ~ScreenWrite, ~ScreenCommit PROVE ScreenInv'
  <2> USE DEF FunnelInv, ScreenInv
  <2>1. CASE UNCHANGED screen
    BY <1>6, <2>1
  <2>2. CASE ScreenStart
    <3>1. screen'.pc = "next" /\ screen'.held = {}
      BY <2>2, NoScreenShape DEF ScreenStart, ScreenField
    <3> QED BY <3>1
  <2>3. CASE Restart
    BY <2>3, NoScreenShape DEF Restart
  <2>4. ASSUME NEW s \in Stock, ScreenPass(s) PROVE ScreenInv'
    <3>1. screen'.pc = "next" /\ screen'.held = screen.held
      BY <2>4 DEF ScreenPass, Shape, ScreenField
    <3> QED BY <1>6, <3>1
  <2>5. ASSUME NEW s \in Stock, ScreenRead(s) PROVE ScreenInv'
    <3>1. /\ screen'.held = screen.held /\ screen'.code = s /\ screen'.seen = life[s]
          /\ life[s] \in {"none", "researched"}
      BY <2>5 DEF ScreenRead, Shape, ScreenField
    <3> QED BY <1>6, <3>1
  <2> QED BY <1>6, <2>1, <2>2, <2>3, <2>4, <2>5, ScreenFrame
<1>7. ASSUME UNCHANGED vars PROVE Kept
  BY <1>7 DEF vars, funnel, FunnelInv, ScreenInv, FunnelFollowsVerdict
<1>8. Kept
  BY <1>2, <1>3, <1>4, <1>5, <1>6, <1>7, FunnelFrame
<1> QED BY <1>1, <1>8 DEF FunnelInv

(* A stock is a candidate exactly when the last verdict on it was to pass,  *)
(* for every way the screen (tasks of v2_quality_screen), the weekly        *)
(* research and the jobs of requests interleave, unless its row was written *)
(* on a state that was no longer its own.                                   *)
THEOREM FunnelIsSound == Spec => []FunnelFollowsVerdict
<1>1. Spec => []FunnelInv
  BY InitFunnel, NextFunnel, PTL DEF Spec
<1> QED BY <1>1, PTL DEF FunnelInv

-----------------------------------------------------------------------------
(* The reports: what the steps do to the invariant.                         *)

LEMMA InitReports == Init => ReportInv
<1> SUFFICES ASSUME Init PROVE ReportInv
  OBVIOUS
<1>1. /\ \A r \in Report : rep[r].status = "none" /\ job[r].pc = "none"
      /\ \A c \in Client : req[c].pc = "idle" /\ req[c].subjects = {}
      /\ placed = 0 /\ contested = {}
  BY NoJobShape, NoRequestShape, ResearchAssumption DEF Init, Report, Job
<1>4. \A r \in Report : ~ToCome(r)
  BY <1>1 DEF ToCome, HasJob, HasRequest, JobActive
<1>2. PlacedInv
  BY <1>1, <1>4, ResearchAssumption DEF PlacedInv, TwinsOf, Report
<1>3. RequestInv
  BY <1>1, FS_EmptySet DEF RequestInv
<1>5. TargetInv
  BY <1>1, <1>4 DEF TargetInv, Bound, ToCome
<1>6. AloneInv
  BY <1>1 DEF AloneInv
<1> QED BY <1>2, <1>3, <1>5, <1>6, InitShape DEF ReportInv

(* What a job may work on: a running report of its subject. *)
GoodTarget(r, t) ==
    /\ t \in Report /\ Live(t) /\ rep[t].subj = rep[r].subj
    /\ rep[r].subj \notin Stock => t = r

(* A step that leaves the reports alone and brings no new job. *)
LEMMA SameReports ==
  ASSUME ReportInv, UNCHANGED reports,
         \A r \in Report : ToCome(r)' => ToCome(r),
         \A r \in Report : HasRequest(r)' => HasRequest(r),
         \A r \in Report : HasJob(r)' => job'[r].subj = rep[r].subj,
         \A r \in Report : job'[r].pc \in {"work", "write"} => GoodTarget(r, job'[r].target)
  PROVE  PlacedInv' /\ TargetInv' /\ AloneInv'
<1>1. UNCHANGED <<placed, rep, contested>>
  BY DEF reports
<1>2. PlacedInv'
  BY <1>1 DEF ReportInv, PlacedInv, TwinsOf
<1>3. \A r \in Report : Bound(r)' => Live(r)'
  BY <1>1 DEF ReportInv, TargetInv, Live, Bound, ToCome
<1>4. TargetInv'
  BY <1>1, <1>3 DEF TargetInv, Live, GoodTarget
<1>5. AloneInv'
  BY <1>1 DEF ReportInv, AloneInv, Pending
<1> QED BY <1>2, <1>4, <1>5

(* A job that starts, goes on, ends or is cancelled. *)
LEMMA SameRequests ==
  ASSUME ReportInv, UNCHANGED <<placed, req>>,
         \A r \in Report : HasJob(r)' => HasJob(r)
  PROVE  /\ RequestInv'
         /\ \A r \in Report : ToCome(r)' => ToCome(r)
         /\ \A r \in Report : HasRequest(r)' => HasRequest(r)
  BY DEF ReportInv, RequestInv, ToCome, HasRequest

LEMMA JobGoesOn ==
  ASSUME ReportInv, UNCHANGED <<reports, req>>,
         \A r \in Report :
            HasJob(r)' =>
              /\ HasJob(r) /\ job'[r].subj = job[r].subj
              /\ job'[r].pc \in {"work", "write"} =>
                    \/ job[r].pc \in {"work", "write"} /\ job'[r].target = job[r].target
                    \/ job'[r].target \in Target(r)
  PROVE  PlacedInv' /\ RequestInv' /\ TargetInv' /\ AloneInv'
<1>1. /\ RequestInv'
      /\ \A r \in Report : ToCome(r)' => ToCome(r)
      /\ \A r \in Report : HasRequest(r)' => HasRequest(r)
  BY SameRequests DEF reports
<1>2. \A r \in Report : HasJob(r)' => job'[r].subj = rep[r].subj
  BY DEF ReportInv, TargetInv
<1>3. ASSUME NEW r \in Report, job'[r].pc \in {"work", "write"}
      PROVE  GoodTarget(r, job'[r].target)
  <2>1. HasJob(r)' /\ HasJob(r) /\ ToCome(r)
    BY <1>3 DEF HasJob, JobActive, ToCome
  <2>2. CASE job[r].pc \in {"work", "write"} /\ job'[r].target = job[r].target
    BY <2>2 DEF ReportInv, TargetInv, GoodTarget
  <2>3. CASE job'[r].target \in Target(r)
    <3>1. job[r].subj = rep[r].subj /\ r <= placed
      BY <2>1 DEF ReportInv, TargetInv, PlacedInv
    <3>2. CASE rep[r].subj \in Theme
      <4>1. rep[r].subj \notin Stock
        BY <3>2, ResearchAssumption
      <4>2. Live(r)
        BY <2>1, <4>1 DEF ReportInv, TargetInv, Bound
      <4> QED BY <2>3, <3>1, <3>2, <4>2 DEF Target, GoodTarget
    <3>3. CASE rep[r].subj \notin Theme
      <4>1. job'[r].target \in RunningFor(rep[r].subj)
        BY <2>3, <3>1, <3>3 DEF Target
      <4>2. rep[r].subj \in Stock
        BY <3>1, <3>3 DEF ReportInv, PlacedInv, Subject
      <4> QED BY <4>1, <4>2 DEF RunningFor, GoodTarget, Live
    <3> QED BY <3>2, <3>3
  <2> QED BY <1>3, <2>1, <2>2, <2>3
<1> QED BY <1>1, <1>2, <1>3, SameReports

(* A job that is over has given its report a status: one job and one running *)
(* report less, or one that had a twin is written again.                     *)
LEMMA Settles ==
  ASSUME ReportInv, NEW j \in Report, job[j].pc \in {"work", "write"},
         NEW status, status # "running", SetReport(job[j].target, status),
         UNCHANGED <<placed, contested, req>>,
         job'[j].pc \notin JobActive,
         \A k \in Report \ {j} : job'[k] = job[k]
  PROVE  PlacedInv' /\ RequestInv' /\ TargetInv' /\ AloneInv'
<1> DEFINE t == job[j].target
<1>1. t \in Report /\ Live(t) /\ rep[t].subj = rep[j].subj /\ (rep[j].subj \notin Stock => t = j)
  BY DEF ReportInv, TargetInv
<1>2. /\ \A r \in Report : rep'[r].subj = rep[r].subj
      /\ \A r \in Report \ {t} : rep'[r].status = rep[r].status
      /\ rep'[t].status = status
  <2>1. rep' = [rep EXCEPT ![t].status = status]
    BY DEF SetReport
  <2>2. rep = [r \in Report |-> [subj |-> rep[r].subj, status |-> rep[r].status]]
    BY DEF ReportInv, Shape
  <2> HIDE DEF t
  <2> QED BY <1>1, <2>1, <2>2
<1>3. HasJob(j) /\ ~HasJob(j)' /\ \A r \in Report : HasJob(r)' => HasJob(r) /\ r # j
  BY DEF HasJob, JobActive
<1>4. /\ RequestInv'
      /\ \A r \in Report : ToCome(r)' => ToCome(r)
      /\ \A r \in Report : HasRequest(r)' => HasRequest(r)
  BY <1>3, SameRequests
<1>5. ~ToCome(j)'
  <2>1. ~HasRequest(j)
    BY <1>3 DEF HasRequest, ReportInv, RequestInv
  <2> QED BY <1>3, <2>1 DEF ToCome, HasRequest
<1> HIDE DEF t
<1>6. t <= placed
  BY <1>1, ResearchAssumption DEF ReportInv, PlacedInv, Live, Report
<1>7. PlacedInv'
  <2>1. TwinsOf(rep') \subseteq TwinsOf(rep)
    BY <1>2 DEF TwinsOf
  <2> QED BY <1>2, <1>4, <1>6, <2>1 DEF ReportInv, PlacedInv, Report
(* Whoever still has a use for t is another job of a contested report. *)
<1>8. ASSUME NEW k \in Report, k # j, ToCome(k), rep[k].subj = rep[t].subj, t \notin contested,
             rep[t].subj \in Stock
      PROVE  FALSE
  <2>1. rep[t].status = "running"
    BY <1>1, <1>8 DEF Live
  <2>2. j \in Pending(rep[t].subj) /\ k \in Pending(rep[t].subj)
    BY <1>1, <1>3, <1>8 DEF Pending, ToCome
  <2> QED BY <1>1, <1>8, <2>1, <2>2 DEF ReportInv, AloneInv
<1>9. ASSUME NEW k \in Report, Bound(k)' PROVE Live(k)'
  <2>1. k # j /\ ToCome(k) /\ Bound(k) /\ Live(k)
    BY <1>2, <1>3, <1>4, <1>5, <1>9 DEF ReportInv, TargetInv, Bound, ToCome
  <2>2. CASE k = t
    <3>1. rep[t].subj \in Stock
      BY <1>1, <2>1, <2>2
    <3> QED BY <1>8, <2>1, <2>2, <3>1 DEF Live
  <2>3. CASE k # t
    BY <1>2, <2>1, <2>3 DEF Live
  <2> QED BY <2>2, <2>3
<1>10. ASSUME NEW k \in Report, job'[k].pc \in {"work", "write"}
       PROVE  /\ job'[k].target \in Report /\ Live(job[k].target)'
              /\ rep'[job'[k].target].subj = rep'[k].subj
              /\ rep'[k].subj \notin Stock => job'[k].target = k
  <2>1. k # j /\ job'[k] = job[k] /\ ToCome(k)
    BY <1>10 DEF JobActive, ToCome, HasJob
  <2>2. GoodTarget(k, job[k].target)
    BY <1>10, <2>1 DEF ReportInv, TargetInv, GoodTarget
  <2>3. CASE job[k].target = t
    <3>1. rep[k].subj = rep[t].subj /\ rep[t].subj \in Stock
      BY <1>1, <2>1, <2>2, <2>3 DEF GoodTarget
    <3>2. t \in contested
      BY <1>8, <2>1, <3>1
    <3> QED BY <1>2, <2>1, <2>2, <2>3, <3>2 DEF GoodTarget, Live
  <2>4. CASE job[k].target # t
    BY <1>2, <2>1, <2>2, <2>4 DEF GoodTarget, Live
  <2> QED BY <2>3, <2>4
<1>11. TargetInv'
  <2>1. \A r \in Report : HasJob(r)' => job'[r].subj = rep'[r].subj
    BY <1>2, <1>3 DEF ReportInv, TargetInv
  <2> QED BY <1>9, <1>10, <2>1 DEF TargetInv
<1>12. AloneInv'
  <2>1. \A s : Pending(s)' \subseteq Pending(s)
    BY <1>2, <1>4 DEF Pending
  <2>2. \A u \in Report : rep'[u].status = "running" => rep[u].status = "running"
    BY <1>1, <1>2
  <2> QED BY <1>2, <2>1, <2>2 DEF ReportInv, AloneInv
<1> QED BY <1>4, <1>7, <1>11, <1>12

(* Placeholders: a report that is not contested is the first of its stock, and *)
(* no job of the stock is to come.                                             *)
LEMMA Places ==
  ASSUME ReportInv, NEW S, IsFiniteSet(S), S \subseteq Subject, PlaceReports(S),
         \A r \in Report : ToCome(r)' => ToCome(r) \/ r \in placed + 1 .. placed',
         \A r \in Report : r <= placed => job'[r] = job[r],
         \A r \in Report : r \in placed + 1 .. placed' /\ HasJob(r)' =>
             job'[r].pc = "queued" /\ job'[r].subj = rep'[r].subj,
         \A r \in Report : r > placed' => job'[r] = job[r],
         \A r \in Report : HasRequest(r)' => HasRequest(r) \/ r \in placed + 1 .. placed'
  PROVE  PlacedInv' /\ TargetInv' /\ AloneInv'
<1> DEFINE order == SetToSeq(S)
           New == {r \in Report : r \in placed + 1 .. placed'}
<1>1. /\ placed \in Nat /\ placed' = placed + Len(order) /\ Len(order) \in Nat
      /\ \A i \in 1..Len(order) : order[i] \in S
  BY Listing DEF PlaceReports, ReportInv, PlacedInv
<1>2. /\ rep' = [r \in Report |-> IF r \in placed + 1 .. placed'
                   THEN [subj |-> order[r - placed], status |-> "running"] ELSE rep[r]]
      /\ contested' = contested \cup TwinsOf(rep')
            \cup {r \in Report : /\ r > placed /\ r <= placed' /\ rep'[r].subj \in Stock
                                /\ Pending(rep'[r].subj) # {}}
  BY DEF PlaceReports
<1> HIDE DEF order
<1>3. /\ \A r \in Report : r \notin New => rep'[r] = rep[r]
      /\ \A r \in New : rep'[r].status = "running" /\ rep'[r].subj \in Subject
      /\ \A r \in New : rep[r].status = "none" /\ r \notin contested
      /\ \A r \in Report : r \notin New => (r <= placed <=> r <= placed')
      /\ \A r \in Report : r \in New => r > placed /\ r <= placed'
      /\ \A r \in Report : r \in New \/ r <= placed \/ r > placed'
      /\ placed' \in Nat /\ placed <= placed'
  BY <1>1, <1>2 DEF ReportInv, PlacedInv, Report
<1>4. \A r \in Report : ToCome(r)' => ToCome(r) \/ r \in New
  OBVIOUS
<1>5. \A r \in Report : r \notin New => job'[r] = job[r]
  BY <1>3
<1>6. \A r \in New : HasJob(r)' => job'[r].pc = "queued" /\ job'[r].subj = rep'[r].subj
  OBVIOUS
<1>7. New \subseteq Report
  OBVIOUS
<1> HIDE DEF New
<1>8. PlacedInv'
  <2>1. \A r \in Report : r > placed' => rep'[r].status = "none" /\ r \notin contested'
    BY <1>2, <1>3, <1>1 DEF ReportInv, PlacedInv, TwinsOf, Report
  <2>2. \A r \in Report : r <= placed' => rep'[r].subj \in Subject
    BY <1>3 DEF ReportInv, PlacedInv
  <2>3. \A r \in Report : ToCome(r)' => r <= placed'
    BY <1>1, <1>3, <1>4 DEF ReportInv, PlacedInv, Report
  <2> QED BY <1>2, <1>3, <2>1, <2>2, <2>3 DEF PlacedInv
<1>9. \A r \in Report : Live(r) => Live(r)' /\ r \notin New
  BY <1>2, <1>3, <1>7 DEF Live
<1>11. \A r \in Report : ToCome(r) => r \notin New
  BY <1>3 DEF ReportInv, PlacedInv, Report
<1>10. ASSUME NEW r \in Report, Bound(r)' PROVE Live(r)'
  <2>1. CASE r \in New
    BY <1>3, <2>1 DEF Live
  <2>2. CASE r \notin New
    <3>1. Bound(r)
      BY <1>3, <1>5, <1>10, <2>2 DEF Bound, HasJob, New
    <3> QED BY <1>9, <3>1 DEF ReportInv, TargetInv
  <2> QED BY <2>1, <2>2
<1>12. \A r \in Report : HasJob(r)' => job'[r].subj = rep'[r].subj
  BY <1>3, <1>5, <1>6, <1>7 DEF ReportInv, TargetInv, HasJob
<1>13. ASSUME NEW r \in Report, job'[r].pc \in {"work", "write"}
       PROVE  /\ job'[r].target \in Report /\ Live(job[r].target)'
              /\ rep'[job'[r].target].subj = rep'[r].subj
              /\ rep'[r].subj \notin Stock => job'[r].target = r
  <2>1. r \notin New
    BY <1>6, <1>13 DEF HasJob, JobActive
  <2>2. job'[r] = job[r]
    BY <1>5, <2>1
  <2>3. GoodTarget(r, job[r].target)
    BY <1>13, <2>2 DEF ReportInv, TargetInv, GoodTarget
  <2> QED BY <1>3, <1>9, <2>1, <2>2, <2>3 DEF GoodTarget
<1>14. TargetInv'
  BY <1>10, <1>12, <1>13 DEF TargetInv
<1>15. ASSUME NEW u \in Report, rep'[u].status = "running", u \notin contested',
              rep'[u].subj \in Stock,
              NEW k \in Report, ToCome(k)', rep'[k].subj = rep'[u].subj
       PROVE  k = u
  <2>1. k \in Report /\ ToCome(k)' /\ rep'[k].subj = rep'[u].subj
    BY <1>15
  <2>2. CASE k \in New
    <3>1. rep'[k].status = "running"
      BY <1>3, <2>2
    <3>2. u \notin TwinsOf(rep')
      BY <1>2, <1>15
    <3> QED BY <1>15, <2>1, <3>1, <3>2 DEF TwinsOf
  <2>3. CASE k \notin New
    <3>1. ToCome(k) /\ rep[k].subj = rep'[u].subj
      BY <1>3, <1>4, <2>1, <2>3
    <3>2. k \in Pending(rep'[u].subj)
      BY <2>1, <3>1 DEF Pending
    <3>3. u \notin New
      BY <1>2, <1>3, <1>15, <3>2
    <3>4. rep[u].status = "running" /\ u \notin contested /\ rep[u].subj = rep'[u].subj
      BY <1>2, <1>3, <1>15, <3>3
    <3> QED BY <1>15, <3>2, <3>4 DEF ReportInv, AloneInv
  <2> QED BY <2>2, <2>3
<1>16. AloneInv'
  BY <1>15 DEF AloneInv, Pending
<1> QED BY <1>8, <1>14, <1>16

-----------------------------------------------------------------------------
(* The reports: every step.                                                 *)

Stays == \A r \in Report : Settled(r) /\ r \notin contested => rep'[r] = rep[r]

(* What is to be shown of a step: Shape is kept by NextShape. *)
Good == PlacedInv' /\ RequestInv' /\ TargetInv' /\ AloneInv' /\ Stays

LEMMA NoRepChange ==
  ASSUME UNCHANGED reports
  PROVE  Stays
  BY DEF reports, Stays

LEMMA SettlesStays ==
  ASSUME ReportInv, NEW j \in Report, job[j].pc \in {"work", "write"},
         NEW status, SetReport(job[j].target, status)
  PROVE  Stays
<1>1. Live(job[j].target)
  BY DEF ReportInv, TargetInv
<1>2. \A r \in Report : r # job[j].target => rep'[r] = rep[r]
  BY DEF SetReport, ReportInv, Shape
<1> QED BY <1>1, <1>2 DEF Stays, Settled, Live

(* A request that asks, refused or not, brings no job. *)
LEMMA AskGood ==
  ASSUME ReportInv, NEW c \in Client, NEW S, NEW b, IsFiniteSet(S), S # {}, S \subseteq Subject,
         req' = [req EXCEPT ![c] = Asking(S, b)], UNCHANGED <<reports, job>>
  PROVE  Good
<1>1. /\ \A d \in Client : d # c => req'[d] = req[d]
      /\ req'[c].pc = "place" /\ req'[c].subjects = S
  BY NoRequestShape DEF ReportInv, Shape
<1>2. RequestInv'
  BY <1>1 DEF ReportInv, RequestInv, HasJob, reports
<1>3. /\ \A r \in Report : ToCome(r)' => ToCome(r)
      /\ \A r \in Report : HasRequest(r)' => HasRequest(r)
  BY <1>1 DEF ToCome, HasJob, HasRequest
<1>4. \A r \in Report : HasJob(r)' => job'[r].subj = rep[r].subj
  BY DEF ReportInv, TargetInv, HasJob
<1>5. \A r \in Report : job'[r].pc \in {"work", "write"} => GoodTarget(r, job'[r].target)
  BY DEF ReportInv, TargetInv, GoodTarget
<1>6. PlacedInv' /\ TargetInv' /\ AloneInv'
  BY <1>3, <1>4, <1>5, SameReports
<1> QED BY <1>2, <1>6, NoRepChange DEF Good

LEMMA AsksGood ==
  ASSUME ReportInv, NEW c \in Client, AskResearch(c) \/ AskBatch(c) \/ AskTheme(c)
  PROVE  Good
<1>1. CASE AskResearch(c)
  <2>1. PICK s \in Stock : req' = [req EXCEPT ![c] = Asking({s}, FALSE)]
    BY <1>1 DEF AskResearch
  <2>2. IsFiniteSet({s}) /\ {s} \subseteq Subject
    BY FS_Singleton DEF Subject
  <2> QED BY <1>1, <2>1, <2>2, AskGood DEF AskResearch
<1>2. CASE AskBatch(c)
  <2>1. PICK asked \in SUBSET Stock :
          /\ {s \in asked : ~InFlight(s) /\ NeedsResearch(s)} # {}
          /\ req' = [req EXCEPT ![c] = Asking({s \in asked : ~InFlight(s) /\ NeedsResearch(s)}, TRUE)]
    BY <1>2 DEF AskBatch
  <2> DEFINE kept == {s \in asked : ~InFlight(s) /\ NeedsResearch(s)}
  <2>2. kept \subseteq Stock
    OBVIOUS
  <2> HIDE DEF kept
  <2>2a. kept # {}
    BY <2>1 DEF kept
  <2>3. IsFiniteSet(kept) /\ kept \subseteq Subject
    BY <2>2, FS_Subset, ResearchAssumption DEF Subject
  <2>4. req' = [req EXCEPT ![c] = Asking(kept, TRUE)]
    BY <2>1 DEF kept
  <2> QED BY <1>2, <2>2a, <2>3, <2>4, AskGood DEF AskBatch
<1>3. CASE AskTheme(c)
  <2>1. PICK s \in Theme : req' = [req EXCEPT ![c] = Asking({s}, FALSE)]
    BY <1>3 DEF AskTheme
  <2>2. IsFiniteSet({s}) /\ {s} \subseteq Subject
    BY FS_Singleton DEF Subject
  <2> QED BY <1>3, <2>1, <2>2, AskGood DEF AskTheme
<1> QED BY <1>1, <1>2, <1>3

(* The reports that are placed had no status yet. *)
LEMMA PlacesStays ==
  ASSUME ReportInv, NEW S, PlaceReports(S)
  PROVE  Stays
<1>1. \A r \in Report : r \notin placed + 1 .. placed' => rep'[r] = rep[r]
  BY DEF PlaceReports
<1>2. \A r \in Report : r \in placed + 1 .. placed' => rep[r].status = "none"
  BY DEF ReportInv, PlacedInv, Report
<1> QED BY <1>1, <1>2 DEF Stays, Settled

LEMMA PlaceGood ==
  ASSUME ReportInv, NEW c \in Client, Place(c)
  PROVE  Good
<1> DEFINE S == req[c].subjects
<1>1. /\ PlaceReports(S) /\ IsFiniteSet(S) /\ S \subseteq Subject /\ S # {}
      /\ req[c].pc = "place" /\ UNCHANGED job
  BY DEF Place, ReportInv, RequestInv
<1>2. /\ \A d \in Client : d # c => req'[d] = req[d]
      /\ req'[c].pc = "queue" /\ req'[c].report = placed' /\ req'[c].subjects = {}
  BY NoRequestShape DEF ReportInv, Shape, Place
<1> HIDE DEF S
<1>3. placed \in Nat /\ placed' \in Nat /\ placed < placed'
  BY <1>1, Listing DEF PlaceReports, ReportInv, PlacedInv
<1>4. \A r \in Report : r > placed => ~ToCome(r)
  BY ResearchAssumption DEF ReportInv, PlacedInv, Report
<1>5. RequestInv'
  <2>1. \A d \in Client : IsFiniteSet(req'[d].subjects) /\ req'[d].subjects \subseteq Subject
    BY <1>2, FS_EmptySet DEF ReportInv, RequestInv
  <2>2. \A d \in Client : req'[d].pc = "place" => req'[d].subjects # {}
    BY <1>2 DEF ReportInv, RequestInv
  <2>3. \A d \in Client : req'[d].pc = "queue" =>
           /\ req'[d].report \in 1..placed'
           /\ req'[d].report \in Report => ~HasJob(req[d].report)'
    BY <1>1, <1>2, <1>3, <1>4 DEF ReportInv, RequestInv, ToCome, HasJob
  <2>4. \A d, e \in Client : /\ req'[d].pc = "queue" /\ req'[e].pc = "queue"
                             /\ req'[d].report = req'[e].report
                             => d = e
    BY <1>2, <1>3 DEF ReportInv, RequestInv
  <2> QED BY <2>1, <2>2, <2>3, <2>4 DEF RequestInv
<1>6. /\ \A r \in Report : ToCome(r)' => ToCome(r) \/ r \in placed + 1 .. placed'
      /\ \A r \in Report : HasRequest(r)' => HasRequest(r) \/ r \in placed + 1 .. placed'
  BY <1>1, <1>2, <1>3 DEF ToCome, HasJob, HasRequest
<1>7. \A r \in Report : r \in placed + 1 .. placed' => ~HasJob(r)'
  BY <1>1, <1>3, <1>4 DEF ToCome, HasJob, Report
<1>8. PlacedInv' /\ TargetInv' /\ AloneInv'
  BY <1>1, <1>6, <1>7, Places
<1> QED BY <1>1, <1>5, <1>8, PlacesStays DEF Good

LEMMA SubmitBatchGood ==
  ASSUME ReportInv, NEW c \in Client, SubmitBatch(c)
  PROVE  Good
<1> DEFINE S == req[c].subjects
<1>1. /\ PlaceReports(S) /\ IsFiniteSet(S) /\ S \subseteq Subject /\ S # {}
      /\ job' = [j \in Job |->
                  IF j \in placed + 1 .. placed' THEN JobFor(rep'[j].subj) ELSE job[j]]
  BY DEF SubmitBatch, ReportInv, RequestInv
<1>2. /\ \A d \in Client : d # c => req'[d] = req[d]
      /\ req'[c].pc = "idle" /\ req'[c].subjects = {}
  BY NoRequestShape DEF ReportInv, Shape, SubmitBatch
<1> HIDE DEF S
<1>3. placed \in Nat /\ placed' \in Nat /\ placed < placed'
  BY <1>1, Listing DEF PlaceReports, ReportInv, PlacedInv
<1>4. /\ \A r \in Report : r \notin placed + 1 .. placed' => job'[r] = job[r]
      /\ \A r \in Report : r \in placed + 1 .. placed' =>
            job'[r].pc = "queued" /\ job'[r].subj = rep'[r].subj
  BY <1>1, JobForShape, ResearchAssumption DEF Report, Job
<1>5. RequestInv'
  <2>1. \A d \in Client : IsFiniteSet(req'[d].subjects) /\ req'[d].subjects \subseteq Subject
    BY <1>2, FS_EmptySet DEF ReportInv, RequestInv
  <2>2. \A d \in Client : req'[d].pc = "place" => req'[d].subjects # {}
    BY <1>2 DEF ReportInv, RequestInv
  <2>3. ASSUME NEW d \in Client, req'[d].pc = "queue"
        PROVE  /\ req'[d].report \in 1..placed'
               /\ req'[d].report \in Report => ~HasJob(req[d].report)'
    <3>1. d # c /\ req'[d] = req[d]
      BY <1>2, <2>3
    <3>2. req[d].report \in 1..placed /\ (req[d].report \in Report => ~HasJob(req[d].report))
      BY <2>3, <3>1 DEF ReportInv, RequestInv
    <3>3. req[d].report \notin placed + 1 .. placed' /\ req[d].report \in 1..placed'
      BY <1>3, <3>2
    <3> QED BY <1>4, <3>1, <3>2, <3>3 DEF HasJob
  <2>4. \A d, e \in Client : /\ req'[d].pc = "queue" /\ req'[e].pc = "queue"
                             /\ req'[d].report = req'[e].report
                             => d = e
    BY <1>2 DEF ReportInv, RequestInv
  <2> QED BY <2>1, <2>2, <2>3, <2>4 DEF RequestInv
<1>6. /\ \A r \in Report : ToCome(r)' => ToCome(r) \/ r \in placed + 1 .. placed'
      /\ \A r \in Report : HasRequest(r)' => HasRequest(r)
  BY <1>2, <1>4 DEF ToCome, HasJob, HasRequest
<1>7. /\ \A r \in Report : r <= placed => job'[r] = job[r]
      /\ \A r \in Report : r > placed' => job'[r] = job[r]
  BY <1>3, <1>4 DEF Report
<1>8. PlacedInv' /\ TargetInv' /\ AloneInv'
  BY <1>1, <1>4, <1>6, <1>7, Places
<1> QED BY <1>1, <1>5, <1>8, PlacesStays DEF Good

(* The job of the report is queued, or run by the request itself. *)
LEMMA QueueGood ==
  ASSUME ReportInv, NEW c \in Client, Queue(c)
  PROVE  Good
<1> DEFINE r == req[c].report
           queued == JobFor(rep[r].subj)
<1>1. PICK inline \in BOOLEAN :
          job' = [job EXCEPT ![r] =
                   IF ~inline THEN queued
                   ELSE [queued EXCEPT !.pc = "work", !.target = r, !.inline = TRUE]]
  BY DEF Queue
<1>2. /\ queued = [f \in JobField |-> queued[f]]
      /\ queued.pc = "queued" /\ queued.subj = rep[r].subj
  BY JobForShape
<1> DEFINE x == IF ~inline THEN queued
                ELSE [queued EXCEPT !.pc = "work", !.target = r, !.inline = TRUE]
<1>3. job' = [job EXCEPT ![r] = x]
  BY <1>1
<1>4. req[c].pc = "queue" /\ r \in 1..placed /\ (r \in Report => ~HasJob(r))
  BY DEF Queue, ReportInv, RequestInv
<1>5. /\ \A d \in Client : d # c => req'[d] = req[d]
      /\ req'[c].pc = "idle" /\ req'[c].subjects = {}
      /\ UNCHANGED reports
  BY NoRequestShape DEF ReportInv, Shape, Queue
<1> HIDE DEF queued
<1> DEFINE w == [queued EXCEPT !.pc = "work", !.target = r, !.inline = TRUE]
<1>6a. w.subj = queued.subj /\ w.pc = "work" /\ w.target = r
  BY <1>2 DEF JobField
<1>6b. x = queued \/ x = w
  OBVIOUS
<1> HIDE DEF w, x
<1>6. x.subj = rep[r].subj /\ (x.pc = "queued" \/ (x.pc = "work" /\ x.target = r))
  BY <1>2, <1>6a, <1>6b
<1>7. HasRequest(r)
  BY <1>4 DEF HasRequest
<1> HIDE DEF r
<1>8. /\ \A k \in Report : k # r => job'[k] = job[k]
      /\ r \in Report => job'[r] = x
  BY <1>3, ResearchAssumption DEF ReportInv, Shape, Report, Job
<1>9. /\ \A k \in Report : ToCome(k)' => ToCome(k)
      /\ \A k \in Report : HasRequest(k)' => HasRequest(k)
  BY <1>5, <1>7, <1>8 DEF ToCome, HasJob, HasRequest
<1>10. \A k \in Report : HasJob(k)' => job'[k].subj = rep[k].subj
  BY <1>6, <1>8 DEF ReportInv, TargetInv, HasJob
<1>11. ASSUME NEW k \in Report, job'[k].pc \in {"work", "write"}
       PROVE  GoodTarget(k, job'[k].target)
  <2>1. CASE k = r
    <3>1. Live(k)
      BY <1>7, <2>1 DEF ReportInv, TargetInv, Bound
    <3>2. job'[k].target = k
      BY <1>6, <1>8, <1>11, <2>1
    <3> QED BY <3>1, <3>2 DEF GoodTarget
  <2>2. CASE k # r
    BY <1>8, <1>11, <2>2 DEF ReportInv, TargetInv, GoodTarget
  <2> QED BY <2>1, <2>2
<1>12. PlacedInv' /\ TargetInv' /\ AloneInv'
  BY <1>5, <1>9, <1>10, <1>11, SameReports
<1>13. RequestInv'
  <2>1. \A d \in Client : IsFiniteSet(req'[d].subjects) /\ req'[d].subjects \subseteq Subject
    BY <1>5, FS_EmptySet DEF ReportInv, RequestInv
  <2>2. \A d \in Client : req'[d].pc = "place" => req'[d].subjects # {}
    BY <1>5 DEF ReportInv, RequestInv
  <2>3. ASSUME NEW d \in Client, req'[d].pc = "queue"
        PROVE  /\ req'[d].report \in 1..placed'
               /\ req'[d].report \in Report => ~HasJob(req[d].report)'
    <3>1. d # c /\ req'[d] = req[d] /\ placed' = placed
      BY <1>5, <2>3 DEF reports
    <3>2. req[d].report # r
      BY <1>4, <2>3, <3>1 DEF r, ReportInv, RequestInv
    <3>3. req[d].report \in 1..placed /\ (req[d].report \in Report => ~HasJob(req[d].report))
      BY <2>3, <3>1 DEF ReportInv, RequestInv
    <3> QED BY <1>8, <3>1, <3>2, <3>3 DEF HasJob
  <2>4. \A d, e \in Client : /\ req'[d].pc = "queue" /\ req'[e].pc = "queue"
                             /\ req'[d].report = req'[e].report
                             => d = e
    BY <1>5 DEF ReportInv, RequestInv
  <2> QED BY <2>1, <2>2, <2>3, <2>4 DEF RequestInv
<1> QED BY <1>5, <1>12, <1>13, NoRepChange DEF Good

(* What a job becomes when its step leaves the reports alone. *)
GoesOn(r) ==
    HasJob(r)' =>
      /\ HasJob(r) /\ job'[r].subj = job[r].subj
      /\ job'[r].pc \in {"work", "write"} =>
            \/ job[r].pc \in {"work", "write"} /\ job'[r].target = job[r].target
            \/ job'[r].target \in Target(r)

LEMMA JobGood ==
  ASSUME ReportInv, UNCHANGED <<reports, req>>, \A r \in Report : GoesOn(r)
  PROVE  Good
  BY JobGoesOn, NoRepChange DEF Good, GoesOn

LEMMA SameJobs ==
  ASSUME ReportInv, UNCHANGED <<reports, req, job>>
  PROVE  Good
<1>1. \A r \in Report : GoesOn(r)
  BY DEF GoesOn, HasJob
<1> QED BY <1>1, JobGood

(* One job changes, and the weekly one is no report's. *)
LEMMA OneJob ==
  ASSUME ReportInv, UNCHANGED <<reports, req>>, NEW j, NEW x,
         job' = [job EXCEPT ![j] = x],
         j \in Report =>
            \/ x.pc \notin JobActive
            \/ /\ job[j].pc \in JobActive /\ x.subj = job[j].subj
               /\ x.pc \in {"work", "write"} =>
                    \/ job[j].pc \in {"work", "write"} /\ x.target = job[j].target
                    \/ x.target \in Target(j)
  PROVE  Good
<1>1. \A r \in Report : r # j => job'[r] = job[r]
  BY ResearchAssumption DEF ReportInv, Shape, Report, Job
<1>2. j \in Report => job'[j] = x
  BY ResearchAssumption DEF ReportInv, Shape, Report, Job
<1>3. \A r \in Report : GoesOn(r)
  BY <1>1, <1>2 DEF GoesOn, HasJob
<1> QED BY <1>3, JobGood

LEMMA StartGood ==
  ASSUME ReportInv, NEW r \in Report, Start(r)
  PROVE  Good
<1>1. job[r].pc = "queued" /\ UNCHANGED <<reports, req>> /\ r \in Job
  BY ResearchAssumption DEF Start, At, Report, Job
<1>2. CASE job' = [job EXCEPT ![r] = Ended(r)]
  <2>1. Ended(r).pc \notin JobActive
    BY <1>1, EndedShape DEF JobActive
  <2> QED BY <1>1, <1>2, <2>1, OneJob
<1>3. ASSUME NEW q \in Target(r), job' = [job EXCEPT ![r].pc = "work", ![r].target = q]
      PROVE  Good
  <2> DEFINE x == [job[r] EXCEPT !.pc = "work", !.target = q]
  <2>1. job[r] = [f \in JobField |-> job[r][f]]
    BY <1>1 DEF ReportInv, Shape
  <2>2. x.pc = "work" /\ x.target = q /\ x.subj = job[r].subj
    BY <2>1 DEF JobField
  <2>3. job' = [job EXCEPT ![r] = x]
    BY <1>1, <1>3 DEF ReportInv, Shape
  <2> HIDE DEF x
  <2>4. job[r].pc \in JobActive
    BY <1>1 DEF JobActive
  <2> QED BY <1>1, <1>3, <2>2, <2>3, <2>4, OneJob
<1> QED BY <1>2, <1>3 DEF Start

LEMMA EndsGood ==
  ASSUME ReportInv, NEW r \in Report, Retry(r) \/ Cancel(r)
  PROVE  Good
<1>1. r \in Job
  BY ResearchAssumption DEF Report, Job
<1>2. Ended(r).pc \notin JobActive
  BY <1>1, EndedShape DEF JobActive
<1>3. UNCHANGED <<reports, req>> /\ job' = [job EXCEPT ![r] = Ended(r)]
  BY DEF Retry, Cancel
<1> QED BY <1>2, <1>3, OneJob

LEMMA CallsGood ==
  ASSUME ReportInv, NEW j \in Job, Hang(j) \/ Release(j) \/ Conclude(j)
  PROVE  Good
<1>1. job[j] = [f \in JobField |-> job[j][f]]
  BY DEF ReportInv, Shape
<1>2. CASE Hang(j) \/ Release(j)
  <2>1. PICK b : job' = [job EXCEPT ![j].hung = b]
    BY <1>2 DEF Hang, Release
  <2>2. UNCHANGED <<reports, req>>
    BY <1>2 DEF Hang, Release
  <2> DEFINE x == [job[j] EXCEPT !.hung = b]
  <2>3. x.pc = job[j].pc /\ x.subj = job[j].subj /\ x.target = job[j].target
    BY <1>1 DEF JobField
  <2>4. job' = [job EXCEPT ![j] = x]
    BY <2>1
  <2> HIDE DEF x
  <2> QED BY <2>2, <2>3, <2>4, OneJob DEF JobActive
<1>3. CASE Conclude(j)
  <2>1. PICK v \in Verdict :
           job' = [job EXCEPT ![j].pc = "write", ![j].verdict = v, ![j].seen = life[job[j].subj]]
    BY <1>3 DEF Conclude
  <2>2. job[j].pc = "work" /\ UNCHANGED <<reports, req>>
    BY <1>3 DEF Conclude, Working, At
  <2> DEFINE x == [job[j] EXCEPT !.pc = "write", !.verdict = v, !.seen = life[job[j].subj]]
  <2>3. x.pc = "write" /\ x.subj = job[j].subj /\ x.target = job[j].target
    BY <1>1 DEF JobField
  <2>4. job' = [job EXCEPT ![j] = x]
    BY <2>1 DEF ReportInv, Shape
  <2> HIDE DEF x
  <2> QED BY <2>2, <2>3, <2>4, OneJob DEF JobActive
<1> QED BY <1>2, <1>3

(* The report of a job that is over gets its status. *)
LEMMA OverGood ==
  ASSUME ReportInv, NEW j \in Report, job[j].pc \in {"work", "write"},
         NEW status, status # "running", SetReport(job[j].target, status),
         UNCHANGED <<placed, contested, req>>,
         NEW x, job' = [job EXCEPT ![j] = x], x.pc \notin JobActive
  PROVE  Good
<1>1. /\ \A r \in Report : r # j => job'[r] = job[r]
      /\ job'[j] = x
  BY ResearchAssumption DEF ReportInv, Shape, Report, Job
<1>2. PlacedInv' /\ RequestInv' /\ TargetInv' /\ AloneInv'
  BY <1>1, Settles
<1> QED BY <1>2, SettlesStays DEF Good

LEMMA GiveUpGood ==
  ASSUME ReportInv, NEW j \in Job, job[j].pc \in {"work", "write"}, GiveUp(j),
         UNCHANGED <<placed, contested, req>>
  PROVE  Good
<1>1. PICK x : job' = [job EXCEPT ![j] = x] /\ (x = Ended(j) \/ x = [NoJob EXCEPT !.pc = "retry"])
  BY DEF GiveUp
<1>2. x.pc \notin JobActive
  BY <1>1, EndedShape DEF JobActive
<1>3. CASE j = 0
  <2>1. UNCHANGED <<reports, req>> /\ j \notin Report
    BY <1>3 DEF GiveUp, reports, Report
  <2> QED BY <1>1, <2>1, OneJob
<1>4. CASE j # 0
  <2>1. j \in Report
    BY <1>4, ResearchAssumption DEF Job, Report
  <2>2. SetReport(job[j].target, "failed")
    BY <1>4 DEF GiveUp
  <2> QED BY <1>1, <1>2, <2>1, <2>2, OverGood
<1> QED BY <1>3, <1>4

LEMMA FailGood ==
  ASSUME ReportInv, NEW j \in Job, Fail(j)
  PROVE  Good
  BY GiveUpGood DEF Fail, Working, At

LEMMA WriteGood ==
  ASSUME ReportInv, NEW j \in Job, Write(j)
  PROVE  Good
<1>1. job[j].pc = "write" /\ UNCHANGED <<placed, contested, req>>
  BY DEF Write, At
<1>2. CASE GiveUp(j)
  BY <1>1, <1>2, GiveUpGood
<1>4. Ended(j).pc \notin JobActive
  BY EndedShape DEF JobActive
<1>5. CASE Strand(j)
  <2>1. UNCHANGED <<reports, req>> /\ job' = [job EXCEPT ![j] = Ended(j)]
    BY <1>1, <1>5 DEF Strand, reports
  <2> QED BY <1>4, <2>1, OneJob
<1>3. ASSUME ~GiveUp(j), ~Strand(j) PROVE Good
  <2>1. job' = [job EXCEPT ![j] = Ended(j)]
    BY <1>3 DEF Write
  <2>2. Ended(j).pc \notin JobActive
    BY <1>4
  <2>3. CASE j = 0
    <3>1. UNCHANGED reports /\ j \notin Report
      BY <1>3, <2>3 DEF Write, reports, Report
    <3> QED BY <1>1, <2>1, <3>1, OneJob
  <2>4. CASE j # 0
    <3>1. j \in Report
      BY <2>4, ResearchAssumption DEF Job, Report
    <3>2. PICK status : status # "running" /\ SetReport(job[j].target, status)
      BY <1>3, <2>4 DEF Write
    <3> QED BY <1>1, <2>1, <2>2, <3>1, <3>2, OverGood
  <2> QED BY <2>3, <2>4
<1> QED BY <1>2, <1>3, <1>5

LEMMA WriteThemeGood ==
  ASSUME ReportInv, NEW r \in Report, WriteTheme(r)
  PROVE  Good
<1>1. /\ job[r].pc = "work" /\ UNCHANGED <<placed, contested, req>>
      /\ job' = [job EXCEPT ![r] = Ended(r)]
  BY DEF WriteTheme, Working, At
<1>2. PICK status \in {"completed", "empty"} : SetReport(job[r].target, status)
  BY DEF WriteTheme
<1>4. r \in Job
  BY ResearchAssumption DEF Report, Job
<1>3. Ended(r).pc \notin JobActive
  BY <1>4, EndedShape DEF JobActive
<1> QED BY <1>1, <1>2, <1>3, OverGood

LEMMA WeekGood ==
  ASSUME ReportInv, WeekStart \/ WeekNext \/ WeekEnd
  PROVE  Good
<1>1. UNCHANGED <<reports, req>> /\ 0 \notin Report
  BY DEF WeekStart, WeekNext, WeekEnd, Report
<1>2. CASE UNCHANGED job
  BY <1>1, <1>2, SameJobs
<1>3. CASE \E x : job' = [job EXCEPT ![0] = x]
  BY <1>1, <1>3, OneJob
<1>4. CASE WeekStart \/ WeekEnd
  BY <1>3, <1>4 DEF WeekStart, WeekEnd, Goto
<1>5. CASE WeekNext
  <2>1. PICK s \in week : job' = IF NeedsResearch(s)
                  THEN [job EXCEPT ![0].pc = "work", ![0].subj = s] ELSE job
    BY <1>5 DEF WeekNext
  <2>2. CASE last[s] # "fresh"
    <3>1. job' = [job EXCEPT ![0] = [job[0] EXCEPT !.pc = "work", !.subj = s]]
      BY <2>1, <2>2 DEF NeedsResearch, ReportInv, Shape
    <3> QED BY <1>3, <3>1
  <2>3. CASE last[s] = "fresh"
    BY <1>2, <2>1, <2>3 DEF NeedsResearch
  <2> QED BY <2>2, <2>3
<1> QED BY <1>4, <1>5

(* Reports that a start-up finds running are failed, or left as they are. *)
LEMMA RecoversReports ==
  ASSUME Shape, NEW S, Recovers(S)
  PROVE  /\ \A r \in Report : rep'[r].subj = rep[r].subj
         /\ \A r \in Report : rep'[r] = rep[r] \/ (r \in RunningIn(S) /\ rep'[r].status = "failed")
<1>1. rep = [r \in Report |-> [subj |-> rep[r].subj, status |-> rep[r].status]]
  BY DEF Shape
<1>2. CASE rep' = [r \in Report |->
             IF r \in Orphaned(S) THEN [rep[r] EXCEPT !.status = "failed"] ELSE rep[r]]
  BY <1>1, <1>2 DEF Orphaned
<1>3. CASE UNCHANGED rep
  BY <1>3
<1> QED BY <1>2, <1>3 DEF Recovers

(* What a start-up does to the reports brings no running one, and no twin. *)
LEMMA RecoversKeeps ==
  ASSUME ReportInv, NEW S, Recovers(S)
  PROVE  /\ \A r \in Report : rep'[r].status = "running" => rep[r].status = "running"
         /\ TwinsOf(rep') \subseteq TwinsOf(rep)
         /\ \A r \in Report : r > placed => rep'[r].status = "none"
         /\ Stays
<1>1. /\ \A r \in Report : rep'[r].subj = rep[r].subj
      /\ \A r \in Report : rep'[r] = rep[r] \/ (r \in RunningIn(S) /\ rep'[r].status = "failed")
  BY RecoversReports DEF ReportInv
<1>2. \A r \in RunningIn(S) : rep[r].status = "running"
  BY DEF RunningIn
<1>3. \A r \in Report : rep'[r].status = "running" => rep[r].status = "running"
  BY <1>1
<1>4. TwinsOf(rep') \subseteq TwinsOf(rep)
  BY <1>1, <1>3 DEF TwinsOf
<1>5. \A r \in Report : r > placed => rep'[r].status = "none"
  BY <1>1, <1>2 DEF ReportInv, PlacedInv
<1>6. Stays
  BY <1>1, <1>2 DEF Stays, Settled
<1> QED BY <1>3, <1>4, <1>5, <1>6

(* A restart ends every job that is under way and every request; a job that  *)
(* waits is there, and finds its report failed or, that of a theme, running. *)
LEMMA RestartGood ==
  ASSUME ReportInv, Restart
  PROVE  Good
<1>1. /\ Recovers(Stock) /\ UNCHANGED <<placed, contested>>
      /\ \A r \in Report : rep'[r].subj = rep[r].subj
      /\ \A r \in Report : rep'[r] = rep[r] \/ r \in RunningIn(Stock)
  BY RecoversReports DEF Restart, ReportInv
<1>2. /\ \A r \in Report : rep'[r].status = "running" => rep[r].status = "running"
      /\ TwinsOf(rep') \subseteq TwinsOf(rep)
      /\ \A r \in Report : r > placed => rep'[r].status = "none"
      /\ Stays
  BY <1>1, RecoversKeeps
<1>3. \A c \in Client : req'[c].pc = "idle" /\ req'[c].subjects = {}
  BY NoRequestShape DEF Restart
<1>4. \A r \in Report : HasJob(r)' => HasJob(r) /\ job'[r] = job[r] /\ job[r].pc = "queued"
  <2>1. Report \subseteq Job
    BY ResearchAssumption DEF Report, Job
  <2>2. \A r \in Report : job'[r] = NoJob \/ job'[r] = Ended(r)
                           \/ (job'[r] = job[r] /\ job[r].pc \in {"queued", "retry"})
    BY <2>1 DEF Restart
  <2> QED BY <2>1, <2>2, NoJobShape, EndedShape DEF HasJob, JobActive
<1>5. /\ \A r \in Report : ~HasRequest(r)'
      /\ \A r \in Report : ToCome(r)' => ToCome(r)
  BY <1>3, <1>4 DEF ToCome, HasRequest
<1>6. PlacedInv'
  BY <1>1, <1>2, <1>5 DEF ReportInv, PlacedInv
<1>7. RequestInv'
  BY <1>3, FS_EmptySet DEF RequestInv
<1>8. TargetInv'
  <2>1. ASSUME NEW r \in Report, Bound(r)' PROVE Live(r)'
    <3>1. HasJob(r)' /\ HasJob(r) /\ rep[r].subj \notin Stock
      BY <1>1, <1>4, <1>5, <2>1 DEF Bound
    <3>2. Live(r) /\ rep'[r] = rep[r]
      BY <1>1, <3>1 DEF ReportInv, TargetInv, Bound, RunningIn
    <3> QED BY <1>1, <3>2 DEF Live
  <2>2. \A r \in Report : job'[r].pc \notin {"work", "write"}
    BY <1>4 DEF HasJob, JobActive
  <2> QED BY <1>1, <1>4, <2>1, <2>2 DEF TargetInv, ReportInv
<1>9. AloneInv'
  <2>1. \A s : Pending(s)' \subseteq Pending(s)
    BY <1>1, <1>5 DEF Pending
  <2> QED BY <1>1, <1>2, <2>1 DEF ReportInv, AloneInv
<1> QED BY <1>2, <1>6, <1>7, <1>8, <1>9 DEF Good

(* The recovery of the engine: the report of a theme whose job is to come, *)
(* the loop having loaded it, is contested from now on.                    *)
LEMMA RecoverGood ==
  ASSUME ReportInv, Recover
  PROVE  Good
<1>1. /\ Recovers(Theme) /\ UNCHANGED <<placed, req>>
      /\ contested' = contested \cup {r \in RunningIn(Theme) : ToCome(r)'}
      /\ \A r \in Report : rep'[r].subj = rep[r].subj
      /\ \A r \in Report : rep'[r] = rep[r] \/ r \in RunningIn(Theme)
  BY RecoversReports DEF Recover, ReportInv
<1>2. /\ \A r \in Report : rep'[r].status = "running" => rep[r].status = "running"
      /\ TwinsOf(rep') \subseteq TwinsOf(rep)
      /\ \A r \in Report : r > placed => rep'[r].status = "none"
      /\ Stays
  BY <1>1, RecoversKeeps
<1>3. \A r \in Report : HasJob(r)' => HasJob(r) /\ job'[r] = job[r]
  <2>1. Report \subseteq Job
    BY ResearchAssumption DEF Report, Job
  <2>2. \A r \in Report : job'[r] = Ended(r) \/ job'[r] = job[r]
    BY <2>1 DEF Recover
  <2> QED BY <2>1, <2>2, EndedShape DEF HasJob, JobActive
<1>4. /\ RequestInv'
      /\ \A r \in Report : ToCome(r)' => ToCome(r)
      /\ \A r \in Report : HasRequest(r)' => HasRequest(r)
  BY <1>1, <1>3, SameRequests
<1>5. PlacedInv'
  <2>1. \A r \in Report : r > placed => r \notin contested'
    BY <1>1 DEF ReportInv, PlacedInv, RunningIn
  <2> QED BY <1>1, <1>2, <1>4, <2>1 DEF ReportInv, PlacedInv
<1>6. ASSUME NEW r \in Report, Live(r), rep[r].subj \in Stock \/ ToCome(r)' PROVE Live(r)'
  <2>1. CASE r \in contested
    BY <1>1, <2>1 DEF Live
  <2>2. CASE r \in RunningIn(Theme)
    BY <1>1, <1>6, <2>2, ResearchAssumption DEF Live, RunningIn
  <2>3. CASE r \notin RunningIn(Theme)
    BY <1>1, <1>6, <2>3 DEF Live
  <2> QED BY <2>2, <2>3
<1>7. TargetInv'
  <2>1. ASSUME NEW r \in Report, Bound(r)' PROVE Live(r)'
    <3>1. Bound(r) /\ ToCome(r)'
      BY <1>1, <1>3, <1>4, <2>1 DEF Bound, ToCome
    <3> QED BY <1>6, <3>1 DEF ReportInv, TargetInv
  <2>2. ASSUME NEW r \in Report, job'[r].pc \in {"work", "write"}
        PROVE  GoodTarget(r, job[r].target) /\ Live(job[r].target)' /\ job'[r] = job[r]
    <3>1. HasJob(r)' /\ ToCome(r)' /\ job'[r] = job[r]
      BY <1>3, <2>2 DEF HasJob, JobActive, ToCome
    <3>2. GoodTarget(r, job[r].target)
      BY <2>2, <3>1 DEF ReportInv, TargetInv, GoodTarget
    <3> QED BY <1>6, <3>1, <3>2 DEF GoodTarget
  <2>3. \A r \in Report : HasJob(r)' => job'[r].subj = rep'[r].subj
    BY <1>1, <1>3 DEF ReportInv, TargetInv
  <2> QED BY <1>1, <2>1, <2>2, <2>3 DEF TargetInv, GoodTarget
<1>8. AloneInv'
  <2>1. \A s : Pending(s)' \subseteq Pending(s)
    BY <1>1, <1>4 DEF Pending
  <2> QED BY <1>1, <1>2, <2>1 DEF ReportInv, AloneInv
<1> QED BY <1>2, <1>4, <1>5, <1>7, <1>8 DEF Good

LEMMA NextGood ==
  ASSUME ReportInv, Next
  PROVE  Good
<1>1. ASSUME NEW c \in Client, AskResearch(c) \/ AskBatch(c) \/ AskTheme(c) PROVE Good
  BY <1>1, AsksGood
<1>2. ASSUME NEW c \in Client, RequestStep(c) PROVE Good
  BY <1>2, PlaceGood, QueueGood, SubmitBatchGood DEF RequestStep
<1>3. ASSUME NEW j \in Job, JobStep(j) \/ Hang(j) \/ Release(j) PROVE Good
  BY <1>3, FailGood, WriteGood, CallsGood DEF JobStep
<1>4. ASSUME NEW r \in Report, QueuedStep(r) \/ Cancel(r) PROVE Good
  BY <1>4, StartGood, WriteThemeGood, EndsGood DEF QueuedStep
<1>5. ASSUME ScreenStart \/ ScreenStep \/ Age \/ Expire PROVE Good
  <2>1. UNCHANGED <<reports, req, job>>
    BY <1>5 DEF ScreenStart, ScreenStep, ScreenWrite, ScreenCommit, ScreenPass, ScreenRead,
                Age, Expire
  <2> QED BY <2>1, SameJobs
<1> QED BY <1>1, <1>2, <1>3, <1>4, <1>5, WeekGood, RestartGood, RecoverGood DEF Next

LEMMA NextReports ==
  ASSUME ReportInv, [Next]_vars
  PROVE  ReportInv' /\ Stays
<1>1. Good
  <2>1. CASE UNCHANGED vars
    BY <2>1, SameJobs DEF vars
  <2> QED BY <2>1, NextGood
<1>2. Shape'
  BY NextShape DEF ReportInv
<1> QED BY <1>1, <1>2 DEF Good, ReportInv

(* While a report of a stock runs and is not contested, no job of that stock *)
(* but its own waits, is under way or is about to be queued; and a job under *)
(* way has a report of its subject that is running or contested, that of a   *)
(* theme its own (trigger_research, deep_research_on_demand and the handlers *)
(* that end a report, in every order, with failures, cancellations and jobs  *)
(* that survive a restart).                                                  *)
THEOREM JobsHaveReports == Spec => [](TargetInv /\ AloneInv)
<1>1. Spec => []ReportInv
  BY InitReports, NextReports, PTL DEF Spec
<1> QED BY <1>1, PTL DEF ReportInv

(* A report that is completed, rejected, empty or failed is not written      *)
(* again, by a job that was late, by one of the process before or by a       *)
(* restart, unless it was contested: placed while its stock had another      *)
(* running report or a job, or failed by a start-up whose engine had already *)
(* dispatched the job of its theme.                                          *)
THEOREM SettledReportsStay == Spec => SettledStays
<1>1. Spec => []ReportInv
  BY InitReports, NextReports, PTL DEF Spec
<1>2. ReportInv /\ [Next]_vars =>
        [\A r \in Report : Settled(r) /\ r \notin contested => rep'[r] = rep[r]]_vars
  BY NextReports DEF Stays
<1> QED BY <1>1, <1>2, PTL DEF Spec, SettledStays

-----------------------------------------------------------------------------
(* No report is forgotten.                                                  *)

(* While the process starts, no request is served, and what was not recovered *)
(* of the reports of stocks is known to be left running.                      *)
StartInv ==
    ~up => /\ \A c \in Client : req[c].pc = "idle"
           /\ \A r \in RunningIn(Stock) : r \in stranded

(* A report whose job works on another one has a twin. *)
TakenInv ==
    \A r \in Report :
        job[r].pc \in {"work", "write"} /\ job[r].target # r /\ rep[r].status = "running"
            => r \in contested

(* A single request is for one subject. *)
SingleInv ==
    \A c \in Client : req[c].pc = "place" /\ ~req[c].batch => \E s : req[c].subjects = {s}

ForgetInv == NoReportForgotten /\ StartInv /\ TakenInv /\ SingleInv

LEMMA AskedShape ==
  /\ \A S, b : Asking(S, b).batch = b
  /\ NoRequest.batch = FALSE
  BY DEF NoRequest, Asking

LEMMA InitForget == Init => ForgetInv
<1> SUFFICES ASSUME Init PROVE ForgetInv
  OBVIOUS
<1>1. /\ \A r \in Report : rep[r].status = "none" /\ job[r].pc = "none"
      /\ \A c \in Client : req[c].pc = "idle"
      /\ up = TRUE
  BY NoJobShape, NoRequestShape, ResearchAssumption DEF Init, Report, Job
<1> QED BY <1>1 DEF ForgetInv, NoReportForgotten, StartInv, TakenInv, SingleInv

(* A step of a job, of the screen or of the calendar: no report is placed and *)
(* no start-up goes on.                                                       *)
LEMMA StepForgets ==
  ASSUME ReportInv, ForgetInv, UNCHANGED <<req, up>>,
         contested \subseteq contested', stranded \subseteq stranded',
         \A r \in Report : rep'[r].subj = rep[r].subj,
         \A r \in Report : rep'[r].status = "running" => rep[r].status = "running",
         \A r \in Report : rep'[r].status = "running" /\ HasJob(r) /\ ~HasJob(r)'
                              => r \in contested' \cup stranded',
         \A r \in Report : job'[r].pc \in {"work", "write"} =>
              \/ job[r].pc \in {"work", "write"} /\ job'[r].target = job[r].target
              \/ job'[r].target \in Target(r) /\ job[r].pc = "queued"
  PROVE  ForgetInv'
<1>1. NoReportForgotten'
  BY DEF ForgetInv, NoReportForgotten, ToCome, HasRequest
<1>2. StartInv'
  BY DEF ForgetInv, StartInv, RunningIn
<1>3. TakenInv'
  <2> SUFFICES ASSUME NEW r \in Report, job'[r].pc \in {"work", "write"},
                      job'[r].target # r, rep'[r].status = "running"
               PROVE  r \in contested
    BY DEF TakenInv
  <2>1. CASE job[r].pc \in {"work", "write"} /\ job'[r].target = job[r].target
    BY <2>1 DEF ForgetInv, TakenInv
  <2>2. CASE job'[r].target \in Target(r) /\ job[r].pc = "queued"
    <3> DEFINE t == job'[r].target
    <3>1. job[r].subj = rep[r].subj /\ r <= placed
      BY <2>2 DEF ReportInv, TargetInv, PlacedInv, HasJob, JobActive, ToCome
    <3>2. rep[r].subj \notin Theme
      BY <2>2, <3>1 DEF Target
    <3>3. rep[r].subj \in Stock
      BY <3>1, <3>2 DEF ReportInv, PlacedInv, Subject
    <3>4. t \in Report /\ rep[t].subj = rep[r].subj /\ rep[t].status = "running"
      BY <2>2, <3>1, <3>2 DEF Target, RunningFor
    <3>5. r \in TwinsOf(rep)
      BY <3>3, <3>4 DEF TwinsOf
    <3> QED BY <3>5 DEF ReportInv, PlacedInv
  <2> QED BY <2>1, <2>2
<1>4. SingleInv'
  BY DEF ForgetInv, SingleInv
<1> QED BY <1>1, <1>2, <1>3, <1>4 DEF ForgetInv

(* A step that changes neither reports nor requests, and of the jobs at most *)
(* one, which no report loses.                                               *)
LEMMA QuietForgets ==
  ASSUME ReportInv, ForgetInv, UNCHANGED <<reports, req, up>>, stranded \subseteq stranded',
         NEW j, NEW x, job' = [job EXCEPT ![j] = x],
         j \in Report =>
            /\ rep[j].status = "running" /\ HasJob(j) /\ x.pc \notin JobActive
                 => j \in contested \cup stranded'
            /\ x.pc \in {"work", "write"} =>
                 \/ job[j].pc \in {"work", "write"} /\ x.target = job[j].target
                 \/ x.target \in Target(j) /\ job[j].pc = "queued"
  PROVE  ForgetInv'
<1>1. \A r \in Report : r # j => job'[r] = job[r]
  BY ResearchAssumption DEF ReportInv, Shape, Report, Job
<1>2. j \in Report => job'[j] = x
  BY ResearchAssumption DEF ReportInv, Shape, Report, Job
<1>3. \A r \in Report : rep'[r].status = "running" /\ HasJob(r) /\ ~HasJob(r)'
                           => r \in contested' \cup stranded'
  BY <1>1, <1>2 DEF HasJob, reports
<1>4. \A r \in Report : job'[r].pc \in {"work", "write"} =>
              \/ job[r].pc \in {"work", "write"} /\ job'[r].target = job[r].target
              \/ job'[r].target \in Target(r) /\ job[r].pc = "queued"
  BY <1>1, <1>2
<1> QED BY <1>3, <1>4, StepForgets DEF reports

(* A job that is over has given its report a status; if that was not its own, *)
(* its own has a twin.                                                        *)
LEMMA OverForgets ==
  ASSUME ReportInv, ForgetInv, NEW j \in Report, job[j].pc \in {"work", "write"},
         NEW status, status # "running", SetReport(job[j].target, status),
         UNCHANGED <<contested, req, up>>, stranded \subseteq stranded',
         NEW x, job' = [job EXCEPT ![j] = x], x.pc \notin JobActive
  PROVE  ForgetInv'
<1>1. /\ \A r \in Report : r # j => job'[r] = job[r]
      /\ job'[j] = x
  BY ResearchAssumption DEF ReportInv, Shape, Report, Job
<1> DEFINE t == job[j].target
<1>2. t \in Report
  BY DEF ReportInv, TargetInv
<1>3. /\ \A r \in Report : r # t => rep'[r] = rep[r]
      /\ rep'[t].status = status /\ rep'[t].subj = rep[t].subj
  BY <1>2 DEF SetReport, ReportInv, Shape
<1>4. \A r \in Report : rep'[r].subj = rep[r].subj
  BY <1>3
<1>5. \A r \in Report : rep'[r].status = "running" => rep[r].status = "running" /\ r # t
  BY <1>3
<1>6. ASSUME NEW r \in Report, rep'[r].status = "running", HasJob(r), ~HasJob(r)'
      PROVE  r \in contested
  <2>1. r = j
    BY <1>1, <1>6 DEF HasJob
  <2>2. rep[j].status = "running" /\ t # j
    BY <1>5, <1>6, <2>1
  <2> QED BY <2>1, <2>2 DEF ForgetInv, TakenInv
<1>7. \A r \in Report : job'[r].pc \in {"work", "write"} =>
              job[r].pc \in {"work", "write"} /\ job'[r].target = job[r].target
  BY <1>1 DEF JobActive
<1> QED BY <1>4, <1>5, <1>6, <1>7, StepForgets

LEMMA GiveUpForgets ==
  ASSUME ReportInv, ForgetInv, NEW j \in Job, job[j].pc \in {"work", "write"}, GiveUp(j),
         UNCHANGED <<placed, contested, req, up, stranded>>
  PROVE  ForgetInv'
<1>1. PICK x : job' = [job EXCEPT ![j] = x] /\ (x = Ended(j) \/ x = [NoJob EXCEPT !.pc = "retry"])
  BY DEF GiveUp
<1>2. x.pc \notin JobActive
  BY <1>1, EndedShape DEF JobActive
<1>3. CASE j = 0
  <2>1. UNCHANGED <<reports, req>> /\ j \notin Report
    BY <1>3 DEF GiveUp, reports, Report
  <2> QED BY <1>1, <2>1, QuietForgets
<1>4. CASE j # 0
  <2>1. j \in Report
    BY <1>4, ResearchAssumption DEF Job, Report
  <2>2. SetReport(job[j].target, "failed")
    BY <1>4 DEF GiveUp
  <2> QED BY <1>1, <1>2, <2>1, <2>2, OverForgets
<1> QED BY <1>3, <1>4

LEMMA WriteForgets ==
  ASSUME ReportInv, ForgetInv, NEW j \in Job, Write(j)
  PROVE  ForgetInv'
<1>1. job[j].pc = "write" /\ UNCHANGED <<placed, contested, req, up>>
  BY DEF Write, At
<1>2. Ended(j).pc \notin JobActive
  BY EndedShape DEF JobActive
<1>3. CASE GiveUp(j) /\ UNCHANGED stranded
  BY <1>1, <1>3, GiveUpForgets
<1>4. CASE Strand(j)
  <2>1. UNCHANGED <<reports, req, up>> /\ job' = [job EXCEPT ![j] = Ended(j)]
    BY <1>1, <1>4 DEF Strand, reports
  <2>2. stranded' = stranded \cup {job[j].target}
    BY <1>4 DEF Strand
  <2>3. j \in Report /\ rep[j].status = "running" => j \in contested \cup stranded'
    BY <1>1, <2>2 DEF ForgetInv, TakenInv
  <2> QED BY <1>2, <2>1, <2>2, <2>3, QuietForgets DEF JobActive
<1>5. ASSUME ~(GiveUp(j) /\ UNCHANGED stranded), ~Strand(j) PROVE ForgetInv'
  <2>1. job' = [job EXCEPT ![j] = Ended(j)] /\ UNCHANGED stranded
    BY <1>5 DEF Write
  <2>2. CASE j = 0
    <3>1. UNCHANGED reports /\ j \notin Report
      BY <1>5, <2>2 DEF Write, reports, Report
    <3> QED BY <1>1, <2>1, <3>1, QuietForgets
  <2>3. CASE j # 0
    <3>1. j \in Report
      BY <2>3, ResearchAssumption DEF Job, Report
    <3>2. PICK status : status # "running" /\ SetReport(job[j].target, status)
      BY <1>5, <2>3 DEF Write
    <3> QED BY <1>1, <1>2, <2>1, <3>1, <3>2, OverForgets
  <2> QED BY <2>2, <2>3
<1> QED BY <1>3, <1>4, <1>5

LEMMA WriteThemeForgets ==
  ASSUME ReportInv, ForgetInv, NEW r \in Report, WriteTheme(r)
  PROVE  ForgetInv'
<1>1. /\ job[r].pc = "work" /\ UNCHANGED <<contested, req, up, stranded>>
      /\ job' = [job EXCEPT ![r] = Ended(r)]
  BY DEF WriteTheme, Working, At, process
<1>2. PICK status \in {"completed", "empty"} : SetReport(job[r].target, status)
  BY DEF WriteTheme
<1>3. r \in Job
  BY ResearchAssumption DEF Report, Job
<1>4. Ended(r).pc \notin JobActive
  BY <1>3, EndedShape DEF JobActive
<1> QED BY <1>1, <1>2, <1>4, OverForgets

LEMMA StartForgets ==
  ASSUME ReportInv, ForgetInv, NEW r \in Report, Start(r)
  PROVE  ForgetInv'
<1>1. job[r].pc = "queued" /\ UNCHANGED <<reports, req, up, stranded>> /\ r \in Job
  BY ResearchAssumption DEF Start, At, Report, Job, process
<1>2. ASSUME Target(r) = {}, job' = [job EXCEPT ![r] = Ended(r)] PROVE ForgetInv'
  <2>1. Ended(r).pc \notin JobActive
    BY <1>1, EndedShape DEF JobActive
  <2>2. job[r].subj = rep[r].subj
    BY <1>1 DEF ReportInv, TargetInv, HasJob, JobActive
  <2>3. rep[r].status # "running"
    BY <1>2, <2>2 DEF Target, RunningFor
  <2> QED BY <1>1, <1>2, <2>1, <2>3, QuietForgets DEF JobActive
<1>3. ASSUME NEW q \in Target(r), job' = [job EXCEPT ![r].pc = "work", ![r].target = q]
      PROVE  ForgetInv'
  <2> DEFINE x == [job[r] EXCEPT !.pc = "work", !.target = q]
  <2>1. job[r] = [f \in JobField |-> job[r][f]]
    BY <1>1 DEF ReportInv, Shape
  <2>2. x.pc = "work" /\ x.target = q
    BY <2>1 DEF JobField
  <2>3. job' = [job EXCEPT ![r] = x]
    BY <1>1, <1>3 DEF ReportInv, Shape
  <2> HIDE DEF x
  <2> QED BY <1>1, <1>3, <2>2, <2>3, QuietForgets DEF JobActive
<1> QED BY <1>2, <1>3 DEF Start

(* A retry has no report to lose, and one whose job is cancelled is stranded. *)
LEMMA EndsForgets ==
  ASSUME ReportInv, ForgetInv, NEW r \in Report, Retry(r) \/ Cancel(r)
  PROVE  ForgetInv'
<1>1. r \in Job
  BY ResearchAssumption DEF Report, Job
<1>2. Ended(r).pc \notin JobActive
  BY <1>1, EndedShape DEF JobActive
<1>3. UNCHANGED <<reports, req, up>> /\ job' = [job EXCEPT ![r] = Ended(r)]
  BY DEF Retry, Cancel, process
<1>4. /\ stranded \subseteq stranded'
      /\ rep[r].status = "running" /\ HasJob(r) => r \in stranded'
  <2>1. CASE Retry(r)
    BY <2>1 DEF Retry, At, HasJob, JobActive, process
  <2>2. CASE Cancel(r)
    BY <2>2 DEF Cancel, At, HasJob, JobActive
  <2> QED BY <2>1, <2>2
<1> QED BY <1>2, <1>3, <1>4, QuietForgets DEF JobActive

LEMMA CallsForgets ==
  ASSUME ReportInv, ForgetInv, NEW j \in Job, Hang(j) \/ Release(j) \/ Conclude(j)
  PROVE  ForgetInv'
<1>1. job[j] = [f \in JobField |-> job[j][f]]
  BY DEF ReportInv, Shape
<1>0. UNCHANGED <<reports, req, up, stranded>>
  BY DEF Hang, Release, Conclude, process
<1>2. CASE Hang(j) \/ Release(j)
  <2>1. PICK b : job' = [job EXCEPT ![j].hung = b]
    BY <1>2 DEF Hang, Release
  <2> DEFINE x == [job[j] EXCEPT !.hung = b]
  <2>3. x.pc = job[j].pc /\ x.target = job[j].target
    BY <1>1 DEF JobField
  <2>4. job' = [job EXCEPT ![j] = x]
    BY <2>1
  <2> HIDE DEF x
  <2> QED BY <1>0, <2>3, <2>4, QuietForgets DEF JobActive, HasJob
<1>3. CASE Conclude(j)
  <2>1. PICK v \in Verdict :
           job' = [job EXCEPT ![j].pc = "write", ![j].verdict = v, ![j].seen = life[job[j].subj]]
    BY <1>3 DEF Conclude
  <2>2. job[j].pc = "work"
    BY <1>3 DEF Conclude, Working, At
  <2> DEFINE x == [job[j] EXCEPT !.pc = "write", !.verdict = v, !.seen = life[job[j].subj]]
  <2>3. x.pc = "write" /\ x.target = job[j].target
    BY <1>1 DEF JobField
  <2>4. job' = [job EXCEPT ![j] = x]
    BY <2>1 DEF ReportInv, Shape
  <2> HIDE DEF x
  <2> QED BY <1>0, <2>2, <2>3, <2>4, QuietForgets DEF JobActive
<1> QED BY <1>2, <1>3

(* The weekly research has no report; screen and calendar touch no job. *)
LEMMA WeekForgets ==
  ASSUME ReportInv, ForgetInv,
         WeekStart \/ WeekNext \/ WeekEnd \/ ScreenStart \/ ScreenStep \/ Age \/ Expire
  PROVE  ForgetInv'
<1>1. UNCHANGED <<rep, contested, req, up, stranded>>
  BY DEF WeekStart, WeekNext, WeekEnd, ScreenStart, ScreenStep, ScreenWrite, ScreenCommit,
         ScreenPass, ScreenRead, Age, Expire, reports, process
<1>2. \A r \in Report : job'[r] = job[r]
  <2>1. 0 \notin Report /\ Report \subseteq Job
    BY ResearchAssumption DEF Report, Job
  <2>2. UNCHANGED job \/ (\E x : job' = [job EXCEPT ![0] = x])
         \/ \E s : job' = [job EXCEPT ![0].pc = "work", ![0].subj = s]
    BY DEF WeekStart, WeekNext, WeekEnd, ScreenStart, ScreenStep, ScreenWrite, ScreenCommit,
           ScreenPass, ScreenRead, Age, Expire, Goto
  <2> QED BY <2>1, <2>2 DEF ReportInv, Shape
<1> QED BY <1>1, <1>2, StepForgets DEF HasJob

LEMMA AsksForgets ==
  ASSUME ReportInv, ForgetInv, NEW c \in Client, AskResearch(c) \/ AskBatch(c) \/ AskTheme(c)
  PROVE  ForgetInv'
<1>1. UNCHANGED <<rep, contested, job, up, stranded>> /\ up /\ req[c].pc = "idle"
  BY DEF AskResearch, AskBatch, AskTheme, reports, process
<1>2. PICK S, b : req' = [req EXCEPT ![c] = Asking(S, b)] /\ (~b => \E s : S = {s})
  BY DEF AskResearch, AskBatch, AskTheme
<1>3. /\ \A d \in Client : d # c => req'[d] = req[d]
      /\ req'[c].pc = "place" /\ req'[c].subjects = S /\ req'[c].batch = b
  BY <1>2, NoRequestShape, AskedShape DEF ReportInv, Shape
<1>4. \A r \in Report : ToCome(r) => ToCome(r)'
  BY <1>1, <1>3 DEF ToCome, HasJob, HasRequest
<1>5. NoReportForgotten'
  BY <1>1, <1>4 DEF ForgetInv, NoReportForgotten
<1>6. SingleInv'
  BY <1>2, <1>3 DEF ForgetInv, SingleInv
<1> QED BY <1>1, <1>5, <1>6 DEF ForgetInv, StartInv, TakenInv

(* A placeholder has its request, or its job, from the first. *)
LEMMA PlaceForgets ==
  ASSUME ReportInv, ForgetInv, NEW c \in Client, Place(c)
  PROVE  ForgetInv'
<1> DEFINE S == req[c].subjects
<1>1. /\ PlaceReports(S) /\ req[c].pc = "place" /\ ~req[c].batch
      /\ UNCHANGED <<job, up, stranded>>
  BY DEF Place, process
<1>2. /\ \A d \in Client : d # c => req'[d] = req[d]
      /\ req'[c].pc = "queue" /\ req'[c].report = placed'
  BY NoRequestShape DEF ReportInv, Shape, Place
<1>3. PICK s : S = {s}
  BY <1>1 DEF ForgetInv, SingleInv
<1>4. placed' = placed + 1 /\ placed \in Nat
  <2>1. IsFiniteSet(S) /\ Cardinality(S) = 1
    BY <1>3, FS_Singleton
  <2> HIDE DEF S
  <2>2. Len(SetToSeq(S)) = 1
    BY <2>1, Listing
  <2>3. placed' = placed + Len(SetToSeq(S))
    BY <1>1 DEF PlaceReports
  <2> QED BY <2>2, <2>3 DEF ReportInv, PlacedInv
<1>5. /\ \A r \in Report : r # placed' => rep'[r] = rep[r]
      /\ contested \subseteq contested'
  BY <1>1, <1>4 DEF PlaceReports, Report
<1>6. \A r \in Report : ToCome(r) => ToCome(r)'
  BY <1>1, <1>2 DEF ToCome, HasJob, HasRequest
<1>7. \A r \in Report : r = placed' => HasRequest(r)'
  BY <1>2 DEF HasRequest
<1>8. NoReportForgotten'
  BY <1>1, <1>5, <1>6, <1>7 DEF ForgetInv, NoReportForgotten, ToCome
<1>9. StartInv'
  BY <1>1 DEF ForgetInv, StartInv
<1>10. TakenInv'
  <2>1. \A r \in Report : r = placed' => job[r].pc \notin {"work", "write"}
    BY <1>4 DEF ReportInv, PlacedInv, ToCome, HasJob, JobActive
  <2> QED BY <1>1, <1>5, <2>1 DEF ForgetInv, TakenInv
<1>11. SingleInv'
  BY <1>2 DEF ForgetInv, SingleInv
<1> QED BY <1>8, <1>9, <1>10, <1>11 DEF ForgetInv

LEMMA SubmitBatchForgets ==
  ASSUME ReportInv, ForgetInv, NEW c \in Client, SubmitBatch(c)
  PROVE  ForgetInv'
<1> DEFINE S == req[c].subjects
           New == placed + 1 .. placed'
<1>1. /\ PlaceReports(S) /\ req[c].pc = "place" /\ UNCHANGED <<up, stranded>>
      /\ job' = [j \in Job |-> IF j \in New THEN JobFor(rep'[j].subj) ELSE job[j]]
  BY DEF SubmitBatch, process
<1>2. /\ \A d \in Client : d # c => req'[d] = req[d]
      /\ req'[c].pc = "idle"
  BY NoRequestShape DEF ReportInv, Shape, SubmitBatch
<1>3. placed \in Nat
  BY DEF ReportInv, PlacedInv
<1>4. /\ \A r \in Report : r \notin New => rep'[r] = rep[r]
      /\ contested \subseteq contested'
  BY <1>1 DEF PlaceReports
<1>5. /\ \A r \in Report : r \in New => job'[r].pc = "queued"
      /\ \A r \in Report : r \notin New => job'[r] = job[r]
  BY <1>1, JobForShape, ResearchAssumption DEF Report, Job
<1> HIDE DEF New, S
<1>6. \A r \in Report : ToCome(r) \/ r \in New => ToCome(r)'
  BY <1>1, <1>2, <1>5 DEF ToCome, HasJob, HasRequest, JobActive
<1>8. NoReportForgotten'
  BY <1>1, <1>4, <1>6 DEF ForgetInv, NoReportForgotten
<1>9. StartInv'
  BY <1>1 DEF ForgetInv, StartInv
<1>10. TakenInv'
  BY <1>4, <1>5 DEF ForgetInv, TakenInv
<1>11. SingleInv'
  BY <1>2 DEF ForgetInv, SingleInv
<1> QED BY <1>8, <1>9, <1>10, <1>11 DEF ForgetInv

(* The report of the request gets its job. *)
LEMMA QueueForgets ==
  ASSUME ReportInv, ForgetInv, NEW c \in Client, Queue(c)
  PROVE  ForgetInv'
<1> DEFINE r == req[c].report
           queued == JobFor(rep[r].subj)
           w == [queued EXCEPT !.pc = "work", !.target = r, !.inline = TRUE]
<1>1. PICK x : job' = [job EXCEPT ![r] = x] /\ (x = queued \/ x = w)
  BY DEF Queue
<1>2. queued = [f \in JobField |-> queued[f]] /\ queued.pc = "queued"
  BY JobForShape
<1> HIDE DEF queued
<1>3. w.pc = "work" /\ w.target = r
  BY <1>2 DEF JobField
<1> HIDE DEF w
<1>4. x.pc \in {"queued", "work"} /\ (x.pc = "work" => x.target = r)
  BY <1>1, <1>2, <1>3
<1>5. /\ \A d \in Client : d # c => req'[d] = req[d]
      /\ req'[c].pc = "idle" /\ req[c].pc = "queue"
      /\ UNCHANGED <<rep, contested, up, stranded>>
  BY NoRequestShape DEF ReportInv, Shape, Queue, reports, process
<1>6. /\ \A k \in Report : k # r => job'[k] = job[k]
      /\ r \in Report => job'[r] = x
  BY <1>1, ResearchAssumption DEF ReportInv, Shape, Report, Job
<1>7. \A k \in Report : ToCome(k) => ToCome(k)'
  BY <1>4, <1>5, <1>6 DEF ToCome, HasJob, HasRequest, JobActive
<1>8. NoReportForgotten'
  BY <1>5, <1>7 DEF ForgetInv, NoReportForgotten
<1>9. StartInv'
  BY <1>5 DEF ForgetInv, StartInv, RunningIn
<1>10. TakenInv'
  BY <1>4, <1>5, <1>6 DEF ForgetInv, TakenInv
<1>11. SingleInv'
  BY <1>5 DEF ForgetInv, SingleInv
<1> QED BY <1>8, <1>9, <1>10, <1>11 DEF ForgetInv

(* A start-up knows of each running report of its subjects that it leaves. *)
LEMMA RecoversForgets ==
  ASSUME Shape, NEW S, Recovers(S)
  PROVE  /\ \A r \in Report : rep'[r].status = "running" /\ rep[r].subj \in S => r \in stranded'
         /\ \A r \in Report : rep[r].subj \notin S /\ r \in stranded => r \in stranded'
<1>1. rep = [r \in Report |-> [subj |-> rep[r].subj, status |-> rep[r].status]]
  BY DEF Shape
<1>2. ASSUME rep' = [r \in Report |->
             IF r \in Orphaned(S) THEN [rep[r] EXCEPT !.status = "failed"] ELSE rep[r]],
             stranded' = stranded \ RunningIn(S)
      PROVE  /\ \A r \in Report : rep'[r].status = "running" /\ rep[r].subj \in S => r \in stranded'
             /\ \A r \in Report : rep[r].subj \notin S /\ r \in stranded => r \in stranded'
  BY <1>1, <1>2 DEF Orphaned, RunningIn
<1>3. ASSUME UNCHANGED rep, stranded' = stranded \cup RunningIn(S)
      PROVE  /\ \A r \in Report : rep'[r].status = "running" /\ rep[r].subj \in S => r \in stranded'
             /\ \A r \in Report : rep[r].subj \notin S /\ r \in stranded => r \in stranded'
  BY <1>3 DEF RunningIn
<1> QED BY <1>2, <1>3 DEF Recovers

LEMMA RestartForgets ==
  ASSUME ReportInv, ForgetInv, Restart
  PROVE  ForgetInv'
<1>1. /\ Recovers(Stock) /\ UNCHANGED <<placed, contested>> /\ up' = FALSE
      /\ \A r \in Report : rep'[r].subj = rep[r].subj
      /\ \A r \in Report : rep'[r].status = "running" => rep[r].status = "running"
  BY RecoversReports, RecoversKeeps DEF Restart, ReportInv
<1>2. \A r \in Report : rep'[r].status = "running" /\ rep[r].subj \in Stock => r \in stranded'
  BY <1>1, RecoversForgets DEF ReportInv
<1>3. \A r \in Report : rep[r].status = "running" => rep[r].subj \in Stock \cup Theme
  <2>1. \A r \in Report : r <= placed \/ r > placed
    BY DEF ReportInv, PlacedInv, Report
  <2> QED BY <2>1 DEF ReportInv, PlacedInv, Subject
<1>4. NoReportForgotten'
  BY <1>1, <1>2, <1>3 DEF NoReportForgotten
<1>5. \A c \in Client : req'[c].pc = "idle"
  BY NoRequestShape DEF Restart
<1>6. StartInv'
  BY <1>1, <1>2, <1>5 DEF StartInv, RunningIn
<1>7. \A r \in Report : job'[r].pc \notin {"work", "write"}
  <2>1. Report \subseteq Job
    BY ResearchAssumption DEF Report, Job
  <2>2. \A r \in Report : job'[r] = NoJob \/ job'[r] = Ended(r)
                           \/ (job'[r] = job[r] /\ job[r].pc \in {"queued", "retry"})
    BY <2>1 DEF Restart
  <2> QED BY <2>1, <2>2, NoJobShape, EndedShape
<1> QED BY <1>4, <1>5, <1>6, <1>7 DEF ForgetInv, TakenInv, SingleInv

LEMMA RecoverForgets ==
  ASSUME ReportInv, ForgetInv, Recover
  PROVE  ForgetInv'
<1>1. /\ Recovers(Theme) /\ UNCHANGED <<placed, req>> /\ ~up /\ up' = TRUE
      /\ contested \subseteq contested'
      /\ \A r \in Report : rep'[r].subj = rep[r].subj
      /\ \A r \in Report : rep'[r].status = "running" => rep[r].status = "running"
  BY RecoversReports, RecoversKeeps DEF Recover, ReportInv
<1>2. /\ \A r \in Report : rep'[r].status = "running" /\ rep[r].subj \in Theme => r \in stranded'
      /\ \A r \in Report : rep[r].subj \notin Theme /\ r \in stranded => r \in stranded'
  BY <1>1, RecoversForgets DEF ReportInv
<1>3. \A r \in Report : rep[r].status = "running" => rep[r].subj \in Stock \cup Theme
  <2>1. \A r \in Report : r <= placed \/ r > placed
    BY DEF ReportInv, PlacedInv, Report
  <2> QED BY <2>1 DEF ReportInv, PlacedInv, Subject
<1>4. \A r \in Report : rep[r].status = "running" /\ rep[r].subj \in Stock => r \in stranded
  BY <1>1 DEF ForgetInv, StartInv, RunningIn
<1>5. NoReportForgotten'
  BY <1>1, <1>2, <1>3, <1>4, ResearchAssumption DEF NoReportForgotten
<1>6. \A r \in Report : job'[r].pc \in {"work", "write"} => job'[r] = job[r]
  <2>1. Report \subseteq Job
    BY ResearchAssumption DEF Report, Job
  <2>2. \A r \in Report : job'[r] = Ended(r) \/ job'[r] = job[r]
    BY <2>1 DEF Recover
  <2> QED BY <2>1, <2>2, EndedShape
<1>7. TakenInv'
  BY <1>1, <1>6 DEF ForgetInv, TakenInv
<1> QED BY <1>1, <1>5, <1>7 DEF ForgetInv, StartInv, SingleInv

LEMMA NextForgets ==
  ASSUME ReportInv, ForgetInv, [Next]_vars
  PROVE  ForgetInv'
<1>1. ASSUME NEW c \in Client, AskResearch(c) \/ AskBatch(c) \/ AskTheme(c) PROVE ForgetInv'
  BY <1>1, AsksForgets
<1>2. ASSUME NEW c \in Client, RequestStep(c) PROVE ForgetInv'
  BY <1>2, PlaceForgets, QueueForgets, SubmitBatchForgets DEF RequestStep
<1>3. ASSUME NEW j \in Job, Fail(j) PROVE ForgetInv'
  BY <1>3, GiveUpForgets DEF Fail, Working, At, process
<1>4. ASSUME NEW j \in Job, JobStep(j) \/ Hang(j) \/ Release(j) PROVE ForgetInv'
  BY <1>3, <1>4, WriteForgets, CallsForgets DEF JobStep
<1>5. ASSUME NEW r \in Report, QueuedStep(r) \/ Cancel(r) PROVE ForgetInv'
  BY <1>5, StartForgets, WriteThemeForgets, EndsForgets DEF QueuedStep
<1>6. CASE UNCHANGED vars
  BY <1>6 DEF vars, reports, process, ForgetInv, NoReportForgotten, StartInv, TakenInv,
              SingleInv, ToCome, HasJob, HasRequest, RunningIn
<1> QED BY <1>1, <1>2, <1>4, <1>5, <1>6, WeekForgets, RestartForgets, RecoverForgets DEF Next

(* A running report always has a job or a request to come, or the engine still *)
(* to recover it; except for one that was contested or is known to be left     *)
(* running (trigger_research, _try_trigger_task, cancel_task_run, lifespan and *)
(* _recover_stale_runs, which may all fail or stop half-way).                  *)
THEOREM ReportsAreLookedAfter == Spec => []NoReportForgotten
<1>1. Spec => []ReportInv
  BY InitReports, NextReports, PTL DEF Spec
<1>2. Spec => []ForgetInv
  BY <1>1, InitForget, NextForgets, PTL DEF Spec
<1> QED BY <1>2, PTL DEF ForgetInv

=============================================================================
