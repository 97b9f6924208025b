-------------------------- MODULE TaskEngineProofs --------------------------
(***************************************************************************)
(* What the task engine guarantees for every number of tasks, runs,        *)
(* retries, workers and restarts.                                          *)
(***************************************************************************)
EXTENDS TaskEngine, TLAPS

USE ConstantsAssumption

\* Every action keeps the types, and only inserted rows get into the engine's
\* tables (registries of the watchdog and the workers, batch, transactions).
LEMMA InitType == Init => TypeOK
BY DEF Init, TypeOK, Run, Status, Stage, TaskStatus, Inserted, Tx, Info

\* An insertion keeps the columns' types.
LEMMA InsertRunType ==
    ASSUME TypeOK, NEW t \in Task, NEW n \in Nat, NEW k \in Run, InsertRun(t, n, k)
    PROVE  /\ nextRun' \in 1..(MaxRuns + 1)
           /\ info' \in [Run -> Info \cup {<<>>}]
           /\ \A r \in Run : r # nextRun => info'[r] = info[r]
           /\ info'[nextRun] = [task |-> t, retry |-> n, trace |-> k, born |-> gen]
           /\ info'[nextRun] \in Info
           /\ nextRun' = nextRun + 1
           /\ nextRun \in Run
BY DEF TypeOK, InsertRun, Run, Info

LEMMA InsertRootType ==
    ASSUME TypeOK, NEW t \in Task, InsertRoot(t),
           UNCHANGED <<enabled, startup, stage, batch, memory, txs>>
    PROVE  TypeOK'
<1>1. /\ nextRun \in Run
      /\ nextRun \in Nat
      /\ InsertRun(t, 0, nextRun)
  BY DEF InsertRoot, InsertRun, TypeOK, Run
<1>2. /\ nextRun' \in 1..(MaxRuns + 1)
      /\ info' \in [Run -> Info \cup {<<>>}]
      /\ \A r \in Run : r # nextRun => info'[r] = info[r]
      /\ info'[nextRun] \in Info
      /\ nextRun' = nextRun + 1
  BY <1>1, InsertRunType
<1>3. /\ status' \in [Run -> Status]
      /\ taskStatus' \in [Task -> TaskStatus]
      /\ status' = [status EXCEPT ![nextRun] = "queued"]
  BY DEF InsertRoot, TypeOK, Status, TaskStatus
<1>4. \A r \in Run : IF r < nextRun'
                      THEN status'[r] # "absent" /\ info'[r] \in Info
                      ELSE status'[r] = "absent" /\ stage'[r] = "none"
  BY <1>1, <1>2, <1>3 DEF TypeOK, Run
<1>5. Inserted \subseteq Inserted'
  BY <1>3 DEF Inserted, TypeOK
<1>6. QED
  BY <1>2, <1>3, <1>4, <1>5 DEF TypeOK, startup, memory

\* _finalize_run keeps the types, whichever stage it leaves the run in.
LEMMA FinalizeType ==
    ASSUME TypeOK, NEW r \in Inserted, NEW ok \in BOOLEAN, NEW st \in Stage,
           Finalize(r, ok), stage' = [stage EXCEPT ![r] = st]
    PROVE  TypeOK'
<1> DEFINE t == info[r].task
<1>1. /\ r \in Run /\ r < nextRun /\ status[r] # "absent"
      /\ info[r] \in Info /\ t \in Task
      /\ info[r].retry \in Nat /\ info[r].trace \in Run
  BY DEF TypeOK, Inserted, Run, Info
<1>2. /\ stage' \in [Run -> Stage]
      /\ \A s \in Run : s # r => stage'[s] = stage[s]
  BY <1>1 DEF TypeOK
<1>3. /\ taskStatus' \in [Task -> TaskStatus]
      /\ tracked' \subseteq tracked /\ activeRuns' \subseteq activeRuns
      /\ UNCHANGED <<enabled, boot, gen, recRuns, recTasks, batch, txs>>
  BY <1>1 DEF Finalize, TypeOK, TaskStatus, startup
<1>4. CASE ok \/ ~(info[r].retry < MaxRetries)
  <2>1. /\ status' = [status EXCEPT ![r] = IF ok THEN "success" ELSE "failed"]
        /\ UNCHANGED <<nextRun, info>>
    BY <1>4 DEF Finalize
  <2>2. Inserted' = Inserted /\ status' \in [Run -> Status]
    BY <2>1, <1>1 DEF Inserted, TypeOK, Status
  <2>3. QED
    BY <1>1, <1>2, <1>3, <2>1, <2>2 DEF TypeOK
<1>5. CASE ~ok /\ info[r].retry < MaxRetries
  <2>1. /\ status' = [[status EXCEPT ![r] = IF ok THEN "success" ELSE "failed"]
                        EXCEPT ![nextRun] = "queued"]
        /\ InsertRun(t, info[r].retry + 1, info[r].trace)
    BY <1>5 DEF Finalize
  <2>2a. PICK u \in Task, n \in Nat, k \in Run :
          u = t /\ n = info[r].retry + 1 /\ k = info[r].trace
    BY <1>1
  <2>2b. InsertRun(u, n, k)
    BY <2>1, <2>2a
  <2>2. /\ nextRun' \in 1..(MaxRuns + 1)
        /\ info' \in [Run -> Info \cup {<<>>}]
        /\ \A s \in Run : s # nextRun => info'[s] = info[s]
        /\ info'[nextRun] \in Info
        /\ nextRun' = nextRun + 1
        /\ nextRun \in Run
    BY <2>2b, InsertRunType
  <2>3. Inserted \subseteq Inserted' /\ status' \in [Run -> Status]
    BY <2>1, <1>1 DEF Inserted, TypeOK, Status
  <2>4. \A s \in Run : IF s < nextRun'
                        THEN status'[s] # "absent" /\ info'[s] \in Info
                        ELSE status'[s] = "absent" /\ stage'[s] = "none"
    BY <2>1, <2>2, <1>1, <1>2 DEF TypeOK, Run
  <2>5. QED
    BY <1>2, <1>3, <2>2, <2>3, <2>4 DEF TypeOK
<1>6. QED
  BY <1>4, <1>5

\* A commit of another thread's transaction keeps the types.
LEMMA CommitType ==
    ASSUME TypeOK, NEW k, NEW st \in {"cancelled", "failed"}, Commit(k, st)
    PROVE  TypeOK'
<1>1. PICK x \in txs :
        /\ txs' = txs \ {x}
        /\ status' = [status EXCEPT ![x.run] = st]
        /\ taskStatus' = IF x.task THEN [taskStatus EXCEPT ![info[x.run].task] = st]
                                   ELSE taskStatus
        /\ UNCHANGED <<nextRun, info, enabled, startup, stage, batch, memory>>
  BY DEF Commit
<1>2. Inserted' = Inserted /\ status' \in [Run -> Status]
  BY <1>1 DEF Inserted, TypeOK, Status, Tx
<1>3. taskStatus' \in [Task -> TaskStatus]
  BY <1>1 DEF TypeOK, TaskStatus
<1>4. QED
  BY <1>1, <1>2, <1>3 DEF TypeOK, startup, memory, Inserted, Run

\* Moving the stage of an inserted run keeps the types.
LEMMA StageType ==
    ASSUME TypeOK, NEW r \in Inserted, NEW to \in Stage,
           stage' = [stage EXCEPT ![r] = to],
           UNCHANGED <<db, startup, batch, memory, txs>>
    PROVE  TypeOK'
<1>1. /\ r \in Run /\ r < nextRun /\ status[r] # "absent"
  BY DEF TypeOK, Inserted, Run
<1>2. Inserted' = Inserted
  BY DEF Inserted, db
<1>3. stage' \in [Run -> Stage] /\ \A s \in Run : s # r => stage'[s] = stage[s]
  BY <1>1 DEF TypeOK
<1>4. QED
  BY <1>1, <1>2, <1>3 DEF TypeOK, db, startup, memory

LEMMA NextType == TypeOK /\ [Next]_vars => TypeOK'
<1> SUFFICES ASSUME TypeOK, [Next]_vars PROVE TypeOK'
  OBVIOUS
<1>0. \A r \in Run : stage[r] # "none" => r \in Inserted
  BY DEF TypeOK, Inserted
<1>1. CASE Start
  BY <1>1 DEF Start, TypeOK, Inserted, db, memory
<1>2. CASE RecoverRead
  <2>1. Inserted' = Inserted /\ recRuns' \subseteq Inserted
    BY <1>2 DEF RecoverRead, db, Inserted, Outstanding, RunsOf
  <2>2. QED
    BY <1>2, <2>1 DEF RecoverRead, TypeOK, db, memory
<1>3. CASE RecoverCommit
  <2>1. /\ Inserted' = Inserted /\ status' \in [Run -> Status]
        /\ taskStatus' \in [Task -> TaskStatus]
    BY <1>3 DEF RecoverCommit, TypeOK, Inserted, Status, TaskStatus
  <2>2. QED
    BY <1>3, <2>1 DEF RecoverCommit, TypeOK, memory, Inserted
<1>4. CASE Stop
  <2>1. Inserted' = Inserted /\ stage' \in [Run -> Stage]
    BY <1>4 DEF Stop, db, Inserted, TypeOK, Stage
  <2>2. \A r \in Run : stage[r] = "none" => stage'[r] = "none"
    BY <1>4 DEF Stop, TypeOK, Live
  <2>3. QED
    BY <1>4, <2>1, <2>2 DEF Stop, TypeOK, db
<1>5. ASSUME NEW t \in Task, Trigger(t) \/ CronFire(t) PROVE TypeOK'
  BY <1>5, InsertRootType DEF Trigger, CronFire
<1>6. ASSUME NEW t \in ApiTask, PauseTask(t) \/ ResumeTask(t) \/ UpdateTask(t)
      PROVE TypeOK'
  <2>1. /\ enabled' \in [Task -> BOOLEAN] /\ taskStatus' \in [Task -> TaskStatus]
        /\ UNCHANGED <<nextRun, info, status, startup, stage, batch, memory, txs>>
    BY <1>6 DEF PauseTask, ResumeTask, UpdateTask, TypeOK, TaskStatus
  <2>2. Inserted' = Inserted
    BY <2>1 DEF Inserted
  <2>3. QED
    BY <2>1, <2>2 DEF TypeOK, startup, memory
<1>7. CASE TickLoad
  <2>1. Inserted' = Inserted /\ batch' \subseteq Inserted
    BY <1>7 DEF TickLoad, db, Inserted
  <2>2. QED
    BY <1>7, <2>1 DEF TickLoad, TypeOK, db, startup, memory
<1>8. ASSUME NEW r \in Run, TickRun(r) PROVE TypeOK'
  <2>1. r \in Inserted
    BY <1>8 DEF TickRun, TickDisabled, TickSkip, TickDispatch, TypeOK
  <2>2. CASE TickDisabled(r)
    <3>1. /\ status' = [status EXCEPT ![r] = "cancelled"]
          /\ taskStatus' = [taskStatus EXCEPT ![info[r].task] = "cancelled"]
      BY <2>2 DEF TickDisabled
    <3>2. status' \in [Run -> Status] /\ Inserted' = Inserted
      BY <2>1, <3>1 DEF Inserted, TypeOK, Status
    <3>3. taskStatus' \in [Task -> TaskStatus]
      BY <3>1 DEF TypeOK, TaskStatus
    <3>4. QED
      BY <2>1, <2>2, <3>2, <3>3 DEF TickDisabled, TypeOK, startup, memory, Inserted
  <2>3. CASE TickSkip(r)
    <3>1. Inserted' = Inserted
      BY <2>3 DEF TickSkip, db, Inserted
    <3>2. QED
      BY <2>3, <3>1 DEF TickSkip, TypeOK, db, startup, memory
  <2>4. CASE TickDispatch(r)
    <3>1. /\ status' = [status EXCEPT ![r] = "running"]
          /\ taskStatus' = [taskStatus EXCEPT ![info[r].task] = "running"]
          /\ stage' = [stage EXCEPT ![r] = "scheduled"]
      BY <2>4 DEF TickDispatch
    <3>2. status' \in [Run -> Status] /\ Inserted' = Inserted
      BY <2>1, <3>1 DEF Inserted, TypeOK, Status
    <3>3. taskStatus' \in [Task -> TaskStatus]
      BY <3>1 DEF TypeOK, TaskStatus
    <3>4. stage' \in [Run -> Stage]
      BY <3>1 DEF TypeOK, Stage
    <3>5. /\ batch' \subseteq Inserted
          /\ tracked' \subseteq Inserted /\ activeRuns' \subseteq Inserted
          /\ UNCHANGED <<nextRun, info, enabled, startup, txs>>
      BY <2>1, <2>4 DEF TickDispatch, TypeOK
    <3>6. \A s \in Run : IF s < nextRun'
                          THEN status'[s] # "absent" /\ info'[s] \in Info
                          ELSE status'[s] = "absent" /\ stage'[s] = "none"
      BY <2>1, <2>4 DEF TickDispatch, TypeOK, Inserted
    <3>7. QED
      BY <3>2, <3>3, <3>4, <3>5, <3>6 DEF TypeOK, startup
  <2>5. QED
    BY <1>8, <2>2, <2>3, <2>4 DEF TickRun
<1>9. ASSUME NEW r \in Run, Submit(r) \/ FnStart(r) \/ FnEnd(r) PROVE TypeOK'
  <2>1. PICK to \in Stage : stage' = [stage EXCEPT ![r] = to]
    BY <1>9 DEF Submit, FnStart, FnEnd, Advance, Stage
  <2>2. stage[r] # "none" /\ UNCHANGED <<db, startup, batch, memory, txs>>
    BY <1>9 DEF Submit, FnStart, FnEnd, Advance
  <2>3. QED
    BY <2>1, <2>2, <1>0, StageType
<1>10. ASSUME NEW r \in Run, Complete(r) \/ ExecTimeout(r) PROVE TypeOK'
  <2>1. r \in Inserted
    BY <1>10, <1>0 DEF Complete, ExecTimeout, Live
  <2>2. PICK ok \in BOOLEAN, st \in Stage :
          Finalize(r, ok) /\ stage' = [stage EXCEPT ![r] = st]
    BY <1>10 DEF Complete, ExecTimeout, Stage
  <2>3. QED
    BY <2>1, <2>2, FinalizeType
<1>11. ASSUME NEW r \in Run, CancelRead(r) PROVE TypeOK'
  <2>1. Inserted' = Inserted /\ r \in Inserted
    BY <1>11 DEF CancelRead, db, Inserted
  <2>2. tracked' \subseteq tracked
    BY <1>11 DEF CancelRead
  <2>3. txs' \subseteq Tx /\ \A x \in txs' : x.run \in Inserted
    <3>1. PICK b \in BOOLEAN : b = (taskStatus[info[r].task] # "cancelled")
      OBVIOUS
    <3>2. txs' = txs \cup {[kind |-> "cancel", run |-> r, task |-> b]}
      BY <1>11, <3>1 DEF CancelRead
    <3>3. QED
      BY <2>1, <3>2 DEF TypeOK, Tx
  <2>4. QED
    BY <1>11, <2>1, <2>2, <2>3 DEF CancelRead, TypeOK, db, startup
<1>12. ASSUME NEW r \in Run, WatchdogRead(r) PROVE TypeOK'
  <2>1. Inserted' = Inserted /\ r \in Inserted
    BY <1>12 DEF WatchdogRead, db, Inserted, TypeOK
  <2>2. tracked' \subseteq tracked /\ activeRuns' \subseteq activeRuns
    BY <1>12 DEF WatchdogRead
  <2>3. txs' \subseteq Tx /\ \A x \in txs' : x.run \in Inserted
    <3>1. PICK b \in BOOLEAN : b = (taskStatus[info[r].task] # "failed")
      OBVIOUS
    <3>2. txs' = txs \cup {[kind |-> "timeout", run |-> r, task |-> b]} \/ txs' = txs
      BY <1>12, <3>1 DEF WatchdogRead
    <3>3. QED
      BY <2>1, <3>2 DEF TypeOK, Tx
  <2>4. QED
    BY <1>12, <2>1, <2>2, <2>3 DEF WatchdogRead, TypeOK, db, startup
<1>13. CASE CancelCommit
  BY <1>13, CommitType DEF CancelCommit
<1>14. CASE WatchdogCommit
  BY <1>14, CommitType DEF WatchdogCommit
<1>15. CASE UNCHANGED vars
  BY <1>15 DEF vars, db, startup, memory, TypeOK, Inserted
<1>16. QED
  BY <1>1, <1>2, <1>3, <1>4, <1>5, <1>6, <1>7, <1>8, <1>9, <1>10, <1>11, <1>12,
     <1>13, <1>14, <1>15 DEF Next

\* The types hold in every state, whatever the threads do.
THEOREM TypeCorrect == Spec => []TypeOK
<1>1. QED
  BY InitType, NextType, PTL DEF Spec
-----------------------------------------------------------------------------
(* No orphans: the invariant behind NoOrphanRun, NoBookkeepingLeak and        *)
(* DispatchedOnce.  A row is "running" without a live coroutine only between  *)
(* the end of a process and the recovery's commit, which then writes it; what *)
(* a tick has loaded was never dispatched, whatever its row says by now.      *)

Unrecovered(r) == \/ boot \in {"down", "started"}
                  \/ boot = "recovering" /\ r \in recRuns

OrphanInv ==
    /\ \A r \in Run : status[r] = "queued" => stage[r] = "none"
    /\ \A r \in batch : stage[r] = "none"
    /\ \A r \in Run : status[r] = "running" => stage[r] \in Live \/ Unrecovered(r)
    /\ NoBookkeepingLeak

\* A finalized run is over and in no table; its retry is queued and new.
LEMMA FinalizeOrphan ==
    ASSUME TypeOK, OrphanInv, NEW r \in Inserted, NEW ok \in BOOLEAN,
           NEW st \in {"done", "failed", "zombie"},
           stage[r] \in Live, Finalize(r, ok), stage' = [stage EXCEPT ![r] = st]
    PROVE  OrphanInv'
<1>1. /\ r \in Run /\ r # nextRun
      /\ nextRun \in Run => stage[nextRun] = "none"
  BY DEF Inserted, TypeOK, Run
<1>2. /\ \A s \in Run : s # r => stage'[s] = stage[s]
      /\ stage'[r] = st
  BY <1>1 DEF TypeOK
<1>3. /\ status'[r] \in {"success", "failed"}
      /\ \A s \in Run \ {r} :
            status'[s] = status[s] \/ (s = nextRun /\ status'[s] = "queued")
  BY <1>1 DEF Finalize, InsertRun, TypeOK
<1>4. /\ tracked' = tracked \ {r} /\ activeRuns' = activeRuns \ {r}
      /\ UNCHANGED <<batch, boot, recRuns>>
  BY DEF Finalize, startup
<1>5. r \notin batch
  BY DEF OrphanInv, Live
<1>6. \A s \in Run : status'[s] = "queued" => stage'[s] = "none"
  BY <1>1, <1>2, <1>3 DEF OrphanInv
<1>7. \A s \in batch' : stage'[s] = "none"
  BY <1>2, <1>4, <1>5 DEF OrphanInv, TypeOK, Inserted
<1>8. \A s \in Run : status'[s] = "running" => stage'[s] \in Live \/ Unrecovered(s)'
  BY <1>2, <1>3, <1>4 DEF OrphanInv, Unrecovered
<1>9. NoBookkeepingLeak'
  BY <1>2, <1>4 DEF OrphanInv, NoBookkeepingLeak, TypeOK, Inserted
<1>10. QED
  BY <1>6, <1>7, <1>8, <1>9 DEF OrphanInv

\* A transaction's commit makes no run queued or running.
LEMMA CommitOrphan ==
    ASSUME TypeOK, OrphanInv, NEW k, NEW st \in {"cancelled", "failed"}, Commit(k, st)
    PROVE  OrphanInv'
<1>1. /\ \A s \in Run : status'[s] = status[s] \/ status'[s] = st
      /\ UNCHANGED <<stage, batch, boot, recRuns, tracked, activeRuns>>
  BY DEF Commit, TypeOK, startup, memory
<1>2. QED
  BY <1>1 DEF OrphanInv, Unrecovered, NoBookkeepingLeak

LEMMA NextOrphan == TypeOK /\ OrphanInv /\ [Next]_vars => OrphanInv'
<1> SUFFICES ASSUME TypeOK, OrphanInv, [Next]_vars PROVE OrphanInv'
  OBVIOUS
<1>0. \A r \in Run : stage[r] # "none" => r \in Inserted
  BY DEF TypeOK, Inserted
<1>1. CASE Start
  BY <1>1 DEF Start, OrphanInv, NoBookkeepingLeak, Unrecovered, db, memory
<1>2. CASE RecoverRead
  <2>1. \A r \in Run : status[r] = "running" => r \in recRuns'
    <3>1. SUFFICES ASSUME NEW r \in Run, status[r] = "running" PROVE r \in recRuns'
      OBVIOUS
    <3>2. r \in Outstanding(info[r].task) /\ info[r].task \in Task
      BY <3>1 DEF Outstanding, RunsOf, Inserted, TypeOK, Info
    <3>3. QED
      BY <1>2, <3>2 DEF RecoverRead
  <2>2. QED
    BY <1>2, <2>1 DEF RecoverRead, OrphanInv, NoBookkeepingLeak, Unrecovered, db, memory
<1>3. CASE RecoverCommit
  <2>1. \A r \in Run : status'[r] = IF r \in recRuns THEN "failed" ELSE status[r]
    BY <1>3 DEF RecoverCommit
  <2>2. QED
    BY <1>3, <2>1 DEF RecoverCommit, OrphanInv, NoBookkeepingLeak, Unrecovered, memory
<1>4. CASE Stop
  <2>1. \A r \in Run : stage[r] = "none" => stage'[r] = "none"
    BY <1>4 DEF Stop, Live
  <2>2. QED
    BY <1>4, <2>1 DEF Stop, OrphanInv, NoBookkeepingLeak, Unrecovered, db
<1>5. ASSUME NEW t \in Task, Trigger(t) \/ CronFire(t) PROVE OrphanInv'
  <2>1. /\ nextRun \in Run /\ stage[nextRun] = "none"
        /\ status' = [status EXCEPT ![nextRun] = "queued"]
        /\ UNCHANGED <<startup, stage, batch, memory>>
    BY <1>5 DEF Trigger, CronFire, InsertRoot, InsertRun, TypeOK
  <2>2. QED
    BY <2>1 DEF OrphanInv, NoBookkeepingLeak, Unrecovered, startup, memory, TypeOK
<1>6. ASSUME NEW t \in ApiTask, PauseTask(t) \/ ResumeTask(t) \/ UpdateTask(t)
      PROVE OrphanInv'
  BY <1>6 DEF PauseTask, ResumeTask, UpdateTask, OrphanInv, NoBookkeepingLeak,
              Unrecovered, startup, memory
<1>7. CASE TickLoad
  BY <1>7 DEF TickLoad, OrphanInv, NoBookkeepingLeak, Unrecovered, db, startup, memory
<1>8. ASSUME NEW r \in Run, TickRun(r) PROVE OrphanInv'
  <2>1. CASE TickDisabled(r)
    BY <2>1 DEF TickDisabled, OrphanInv, NoBookkeepingLeak, Unrecovered, startup,
                memory, TypeOK
  <2>2. CASE TickSkip(r)
    BY <2>2 DEF TickSkip, OrphanInv, NoBookkeepingLeak, Unrecovered, db, startup, memory
  <2>3. CASE TickDispatch(r)
    <3>1. /\ status' = [status EXCEPT ![r] = "running"]
          /\ stage' = [stage EXCEPT ![r] = "scheduled"]
          /\ batch' = batch \ {r}
          /\ tracked' = tracked \cup {r} /\ activeRuns' = activeRuns \cup {r}
          /\ UNCHANGED <<boot, recRuns>>
      BY <2>3 DEF TickDispatch, startup
    <3>2. /\ \A s \in Run : s # r => status'[s] = status[s] /\ stage'[s] = stage[s]
          /\ status'[r] = "running" /\ stage'[r] = "scheduled"
      BY <3>1 DEF TypeOK
    <3>3. batch \subseteq Run /\ tracked \subseteq Run /\ activeRuns \subseteq Run
      BY DEF TypeOK, Inserted
    <3>4. QED
      BY <3>1, <3>2, <3>3 DEF OrphanInv, NoBookkeepingLeak, Unrecovered, Live
  <2>4. QED
    BY <1>8, <2>1, <2>2, <2>3 DEF TickRun
<1>9. ASSUME NEW r \in Run, Submit(r) \/ FnStart(r) \/ FnEnd(r) PROVE OrphanInv'
  <2>1. /\ \A s \in Run : s # r => stage'[s] = stage[s]
        /\ stage[r] \in Live => stage'[r] \in Live
        /\ stage[r] # "none"
        /\ UNCHANGED <<db, startup, batch, memory>>
    BY <1>9 DEF Submit, FnStart, FnEnd, Advance, Live, TypeOK
  <2>2. tracked \subseteq Run /\ activeRuns \subseteq Run /\ batch \subseteq Run
    BY DEF TypeOK, Inserted
  <2>3. QED
    BY <2>1, <2>2 DEF OrphanInv, NoBookkeepingLeak, Unrecovered, db, startup, memory
<1>10. ASSUME NEW r \in Run, Complete(r) \/ ExecTimeout(r) PROVE OrphanInv'
  <2>1. r \in Inserted /\ stage[r] \in Live
    BY <1>10, <1>0 DEF Complete, ExecTimeout, Live
  <2>2. PICK ok \in BOOLEAN, st \in {"done", "failed", "zombie"} :
          Finalize(r, ok) /\ stage' = [stage EXCEPT ![r] = st]
    BY <1>10 DEF Complete, ExecTimeout
  <2>3. QED
    BY <2>1, <2>2, FinalizeOrphan
<1>11. ASSUME NEW r \in Run, CancelRead(r) \/ WatchdogRead(r) PROVE OrphanInv'
  <2>1. /\ tracked' \subseteq tracked /\ activeRuns' \subseteq activeRuns
        /\ UNCHANGED <<db, startup, stage, batch>>
    BY <1>11 DEF CancelRead, WatchdogRead
  <2>2. QED
    BY <2>1 DEF OrphanInv, NoBookkeepingLeak, Unrecovered, db, startup
<1>12. CASE CancelCommit \/ WatchdogCommit
  BY <1>12, CommitOrphan DEF CancelCommit, WatchdogCommit
<1>13. CASE UNCHANGED vars
  BY <1>13 DEF vars, db, startup, memory, OrphanInv, NoBookkeepingLeak, Unrecovered
<1>14. QED
  BY <1>1, <1>2, <1>3, <1>4, <1>5, <1>6, <1>7, <1>8, <1>9, <1>10, <1>11, <1>12,
     <1>13 DEF Next

LEMMA OrphanInvariant == Spec => []OrphanInv
<1>1. Init => OrphanInv
  BY DEF Init, OrphanInv, NoBookkeepingLeak
<1>2. QED
  BY <1>1, NextOrphan, TypeCorrect, PTL DEF Spec

\* Once the application serves requests, no run is shown as running without a
\* live coroutine, and none is shown as queued that was already dispatched.
THEOREM NoOrphans == Spec => []NoOrphanRun
<1>1. OrphanInv => NoOrphanRun
  BY DEF OrphanInv, NoOrphanRun, Unrecovered
<1>2. QED
  BY <1>1, OrphanInvariant, PTL

\* The tables of the watchdog and of the worker manager hold live runs only.
THEOREM TablesClean == Spec => []NoBookkeepingLeak
<1>1. OrphanInv => NoBookkeepingLeak
  BY DEF OrphanInv
<1>2. QED
  BY <1>1, OrphanInvariant, PTL

\* A run is dispatched at most once, whatever happened to its row since the
\* tick loaded it, and whichever process runs the tick.
THEOREM AtMostOneDispatch == Spec => DispatchedOnce
<1> DEFINE Fresh == \A r \in Run : stage'[r] = "scheduled" /\ stage[r] # "scheduled"
                                  => stage[r] = "none"
<1>1. TypeOK /\ OrphanInv /\ [Next]_vars => [Fresh]_vars
  <2> SUFFICES ASSUME TypeOK, OrphanInv, Next, NEW r \in Run,
                      stage'[r] = "scheduled", stage[r] # "scheduled"
               PROVE  stage[r] = "none"
    BY DEF vars
  <2>1. CASE \E s \in Run : TickDispatch(s)
    BY <2>1 DEF TickDispatch, OrphanInv, TypeOK
  <2>2. CASE ~ \E s \in Run : TickDispatch(s)
    <3>1. stage' # stage
      OBVIOUS
    <3>2. CASE Stop
      BY <3>2 DEF Stop
    <3>3. ASSUME NEW s \in Run,
                 \/ Submit(s) \/ FnStart(s) \/ FnEnd(s)
                 \/ Complete(s) \/ ExecTimeout(s)
          PROVE  FALSE
      <4>1. \E to \in {"pooled", "executing", "returned", "raised", "done",
                        "failed", "zombie"} : stage' = [stage EXCEPT ![s] = to]
        BY <3>3 DEF Submit, FnStart, FnEnd, Complete, ExecTimeout, Advance
      <4>2. QED
        BY <4>1 DEF TypeOK
    <3>4. QED
      BY <2>2, <3>1, <3>2, <3>3 DEF Next, TickRun, TickDisabled, TickSkip, TickLoad,
         Start, RecoverRead, RecoverCommit, PauseTask, ResumeTask, UpdateTask,
         Trigger, CronFire, CancelRead, CancelCommit, WatchdogRead, WatchdogCommit, Commit
  <2>3. QED
    BY <2>1, <2>2
<1>2. QED
  BY <1>1, TypeCorrect, OrphanInvariant, PTL DEF Spec, DispatchedOnce
-----------------------------------------------------------------------------
(* Attempts: the invariant behind OneRunPerAttempt and NoLostRetry.  An       *)
(* attempt exists only if the coroutines of all the earlier ones are over, so *)
(* a live coroutine is that of the last attempt, and finds the place of the   *)
(* next one free.  (That a chain has a last attempt is part of the invariant, *)
(* as it is preserved step by step.)                                          *)

Over == {"failed", "zombie", "lost"}

Follows(s, r) == /\ info[s].trace = info[r].trace
                 /\ info[s].retry = info[r].retry + 1

IsLast(r, k) == /\ r \in AttemptsOf(k)
                /\ \A s \in AttemptsOf(k) : info[s].retry <= info[r].retry

AttemptInv ==
    /\ OneRunPerAttempt
    /\ \A r \in Inserted : info[r].trace \in Inserted
    /\ \A s \in Inserted : \A m \in 0..MaxRetries : m < info[s].retry
          => \E r \in AttemptsOf(info[s].trace) : info[r].retry = m /\ stage[r] \in Over
    /\ \A s \in Inserted : \E r \in Inserted : IsLast(r, info[s].trace)
    /\ NoLostRetry

\* What a step that inserts no run must respect.
LEMMA SameRuns ==
    ASSUME AttemptInv, UNCHANGED info, Inserted' = Inserted,
           \A r \in Inserted : stage[r] \in Over => stage'[r] \in Over,
           \A r \in Inserted : stage'[r] \in {"failed", "zombie"} =>
               stage[r] \in {"failed", "zombie"} \/ ~(info[r].retry < MaxRetries)
    PROVE  AttemptInv'
<1>1. OneRunPerAttempt'
  BY DEF AttemptInv, OneRunPerAttempt
<1>2. \A r \in Inserted' : info'[r].trace \in Inserted'
  BY DEF AttemptInv
<1>3. \A s \in Inserted' : \A m \in 0..MaxRetries : m < info'[s].retry
          => \E r \in AttemptsOf(info[s].trace)' : info'[r].retry = m /\ stage'[r] \in Over
  BY DEF AttemptInv, AttemptsOf
<1>4. \A s \in Inserted' : \E r \in Inserted' : IsLast(r, info[s].trace)'
  BY DEF AttemptInv, IsLast, AttemptsOf
<1>5. NoLostRetry'
  BY DEF AttemptInv, NoLostRetry
<1>6. QED
  BY <1>1, <1>2, <1>3, <1>4, <1>5 DEF AttemptInv

\* A new request starts a chain of its own, named by its own id.
LEMMA RootAttempt ==
    ASSUME TypeOK, AttemptInv, NEW t \in Task, InsertRoot(t), UNCHANGED stage
    PROVE  AttemptInv'
<1>0. PICK n \in Run : n = nextRun
  BY DEF InsertRoot, InsertRun
<1>1. /\ n \notin Inserted
      /\ Inserted' = Inserted \cup {n}
      /\ stage'[n] = "none"
  BY <1>0 DEF InsertRoot, InsertRun, Inserted, TypeOK
<1>2. /\ \A s \in Inserted : info'[s] = info[s]
      /\ info'[n].retry = 0 /\ info'[n].trace = n
  BY <1>0, <1>1 DEF InsertRoot, InsertRun, TypeOK, Inserted
<1>3. \A s \in Inserted : info[s].trace # n
  BY <1>1 DEF AttemptInv
<1>4. OneRunPerAttempt'
  BY <1>1, <1>2, <1>3 DEF AttemptInv, OneRunPerAttempt
<1>5. \A r \in Inserted' : info'[r].trace \in Inserted'
  BY <1>1, <1>2 DEF AttemptInv
<1>6. ASSUME NEW s \in Inserted', NEW m \in 0..MaxRetries, m < info'[s].retry
      PROVE  \E r \in Inserted' : /\ info'[r].trace = info'[s].trace
                                  /\ info'[r].retry = m /\ stage'[r] \in Over
  <2>1. s \in Inserted /\ m < info[s].retry
    BY <1>1, <1>2, <1>6
  <2>2. PICK r \in AttemptsOf(info[s].trace) : info[r].retry = m /\ stage[r] \in Over
    BY <2>1 DEF AttemptInv
  <2>3. QED
    BY <1>1, <1>2, <2>1, <2>2 DEF AttemptsOf
<1>7. ASSUME NEW s \in Inserted'
      PROVE  \E r \in Inserted' : /\ info'[r].trace = info'[s].trace
                                  /\ \A q \in Inserted' : info'[q].trace = info'[s].trace
                                         => info'[q].retry <= info'[r].retry
  <2>1. CASE s = n
    BY <1>1, <1>2, <1>3, <2>1
  <2>2. CASE s # n
    <3>1. s \in Inserted
      BY <1>1, <2>2
    <3>2. PICK r \in Inserted : IsLast(r, info[s].trace)
      BY <3>1 DEF AttemptInv
    <3>3. QED
      BY <1>1, <1>2, <1>3, <3>1, <3>2 DEF IsLast, AttemptsOf
  <2>3. QED
    BY <2>1, <2>2
<1>8. NoLostRetry'
  <2>1. SUFFICES ASSUME NEW r \in Inserted', stage'[r] \in {"failed", "zombie"},
                        info'[r].retry < MaxRetries
                 PROVE  \E s \in Inserted' : /\ info'[s].trace = info'[r].trace
                                             /\ info'[s].retry = info'[r].retry + 1
    BY DEF NoLostRetry
  <2>2. r \in Inserted /\ stage[r] \in {"failed", "zombie"} /\ info[r].retry < MaxRetries
    BY <1>0, <1>1, <1>2, <2>1 DEF InsertRoot, InsertRun, TypeOK
  <2>3. PICK s \in Inserted : info[s].trace = info[r].trace /\ info[s].retry = info[r].retry + 1
    BY <2>2 DEF AttemptInv, NoLostRetry
  <2>4. QED
    BY <1>1, <1>2, <2>2, <2>3
<1>9. QED
  BY <1>4, <1>5, <1>6, <1>7, <1>8 DEF AttemptInv, IsLast, AttemptsOf

\* An attempt whose coroutine is not over is the last of its chain: a later one
\* would have it among its predecessors.
LEMMA OpenIsLast ==
    ASSUME TypeOK, AttemptInv, NEW r \in Inserted, stage[r] \notin Over
    PROVE  IsLast(r, info[r].trace)
<1>1. SUFFICES ASSUME NEW s \in Inserted, info[s].trace = info[r].trace,
                      ~(info[s].retry <= info[r].retry)
               PROVE  FALSE
  BY DEF IsLast, AttemptsOf
<1>2. /\ info[r].retry \in 0..MaxRetries /\ info[s].retry \in Nat
      /\ info[r].retry < info[s].retry
  BY <1>1 DEF TypeOK, Inserted, Info, AttemptInv, OneRunPerAttempt
<1>3. PICK p \in AttemptsOf(info[s].trace) :
        info[p].retry = info[r].retry /\ stage[p] \in Over
  BY <1>2 DEF AttemptInv
<1>4. p = r
  BY <1>1, <1>3 DEF AttemptInv, OneRunPerAttempt, AttemptsOf
<1>5. QED
  BY <1>3, <1>4

\* What the retry inserted by a failing coroutine looks like.
LEMMA RetryRow ==
    ASSUME TypeOK, NEW r \in Inserted, Finalize(r, FALSE), info[r].retry < MaxRetries,
           NEW st, stage' = [stage EXCEPT ![r] = st], NEW n \in Run, n = nextRun
    PROVE  /\ n \notin Inserted /\ n # r /\ stage'[n] = "none" /\ status'[n] = "queued"
           /\ Inserted' = Inserted \cup {n}
           /\ \A s \in Inserted : info'[s] = info[s]
           /\ info'[n].retry = info[r].retry + 1
           /\ info'[n].trace = info[r].trace
<1>0. r \in Run
  BY DEF Inserted
<1>1. InsertRun(info[r].task, info[r].retry + 1, info[r].trace)
  BY DEF Finalize
<1>2. status' = [[status EXCEPT ![r] = "failed"] EXCEPT ![n] = "queued"]
  BY DEF Finalize
<1>3. /\ n \notin Inserted /\ n # r /\ stage'[n] = "none" /\ status'[n] = "queued"
      /\ Inserted' = Inserted \cup {n}
  BY <1>0, <1>1, <1>2 DEF InsertRun, Inserted, TypeOK
<1>4. info' = [info EXCEPT ![n] = [task |-> info[r].task, retry |-> info[r].retry + 1,
                                   trace |-> info[r].trace, born |-> gen]]
  BY <1>1 DEF InsertRun
<1>5. info \in [Run -> Info \cup {<<>>}] /\ Inserted \subseteq Run \ {n}
  BY <1>3 DEF TypeOK, Inserted
<1>6. QED
  BY <1>3, <1>4, <1>5

LEMMA FinalizeAttempt ==
    ASSUME TypeOK, AttemptInv, NEW r \in Inserted, NEW ok \in BOOLEAN,
           NEW st \in {"done", "failed", "zombie"}, ok <=> st = "done",
           stage[r] \in Live, Finalize(r, ok), stage' = [stage EXCEPT ![r] = st]
    PROVE  AttemptInv'
<1>1. /\ r \in Run /\ \A s \in Inserted : s # r => stage'[s] = stage[s]
      /\ stage'[r] = st
  BY DEF Inserted, TypeOK
<1>2. CASE ok \/ ~(info[r].retry < MaxRetries)
  <2>1. UNCHANGED info /\ Inserted' = Inserted
    BY <1>1, <1>2 DEF Finalize, Inserted, TypeOK
  <2>2. QED
    BY <1>1, <1>2, <2>1, SameRuns DEF Over, Live
<1>3. CASE ~ok /\ info[r].retry < MaxRetries
  <2>0. PICK n \in Run : n = nextRun
    BY <1>3 DEF Finalize, InsertRun
  <2>1. /\ n \notin Inserted /\ stage'[n] = "none"
        /\ Inserted' = Inserted \cup {n}
        /\ \A s \in Inserted : info'[s] = info[s]
        /\ info'[n].retry = info[r].retry + 1
        /\ info'[n].trace = info[r].trace
    BY <1>3, <2>0, RetryRow
  <2>2. info[r].retry \in Nat
    BY DEF TypeOK, Inserted, Info
  <2>3. \A s \in Inserted : info[s].trace = info[r].trace => info[s].retry <= info[r].retry
    BY OpenIsLast DEF Live, Over, IsLast, AttemptsOf
  <2>4. \A s \in Inserted : info[s].retry \in Nat
    BY DEF TypeOK, Inserted, Info
  <2>5. OneRunPerAttempt'
    <3>1. \A s \in Inserted : info[s].trace = info[r].trace
                                 => info[s].retry # info[r].retry + 1
      BY <2>2, <2>3, <2>4
    <3>2. info[r].retry + 1 <= MaxRetries
      BY <1>3, <2>2
    <3>3. \A s \in Inserted' : info'[s].retry <= MaxRetries
      BY <2>1, <3>2 DEF AttemptInv, OneRunPerAttempt
    <3>4. \A s, q \in Inserted : info'[s].trace = info'[q].trace
                                  /\ info'[s].retry = info'[q].retry => s = q
      BY <2>1 DEF AttemptInv, OneRunPerAttempt
    <3>5. \A s \in Inserted : ~(info'[s].trace = info'[n].trace
                                  /\ info'[s].retry = info'[n].retry)
      BY <2>1, <3>1
    <3>6. QED
      BY <2>1, <3>3, <3>4, <3>5 DEF OneRunPerAttempt
  <2>6. \A s \in Inserted' : info'[s].trace \in Inserted'
    BY <2>1 DEF AttemptInv
  <2>7. ASSUME NEW s \in Inserted', NEW m \in 0..MaxRetries, m < info'[s].retry
        PROVE  \E p \in Inserted' : /\ info'[p].trace = info'[s].trace
                                    /\ info'[p].retry = m /\ stage'[p] \in Over
    <3>1. stage'[r] \in Over
      BY <1>1, <1>3 DEF Over
    <3>2. PICK q \in Inserted : /\ info[q].trace = info'[s].trace
                                /\ m < info[q].retry \/ (q = r /\ m = info[r].retry)
      BY <2>1, <2>2, <2>7
    <3>3. CASE m < info[q].retry
      <4>1. PICK p \in AttemptsOf(info[q].trace) : info[p].retry = m /\ stage[p] \in Over
        BY <3>3 DEF AttemptInv
      <4>2. QED
        BY <1>1, <2>1, <3>1, <3>2, <4>1 DEF AttemptsOf
    <3>4. CASE q = r /\ m = info[r].retry
      BY <2>1, <3>1, <3>2, <3>4
    <3>5. QED
      BY <3>2, <3>3, <3>4
  <2>8. ASSUME NEW s \in Inserted'
        PROVE  \E p \in Inserted' : /\ info'[p].trace = info'[s].trace
                                    /\ \A q \in Inserted' : info'[q].trace = info'[s].trace
                                           => info'[q].retry <= info'[p].retry
    <3>1. CASE info'[s].trace = info[r].trace
      <4>1. \A q \in Inserted : info'[q].trace = info'[s].trace
                                   => info'[q].retry <= info'[n].retry
        BY <2>1, <2>2, <2>3, <2>4, <3>1
      <4>2. info'[n].retry <= info'[n].retry
        BY <2>1, <2>2
      <4>3. QED
        BY <2>1, <3>1, <4>1, <4>2
    <3>2. CASE info'[s].trace # info[r].trace
      <4>1. s \in Inserted
        BY <2>1, <3>2
      <4>2. PICK p \in Inserted : IsLast(p, info[s].trace)
        BY <4>1 DEF AttemptInv
      <4>3. QED
        BY <2>1, <3>2, <4>1, <4>2 DEF IsLast, AttemptsOf
    <3>3. QED
      BY <3>1, <3>2
  <2>9. NoLostRetry'
    <3>1. SUFFICES ASSUME NEW q \in Inserted', stage'[q] \in {"failed", "zombie"},
                          info'[q].retry < MaxRetries
                   PROVE  \E s \in Inserted' : /\ info'[s].trace = info'[q].trace
                                               /\ info'[s].retry = info'[q].retry + 1
      BY DEF NoLostRetry
    <3>2. CASE q = r
      BY <2>1, <3>2
    <3>3. CASE q # r
      <4>1. q \in Inserted /\ stage[q] \in {"failed", "zombie"}
        BY <1>1, <2>1, <3>1, <3>3
      <4>2. PICK s \in Inserted : /\ info[s].trace = info[q].trace
                                  /\ info[s].retry = info[q].retry + 1
        BY <2>1, <3>1, <4>1 DEF AttemptInv, NoLostRetry
      <4>3. QED
        BY <2>1, <4>1, <4>2
    <3>4. QED
      BY <3>2, <3>3
  <2>10. QED
    BY <2>5, <2>6, <2>7, <2>8, <2>9 DEF AttemptInv, IsLast, AttemptsOf
<1>4. QED
  BY <1>2, <1>3

LEMMA NextAttempt == TypeOK /\ OrphanInv /\ AttemptInv /\ [Next]_vars => AttemptInv'
<1> SUFFICES ASSUME TypeOK, OrphanInv, AttemptInv, [Next]_vars PROVE AttemptInv'
  OBVIOUS
<1>0. \A r \in Run : stage[r] # "none" => r \in Inserted
  BY DEF TypeOK, Inserted
<1>1. CASE \/ Start \/ RecoverRead \/ TickLoad \/ UNCHANGED vars
           \/ \E r \in Run : CancelRead(r) \/ WatchdogRead(r) \/ TickSkip(r)
           \/ \E t \in ApiTask : PauseTask(t) \/ ResumeTask(t) \/ UpdateTask(t)
  <2>1. UNCHANGED <<info, status, stage>>
    BY <1>1 DEF Start, RecoverRead, TickLoad, CancelRead, WatchdogRead, TickSkip,
                PauseTask, ResumeTask, UpdateTask, db, vars
  <2>2. QED
    BY <2>1, SameRuns DEF Inserted
<1>2. CASE RecoverCommit
  <2>1. UNCHANGED <<info, stage>> /\ Inserted' = Inserted
    BY <1>2 DEF RecoverCommit, Inserted, TypeOK
  <2>2. QED
    BY <2>1, SameRuns
<1>3. CASE Stop
  <2>1. UNCHANGED <<info, status>>
    BY <1>3 DEF Stop, db
  <2>2. \A r \in Run : \/ stage'[r] = stage[r] /\ stage[r] # "zombie"
                       \/ stage'[r] = "lost"
    BY <1>3 DEF Stop
  <2>3. QED
    BY <2>1, <2>2, SameRuns DEF Inserted, Over
<1>4. ASSUME NEW t \in Task, Trigger(t) \/ CronFire(t) PROVE AttemptInv'
  BY <1>4, RootAttempt DEF Trigger, CronFire
<1>5. ASSUME NEW r \in Run, TickDisabled(r) PROVE AttemptInv'
  <2>1. r \in Inserted /\ UNCHANGED <<info, stage>>
    BY <1>5 DEF TickDisabled, TypeOK
  <2>2. Inserted' = Inserted
    BY <1>5, <2>1 DEF TickDisabled, Inserted, TypeOK
  <2>3. QED
    BY <2>1, <2>2, SameRuns
<1>6. ASSUME NEW r \in Run, TickDispatch(r) PROVE AttemptInv'
  <2>1. r \in Inserted /\ UNCHANGED info /\ stage[r] = "none"
    BY <1>6 DEF TickDispatch, TypeOK, OrphanInv
  <2>2. Inserted' = Inserted
    BY <1>6, <2>1 DEF TickDispatch, Inserted, TypeOK
  <2>3. \A s \in Run : stage'[s] = IF s = r THEN "scheduled" ELSE stage[s]
    BY <1>6 DEF TickDispatch, TypeOK
  <2>4. QED
    BY <2>1, <2>2, <2>3, SameRuns DEF Inserted, Over
<1>7. ASSUME NEW r \in Run, Submit(r) \/ FnStart(r) \/ FnEnd(r) PROVE AttemptInv'
  <2>1. /\ \A s \in Run : s # r => stage'[s] = stage[s]
        /\ \/ stage[r] = "zombie" /\ stage'[r] = "failed"
           \/ stage[r] \in Live /\ stage'[r] \in Live
        /\ UNCHANGED <<info, status>>
    BY <1>7 DEF Submit, FnStart, FnEnd, Advance, Live, TypeOK, db
  <2>2. QED
    BY <2>1, SameRuns DEF Over, Inserted, Live
<1>8. ASSUME NEW r \in Run, Complete(r) \/ ExecTimeout(r) PROVE AttemptInv'
  <2>1. r \in Inserted /\ stage[r] \in Live
    BY <1>8, <1>0 DEF Complete, ExecTimeout, Live
  <2>2. PICK ok \in BOOLEAN, st \in {"done", "failed", "zombie"} :
          /\ Finalize(r, ok) /\ stage' = [stage EXCEPT ![r] = st]
          /\ ok <=> st = "done"
    BY <1>8 DEF Complete, ExecTimeout
  <2>3. QED
    BY <2>1, <2>2, FinalizeAttempt
<1>9. CASE CancelCommit \/ WatchdogCommit
  <2>1. Inserted' = Inserted /\ UNCHANGED <<info, stage>>
    BY <1>9 DEF CancelCommit, WatchdogCommit, Commit, Inserted, TypeOK
  <2>2. QED
    BY <2>1, SameRuns
<1>10. QED
  BY <1>1, <1>2, <1>3, <1>4, <1>5, <1>6, <1>7, <1>8, <1>9 DEF Next, TickRun

LEMMA AttemptInvariant == Spec => []AttemptInv
<1>1. Init => AttemptInv
  BY DEF Init, AttemptInv, OneRunPerAttempt, NoLostRetry, Inserted
<1>2. QED
  BY <1>1, NextAttempt, TypeCorrect, OrphanInvariant, PTL DEF Spec

\* Every attempt of a request exists at most once, and there are at most
\* MaxRetries + 1 of them.
THEOREM AttemptsUnique == Spec => []OneRunPerAttempt
<1>1. AttemptInv => OneRunPerAttempt
  BY DEF AttemptInv
<1>2. QED
  BY <1>1, AttemptInvariant, PTL

\* A failure seen by its coroutine is followed by the next attempt.
THEOREM RetriesKept == Spec => []NoLostRetry
<1>1. AttemptInv => NoLostRetry
  BY DEF AttemptInv
<1>2. QED
  BY <1>1, AttemptInvariant, PTL
-----------------------------------------------------------------------------
(* Terminal states.                                                          *)

\* A run in a terminal state keeps it unless a coroutine, a tick, the recovery
\* or a transaction had it in the works when it got there.
THEOREM SettledStays == Spec => SettledIsFinal
<1> DEFINE Settled == \A r \in Inserted :
                         Quiet(r) /\ status[r] \notin {"queued", "running"}
                             => status'[r] = status[r]
<1>1. TypeOK /\ [Next]_vars => [Settled]_vars
  <2> SUFFICES ASSUME TypeOK, Next, NEW r \in Inserted, Quiet(r)
               PROVE  status'[r] = status[r]
    BY DEF vars
  <2>1. /\ r \in Run /\ r # nextRun
        /\ stage[r] \notin Live /\ r \notin batch /\ r \notin recRuns
        /\ \A x \in txs : x.run # r
    BY DEF Quiet, Inserted, TypeOK, Run
  <2>2. CASE RecoverCommit
    BY <2>1, <2>2 DEF RecoverCommit
  <2>3. ASSUME NEW t \in Task, InsertRoot(t) PROVE status'[r] = status[r]
    BY <2>1, <2>3 DEF InsertRoot, TypeOK
  <2>4. ASSUME NEW s \in batch, NEW st, status' = [status EXCEPT ![s] = st]
        PROVE  status'[r] = status[r]
    BY <2>1, <2>4 DEF TypeOK
  <2>5. ASSUME NEW s \in Run, Complete(s) \/ ExecTimeout(s)
        PROVE  status'[r] = status[r]
    <3>1. s # r
      BY <2>1, <2>5 DEF Complete, ExecTimeout, Live
    <3>2. PICK ok \in BOOLEAN : Finalize(s, ok)
      BY <2>5 DEF Complete, ExecTimeout
    <3>3. QED
      BY <2>1, <3>1, <3>2 DEF Finalize, TypeOK
  <2>6. ASSUME NEW k, NEW st, Commit(k, st) PROVE status'[r] = status[r]
    <3>1. PICK x \in txs : status' = [status EXCEPT ![x.run] = st]
      BY <2>6 DEF Commit
    <3>2. QED
      BY <2>1, <3>1 DEF TypeOK
  <2>7. CASE UNCHANGED status
    BY <2>7
  <2>8. QED
    BY <2>2, <2>3, <2>4, <2>5, <2>6, <2>7 DEF Next, Start, RecoverRead, Stop, PauseTask,
       ResumeTask, UpdateTask, Trigger, CronFire, TickLoad, TickRun, TickDisabled,
       TickSkip, TickDispatch, Submit, FnStart, FnEnd, Advance, CancelRead,
       WatchdogRead, CancelCommit, WatchdogCommit, db
<1>2. QED
  BY <1>1, TypeCorrect, PTL DEF Spec, SettledIsFinal
-----------------------------------------------------------------------------
(* The status of a task: the invariant behind TaskStatusSettles.  A busy task *)
(* has a run that answers for it: one with a coroutine, which will finalize   *)
(* it, or a queued one, which whoever takes it from the queue will write the  *)
(* task with.  The ORM leaves out a value that has not changed, so a cancel   *)
(* that found the task cancelled will not write it; the run it is about does  *)
(* not answer for the task, and whoever makes the task busy again has another.*)

Busy(t) == taskStatus[t] \in {"queued", "running"}

Answers(r) ==
    \/ stage[r] \in Live \cup {"lost"}
    \/ /\ status[r] = "queued"
       /\ r \in recRuns => info[r].task \in recTasks
       /\ \A x \in txs : x.run = r => x.task

StatusInv == \A t \in Task : Busy(t) => \E r \in RunsOf(t) : Answers(r)

\* A run that goes on answering for its task.
LEMMA StillAnswers ==
    ASSUME StatusInv,
           NEW t \in Task, Busy(t),
           \A r \in RunsOf(t) : Answers(r) =>
               /\ info'[r] = info[r] /\ status'[r] # "absent" /\ Answers(r)'
    PROVE  \E r \in RunsOf(t)' : Answers(r)'
<1>1. PICK r \in RunsOf(t) : Answers(r)
  BY DEF StatusInv
<1>2. r \in RunsOf(t)'
  BY <1>1 DEF RunsOf, Inserted
<1>3. QED
  BY <1>1, <1>2

\* A step that leaves rows, recovery and stages alone.
LEMMA RowsStay ==
    ASSUME StatusInv, UNCHANGED <<info, status, recRuns, recTasks>>,
           \A t \in Task : Busy(t)' => Busy(t),
           \A r \in Run : stage[r] \in Live \cup {"lost"} => stage'[r] \in Live \cup {"lost"},
           \A r \in Run, x \in txs' : x.run = r /\ x \notin txs /\ status[r] = "queued"
                                          /\ Busy(info[r].task) => x.task
    PROVE  StatusInv'
<1> SUFFICES ASSUME NEW t \in Task, Busy(t)' PROVE \E r \in RunsOf(t)' : Answers(r)'
  BY DEF StatusInv
<1>1. Busy(t)
  OBVIOUS
<1>2. ASSUME NEW r \in RunsOf(t), Answers(r)
      PROVE  info'[r] = info[r] /\ status'[r] # "absent" /\ Answers(r)'
  <2>1. r \in Run /\ info[r].task = t /\ status[r] # "absent"
    BY DEF RunsOf, Inserted
  <2>2. CASE stage[r] \in Live \cup {"lost"}
    BY <2>1, <2>2 DEF Answers
  <2>3. CASE status[r] = "queued" /\ (r \in recRuns => info[r].task \in recTasks)
             /\ \A x \in txs : x.run = r => x.task
    <3>1. \A x \in txs' : x.run = r => x.task
      BY <1>1, <2>1, <2>3
    <3>2. QED
      BY <2>1, <2>3, <3>1 DEF Answers
  <2>4. QED
    BY <1>2, <2>2, <2>3 DEF Answers
<1>3. QED
  BY <1>1, <1>2, StillAnswers

\* A new run in the queue answers for its task.
LEMMA InsertRootStatus ==
    ASSUME TypeOK, StatusInv, NEW t \in Task, InsertRoot(t),
           UNCHANGED <<enabled, startup, stage, batch, memory, txs>>
    PROVE  StatusInv'
<1>0. nextRun \in Nat /\ nextRun \in Run /\ InsertRun(t, 0, nextRun)
  BY DEF TypeOK, InsertRoot, InsertRun, Run
<1>1. /\ \A r \in Run : r # nextRun => info'[r] = info[r]
      /\ info'[nextRun] = [task |-> t, retry |-> 0, trace |-> nextRun, born |-> gen]
  BY <1>0, InsertRunType
<1>2. /\ status' = [status EXCEPT ![nextRun] = "queued"]
      /\ taskStatus' = [taskStatus EXCEPT ![t] = "queued"]
      /\ UNCHANGED <<recRuns, recTasks, stage, txs>>
  BY DEF InsertRoot, startup
<1>3. nextRun \notin Inserted
  BY <1>0 DEF TypeOK, Inserted
<1>4. SUFFICES ASSUME NEW u \in Task, Busy(u)' PROVE \E r \in RunsOf(u)' : Answers(r)'
  BY DEF StatusInv
<1>5. CASE u = t
  <2>0. PICK n \in Run : n = nextRun
    BY <1>0
  <2>1. n \in RunsOf(t)'
    BY <1>0, <1>1, <1>2, <2>0 DEF RunsOf, Inserted, TypeOK
  <2>2. n \notin recRuns /\ (\A x \in txs : x.run # n) /\ status'[n] = "queued"
    BY <1>2, <1>3, <2>0 DEF TypeOK
  <2>3. Answers(n)'
    BY <1>2, <2>2 DEF Answers
  <2>4. QED
    BY <1>5, <2>1, <2>3
<1>6. CASE u # t
  <2>1. Busy(u)
    BY <1>2, <1>4, <1>6 DEF Busy, TypeOK
  <2>2. ASSUME NEW r \in RunsOf(u)
        PROVE  info'[r] = info[r] /\ status'[r] = status[r] /\ status[r] # "absent"
    BY <1>1, <1>2, <1>3 DEF RunsOf, Inserted, TypeOK
  <2>3. QED
    BY <1>2, <2>1, <2>2, StillAnswers DEF Answers
<1>7. QED
  BY <1>5, <1>6

\* What a transaction or a coroutine ends leaves the other tasks alone.
LEMMA OthersAnswer ==
    ASSUME TypeOK, StatusInv, NEW r \in Inserted, NEW t \in Task, t # info[r].task,
           Busy(t)' => Busy(t), Busy(t)',
           \A s \in Inserted \ {r} :
               info'[s] = info[s] /\ status'[s] = status[s] /\ stage'[s] = stage[s],
           UNCHANGED <<recRuns, recTasks>>, txs' \subseteq txs
    PROVE  \E s \in RunsOf(t)' : Answers(s)'
<1>1. ASSUME NEW s \in RunsOf(t), Answers(s)
      PROVE  info'[s] = info[s] /\ status'[s] # "absent" /\ Answers(s)'
  <2>1. s \in Inserted \ {r} /\ status[s] # "absent"
    BY DEF RunsOf, Inserted
  <2>2. QED
    BY <1>1, <2>1 DEF Answers
<1>2. QED
  BY <1>1, StillAnswers

LEMMA FinalizeStatus ==
    ASSUME TypeOK, StatusInv, NEW r \in Inserted, NEW ok \in BOOLEAN, NEW st \in Stage,
           Finalize(r, ok), stage' = [stage EXCEPT ![r] = st]
    PROVE  StatusInv'
<1>1. r \in Run /\ info[r].task \in Task
  BY DEF TypeOK, Inserted, Info
<1>2. /\ taskStatus' = [taskStatus EXCEPT ![info[r].task] = IF ok THEN "active" ELSE "failed"]
      /\ UNCHANGED <<recRuns, recTasks, txs>>
  BY DEF Finalize, startup
<1>3. \A s \in Inserted \ {r} : info'[s] = info[s] /\ status'[s] = status[s] /\ stage'[s] = stage[s]
  <2>1. nextRun \notin Inserted
    BY DEF TypeOK, Inserted
  <2>2. \A s \in Inserted \ {r} : stage'[s] = stage[s]
    BY DEF TypeOK, Inserted
  <2>3. QED
    BY <2>1, <2>2 DEF Finalize, InsertRun, TypeOK, Inserted
<1>4. SUFFICES ASSUME NEW u \in Task, Busy(u)' PROVE \E s \in RunsOf(u)' : Answers(s)'
  BY DEF StatusInv
<1>5. u # info[r].task /\ Busy(u)
  BY <1>1, <1>2, <1>4 DEF Busy, TypeOK
<1>6. QED
  BY <1>2, <1>3, <1>4, <1>5, OthersAnswer

\* A commit that does not write the task was about a run that did not answer for it.
LEMMA CommitStatus ==
    ASSUME TypeOK, StatusInv, NEW k, NEW st \in {"cancelled", "failed"}, Commit(k, st)
    PROVE  StatusInv'
<1>1. PICK x \in txs :
        /\ txs' = txs \ {x}
        /\ status' = [status EXCEPT ![x.run] = st]
        /\ taskStatus' = IF x.task THEN [taskStatus EXCEPT ![info[x.run].task] = st]
                                   ELSE taskStatus
        /\ UNCHANGED <<nextRun, info, enabled, startup, stage, batch, memory>>
  BY DEF Commit
<1>2. x.run \in Inserted /\ x.run \in Run /\ info[x.run].task \in Task /\ x.task \in BOOLEAN
  BY DEF TypeOK, Tx, Inserted, Info
<1>3. UNCHANGED <<info, stage, recRuns, recTasks>> /\ txs' \subseteq txs
  BY <1>1 DEF startup
<1>4. \A s \in Inserted \ {x.run} : status'[s] = status[s]
  BY <1>1, <1>2 DEF TypeOK, Inserted
<1>5. SUFFICES ASSUME NEW u \in Task, Busy(u)' PROVE \E s \in RunsOf(u)' : Answers(s)'
  BY DEF StatusInv
<1>6. CASE x.task
  <2>1. u # info[x.run].task /\ Busy(u)
    BY <1>1, <1>2, <1>5, <1>6 DEF Busy, TypeOK
  <2>2. QED
    BY <1>2, <1>3, <1>4, <1>5, <2>1, OthersAnswer
<1>7. CASE ~x.task
  <2>1. Busy(u)
    BY <1>1, <1>5, <1>7 DEF Busy
  <2>2. ASSUME NEW s \in RunsOf(u), Answers(s)
        PROVE  info'[s] = info[s] /\ status'[s] # "absent" /\ Answers(s)'
    <3>1. s \in Inserted /\ s \in Run /\ status[s] # "absent"
      BY DEF RunsOf, Inserted
    <3>2. status'[s] # "absent"
      BY <1>1, <1>2, <3>1 DEF TypeOK
    <3>3. CASE stage[s] \in Live \cup {"lost"}
      BY <1>3, <3>2, <3>3 DEF Answers
    <3>4. CASE stage[s] \notin Live \cup {"lost"}
      <4>1. s # x.run
        BY <1>7, <2>2, <3>4 DEF Answers
      <4>2. QED
        BY <1>3, <1>4, <2>2, <3>1, <3>2, <4>1 DEF Answers
    <3>5. QED
      BY <3>3, <3>4
  <2>3. QED
    BY <2>1, <2>2, StillAnswers
<1>8. QED
  BY <1>2, <1>6, <1>7

LEMMA NextStatus == TypeOK /\ StatusInv /\ [Next]_vars => StatusInv'
<1> SUFFICES ASSUME TypeOK, StatusInv, [Next]_vars PROVE StatusInv'
  OBVIOUS
<1>0. \A r \in Run : stage[r] # "none" => r \in Inserted
  BY DEF TypeOK, Inserted
<1>1. CASE Start
  BY <1>1, RowsStay DEF Start, db, Busy
<1>2. CASE RecoverRead
  <2>1. ASSUME NEW t \in Task, Busy(t)' PROVE \E r \in RunsOf(t)' : Answers(r)'
    <3>1. Busy(t) /\ UNCHANGED <<info, status, stage, txs, taskStatus>>
      BY <1>2, <2>1 DEF RecoverRead, db, Busy
    <3>2. ASSUME NEW r \in RunsOf(t), Answers(r)
          PROVE  info'[r] = info[r] /\ status'[r] # "absent" /\ Answers(r)'
      <4>1. info[r].task = t /\ status[r] # "absent"
        BY DEF RunsOf, Inserted
      <4>2. status[r] = "queued" => t \in recTasks'
        <5>1. SUFFICES ASSUME status[r] = "queued" PROVE t \in recTasks'
          OBVIOUS
        <5>2. r \in Outstanding(t)
          BY <5>1 DEF Outstanding
        <5>3. taskStatus[t] # "failed"
          BY <3>1 DEF Busy
        <5>4. QED
          BY <1>2, <5>2, <5>3 DEF RecoverRead
      <4>3. QED
        BY <3>1, <3>2, <4>1, <4>2 DEF Answers
    <3>3. QED
      BY <3>1, <3>2, StillAnswers
  <2>2. QED
    BY <2>1 DEF StatusInv
<1>3. CASE RecoverCommit
  <2>1. ASSUME NEW t \in Task, Busy(t)' PROVE \E r \in RunsOf(t)' : Answers(r)'
    <3>1. /\ t \notin recTasks /\ Busy(t) /\ UNCHANGED <<info, stage, txs>> /\ recRuns' = {}
          /\ status' = [r \in Run |-> IF r \in recRuns THEN "failed" ELSE status[r]]
      BY <1>3, <2>1 DEF RecoverCommit, Busy
    <3>2. ASSUME NEW r \in RunsOf(t), Answers(r)
          PROVE  info'[r] = info[r] /\ status'[r] # "absent" /\ Answers(r)'
      <4>1. info[r].task = t /\ status[r] # "absent" /\ r \in Run
        BY DEF RunsOf, Inserted
      <4>2. status'[r] = IF r \in recRuns THEN "failed" ELSE status[r]
        BY <3>1, <4>1
      <4>3. QED
        BY <3>1, <3>2, <4>1, <4>2 DEF Answers
    <3>3. QED
      BY <3>1, <3>2, StillAnswers
  <2>2. QED
    BY <2>1 DEF StatusInv
<1>4. CASE Stop
  <2>1. ASSUME NEW t \in Task, Busy(t)' PROVE \E r \in RunsOf(t)' : Answers(r)'
    <3>1. /\ Busy(t) /\ UNCHANGED <<info, status>> /\ recRuns' = {} /\ txs' = {}
          /\ stage' = [r \in Run |->
                          IF stage[r] \in Live \cup {"zombie"} THEN "lost" ELSE stage[r]]
      BY <1>4, <2>1 DEF Stop, db, Busy
    <3>2. ASSUME NEW r \in RunsOf(t), Answers(r)
          PROVE  info'[r] = info[r] /\ status'[r] # "absent" /\ Answers(r)'
      <4>1. status[r] # "absent" /\ r \in Run
        BY DEF RunsOf, Inserted
      <4>2. stage[r] \in Live \cup {"lost"} => stage'[r] = "lost"
        BY <3>1, <4>1
      <4>3. QED
        BY <3>1, <3>2, <4>1, <4>2 DEF Answers
    <3>3. QED
      BY <3>1, <3>2, StillAnswers
  <2>2. QED
    BY <2>1 DEF StatusInv
<1>5. ASSUME NEW t \in Task, Trigger(t) \/ CronFire(t) PROVE StatusInv'
  BY <1>5, InsertRootStatus DEF Trigger, CronFire
<1>6. ASSUME NEW t \in ApiTask, PauseTask(t) \/ ResumeTask(t) \/ UpdateTask(t)
      PROVE StatusInv'
  <2>1. UNCHANGED <<info, status, recRuns, recTasks, stage, txs>>
    BY <1>6 DEF PauseTask, ResumeTask, UpdateTask, startup
  <2>2. \A u \in Task : Busy(u)' => Busy(u)
    BY <1>6 DEF PauseTask, ResumeTask, UpdateTask, Busy, TypeOK
  <2>3. QED
    BY <2>1, <2>2, RowsStay
<1>7. CASE TickLoad
  BY <1>7, RowsStay DEF TickLoad, db, startup, Busy
<1>8. ASSUME NEW r \in Run, TickRun(r) PROVE StatusInv'
  <2>0. r \in Inserted /\ info[r].task \in Task /\ status[r] # "absent"
    BY <1>8 DEF TickRun, TickDisabled, TickSkip, TickDispatch, TypeOK, Inserted, Info
  <2>1. CASE TickDisabled(r)
    <3>1. /\ UNCHANGED <<info, recRuns, recTasks, stage, txs>>
          /\ status' = [status EXCEPT ![r] = "cancelled"]
          /\ taskStatus' = [taskStatus EXCEPT ![info[r].task] = "cancelled"]
      BY <2>1 DEF TickDisabled, startup
    <3>2. \A s \in Inserted \ {r} : status'[s] = status[s]
      BY <3>1 DEF TypeOK, Inserted
    <3>3. ASSUME NEW u \in Task, Busy(u)' PROVE \E s \in RunsOf(u)' : Answers(s)'
      <4>1. u # info[r].task /\ Busy(u)
        BY <2>0, <3>1, <3>3 DEF Busy, TypeOK
      <4>2. QED
        BY <2>0, <3>1, <3>2, <3>3, <4>1, OthersAnswer
    <3>4. QED
      BY <3>3 DEF StatusInv
  <2>2. CASE TickSkip(r)
    BY <2>2, RowsStay DEF TickSkip, db, startup, Busy
  <2>3. CASE TickDispatch(r)
    <3>1. /\ UNCHANGED <<info, recRuns, recTasks, txs>>
          /\ status' = [status EXCEPT ![r] = "running"]
          /\ taskStatus' = [taskStatus EXCEPT ![info[r].task] = "running"]
          /\ stage' = [stage EXCEPT ![r] = "scheduled"]
      BY <2>3 DEF TickDispatch, startup
    <3>2. \A s \in Inserted \ {r} : status'[s] = status[s] /\ stage'[s] = stage[s]
      BY <3>1 DEF TypeOK, Inserted
    <3>3. ASSUME NEW u \in Task, Busy(u)' PROVE \E s \in RunsOf(u)' : Answers(s)'
      <4>1. CASE u = info[r].task
        <5>1. r \in RunsOf(u)' /\ stage'[r] = "scheduled"
          BY <2>0, <3>1, <4>1 DEF RunsOf, Inserted, TypeOK
        <5>2. QED
          BY <5>1 DEF Answers, Live
      <4>2. CASE u # info[r].task
        <5>1. Busy(u)
          BY <2>0, <3>1, <3>3, <4>2 DEF Busy, TypeOK
        <5>2. QED
          BY <2>0, <3>1, <3>2, <3>3, <4>2, <5>1, OthersAnswer
      <4>3. QED
        BY <4>1, <4>2
    <3>4. QED
      BY <3>3 DEF StatusInv
  <2>4. QED
    BY <1>8, <2>1, <2>2, <2>3 DEF TickRun
<1>9. ASSUME NEW r \in Run, Submit(r) \/ FnStart(r) \/ FnEnd(r) PROVE StatusInv'
  <2>1. /\ \A s \in Run : stage[s] \in Live \cup {"lost"} => stage'[s] \in Live \cup {"lost"}
        /\ UNCHANGED <<db, startup, txs>>
    BY <1>9 DEF Submit, FnStart, FnEnd, Advance, Live, TypeOK
  <2>2. QED
    BY <2>1, RowsStay DEF db, startup, Busy
<1>10. ASSUME NEW r \in Run, Complete(r) \/ ExecTimeout(r) PROVE StatusInv'
  <2>1. r \in Inserted
    BY <1>10, <1>0 DEF Complete, ExecTimeout, Live
  <2>2. PICK ok \in BOOLEAN, st \in Stage :
          Finalize(r, ok) /\ stage' = [stage EXCEPT ![r] = st]
    BY <1>10 DEF Complete, ExecTimeout, Stage
  <2>3. QED
    BY <2>1, <2>2, FinalizeStatus
<1>11. ASSUME NEW r \in Run, CancelRead(r) PROVE StatusInv'
  <2>1. \A x \in txs' : x \notin txs =>
          x.run = r /\ (taskStatus[info[r].task] # "cancelled" => x.task)
    <3>1. PICK b \in BOOLEAN : b = (taskStatus[info[r].task] # "cancelled")
      OBVIOUS
    <3>2. txs' = txs \cup {[kind |-> "cancel", run |-> r, task |-> b]}
      BY <1>11, <3>1 DEF CancelRead
    <3>3. ASSUME NEW x \in txs', x \notin txs PROVE x.run = r /\ x.task = b
      BY <3>2, <3>3
    <3>4. QED
      BY <3>1, <3>3
  <2>2. UNCHANGED <<info, status, recRuns, recTasks, stage, taskStatus>>
    BY <1>11 DEF CancelRead, db, startup
  <2>3. QED
    BY <2>1, <2>2, RowsStay DEF Busy
<1>12. ASSUME NEW r \in Run, WatchdogRead(r) PROVE StatusInv'
  <2>1. \A x \in txs' : x \notin txs => x.run = r /\ status[r] = "running"
    BY <1>12 DEF WatchdogRead
  <2>2. UNCHANGED <<info, status, recRuns, recTasks, stage, taskStatus>>
    BY <1>12 DEF WatchdogRead, db, startup
  <2>3. QED
    BY <2>1, <2>2, RowsStay DEF Busy
<1>13. CASE CancelCommit \/ WatchdogCommit
  BY <1>13, CommitStatus DEF CancelCommit, WatchdogCommit
<1>14. CASE UNCHANGED vars
  BY <1>14, RowsStay DEF vars, db, startup, Busy
<1>15. QED
  BY <1>1, <1>2, <1>3, <1>4, <1>5, <1>6, <1>7, <1>8, <1>9, <1>10, <1>11, <1>12,
     <1>13, <1>14 DEF Next

\* The status of a task does not stay busy when the task has no run left that
\* is queued, in execution, in a transaction or lost in a restart.
THEOREM TaskStatusFollows == Spec => []TaskStatusSettles
<1>1. Init => StatusInv
  BY DEF Init, StatusInv, Busy
<1>2. StatusInv => TaskStatusSettles
  BY DEF StatusInv, Busy, Answers, TaskStatusSettles, Quiet
<1>3. QED
  BY <1>1, <1>2, NextStatus, TypeCorrect, PTL DEF Spec

-----------------------------------------------------------------------------
(***************************************************************************)
(* The refinement: TaskEngine implements RetryChain, for every value of    *)
(* the constants.                                                          *)
(***************************************************************************)

\* The current attempt of a chain is its last one.
LEMMA CurrentIsLast ==
    TypeOK /\ AttemptInv =>
        \A k \in Run : \A r \in Run : IsLast(r, k) => CurrentOf(k) = r
<1> SUFFICES ASSUME TypeOK, AttemptInv, NEW k \in Run, NEW r \in Run, IsLast(r, k)
             PROVE  CurrentOf(k) = r
  OBVIOUS
<1> DEFINE c == CurrentOf(k)
<1>1. c \in AttemptsOf(k) /\ \A s \in AttemptsOf(k) : info[s].retry <= info[c].retry
  BY DEF CurrentOf, IsLast
<1>2. r \in AttemptsOf(k) /\ \A s \in AttemptsOf(k) : info[s].retry <= info[r].retry
  BY DEF IsLast
<1>3. info[c].retry \in Nat /\ info[r].retry \in Nat
  BY <1>1, <1>2 DEF AttemptsOf, TypeOK, Inserted, Info
<1>4. info[c].retry = info[r].retry
  BY <1>1, <1>2, <1>3
<1>5. QED
  BY <1>1, <1>2, <1>4 DEF AttemptInv, OneRunPerAttempt, AttemptsOf

\* The same after a step.
LEMMA CurrentIsLastNext ==
    (TypeOK /\ AttemptInv =>
        \A k \in Run : \A r \in Run : IsLast(r, k) => CurrentOf(k) = r)'
<1>1. TypeOK /\ AttemptInv =>
        \A k \in Run : \A r \in Run : IsLast(r, k) => CurrentOf(k) = r
  BY CurrentIsLast
<1>2. QED
  BY <1>1, PTL

\* Every chain with attempts has a current one.
LEMMA HasCurrent ==
    TypeOK /\ AttemptInv =>
        \A k \in Run : AttemptsOf(k) # {} =>
            CurrentOf(k) \in Inserted /\ IsLast(CurrentOf(k), k)
<1> SUFFICES ASSUME TypeOK, AttemptInv, NEW k \in Run, AttemptsOf(k) # {}
             PROVE  CurrentOf(k) \in Inserted /\ IsLast(CurrentOf(k), k)
  OBVIOUS
<1>1. PICK s \in Inserted : info[s].trace = k
  BY DEF AttemptsOf
<1>2. PICK r \in Inserted : IsLast(r, k)
  BY <1>1 DEF AttemptInv
<1>3. CurrentOf(k) = r
  BY <1>2, CurrentIsLast DEF Inserted
<1>4. QED
  BY <1>2, <1>3

\* An attempt that waits or is active is the current one of its chain.
LEMMA OpenIsCurrent ==
    TypeOK /\ AttemptInv =>
        \A r \in Inserted : stage[r] \notin Over =>
            /\ info[r].trace \in Run /\ AttemptsOf(info[r].trace) # {}
            /\ CurrentOf(info[r].trace) = r
<1> SUFFICES ASSUME TypeOK, AttemptInv, NEW r \in Inserted, stage[r] \notin Over
             PROVE  /\ info[r].trace \in Run /\ AttemptsOf(info[r].trace) # {}
                    /\ CurrentOf(info[r].trace) = r
  OBVIOUS
<1>1. info[r].trace \in Run /\ r \in Run
  BY DEF TypeOK, Inserted, Info
<1>2. IsLast(r, info[r].trace)
  BY OpenIsLast
<1>3. QED
  BY <1>1, <1>2, CurrentIsLast DEF IsLast

\* A step that inserts no run keeps the current attempt of every chain.
LEMMA SameCurrent ==
    ASSUME TypeOK, AttemptInv, TypeOK', AttemptInv',
           UNCHANGED info, Inserted' = Inserted
    PROVE  \A k \in Run : /\ AttemptsOf(k)' = AttemptsOf(k)
                          /\ AttemptsOf(k) # {} => CurrentOf(k)' = CurrentOf(k)
<1> SUFFICES ASSUME NEW k \in Run
             PROVE  /\ AttemptsOf(k)' = AttemptsOf(k)
                    /\ AttemptsOf(k) # {} => CurrentOf(k)' = CurrentOf(k)
  OBVIOUS
<1>1. AttemptsOf(k)' = AttemptsOf(k)
  BY DEF AttemptsOf
<1>2. ASSUME AttemptsOf(k) # {} PROVE CurrentOf(k)' = CurrentOf(k)
  <2>1. PICK r \in Inserted : r = CurrentOf(k) /\ IsLast(r, k)
    BY <1>2, HasCurrent
  <2>2. IsLast(r, k)'
    BY <2>1, <1>1 DEF IsLast
  <2>3. (\A j \in Run : \A s \in Run : IsLast(s, j) => CurrentOf(j) = s)'
    BY CurrentIsLastNext
  <2>4. QED
    BY <2>1, <2>2, <2>3 DEF Inserted
<1>3. QED
  BY <1>1, <1>2

\* The current attempt that the mapping shows for an open run is that run.
LEMMA OpenIsCurrentNext ==
    (TypeOK /\ AttemptInv =>
        \A r \in Inserted : stage[r] \notin Over =>
            /\ info[r].trace \in Run /\ AttemptsOf(info[r].trace) # {}
            /\ CurrentOf(info[r].trace) = r)'
<1>1. TypeOK /\ AttemptInv =>
        \A r \in Inserted : stage[r] \notin Over =>
            /\ info[r].trace \in Run /\ AttemptsOf(info[r].trace) # {}
            /\ CurrentOf(info[r].trace) = r
  BY OpenIsCurrent
<1>2. QED
  BY <1>1, PTL

\* A step that inserts no run and ends some attempts abandons their chains.
LEMMA EndingStep ==
    ASSUME TypeOK, AttemptInv, TypeOK', AttemptInv',
           UNCHANGED info, Inserted' = Inserted,
           \A r \in Inserted : \/ PhaseOf(r)' = PhaseOf(r)
                               \/ PhaseOf(r) # "over" /\ PhaseOf(r)' = "over"
    PROVE  Promise!Abandon
<1>1. ASSUME NEW k \in Run
      PROVE  /\ chainAttempt'[k] = chainAttempt[k]
             /\ chainPhase'[k] \in Promise!Phase
             /\ \/ chainPhase'[k] = chainPhase[k]
                \/ chainPhase[k] \in {"waiting", "active"} /\ chainPhase'[k] = "over"
  <2>1. CASE AttemptsOf(k) = {}
    <3>1. AttemptsOf(k)' = {}
      BY <2>1, SameCurrent
    <3>2. QED
      BY <2>1, <3>1 DEF chainAttempt, chainPhase, Promise!Phase
  <2>2. CASE AttemptsOf(k) # {}
    <3>1. PICK r \in Inserted : r = CurrentOf(k)
      BY <2>2, HasCurrent
    <3>2. AttemptsOf(k)' # {} /\ CurrentOf(k)' = r
      BY <2>2, <3>1, SameCurrent
    <3>3. chainAttempt'[k] = chainAttempt[k]
      BY <2>2, <3>1, <3>2 DEF chainAttempt
    <3>4. chainPhase[k] = PhaseOf(r)
      BY <2>2, <3>1 DEF chainPhase
    <3>5. chainPhase'[k] = PhaseOf(r)'
      BY <3>2 DEF chainPhase
    <3>6. /\ PhaseOf(r) \in {"waiting", "active", "over"}
          /\ PhaseOf(r)' \in {"waiting", "active", "over"}
      BY DEF PhaseOf
    <3>7. QED
      BY <3>3, <3>4, <3>5, <3>6 DEF Promise!Phase
  <2>3. QED
    BY <2>1, <2>2
<1>2. chainAttempt' = chainAttempt
  BY <1>1 DEF chainAttempt
<1>3. chainPhase' \in [Run -> Promise!Phase]
  BY <1>1 DEF chainPhase
<1>4. QED
  BY <1>1, <1>2, <1>3 DEF Promise!Abandon

\* A step that inserts attempt n of chain k, the attempts of the other chains
\* left as they are, makes k wait for n.
LEMMA InsertingStep ==
    ASSUME TypeOK, AttemptInv, TypeOK', AttemptInv',
           NEW n \in Run, NEW k \in Run, n \notin Inserted,
           Inserted' = Inserted \cup {n}, \A s \in Inserted : info'[s] = info[s],
           info'[n].trace = k, stage'[n] = "none", status'[n] = "queued",
           \A s \in Inserted : info[s].trace # k => PhaseOf(s)' = PhaseOf(s)
    PROVE  /\ chainPhase' = [chainPhase EXCEPT ![k] = "waiting"]
           /\ chainAttempt' = [chainAttempt EXCEPT ![k] = info'[n].retry]
<1>1. AttemptsOf(k)' # {} /\ CurrentOf(k)' = n
  BY OpenIsCurrentNext DEF Over
<1>2. PhaseOf(n)' = "waiting"
  BY DEF PhaseOf, Live
<1>3. chainPhase'[k] = "waiting" /\ chainAttempt'[k] = info'[n].retry
  BY <1>1, <1>2 DEF chainPhase, chainAttempt
<1>4. ASSUME NEW j \in Run \ {k}
      PROVE  chainPhase'[j] = chainPhase[j] /\ chainAttempt'[j] = chainAttempt[j]
  <2>1. AttemptsOf(j)' = AttemptsOf(j)
    BY <1>4 DEF AttemptsOf
  <2>2. CASE AttemptsOf(j) = {}
    BY <2>1, <2>2 DEF chainAttempt, chainPhase
  <2>3. CASE AttemptsOf(j) # {}
    <3>1. PICK r \in Inserted : r = CurrentOf(j) /\ IsLast(r, j)
      BY <2>3, HasCurrent
    <3>2. IsLast(r, j)'
      BY <2>1, <3>1 DEF IsLast, AttemptsOf
    <3>3. CurrentOf(j)' = r
      BY <3>1, <3>2, CurrentIsLastNext DEF Inserted
    <3>4. info'[r] = info[r] /\ PhaseOf(r)' = PhaseOf(r)
      BY <1>4, <3>1 DEF IsLast, AttemptsOf
    <3>5. QED
      BY <2>1, <2>3, <3>1, <3>3, <3>4 DEF chainAttempt, chainPhase
  <2>4. QED
    BY <2>2, <2>3
<1>5. /\ chainPhase = [j \in Run |-> chainPhase[j]]
      /\ chainPhase' = [j \in Run |-> chainPhase'[j]]
      /\ chainAttempt = [j \in Run |-> chainAttempt[j]]
      /\ chainAttempt' = [j \in Run |-> chainAttempt'[j]]
  BY DEF chainPhase, chainAttempt
<1>6. QED
  BY <1>3, <1>4, <1>5

\* A dispatch begins the attempt its chain waits for.
LEMMA DispatchStep ==
    ASSUME TypeOK, AttemptInv, TypeOK', AttemptInv', OrphanInv,
           NEW r \in Run, TickDispatch(r)
    PROVE  Promise!Begin(info[r].trace)
<1>1. /\ r \in Inserted /\ stage[r] = "none" /\ UNCHANGED info
      /\ \A s \in Run : stage'[s] = IF s = r THEN "scheduled" ELSE stage[s]
      /\ \A s \in Run : s # r => status'[s] = status[s]
      /\ batch' = batch \ {r}
  BY DEF TickDispatch, OrphanInv, TypeOK
<1>2. Inserted' = Inserted
  BY <1>1 DEF TickDispatch, Inserted, TypeOK
<1>3. PICK k \in Run : k = info[r].trace
  BY <1>1 DEF TypeOK, Inserted, Info
<1>4. AttemptsOf(k) # {} /\ CurrentOf(k) = r
  BY <1>1, <1>3, OpenIsCurrent DEF Over
<1>5. PhaseOf(r) = "waiting" /\ PhaseOf(r)' = "active"
  BY <1>1 DEF PhaseOf, Live, TickDispatch
<1>6. \A s \in Inserted : s # r => PhaseOf(s)' = PhaseOf(s)
  BY <1>1 DEF PhaseOf, Inserted
<1>7. chainPhase[k] = "waiting"
  BY <1>4, <1>5 DEF chainPhase
<1>8. ASSUME NEW j \in Run
      PROVE  /\ chainAttempt'[j] = chainAttempt[j]
             /\ chainPhase'[j] = IF j = k THEN "active" ELSE chainPhase[j]
  <2>1. CASE AttemptsOf(j) = {}
    <3>1. AttemptsOf(j)' = {} /\ j # k
      BY <1>1, <1>2, <1>4, <2>1, SameCurrent
    <3>2. QED
      BY <2>1, <3>1 DEF chainAttempt, chainPhase
  <2>2. CASE AttemptsOf(j) # {}
    <3>1. PICK s \in Inserted : s = CurrentOf(j) /\ s \in AttemptsOf(j)
      BY <2>2, HasCurrent DEF IsLast
    <3>2. AttemptsOf(j)' # {} /\ CurrentOf(j)' = s
      BY <1>1, <1>2, <2>2, <3>1, SameCurrent
    <3>3. s = r <=> j = k
      BY <1>3, <1>4, <3>1 DEF AttemptsOf
    <3>4. /\ chainAttempt'[j] = info'[s].retry /\ chainAttempt[j] = info[s].retry
          /\ chainPhase'[j] = PhaseOf(s)' /\ chainPhase[j] = PhaseOf(s)
      BY <2>2, <3>1, <3>2 DEF chainAttempt, chainPhase
    <3>5. QED
      BY <1>1, <1>5, <1>6, <3>3, <3>4
  <2>3. QED
    BY <2>1, <2>2
<1>9. /\ chainPhase = [j \in Run |-> chainPhase[j]]
      /\ chainPhase' = [j \in Run |-> chainPhase'[j]]
      /\ chainAttempt = [j \in Run |-> chainAttempt[j]]
      /\ chainAttempt' = [j \in Run |-> chainAttempt'[j]]
  BY DEF chainPhase, chainAttempt
<1>10. /\ chainPhase' = [chainPhase EXCEPT ![k] = "active"]
       /\ chainAttempt' = chainAttempt
  BY <1>8, <1>9
<1>11. QED
  BY <1>3, <1>7, <1>10 DEF Promise!Begin, Promise!Move

\* A new request is one of the promise.
LEMMA RequestStep ==
    ASSUME TypeOK, AttemptInv, TypeOK', AttemptInv', NEW t \in Task,
           InsertRoot(t), UNCHANGED <<stage, batch>>
    PROVE  \E n \in Run : Promise!Request(n)
<1>1. PICK n \in Run : n = nextRun
  BY DEF InsertRoot, InsertRun
<1>2. /\ n \notin Inserted /\ Inserted' = Inserted \cup {n}
      /\ stage'[n] = "none" /\ status'[n] = "queued"
      /\ \A s \in Inserted : status'[s] = status[s]
  BY <1>1 DEF InsertRoot, InsertRun, Inserted, TypeOK
<1>3. /\ \A s \in Inserted : info'[s] = info[s]
      /\ info'[n].retry = 0 /\ info'[n].trace = n
  BY <1>1, <1>2 DEF InsertRoot, InsertRun, TypeOK, Inserted
<1>4. \A s \in Inserted : PhaseOf(s)' = PhaseOf(s)
  BY <1>2 DEF PhaseOf
<1>5. /\ chainPhase' = [chainPhase EXCEPT ![n] = "waiting"]
      /\ chainAttempt' = [chainAttempt EXCEPT ![n] = 0]
  BY <1>2, <1>3, <1>4, InsertingStep
<1>6. AttemptsOf(n) = {}
  BY <1>2 DEF AttemptsOf, AttemptInv
<1>7. chainPhase[n] = "absent" /\ chainAttempt[n] = 0
  BY <1>6 DEF chainPhase, chainAttempt
<1>8. chainAttempt' = chainAttempt
  <2>1. chainAttempt = [j \in Run |-> chainAttempt[j]]
    BY DEF chainAttempt
  <2>2. QED
    BY <1>5, <1>7, <2>1
<1>9. QED
  BY <1>5, <1>7, <1>8 DEF Promise!Request, Promise!Move

\* Finalizing a run ends its attempt, or puts the next one in its place.
LEMMA FinalizeStep ==
    ASSUME TypeOK, AttemptInv, TypeOK', AttemptInv', OrphanInv,
           NEW r \in Inserted, NEW ok \in BOOLEAN,
           NEW st \in {"done", "failed", "zombie"},
           stage[r] \in Live, Finalize(r, ok), stage' = [stage EXCEPT ![r] = st]
    PROVE  Promise!Abandon \/ \E k \in Run : Promise!Retry(k)
<1>1. /\ r \in Run /\ \A s \in Inserted : s # r => stage'[s] = stage[s]
      /\ stage'[r] = st /\ UNCHANGED batch /\ r \notin batch
  BY DEF Inserted, TypeOK, Finalize, OrphanInv, Live
<1>2. PhaseOf(r) = "active"
  BY DEF PhaseOf, Live
<1>3. CASE ok \/ ~(info[r].retry < MaxRetries)
  <2>1. /\ UNCHANGED info /\ Inserted' = Inserted
        /\ \A s \in Inserted : s # r => status'[s] = status[s]
    BY <1>1, <1>3 DEF Finalize, Inserted, TypeOK
  <2>2. \A s \in Inserted : s # r => PhaseOf(s)' = PhaseOf(s)
    BY <1>1, <2>1 DEF PhaseOf
  <2>3. PhaseOf(r)' = "over"
    BY <1>1 DEF PhaseOf, Live
  <2>4. QED
    BY <1>2, <2>1, <2>2, <2>3, EndingStep
<1>4. CASE ~ok /\ info[r].retry < MaxRetries
  <2>1. PICK n \in Run : n = nextRun
    BY <1>4 DEF Finalize, InsertRun
  <2>2. Finalize(r, FALSE)
    BY <1>4
  <2>3. /\ n \notin Inserted /\ n # r /\ stage'[n] = "none" /\ status'[n] = "queued"
        /\ Inserted' = Inserted \cup {n}
        /\ \A s \in Inserted : info'[s] = info[s]
        /\ info'[n].retry = info[r].retry + 1
        /\ info'[n].trace = info[r].trace
    BY <1>4, <2>1, <2>2, RetryRow
  <2>4. PICK k \in Run : k = info[r].trace
    BY DEF TypeOK, Inserted, Info
  <2>5. AttemptsOf(k) # {} /\ CurrentOf(k) = r
    BY <2>4, OpenIsCurrent DEF Over, Live
  <2>6. chainPhase[k] = "active" /\ chainAttempt[k] = info[r].retry
    BY <1>2, <2>5 DEF chainPhase, chainAttempt
  <2>7. \A s \in Inserted : s # r => status'[s] = status[s]
    BY <1>4, <2>1, <2>3 DEF Finalize, InsertRun, TypeOK, Inserted
  <2>8. \A s \in Inserted : info[s].trace # k => PhaseOf(s)' = PhaseOf(s)
    BY <1>1, <2>4, <2>7 DEF PhaseOf
  <2>9. /\ chainPhase' = [chainPhase EXCEPT ![k] = "waiting"]
        /\ chainAttempt' = [chainAttempt EXCEPT ![k] = info'[n].retry]
    BY <2>3, <2>4, <2>8, InsertingStep
  <2>10. QED
    BY <1>4, <2>3, <2>6, <2>9 DEF Promise!Retry, Promise!Move
<1>5. QED
  BY <1>3, <1>4

\* Every other step leaves the attempts as they are, or ends some.
LEMMA OtherStep ==
    ASSUME TypeOK, AttemptInv, TypeOK', AttemptInv', OrphanInv, [Next]_vars,
           ~ \E t \in Task : Trigger(t) \/ CronFire(t),
           ~ \E r \in Run : TickDispatch(r) \/ Complete(r) \/ ExecTimeout(r)
    PROVE  Promise!Abandon
<1>0. /\ \A r \in Run : stage[r] # "none" => r \in Inserted
      /\ \A r \in batch : r \in Run /\ stage[r] = "none"
  BY DEF TypeOK, Inserted, OrphanInv
<1>1. CASE \/ Start \/ RecoverRead \/ UNCHANGED vars
           \/ \E r \in Run : CancelRead(r) \/ WatchdogRead(r)
           \/ \E t \in ApiTask : PauseTask(t) \/ ResumeTask(t) \/ UpdateTask(t)
  <2>1. UNCHANGED <<info, status, stage, batch>>
    BY <1>1 DEF Start, RecoverRead, CancelRead, WatchdogRead,
                PauseTask, ResumeTask, UpdateTask, db, vars
  <2>2. QED
    BY <2>1, EndingStep DEF PhaseOf, Inserted
<1>2. CASE TickLoad
  <2>1. /\ UNCHANGED <<info, status, stage>> /\ batch = {}
        /\ \A r \in batch' : status[r] = "queued"
    BY <1>2 DEF TickLoad, LoopIdle, db
  <2>2. QED
    BY <2>1, EndingStep DEF PhaseOf, Inserted
<1>3. CASE Stop
  <2>1. /\ UNCHANGED <<info, status>> /\ batch' = {}
        /\ \A r \in Run : stage'[r] =
             IF stage[r] \in Live \cup {"zombie"} THEN "lost" ELSE stage[r]
    BY <1>3 DEF Stop, db
  <2>2. \A r \in Run : \/ PhaseOf(r)' = PhaseOf(r)
                       \/ PhaseOf(r) # "over" /\ PhaseOf(r)' = "over"
    BY <2>1 DEF PhaseOf, Live
  <2>3. QED
    BY <2>1, <2>2, EndingStep DEF Inserted
<1>4. CASE RecoverCommit
  <2>1. /\ UNCHANGED <<info, stage, batch>> /\ Inserted' = Inserted
        /\ \A r \in Run : status'[r] = IF r \in recRuns THEN "failed" ELSE status[r]
    BY <1>4 DEF RecoverCommit, Inserted, TypeOK
  <2>2. \A r \in Run : \/ PhaseOf(r)' = PhaseOf(r)
                       \/ PhaseOf(r) # "over" /\ PhaseOf(r)' = "over"
    BY <2>1 DEF PhaseOf
  <2>3. QED
    BY <2>1, <2>2, EndingStep DEF Inserted
<1>5. ASSUME NEW r \in Run, TickDisabled(r) \/ TickSkip(r) PROVE Promise!Abandon
  <2>1. /\ r \in batch /\ r \in Inserted /\ batch' = batch \ {r}
        /\ UNCHANGED <<info, stage>>
        /\ \A s \in Run : s # r => status'[s] = status[s]
        /\ status'[r] \in {status[r], "cancelled"}
    BY <1>5 DEF TickDisabled, TickSkip, TypeOK, db
  <2>2. Inserted' = Inserted
    BY <2>1 DEF Inserted, TypeOK
  <2>3. \A s \in Inserted : \/ PhaseOf(s)' = PhaseOf(s)
                            \/ PhaseOf(s) # "over" /\ PhaseOf(s)' = "over"
    BY <1>0, <2>1 DEF PhaseOf, Inserted, Live
  <2>4. QED
    BY <2>1, <2>2, <2>3, EndingStep
<1>6. ASSUME NEW r \in Run, Submit(r) \/ FnStart(r) \/ FnEnd(r) PROVE Promise!Abandon
  <2>1. /\ \A s \in Run : s # r => stage'[s] = stage[s]
        /\ \/ stage[r] = "zombie" /\ stage'[r] = "failed"
           \/ stage[r] \in Live /\ stage'[r] \in Live
        /\ UNCHANGED <<info, status, batch>>
    BY <1>6 DEF Submit, FnStart, FnEnd, Advance, Live, TypeOK, db
  <2>2. \A s \in Run : PhaseOf(s)' = PhaseOf(s)
    BY <2>1 DEF PhaseOf, Live
  <2>3. QED
    BY <2>1, <2>2, EndingStep DEF Inserted
<1>7. CASE CancelCommit \/ WatchdogCommit
  <2>1. PICK st \in {"cancelled", "failed"}, k \in {"cancel", "timeout"} : Commit(k, st)
    BY <1>7 DEF CancelCommit, WatchdogCommit
  <2>2. /\ UNCHANGED <<info, stage, batch>>
        /\ \A s \in Run : status'[s] \in {status[s], st}
    BY <2>1 DEF Commit, TypeOK
  <2>3. Inserted' = Inserted
    BY <2>1 DEF Commit, Inserted, TypeOK
  <2>4. \A s \in Run : \/ PhaseOf(s)' = PhaseOf(s)
                       \/ PhaseOf(s) # "over" /\ PhaseOf(s)' = "over"
    BY <2>2 DEF PhaseOf
  <2>5. QED
    BY <2>2, <2>3, <2>4, EndingStep DEF Inserted
<1>8. QED
  BY <1>1, <1>2, <1>3, <1>4, <1>5, <1>6, <1>7 DEF Next, TickRun

\* The engine keeps its promise: a request has at most one attempt that waits
\* or is active, every attempt is active at most once, and a failed one is
\* followed by at most one other, whatever the threads, the users and the
\* restarts do to the rows.
THEOREM EngineKeepsPromise == Spec => PromiseKept
<1>1. Init => Promise!ChainInit
  BY DEF Init, Promise!ChainInit, chainAttempt, chainPhase, AttemptsOf, Inserted
<1>2. /\ TypeOK /\ OrphanInv /\ AttemptInv
      /\ TypeOK' /\ AttemptInv' /\ [Next]_vars
      => [Promise!ChainNext]_(Promise!chainVars)
  <2> SUFFICES ASSUME TypeOK, OrphanInv, AttemptInv, TypeOK', AttemptInv', [Next]_vars
               PROVE  Promise!ChainNext
    OBVIOUS
  <2>1. ASSUME NEW t \in Task, Trigger(t) \/ CronFire(t) PROVE Promise!ChainNext
    BY <2>1, RequestStep DEF Trigger, CronFire, Promise!ChainNext
  <2>2. ASSUME NEW r \in Run, TickDispatch(r) PROVE Promise!ChainNext
    <3>1. info[r].trace \in Run
      BY <2>2 DEF TickDispatch, TypeOK, Inserted, Info
    <3>2. QED
      BY <2>2, <3>1, DispatchStep DEF Promise!ChainNext
  <2>3. ASSUME NEW r \in Run, Complete(r) \/ ExecTimeout(r) PROVE Promise!ChainNext
    <3>1. r \in Inserted /\ stage[r] \in Live
      BY <2>3 DEF Complete, ExecTimeout, Live, TypeOK, Inserted
    <3>2. PICK ok \in BOOLEAN, st \in {"done", "failed", "zombie"} :
            Finalize(r, ok) /\ stage' = [stage EXCEPT ![r] = st]
      BY <2>3 DEF Complete, ExecTimeout
    <3>3. QED
      BY <3>1, <3>2, FinalizeStep DEF Promise!ChainNext
  <2>4. QED
    BY <2>1, <2>2, <2>3, OtherStep DEF Promise!ChainNext
<1>3. QED
  BY <1>1, <1>2, TypeCorrect, OrphanInvariant, AttemptInvariant, PTL
     DEF Spec, PromiseKept, Promise!ChainSpec
=============================================================================
