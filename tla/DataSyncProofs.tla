---------------------------- MODULE DataSyncProofs ----------------------------
(***************************************************************************)
(* What holds of the pipelines for any number of runs, tasks, stocks and   *)
(* days, and any number of restarts, cancels and deletions.                *)
(*                                                                         *)
(* A row is covered when its table has it or a user deleted it; no step    *)
(* uncovers a row.  A job that has met no error has covered all it was     *)
(* given but what it has still in hand.  A price run that holds a row      *)
(* holds or has covered every published row more than Overlap days older,  *)
(* because the provider publishes within Lag days and what lies before the *)
(* window of the run was covered when it asked; so the checkpoint it saves *)
(* leaves no hole behind.                                                  *)
(***************************************************************************)
EXTENDS DataSync, FiniteSetTheorems, WellFoundedInduction, TLAPS

WorkerField == {"pc", "todo", "item", "rows", "seen", "good", "bad", "poisoned"}
RunField == {"status", "type", "full", "codes", "born", "failed"}

IsWorker(n) == n = [f \in WorkerField |-> n[f]]
IsRun(n) == n = [f \in RunField |-> n[f]]

Shape ==
    /\ worker = [w \in Job |-> worker[w]] /\ \A w \in Job : IsWorker(worker[w])
    /\ runs = [r \in Run |-> runs[r]] /\ \A r \in Run : IsRun(runs[r])
    /\ stored = [t \in Table |-> stored[t]]
    /\ checkpoint = [s \in Stock |-> checkpoint[s]]

Covered(t, x) == x \in stored[t] \/ <<t, x>> \in cleaned
InHand(w, x) == worker[w].pc \in {"compare", "store"} /\ x \in worker[w].rows
Holding == {"compare", "store", "checkpoint"}

(* The provider is at most Lag days behind, and no checkpoint is ahead. *)
RowsInv ==
    /\ today \in Nat /\ published \subseteq Row
    /\ \A x \in Row : x[2] + Lag < today => x \in published
    /\ \A s \in Stock : checkpoint[s] \in Nat /\ checkpoint[s] <= today
    /\ \A r \in Run : runs[r].type \in Table

(* What a job has in hand: rows of its item up to today. *)
HandOK(w) ==
    /\ worker[w].pc \in {"fetch"} \cup Holding =>
         /\ worker[w].item # {}
         /\ ~Batch(w) => \E s \in worker[w].item : worker[w].item = {s}
    /\ worker[w].pc \in Holding =>
         \A y \in worker[w].rows : y \in Row /\ y[1] \in worker[w].item /\ y[2] <= today
    /\ worker[w].pc = "checkpoint" => w \in Run /\ worker[w].rows # {}

(* Without an error, what a job was given is covered or in its hand. *)
SeenOK(w) ==
    worker[w].bad = {} => \A x \in worker[w].seen : Covered(TableOf(w), x) \/ InHand(w, x)

(* A price run that has a row in hand is behind with nothing much older. *)
BehindOK(w) ==
    w \in Run /\ TypeOf(w) = "klines" /\ worker[w].pc \in Holding =>
      \A y \in worker[w].rows, x \in published :
         x[1] \in worker[w].item /\ x[2] + Overlap < y[2] => Covered("klines", x) \/ InHand(w, x)

WorkerOK(w) == HandOK(w) /\ SeenOK(w) /\ BehindOK(w)

(* The stocks that failed and have their letter. *)
Lettered(r) == {s \in worker[r].bad : <<r, s>> \in letters}

(* No status speaks of a result before the thread has one, and then of its own. *)
StatusOK(r) ==
    /\ runs[r].status = "none" => worker[r].pc = "idle"
    /\ worker[r].pc \in {"ready", "loaded", "next", "fetch"} \cup Holding =>
         runs[r].status \in {"pending", "running", "cancelled", "failed"}
    /\ worker[r].pc = "end" =>
         /\ runs[r].status # "completed"
         /\ runs[r].status = "completed_with_errors" =>
              ~Batch(r) /\ runs[r].failed = worker[r].bad /\ Lettered(r) # {}
    /\ worker[r].pc = "record" =>
         /\ runs[r].status = "completed" => worker[r].bad = {}
         /\ runs[r].status = "completed_with_errors" /\ ~Batch(r) =>
              /\ runs[r].failed = worker[r].bad
              /\ Lettered(r) # {} /\ (r \in lost \/ Lettered(r) = worker[r].bad)

SyncInv ==
    /\ Shape /\ RowsInv
    /\ \A w \in Job : WorkerOK(w)
    /\ \A r \in Run : StatusOK(r)
    /\ NoHoles

-----------------------------------------------------------------------------
(* Helpers.                                                                 *)

(* A non-empty set of days has a last one. *)
LEMMA LastOf ==
  ASSUME NEW D, D \subseteq Day, D # {}
  PROVE  Max(D) \in D /\ \A d \in D : d <= Max(D)
<1> DEFINE After(m) == {d \in D : d > m}
           Family == {After(m) : m \in D}
<1>1. D \subseteq Nat /\ D \subseteq 1..LastDay
  BY SyncAssumption DEF Day
<1>2. IsFiniteSet(D)
  <2>1. IsFiniteSet(1..LastDay)
    BY FS_Interval, SyncAssumption
  <2> QED BY <1>1, <2>1, FS_Subset
<1>3. Family \subseteq FiniteSubsetsOf(D) /\ Family # {}
  <2>1. \A m \in D : After(m) \subseteq D
    OBVIOUS
  <2>2. \A m \in D : IsFiniteSet(After(m))
    BY <1>2, <2>1, FS_Subset
  <2> QED BY <2>1, <2>2 DEF FiniteSubsetsOf
<1>4. PICK U \in Family : \A V \in Family : <<V, U>> \notin StrictSubsetOrdering(D)
  BY <1>3, FS_StrictSubsetOrderingWellFounded, WFMin
<1>5. PICK m \in D : U = After(m)
  BY <1>4
<1>6. ASSUME NEW d \in D, d > m PROVE FALSE
  <2>0. d \in Nat /\ m \in Nat
    BY <1>1
  <2>1. After(d) \subseteq After(m) /\ d \in After(m) /\ d \notin After(d)
    <3>1. \A e \in D : e > d => e > m
      BY <1>1, <1>6, <2>0
    <3>2. After(d) \subseteq After(m)
      BY <3>1
    <3>3. d \in After(m)
      BY <1>6
    <3>4. d \notin After(d)
      BY <2>0
    <3> QED BY <3>2, <3>3, <3>4
  <2>2. After(d) \in Family /\ After(d) \subseteq D /\ After(m) \subseteq D
    OBVIOUS
  <2> QED BY <1>4, <1>5, <2>1, <2>2 DEF StrictSubsetOrdering
<1>7. \A d \in D : m >= d
  BY <1>1, <1>6
<1> HIDE DEF Family
<1>8. Max(D) \in D /\ \A d \in D : Max(D) >= d
  BY <1>7 DEF Max
<1> QED BY <1>1, <1>8

(* One record of a table of records is replaced. *)
LEMMA WorkerTurn ==
  ASSUME Shape, NEW w \in Job, NEW n, IsWorker(n), worker' = [worker EXCEPT ![w] = n]
  PROVE  /\ worker'[w] = n /\ \A v \in Job : v # w => worker'[v] = worker[v]
         /\ worker' = [v \in Job |-> worker'[v]] /\ \A v \in Job : IsWorker(worker'[v])
  BY DEF Shape

LEMMA RunTurn ==
  ASSUME Shape, NEW r \in Run, NEW n, IsRun(n), runs' = [runs EXCEPT ![r] = n]
  PROVE  /\ runs'[r] = n /\ \A q \in Run : q # r => runs'[q] = runs[q]
         /\ runs' = [q \in Run |-> runs'[q]] /\ \A q \in Run : IsRun(runs'[q])
  BY DEF Shape

LEMMA IdleShape ==
  /\ IsWorker(Idle) /\ Idle.pc = "idle" /\ Idle.bad = {} /\ Idle.seen = {}
  /\ \A pc : /\ IsWorker([Idle EXCEPT !.pc = pc])
             /\ [Idle EXCEPT !.pc = pc].pc = pc
             /\ [Idle EXCEPT !.pc = pc].bad = {}
             /\ [Idle EXCEPT !.pc = pc].seen = {}
  /\ \A pc, todo : /\ IsWorker([Idle EXCEPT !.pc = pc, !.todo = todo])
                   /\ [Idle EXCEPT !.pc = pc, !.todo = todo].pc = pc
                   /\ [Idle EXCEPT !.pc = pc, !.todo = todo].bad = {}
                   /\ [Idle EXCEPT !.pc = pc, !.todo = todo].seen = {}
  BY DEF Idle, IsWorker, WorkerField

LEMMA TableOfIsTable ==
  ASSUME RowsInv, NEW w \in Job
  PROVE  TableOf(w) \in Table
  BY SyncAssumption DEF RowsInv, TableOf, TypeOf, Table, Job

-----------------------------------------------------------------------------
(* What a step keeps of the invariant.                                      *)

CoverGrows == \A t \in Table : \A x : Covered(t, x) => Covered(t, x)'

LEMMA SameCover ==
  ASSUME UNCHANGED <<stored, cleaned>>
  PROVE  CoverGrows
  BY DEF CoverGrows, Covered

LEMMA SameRows ==
  ASSUME RowsInv, UNCHANGED <<published, today, checkpoint>>,
         \A r \in Run : runs'[r].type \in Table
  PROVE  RowsInv'
  BY DEF RowsInv

LEMMA SameHoles ==
  ASSUME NoHoles, UNCHANGED <<published, checkpoint>>, CoverGrows
  PROVE  NoHoles'
  BY DEF NoHoles, CoverGrows, Covered, Table

(* A job that does not move, while others cover rows. *)
LEMMA SameWorker ==
  ASSUME RowsInv, NEW w \in Job, WorkerOK(w), worker'[w] = worker[w],
         w \in Run => runs'[w].type = runs[w].type,
         UNCHANGED <<published, today>>, CoverGrows
  PROVE  WorkerOK(w)'
<1>1. TypeOf(w)' = TypeOf(w) /\ TableOf(w)' = TableOf(w) /\ (Batch(w)' <=> Batch(w))
  BY DEF TypeOf, TableOf, Batch, Job
<1>2. HandOK(w)'
  BY <1>1 DEF WorkerOK, HandOK
<1>3. SeenOK(w)'
  BY <1>1, TableOfIsTable DEF WorkerOK, SeenOK, InHand, CoverGrows
<1>4. BehindOK(w)'
  BY <1>1 DEF WorkerOK, BehindOK, InHand, CoverGrows, Table
<1> QED BY <1>2, <1>3, <1>4 DEF WorkerOK

LEMMA SameStatus ==
  ASSUME NEW r \in Run, StatusOK(r), worker'[r].pc = worker[r].pc, worker'[r].bad = worker[r].bad,
         runs'[r] = runs[r], letters \subseteq letters', lost \subseteq lost'
  PROVE  StatusOK(r)'
<1>1. Batch(r)' <=> Batch(r)
  BY SyncAssumption DEF Batch, TypeOf
<1>2. Lettered(r) \subseteq Lettered(r)' /\ Lettered(r)' \subseteq worker[r].bad
  BY DEF Lettered
<1>3. /\ Lettered(r) # {} => Lettered(r)' # {}
      /\ Lettered(r) = worker[r].bad => Lettered(r)' = worker[r].bad
  BY <1>2
<1> QED BY <1>1, <1>3 DEF StatusOK

(* A step of one job: what is left to be shown of it. *)
LEMMA OneTurn ==
  ASSUME SyncInv, NEW w \in Job, NEW n, IsWorker(n), worker' = [worker EXCEPT ![w] = n],
         runs' = [r \in Run |-> runs'[r]], \A r \in Run : IsRun(runs'[r]),
         \A r \in Run : r # w => runs'[r] = runs[r],
         stored' = [t \in Table |-> stored'[t]],
         checkpoint' = [s \in Stock |-> checkpoint'[s]],
         UNCHANGED <<published, today>>, CoverGrows, letters \subseteq letters', lost \subseteq lost',
         RowsInv', NoHoles', WorkerOK(w)', w \in Run => StatusOK(w)'
  PROVE  SyncInv'
<1>1. /\ \A v \in Job : v # w => worker'[v] = worker[v]
      /\ worker' = [v \in Job |-> worker'[v]] /\ \A v \in Job : IsWorker(worker'[v])
  BY WorkerTurn DEF SyncInv
<1>2. Shape'
  BY <1>1 DEF Shape
<1>3. \A v \in Job : WorkerOK(v)'
  BY <1>1, SameWorker DEF SyncInv
<1>4. \A r \in Run : StatusOK(r)'
  BY <1>1, SameStatus DEF SyncInv, Job
<1> QED BY <1>2, <1>3, <1>4 DEF SyncInv

(* A step of a job that leaves the tables, the runs and the letters alone. *)
LEMMA QuietTurn ==
  ASSUME SyncInv, NEW w \in Job, NEW n, IsWorker(n), worker' = [worker EXCEPT ![w] = n],
         UNCHANGED <<runs, data, letters, lost, published, today>>,
         WorkerOK(w)', w \in Run => StatusOK(w)'
  PROVE  SyncInv'
<1>1. UNCHANGED <<stored, checkpoint, cleaned>> /\ Shape /\ RowsInv /\ NoHoles
  BY DEF data, SyncInv
<1>2. CoverGrows
  BY <1>1, SameCover
<1>3. RowsInv' /\ NoHoles'
  BY <1>1, <1>2, SameRows, SameHoles DEF RowsInv
<1>4. /\ runs' = [r \in Run |-> runs'[r]] /\ \A r \in Run : IsRun(runs'[r])
      /\ stored' = [t \in Table |-> stored'[t]]
      /\ checkpoint' = [s \in Stock |-> checkpoint'[s]]
  BY <1>1 DEF Shape
<1> QED BY <1>2, <1>3, <1>4, OneTurn

(* A job with nothing in hand and nothing seen. *)
LEMMA FreshOK ==
  ASSUME NEW w \in Job, worker'[w].pc \notin {"fetch"} \cup Holding, worker'[w].seen = {}
  PROVE  WorkerOK(w)'
  BY DEF WorkerOK, HandOK, SeenOK, BehindOK, Holding

(* An item that failed leaves an error behind. *)
LEMMA FailedOK ==
  ASSUME SyncInv, NEW w \in Job, NEW p, ItemFails(w, p), worker[w].item # {},
         w \in Run => runs'[w].status \in {"pending", "running", "cancelled", "failed"}
  PROVE  \E n : /\ IsWorker(n) /\ worker' = [worker EXCEPT ![w] = n]
                /\ WorkerOK(w)' /\ (w \in Run => StatusOK(w)')
<1> DEFINE n == [worker[w] EXCEPT !.pc = "next", !.item = {}, !.rows = {},
                                  !.bad = @ \cup worker[w].item, !.poisoned = p]
<1>1. IsWorker(worker[w]) /\ w \in DOMAIN worker
  BY DEF SyncInv, Shape
<1>2. worker' = [worker EXCEPT ![w] = n]
  BY <1>1 DEF ItemFails
<1>3. IsWorker(n) /\ n.pc = "next" /\ n.bad = worker[w].bad \cup worker[w].item
  BY <1>1 DEF IsWorker, WorkerField
<1> HIDE DEF n
<1>4. worker'[w] = n
  BY <1>1, <1>2
<1>5. WorkerOK(w)'
  BY <1>3, <1>4 DEF WorkerOK, HandOK, SeenOK, BehindOK, Holding
<1>6. w \in Run => StatusOK(w)'
  BY <1>3, <1>4 DEF StatusOK
<1> QED BY <1>2, <1>3, <1>5, <1>6

(* An item that is done has covered what was in hand. *)
LEMMA DoneOK ==
  ASSUME SyncInv, NEW w \in Job, ItemDone(w),
         worker[w].bad = {} => \A x \in worker[w].seen : Covered(TableOf(w), x)',
         w \in Run => runs'[w].status \in {"pending", "running", "cancelled", "failed"},
         TableOf(w)' = TableOf(w)
  PROVE  \E n : /\ IsWorker(n) /\ worker' = [worker EXCEPT ![w] = n]
                /\ WorkerOK(w)' /\ (w \in Run => StatusOK(w)')
<1> DEFINE n == [worker[w] EXCEPT !.pc = "next", !.item = {}, !.rows = {},
                                  !.good = @ \cup worker[w].item]
<1>1. IsWorker(worker[w]) /\ w \in DOMAIN worker
  BY DEF SyncInv, Shape
<1>2. worker' = [worker EXCEPT ![w] = n]
  BY <1>1 DEF ItemDone
<1>3. IsWorker(n) /\ n.pc = "next" /\ n.bad = worker[w].bad /\ n.seen = worker[w].seen
  BY <1>1 DEF IsWorker, WorkerField
<1> HIDE DEF n
<1>4. worker'[w] = n
  BY <1>1, <1>2
<1>5. WorkerOK(w)'
  BY <1>3, <1>4 DEF WorkerOK, HandOK, SeenOK, BehindOK, Holding
<1>6. w \in Run => StatusOK(w)'
  BY <1>3, <1>4 DEF StatusOK
<1> QED BY <1>2, <1>3, <1>5, <1>6

(* A job that goes on with nothing in hand. *)
LEMMA PassOK ==
  ASSUME RowsInv, NEW w \in Job, WorkerOK(w), worker[w].pc \notin {"compare", "store"},
         worker'[w].pc \notin {"fetch"} \cup Holding,
         worker'[w].seen = worker[w].seen, worker'[w].bad = worker[w].bad,
         w \in Run => runs'[w].type = runs[w].type, CoverGrows
  PROVE  WorkerOK(w)'
<1>1. TableOf(w)' = TableOf(w)
  BY DEF TypeOf, TableOf, Job
<1>2. SeenOK(w)'
  BY <1>1, TableOfIsTable DEF WorkerOK, SeenOK, InHand, CoverGrows
<1> QED BY <1>2 DEF WorkerOK, HandOK, BehindOK, Holding

-----------------------------------------------------------------------------
(* Every step keeps the invariant.                                          *)

LEMMA InitSync == Init => SyncInv
<1> SUFFICES ASSUME Init PROVE SyncInv
  OBVIOUS
<1>1. Shape
  BY IdleShape DEF Init, Shape, IsRun, RunField
<1>2. RowsInv
  BY SyncAssumption DEF Init, RowsInv, Row, Day, Table
<1>3. \A w \in Job : WorkerOK(w)
  BY IdleShape DEF Init, WorkerOK, HandOK, SeenOK, BehindOK, Holding
<1>4. \A r \in Run : StatusOK(r)
  BY IdleShape DEF Init, StatusOK, Holding, Job
<1>5. NoHoles
  BY DEF Init, NoHoles
<1> QED BY <1>1, <1>2, <1>3, <1>4, <1>5 DEF SyncInv

LEMMA CreateKeeps ==
  ASSUME SyncInv, NEW r \in Run, NEW type \in Table, NEW codes, NEW full, Create(r, type, codes, full)
  PROVE  SyncInv'
<1> DEFINE n == [Idle EXCEPT !.pc = "ready", !.todo = codes]
           m == [status |-> "pending", type |-> type, full |-> full,
                 codes |-> codes, born |-> boot, failed |-> {}]
<1>1. /\ worker' = [worker EXCEPT ![r] = n] /\ runs' = [runs EXCEPT ![r] = m]
      /\ UNCHANGED <<data, letters, lost, published, today>>
  BY DEF Create, clock, history
<1>2. IsWorker(n) /\ n.pc = "ready" /\ n.bad = {} /\ n.seen = {}
  BY IdleShape
<1>3. IsRun(m) /\ m.status = "pending" /\ m.type = type
  BY DEF IsRun, RunField
<1> HIDE DEF n, m
<1>4. /\ runs'[r] = m /\ \A q \in Run : q # r => runs'[q] = runs[q]
      /\ runs' = [q \in Run |-> runs'[q]] /\ \A q \in Run : IsRun(runs'[q])
  BY <1>1, <1>3, RunTurn DEF SyncInv
<1>5. worker'[r] = n /\ r \in Job
  BY <1>1, <1>2, WorkerTurn DEF SyncInv, Job
<1>6. WorkerOK(r)'
  BY <1>2, <1>5, FreshOK DEF Holding
<1>7. StatusOK(r)'
  BY <1>2, <1>3, <1>4, <1>5 DEF StatusOK
<1>8. UNCHANGED <<stored, checkpoint, cleaned>> /\ CoverGrows
  BY <1>1, SameCover DEF data
<1>9. RowsInv' /\ NoHoles'
  BY <1>1, <1>3, <1>4, <1>8, SameRows, SameHoles DEF SyncInv, RowsInv
<1>10. /\ stored' = [t \in Table |-> stored'[t]]
       /\ checkpoint' = [s \in Stock |-> checkpoint'[s]]
  BY <1>8 DEF SyncInv, Shape
<1> QED BY <1>1, <1>2, <1>4, <1>5, <1>6, <1>7, <1>8, <1>9, <1>10, OneTurn

LEMMA StartKeeps ==
  ASSUME SyncInv, NEW r \in Run, Start(r) \/ \E q \in Run : RetryFailed(r, q)
  PROVE  SyncInv'
<1>1. CASE Start(r)
  <2>1. PICK type \in PipelineType, full \in Full : Create(r, type, Stock, full)
    BY <1>1 DEF Start
  <2>2. type \in Table
    BY SyncAssumption DEF Table
  <2> QED BY <2>1, <2>2, CreateKeeps
<1>2. ASSUME NEW q \in Run, RetryFailed(r, q) PROVE SyncInv'
  <2>1. runs[q].type \in Table
    BY DEF SyncInv, RowsInv
  <2> QED BY <1>2, <2>1, CreateKeeps DEF RetryFailed
<1> QED BY <1>1, <1>2

LEMMA StartTaskKeeps ==
  ASSUME SyncInv, NEW w \in Task, StartTask(w)
  PROVE  SyncInv'
<1> DEFINE n == [Idle EXCEPT !.pc = "next", !.todo = Watched]
<1>1. worker' = [worker EXCEPT ![w] = n] /\ UNCHANGED <<runs, data, letters, lost, published, today>>
  BY DEF StartTask, clock
<1>2. IsWorker(n) /\ n.pc = "next" /\ n.seen = {}
  BY IdleShape
<1> HIDE DEF n
<1>3. w \in Job /\ w \notin Run /\ worker'[w] = n
  BY <1>1, <1>2, WorkerTurn, SyncAssumption DEF SyncInv, Job
<1>4. WorkerOK(w)'
  BY <1>2, <1>3, FreshOK DEF Holding
<1> QED BY <1>1, <1>2, <1>3, <1>4, QuietTurn

LEMMA LoadKeeps ==
  ASSUME SyncInv, NEW r \in Run, Load(r)
  PROVE  SyncInv'
<1>1. /\ worker[r].pc = "ready" /\ UNCHANGED <<runs, data, letters, lost, published, today>>
      /\ r \in Job /\ IsWorker(worker[r]) /\ WorkerOK(r) /\ StatusOK(r)
  BY DEF Load, At, clock, history, Job, SyncInv, Shape
<1>2. CASE runs[r].status = "cancelled"
  <2> DEFINE n == [Idle EXCEPT !.pc = "done"]
  <2>1. worker' = [worker EXCEPT ![r] = n]
    BY <1>2 DEF Load
  <2>2. IsWorker(n) /\ n.pc = "done" /\ n.seen = {}
    BY IdleShape
  <2> HIDE DEF n
  <2>3. worker'[r] = n
    BY <1>1, <2>1, <2>2, WorkerTurn DEF SyncInv
  <2>4. WorkerOK(r)' /\ StatusOK(r)'
    BY <1>1, <1>2, <2>2, <2>3, FreshOK DEF Holding, StatusOK
  <2> QED BY <1>1, <2>1, <2>2, <2>4, QuietTurn
<1>3. CASE runs[r].status # "cancelled"
  <2> DEFINE n == [worker[r] EXCEPT !.pc = "loaded"]
  <2>1. worker' = [worker EXCEPT ![r] = n]
    BY <1>3 DEF Load
  <2>2. IsWorker(n) /\ n.pc = "loaded" /\ n.seen = worker[r].seen /\ n.bad = worker[r].bad
    BY <1>1 DEF IsWorker, WorkerField
  <2> HIDE DEF n
  <2>3. worker'[r] = n
    BY <1>1, <2>1, <2>2, WorkerTurn DEF SyncInv
  <2>4. StatusOK(r)'
    BY <1>1, <2>2, <2>3 DEF StatusOK
  <2>5. WorkerOK(r)'
    <3>1. CoverGrows
      BY <1>1, SameCover DEF data
    <3> QED BY <1>1, <2>2, <2>3, <3>1, PassOK DEF SyncInv, Holding
  <2> QED BY <1>1, <2>1, <2>2, <2>4, <2>5, QuietTurn
<1> QED BY <1>2, <1>3

LEMMA EnterKeeps ==
  ASSUME SyncInv, NEW r \in Run, Enter(r)
  PROVE  SyncInv'
<1> DEFINE n == [worker[r] EXCEPT !.pc = "next"]
           m == [runs[r] EXCEPT !.status = "running"]
<1>1. /\ worker[r].pc = "loaded" /\ UNCHANGED <<data, letters, lost, published, today>>
      /\ worker' = [worker EXCEPT ![r] = n] /\ runs' = [runs EXCEPT ![r] = m]
      /\ r \in Job /\ IsWorker(worker[r]) /\ IsRun(runs[r]) /\ WorkerOK(r)
  BY DEF Enter, At, clock, history, Job, SyncInv, Shape
<1>2. IsWorker(n) /\ n.pc = "next" /\ n.seen = worker[r].seen /\ n.bad = worker[r].bad
  BY <1>1 DEF IsWorker, WorkerField
<1>3. IsRun(m) /\ m.status = "running" /\ m.type = runs[r].type
  BY <1>1 DEF IsRun, RunField
<1> HIDE DEF n, m
<1>4. /\ runs'[r] = m /\ \A q \in Run : q # r => runs'[q] = runs[q]
      /\ runs' = [q \in Run |-> runs'[q]] /\ \A q \in Run : IsRun(runs'[q])
  BY <1>1, <1>3, RunTurn DEF SyncInv
<1>5. worker'[r] = n
  BY <1>1, <1>2, WorkerTurn DEF SyncInv
<1>6. UNCHANGED <<stored, checkpoint, cleaned>> /\ CoverGrows
  BY <1>1, SameCover DEF data
<1>7. RowsInv' /\ NoHoles'
  BY <1>1, <1>3, <1>4, <1>6, SameRows, SameHoles DEF SyncInv, RowsInv
<1>8. WorkerOK(r)'
  BY <1>1, <1>2, <1>3, <1>4, <1>5, <1>6, PassOK DEF SyncInv, Holding
<1>9. StatusOK(r)'
  BY <1>2, <1>3, <1>4, <1>5 DEF StatusOK
<1>10. /\ stored' = [t \in Table |-> stored'[t]]
       /\ checkpoint' = [s \in Stock |-> checkpoint'[s]]
  BY <1>6 DEF SyncInv, Shape
<1> QED BY <1>1, <1>2, <1>4, <1>6, <1>7, <1>8, <1>9, <1>10, OneTurn

LEMMA NextItemKeeps ==
  ASSUME SyncInv, NEW w \in Job, NextItem(w)
  PROVE  SyncInv'
<1>1. /\ worker[w].pc = "next" /\ UNCHANGED <<runs, data, letters, lost, published, today>>
      /\ IsWorker(worker[w]) /\ WorkerOK(w) /\ (w \in Run => StatusOK(w)) /\ CoverGrows
  BY SameCover DEF NextItem, At, clock, history, SyncInv, Shape, data
<1>2. CASE w \in Task /\ worker' = [worker EXCEPT ![w] = Idle]
  <2>1. worker'[w] = Idle /\ w \notin Run
    BY <1>2, IdleShape, WorkerTurn, SyncAssumption DEF SyncInv
  <2>2. WorkerOK(w)'
    BY <2>1, IdleShape, FreshOK DEF Holding
  <2> QED BY <1>1, <1>2, <2>1, <2>2, IdleShape, QuietTurn
<1>3. CASE w \notin Task /\ worker' = [worker EXCEPT ![w].pc = "end"]
  <2> DEFINE n == [worker[w] EXCEPT !.pc = "end"]
  <2>1. worker' = [worker EXCEPT ![w] = n]
    BY <1>3
  <2>2. IsWorker(n) /\ n.pc = "end" /\ n.seen = worker[w].seen /\ n.bad = worker[w].bad
    BY <1>1 DEF IsWorker, WorkerField
  <2> HIDE DEF n
  <2>3. worker'[w] = n
    BY <2>1, <2>2, WorkerTurn DEF SyncInv
  <2>4. WorkerOK(w)'
    BY <1>1, <2>2, <2>3, PassOK DEF SyncInv, Holding
  <2>5. w \in Run => StatusOK(w)'
    BY <1>1, <2>2, <2>3 DEF StatusOK
  <2> QED BY <1>1, <2>1, <2>2, <2>4, <2>5, QuietTurn
<1>4. ASSUME NEW item, item \in IF Batch(w) THEN {worker[w].todo} \ {{}}
                                ELSE {{s} : s \in worker[w].todo},
             worker' = [worker EXCEPT ![w].pc = "fetch", ![w].item = item, ![w].todo = @ \ item]
      PROVE  SyncInv'
  <2> DEFINE n == [worker[w] EXCEPT !.pc = "fetch", !.item = item, !.todo = @ \ item]
  <2>1. worker' = [worker EXCEPT ![w] = n]
    BY <1>4 DEF SyncInv, Shape
  <2>2. /\ IsWorker(n) /\ n.pc = "fetch" /\ n.item = item
        /\ n.seen = worker[w].seen /\ n.bad = worker[w].bad
    BY <1>1 DEF IsWorker, WorkerField
  <2> HIDE DEF n
  <2>3. worker'[w] = n
    BY <2>1, <2>2, WorkerTurn DEF SyncInv
  <2>4. TableOf(w)' = TableOf(w) /\ (Batch(w)' <=> Batch(w)) /\ UNCHANGED <<stored, cleaned>>
    BY <1>1 DEF TableOf, TypeOf, Batch, data
  <2>5. item # {} /\ (~Batch(w) => \E s \in item : item = {s})
    <3>1. CASE Batch(w)
      BY <1>4, <3>1
    <3>2. CASE ~Batch(w)
      BY <1>4, <3>2
    <3> QED BY <3>1, <3>2
  <2>6. HandOK(w)'
    BY <2>2, <2>3, <2>4, <2>5 DEF HandOK, Holding
  <2>7. SeenOK(w)'
    BY <1>1, <2>2, <2>3, <2>4 DEF WorkerOK, SeenOK, Covered, InHand
  <2>8. BehindOK(w)'
    BY <2>2, <2>3 DEF BehindOK, Holding
  <2>9. w \in Run => StatusOK(w)'
    BY <1>1, <2>2, <2>3 DEF StatusOK
  <2> QED BY <1>1, <2>1, <2>2, <2>6, <2>7, <2>8, <2>9, QuietTurn DEF WorkerOK
<1>5. \/ w \in Task /\ worker' = [worker EXCEPT ![w] = Idle]
      \/ w \notin Task /\ worker' = [worker EXCEPT ![w].pc = "end"]
      \/ \E item \in IF Batch(w) THEN {worker[w].todo} \ {{}} ELSE {{s} : s \in worker[w].todo} :
            worker' = [worker EXCEPT ![w].pc = "fetch", ![w].item = item, ![w].todo = @ \ item]
  BY DEF NextItem
<1> QED BY <1>2, <1>3, <1>4, <1>5

(* The provider is asked; what it gives is in hand, and what lies before the *)
(* window of a price run was covered when the checkpoint was saved.          *)
LEMMA FetchKeeps ==
  ASSUME SyncInv, NEW w \in Job, Fetch(w)
  PROVE  SyncInv'
<1>1. /\ worker[w].pc = "fetch" /\ UNCHANGED <<runs, data, letters, lost, published, today>>
      /\ IsWorker(worker[w]) /\ WorkerOK(w) /\ (w \in Run => StatusOK(w)) /\ RowsInv /\ NoHoles
      /\ worker[w].item # {} /\ (~Batch(w) => \E s \in worker[w].item : worker[w].item = {s})
  BY DEF Fetch, At, clock, SyncInv, Shape, WorkerOK, HandOK
<1>2. CASE ItemFails(w, worker[w].poisoned)
  <2>1. w \in Run => runs'[w].status \in {"pending", "running", "cancelled", "failed"}
    BY <1>1 DEF StatusOK
  <2> QED BY <1>1, <1>2, <2>1, FailedOK, QuietTurn
<1>3. ASSUME NEW got, got \in Accepted(w, {x \in published : /\ x[1] \in worker[w].item
                                                          /\ x[2] \in Window(w, x[1])}),
             worker' = [worker EXCEPT ![w].pc = "compare", ![w].rows = got, ![w].seen = @ \cup got]
      PROVE  SyncInv'
  <2> DEFINE n == [worker[w] EXCEPT !.pc = "compare", !.rows = got, !.seen = @ \cup got]
             offered == {x \in published : x[1] \in worker[w].item /\ x[2] \in Window(w, x[1])}
  <2>1. worker' = [worker EXCEPT ![w] = n]
    BY <1>3 DEF SyncInv, Shape
  <2>2. /\ IsWorker(n) /\ n.pc = "compare" /\ n.item = worker[w].item /\ n.rows = got
        /\ n.seen = worker[w].seen \cup got /\ n.bad = worker[w].bad
    BY <1>1 DEF IsWorker, WorkerField
  <2> HIDE DEF n
  <2>3. worker'[w] = n
    BY <2>1, <2>2, WorkerTurn DEF SyncInv
  <2>4. /\ TableOf(w)' = TableOf(w) /\ TypeOf(w)' = TypeOf(w) /\ (Batch(w)' <=> Batch(w))
        /\ UNCHANGED <<stored, cleaned>>
    BY <1>1 DEF TableOf, TypeOf, Batch, data
  <2>5. got \subseteq offered /\ (~Batch(w) => got = offered)
    BY <1>3 DEF Accepted
  <2>6. HandOK(w)'
    <3>1. ASSUME NEW y \in got PROVE y \in Row /\ y[1] \in worker[w].item /\ y[2] <= today
      BY <1>1, <2>5 DEF RowsInv, Window, Row, Day
    <3> QED BY <1>1, <2>2, <2>3, <2>4, <3>1 DEF HandOK, Holding
  <2>7. SeenOK(w)'
    BY <1>1, <2>2, <2>3, <2>4 DEF WorkerOK, SeenOK, Covered, InHand
  <2>8. BehindOK(w)'
    <3>1. SUFFICES ASSUME w \in Run, TypeOf(w) = "klines", NEW y \in got, NEW x \in published,
                          x[1] \in worker[w].item, x[2] + Overlap < y[2]
                   PROVE  Covered("klines", x) \/ x \in got
      BY <1>1, <2>2, <2>3, <2>4 DEF BehindOK, InHand, Covered
    <3>2. got = offered
      BY <2>5, <3>1 DEF Batch
    <3>3. y[2] \in Window(w, y[1]) /\ y \in Row /\ x \in Row /\ today \in Nat
      BY <1>1, <2>5, <3>1 DEF RowsInv
    <3>4. x[2] \in 1..today /\ x[2] \in Nat /\ x[1] \in Stock /\ x[2] \in Day
      BY <3>1, <3>3, SyncAssumption DEF Window, Row, Day
    <3>5. CASE x[2] \in KlineDays(w, x[1])
      <4>1. x[2] \in Window(w, x[1])
        BY <3>1, <3>4, <3>5 DEF Window
      <4> QED BY <3>1, <3>2, <4>1
    <3>6. CASE x[2] \notin KlineDays(w, x[1])
      <4>1. checkpoint[x[1]] # 0 /\ x[2] \notin Since(checkpoint[x[1]])
        BY <3>4, <3>6 DEF KlineDays
      <4>2. x[2] + Overlap < checkpoint[x[1]]
        BY <1>1, <3>4, <4>1, SyncAssumption DEF Since, RowsInv
      <4> QED BY <1>1, <4>1, <4>2 DEF NoHoles, Covered
    <3> QED BY <3>5, <3>6
  <2>9. w \in Run => StatusOK(w)'
    BY <1>1, <2>2, <2>3 DEF StatusOK, Holding
  <2> QED BY <1>1, <2>1, <2>2, <2>6, <2>7, <2>8, <2>9, QuietTurn DEF WorkerOK
<1> QED BY <1>2, <1>3 DEF Fetch

LEMMA CompareKeeps ==
  ASSUME SyncInv, NEW w \in Job, Compare(w)
  PROVE  SyncInv'
<1> DEFINE left == worker[w].rows \ stored[TableOf(w)]
           n == [worker[w] EXCEPT !.pc = "store", !.rows = left]
<1>1. /\ worker[w].pc = "compare" /\ UNCHANGED <<runs, data, letters, lost, published, today>>
      /\ IsWorker(worker[w]) /\ WorkerOK(w) /\ (w \in Run => StatusOK(w))
      /\ worker' = [worker EXCEPT ![w] = n]
  BY DEF Compare, At, clock, history, SyncInv, Shape
<1>2. /\ IsWorker(n) /\ n.pc = "store" /\ n.item = worker[w].item /\ n.rows = left
      /\ n.seen = worker[w].seen /\ n.bad = worker[w].bad
  BY <1>1 DEF IsWorker, WorkerField
<1> HIDE DEF n
<1>3. worker'[w] = n
  BY <1>1, <1>2, WorkerTurn DEF SyncInv
<1>4. /\ TableOf(w)' = TableOf(w) /\ TypeOf(w)' = TypeOf(w) /\ (Batch(w)' <=> Batch(w))
      /\ UNCHANGED <<stored, cleaned>>
  BY <1>1 DEF TableOf, TypeOf, Batch, data
<1>5. HandOK(w)'
  BY <1>1, <1>2, <1>3, <1>4 DEF WorkerOK, HandOK, Holding
<1>6. SeenOK(w)'
  BY <1>1, <1>2, <1>3, <1>4 DEF WorkerOK, SeenOK, Covered, InHand
<1>7. BehindOK(w)'
  <2>1. TypeOf(w) = "klines" => TableOf(w) = "klines"
    BY DEF TableOf
  <2> QED BY <1>1, <1>2, <1>3, <1>4, <2>1 DEF WorkerOK, BehindOK, Covered, InHand, Holding
<1>8. w \in Run => StatusOK(w)'
  BY <1>1, <1>2, <1>3 DEF StatusOK, Holding
<1> QED BY <1>1, <1>2, <1>5, <1>6, <1>7, <1>8, QuietTurn DEF WorkerOK

(* An item whose commit failed, or that fails after it. *)
LEMMA AbortKeeps ==
  ASSUME SyncInv, NEW w \in Job, worker[w].pc \in {"store", "checkpoint"}, NEW p, ItemFails(w, p),
         UNCHANGED <<runs, data, letters, lost, published, today>>
  PROVE  SyncInv'
<1>1. worker[w].item # {}
  BY DEF SyncInv, WorkerOK, HandOK, Holding
<1>2. w \in Run => runs'[w].status \in {"pending", "running", "cancelled", "failed"}
  BY DEF SyncInv, StatusOK, Holding
<1> QED BY <1>1, <1>2, FailedOK, QuietTurn

(* The rows in hand are committed; an item that has a checkpoint saves it next. *)
LEMMA InsertKeeps ==
  ASSUME SyncInv, NEW w \in Job, worker[w].pc = "store",
         stored' = [stored EXCEPT ![TableOf(w)] = @ \cup worker[w].rows],
         UNCHANGED <<cleaned, runs, checkpoint, letters, lost, published, today>>,
         ItemDone(w) \/ (w \in Run /\ ThenCheckpoint(w))
  PROVE  SyncInv'
<1>1. /\ IsWorker(worker[w]) /\ WorkerOK(w) /\ (w \in Run => StatusOK(w))
      /\ Shape /\ RowsInv /\ NoHoles
  BY DEF SyncInv, Shape
<1>2. /\ TableOf(w)' = TableOf(w) /\ TypeOf(w)' = TypeOf(w) /\ (Batch(w)' <=> Batch(w))
      /\ TableOf(w) \in Table
  BY <1>1, TableOfIsTable DEF TableOf, TypeOf, Batch
<1>3. /\ stored' = [t \in Table |-> stored'[t]]
      /\ stored'[TableOf(w)] = stored[TableOf(w)] \cup worker[w].rows
      /\ \A t \in Table : stored[t] \subseteq stored'[t]
  <2> DEFINE t0 == TableOf(w)
             new == stored[TableOf(w)] \cup worker[w].rows
  <2>1. stored' = [stored EXCEPT ![t0] = new] /\ t0 \in Table
    BY <1>2
  <2>2. stored[t0] \subseteq new
    OBVIOUS
  <2> HIDE DEF t0, new
  <2>3. stored' = [t \in Table |-> stored'[t]] /\ stored'[t0] = new
        /\ \A t \in Table : stored[t] \subseteq stored'[t]
    BY <1>1, <2>1, <2>2 DEF Shape
  <2> QED BY <2>3 DEF t0, new
<1>4. CoverGrows
  BY <1>3 DEF CoverGrows, Covered
<1>5. RowsInv' /\ NoHoles'
  BY <1>1, <1>4, SameRows, SameHoles DEF RowsInv
<1>6. ASSUME worker[w].bad = {}, NEW x \in worker[w].seen PROVE Covered(TableOf(w), x)'
  <2>1. Covered(TableOf(w), x) \/ x \in worker[w].rows
    BY <1>1, <1>6 DEF WorkerOK, SeenOK, InHand
  <2> QED BY <1>2, <1>3, <2>1 DEF Covered
<1>7. w \in Run => runs'[w].status \in {"pending", "running", "cancelled", "failed"}
  BY <1>1 DEF StatusOK, Holding
<1>8. /\ runs' = [r \in Run |-> runs'[r]] /\ \A r \in Run : IsRun(runs'[r])
      /\ checkpoint' = [s \in Stock |-> checkpoint'[s]]
  BY <1>1 DEF Shape
<1>9. ASSUME NEW n, IsWorker(n), worker' = [worker EXCEPT ![w] = n],
             WorkerOK(w)', w \in Run => StatusOK(w)'
      PROVE  SyncInv'
  BY <1>3, <1>4, <1>5, <1>8, <1>9, OneTurn
<1>10. CASE ItemDone(w)
  <2>1. worker[w].bad = {} => \A x \in worker[w].seen : Covered(TableOf(w), x)'
    BY <1>6
  <2> QED BY <1>2, <1>7, <1>9, <1>10, <2>1, DoneOK
<1>11. CASE w \in Run /\ worker[w].rows # {} /\ worker' = [worker EXCEPT ![w].pc = "checkpoint"]
  <2> DEFINE n == [worker[w] EXCEPT !.pc = "checkpoint"]
  <2>1. worker' = [worker EXCEPT ![w] = n]
    BY <1>11
  <2>2. /\ IsWorker(n) /\ n.pc = "checkpoint" /\ n.item = worker[w].item /\ n.rows = worker[w].rows
        /\ n.seen = worker[w].seen /\ n.bad = worker[w].bad
    BY <1>1 DEF IsWorker, WorkerField
  <2> HIDE DEF n
  <2>3. worker'[w] = n
    BY <1>1, <2>1, <2>2, WorkerTurn
  <2>4. HandOK(w)'
    BY <1>1, <1>2, <1>11, <2>2, <2>3 DEF WorkerOK, HandOK, Holding
  <2>5. SeenOK(w)'
    BY <1>2, <1>6, <2>2, <2>3 DEF SeenOK, Covered
  <2>6. BehindOK(w)'
    <3>1. SUFFICES ASSUME TypeOf(w) = "klines", NEW y \in worker[w].rows, NEW x \in published,
                          x[1] \in worker[w].item, x[2] + Overlap < y[2]
                   PROVE  Covered("klines", x)'
      BY <1>2, <2>2, <2>3 DEF BehindOK, Covered
    <3>2. Covered("klines", x) \/ x \in worker[w].rows
      BY <1>1, <1>11, <3>1 DEF WorkerOK, BehindOK, InHand, Holding
    <3>3. TableOf(w) = "klines"
      BY <3>1 DEF TableOf
    <3> QED BY <1>3, <3>2, <3>3 DEF Covered, Table
  <2>7. w \in Run => StatusOK(w)'
    BY <1>1, <2>2, <2>3 DEF StatusOK, Holding
  <2> QED BY <1>9, <2>1, <2>2, <2>4, <2>5, <2>6, <2>7 DEF WorkerOK
<1> QED BY <1>10, <1>11 DEF ThenCheckpoint

LEMMA StoreKeeps ==
  ASSUME SyncInv, NEW w \in Job, Store(w)
  PROVE  SyncInv'
<1>1. /\ worker[w].pc = "store" /\ w \in Run \cup Task
      /\ UNCHANGED <<cleaned, cleanups, runs, checkpoint, letters, lost, published, today>>
  BY DEF Store, At, clock, history, Job
<1>2. \/ \E p : Abort(w, p)
      \/ Insert(w) /\ (ItemDone(w) \/ (w \in Run /\ ThenCheckpoint(w)))
      \/ /\ TypeOf(w) = "dividends" /\ InsertDividends(w)
         /\ ItemDone(w) \/ (w \in Run /\ ThenCheckpoint(w))
  BY DEF Store, LoadKlines, LoadDividends, LoadFinancials, LoadValuations,
         LoadTail, FetchAndStoreDividends, FetchAndStoreFinancials, Snapshot
<1>3. ASSUME NEW p, Abort(w, p) PROVE SyncInv'
  <2>1. ItemFails(w, p) /\ UNCHANGED <<runs, data, letters, lost, published, today>>
    BY <1>1, <1>3 DEF Abort, data
  <2> QED BY <1>1, <2>1, AbortKeeps
<1>4. CASE Insert(w) /\ (ItemDone(w) \/ (w \in Run /\ ThenCheckpoint(w)))
  <2>1. stored' = [stored EXCEPT ![TableOf(w)] = @ \cup worker[w].rows]
    BY <1>4 DEF Insert
  <2> QED BY <1>1, <1>4, <2>1, InsertKeeps
<1>5. CASE /\ TypeOf(w) = "dividends" /\ InsertDividends(w)
           /\ ItemDone(w) \/ (w \in Run /\ ThenCheckpoint(w))
  <2>1. stored' = [stored EXCEPT ![TableOf(w)] = @ \cup worker[w].rows]
    BY <1>5 DEF InsertDividends, TableOf
  <2> QED BY <1>1, <1>5, <2>1, InsertKeeps
<1> QED BY <1>2, <1>3, <1>4, <1>5

(* The checkpoint of a price run: its item is one stock, and BehindOK says    *)
(* that nothing much older than its last row is missing.                      *)
LEMMA SaveCheckpointKeeps ==
  ASSUME SyncInv, NEW w \in Job, SaveCheckpoint(w)
  PROVE  SyncInv'
<1>1. /\ worker[w].pc = "checkpoint" /\ UNCHANGED <<runs, stored, cleaned, letters, lost, published, today>>
      /\ WorkerOK(w) /\ (w \in Run => StatusOK(w)) /\ Shape /\ RowsInv /\ NoHoles
      /\ CoverGrows
  BY SameCover DEF SaveCheckpoint, At, clock, history, SyncInv
<1>2. CASE ItemFails(w, TRUE) /\ UNCHANGED checkpoint
  <2>1. UNCHANGED data
    BY <1>1, <1>2 DEF SaveCheckpoint, data
  <2> QED BY <1>1, <1>2, <2>1, AbortKeeps
<1>3. CASE /\ ItemDone(w)
           /\ checkpoint' = [s \in Stock |->
                IF TableOf(w) = "klines" /\ s \in worker[w].item
                THEN Max({x[2] : x \in worker[w].rows}) ELSE checkpoint[s]]
  <2> DEFINE last == Max({x[2] : x \in worker[w].rows})
  <2>1. w \in Run /\ worker[w].rows # {}
    BY <1>1 DEF WorkerOK, HandOK
  <2>2. \A y \in worker[w].rows : y \in Row /\ y[1] \in worker[w].item /\ y[2] <= today
    BY <1>1 DEF WorkerOK, HandOK, Holding
  <2>3. PICK y \in worker[w].rows : y[2] = last
    <3>1. {x[2] : x \in worker[w].rows} \subseteq Day
      BY <2>2 DEF Row
    <3>2. {x[2] : x \in worker[w].rows} # {}
      BY <2>1
    <3>3. last \in {x[2] : x \in worker[w].rows}
      BY <3>1, <3>2, LastOf
    <3> QED BY <3>3
  <2>4. last \in Nat /\ last <= today
    BY <2>2, <2>3, SyncAssumption DEF Row, Day
  <2> HIDE DEF last
  <2>5. \A s \in Stock : checkpoint'[s] = IF TableOf(w) = "klines" /\ s \in worker[w].item
                                          THEN last ELSE checkpoint[s]
    BY <1>3 DEF last
  <2>6. RowsInv'
    BY <1>1, <2>4, <2>5 DEF RowsInv
  <2>7. NoHoles'
    <3>1. SUFFICES ASSUME NEW x \in published, checkpoint'[x[1]] # 0,
                          x[2] + Overlap < checkpoint'[x[1]]
                   PROVE  Covered("klines", x)
      BY <1>1 DEF NoHoles, Covered
    <3>2. x[1] \in Stock
      BY <1>1 DEF RowsInv, Row
    <3>3. CASE checkpoint'[x[1]] = checkpoint[x[1]]
      BY <1>1, <3>1, <3>3 DEF NoHoles, Covered
    <3>4. CASE TableOf(w) = "klines" /\ x[1] \in worker[w].item /\ checkpoint'[x[1]] = last
      <4>1. TypeOf(w) = "klines"
        BY <1>1, <2>1, <3>4, SyncAssumption DEF TableOf, TypeOf, RowsInv, Table
      <4> QED BY <1>1, <2>1, <2>3, <3>1, <3>4, <4>1 DEF WorkerOK, BehindOK, InHand, Holding
    <3> QED BY <2>5, <3>2, <3>3, <3>4
  <2>8. TableOf(w)' = TableOf(w)
    BY <1>1 DEF TableOf, TypeOf
  <2>9. ASSUME worker[w].bad = {}, NEW x \in worker[w].seen PROVE Covered(TableOf(w), x)'
    BY <1>1, <2>8, <2>9 DEF WorkerOK, SeenOK, InHand, Covered
  <2>10. runs'[w].status \in {"pending", "running", "cancelled", "failed"}
    BY <1>1, <2>1 DEF StatusOK, Holding
  <2>11. worker[w].bad = {} => \A x \in worker[w].seen : Covered(TableOf(w), x)'
    BY <2>9
  <2>12. PICK n : /\ IsWorker(n) /\ worker' = [worker EXCEPT ![w] = n]
                  /\ WorkerOK(w)' /\ (w \in Run => StatusOK(w)')
    BY <1>3, <2>8, <2>10, <2>11, DoneOK
  <2>13. /\ runs' = [r \in Run |-> runs'[r]] /\ \A r \in Run : IsRun(runs'[r])
         /\ stored' = [t \in Table |-> stored'[t]]
         /\ checkpoint' = [s \in Stock |-> checkpoint'[s]]
    BY <1>1, <1>3 DEF Shape
  <2> QED BY <1>1, <2>6, <2>7, <2>12, <2>13, OneTurn
<1> QED BY <1>2, <1>3 DEF SaveCheckpoint

(* The end of a run: each letter is a commit, and the first one carries the  *)
(* result; a thread that leaves without a letter reports no error.           *)
LEMMA EndKeeps ==
  ASSUME SyncInv, NEW r \in Run, End(r)
  PROVE  SyncInv'
<1> DEFINE left == {s \in Letters(r) : <<r, s>> \notin letters}
<1>1. /\ worker[r].pc = "end" /\ UNCHANGED <<data, published, today>> /\ r \in Job
      /\ IsWorker(worker[r]) /\ WorkerOK(r) /\ StatusOK(r) /\ Shape /\ RowsInv /\ NoHoles
      /\ IsRun(runs[r])
  BY DEF End, At, clock, SyncInv, Shape, Job
<1>2. UNCHANGED <<stored, checkpoint, cleaned>> /\ CoverGrows
  BY <1>1, SameCover DEF data
<1>3. ASSUME NEW n, IsWorker(n), worker' = [worker EXCEPT ![r] = n],
             n.pc \in {"end", "record"}, n.seen = worker[r].seen, n.bad = worker[r].bad,
             NEW m, IsRun(m), runs' = [runs EXCEPT ![r] = m], m.type = runs[r].type,
             letters \subseteq letters', lost \subseteq lost', StatusOK(r)'
      PROVE  SyncInv'
  <2>1. /\ runs'[r] = m /\ \A q \in Run : q # r => runs'[q] = runs[q]
        /\ runs' = [q \in Run |-> runs'[q]] /\ \A q \in Run : IsRun(runs'[q])
    BY <1>1, <1>3, RunTurn
  <2>2. worker'[r] = n
    BY <1>1, <1>3, WorkerTurn
  <2>3. WorkerOK(r)'
    BY <1>1, <1>2, <1>3, <2>1, <2>2, PassOK DEF Holding
  <2>4. RowsInv' /\ NoHoles'
    BY <1>1, <1>2, <1>3, <2>1, SameRows, SameHoles DEF RowsInv
  <2>5. stored' = [t \in Table |-> stored'[t]] /\ checkpoint' = [s \in Stock |-> checkpoint'[s]]
    BY <1>1, <1>2 DEF Shape
  <2> QED BY <1>1, <1>2, <1>3, <2>1, <2>2, <2>3, <2>4, <2>5, OneTurn
<1> DEFINE out == [worker[r] EXCEPT !.pc = "record"]
<1>4. /\ IsWorker(out) /\ out.pc = "record" /\ out.seen = worker[r].seen /\ out.bad = worker[r].bad
  BY <1>1 DEF IsWorker, WorkerField
<1>5. UNCHANGED worker => worker' = [worker EXCEPT ![r] = worker[r]]
  BY <1>1 DEF Shape
<1>6. UNCHANGED runs => runs' = [runs EXCEPT ![r] = runs[r]]
  BY <1>1 DEF Shape
<1>7. ASSUME NEW status, NEW failed, Record(r, status, failed)
      PROVE  \E m : /\ IsRun(m) /\ runs' = [runs EXCEPT ![r] = m] /\ runs'[r] = m
                    /\ m.type = runs[r].type /\ m.status = status /\ m.failed = failed
  <2> DEFINE m == [runs[r] EXCEPT !.status = status, !.failed = failed]
  <2>1. runs' = [runs EXCEPT ![r] = m]
    BY <1>1, <1>7 DEF Record, Shape
  <2>2. IsRun(m) /\ m.type = runs[r].type /\ m.status = status /\ m.failed = failed
    BY <1>1 DEF IsRun, RunField
  <2> HIDE DEF m
  <2>3. runs'[r] = m
    BY <1>1, <2>1 DEF Shape
  <2> QED BY <2>1, <2>2, <2>3
<1>8. Batch(r)' <=> Batch(r)
  <2>1. \/ UNCHANGED runs \/ \E status, failed : Record(r, status, failed)
    BY DEF End
  <2>2. runs'[r].type = runs[r].type
    BY <1>7, <2>1
  <2> QED BY <2>2, SyncAssumption DEF Batch, TypeOf
<1> HIDE DEF out
<1>9. CASE /\ left # {} /\ \E s \in left : letters' = letters \cup {<<r, s>>}
           /\ IF left = Letters(r)
              THEN Record(r, Result(r), worker[r].bad) ELSE UNCHANGED runs
           /\ UNCHANGED <<worker, lost>>
  <2>1. ~Batch(r) /\ Letters(r) = worker[r].bad /\ worker[r].bad # {}
    BY <1>9 DEF Letters
  <2>2. letters \subseteq letters' /\ Lettered(r)' # {}
    BY <1>9, <2>1 DEF Lettered
  <2>3. CASE left = Letters(r) /\ Record(r, Result(r), worker[r].bad)
    <3>1. PICK m : /\ IsRun(m) /\ runs' = [runs EXCEPT ![r] = m] /\ runs'[r] = m
                   /\ m.type = runs[r].type /\ m.status = Result(r) /\ m.failed = worker[r].bad
      BY <1>7, <2>3
    <3>2. Result(r) # "completed" /\ Result(r) # "none"
      BY <2>1 DEF Result
    <3>3. StatusOK(r)'
      BY <1>1, <1>8, <1>9, <2>1, <2>2, <3>1, <3>2 DEF StatusOK, Holding
    <3> QED BY <1>1, <1>3, <1>5, <1>9, <2>2, <3>1, <3>3
  <2>4. CASE UNCHANGED runs
    <3>1. StatusOK(r)'
      BY <1>1, <1>8, <1>9, <2>2, <2>4 DEF StatusOK, Holding
    <3> QED BY <1>1, <1>3, <1>5, <1>6, <1>9, <2>2, <2>4, <3>1
  <2> QED BY <1>9, <2>3, <2>4
<1>10. CASE /\ worker' = [worker EXCEPT ![r].pc = "record"] /\ UNCHANGED letters
            /\ lost \subseteq lost'
  <2>1. worker' = [worker EXCEPT ![r] = out]
    BY <1>10 DEF out
  <2>2. worker'[r] = out
    BY <1>1, <1>4, <2>1, WorkerTurn
  <2>3. CASE Record(r, "failed", {})
    <3>1. PICK m : /\ IsRun(m) /\ runs' = [runs EXCEPT ![r] = m] /\ runs'[r] = m
                   /\ m.type = runs[r].type /\ m.status = "failed"
      BY <1>7, <2>3
    <3>2. StatusOK(r)'
      BY <1>4, <2>2, <3>1 DEF StatusOK, Holding
    <3> QED BY <1>3, <1>4, <1>10, <2>1, <3>1, <3>2
  <2>4. CASE Letters(r) = {} /\ Record(r, Result(r), worker[r].bad)
    <3>1. PICK m : /\ IsRun(m) /\ runs' = [runs EXCEPT ![r] = m] /\ runs'[r] = m
                   /\ m.type = runs[r].type /\ m.status = Result(r) /\ m.failed = worker[r].bad
      BY <1>7, <2>4
    <3>2. Result(r) = "completed" => worker[r].bad = {}
      BY DEF Result
    <3>0. worker[r].bad = {} => Result(r) = "cancelled" \/ Result(r) = "completed"
      BY DEF Result
    <3>3. ~Batch(r) => worker[r].bad = {}
      BY <2>4 DEF Letters
    <3>4. Result(r) # "none"
      BY DEF Result
    <3>5. StatusOK(r)'
      BY <1>4, <1>8, <2>2, <3>0, <3>1, <3>2, <3>3, <3>4 DEF StatusOK, Holding
    <3> QED BY <1>3, <1>4, <1>10, <2>1, <3>1, <3>5
  <2>5. CASE UNCHANGED runs /\ (left = {} \/ r \in lost')
    <3>1. Lettered(r)' = Lettered(r) /\ worker'[r].bad = worker[r].bad
      BY <1>4, <1>10, <2>2 DEF Lettered
    <3>2. ~Batch(r) /\ left = {} => Lettered(r) = worker[r].bad
      BY DEF Letters, Lettered
    <3>3. StatusOK(r)'
      BY <1>1, <1>4, <1>8, <2>2, <2>5, <3>1, <3>2 DEF StatusOK, Holding
    <3> QED BY <1>1, <1>3, <1>4, <1>6, <1>10, <2>1, <2>5, <3>3
  <2> QED BY <1>10, <2>3, <2>4, <2>5 DEF End
<1> QED BY <1>9, <1>10 DEF End

LEMMA LeaveKeeps ==
  ASSUME SyncInv, NEW r \in Run, Leave(r)
  PROVE  SyncInv'
<1> DEFINE n == [Idle EXCEPT !.pc = "done"]
<1>1. /\ worker[r].pc = "record" /\ UNCHANGED <<runs, data, letters, lost, published, today>>
      /\ worker' = [worker EXCEPT ![r] = n] /\ r \in Job /\ StatusOK(r)
  BY DEF Leave, At, clock, history, Job, SyncInv
<1>2. IsWorker(n) /\ n.pc = "done" /\ n.seen = {}
  BY IdleShape
<1> HIDE DEF n
<1>3. worker'[r] = n
  BY <1>1, <1>2, WorkerTurn DEF SyncInv
<1>4. WorkerOK(r)' /\ StatusOK(r)'
  BY <1>1, <1>2, <1>3, FreshOK DEF Holding, StatusOK
<1> QED BY <1>1, <1>2, <1>4, QuietTurn

(* A step that moves no thread: users, the sweep and the environment. *)
LEMMA OutsideTurn ==
  ASSUME SyncInv, UNCHANGED <<worker, letters, lost, checkpoint, published, today>>,
         stored' = [t \in Table |-> stored'[t]], CoverGrows,
         runs' = [r \in Run |-> runs'[r]], \A r \in Run : IsRun(runs'[r]),
         \A r \in Run : /\ runs'[r].type = runs[r].type
                        /\ runs'[r] = runs[r] \/ runs'[r].status \in {"cancelled", "failed"}
  PROVE  SyncInv'
<1>1. Shape /\ RowsInv /\ NoHoles /\ UNCHANGED checkpoint /\ \A w \in Job : worker'[w] = worker[w]
  BY DEF SyncInv
<1>2. Shape'
  BY <1>1 DEF Shape
<1>3. RowsInv' /\ NoHoles'
  BY <1>1, SameRows, SameHoles DEF RowsInv
<1>4. \A w \in Job : WorkerOK(w)'
  BY <1>1, SameWorker DEF SyncInv
<1>5. \A r \in Run : StatusOK(r)'
  <2>1. SUFFICES ASSUME NEW r \in Run PROVE StatusOK(r)'
    OBVIOUS
  <2>2. StatusOK(r) /\ r \in Job
    BY DEF SyncInv, Job
  <2>3. CASE runs'[r] = runs[r]
    BY <1>1, <2>2, <2>3, SameStatus
  <2>4. CASE runs'[r].status \in {"cancelled", "failed"}
    BY <1>1, <2>2, <2>4 DEF StatusOK, Holding
  <2> QED BY <2>3, <2>4
<1> QED BY <1>2, <1>3, <1>4, <1>5 DEF SyncInv

LEMMA CancelKeeps ==
  ASSUME SyncInv, NEW r \in Run, CancelCommit(r)
  PROVE  SyncInv'
<1> DEFINE m == [runs[r] EXCEPT !.status = "cancelled"]
<1>1. /\ UNCHANGED <<worker, letters, lost, checkpoint, published, today, stored, cleaned>>
      /\ runs' = [runs EXCEPT ![r] = m] /\ Shape /\ IsRun(runs[r])
      /\ \A q \in Run : IsRun(runs[q])
  BY DEF CancelCommit, data, clock, history, SyncInv, Shape
<1>2. IsRun(m) /\ m.status = "cancelled" /\ m.type = runs[r].type
  BY <1>1 DEF IsRun, RunField
<1> HIDE DEF m
<1>3. /\ runs'[r] = m /\ \A q \in Run : q # r => runs'[q] = runs[q]
      /\ runs' = [q \in Run |-> runs'[q]] /\ \A q \in Run : IsRun(runs'[q])
  BY <1>1, <1>2, RunTurn
<1>4. CoverGrows /\ stored' = [t \in Table |-> stored'[t]]
  BY <1>1, SameCover DEF Shape
<1> QED BY <1>1, <1>2, <1>3, <1>4, OutsideTurn

LEMMA SweepKeeps ==
  ASSUME SyncInv, SweepCommit
  PROVE  SyncInv'
<1>1. /\ UNCHANGED <<worker, letters, lost, checkpoint, published, today, stored, cleaned>>
      /\ runs' = [r \in Run |->
                  IF r \in swept THEN [runs[r] EXCEPT !.status = "failed"] ELSE runs[r]]
      /\ Shape /\ \A r \in Run : IsRun(runs[r])
  BY DEF SweepCommit, data, clock, history, SyncInv, Shape
<1>2. ASSUME NEW r \in Run
      PROVE  LET m == [runs[r] EXCEPT !.status = "failed"]
             IN IsRun(m) /\ m.type = runs[r].type /\ m.status = "failed"
  BY <1>1 DEF IsRun, RunField
<1>3. \A r \in Run : /\ IsRun(runs'[r]) /\ runs'[r].type = runs[r].type
                     /\ runs'[r] = runs[r] \/ runs'[r].status \in {"cancelled", "failed"}
  BY <1>1, <1>2
<1>4. CoverGrows /\ stored' = [t \in Table |-> stored'[t]] /\ runs' = [r \in Run |-> runs'[r]]
  BY <1>1, SameCover DEF Shape
<1> QED BY <1>1, <1>3, <1>4, OutsideTurn

LEMMA CleanupKeeps ==
  ASSUME SyncInv, Cleanup
  PROVE  SyncInv'
<1>1. /\ UNCHANGED <<worker, runs, letters, lost, checkpoint, published, today>>
      /\ Shape /\ \A r \in Run : IsRun(runs[r])
  BY DEF Cleanup, clock, history, SyncInv, Shape
<1>2. PICK t \in Table, d \in 1..(LastDay + 1), before \in BOOLEAN :
        LET gone == {x \in stored[t] : IF before THEN x[2] < d ELSE x[2] > d} IN
        /\ gone # {}
        /\ stored' = [stored EXCEPT ![t] = @ \ gone]
        /\ doubled' = IF t = "dividends" THEN doubled \ gone ELSE doubled
        /\ cleaned' = cleaned \cup ({t} \X gone)
  BY Zenon DEF Cleanup
<1> DEFINE gone == {x \in stored[t] : IF before THEN x[2] < d ELSE x[2] > d}
<1>3. /\ stored' = [stored EXCEPT ![t] = @ \ gone]
      /\ cleaned' = cleaned \cup ({t} \X gone)
  BY <1>2
<1> HIDE DEF gone
<1>4. stored' = [u \in Table |-> stored'[u]]
  BY <1>1, <1>3 DEF Shape
<1>5. CoverGrows
  <2>1. SUFFICES ASSUME NEW u \in Table, NEW x, Covered(u, x) PROVE Covered(u, x)'
    BY DEF CoverGrows
  <2>2. stored'[u] = IF u = t THEN stored[t] \ gone ELSE stored[u]
    BY <1>1, <1>3 DEF Shape
  <2>3. u = t /\ x \in gone => <<u, x>> \in cleaned'
    BY <1>3
  <2> QED BY <1>3, <2>1, <2>2, <2>3 DEF Covered
<1>6. runs' = [r \in Run |-> runs'[r]]
  BY <1>1 DEF Shape
<1> QED BY <1>1, <1>4, <1>5, <1>6, OutsideTurn

(* A row that the provider publishes late is no hole: what lies so far before *)
(* a checkpoint or a row in hand was published long ago.                      *)
LEMMA PublishKeeps ==
  ASSUME SyncInv, Publish
  PROVE  SyncInv'
<1>1. /\ UNCHANGED <<runs, worker, data, letters, lost, today>>
      /\ Shape /\ RowsInv /\ NoHoles /\ \A w \in Job : WorkerOK(w)
  BY DEF Publish, history, SyncInv
<1>2. UNCHANGED <<stored, cleaned, checkpoint>>
  BY <1>1 DEF data
<1>3. published \subseteq published' /\ published' \subseteq Row
  BY <1>1 DEF Publish, RowsInv
<1>4. Shape'
  BY <1>1, <1>2 DEF Shape
<1>5. RowsInv'
  BY <1>1, <1>2, <1>3 DEF RowsInv
<1>6. ASSUME NEW x \in Row, NEW m \in Nat, m <= today, x[2] + Overlap < m
      PROVE  x \in published
  <2>1. x[2] \in Nat
    BY SyncAssumption DEF Row, Day
  <2>2. x[2] + Lag < today
    BY <1>1, <1>6, <2>1, SyncAssumption DEF RowsInv
  <2> QED BY <1>1, <2>2 DEF RowsInv
<1>7. NoHoles'
  <2>1. SUFFICES ASSUME NEW x \in published', checkpoint[x[1]] # 0, x[2] + Overlap < checkpoint[x[1]]
                 PROVE  Covered("klines", x)
    BY <1>2 DEF NoHoles, Covered
  <2>2. x \in Row /\ x[1] \in Stock
    BY <1>3 DEF Row
  <2>3. x \in published
    BY <1>1, <1>6, <2>1, <2>2 DEF RowsInv
  <2> QED BY <1>1, <2>1, <2>3 DEF NoHoles, Covered
<1>8. ASSUME NEW w \in Job PROVE WorkerOK(w)'
  <2>1. /\ TableOf(w)' = TableOf(w) /\ TypeOf(w)' = TypeOf(w) /\ (Batch(w)' <=> Batch(w))
        /\ worker'[w] = worker[w] /\ WorkerOK(w)
    BY <1>1 DEF TableOf, TypeOf, Batch
  <2>2. HandOK(w)' /\ SeenOK(w)'
    BY <1>1, <1>2, <2>1 DEF WorkerOK, HandOK, SeenOK, Covered, InHand
  <2>3. BehindOK(w)'
    <3>1. SUFFICES ASSUME w \in Run, TypeOf(w) = "klines", worker[w].pc \in Holding,
                          NEW y \in worker[w].rows, NEW x \in published',
                          x[1] \in worker[w].item, x[2] + Overlap < y[2]
                   PROVE  Covered("klines", x) \/ InHand(w, x)
      BY <1>2, <2>1 DEF BehindOK, Covered, InHand
    <3>2. y \in Row /\ y[2] <= today /\ y[2] \in Nat
      BY <2>1, <3>1, SyncAssumption DEF WorkerOK, HandOK, Row, Day
    <3>3. x \in published
      BY <1>3, <1>6, <3>1, <3>2
    <3> QED BY <2>1, <3>1, <3>3 DEF WorkerOK, BehindOK
  <2> QED BY <2>2, <2>3 DEF WorkerOK
<1>9. \A r \in Run : StatusOK(r)'
  BY <1>1, SameStatus DEF SyncInv
<1> QED BY <1>4, <1>5, <1>7, <1>8, <1>9 DEF SyncInv

LEMMA TickKeeps ==
  ASSUME SyncInv, Tick
  PROVE  SyncInv'
<1>1. /\ UNCHANGED <<runs, worker, data, letters, lost, published>> /\ today' = today + 1
      /\ Shape /\ RowsInv /\ NoHoles /\ \A w \in Job : WorkerOK(w)
      /\ \A x \in Row : x[2] + Lag <= today => x \in published
  BY DEF Tick, history, SyncInv
<1>2. UNCHANGED <<stored, cleaned, checkpoint>>
  BY <1>1 DEF data
<1>3. Shape' /\ NoHoles'
  BY <1>1, <1>2 DEF Shape, NoHoles
<1>4. RowsInv'
  <2>1. ASSUME NEW x \in Row, x[2] + Lag < today' PROVE x \in published
    <3>1. x[2] \in Nat /\ today \in Nat /\ Lag \in Nat
      BY <1>1, SyncAssumption DEF RowsInv, Row, Day
    <3> QED BY <1>1, <2>1, <3>1
  <2>2. \A s \in Stock : checkpoint[s] \in Nat /\ checkpoint[s] <= today'
    BY <1>1 DEF RowsInv
  <2> QED BY <1>1, <1>2, <2>1, <2>2 DEF RowsInv
<1>5. ASSUME NEW w \in Job PROVE WorkerOK(w)'
  <2>1. /\ TableOf(w)' = TableOf(w) /\ TypeOf(w)' = TypeOf(w) /\ (Batch(w)' <=> Batch(w))
        /\ worker'[w] = worker[w] /\ WorkerOK(w)
    BY <1>1 DEF TableOf, TypeOf, Batch
  <2>2. HandOK(w)'
    <3>1. \A y \in Row : y[2] <= today => y[2] <= today'
      BY <1>1, SyncAssumption DEF RowsInv, Row, Day
    <3> QED BY <2>1, <3>1 DEF WorkerOK, HandOK
  <2>3. SeenOK(w)' /\ BehindOK(w)'
    BY <1>1, <1>2, <2>1 DEF WorkerOK, SeenOK, BehindOK, Covered, InHand
  <2> QED BY <2>2, <2>3 DEF WorkerOK
<1>6. \A r \in Run : StatusOK(r)'
  BY <1>1, SameStatus DEF SyncInv
<1> QED BY <1>3, <1>4, <1>5, <1>6 DEF SyncInv

LEMMA RestartKeeps ==
  ASSUME SyncInv, Restart
  PROVE  SyncInv'
<1> DEFINE n == [Idle EXCEPT !.pc = "dead"]
<1>1. /\ UNCHANGED <<runs, data, letters, lost, published, today>>
      /\ worker' = [w \in Job |-> IF Alive(w) THEN n ELSE worker[w]]
      /\ Shape /\ RowsInv /\ NoHoles /\ \A w \in Job : WorkerOK(w) /\ IsWorker(worker[w])
  BY DEF Restart, SyncInv, Shape
<1>2. UNCHANGED <<stored, cleaned, checkpoint>> /\ CoverGrows
  BY <1>1, SameCover DEF data
<1>3. IsWorker(n) /\ n.pc = "dead" /\ n.seen = {}
  BY IdleShape
<1> HIDE DEF n
<1>4. \A w \in Job : worker'[w] = n \/ worker'[w] = worker[w]
  BY <1>1
<1>5. Shape'
  <2>1. worker' = [w \in Job |-> worker'[w]] /\ \A w \in Job : IsWorker(worker'[w])
    BY <1>1, <1>3
  <2> QED BY <1>1, <1>2, <2>1 DEF Shape
<1>6. RowsInv' /\ NoHoles'
  BY <1>1, <1>2, SameRows, SameHoles DEF RowsInv
<1>7. ASSUME NEW w \in Job PROVE WorkerOK(w)'
  <2>1. CASE worker'[w] = n
    BY <1>3, <2>1, FreshOK DEF Holding
  <2>2. CASE worker'[w] = worker[w]
    BY <1>1, <1>2, <2>2, SameWorker
  <2> QED BY <1>4, <2>1, <2>2
<1>8. ASSUME NEW r \in Run PROVE StatusOK(r)'
  <2>1. r \in Job /\ StatusOK(r)
    BY DEF Job, SyncInv
  <2>2. CASE Alive(r)
    <3>1. worker'[r] = n /\ runs[r].status # "none"
      BY <1>1, <2>1, <2>2 DEF StatusOK, Alive
    <3> QED BY <1>1, <1>3, <3>1 DEF StatusOK, Holding
  <2>3. CASE ~Alive(r)
    <3>1. worker'[r] = worker[r]
      BY <1>1, <2>1, <2>3
    <3> QED BY <1>1, <2>1, <3>1, SameStatus
  <2> QED BY <2>2, <2>3
<1> QED BY <1>5, <1>6, <1>7, <1>8 DEF SyncInv

LEMMA StutterKeeps ==
  ASSUME SyncInv, UNCHANGED <<runs, worker, data, letters, lost, published, today>>
  PROVE  SyncInv'
<1>1. UNCHANGED <<stored, cleaned, checkpoint>> /\ Shape /\ CoverGrows
  BY SameCover DEF data, SyncInv
<1>2. /\ stored' = [t \in Table |-> stored'[t]] /\ runs' = [r \in Run |-> runs'[r]]
      /\ \A r \in Run : IsRun(runs'[r])
  BY <1>1 DEF Shape
<1> QED BY <1>1, <1>2, OutsideTurn

LEMMA NextSync == SyncInv /\ [Next]_vars => SyncInv'
<1> SUFFICES ASSUME SyncInv, [Next]_vars PROVE SyncInv'
  OBVIOUS
<1>1. ASSUME NEW w \in Job, Work(w) PROVE SyncInv'
  BY <1>1, NextItemKeeps, FetchKeeps, CompareKeeps, StoreKeeps, SaveCheckpointKeeps DEF Work
<1>2. ASSUME NEW r \in Run, Start(r) \/ Thread(r) \/ CancelRead(r) \/ CancelCommit(r) \/ CancelFlag(r)
      PROVE  SyncInv'
  <2>1. CASE Start(r)
    BY <2>1, StartKeeps
  <2>2. CASE Thread(r)
    BY <1>1, <2>2, LoadKeeps, EnterKeeps, EndKeeps, LeaveKeeps DEF Thread, Job
  <2>3. CASE CancelRead(r) \/ CancelFlag(r)
    BY <2>3, StutterKeeps DEF CancelRead, CancelFlag, clock, history
  <2>4. CASE CancelCommit(r)
    BY <2>4, CancelKeeps
  <2> QED BY <1>2, <2>1, <2>2, <2>3, <2>4
<1>3. ASSUME NEW r \in Run, NEW q \in Run, RetryFailed(r, q) PROVE SyncInv'
  BY <1>3, StartKeeps
<1>4. ASSUME NEW w \in Task, StartTask(w) \/ Work(w) PROVE SyncInv'
  BY <1>1, <1>4, StartTaskKeeps DEF Job
<1>5. CASE Cleanup \/ SweepCommit \/ Publish \/ Tick \/ Restart
  BY <1>5, CleanupKeeps, SweepKeeps, PublishKeeps, TickKeeps, RestartKeeps
<1>6. CASE SweepRead \/ Age \/ UNCHANGED vars
  BY <1>6, StutterKeeps DEF SweepRead, Age, clock, history, vars
<1> QED BY <1>2, <1>3, <1>4, <1>5, <1>6 DEF Next

-----------------------------------------------------------------------------
(* Results.                                                                 *)

(* The strengthened invariant holds in every reachable state. *)
LEMMA SyncInvariant == Spec => []SyncInv
  BY InitSync, NextSync, PTL DEF Spec

(* Theorem: whatever runs and tasks overlap, fail, are cancelled, retried or  *)
(* end with the process, and however late within its Lag the provider         *)
(* publishes, no price row lies before the window of the next incremental run *)
(* unless its table has it or a user deleted it (KlinePipeline.load and the   *)
(* checkpoint it saves in a second commit).                                   *)
THEOREM SeriesHaveNoHoles == Spec => []NoHoles
<1>1. SyncInv => NoHoles
  BY DEF SyncInv
<1> QED BY <1>1, SyncInvariant, PTL

(* Theorem: a thread that leaves its run "completed" has every row it was     *)
(* given in its table, its own or one that another job stored first, although *)
(* each item is compared, committed and counted in different steps            *)
(* (BasePipeline.run and the load of each pipeline).                          *)
THEOREM CompletedRunsStored == Spec => []CompletedIsStored
<1>1. SyncInv => CompletedIsStored
  <2>1. SUFFICES ASSUME SyncInv, NEW r \in Run, runs[r].status = "completed",
                        worker[r].pc = "record", NEW x \in worker[r].seen
                 PROVE  Covered(TableOf(r), x)
    BY DEF CompletedIsStored, At, Covered
  <2>2. StatusOK(r) /\ SeenOK(r)
    BY <2>1 DEF SyncInv, WorkerOK, Job
  <2> QED BY <2>1, <2>2 DEF StatusOK, SeenOK, InHand
<1> QED BY <1>1, SyncInvariant, PTL

(* Theorem: a thread that leaves its run "completed_with_errors" has named in *)
(* the summary, for a retry, exactly the stocks that failed, has written a    *)
(* dead letter for at least one of them, and for each of them unless both the *)
(* commit of a letter and the commit that was then to fail the run failed     *)
(* (PipelineManager._execute_with_db, DeadLetterQueue.push).                  *)
THEOREM ErrorsLeaveLetters == Spec => []DeadLettersComplete
<1>1. SyncInv => DeadLettersComplete
  BY DEF SyncInv, StatusOK, Lettered, DeadLettersComplete, At
<1> QED BY <1>1, SyncInvariant, PTL

=============================================================================
