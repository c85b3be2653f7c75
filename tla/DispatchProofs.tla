--------------------------- MODULE DispatchProofs ---------------------------
(***************************************************************************)
(* Theorems about the dispatch core, for every number of tasks,            *)
(* workstations, workers and every limit.                                  *)
(***************************************************************************)
EXTENDS DispatchProperties, TLAPS

-----------------------------------------------------------------------------
\* Type correctness

LEMMA NoneIsNothing ==
  None \notin Tasks /\ None \notin Workstations /\ None \notin Procs /\ None \notin Jobs
BY ConstantsOK DEF ConstantsOK

LEMMA BudgetType ==
  ASSUME budget \in Nat, NEW k, NEW S, Spend(k, S)
  PROVE  budget' \in Nat
BY DEF Spend

\* The ways in which the actions change a row of tasks keep it a row.
LEMMA TaskRowChanges ==
  ASSUME NEW row \in TaskRow
  PROVE  /\ \A s \in TaskStatus :
              /\ [row EXCEPT !.status = s, !.zombies = @ + 1, !.ws = None, !.age = "none"] \in TaskRow
              /\ [row EXCEPT !.status = s, !.zombies = @ + 1] \in TaskRow
              /\ [row EXCEPT !.status = s, !.zombies = @ + 1, !.retry = @ + 1] \in TaskRow
         /\ \A n \in Nat : Resumed(row, n) \in TaskRow
         /\ row.resumed \in Nat /\ row.resumed + 1 \in Nat
<1>1. /\ row.zombies + 1 \in Nat /\ row.retry + 1 \in Nat
      /\ row.resumed \in Nat /\ row.resumed + 1 \in Nat
  BY DEF TaskRow
<1>2. \A s \in TaskStatus, z \in Nat, r \in Nat :
        /\ [row EXCEPT !.status = s, !.zombies = z, !.ws = None, !.age = "none"] \in TaskRow
        /\ [row EXCEPT !.status = s, !.zombies = z] \in TaskRow
        /\ [row EXCEPT !.status = s, !.zombies = z, !.retry = r] \in TaskRow
  BY DEF TaskRow
<1>3. \A n \in Nat : Resumed(row, n) \in TaskRow
  BY DEF TaskRow, TaskStatus, Resumed
<1> QED BY <1>1, <1>2, <1>3

\* A row of workstations keeps its type when its status and its timer change.
LEMMA StationRowChanges ==
  ASSUME NEW row \in StationRow
  PROVE  \A s \in StationStatus :
           /\ [row EXCEPT !.status = s] \in StationRow
           /\ [row EXCEPT !.status = s, !.timer = "none"] \in StationRow
           /\ [row EXCEPT !.timer = "none", !.status = s] \in StationRow
           /\ [row EXCEPT !.status = s, !.timer = "running"] \in StationRow
BY DEF StationRow

LEMMA QuietType == Quiet("idle") \in SchedState /\ Quiet("down") \in SchedState
BY DEF Quiet, NothingListed, SchedState, StationStatus

LEMMA InitType == Init => TypeOK
<1> SUFFICES ASSUME Init PROVE TypeOK
  OBVIOUS
<1>1. task \in [Tasks -> TaskRow]
  BY ConstantsOK DEF Init, ConstantsOK, TaskRow, TaskStatus
<1>2. station \in [Workstations -> StationRow]
  BY DEF Init, NewStation, StationRow, StationStatus
<1>3. sched \in [Procs -> SchedState]
  BY DEF Init, Quiet, NothingListed, SchedState, StationStatus
<1>4. /\ flight \in [Procs -> [Workstations -> Jobs \cup {None}]]
      /\ job \in [Jobs -> JobRow]
      /\ req \in [Procs -> ReqState]
      /\ budget \in Nat
  BY ConstantsOK DEF Init, NoFlight, FreeJob, JobRow, NoReq, ReqState, ConstantsOK
<1> QED BY <1>1, <1>2, <1>3, <1>4 DEF TypeOK

LEMMA BootType == ASSUME TypeOK, NEW p \in Procs, Boot(p) PROVE TypeOK'
<1>1. task' \in [Tasks -> TaskRow]
  <2>1. \A t \in Tasks : task[t] \in TaskRow
    BY DEF TypeOK
  <2>2. \A t \in Tasks :
          (IF Escalated(task[t], StartupLimit) THEN "manual_review" ELSE "retry_waiting") \in TaskStatus
    BY DEF TaskStatus
  <2> QED BY <2>1, <2>2, TaskRowChanges DEF Boot
<1>2. station' \in [Workstations -> StationRow]
  BY StationRowChanges DEF TypeOK, Boot, StationStatus
<1>3. sched' \in [Procs -> SchedState]
  BY QuietType DEF TypeOK, Boot
<1> QED BY <1>1, <1>2, <1>3 DEF TypeOK, Boot

LEMMA CrashType == ASSUME TypeOK, NEW p \in Procs, Crash(p) PROVE TypeOK'
<1>1. sched' \in [Procs -> SchedState]
  BY QuietType DEF TypeOK, Crash
<1>2. /\ flight' \in [Procs -> [Workstations -> Jobs \cup {None}]]
      /\ job' \in [Jobs -> JobRow]
      /\ req' \in [Procs -> ReqState]
  BY DEF TypeOK, Crash, NoFlight, FreeJob, JobRow, NoReq, ReqState
<1>3. budget' \in Nat
  BY BudgetType DEF TypeOK, Crash
<1> QED BY <1>1, <1>2, <1>3 DEF TypeOK, Crash

LEMMA GotoType ==
  ASSUME TypeOK, NEW p \in Procs, NEW c \in PassSteps \cup {"loop"}, Goto(p, c)
  PROVE  sched' \in [Procs -> SchedState]
<1>1. [sched[p] EXCEPT !.pc = c] \in SchedState
  BY DEF TypeOK, SchedState
<1> QED BY <1>1 DEF TypeOK, Goto

LEMMA PassPrologueType ==
  ASSUME TypeOK, NEW p \in Procs,
         StartPass(p) \/ Sync(p) \/ RecoverCooldowns(p) \/ ReleaseOrphans(p)
           \/ RecoverZombies(p) \/ FindHealthy(p) \/ AutoResume(p) \/ PassFails(p)
  PROVE  TypeOK'
<1>1. CASE StartPass(p)
  <2>1. sched' \in [Procs -> SchedState]
    BY <1>1 DEF TypeOK, StartPass, Quiet, NothingListed, SchedState, StationRow, PassSteps
  <2> QED BY <1>1, <2>1 DEF TypeOK, StartPass
<1>2. CASE Sync(p)
  <2>1. station' \in [Workstations -> StationRow]
    <3>1. \A w \in Workstations : /\ sched[p].listed[w].status \in StationStatus
                                  /\ sched[p].listed[w].url \in BOOLEAN
      BY DEF TypeOK, SchedState
    <3> QED BY <1>2, <3>1 DEF TypeOK, Sync, NewStation, StationRow
  <2>2. sched' \in [Procs -> SchedState]
    BY <1>2 DEF TypeOK, Sync, Quiet, NothingListed, Listed, SchedState, StationStatus, PassSteps
  <2> QED BY <1>2, <2>1, <2>2 DEF TypeOK, Sync
<1>3. CASE RecoverCooldowns(p)
  <2>1. station' \in [Workstations -> StationRow]
    BY <1>3, StationRowChanges DEF TypeOK, RecoverCooldowns, StationStatus
  <2>2. sched' \in [Procs -> SchedState]
    BY <1>3, GotoType DEF RecoverCooldowns, PassSteps
  <2> QED BY <1>3, <2>1, <2>2 DEF TypeOK, RecoverCooldowns
<1>4. CASE ReleaseOrphans(p)
  <2>1. station' \in [Workstations -> StationRow]
    BY <1>4, StationRowChanges DEF TypeOK, ReleaseOrphans, StationStatus
  <2>2. sched' \in [Procs -> SchedState]
    BY <1>4, GotoType DEF ReleaseOrphans, PassSteps
  <2> QED BY <1>4, <2>1, <2>2 DEF TypeOK, ReleaseOrphans
<1>5. CASE RecoverZombies(p)
  <2>1. task' \in [Tasks -> TaskRow]
    BY <1>5, TaskRowChanges DEF TypeOK, RecoverZombies, TaskStatus
  <2>2. station' \in [Workstations -> StationRow]
    BY <1>5, StationRowChanges DEF TypeOK, RecoverZombies, StationStatus
  <2>3. sched' \in [Procs -> SchedState]
    BY <1>5, GotoType DEF RecoverZombies, PassSteps
  <2> QED BY <1>5, <2>1, <2>2, <2>3 DEF TypeOK, RecoverZombies
<1>6. CASE AutoResume(p)
  <2>1. task' \in [Tasks -> TaskRow]
    BY <1>6, TaskRowChanges DEF TypeOK, AutoResume
  <2>2. sched' \in [Procs -> SchedState]
    BY <1>6, GotoType DEF AutoResume
  <2> QED BY <1>6, <2>1, <2>2 DEF TypeOK, AutoResume
<1>7. CASE FindHealthy(p)
  <2>1. PICK c \in {"autoresume", "loop"} : Goto(p, c)
    BY <1>7 DEF FindHealthy
  <2>2. sched' \in [Procs -> SchedState]
    BY <2>1, GotoType DEF PassSteps
  <2> QED BY <1>7, <2>2 DEF TypeOK, FindHealthy
<1>8. CASE PassFails(p)
  <2>1. /\ [sched[p] EXCEPT !.pc = "drain"] \in SchedState
        /\ Quiet("idle") \in SchedState
    BY DEF TypeOK, SchedState, Quiet, NothingListed, StationStatus
  <2>2. sched' \in [Procs -> SchedState]
    BY <1>8, <2>1 DEF TypeOK, PassFails
  <2>3. budget' \in Nat
    BY <1>8, BudgetType DEF TypeOK, PassFails
  <2> QED BY <1>8, <2>2, <2>3 DEF TypeOK, PassFails
<1> QED BY <1>1, <1>2, <1>3, <1>4, <1>5, <1>6, <1>7, <1>8

LEMMA SchedType == ASSUME TypeOK, NEW p \in Procs PROVE sched[p] \in SchedState
BY DEF TypeOK

LEMMA ReleaseDoneType ==
  ASSUME TypeOK, NEW p \in Procs, ReleaseDone(p)
  PROVE  /\ flight' \in [Procs -> [Workstations -> Jobs \cup {None}]]
         /\ job' \in [Jobs -> JobRow]
BY DEF TypeOK, ReleaseDone, FreeJob, JobRow

LEMMA ClaimType ==
  ASSUME TypeOK, NEW w \in Workstations, NEW t \in Tasks, ClaimOne(w, t)
  PROVE  /\ task' \in [Tasks -> TaskRow]
         /\ station' \in [Workstations -> StationRow]
<1>1. task' \in [Tasks -> TaskRow]
  <2>1. [task[t] EXCEPT !.status = "running", !.ws = w, !.age = "fresh"] \in TaskRow
    BY DEF TypeOK, TaskRow, TaskStatus
  <2> QED BY <2>1 DEF TypeOK, ClaimOne
<1>2. \A v \in Workstations : Rolled(v) \in StationRow
  BY DEF TypeOK, Rolled, StationRow
<1>3. station' \in [Workstations -> StationRow]
  BY <1>2 DEF TypeOK, ClaimOne, StationRow, StationStatus
<1> QED BY <1>1, <1>3

LEMMA LoopType ==
  ASSUME TypeOK, NEW p \in Procs,
         RoundClaims(p) \/ RoundWaits(p) \/ RoundExits(p)
           \/ Submit(p) \/ AwaitReturns(p) \/ EndPass(p)
  PROVE  TypeOK'
<1>1. CASE RoundClaims(p)
  <2>1. PICK w \in Workstations, t \in Tasks :
          /\ ClaimOne(w, t)
          /\ sched' = [sched EXCEPT ![p] =
               IF w \in sched[p].known
               THEN [@ EXCEPT !.pc = "stagger", !.ws = w, !.task = t]
               ELSE [@ EXCEPT !.pc = "drain"]]
    BY <1>1 DEF RoundClaims
  <2>2. sched' \in [Procs -> SchedState]
    <3>1. /\ [sched[p] EXCEPT !.pc = "stagger", !.ws = w, !.task = t] \in SchedState
          /\ [sched[p] EXCEPT !.pc = "drain"] \in SchedState
      BY SchedType DEF SchedState
    <3> QED BY <2>1, <3>1 DEF TypeOK
  <2> QED BY <1>1, <2>1, <2>2, ReleaseDoneType, ClaimType DEF TypeOK, RoundClaims
<1>2. CASE RoundWaits(p)
  <2>1. sched' \in [Procs -> SchedState]
    <3>1. PICK w \in StillIn(p) : sched' = [sched EXCEPT ![p].pc = "await", ![p].ws = w]
      BY <1>2 DEF RoundWaits
    <3>2. w \in Workstations
      BY DEF StillIn, InFlight
    <3>3. [sched[p] EXCEPT !.pc = "await", !.ws = w] \in SchedState
      BY <3>2, SchedType DEF SchedState
    <3>4. sched' = [sched EXCEPT ![p] = [sched[p] EXCEPT !.pc = "await", !.ws = w]]
      BY <3>1 DEF TypeOK
    <3> QED BY <3>3, <3>4 DEF TypeOK
  <2> QED BY <1>2, <2>1, ReleaseDoneType DEF TypeOK, RoundWaits
<1>3. CASE RoundExits(p)
  <2>1. sched' \in [Procs -> SchedState]
    <3>1. [sched[p] EXCEPT !.pc = "drain"] \in SchedState
      BY SchedType DEF SchedState
    <3> QED BY <1>3, <3>1 DEF TypeOK, RoundExits, Goto
  <2> QED BY <1>3, <2>1, ReleaseDoneType DEF TypeOK, RoundExits
<1>4. CASE Submit(p)
  <2>1. /\ sched[p].ws \in Workstations \cup {None}
        /\ sched[p].task \in Tasks \cup {None}
    BY DEF TypeOK, SchedState
  <2>2. sched' \in [Procs -> SchedState]
    <3>1. [sched[p] EXCEPT !.pc = "loop", !.ws = None, !.task = None] \in SchedState
      BY SchedType DEF SchedState
    <3>2. sched' = [sched EXCEPT ![p] = [sched[p] EXCEPT !.pc = "loop", !.ws = None, !.task = None]]
      BY <1>4 DEF Submit, TypeOK
    <3> QED BY <3>1, <3>2 DEF TypeOK
  <2>3. job' \in [Jobs -> JobRow]
    BY <1>4, <2>1 DEF TypeOK, Submit, FreeJob, JobRow
  <2>4. flight' \in [Procs -> [Workstations -> Jobs \cup {None}]]
    <3>1. PICK j \in Jobs : flight' = [flight EXCEPT ![p][sched[p].ws] = j]
      BY <1>4 DEF Submit
    <3> QED BY <3>1 DEF TypeOK
  <2> QED BY <1>4, <2>2, <2>3, <2>4 DEF TypeOK, Submit
<1>5. CASE AwaitReturns(p)
  <2>1. sched' \in [Procs -> SchedState]
    <3>1. PICK c \in {"loop", "drain"} : sched' = [sched EXCEPT ![p].ws = None, ![p].pc = c]
      BY <1>5 DEF AwaitReturns
    <3>2. [sched[p] EXCEPT !.ws = None, !.pc = c] \in SchedState
      BY SchedType DEF SchedState
    <3>3. sched' = [sched EXCEPT ![p] = [sched[p] EXCEPT !.ws = None, !.pc = c]]
      BY <3>1 DEF TypeOK
    <3> QED BY <3>2, <3>3 DEF TypeOK
  <2> QED BY <1>5, <2>1 DEF TypeOK, AwaitReturns
<1>6. CASE EndPass(p)
  <2>1. sched' \in [Procs -> SchedState]
    BY <1>6 DEF TypeOK, EndPass, Quiet, NothingListed, SchedState, StationStatus
  <2>2. /\ flight' \in [Procs -> [Workstations -> Jobs \cup {None}]]
        /\ job' \in [Jobs -> JobRow]
    BY <1>6 DEF TypeOK, EndPass, NoFlight, FreeJob, JobRow
  <2> QED BY <1>6, <2>1, <2>2 DEF TypeOK, EndPass
<1> QED BY <1>1, <1>2, <1>3, <1>4, <1>5, <1>6

LEMMA StationAfterType ==
  ASSUME NEW old \in StationRow, NEW outcome
  PROVE  StationAfter(old, outcome) \subseteq StationRow
<1>1. /\ \A s \in StationStatus, timer \in {"none", "running"} :
           [old EXCEPT !.status = s, !.timer = timer] \in StationRow
      /\ [old EXCEPT !.status = "healthy"] \in StationRow
  BY DEF StationRow, StationStatus
<1>2. {"cooldown", "manual_check", "healthy"} \subseteq StationStatus
  BY DEF StationStatus
<1>3. CASE outcome = "manual_check"
  BY <1>1, <1>2, <1>3 DEF StationAfter
<1>4. CASE outcome = "page_failure"
  BY <1>1, <1>2, <1>4 DEF StationAfter
<1>5. CASE outcome \notin {"manual_check", "page_failure"}
  BY <1>1, <1>2, <1>5 DEF StationAfter
<1> QED BY <1>3, <1>4, <1>5

LEMMA WorkerType ==
  ASSUME TypeOK, NEW j \in Jobs, WorkerStep(j)
  PROVE  TypeOK'
<1>1. \A st \in {"returned", "raised"} : Settle(j, st) => job' \in [Jobs -> JobRow]
  <2>1. FreeJob \in JobRow /\ \A st \in {"returned", "raised"} : [job[j] EXCEPT !.st = st] \in JobRow
    BY DEF TypeOK, FreeJob, JobRow
  <2> QED BY <2>1 DEF TypeOK, Settle
<1>2. CASE Finalize(j)
  <2> DEFINE t == job[j].task
             w == job[j].ws
  <2>1. PICK o \in Outcomes :
          /\ task' = [task EXCEPT ![t].status = o[1],
               ![t].retry = IF o[1] = "retry_waiting" /\ task[t].status = "running"
                            THEN @ + 1 ELSE @]
          /\ \E row \in StationAfter([station[w] EXCEPT !.used = @ + 1], o[2]) :
               station' = [station EXCEPT ![w] = row]
    BY <1>2 DEF Finalize
  <2>2. task' \in [Tasks -> TaskRow]
    <3>1. o[1] \in TaskStatus
      BY DEF Outcomes, TaskStatus
    <3>2. CASE t \in Tasks
      <4>1. task[t] \in TaskRow /\ task[t].retry \in Nat /\ task[t].retry + 1 \in Nat
        BY <3>2 DEF TypeOK, TaskRow
      <4>2. \A r \in Nat : [task[t] EXCEPT !.status = o[1], !.retry = r] \in TaskRow
        BY <3>1, <4>1 DEF TaskRow
      <4>3. PICK r \in Nat : task' = [task EXCEPT ![t].status = o[1], ![t].retry = r]
        BY <2>1, <4>1
      <4>4. task' = [task EXCEPT ![t] = [task[t] EXCEPT !.status = o[1], !.retry = r]]
        BY <3>2, <4>3 DEF TypeOK
      <4> QED BY <3>2, <4>2, <4>4 DEF TypeOK
    <3>3. CASE t \notin Tasks
      BY <2>1, <3>3 DEF TypeOK
    <3> QED BY <3>2, <3>3
  <2>3. station' \in [Workstations -> StationRow]
    <3>1. PICK row \in StationAfter([station[w] EXCEPT !.used = @ + 1], o[2]) :
            station' = [station EXCEPT ![w] = row]
      BY <2>1
    <3>2. CASE w \in Workstations
      <4>1. [station[w] EXCEPT !.used = @ + 1] \in StationRow
        <5>1. station[w] \in StationRow /\ station[w].used + 1 \in Nat
          BY <3>2 DEF TypeOK, StationRow
        <5> QED BY <5>1 DEF StationRow
      <4>2. \A old \in StationRow : StationAfter(old, o[2]) \subseteq StationRow
        BY StationAfterType
      <4> QED BY <3>1, <3>2, <4>1, <4>2 DEF TypeOK
    <3>3. CASE w \notin Workstations
      BY <3>1, <3>3 DEF TypeOK
    <3> QED BY <3>2, <3>3
  <2> QED BY <1>1, <1>2, <2>2, <2>3 DEF TypeOK, Finalize
<1>3. CASE FinalizeFails(j)
  BY <1>1, <1>3 DEF TypeOK, FinalizeFails
<1>4. CASE WorkerRaises(j)
  BY <1>1, <1>4, BudgetType DEF TypeOK, WorkerRaises
<1> QED BY <1>2, <1>3, <1>4 DEF WorkerStep

LEMMA ClockType ==
  ASSUME TypeOK,
         \/ \E t \in Tasks : GrowsStale(t)
         \/ \E w \in Workstations : TimerElapses(w)
         \/ Midnight
  PROVE  TypeOK'
<1>1. ASSUME NEW t \in Tasks, GrowsStale(t) PROVE TypeOK'
  <2>1. task' \in [Tasks -> TaskRow]
    BY <1>1 DEF TypeOK, GrowsStale, TaskRow
  <2> QED BY <1>1, <2>1 DEF TypeOK, GrowsStale
<1>2. ASSUME NEW w \in Workstations, TimerElapses(w) PROVE TypeOK'
  <2>1. station' \in [Workstations -> StationRow]
    BY <1>2 DEF TypeOK, TimerElapses, StationRow
  <2> QED BY <1>2, <2>1 DEF TypeOK, TimerElapses
<1>3. CASE Midnight
  <2>1. station' \in [Workstations -> StationRow]
    BY <1>3 DEF TypeOK, Midnight, StationRow
  <2> QED BY <1>3, <2>1 DEF TypeOK, Midnight
<1> QED BY <1>1, <1>2, <1>3

LEMMA TaskOperatorType ==
  ASSUME TypeOK,
         \/ \E p \in Procs : ResumeTask(p) \/ DeleteTask(p)
         \/ \E p \in Procs, t \in Tasks : ReadForRequest(p, t)
         \/ \E t \in Tasks : TaskReset(t)
  PROVE  TypeOK'
<1>1. ASSUME NEW p \in Procs, ResumeTask(p) PROVE TypeOK'
  <2>1. task' \in [Tasks -> TaskRow]
    BY <1>1, TaskRowChanges DEF TypeOK, ResumeTask
  <2>2. req' \in [Procs -> ReqState]
    BY <1>1 DEF TypeOK, ResumeTask, NoReq, ReqState
  <2> QED BY <1>1, <2>1, <2>2 DEF TypeOK, ResumeTask
<1>2. ASSUME NEW p \in Procs, DeleteTask(p) PROVE TypeOK'
  <2>1. \A row \in TaskRow :
          /\ [row EXCEPT !.status = "absent", !.ws = None, !.dep = None, !.age = "none"] \in TaskRow
          /\ [row EXCEPT !.dep = None] \in TaskRow
    BY DEF TaskRow, TaskStatus
  <2>2. task' \in [Tasks -> TaskRow]
    BY <1>2, <2>1 DEF TypeOK, DeleteTask
  <2>3. req' \in [Procs -> ReqState]
    BY <1>2 DEF TypeOK, DeleteTask, NoReq, ReqState
  <2> QED BY <1>2, <2>2, <2>3 DEF TypeOK, DeleteTask
<1>3. ASSUME NEW p \in Procs, NEW t \in Tasks, ReadForRequest(p, t) PROVE TypeOK'
  <2>1. req' \in [Procs -> ReqState]
    BY <1>3 DEF TypeOK, ReadForRequest, ReqState
  <2>2. budget' \in Nat
    BY <1>3, BudgetType DEF TypeOK, ReadForRequest
  <2> QED BY <1>3, <2>1, <2>2 DEF TypeOK, ReadForRequest
<1>4. ASSUME NEW t \in Tasks, TaskReset(t) PROVE TypeOK'
  <2>1. PICK zombies \in {task[t].zombies, 0} :
          task' = [task EXCEPT ![t] = [Resumed(@, @.resumed) EXCEPT !.zombies = zombies]]
    BY <1>4 DEF TaskReset
  <2> DEFINE row == Resumed(task[t], task[t].resumed)
  <2>2. task[t] \in TaskRow /\ zombies \in Nat /\ task[t].resumed \in Nat
    BY <2>1 DEF TypeOK, TaskRow
  <2>3. row \in TaskRow
    BY <2>2, TaskRowChanges
  <2>4. [row EXCEPT !.zombies = zombies] \in TaskRow
    <3> HIDE DEF row
    <3> QED BY <2>2, <2>3 DEF TaskRow
  <2>5. task' \in [Tasks -> TaskRow]
    BY <2>1, <2>4 DEF TypeOK
  <2>6. budget' \in Nat
    BY <1>4, BudgetType DEF TypeOK, TaskReset
  <2> QED BY <1>4, <2>5, <2>6 DEF TypeOK, TaskReset
<1> QED BY <1>1, <1>2, <1>3, <1>4

LEMMA StationOperatorType ==
  ASSUME TypeOK,
         \/ \E w \in Workstations : OperatorOnStation(w)
         \/ \E p \in Procs : SoftRevive(p)
         \/ \E p \in Procs, w \in Workstations : CaptureUrl(p, w)
         \/ ProbeRecover
  PROVE  TypeOK'
<1>1. ASSUME NEW w \in Workstations, OperatorOnStation(w) PROVE TypeOK'
  <2>1. station' \in [Workstations -> StationRow]
    <3>1. /\ \A row \in StationRow, s \in StationStatus :
               [row EXCEPT !.status = s, !.timer = "none"] \in StationRow
          /\ \A s \in StationStatus, url \in BOOLEAN : NewStation(s, url) \in StationRow
      BY DEF StationRow, NewStation
    <3>2. PICK row \in StationRow : Becomes(w, row)
      BY <1>1, <3>1 DEF TypeOK, OperatorOnStation, HardRevive, StartNurturing, Disable,
        NoFlowAccess, CreateWorkstation, DeleteWorkstation, StationStatus
    <3> QED BY <3>2 DEF TypeOK, Becomes
  <2>2. budget' \in Nat
    BY <1>1, BudgetType DEF TypeOK, OperatorOnStation, HardRevive, StartNurturing, Disable,
      NoFlowAccess, CreateWorkstation, DeleteWorkstation
  <2> QED BY <1>1, <2>1, <2>2 DEF TypeOK, OperatorOnStation
<1>2. ASSUME NEW p \in Procs, SoftRevive(p) PROVE TypeOK'
  <2>1. station' \in [Workstations -> StationRow]
    <3> DEFINE w == req[p].on
               s == IF station[w].status \in {"cooldown", "busy"} THEN "healthy" ELSE station[w].status
    <3>1. ASSUME w \in Workstations PROVE [station[w] EXCEPT !.timer = "none", !.status = s] \in StationRow
      <4>1. station[w] \in StationRow /\ s \in StationStatus
        BY <3>1 DEF TypeOK, StationRow, StationStatus
      <4> QED BY <4>1, StationRowChanges
    <3> QED BY <1>2, <3>1 DEF TypeOK, SoftRevive, Becomes
  <2>2. req' \in [Procs -> ReqState]
    BY <1>2 DEF TypeOK, SoftRevive, NoReq, ReqState
  <2> QED BY <1>2, <2>1, <2>2 DEF TypeOK, SoftRevive
<1>3. ASSUME NEW p \in Procs, NEW w \in Workstations, CaptureUrl(p, w) PROVE TypeOK'
  <2>1. station' \in [Workstations -> StationRow]
    BY <1>3 DEF TypeOK, CaptureUrl, Becomes, StationRow
  <2>2. req' \in [Procs -> ReqState]
    BY <1>3 DEF TypeOK, CaptureUrl, ReqState
  <2>3. budget' \in Nat
    BY <1>3, BudgetType DEF TypeOK, CaptureUrl
  <2> QED BY <1>3, <2>1, <2>2, <2>3 DEF TypeOK, CaptureUrl
<1>4. CASE ProbeRecover
  <2>1. station' \in [Workstations -> StationRow]
    <3>1. /\ \A w \in Workstations : station[w] \in StationRow
          /\ \A row \in StationRow : [row EXCEPT !.status = "healthy", !.timer = "none"] \in StationRow
          /\ \A row \in StationRow : [row EXCEPT !.timer = "none"] \in StationRow
          /\ \A row \in StationRow : [row EXCEPT !.timer = "running"] \in StationRow
      BY DEF TypeOK, StationRow, StationStatus
    <3> DEFINE Banned == {w \in Workstations : station[w].status = "manual_check"}
               Due == {w \in Banned : station[w].timer = "elapsed"}
               Verdict(probed, clean, exhausted) ==
                 [w \in Workstations |->
                    IF w \notin probed THEN station[w]
                    ELSE IF w \in clean THEN [station[w] EXCEPT !.status = "healthy", !.timer = "none"]
                    ELSE [station[w] EXCEPT !.timer = IF w \in exhausted THEN "none" ELSE "running"]]
    <3>2. PICK named \in {{}} \cup {{w} : w \in Banned} :
            \E probed \in IF named = {} THEN SUBSET Due ELSE {Due \cup named} :
            \E clean \in IF named = {} THEN SUBSET probed ELSE {{}, probed} :
            \E exhausted \in SUBSET (probed \ clean) :
              station' = Verdict(probed, clean, exhausted)
      BY <1>4 DEF ProbeRecover
    <3> HIDE DEF Verdict
    <3>3. PICK probed, clean, exhausted : station' = Verdict(probed, clean, exhausted)
      BY <3>2, Zenon
    <3> USE DEF Verdict
    <3> DEFINE Row(w) ==
          IF w \notin probed THEN station[w]
          ELSE IF w \in clean THEN [station[w] EXCEPT !.status = "healthy", !.timer = "none"]
          ELSE [station[w] EXCEPT !.timer = IF w \in exhausted THEN "none" ELSE "running"]
    <3>4. \A w \in Workstations : Row(w) \in StationRow
      BY <3>1
    <3>5. station' = [w \in Workstations |-> Row(w)]
      BY <3>3
    <3> HIDE DEF Row
    <3> QED BY <3>4, <3>5
  <2>2. budget' \in Nat
    BY <1>4, BudgetType DEF TypeOK, ProbeRecover
  <2> QED BY <1>4, <2>1, <2>2 DEF TypeOK, ProbeRecover
<1> QED BY <1>1, <1>2, <1>3, <1>4

LEMMA NextType == TypeOK /\ [Next]_vars => TypeOK'
<1> SUFFICES ASSUME TypeOK, [Next]_vars PROVE TypeOK'
  OBVIOUS
<1>1. CASE UNCHANGED vars
  BY <1>1 DEF TypeOK, vars
<1>2. CASE Next
  BY <1>2, BootType, CrashType, PassPrologueType, LoopType, WorkerType, ClockType,
    TaskOperatorType, StationOperatorType DEF Next, PassStep
<1> QED BY <1>1, <1>2

\* The variables keep their types: no update writes a value its column or its
\* field does not have.
THEOREM TypeCorrect == Spec => []TypeOK
<1>1. Init => TypeOK
  BY InitType
<1>2. TypeOK /\ [Next]_vars => TypeOK'
  BY NextType
<1> QED BY <1>1, <1>2, PTL DEF Spec

-----------------------------------------------------------------------------
\* The retry budget

LEMMA RetryType ==
  ASSUME TypeOK, NEW t \in Tasks
  PROVE  /\ task[t].retry \in Nat /\ MaxRetry[t] \in Nat
         /\ task[t].retry + 1 \in Nat
BY ConstantsOK DEF TypeOK, TaskRow, ConstantsOK

\* A row that keeps within its budget still does so when it is resumed.
LEMMA ResumedWithin ==
  ASSUME TypeOK, NEW t \in Tasks, NEW n
  PROVE  Resumed(task[t], n).retry = 0 /\ Resumed(task[t], n).status = "pending"
BY DEF TypeOK, TaskRow, Resumed

Within(t) == /\ task[t].retry <= MaxRetry[t]
             /\ task[t].status = "running" => task[t].retry < MaxRetry[t]

LEMMA RetryBudgetStep == TypeOK /\ RetryBudget /\ [Next]_vars => RetryBudget'
<1> SUFFICES ASSUME TypeOK, RetryBudget, [Next]_vars, NEW u \in Tasks
             PROVE  Within(u)'
  BY DEF RetryBudget, Within
<1> USE DEF Within
<1>1. /\ task[u] \in TaskRow /\ task[u].retry \in Nat /\ MaxRetry[u] \in Nat
      /\ Within(u)
  BY RetryType DEF TypeOK, RetryBudget, Within
<1>2. ASSUME task' = task PROVE Within(u)'
  BY <1>1, <1>2
<1>3. ASSUME NEW p \in Procs, Boot(p) PROVE Within(u)'
  BY <1>1, <1>3 DEF Boot, TaskRow
<1>4. ASSUME NEW p \in Procs, RecoverZombies(p) PROVE Within(u)'
  <2>1. CASE ~Zombie(u)
    BY <1>1, <1>4, <2>1 DEF RecoverZombies
  <2>2. CASE Zombie(u) /\ Escalated(task[u], ZombieLimit)
    <3>1. task'[u].status = "manual_review" /\ task'[u].retry = task[u].retry
      BY <1>1, <1>4, <2>2 DEF RecoverZombies, TaskRow
    <3> QED BY <1>1, <3>1
  <2>3. CASE Zombie(u) /\ ~Escalated(task[u], ZombieLimit)
    <3>1. task'[u].status = "retry_waiting" /\ task'[u].retry = task[u].retry + 1
      BY <1>1, <1>4, <2>3 DEF RecoverZombies, TaskRow
    <3> QED BY <1>1, <2>3, <3>1 DEF Zombie
  <2> QED BY <2>1, <2>2, <2>3
<1>5. ASSUME NEW p \in Procs, AutoResume(p) PROVE Within(u)'
  BY <1>1, <1>5, ResumedWithin DEF AutoResume
<1>6. ASSUME NEW p \in Procs, RoundClaims(p) PROVE Within(u)'
  <2>1. PICK w \in Workstations, t \in Tasks : ClaimOne(w, t)
    BY <1>6 DEF RoundClaims
  <2>2. task[t].retry < MaxRetry[t]
    BY <2>1 DEF ClaimOne, Preferred, Claimable
  <2>3. task'[u].retry = task[u].retry /\ (u # t => task'[u] = task[u])
    BY <2>1 DEF ClaimOne, TypeOK, TaskRow
  <2> QED BY <1>1, <2>2, <2>3
<1>7. ASSUME NEW j \in Jobs, Finalize(j) PROVE Within(u)'
  <2> DEFINE t == job[j].task
  <2>1. PICK o \in Outcomes :
          task' = [task EXCEPT ![t].status = o[1],
               ![t].retry = IF o[1] = "retry_waiting" /\ task[t].status = "running"
                            THEN @ + 1 ELSE @]
    BY <1>7 DEF Finalize
  <2>2. o[1] # "running"
    BY DEF Outcomes
  <2>3. CASE u = t
    <3>1. /\ task'[u].status = o[1]
          /\ task'[u].retry = IF o[1] = "retry_waiting" /\ task[u].status = "running"
                              THEN task[u].retry + 1 ELSE task[u].retry
      BY <2>1, <2>3 DEF TypeOK, TaskRow
    <3> QED BY <1>1, <2>2, <3>1
  <2>4. CASE u # t
    BY <1>1, <2>1, <2>4 DEF TypeOK
  <2> QED BY <2>3, <2>4
<1>8. ASSUME NEW t \in Tasks, GrowsStale(t) PROVE Within(u)'
  BY <1>1, <1>8 DEF GrowsStale, TypeOK, TaskRow
<1>9. ASSUME NEW p \in Procs, ResumeTask(p) PROVE Within(u)'
  BY <1>1, <1>9, ResumedWithin DEF ResumeTask, TypeOK
<1>10. ASSUME NEW p \in Procs, DeleteTask(p) PROVE Within(u)'
  BY <1>1, <1>10 DEF DeleteTask, TaskRow
<1>11. ASSUME NEW t \in Tasks, TaskReset(t) PROVE Within(u)'
  <2>1. PICK zombies \in {task[t].zombies, 0} :
          task' = [task EXCEPT ![t] = [Resumed(@, @.resumed) EXCEPT !.zombies = zombies]]
    BY <1>11 DEF TaskReset
  <2>2. CASE u = t
    <3> DEFINE row == Resumed(task[t], task[t].resumed)
    <3>1. row.retry = 0 /\ row.status = "pending" /\ DOMAIN row = DOMAIN task[t]
      BY ResumedWithin DEF Resumed
    <3>2. /\ [row EXCEPT !.zombies = zombies].retry = 0
          /\ [row EXCEPT !.zombies = zombies].status = "pending"
      <4>1. task[t] \in TaskRow
        BY DEF TypeOK
      <4> QED BY <4>1 DEF Resumed, TaskRow
    <3>3. task'[u] = [row EXCEPT !.zombies = zombies]
      BY <2>1, <2>2 DEF TypeOK
    <3> QED BY <1>1, <3>2, <3>3
  <2>3. CASE u # t
    BY <1>1, <2>1, <2>3 DEF TypeOK
  <2> QED BY <2>2, <2>3
<1>12. CASE UNCHANGED vars
  BY <1>2, <1>12 DEF vars
<1>13. CASE Next
  <2>1. \/ task' = task
        \/ \E p \in Procs : \/ Boot(p) \/ RecoverZombies(p) \/ AutoResume(p)
                            \/ RoundClaims(p) \/ ResumeTask(p) \/ DeleteTask(p)
        \/ \E j \in Jobs : Finalize(j)
        \/ \E t \in Tasks : GrowsStale(t) \/ TaskReset(t)
    BY <1>13 DEF Next, PassStep, WorkerStep, Crash, StartPass, Sync, RecoverCooldowns,
      ReleaseOrphans, FindHealthy, PassFails, RoundWaits, RoundExits, Submit, AwaitReturns, EndPass, FinalizeFails,
      WorkerRaises, TimerElapses, Midnight, ReadForRequest, CaptureUrl, SoftRevive,
      ProbeRecover, OperatorOnStation
  <2> QED BY <1>2, <1>3, <1>4, <1>5, <1>6, <1>7, <1>8, <1>9, <1>10, <1>11, <2>1
<1> QED BY <1>12, <1>13

\* No task is ever given more attempts than its retry budget, by any interleaving
\* of processes, workers, recoveries and operators.
THEOREM RetryBudgetKept == Spec => []RetryBudget
<1>1. Init => RetryBudget
  BY ConstantsOK DEF Init, RetryBudget, ConstantsOK
<1>2. TypeOK /\ RetryBudget /\ [Next]_vars => RetryBudget'
  BY RetryBudgetStep
<1> QED BY <1>1, <1>2, TypeCorrect, PTL DEF Spec
=============================================================================
