--------------------------- MODULE OwnershipProofs --------------------------
(***************************************************************************)
(* A cautious installation (one process, operators who take no row away    *)
(* from a worker) never has two workers on one task or one workstation.    *)
(* The inductive invariant is Ownership: the rows of every worker and of   *)
(* every claim about to be launched still say what claim_one wrote, so     *)
(* that no other claim can match them, and no worker is alive when the     *)
(* recoveries, which do not ask who is alive, run.  From it follow the     *)
(* verdicts and decisions that stand, and that the rows of the table       *)
(* implement the lifecycle of a task.                                      *)
(***************************************************************************)
EXTENDS DispatchProofs, FiniteSetTheorems

LEMMA InitOwnership == Init => Ownership
<1> SUFFICES ASSUME Init PROVE Ownership
  OBVIOUS
<1>1. \A j \in Jobs : ~Live(j)
  BY DEF Init, Live, FreeJob
<1>2. \A p \in Procs : ~Pending(p) /\ req[p].op = "none"
  BY DEF Init, Pending, Quiet, NoReq
<1>3. DependencyRespected
  BY DEF Init, DependencyRespected
<1> QED BY <1>1, <1>2, <1>3, InitType
  DEF Ownership, ExclusiveClaim, WorkerOwnsRows, NoWorkerOutlivesPass

\* A step after which nobody is alive and nothing waits for its launch only has
\* to care for the dependencies.
LEMMA NobodyAliveAfter ==
  ASSUME TypeOK', DependencyRespected',
         \A j \in Jobs : ~Live(j)', \A p \in Procs : ~Pending(p)',
         \A p \in Procs : (req[p].op \in {"none", "delete"})'
  PROVE  Ownership'
BY DEF Ownership, ExclusiveClaim, WorkerOwnsRows, NoWorkerOutlivesPass

\* Rows that stop running, or keep status and dependency, keep the dependencies
\* respected as long as success stays.
LEMMA DependenciesKept ==
  ASSUME TypeOK, DependencyRespected,
         \A t \in Tasks :
           /\ task'[t].status = "running" =>
                task[t].status = "running" /\ task'[t].dep = task[t].dep
           /\ task[t].status = "success" => task'[t].status = "success"
  PROVE  DependencyRespected'
<1> SUFFICES ASSUME NEW t \in Tasks, task'[t].status = "running", task'[t].dep # None
             PROVE  task'[task'[t].dep].status = "success"
  BY DEF DependencyRespected
<1>1. task[t].dep \in Tasks
  BY DEF TypeOK, TaskRow
<1> QED BY <1>1 DEF DependencyRespected

Prologue(p) ==
  \/ Boot(p) \/ Crash(p) \/ StartPass(p) \/ Sync(p) \/ RecoverCooldowns(p)
  \/ ReleaseOrphans(p) \/ RecoverZombies(p) \/ FindHealthy(p) \/ AutoResume(p)

\* With one process nobody is alive and nothing waits for its launch before the loop.
LEMMA PrologueQuiet ==
  ASSUME TypeOK, NoWorkerOutlivesPass, \A q, r \in Procs : q = r,
         \A j \in Jobs : Live(j) => job[j].proc \in Procs,
         NEW p \in Procs, Prologue(p)
  PROVE  (\A j \in Jobs : ~Live(j)') /\ (\A q \in Procs : ~Pending(q)')
<1> USE DEF Prologue
<1>1. \A q \in Procs : q = p
  OBVIOUS
<1>2. \A j \in Jobs : ~Live(j)'
  <2>1. CASE Crash(p)
    BY <1>1, <2>1 DEF Crash, Live, FreeJob, TypeOK
  <2>2. CASE ~Crash(p)
    <3>1. sched[p].pc \in {"down", "idle"} \cup PassSteps /\ job' = job
      BY <2>2 DEF Boot, StartPass, Sync, RecoverCooldowns, ReleaseOrphans, RecoverZombies,
        FindHealthy, AutoResume, PassSteps
    <3> QED BY <1>1, <3>1 DEF NoWorkerOutlivesPass, Live
  <2> QED BY <2>1, <2>2
<1>3. ~Pending(p)'
  <2>1. sched \in [Procs -> SchedState]
    BY DEF TypeOK
  <2>2. CASE Boot(p) \/ Crash(p) \/ StartPass(p) \/ Sync(p)
    <3>1. CASE Boot(p) \/ Crash(p)
      <4>1. sched'[p] = Quiet("idle") \/ sched'[p] = Quiet("down")
        BY <2>1, <3>1 DEF Boot, Crash
      <4>2. sched'[p].pc \in {"idle", "down"}
        BY <4>1 DEF Quiet
      <4> QED BY <4>2 DEF Pending
    <3>2. CASE StartPass(p)
      <4> DEFINE list == [w \in Workstations |->
                            [status |-> station[w].status, url |-> station[w].url]]
      <4>1. sched'[p] = [Quiet("sync") EXCEPT !.listed = list]
        BY <2>1, <3>2 DEF StartPass
      <4> HIDE DEF list
      <4>2. sched'[p].pc = "sync"
        BY <4>1 DEF Quiet
      <4> QED BY <4>2 DEF Pending
    <3>3. CASE Sync(p)
      BY <2>1, <3>3 DEF Pending, Sync, Quiet
    <3> QED BY <2>2, <3>1, <3>2, <3>3
  <2>3. ASSUME NEW c \in {"release", "zombies", "healthy?", "autoresume", "loop"}, Goto(p, c)
        PROVE  ~Pending(p)'
    BY <2>1, <2>3 DEF Pending, Goto, SchedState
  <2> QED BY <2>2, <2>3 DEF RecoverCooldowns, ReleaseOrphans, RecoverZombies, FindHealthy, AutoResume
<1> QED BY <1>1, <1>2, <1>3

LEMMA PrologueOwnership ==
  ASSUME Cautious, Ownership, TypeOK', NEW p \in Procs, Prologue(p)
  PROVE  Ownership'
<1> USE DEF Prologue
<1>1. \A q \in Procs : q = p
  BY DEF Cautious
<1>2. (\A j \in Jobs : ~Live(j)') /\ (\A q \in Procs : ~Pending(q)')
  BY PrologueQuiet DEF Cautious, Ownership
<1>4. \A q \in Procs : (req[q].op \in {"none", "delete"})'
  <2>1. CASE Crash(p)
    BY <2>1 DEF Ownership, TypeOK, Crash, NoReq
  <2>2. CASE req' = req
    BY <2>2 DEF Ownership
  <2> QED BY <2>1, <2>2 DEF Boot, StartPass, Sync, RecoverCooldowns, ReleaseOrphans,
    RecoverZombies, FindHealthy, AutoResume
<1>5. DependencyRespected'
  <2>1. CASE task' = task
    BY <2>1 DEF Ownership, DependencyRespected
  <2>2. CASE Boot(p)
    <3>1. \A t \in Tasks : IF task[t].status = "running" THEN task'[t].status # "running"
                           ELSE task'[t] = task[t]
      BY <2>2 DEF Ownership, TypeOK, Boot, TaskRow
    <3> QED BY <3>1, DependenciesKept DEF Ownership
  <2>3. CASE RecoverZombies(p)
    <3>1. \A t \in Tasks :
            IF Zombie(t) THEN task[t].status = "running" /\ task'[t].status # "running"
            ELSE task'[t] = task[t]
      <4> TAKE t \in Tasks
      <4>1. CASE ~Zombie(t)
        BY <2>3, <4>1 DEF RecoverZombies
      <4>2. CASE Zombie(t) /\ Escalated(task[t], ZombieLimit)
        <5>1. task'[t] = [task[t] EXCEPT !.status = "manual_review", !.zombies = @ + 1]
          BY <2>3, <4>2 DEF RecoverZombies
        <5>2. task[t] \in TaskRow
          BY DEF Ownership, TypeOK
        <5> QED BY <4>2, <5>1, <5>2 DEF Zombie, TaskRow
      <4>3. CASE Zombie(t) /\ ~Escalated(task[t], ZombieLimit)
        <5>1. task'[t] = [task[t] EXCEPT !.status = "retry_waiting",
                                        !.zombies = @ + 1, !.retry = @ + 1]
          BY <2>3, <4>3 DEF RecoverZombies
        <5>2. task[t] \in TaskRow
          BY DEF Ownership, TypeOK
        <5> QED BY <4>3, <5>1, <5>2 DEF Zombie, TaskRow
      <4> QED BY <4>1, <4>2, <4>3
    <3> QED BY <3>1, DependenciesKept DEF Ownership
  <2>4. CASE AutoResume(p)
    BY <2>4, DependenciesKept, ResumedWithin DEF Ownership, AutoResume, Exhausted
  <2> QED BY <2>1, <2>2, <2>3, <2>4
    DEF Crash, StartPass, Sync, RecoverCooldowns, ReleaseOrphans, FindHealthy
<1> QED BY <1>2, <1>4, <1>5, NobodyAliveAfter

\* _release_done frees finished futures only.
LEMMA ReleaseDoneKeepsAlive ==
  ASSUME TypeOK, NEW p \in Procs, ReleaseDone(p)
  PROVE  \A j \in Jobs : Live(j)' <=> Live(j) /\ (Live(j) => job'[j] = job[j])
BY DEF TypeOK, ReleaseDone, Live, Finished, FreeJob

\* A step that starts no worker and leaves the rows of the living ones and of the
\* pending claims as they are.
LEMMA WorkersKept ==
  ASSUME Ownership, TypeOK', DependencyRespected', NoWorkerOutlivesPass',
         \A j \in Jobs : Live(j)' => Live(j) /\ job'[j] = job[j] /\ Owns(job[j].ws, job[j].task)',
         \A p \in Procs : Pending(p)' =>
           Pending(p) /\ sched'[p].ws = sched[p].ws /\ sched'[p].task = sched[p].task
             /\ Owns(sched[p].ws, sched[p].task)',
         \A p \in Procs : (req[p].op \in {"none", "delete"})'
  PROVE  Ownership'
<1>1. ExclusiveClaim'
  BY DEF Ownership, ExclusiveClaim
<1>2. WorkerOwnsRows'
  BY DEF WorkerOwnsRows, Owns
<1>3. \A j \in Jobs : Live(j)' => job'[j].proc \in Procs
  BY DEF Ownership
<1> QED BY <1>1, <1>2, <1>3 DEF Ownership

\* Ownership only looks at status and workstation of the rows.
LEMMA OwnsKept ==
  ASSUME NEW w, NEW t, Owns(w, t),
         station'[w].status = station[w].status,
         task'[t].status = "absent"
           \/ (task'[t].status = task[t].status /\ task'[t].ws = task[t].ws)
  PROVE  Owns(w, t)'
BY DEF Owns

\* claim_one takes a row nobody owns.
LEMMA ClaimTakesFreeRows ==
  ASSUME Ownership, TypeOK', NEW w \in Workstations, NEW t \in Tasks, ClaimOne(w, t)
  PROVE  /\ Owns(w, t)'
         /\ \A v, u : Owns(v, u) => v # w /\ u # t /\ Owns(v, u)'
         /\ DependencyRespected'
<1>1. /\ station[w].status = "healthy" /\ task[t].status \in {"pending", "retry_waiting"}
      /\ task[t].dep # None => task[task[t].dep].status = "success"
  BY DEF ClaimOne, Eligible, Preferred, Claimable
<1>2. /\ \A u \in Tasks : u # t => task'[u] = task[u]
      /\ task'[t].status = "running" /\ task'[t].ws = w /\ task'[t].dep = task[t].dep
  BY DEF ClaimOne, Ownership, TypeOK, TaskRow
<1>3. /\ \A v \in Workstations : v # w => station'[v].status = station[v].status
      /\ station'[w].status = "busy"
  <2>1. \A v \in Workstations : station[v] \in StationRow
    BY DEF Ownership, TypeOK
  <2>2. \A v \in Workstations : Rolled(v) \in StationRow /\ Rolled(v).status = station[v].status
    BY <2>1 DEF Rolled, StationRow
  <2>3. [Rolled(w) EXCEPT !.status = "busy"].status = "busy"
    BY <2>2 DEF StationRow
  <2> QED BY <2>2, <2>3 DEF ClaimOne
<1>4. Owns(w, t)'
  BY <1>2, <1>3 DEF Owns
<1>5. ASSUME NEW v, NEW u, Owns(v, u) PROVE v # w /\ u # t /\ Owns(v, u)'
  BY <1>1, <1>2, <1>3, <1>5 DEF Owns
<1>6. DependencyRespected'
  <2> SUFFICES ASSUME NEW u \in Tasks, task'[u].status = "running", task'[u].dep # None
               PROVE  task'[task'[u].dep].status = "success"
    BY DEF DependencyRespected
  <2>1. task'[u].dep = task[u].dep /\ task[u].dep \in Tasks
    BY <1>2 DEF Ownership, TypeOK, TaskRow
  <2>2. task[task[u].dep].status = "success"
    BY <1>1, <1>2, <2>1 DEF Ownership, DependencyRespected
  <2>3. task[u].dep # t
    BY <1>1, <2>2
  <2> QED BY <1>2, <2>1, <2>2, <2>3
<1> QED BY <1>4, <1>5, <1>6

LEMMA LoopOwnership ==
  ASSUME Cautious, Ownership, TypeOK', NEW p \in Procs,
         \/ RoundClaims(p) \/ RoundWaits(p) \/ RoundExits(p)
         \/ Submit(p) \/ AwaitReturns(p) \/ EndPass(p) \/ PassFails(p)
  PROVE  Ownership'
<1>1. /\ \A q \in Procs : q = p
      /\ TypeOK /\ sched \in [Procs -> SchedState] /\ sched[p] \in SchedState
      /\ \A q \in Procs : (req[q].op \in {"none", "delete"})'
  BY DEF Cautious, Ownership, TypeOK, RoundClaims, RoundWaits, RoundExits, Submit,
    AwaitReturns, EndPass, PassFails
<1>2. CASE RoundClaims(p)
  <2>1. PICK w \in Workstations, t \in Tasks :
          /\ ClaimOne(w, t)
          /\ sched' = [sched EXCEPT ![p] =
               IF w \in sched[p].known
               THEN [@ EXCEPT !.pc = "stagger", !.ws = w, !.task = t]
               ELSE [@ EXCEPT !.pc = "drain"]]
    BY <1>2 DEF RoundClaims
  <2>2. \A j \in Jobs : Live(j)' => Live(j) /\ job'[j] = job[j]
    BY <1>1, <1>2, ReleaseDoneKeepsAlive DEF RoundClaims
  <2>3. /\ Owns(w, t)'
        /\ \A v, u : Owns(v, u) => v # w /\ u # t /\ Owns(v, u)'
        /\ DependencyRespected'
    BY <2>1, ClaimTakesFreeRows
  <2>4. \/ sched'[p].pc = "stagger" /\ sched'[p].ws = w /\ sched'[p].task = t
        \/ sched'[p].pc = "drain"
    BY <1>1, <2>1 DEF SchedState
  <2>5. \A j \in Jobs : Live(j) => Owns(job[j].ws, job[j].task)
    BY DEF Ownership, WorkerOwnsRows
  <2>6. ExclusiveClaim'
    <3>1. ASSUME NEW i \in Jobs, NEW j \in Jobs, Live(i)', Live(j)', i # j
          PROVE  (job[i].ws # job[j].ws /\ job[i].task # job[j].task)'
      BY <2>2, <3>1 DEF Ownership, ExclusiveClaim
    <3>2. ASSUME NEW q \in Procs, NEW j \in Jobs, Pending(q)', Live(j)'
          PROVE  (sched[q].ws # job[j].ws /\ sched[q].task # job[j].task)'
      BY <1>1, <2>2, <2>3, <2>4, <2>5, <3>2 DEF Pending
    <3> QED BY <3>1, <3>2 DEF ExclusiveClaim
  <2>7. WorkerOwnsRows'
    <3>1. ASSUME NEW j \in Jobs, Live(j)' PROVE Owns(job[j].ws, job[j].task)'
      BY <2>2, <2>3, <2>5, <3>1 DEF Owns
    <3>2. ASSUME NEW q \in Procs, Pending(q)' PROVE Owns(sched[q].ws, sched[q].task)'
      BY <1>1, <2>3, <2>4, <3>2 DEF Pending, Owns
    <3> QED BY <3>1, <3>2 DEF WorkerOwnsRows
  <2>8. NoWorkerOutlivesPass'
    BY <1>1, <2>4 DEF NoWorkerOutlivesPass, PassSteps
  <2>9. \A j \in Jobs : Live(j)' => job'[j].proc \in Procs
    BY <2>2 DEF Ownership
  <2> QED BY <1>1, <2>3, <2>6, <2>7, <2>8, <2>9 DEF Ownership
<1>3. CASE RoundWaits(p) \/ RoundExits(p) \/ AwaitReturns(p)
  <2>1. \A j \in Jobs : Live(j)' => Live(j) /\ job'[j] = job[j]
    BY <1>1, <1>3, ReleaseDoneKeepsAlive DEF RoundWaits, RoundExits, AwaitReturns, Live
  <2>2. sched'[p].pc \in {"await", "drain", "loop"}
    <3>1. CASE RoundWaits(p)
      BY <1>1, <3>1 DEF RoundWaits, SchedState
    <3>2. CASE RoundExits(p)
      BY <1>1, <3>2 DEF RoundExits, Goto, SchedState
    <3>3. CASE AwaitReturns(p)
      BY <1>1, <3>3 DEF AwaitReturns, SchedState
    <3> QED BY <1>3, <3>1, <3>2, <3>3
  <2>3. task' = task /\ station' = station
    BY <1>3 DEF RoundWaits, RoundExits, AwaitReturns
  <2>4. DependencyRespected'
    BY <2>3 DEF Ownership, DependencyRespected
  <2>5. NoWorkerOutlivesPass'
    BY <1>1, <2>2 DEF NoWorkerOutlivesPass, PassSteps
  <2>6. \A j \in Jobs : Live(j)' => Owns(job[j].ws, job[j].task)'
    BY <2>1, <2>3 DEF Ownership, WorkerOwnsRows, Owns
  <2>7. \A q \in Procs : ~Pending(q)'
    BY <1>1, <2>2 DEF Pending
  <2> QED BY <1>1, <2>1, <2>4, <2>5, <2>6, <2>7, WorkersKept
<1>4. CASE Submit(p)
  <2> DEFINE w == sched[p].ws
             t == sched[p].task
  <2>1. PICK n \in Jobs :
          /\ job[n].st = "free"
          /\ job' = [k \in Jobs |->
               IF k = n THEN [st |-> "working", proc |-> p, ws |-> w, task |-> t]
               ELSE IF k = flight[p][w] /\ Finished(k) THEN FreeJob
               ELSE job[k]]
    BY <1>4 DEF Submit
  <2>2. \A j \in Jobs : Live(j)' => (j = n) \/ (Live(j) /\ job'[j] = job[j])
    <3> TAKE j \in Jobs
    <3>1. CASE j # n /\ ~(j = flight[p][w] /\ Finished(j))
      BY <2>1, <3>1 DEF Live
    <3>2. CASE j # n /\ j = flight[p][w] /\ Finished(j)
      <4>1. job'[j] = FreeJob
        BY <2>1, <3>2
      <4>2. job'[j].st = "free"
        BY <4>1 DEF FreeJob
      <4> QED BY <4>2 DEF Live
    <3> QED BY <3>1, <3>2
  <2>3. job'[n].ws = w /\ job'[n].task = t /\ job'[n].proc = p
    BY <2>1
  <2>4. /\ Pending(p) /\ Owns(w, t)
        /\ \A j \in Jobs : Live(j) =>
             job[j].ws # w /\ job[j].task # t /\ Owns(job[j].ws, job[j].task)
    BY <1>4 DEF Ownership, Submit, Pending, ExclusiveClaim, WorkerOwnsRows
  <2>5. task' = task /\ station' = station /\ sched'[p].pc = "loop"
    BY <1>1, <1>4 DEF Submit, SchedState
  <2>6. ExclusiveClaim'
    <3>1. ASSUME NEW i \in Jobs, NEW j \in Jobs, Live(i)', Live(j)', i # j
          PROVE  (job[i].ws # job[j].ws /\ job[i].task # job[j].task)'
      <4>1. CASE i = n
        BY <2>2, <2>3, <2>4, <3>1, <4>1
      <4>2. CASE j = n
        BY <2>2, <2>3, <2>4, <3>1, <4>2
      <4>3. CASE i # n /\ j # n
        BY <2>2, <3>1, <4>3 DEF Ownership, ExclusiveClaim
      <4> QED BY <4>1, <4>2, <4>3
    <3> QED BY <1>1, <2>5, <3>1 DEF ExclusiveClaim, Pending
  <2>7. WorkerOwnsRows'
    <3>1. ASSUME NEW j \in Jobs, Live(j)' PROVE Owns(job[j].ws, job[j].task)'
      BY <2>2, <2>3, <2>4, <2>5, <3>1 DEF Owns
    <3> QED BY <1>1, <2>5, <3>1 DEF WorkerOwnsRows, Pending
  <2>8. NoWorkerOutlivesPass'
    BY <1>1, <2>5 DEF NoWorkerOutlivesPass, PassSteps
  <2>9. \A j \in Jobs : Live(j)' => job'[j].proc \in Procs
    BY <2>2, <2>3 DEF Ownership
  <2>10. DependencyRespected'
    BY <2>5 DEF Ownership, DependencyRespected
  <2> QED BY <1>1, <2>6, <2>7, <2>8, <2>9, <2>10 DEF Ownership
<1>5. CASE EndPass(p)
  <2>1. \A j \in Jobs : ~Live(j)'
    BY <1>1, <1>5 DEF EndPass, Live, FreeJob, Ownership
  <2>2. \A q \in Procs : ~Pending(q)'
    BY <1>1, <1>5 DEF EndPass, Pending, Quiet
  <2>3. DependencyRespected'
    BY <1>5 DEF EndPass, Ownership, DependencyRespected
  <2> QED BY <1>1, <2>1, <2>2, <2>3, NobodyAliveAfter
<1>6. CASE PassFails(p)
  <2>1. task' = task /\ station' = station /\ job' = job
    BY <1>6 DEF PassFails
  <2>2. \/ sched[p].pc = "loop" /\ sched'[p].pc = "drain"
        \/ sched[p].pc \in PassSteps /\ sched'[p].pc = "idle"
    BY <1>1, <1>6 DEF PassFails, SchedState, Quiet
  <2>3. \A j \in Jobs : Live(j)' => Live(j) /\ job'[j] = job[j] /\ Owns(job[j].ws, job[j].task)'
    BY <2>1 DEF Ownership, WorkerOwnsRows, Owns, Live
  <2>4. NoWorkerOutlivesPass'
    BY <1>1, <2>1, <2>2 DEF Ownership, NoWorkerOutlivesPass, PassSteps, Live
  <2>5. \A q \in Procs : ~Pending(q)'
    BY <1>1, <2>2 DEF Pending
  <2>6. DependencyRespected'
    BY <2>1 DEF Ownership, DependencyRespected
  <2> QED BY <1>1, <2>3, <2>4, <2>5, <2>6, WorkersKept
<1> QED BY <1>2, <1>3, <1>4, <1>5, <1>6

\* The final transaction of a worker touches its own rows only.
LEMMA WorkerOwnership ==
  ASSUME Ownership, TypeOK', NEW n \in Jobs, WorkerStep(n)
  PROVE  Ownership'
<1> DEFINE w == job[n].ws
           t == job[n].task
<1>1. /\ TypeOK /\ sched' = sched /\ req' = req /\ Live(n) /\ Owns(w, t)
      /\ task \in [Tasks -> TaskRow] /\ station \in [Workstations -> StationRow]
  BY DEF WorkerStep, Finalize, FinalizeFails, WorkerRaises, Ownership, WorkerOwnsRows, TypeOK
<1>2. \A j \in Jobs : Live(j)' => j # n /\ Live(j) /\ job'[j] = job[j]
  <2>1. ASSUME NEW st \in {"returned", "raised"}, Settle(n, st), NEW j \in Jobs, Live(j)'
        PROVE  j # n /\ Live(j) /\ job'[j] = job[j]
    BY <1>1, <2>1 DEF Settle, TypeOK, JobRow, FreeJob, Live
  <2> QED BY <2>1 DEF WorkerStep, Finalize, FinalizeFails, WorkerRaises
<1>3. /\ \A v \in Workstations : v # w => station'[v] = station[v]
      /\ \A u \in Tasks : u # t => task'[u] = task[u]
  <2>1. CASE Finalize(n)
    BY <1>1, <2>1 DEF Finalize
  <2>2. CASE FinalizeFails(n) \/ WorkerRaises(n)
    BY <2>2 DEF FinalizeFails, WorkerRaises
  <2> QED BY <2>1, <2>2 DEF WorkerStep
<1>4. \A j \in Jobs : Live(j)' => Owns(job[j].ws, job[j].task)'
  <2> SUFFICES ASSUME NEW j \in Jobs, Live(j)' PROVE Owns(job[j].ws, job[j].task)'
    OBVIOUS
  <2>1. job[j].ws # w /\ job[j].task # t /\ Owns(job[j].ws, job[j].task)
    BY <1>1, <1>2 DEF Ownership, ExclusiveClaim, WorkerOwnsRows
  <2> QED BY <1>2, <1>3, <2>1 DEF Owns
<1>5. \A p \in Procs : Pending(p)' => Pending(p) /\ Owns(sched[p].ws, sched[p].task)'
  <2> SUFFICES ASSUME NEW p \in Procs, Pending(p)
               PROVE  Owns(sched[p].ws, sched[p].task)'
    BY <1>1 DEF Pending
  <2>1. sched[p].ws # w /\ sched[p].task # t /\ Owns(sched[p].ws, sched[p].task)
    BY <1>1 DEF Ownership, ExclusiveClaim, WorkerOwnsRows
  <2> QED BY <1>1, <1>3, <2>1 DEF Owns
<1>6. DependencyRespected'
  <2>1. CASE task' = task
    BY <2>1 DEF Ownership, DependencyRespected
  <2>2. CASE Finalize(n)
    <3>1. task[t].status = "running"
      BY <1>1, <2>2 DEF Finalize, Owns
    <3>2. task'[t].status # "running"
      <4>1. PICK o \in Outcomes :
              task' = [task EXCEPT ![t].status = o[1],
                         ![t].retry = IF o[1] = "retry_waiting" /\ task[t].status = "running"
                                      THEN @ + 1 ELSE @]
        BY <2>2 DEF Finalize
      <4>2. o[1] # "running"
        BY DEF Outcomes
      <4>3. t \in Tasks /\ task[t] \in TaskRow
        BY <1>1 DEF Owns
      <4> QED BY <1>1, <4>1, <4>2, <4>3 DEF TaskRow
    <3> QED BY <1>1, <1>3, <3>1, <3>2, DependenciesKept DEF Ownership
  <2> QED BY <2>1, <2>2 DEF WorkerStep, FinalizeFails, WorkerRaises
<1>7. NoWorkerOutlivesPass'
  BY <1>1, <1>2 DEF Ownership, NoWorkerOutlivesPass
<1> QED BY <1>1, <1>2, <1>4, <1>5, <1>6, <1>7, WorkersKept DEF Ownership

\* A step outside the scheduler that leaves busy workstations busy and takes a
\* running task away only by deleting its row.
LEMMA OthersOwnership ==
  ASSUME Ownership, TypeOK', DependencyRespected', sched' = sched, job' = job,
         \A p \in Procs : (req[p].op \in {"none", "delete"})',
         \A w \in Workstations : station[w].status = "busy" => station'[w].status = "busy",
         \A t \in Tasks :
           /\ task[t].status = "absent" => task'[t].status = "absent"
           /\ task[t].status = "running" =>
                task'[t].status = "absent"
                  \/ (task'[t].status = "running" /\ task'[t].ws = task[t].ws)
  PROVE  Ownership'
<1>1. \A w, t : Owns(w, t) => Owns(w, t)'
  BY DEF Owns
<1>2. \A j \in Jobs : Live(j)' => Live(j) /\ job'[j] = job[j] /\ Owns(job[j].ws, job[j].task)'
  BY <1>1 DEF Ownership, WorkerOwnsRows, Live
<1>3. \A p \in Procs : Pending(p)' =>
        Pending(p) /\ sched'[p].ws = sched[p].ws /\ sched'[p].task = sched[p].task
          /\ Owns(sched[p].ws, sched[p].task)'
  BY <1>1 DEF Ownership, WorkerOwnsRows, Pending
<1>4. NoWorkerOutlivesPass'
  BY DEF Ownership, NoWorkerOutlivesPass, Live
<1> QED BY <1>2, <1>3, <1>4, WorkersKept

LEMMA ClockAndRequestOwnership ==
  ASSUME Cautious, Ownership, TypeOK',
         \/ \E t \in Tasks : GrowsStale(t)
         \/ \E w \in Workstations : TimerElapses(w)
         \/ Midnight
         \/ \E p \in Procs, t \in Tasks : ReadForRequest(p, t)
         \/ \E p \in Procs : DeleteTask(p)
  PROVE  Ownership'
<1>1. /\ task \in [Tasks -> TaskRow] /\ station \in [Workstations -> StationRow]
      /\ req \in [Procs -> ReqState] /\ \A p \in Procs : req[p].op \in {"none", "delete"}
  BY DEF Ownership, TypeOK
<1>2. ASSUME NEW t \in Tasks, GrowsStale(t) PROVE Ownership'
  <2>1. \A u \in Tasks : task'[u].status = task[u].status /\ task'[u].dep = task[u].dep
                           /\ task'[u].ws = task[u].ws
    BY <1>1, <1>2 DEF GrowsStale, TaskRow
  <2>2. DependencyRespected'
    BY <2>1, DependenciesKept DEF Ownership
  <2> QED BY <1>1, <1>2, <2>1, <2>2, OthersOwnership DEF GrowsStale
<1>3. ASSUME (\E w \in Workstations : TimerElapses(w)) \/ Midnight PROVE Ownership'
  <2>1. \A w \in Workstations : station'[w].status = station[w].status
    BY <1>1, <1>3 DEF TimerElapses, Midnight, StationRow
  <2>2. task' = task /\ sched' = sched /\ job' = job /\ req' = req
    BY <1>3 DEF TimerElapses, Midnight
  <2>3. DependencyRespected'
    BY <2>2 DEF Ownership, DependencyRespected
  <2> QED BY <1>1, <2>1, <2>2, <2>3, OthersOwnership
<1>4. ASSUME NEW p \in Procs, NEW t \in Tasks, ReadForRequest(p, t) PROVE Ownership'
  <2>1. task' = task /\ station' = station /\ sched' = sched /\ job' = job
    BY <1>4 DEF ReadForRequest
  <2>2. req' = [req EXCEPT ![p] = [op |-> "delete", on |-> t]]
    BY <1>4 DEF ReadForRequest, Cautious, CautiousOps, Spend
  <2>3. \A q \in Procs : req'[q].op \in {"none", "delete"}
    BY <1>1, <2>2
  <2>4. DependencyRespected'
    BY <2>1 DEF Ownership, DependencyRespected
  <2> QED BY <2>1, <2>3, <2>4, OthersOwnership
<1>5. ASSUME NEW p \in Procs, DeleteTask(p) PROVE Ownership'
  <2>1. \A t \in Tasks :
          \/ t = req[p].on /\ task'[t].status = "absent"
          \/ t # req[p].on /\ task'[t].status = task[t].status /\ task'[t].ws = task[t].ws
               /\ (task'[t].dep # None => task'[t].dep = task[t].dep /\ task[t].dep # req[p].on)
    <3> TAKE t \in Tasks
    <3>1. task[t] \in TaskRow
      BY <1>1
    <3>2. CASE t = req[p].on
      BY <1>5, <3>1, <3>2 DEF DeleteTask, TaskRow
    <3>3. CASE t # req[p].on /\ task[t].dep = req[p].on
      <4>1. task'[t] = [task[t] EXCEPT !.dep = None]
        BY <1>5, <3>3 DEF DeleteTask
      <4> QED BY <3>1, <3>3, <4>1 DEF TaskRow
    <3>4. CASE t # req[p].on /\ task[t].dep # req[p].on
      BY <1>5, <3>4 DEF DeleteTask
    <3> QED BY <3>2, <3>3, <3>4
  <2>2. DependencyRespected'
    <3> SUFFICES ASSUME NEW t \in Tasks, task'[t].status = "running", task'[t].dep # None
                 PROVE  task'[task'[t].dep].status = "success"
      BY DEF DependencyRespected
    <3>1. /\ task[t].status = "running" /\ task'[t].dep = task[t].dep
          /\ task[t].dep \in Tasks /\ task[t].dep # req[p].on
      BY <1>1, <2>1 DEF TaskRow
    <3> QED BY <2>1, <3>1 DEF Ownership, DependencyRespected
  <2>3. station' = station /\ sched' = sched /\ job' = job
    BY <1>5 DEF DeleteTask
  <2>4. \A q \in Procs : req'[q].op \in {"none", "delete"}
    BY <1>1, <1>5 DEF DeleteTask, NoReq
  <2>5. \A t \in Tasks :
          /\ task[t].status = "absent" => task'[t].status = "absent"
          /\ task[t].status = "running" =>
               task'[t].status = "absent"
                 \/ (task'[t].status = "running" /\ task'[t].ws = task[t].ws)
    BY <2>1
  <2>6. \A w \in Workstations : station[w].status = "busy" => station'[w].status = "busy"
    BY <2>3
  <2> QED BY <2>2, <2>3, <2>4, <2>5, <2>6, OthersOwnership
<1> QED BY <1>2, <1>3, <1>4, <1>5

LEMMA OperatorOwnership ==
  ASSUME Cautious, Ownership, TypeOK',
         ProbeRecover \/ \E w \in Workstations : OperatorOnStation(w)
  PROVE  Ownership'
<1>1. task' = task /\ sched' = sched /\ job' = job /\ req' = req
  BY DEF ProbeRecover, OperatorOnStation
<1>2. DependencyRespected'
  BY <1>1 DEF Ownership, DependencyRespected
<1>3. station \in [Workstations -> StationRow]
  BY DEF Ownership, TypeOK
<1>4. ASSUME NEW v \in Workstations, station[v].status = "busy" PROVE station'[v] = station[v]
  <2>1. ASSUME NEW w \in Workstations, NEW new, Becomes(w, new), station[w].status # "busy"
        PROVE  station'[v] = station[v]
    BY <1>3, <1>4, <2>1 DEF Becomes
  <2>2. ASSUME NEW w \in Workstations, OperatorOnStation(w) PROVE station'[v] = station[v]
    <3>1. \/ StartNurturing(w) \/ Disable(w) \/ CreateWorkstation(w)
      BY <2>2 DEF OperatorOnStation, Cautious, CautiousOps, HardRevive, NoFlowAccess,
        DeleteWorkstation, Spend
    <3>2. CASE StartNurturing(w)
      BY <2>1, <3>2 DEF StartNurturing
    <3>3. CASE Disable(w)
      BY <2>1, <3>3 DEF Disable
    <3>4. CASE CreateWorkstation(w)
      BY <2>1, <3>4 DEF CreateWorkstation, Present
    <3> QED BY <3>1, <3>2, <3>3, <3>4
  <2>3. CASE ProbeRecover
    <3> DEFINE Banned == {w \in Workstations : station[w].status = "manual_check"}
               Due == {w \in Banned : station[w].timer = "elapsed"}
    <3>1. PICK named \in {{}} \cup {{w} : w \in Banned} :
            \A w \in Workstations : w \notin Due \cup named => station'[w] = station[w]
      BY <2>3 DEF ProbeRecover
    <3>2. v \notin Due \cup named
      BY <1>4, <3>1
    <3> QED BY <3>1, <3>2
  <2> QED BY <2>2, <2>3
<1>5. \A p \in Procs : (req[p].op \in {"none", "delete"})'
  BY <1>1 DEF Ownership
<1> QED BY <1>1, <1>2, <1>4, <1>5, OthersOwnership

LEMMA OwnershipStep ==
  ASSUME Cautious PROVE Ownership /\ [Next]_vars => Ownership'
<1> SUFFICES ASSUME Ownership, [Next]_vars PROVE Ownership'
  OBVIOUS
<1>1. TypeOK'
  BY NextType DEF Ownership
<1>2. CASE UNCHANGED vars
  BY <1>1, <1>2 DEF Ownership, vars, ExclusiveClaim, WorkerOwnsRows, Owns, NoWorkerOutlivesPass,
    DependencyRespected, Live, Pending
<1>3. CASE Next
  <2>1. /\ \A p \in Procs : ~ResumeTask(p) /\ ~SoftRevive(p)
        /\ \A t \in Tasks : ~TaskReset(t)
        /\ \A p \in Procs, w \in Workstations : ~CaptureUrl(p, w)
    BY DEF Cautious, CautiousOps, Ownership, ResumeTask, SoftRevive, TaskReset, CaptureUrl, Spend
  <2>2. ASSUME NEW p \in Procs, Boot(p) \/ Crash(p) \/ PassStep(p) \/ PassFails(p) PROVE Ownership'
    BY <1>1, <2>2, PrologueOwnership, LoopOwnership DEF PassStep, Prologue
  <2>3. ASSUME NEW j \in Jobs, WorkerStep(j) PROVE Ownership'
    BY <1>1, <2>3, WorkerOwnership
  <2> QED BY <1>1, <1>3, <2>1, <2>2, <2>3, ClockAndRequestOwnership, OperatorOwnership DEF Next
<1> QED BY <1>2, <1>3

\* The inductive invariant holds in every cautious installation.
LEMMA OwnershipHolds == ASSUME Cautious PROVE Spec => []Ownership
<1>1. Ownership /\ [Next]_vars => Ownership'
  BY OwnershipStep
<1> QED BY <1>1, InitOwnership, PTL DEF Spec

\* No two workers, and no worker and pending claim, ever share a task or a
\* workstation in a cautious installation (claim.py, recovery.py, state.py).
THEOREM ExclusiveClaimKept == ASSUME Cautious PROVE Spec => []ExclusiveClaim
<1>1. Ownership => ExclusiveClaim
  BY DEF Ownership
<1> QED BY <1>1, OwnershipHolds, PTL

\* The rows of a worker keep saying what claim_one wrote, in a cautious
\* installation, until its own final transaction.
THEOREM WorkerOwnsRowsKept == ASSUME Cautious PROVE Spec => []WorkerOwnsRows
<1>1. Ownership => WorkerOwnsRows
  BY DEF Ownership
<1> QED BY <1>1, OwnershipHolds, PTL

\* The pool's exit joins every worker before the next listing and recoveries.
THEOREM NoWorkerOutlivesPassKept == ASSUME Cautious PROVE Spec => []NoWorkerOutlivesPass
<1>1. Ownership => NoWorkerOutlivesPass
  BY DEF Ownership
<1> QED BY <1>1, OwnershipHolds, PTL

\* A running task's dependency has succeeded, and stays so while it runs.
THEOREM DependencyRespectedKept == ASSUME Cautious PROVE Spec => []DependencyRespected
<1>1. Ownership => DependencyRespected
  BY DEF Ownership
<1> QED BY <1>1, OwnershipHolds, PTL

-----------------------------------------------------------------------------
\* What stands until an operator acts

\* A finishing worker's rows are those of its claim, so it overwrites no verdict
\* and no decision.
LEMMA FinalizeOnOwnRows ==
  ASSUME Ownership, NEW n \in Jobs, Finalize(n)
  PROVE  KeepsVerdicts /\ KeepsDecisions
<1> DEFINE w == job[n].ws
           t == job[n].task
<1>1. task[t].status = "running" /\ station[w].status = "busy"
  BY DEF Ownership, WorkerOwnsRows, Owns, Finalize
<1>2. /\ \A v \in Workstations : v # w => station'[v] = station[v]
      /\ \A u \in Tasks : u # t => task'[u] = task[u]
  BY DEF Finalize, Ownership, TypeOK
<1> QED BY <1>1, <1>2 DEF KeepsVerdicts, KeepsDecisions

LEMMA PassKeeps ==
  ASSUME Ownership, NEW p \in Procs, Boot(p) \/ PassStep(p)
  PROVE  KeepsVerdicts /\ KeepsDecisions
<1>1. task \in [Tasks -> TaskRow] /\ station \in [Workstations -> StationRow]
  BY DEF Ownership, TypeOK
<1>2. CASE task' = task /\ station' = station
  BY <1>2 DEF KeepsVerdicts, KeepsDecisions
<1>3. CASE Boot(p)
  BY <1>1, <1>3 DEF Boot, KeepsVerdicts, KeepsDecisions
<1>4. CASE Sync(p)
  <2>1. \A w \in Workstations : Present(w) => station'[w].status = station[w].status
    BY <1>1, <1>4 DEF Sync, StationRow
  <2> QED BY <1>4, <2>1 DEF Sync, Present, KeepsVerdicts, KeepsDecisions
<1>5. CASE RecoverCooldowns(p) \/ ReleaseOrphans(p)
  BY <1>1, <1>5 DEF RecoverCooldowns, ReleaseOrphans, KeepsVerdicts, KeepsDecisions
<1>6. CASE RecoverZombies(p)
  BY <1>1, <1>6 DEF RecoverZombies, Zombie, KeepsVerdicts, KeepsDecisions
<1>7. CASE AutoResume(p)
  BY <1>1, <1>7 DEF AutoResume, Exhausted, KeepsVerdicts, KeepsDecisions
<1>8. CASE RoundClaims(p)
  <2>1. PICK w \in Workstations, t \in Tasks : ClaimOne(w, t)
    BY <1>8 DEF RoundClaims
  <2>2. /\ station[w].status = "healthy" /\ task[t].status \in {"pending", "retry_waiting"}
        /\ \A u \in Tasks : u # t => task'[u] = task[u]
        /\ \A v \in Workstations : v # w => station'[v].status = station[v].status
    BY <1>1, <2>1 DEF ClaimOne, Eligible, Preferred, Claimable, Rolled, StationRow
  <2> QED BY <2>2 DEF KeepsVerdicts, KeepsDecisions
<1> QED BY <1>2, <1>3, <1>4, <1>5, <1>6, <1>7, <1>8
  DEF PassStep, StartPass, FindHealthy, RoundWaits, RoundExits, Submit, AwaitReturns, EndPass

LEMMA OthersKeep ==
  ASSUME Cautious, Ownership,
         \/ \E p \in Procs : Crash(p) \/ PassFails(p) \/ DeleteTask(p) \/ ResumeTask(p) \/ SoftRevive(p)
         \/ \E p \in Procs, t \in Tasks : ReadForRequest(p, t)
         \/ \E p \in Procs, w \in Workstations : CaptureUrl(p, w)
         \/ \E j \in Jobs : FinalizeFails(j) \/ WorkerRaises(j)
         \/ \E t \in Tasks : GrowsStale(t) \/ TaskReset(t)
         \/ \E w \in Workstations : TimerElapses(w)
         \/ Midnight
  PROVE  KeepsVerdicts /\ KeepsDecisions
<1>1. task \in [Tasks -> TaskRow] /\ station \in [Workstations -> StationRow]
  BY DEF Ownership, TypeOK
<1>2. CASE task' = task /\ station' = station
  BY <1>2 DEF KeepsVerdicts, KeepsDecisions
<1>3. ASSUME NEW p \in Procs, DeleteTask(p) PROVE KeepsVerdicts /\ KeepsDecisions
  BY <1>1, <1>3 DEF DeleteTask, TaskRow, KeepsVerdicts, KeepsDecisions
<1>4. ASSUME NEW t \in Tasks, GrowsStale(t) PROVE KeepsVerdicts /\ KeepsDecisions
  BY <1>1, <1>4 DEF GrowsStale, TaskRow, KeepsVerdicts, KeepsDecisions
<1>5. ASSUME (\E w \in Workstations : TimerElapses(w)) \/ Midnight
      PROVE  KeepsVerdicts /\ KeepsDecisions
  BY <1>1, <1>5 DEF TimerElapses, Midnight, StationRow, KeepsVerdicts, KeepsDecisions
<1>6. /\ \A p \in Procs : ~ResumeTask(p) /\ ~SoftRevive(p)
      /\ \A t \in Tasks : ~TaskReset(t)
      /\ \A p \in Procs, w \in Workstations : ~CaptureUrl(p, w)
  BY DEF Cautious, CautiousOps, Ownership, ResumeTask, SoftRevive, TaskReset, CaptureUrl, Spend
<1> QED BY <1>2, <1>3, <1>4, <1>5, <1>6 
  DEF Crash, PassFails, ReadForRequest, FinalizeFails, WorkerRaises

LEMMA OperatorsKeep ==
  ASSUME Cautious, Ownership, ProbeRecover \/ \E w \in Workstations : OperatorOnStation(w)
  PROVE  KeepsVerdicts /\ KeepsDecisions
<1>1. task' = task /\ station \in [Workstations -> StationRow]
  BY DEF ProbeRecover, OperatorOnStation, Ownership, TypeOK
<1>2. ASSUME NEW w \in Workstations, OperatorOnStation(w) PROVE KeepsDecisions
  <2>1. \/ StartNurturing(w) \/ Disable(w) \/ CreateWorkstation(w)
    BY <1>2 DEF OperatorOnStation, Cautious, CautiousOps, HardRevive, NoFlowAccess,
      DeleteWorkstation, Spend
  <2>2. CASE StartNurturing(w)
    BY <1>1, <2>2 DEF StartNurturing, Becomes, KeepsDecisions
  <2>3. CASE Disable(w)
    BY <1>1, <2>3 DEF Disable, Becomes, StationRow, KeepsDecisions
  <2>4. CASE CreateWorkstation(w)
    BY <1>1, <2>4 DEF CreateWorkstation, Present, Becomes, KeepsDecisions
  <2> QED BY <2>1, <2>2, <2>3, <2>4
<1>3. CASE ProbeRecover
  <2> SUFFICES ASSUME NEW v \in Workstations, station[v].status # "manual_check"
               PROVE  station'[v] = station[v]
    BY <1>1 DEF KeepsVerdicts, KeepsDecisions
  <2> DEFINE Banned == {w \in Workstations : station[w].status = "manual_check"}
             Due == {w \in Banned : station[w].timer = "elapsed"}
  <2>1. PICK named \in {{}} \cup {{w} : w \in Banned} :
          \A w \in Workstations : w \notin Due \cup named => station'[w] = station[w]
    BY <1>3 DEF ProbeRecover
  <2>2. v \notin Due \cup named
    BY <2>1
  <2> QED BY <2>1, <2>2
<1> QED BY <1>1, <1>2, <1>3 DEF KeepsVerdicts

LEMMA StepKeeps ==
  ASSUME Cautious PROVE Ownership /\ [Next]_vars => [KeepsVerdicts /\ KeepsDecisions]_vars
<1> SUFFICES ASSUME Ownership, Next PROVE KeepsVerdicts /\ KeepsDecisions
  OBVIOUS
<1> QED BY FinalizeOnOwnRows, PassKeeps, OthersKeep, OperatorsKeep DEF Next, WorkerStep

\* No late worker, recovery or auto-resume overwrites how a task ended, in a
\* cautious installation.
THEOREM VerdictStandsKept == ASSUME Cautious PROVE Spec => VerdictStands
<1>1. Ownership /\ [Next]_vars => [KeepsVerdicts]_vars
  BY StepKeeps
<1> QED BY <1>1, OwnershipHolds, PTL DEF Spec, VerdictStands

\* No worker's result and no recovery returns a workstation the operator put
\* aside, in a cautious installation.
THEOREM DecisionStandsKept == ASSUME Cautious PROVE Spec => DecisionStands
<1>1. Ownership /\ [Next]_vars => [KeepsDecisions]_vars
  BY StepKeeps
<1> QED BY <1>1, OwnershipHolds, PTL DEF Spec, DecisionStands

-----------------------------------------------------------------------------
\* The limits

\* The limits outlive more operators than the ownership of tasks does: whoever
\* resets, resumes or deletes tasks, and removes workstations, frees no row of a
\* workstation that is in use; only a revive, the login window and a removed
\* workstation that is created again do.
Sparing ==
  /\ \A p, q \in Procs : p = q
  /\ Operator \cap {"revive", "login", "no_access"} = {}
  /\ ~({"add", "delete_ws"} \subseteq Operator)

\* The row of a workstation that is in use: no claim can match it, and one more
\* result may be counted in it.
Reserved(w) ==
  /\ w \in Workstations
  /\ station[w].status = "busy" \/ (station[w].status = "absent" /\ "add" \notin Operator)
  /\ station[w].used < DailyLimit

WorkingJobs(p) == {j \in Jobs : Live(j) /\ job[j].proc = p}

\* The inductive invariant of the limits: in_flight knows every worker.
LimitInv ==
  /\ TypeOK /\ DailyLimitKept /\ ConcurrencyCap /\ NoWorkerOutlivesPass
  /\ \A i, j \in Jobs : Live(i) /\ Live(j) /\ i # j => job[i].ws # job[j].ws
  /\ \A p \in Procs, j \in Jobs : Pending(p) /\ Live(j) => sched[p].ws # job[j].ws
  /\ \A j \in Jobs : Live(j) => /\ job[j].proc \in Procs /\ Reserved(job[j].ws)
                                /\ flight[job[j].proc][job[j].ws] = j
  /\ \A p \in Procs : Pending(p) => Reserved(sched[p].ws)
  /\ \A p \in Procs : req[p].op # "login"

LEMMA LimitTypes ==
  /\ DailyLimit \in Nat /\ DailyLimit > 0 /\ MaxConcurrent \in Nat /\ MaxConcurrent > 0
BY ConstantsOK DEF ConstantsOK

LEMMA CapOf ==
  ConcurrencyCap <=>
    \A p \in Procs : IF Pending(p) THEN Cardinality(WorkingJobs(p)) < MaxConcurrent
                     ELSE Cardinality(WorkingJobs(p)) <= MaxConcurrent
BY DEF ConcurrencyCap, WorkingJobs

\* A process has no more workers than workstations in flight with a future that works.
LEMMA WorkersInFlight ==
  ASSUME LimitInv, NEW p \in Procs
  PROVE  /\ IsFiniteSet(WorkingJobs(p)) /\ Cardinality(WorkingJobs(p)) \in Nat
         /\ IsFiniteSet(StillIn(p)) /\ Cardinality(StillIn(p)) \in Nat
         /\ Cardinality(WorkingJobs(p)) <= Cardinality(StillIn(p))
<1> DEFINE at == [j \in WorkingJobs(p) |-> job[j].ws]
<1>1. IsFiniteSet(StillIn(p))
  BY FinitelyMany, FS_Subset DEF StillIn, InFlight
<1>2. \A j \in WorkingJobs(p) : job[j].ws \in StillIn(p)
  BY NoneIsNothing DEF WorkingJobs, LimitInv, Reserved, StillIn, InFlight
<1>3. at \in Injection(WorkingJobs(p), StillIn(p))
  <2>1. at \in [WorkingJobs(p) -> StillIn(p)]
    BY <1>2
  <2>2. \A i, j \in WorkingJobs(p) : at[i] = at[j] => i = j
    BY DEF LimitInv, WorkingJobs
  <2> QED BY <2>1, <2>2 DEF Injection, IsInjective
<1> HIDE DEF at
<1>4. /\ IsFiniteSet(WorkingJobs(p)) 
      /\ Cardinality(WorkingJobs(p)) <= Cardinality(StillIn(p))
  BY <1>1, <1>3, FS_Injection
<1> QED BY <1>1, <1>4, FS_CardinalityType

\* A step that starts no worker and claims nothing.
LEMMA LimitsKept ==
  ASSUME LimitInv, TypeOK', DailyLimitKept', NoWorkerOutlivesPass',
         \A j \in Jobs : Live(j)' =>
           /\ Live(j) /\ job'[j] = job[j] /\ Reserved(job[j].ws)'
           /\ flight'[job[j].proc][job[j].ws] = j,
         \A p \in Procs : Pending(p)' =>
           Pending(p) /\ sched'[p].ws = sched[p].ws /\ Reserved(sched[p].ws)',
         \A p \in Procs : req'[p].op # "login"
  PROVE  LimitInv'
<1>1. ConcurrencyCap'
  <2> SUFFICES ASSUME NEW p \in Procs
               PROVE  IF Pending(p)' THEN Cardinality(WorkingJobs(p)') < MaxConcurrent
                      ELSE Cardinality(WorkingJobs(p)') <= MaxConcurrent
    BY DEF ConcurrencyCap, WorkingJobs
  <2>1. WorkingJobs(p)' \subseteq WorkingJobs(p)
    BY DEF WorkingJobs
  <2>2. IsFiniteSet(WorkingJobs(p)) /\ Cardinality(WorkingJobs(p)) \in Nat
    BY WorkersInFlight
  <2>3. /\ Cardinality(WorkingJobs(p)') \in Nat
        /\ Cardinality(WorkingJobs(p)') <= Cardinality(WorkingJobs(p))
    BY <2>1, <2>2, FS_Subset, FS_CardinalityType
  <2>4. IF Pending(p) THEN Cardinality(WorkingJobs(p)) < MaxConcurrent
        ELSE Cardinality(WorkingJobs(p)) <= MaxConcurrent
    BY CapOf DEF LimitInv
  <2> QED BY <2>2, <2>3, <2>4, LimitTypes
<1> QED BY <1>1 DEF LimitInv, Reserved

LEMMA InitLimits == Init => LimitInv
<1> SUFFICES ASSUME Init PROVE LimitInv
  OBVIOUS
<1>1. \A j \in Jobs : ~Live(j)
  BY DEF Init, Live, FreeJob
<1>2. \A p \in Procs : ~Pending(p) /\ req[p].op # "login"
  BY DEF Init, Pending, Quiet, NoReq
<1>3. DailyLimitKept
  BY LimitTypes DEF Init, NewStation, DailyLimitKept
<1>4. ConcurrencyCap
  <2>1. \A p \in Procs : WorkingJobs(p) = {}
    BY <1>1 DEF WorkingJobs
  <2> QED BY <1>2, <2>1, CapOf, FS_EmptySet, LimitTypes
<1> QED BY <1>1, <1>2, <1>3, <1>4, InitType DEF LimitInv, NoWorkerOutlivesPass

LEMMA StationRowUsed ==
  ASSUME TypeOK, NEW w \in Workstations
  PROVE  /\ station[w] \in StationRow /\ station[w].used \in Nat /\ Rolled(w) \in StationRow
         /\ Rolled(w).used \in {0, station[w].used} /\ Rolled(w).status = station[w].status
         /\ \A s, u : NewStation(s, u).used = 0 /\ NewStation(s, u).status = s
BY DEF TypeOK, StationRow, Rolled, NewStation

LEMMA PrologueLimits ==
  ASSUME Sparing, LimitInv, TypeOK', NEW p \in Procs, Prologue(p)
  PROVE  LimitInv'
<1>1. (\A j \in Jobs : ~Live(j)') /\ (\A q \in Procs : ~Pending(q)')
  BY PrologueQuiet DEF Sparing, LimitInv
<1>2. DailyLimitKept'
  <2>1. ASSUME NEW w \in Workstations PROVE station'[w].used \in {0, station[w].used}
    <3>1. station[w] \in StationRow /\ \A s, u : NewStation(s, u).used = 0
      BY StationRowUsed DEF LimitInv
    <3>2. CASE station' = station
      BY <3>2
    <3>3. CASE Boot(p)
      BY <3>1, <3>3 DEF Boot, StationRow
    <3>4. CASE Sync(p)
      <4>1. \/ station'[w] = [station[w] EXCEPT !.url = sched[p].listed[w].url]
            \/ station'[w] = station[w]
            \/ station'[w] = NewStation(sched[p].listed[w].status, sched[p].listed[w].url)
        BY <3>4 DEF Sync
      <4> QED BY <3>1, <4>1 DEF StationRow
    <3>5. CASE RecoverCooldowns(p)
      BY <3>1, <3>5 DEF RecoverCooldowns, StationRow
    <3>6. CASE ReleaseOrphans(p)
      BY <3>1, <3>6 DEF ReleaseOrphans, StationRow
    <3>7. CASE RecoverZombies(p)
      BY <3>1, <3>7 DEF RecoverZombies, StationRow
    <3> QED BY <3>2, <3>3, <3>4, <3>5, <3>6, <3>7
            DEF Prologue, Crash, StartPass, FindHealthy, AutoResume
  <2> QED BY <2>1, LimitTypes DEF LimitInv, DailyLimitKept
<1>3. \A q \in Procs : req'[q].op # "login"
  <2>1. CASE req' = req
    BY <2>1 DEF LimitInv
  <2>2. CASE Crash(p)
    BY <2>2 DEF Crash, NoReq, LimitInv, TypeOK
  <2> QED BY <2>1, <2>2 DEF Prologue, Boot, StartPass, Sync, RecoverCooldowns,
             ReleaseOrphans, RecoverZombies, FindHealthy, AutoResume
<1>4. NoWorkerOutlivesPass'
  BY <1>1 DEF NoWorkerOutlivesPass
<1> QED BY <1>1, <1>2, <1>3, <1>4, LimitsKept

\* claim_one gives room in a row nobody uses, and counts no result.
LEMMA ClaimReserves ==
  ASSUME LimitInv, NEW w \in Workstations, NEW t \in Tasks, ClaimOne(w, t)
  PROVE  /\ Reserved(w)'
         /\ \A v : Reserved(v) => v # w /\ Reserved(v)'
         /\ DailyLimitKept'
<1>1. station[w].status = "healthy" /\ Rolled(w).used < DailyLimit
  BY DEF ClaimOne, Eligible
<1>2. \A v \in Workstations \ {w} : station'[v] = Rolled(v)
  BY DEF ClaimOne
<1>3. station'[w].status = "busy" /\ station'[w].used = Rolled(w).used
  BY StationRowUsed DEF ClaimOne, StationRow, LimitInv
<1>4. Reserved(w)'
  BY <1>1, <1>3 DEF Reserved
<1>5. ASSUME NEW v, Reserved(v) PROVE v # w /\ Reserved(v)'
  <2>1. v \in Workstations /\ v # w
    BY <1>1, <1>5 DEF Reserved
  <2>2. station'[v].status = station[v].status /\ station'[v].used \in {0, station[v].used}
    BY <1>2, <2>1, StationRowUsed DEF LimitInv
  <2> QED BY <1>5, <2>1, <2>2, LimitTypes DEF Reserved
<1>6. DailyLimitKept'
  <2>1. ASSUME NEW v \in Workstations PROVE station'[v].used \in {0, station[v].used}
    BY <1>2, <1>3, StationRowUsed DEF LimitInv
  <2> QED BY <2>1, LimitTypes DEF LimitInv, DailyLimitKept
<1> QED BY <1>4, <1>5, <1>6

\* _release_done keeps the futures that work where they are.
LEMMA ReleaseDoneKeepsFlight ==
  ASSUME LimitInv, NEW p \in Procs, \A q \in Procs : q = p, ReleaseDone(p)
  PROVE  \A j \in Jobs : Live(j)' =>
           Live(j) /\ job'[j] = job[j] /\ flight'[job[j].proc][job[j].ws] = j
<1> SUFFICES ASSUME NEW j \in Jobs, Live(j)'
             PROVE  Live(j) /\ job'[j] = job[j] /\ flight'[job[j].proc][job[j].ws] = j
  OBVIOUS
<1>1. Live(j) /\ job'[j] = job[j]
  BY ReleaseDoneKeepsAlive DEF LimitInv
<1>2. /\ job[j].proc = p /\ job[j].ws \in Workstations /\ flight[p][job[j].ws] = j
  BY <1>1 DEF LimitInv, Reserved
<1>3. job[j].ws \in StillIn(p)
  BY <1>1, <1>2, NoneIsNothing DEF StillIn, InFlight
<1>4. flight'[p] = [w \in Workstations |-> IF w \in StillIn(p) THEN flight[p][w] ELSE None]
  BY DEF ReleaseDone, LimitInv, TypeOK
<1> QED BY <1>1, <1>2, <1>3, <1>4

LEMMA RoundClaimsLimits ==
  ASSUME Sparing, LimitInv, TypeOK', NEW p \in Procs, RoundClaims(p)
  PROVE  LimitInv'
<1>1. /\ \A q \in Procs : q = p
      /\ sched \in [Procs -> SchedState] /\ sched[p] \in SchedState
      /\ req' = req /\ sched[p].pc = "loop"
  BY DEF Sparing, LimitInv, TypeOK, RoundClaims
<1>2. PICK w \in Workstations, t \in Tasks :
        /\ ClaimOne(w, t)
        /\ sched' = [sched EXCEPT ![p] =
             IF w \in sched[p].known
             THEN [@ EXCEPT !.pc = "stagger", !.ws = w, !.task = t]
             ELSE [@ EXCEPT !.pc = "drain"]]
  BY DEF RoundClaims
<1>3. \/ sched'[p].pc = "stagger" /\ sched'[p].ws = w
      \/ sched'[p].pc = "drain"
  BY <1>1, <1>2 DEF SchedState
<1>4. /\ Reserved(w)' /\ DailyLimitKept'
      /\ \A v : Reserved(v) => v # w /\ Reserved(v)'
  BY <1>2, ClaimReserves
<1>5. \A j \in Jobs : Live(j)' =>
        Live(j) /\ job'[j] = job[j] /\ flight'[job[j].proc][job[j].ws] = j
  BY <1>1, ReleaseDoneKeepsFlight DEF RoundClaims
<1>6. ConcurrencyCap'
  <2> SUFFICES ASSUME NEW q \in Procs PROVE Cardinality(WorkingJobs(q)') < MaxConcurrent
    <3>1. ASSUME NEW q \in Procs PROVE Cardinality(WorkingJobs(q)') \in Nat
      <4>1. WorkingJobs(q)' \subseteq WorkingJobs(q)
        BY <1>5 DEF WorkingJobs
      <4> QED BY <4>1, WorkersInFlight, FS_Subset, FS_CardinalityType
    <3> QED BY <3>1, LimitTypes DEF ConcurrencyCap, WorkingJobs
  <2>1. WorkingJobs(q)' \subseteq WorkingJobs(q)
    BY <1>5 DEF WorkingJobs
  <2>2. /\ IsFiniteSet(WorkingJobs(q)) /\ Cardinality(WorkingJobs(q)) \in Nat
        /\ Cardinality(StillIn(q)) \in Nat
        /\ Cardinality(WorkingJobs(q)) <= Cardinality(StillIn(q))
    BY WorkersInFlight
  <2>3. /\ Cardinality(WorkingJobs(q)') \in Nat
        /\ Cardinality(WorkingJobs(q)') <= Cardinality(WorkingJobs(q))
    BY <2>1, <2>2, FS_Subset, FS_CardinalityType
  <2>4. ~(Cardinality(StillIn(q)) >= MaxConcurrent)
    BY <1>1 DEF RoundClaims, Full
  <2> QED BY <2>2, <2>3, <2>4, LimitTypes
<1>7. NoWorkerOutlivesPass'
  BY <1>1, <1>3 DEF NoWorkerOutlivesPass, PassSteps
<1>8. ASSUME NEW q \in Procs, Pending(q)' PROVE sched'[q].ws = w
  BY <1>1, <1>3, <1>8 DEF Pending
<1>9. \A j \in Jobs : Live(j)' => /\ job'[j].proc \in Procs /\ Reserved(job[j].ws)'
                                /\ job'[j].ws # w
                                /\ flight'[job'[j].proc][job'[j].ws] = j
  BY <1>4, <1>5 DEF LimitInv, Reserved
<1>10. \A i, j \in Jobs : Live(i)' /\ Live(j)' /\ i # j => job'[i].ws # job'[j].ws
  BY <1>5 DEF LimitInv
<1>11. \A q \in Procs : req'[q].op # "login"
  BY <1>1 DEF LimitInv
<1>12. /\ \A q \in Procs : Pending(q)' => Reserved(sched[q].ws)'
       /\ \A q \in Procs, j \in Jobs : Pending(q)' /\ Live(j)' => sched'[q].ws # job'[j].ws
  BY <1>4, <1>8, <1>9 DEF Reserved
<1> QED BY <1>4, <1>6, <1>7, <1>9, <1>10, <1>11, <1>12 DEF LimitInv

LEMMA SubmitLimits ==
  ASSUME Sparing, LimitInv, TypeOK', NEW p \in Procs, Submit(p)
  PROVE  LimitInv'
<1> DEFINE w == sched[p].ws
<1>1. /\ \A q \in Procs : q = p
      /\ sched \in [Procs -> SchedState] /\ sched[p] \in SchedState
      /\ job \in [Jobs -> JobRow] /\ flight \in [Procs -> [Workstations -> Jobs \cup {None}]]
      /\ req' = req /\ station' = station /\ Pending(p)
  BY DEF Sparing, LimitInv, TypeOK, Submit, Pending
<1>2. PICK n \in Jobs :
        /\ job[n].st = "free"
        /\ job' = [k \in Jobs |->
             IF k = n THEN [st |-> "working", proc |-> p, ws |-> w, task |-> sched[p].task]
             ELSE IF k = flight[p][w] /\ Finished(k) THEN FreeJob
             ELSE job[k]]
        /\ flight' = [flight EXCEPT ![p][w] = n]
  BY DEF Submit
<1>3. sched'[p].pc = "loop"
  BY <1>1 DEF Submit, SchedState
<1>4. /\ Reserved(w) /\ \A j \in Jobs : Live(j) => job[j].ws # w
  BY <1>1 DEF LimitInv
<1>5. \A j \in Jobs : Live(j)' /\ j # n => Live(j) /\ job'[j] = job[j]
  <2> TAKE j \in Jobs
  <2>1. CASE j = flight[p][w] /\ Finished(j) /\ j # n
    <3>1. job'[j].st = "free"
      BY <1>2, <2>1 DEF FreeJob
    <3> QED BY <3>1 DEF Live
  <2>2. CASE ~(j = flight[p][w] /\ Finished(j)) /\ j # n
    BY <1>2, <2>2 DEF Live
  <2> QED BY <2>1, <2>2
<1>6. job'[n].ws = w /\ job'[n].proc = p
  BY <1>2
<1>7. flight'[p][w] = n /\ \A v \in Workstations \ {w} : flight'[p][v] = flight[p][v]
  BY <1>1, <1>2, <1>4 DEF Reserved
<1>8. ConcurrencyCap'
  <2>1. WorkingJobs(p)' \subseteq WorkingJobs(p) \cup {n}
    BY <1>5 DEF WorkingJobs
  <2>2. IsFiniteSet(WorkingJobs(p)) /\ Cardinality(WorkingJobs(p)) \in Nat
    BY WorkersInFlight
  <2>3. Cardinality(WorkingJobs(p)) < MaxConcurrent
    BY <1>1, CapOf DEF LimitInv
  <2>4. /\ IsFiniteSet(WorkingJobs(p) \cup {n})
        /\ Cardinality(WorkingJobs(p) \cup {n}) <= Cardinality(WorkingJobs(p)) + 1
    <3>1. /\ IsFiniteSet(WorkingJobs(p) \cup {n})
          /\ \/ Cardinality(WorkingJobs(p) \cup {n}) = Cardinality(WorkingJobs(p))
             \/ Cardinality(WorkingJobs(p) \cup {n}) = Cardinality(WorkingJobs(p)) + 1
      BY <2>2, FS_AddElement, Zenon
    <3> QED BY <2>2, <3>1
  <2>5. /\ Cardinality(WorkingJobs(p)') \in Nat /\ Cardinality(WorkingJobs(p) \cup {n}) \in Nat
        /\ Cardinality(WorkingJobs(p)') <= Cardinality(WorkingJobs(p) \cup {n})
    BY <2>1, <2>4, FS_Subset, FS_CardinalityType
  <2>6. Cardinality(WorkingJobs(p)') <= MaxConcurrent
    BY <2>2, <2>3, <2>4, <2>5, LimitTypes
  <2> QED BY <1>1, <1>3, <2>6 DEF ConcurrencyCap, WorkingJobs, Pending
<1>9. \A j \in Jobs : Live(j)' => /\ job'[j].proc \in Procs /\ Reserved(job[j].ws)'
                               /\ flight'[job'[j].proc][job'[j].ws] = j
  <2> SUFFICES ASSUME NEW j \in Jobs, Live(j)'
               PROVE  /\ job'[j].proc \in Procs /\ Reserved(job[j].ws)'
                      /\ flight'[job'[j].proc][job'[j].ws] = j
    OBVIOUS
  <2>1. CASE j = n
    BY <1>1, <1>4, <1>6, <1>7, <2>1 DEF Reserved
  <2>2. CASE j # n
    <3>1. Live(j) /\ job'[j] = job[j]
      BY <1>5, <2>2
    <3>2. Reserved(job[j].ws) /\ job[j].proc = p /\ job[j].ws # w /\ flight[p][job[j].ws] = j
      BY <1>1, <1>4, <3>1 DEF LimitInv
    <3> QED BY <1>1, <1>7, <3>1, <3>2 DEF Reserved
  <2> QED BY <2>1, <2>2
<1>10. \A i, j \in Jobs : Live(i)' /\ Live(j)' /\ i # j => job'[i].ws # job'[j].ws
  <2> SUFFICES ASSUME NEW i \in Jobs, NEW j \in Jobs, Live(i)', Live(j)', i # j
               PROVE  job'[i].ws # job'[j].ws
    OBVIOUS
  <2>1. CASE i # n /\ j # n
    BY <1>5, <2>1 DEF LimitInv
  <2>2. CASE i = n \/ j = n
    BY <1>4, <1>5, <1>6, <2>2
  <2> QED BY <2>1, <2>2
<1>11. \A q \in Procs : ~Pending(q)' /\ req'[q].op # "login"
  BY <1>1, <1>3 DEF Pending, LimitInv
<1>12. NoWorkerOutlivesPass'
  BY <1>1, <1>3 DEF NoWorkerOutlivesPass, PassSteps
<1>13. DailyLimitKept'
  BY <1>1 DEF LimitInv, DailyLimitKept
<1> QED BY <1>8, <1>9, <1>10, <1>11, <1>12, <1>13 DEF LimitInv

LEMMA RoundEndsLimits ==
  ASSUME Sparing, LimitInv, TypeOK', NEW p \in Procs,
         RoundWaits(p) \/ RoundExits(p) \/ AwaitReturns(p) \/ EndPass(p) \/ PassFails(p)
  PROVE  LimitInv'
<1>1. /\ \A q \in Procs : q = p
      /\ sched \in [Procs -> SchedState] /\ sched[p] \in SchedState
      /\ req' = req /\ station' = station
  BY DEF Sparing, LimitInv, TypeOK, RoundWaits, RoundExits, AwaitReturns, EndPass, PassFails
<1>2. \A j \in Jobs : Live(j)' =>
        Live(j) /\ job'[j] = job[j] /\ flight'[job[j].proc][job[j].ws] = j
  <2>1. CASE RoundWaits(p) \/ RoundExits(p)
    BY <1>1, <2>1, ReleaseDoneKeepsFlight DEF RoundWaits, RoundExits
  <2>2. CASE AwaitReturns(p) \/ PassFails(p)
    BY <2>2 DEF AwaitReturns, PassFails, LimitInv, Live
  <2>3. CASE EndPass(p)
    <3>1. \A j \in Jobs : ~Live(j)'
      BY <1>1, <2>3 DEF EndPass, Live, FreeJob, LimitInv
    <3> QED BY <3>1
  <2> QED BY <2>1, <2>2, <2>3
<1>3. sched'[p].pc # "stagger"
      /\ (sched'[p].pc \in {"down", "idle"} \cup PassSteps => \A j \in Jobs : ~Live(j)')
  <2>1. CASE RoundWaits(p)
    <3>1. PICK w \in StillIn(p) : sched' = [sched EXCEPT ![p].pc = "await", ![p].ws = w]
      BY <2>1 DEF RoundWaits
    <3>2. sched'[p].pc = "await"
      BY <1>1, <3>1 DEF SchedState
    <3> QED BY <3>2 DEF PassSteps
  <2>2. CASE RoundExits(p)
    <3>1. sched'[p].pc = "drain"
      BY <1>1, <2>2 DEF RoundExits, Goto, SchedState
    <3> QED BY <3>1 DEF PassSteps
  <2>3. CASE AwaitReturns(p)
    BY <1>1, <2>3 DEF AwaitReturns, SchedState, PassSteps
  <2>4. CASE EndPass(p)
    <3>1. sched'[p].pc = "idle"
      BY <1>1, <2>4 DEF EndPass, Quiet
    <3>2. \A j \in Jobs : ~Live(j)'
      BY <1>1, <2>4 DEF EndPass, Live, FreeJob, LimitInv
    <3> QED BY <3>1, <3>2
  <2>5. CASE PassFails(p)
    <3>1. job' = job
      BY <2>5 DEF PassFails
    <3>2. \/ sched[p].pc = "loop" /\ sched'[p].pc = "drain"
          \/ sched[p].pc \in PassSteps /\ sched'[p].pc = "idle"
      BY <1>1, <2>5 DEF PassFails, SchedState, Quiet
    <3> QED BY <1>1, <3>1, <3>2 DEF LimitInv, NoWorkerOutlivesPass, Live, PassSteps
  <2> QED BY <2>1, <2>2, <2>3, <2>4, <2>5
<1>4. NoWorkerOutlivesPass'
  BY <1>1, <1>3 DEF NoWorkerOutlivesPass
<1>5. (\A q \in Procs : ~Pending(q)') /\ (\A q \in Procs : req'[q].op # "login") /\ DailyLimitKept'
  BY <1>1, <1>3 DEF Pending, LimitInv, DailyLimitKept
<1>6. \A j \in Jobs : Live(j)' => Reserved(job[j].ws)'
  BY <1>1, <1>2 DEF LimitInv, Reserved
<1> QED BY <1>2, <1>4, <1>5, <1>6, LimitsKept

\* Only a worker's own final transaction counts a result, and only in its row.
LEMMA WorkerLimits ==
  ASSUME LimitInv, TypeOK', NEW n \in Jobs, WorkerStep(n)
  PROVE  LimitInv'
<1> DEFINE w == job[n].ws
<1>1. /\ TypeOK /\ sched' = sched /\ req' = req /\ flight' = flight /\ Live(n) /\ Reserved(w)
      /\ station \in [Workstations -> StationRow]
  BY DEF WorkerStep, Finalize, FinalizeFails, WorkerRaises, LimitInv, TypeOK
<1>2. \A j \in Jobs : Live(j)' => j # n /\ Live(j) /\ job'[j] = job[j]
  <2>1. ASSUME NEW st \in {"returned", "raised"}, Settle(n, st), NEW j \in Jobs, Live(j)'
        PROVE  j # n /\ Live(j) /\ job'[j] = job[j]
    BY <1>1, <2>1 DEF Settle, TypeOK, JobRow, FreeJob, Live
  <2> QED BY <2>1 DEF WorkerStep, Finalize, FinalizeFails, WorkerRaises
<1>3. /\ \A v \in Workstations : v # w => station'[v] = station[v]
      /\ station'[w].used <= DailyLimit
  <2>1. CASE station' = station
    BY <1>1, <2>1 DEF LimitInv, DailyLimitKept, Reserved
  <2>2. CASE Finalize(n)
    <3> DEFINE counted == [station[w] EXCEPT !.used = @ + 1]
    <3>1. PICK o \in Outcomes : \E row \in StationAfter(counted, o[2]) :
            station' = [station EXCEPT ![w] = row]
      BY <2>2 DEF Finalize
    <3>2. PICK row \in StationAfter(counted, o[2]) : station' = [station EXCEPT ![w] = row]
      BY <3>1
    <3>3. counted \in StationRow /\ counted.used = station[w].used + 1
      BY <1>1 DEF StationRow, Reserved
    <3> HIDE DEF counted
    <3>4. row.used = counted.used
      BY <3>3 DEF StationAfter, StationRow
    <3>5. station[w].used + 1 <= DailyLimit
      BY <1>1, StationRowUsed, LimitTypes DEF Reserved
    <3> QED BY <1>1, <3>2, <3>3, <3>4, <3>5 DEF Reserved
  <2> QED BY <2>1, <2>2 DEF WorkerStep, FinalizeFails, WorkerRaises
<1>4. DailyLimitKept'
  BY <1>3 DEF LimitInv, DailyLimitKept
<1>5. \A j \in Jobs : Live(j)' =>
        Reserved(job[j].ws)' /\ flight'[job[j].proc][job[j].ws] = j
  <2> SUFFICES ASSUME NEW j \in Jobs, Live(j)'
               PROVE  Reserved(job[j].ws)' /\ flight'[job[j].proc][job[j].ws] = j
    OBVIOUS
  <2>1. job[j].ws # w /\ Reserved(job[j].ws) /\ job'[j] = job[j] /\ flight[job[j].proc][job[j].ws] = j
    BY <1>1, <1>2 DEF LimitInv
  <2> QED BY <1>1, <1>3, <2>1 DEF Reserved
<1>6. \A p \in Procs : Pending(p)' => Pending(p) /\ Reserved(sched[p].ws)'
  <2> SUFFICES ASSUME NEW p \in Procs, Pending(p) PROVE Reserved(sched[p].ws)'
    BY <1>1 DEF Pending
  <2>1. sched[p].ws # w /\ Reserved(sched[p].ws)
    BY <1>1 DEF LimitInv
  <2> QED BY <1>1, <1>3, <2>1 DEF Reserved
<1>7. NoWorkerOutlivesPass' /\ \A p \in Procs : req'[p].op # "login"
  BY <1>1, <1>2 DEF LimitInv, NoWorkerOutlivesPass
<1> QED BY <1>1, <1>2, <1>4, <1>5, <1>6, <1>7, LimitsKept

\* A step outside the scheduler that frees no workstation and counts nothing.
LEMMA OthersLimits ==
  ASSUME LimitInv, TypeOK', sched' = sched, job' = job, flight' = flight,
         \A p \in Procs : req'[p].op # "login",
         \A w \in Workstations :
           /\ station'[w].used \in {0, station[w].used}
           /\ station[w].status = "busy" =>
                station'[w].status = "busy"
                  \/ (station'[w].status = "absent" /\ "add" \notin Operator)
           /\ station[w].status = "absent" /\ "add" \notin Operator => station'[w].status = "absent"
  PROVE  LimitInv'
<1>1. \A w : Reserved(w) => Reserved(w)'
  BY LimitTypes DEF Reserved
<1>2. DailyLimitKept'
  BY LimitTypes DEF LimitInv, DailyLimitKept
<1>3. \A j \in Jobs : Live(j)' =>
        /\ Live(j) /\ job'[j] = job[j] /\ Reserved(job[j].ws)'
        /\ flight'[job[j].proc][job[j].ws] = j
  BY <1>1 DEF LimitInv, Live
<1>4. \A p \in Procs : Pending(p)' =>
        Pending(p) /\ sched'[p].ws = sched[p].ws /\ Reserved(sched[p].ws)'
  BY <1>1 DEF LimitInv, Pending
<1>5. NoWorkerOutlivesPass'
  BY DEF LimitInv, NoWorkerOutlivesPass, Live
<1> QED BY <1>2, <1>3, <1>4, <1>5, LimitsKept

LEMMA TasksLimits ==
  ASSUME LimitInv, TypeOK',
         \/ \E t \in Tasks : GrowsStale(t) \/ TaskReset(t)
         \/ \E p \in Procs, t \in Tasks : ReadForRequest(p, t)
         \/ \E p \in Procs : ResumeTask(p) \/ DeleteTask(p)
  PROVE  LimitInv'
<1>1. station' = station /\ sched' = sched /\ job' = job /\ flight' = flight
  BY DEF GrowsStale, TaskReset, ReadForRequest, ResumeTask, DeleteTask
<1>2. ASSUME NEW p \in Procs PROVE req'[p].op # "login"
  <2>1. req \in [Procs -> ReqState] /\ \A q \in Procs : req[q].op # "login"
    BY DEF LimitInv, TypeOK
  <2>2. CASE req' = req
    BY <2>1, <2>2
  <2>3. ASSUME NEW q \in Procs, req' = [req EXCEPT ![q] = NoReq] PROVE req'[p].op # "login"
    BY <2>1, <2>3 DEF NoReq
  <2>4. ASSUME NEW q \in Procs, NEW t \in Tasks, NEW op \in {"resume", "delete"},
               req' = [req EXCEPT ![q] = [op |-> op, on |-> t]]
        PROVE  req'[p].op # "login"
    BY <2>1, <2>4
  <2> QED BY <2>2, <2>3, <2>4 DEF GrowsStale, TaskReset, ReadForRequest, ResumeTask, DeleteTask
<1> QED BY <1>1, <1>2, OthersLimits

LEMMA ClockLimits ==
  ASSUME LimitInv, TypeOK', Midnight \/ \E w \in Workstations : TimerElapses(w)
  PROVE  LimitInv'
<1>1. \A w \in Workstations : /\ station'[w].status = station[w].status
                              /\ station'[w].used = station[w].used
  BY DEF LimitInv, TypeOK, Midnight, TimerElapses, StationRow
<1>2. sched' = sched /\ job' = job /\ flight' = flight /\ req' = req
  BY DEF Midnight, TimerElapses
<1>3. \A p \in Procs : req'[p].op # "login"
  BY <1>2 DEF LimitInv
<1> QED BY <1>1, <1>2, <1>3, OthersLimits

LEMMA OperatorLimits ==
  ASSUME Sparing, LimitInv, TypeOK',
         ProbeRecover \/ \E w \in Workstations : OperatorOnStation(w)
  PROVE  LimitInv'
<1> DEFINE Spares(v) ==
             /\ station'[v].used \in {0, station[v].used}
             /\ station[v].status = "busy" =>
                  station'[v].status = "busy"
                    \/ (station'[v].status = "absent" /\ "add" \notin Operator)
             /\ station[v].status = "absent" /\ "add" \notin Operator => station'[v].status = "absent"
<1>1. station \in [Workstations -> StationRow]
  BY DEF LimitInv, TypeOK
<1>2. ASSUME NEW w \in Workstations, OperatorOnStation(w), NEW v \in Workstations PROVE Spares(v)
  <2>1. ASSUME NEW row, Becomes(w, row), row.used = station[w].used,
               station[w].status \notin {"busy", "absent"}
        PROVE  Spares(v)
    BY <1>1, <2>1 DEF Becomes
  <2>2. CASE StartNurturing(w)
    <3>1. [station[w] EXCEPT !.status = "nurturing", !.timer = "none"].used = station[w].used
      BY <1>1 DEF StationRow
    <3> QED BY <2>1, <2>2, <3>1 DEF StartNurturing
  <2>3. CASE Disable(w)
    <3>1. [station[w] EXCEPT !.status = "disabled", !.timer = "none"].used = station[w].used
      BY <1>1 DEF StationRow
    <3> QED BY <2>1, <2>3, <3>1 DEF Disable, Present
  <2>4. CASE CreateWorkstation(w)
    <3>1. "add" \in Operator /\ station[w].status = "absent"
      BY <2>4 DEF CreateWorkstation, Spend, Present
    <3>2. PICK url \in BOOLEAN : station' = [station EXCEPT ![w] = NewStation("healthy", url)]
      BY <2>4 DEF CreateWorkstation, Becomes
    <3>3. NewStation("healthy", url).used = 0
      BY DEF NewStation
    <3> QED BY <1>1, <3>1, <3>2, <3>3
  <2>5. CASE DeleteWorkstation(w)
    <3>1. "add" \notin Operator
      BY <2>5 DEF DeleteWorkstation, Spend, Sparing
    <3>2. station' = [station EXCEPT ![w] = NewStation("absent", FALSE)]
      BY <2>5 DEF DeleteWorkstation, Becomes
    <3>3. NewStation("absent", FALSE).used = 0 /\ NewStation("absent", FALSE).status = "absent"
      BY DEF NewStation
    <3> QED BY <1>1, <3>1, <3>2, <3>3
  <2> QED BY <1>2, <2>2, <2>3, <2>4, <2>5
          DEF OperatorOnStation, HardRevive, NoFlowAccess, Spend, Sparing
<1>3. ASSUME ProbeRecover, NEW v \in Workstations PROVE Spares(v)
  <2> DEFINE Banned == {w \in Workstations : station[w].status = "manual_check"}
             Due == {w \in Banned : station[w].timer = "elapsed"}
             Judged(w) == \/ station'[w] = [station[w] EXCEPT !.status = "healthy", !.timer = "none"]
                          \/ station'[w] = [station[w] EXCEPT !.timer = "none"]
                          \/ station'[w] = [station[w] EXCEPT !.timer = "running"]
  <2>1. \/ station'[v] = station[v]
        \/ v \in Banned /\ Judged(v)
    <3>1. PICK named \in {{}} \cup {{w} : w \in Banned} :
            \E probed \in IF named = {} THEN SUBSET Due ELSE {Due \cup named} :
            \E clean \in IF named = {} THEN SUBSET probed ELSE {{}, probed} :
              \E exhausted \in SUBSET (probed \ clean) :
                station' = [w \in Workstations |->
                  IF w \notin probed THEN station[w]
                  ELSE IF w \in clean THEN [station[w] EXCEPT !.status = "healthy", !.timer = "none"]
                  ELSE [station[w] EXCEPT !.timer = IF w \in exhausted THEN "none" ELSE "running"]]
      BY <1>3 DEF ProbeRecover
    <3>2. named \subseteq Banned
      <4>1. CASE named = {}
        BY <4>1
      <4>2. CASE named # {}
        <5>1. PICK w \in Banned : named = {w}
          BY <3>1, <4>2
        <5> QED BY <5>1, Zenon
      <4> QED BY <4>1, <4>2
    <3>3. PICK probed \in IF named = {} THEN SUBSET Due ELSE {Due \cup named} :
            \E clean \in IF named = {} THEN SUBSET probed ELSE {{}, probed} :
              \E exhausted \in SUBSET (probed \ clean) :
                station' = [w \in Workstations |->
                  IF w \notin probed THEN station[w]
                  ELSE IF w \in clean THEN [station[w] EXCEPT !.status = "healthy", !.timer = "none"]
                  ELSE [station[w] EXCEPT !.timer = IF w \in exhausted THEN "none" ELSE "running"]]
      BY <3>1
    <3>4. probed \subseteq Banned
      <4>1. CASE named = {}
        BY <3>3, <4>1
      <4>2. CASE named # {}
        <5>1. probed = Due \cup named
          BY <3>3, <4>2
        <5>2. Due \subseteq Banned
          OBVIOUS
        <5> HIDE DEF Due, Banned
        <5> QED BY <5>1, <5>2, <3>2
      <4> QED BY <4>1, <4>2
    <3>5. v \notin probed => station'[v] = station[v]
      BY <3>3
    <3>6. v \in probed => Judged(v)
      BY <3>3
    <3> QED BY <3>4, <3>5, <3>6
  <2>2. CASE v \in Banned /\ Judged(v)
    <3>1. station[v].status = "manual_check" /\ station[v] \in StationRow
      BY <1>1, <2>2
    <3>2. station'[v].used = station[v].used
      BY <3>1, <2>2 DEF StationRow
    <3> QED BY <3>1, <3>2
  <2> QED BY <2>1, <2>2
<1>4. sched' = sched /\ job' = job /\ flight' = flight /\ req' = req
  BY DEF ProbeRecover, OperatorOnStation
<1>5. \A p \in Procs : req'[p].op # "login"
  BY <1>4 DEF LimitInv
<1>6. \A v \in Workstations : Spares(v)
  BY <1>2, <1>3
<1> QED BY <1>4, <1>5, <1>6, OthersLimits

LEMMA LimitsStep == ASSUME Sparing PROVE LimitInv /\ [Next]_vars => LimitInv'
<1> SUFFICES ASSUME LimitInv, [Next]_vars PROVE LimitInv'
  OBVIOUS
<1>1. TypeOK'
  BY NextType DEF LimitInv
<1>2. CASE UNCHANGED vars
  <2>1. \A p \in Procs : req'[p].op # "login"
    BY <1>2 DEF LimitInv, vars
  <2> QED BY <1>1, <1>2, <2>1, OthersLimits DEF vars
<1>3. CASE Next
  <2>1. /\ \A p \in Procs : ~SoftRevive(p)
        /\ \A p \in Procs, w \in Workstations : ~CaptureUrl(p, w)
    BY DEF Sparing, LimitInv, SoftRevive, CaptureUrl, Spend
  <2>2. ASSUME NEW p \in Procs, Boot(p) \/ Crash(p) \/ PassStep(p) \/ PassFails(p) PROVE LimitInv'
    BY <1>1, <2>2, PrologueLimits, RoundClaimsLimits, SubmitLimits, RoundEndsLimits
       DEF PassStep, Prologue
  <2>3. ASSUME NEW j \in Jobs, WorkerStep(j) PROVE LimitInv'
    BY <1>1, <2>3, WorkerLimits
  <2> QED BY <1>1, <1>3, <2>1, <2>2, <2>3, TasksLimits, ClockLimits, OperatorLimits DEF Next
<1> QED BY <1>2, <1>3

LEMMA LimitsHold == ASSUME Sparing PROVE Spec => []LimitInv
<1>1. LimitInv /\ [Next]_vars => LimitInv'
  BY LimitsStep
<1> QED BY <1>1, InitLimits, PTL DEF Spec

\* With one process and sparing operators no workstation is credited more results a
\* day than its limit, over midnights, crashes and recoveries (claim.py, state.py).
THEOREM DailyLimitIsKept == ASSUME Sparing PROVE Spec => []DailyLimitKept
<1>1. LimitInv => DailyLimitKept
  BY DEF LimitInv
<1> QED BY <1>1, LimitsHold, PTL

\* With one process and sparing operators no more workers run, and wait for their
\* launch, than the mode profile allows, although the scheduler only counts the
\* futures it remembers (runner/multi.py).
THEOREM ConcurrencyCapKept == ASSUME Sparing PROVE Spec => []ConcurrencyCap
<1>1. LimitInv => ConcurrencyCap
  BY DEF LimitInv
<1> QED BY <1>1, LimitsHold, PTL

-----------------------------------------------------------------------------
\* The lifecycle of a task

\* A row that can still run keeps within every bound its tries are counted from,
\* and its dependency is the one it was created with until that row is deleted.
LifeOf(t) ==
  /\ task[t].status \in {"pending", "running", "retry_waiting"} =>
       task[t].zombies < ZombieBound /\ task[t].resumed <= AutoResumeCap
  /\ task[t].status # "absent" =>
       \/ task[t].dep = DependsOn[t]
       \/ /\ task[t].dep = None /\ DependsOn[t] # None
          /\ task[DependsOn[t]].status = "absent"

LifeInv == Ownership /\ RetryBudget /\ \A t \in Tasks : LifeOf(t)

\* What the lifecycle sees of a row does not move.
Still(t) == Stage(t)' = Stage(t) /\ TriesLeft(t)' = TriesLeft(t)

LEMMA RowTypes ==
  ASSUME TypeOK, NEW t \in Tasks
  PROVE  /\ task[t].retry \in Nat /\ task[t].zombies \in Nat /\ task[t].resumed \in Nat
         /\ task[t].status \in TaskStatus /\ task[t].dep \in Tasks \cup {None}
BY DEF TypeOK, TaskRow

LEMMA BoundTypes ==
  /\ AutoResumeCap \in Nat /\ ZombieBound \in Nat \ {0}
  /\ StartupLimit \in Nat /\ ZombieLimit \in Nat
  /\ StartupLimit <= ZombieBound /\ ZombieLimit <= ZombieBound
  /\ \A t \in Tasks : MaxRetry[t] \in Nat /\ DependsOn[t] \in Tasks \cup {None}
BY ConstantsOK DEF ConstantsOK, ZombieBound

\* Every way in which a row spends, or is given back, what its tries are made of.
LEMMA TriesArithmetic ==
  ASSUME NEW t \in Tasks, NEW resumed \in Nat, NEW retry \in Nat, NEW zombies \in Nat,
         resumed <= AutoResumeCap, retry <= MaxRetry[t], zombies < ZombieBound
  PROVE  /\ TriesOf(t, resumed, retry, zombies) \in Nat
         /\ retry < MaxRetry[t] =>
              /\ TriesOf(t, resumed, retry, zombies) > 0
              /\ TriesOf(t, resumed, retry + 1, zombies) = TriesOf(t, resumed, retry, zombies) - 1
         /\ zombies + 1 < ZombieBound =>
              TriesOf(t, resumed, retry, zombies + 1) = TriesOf(t, resumed, retry, zombies) - 1
         /\ retry < MaxRetry[t] /\ zombies + 1 < ZombieBound =>
              TriesOf(t, resumed, retry + 1, zombies + 1) = TriesOf(t, resumed, retry, zombies) - 2
         /\ retry = MaxRetry[t] /\ resumed < AutoResumeCap =>
              TriesOf(t, resumed + 1, 0, zombies) = TriesOf(t, resumed, retry, zombies)
<1> DEFINE a == AutoResumeCap - resumed
           m == MaxRetry[t]
           z == ZombieBound - 1 - zombies
<1>1. a \in Nat /\ m \in Nat /\ z \in Nat /\ m - retry \in Nat
  BY BoundTypes
<1>2. a * m \in Nat
  BY <1>1
<1>3. \A r \in Nat, y \in Nat :
        TriesOf(t, resumed, r, y) = a * m + (m - r) + (ZombieBound - 1 - y)
  BY DEF TriesOf
<1>4. TriesOf(t, resumed + 1, 0, zombies) = (AutoResumeCap - (resumed + 1)) * m + (m - 0) + z
  BY DEF TriesOf
<1>5. resumed < AutoResumeCap => (AutoResumeCap - (resumed + 1)) * m + m = a * m
  <2> SUFFICES ASSUME resumed < AutoResumeCap
               PROVE  (AutoResumeCap - (resumed + 1)) * m + m = a * m
    OBVIOUS
  <2>1. PICK b \in Nat : a = b + 1 /\ AutoResumeCap - (resumed + 1) = b
    BY <1>1, BoundTypes
  <2> HIDE DEF a, m
  <2>2. (b + 1) * m = b * m + m
    BY <1>1
  <2> QED BY <2>1, <2>2
<1>6. TriesOf(t, resumed, retry, zombies) = a * m + (m - retry) + z
  BY <1>3
<1>7. /\ TriesOf(t, resumed, retry + 1, zombies) = a * m + (m - (retry + 1)) + z
      /\ TriesOf(t, resumed, retry, zombies + 1) = a * m + (m - retry) + (ZombieBound - 1 - (zombies + 1))
      /\ TriesOf(t, resumed, retry + 1, zombies + 1)
           = a * m + (m - (retry + 1)) + (ZombieBound - 1 - (zombies + 1))
  BY <1>3
<1> DEFINE am == a * m
<1>8. am \in Nat
  BY <1>2
<1>9. TriesOf(t, resumed, retry, zombies) \in Nat
  <2> HIDE DEF am
  <2>1. TriesOf(t, resumed, retry, zombies) = am + (m - retry) + z
    BY <1>6 DEF am
  <2> QED BY <1>1, <1>8, <2>1
<1>10. retry < m =>
         /\ TriesOf(t, resumed, retry, zombies) > 0
         /\ TriesOf(t, resumed, retry + 1, zombies) = TriesOf(t, resumed, retry, zombies) - 1
  <2>1. /\ TriesOf(t, resumed, retry, zombies) = am + (m - retry) + z
        /\ TriesOf(t, resumed, retry + 1, zombies) = am + (m - (retry + 1)) + z
    BY <1>6, <1>7
  <2> HIDE DEF am
  <2> QED BY <1>1, <1>8, <2>1
<1>11. /\ TriesOf(t, resumed, retry, zombies + 1) = TriesOf(t, resumed, retry, zombies) - 1
       /\ TriesOf(t, resumed, retry + 1, zombies + 1) = TriesOf(t, resumed, retry, zombies) - 2
  <2>1. /\ TriesOf(t, resumed, retry, zombies) = am + (m - retry) + z
        /\ TriesOf(t, resumed, retry, zombies + 1)
             = am + (m - retry) + (ZombieBound - 1 - (zombies + 1))
        /\ TriesOf(t, resumed, retry + 1, zombies + 1)
             = am + (m - (retry + 1)) + (ZombieBound - 1 - (zombies + 1))
    BY <1>6, <1>7
  <2> HIDE DEF am
  <2> QED BY <1>1, <1>8, <2>1, BoundTypes
<1>12. retry = m /\ resumed < AutoResumeCap =>
         TriesOf(t, resumed + 1, 0, zombies) = TriesOf(t, resumed, retry, zombies)
  <2>1. TriesOf(t, resumed, retry, zombies) = am + (m - retry) + z
    BY <1>6
  <2>2. resumed < AutoResumeCap => (AutoResumeCap - (resumed + 1)) * m = am - m
    <3> SUFFICES ASSUME resumed < AutoResumeCap PROVE (AutoResumeCap - (resumed + 1)) * m = am - m
      OBVIOUS
    <3>1. PICK b \in Nat : AutoResumeCap - (resumed + 1) = b
      BY BoundTypes
    <3>2. b * m + m = am /\ b * m \in Nat
      BY <1>1, <1>5, <3>1
    <3> HIDE DEF am
    <3> QED BY <1>1, <1>8, <3>1, <3>2
  <2> HIDE DEF am
  <2> QED BY <1>1, <1>4, <1>8, <2>1, <2>2
<1> QED BY <1>9, <1>10, <1>11, <1>12

\* The tries of a row that can run, from its counters.
LEMMA TriesFacts ==
  ASSUME LifeInv, NEW t \in Tasks,
         task[t].status \in {"pending", "running", "retry_waiting"}
  PROVE  LET left == TriesOf(t, task[t].resumed, task[t].retry, task[t].zombies) IN
           /\ left \in Nat
           /\ task[t].status = "running" =>
                left > 0 /\ TriesLeft(t) = left - 1 /\ Stage(t) = "running" /\ task[t].retry < MaxRetry[t]
           /\ task[t].status # "running" => TriesLeft(t) = left /\ Stage(t) = "waiting"
<1>1. TypeOK /\ LifeOf(t)
  BY DEF LifeInv, Ownership
<1>2. /\ task[t].retry \in Nat /\ task[t].zombies \in Nat /\ task[t].resumed \in Nat
      /\ task[t].resumed <= AutoResumeCap /\ task[t].zombies < ZombieBound
  BY <1>1, RowTypes DEF LifeOf
<1>3. task[t].retry <= MaxRetry[t] /\ (task[t].status = "running" => task[t].retry < MaxRetry[t])
  BY DEF LifeInv, RetryBudget
<1>4. /\ TriesOf(t, task[t].resumed, task[t].retry, task[t].zombies) \in Nat
      /\ task[t].retry < MaxRetry[t] =>
           TriesOf(t, task[t].resumed, task[t].retry, task[t].zombies) > 0
  BY <1>2, <1>3, TriesArithmetic
<1>5. task[t].status = "running" => Stage(t) = "running"
  BY DEF Stage
<1>6. task[t].status # "running" => Stage(t) = "waiting"
  BY DEF Stage
<1> HIDE DEF Stage, TriesOf
<1> QED BY <1>3, <1>4, <1>5, <1>6 DEF TriesLeft

-----------------------------------------------------------------------------
\* The steps of the lifecycle, row by row

LEMMA StartMapped ==
  ASSUME NEW t \in Tasks, Stage(t) = "waiting", TriesLeft(t) > 0,
         DependsOn[t] # None => DependsOn[t] \in Tasks /\ Stage(DependsOn[t]) \in {"success", "absent"},
         Stage(t)' = "running", TriesLeft(t)' = TriesLeft(t) - 1,
         \A u \in Tasks : u # t => Still(u)
  PROVE  TaskLife!Next
<1>1. [u \in Tasks |-> Stage(u)]' = [[u \in Tasks |-> Stage(u)] EXCEPT ![t] = "running"]
  BY DEF Still
<1>2. [u \in Tasks |-> TriesLeft(u)]' = [[u \in Tasks |-> TriesLeft(u)] EXCEPT ![t] = TriesLeft(t) - 1]
  BY DEF Still
<1>3. TaskLife!Start(t)
  BY <1>1, <1>2 DEF TaskLife!Start
<1> QED BY <1>3 DEF TaskLife!Next

LEMMA EndMapped ==
  ASSUME NEW t \in Tasks, NEW to \in TaskLife!Verdicts \cup {"absent"},
         Stage(t) = "running"
           \/ (to = "absent" /\ Stage(t) \in TaskLife!Verdicts \cup {"waiting", "running"}),
         Stage(t)' = to, TriesLeft(t)' = 0,
         \A u \in Tasks : u # t => Still(u)
  PROVE  TaskLife!Next
<1>1. [u \in Tasks |-> Stage(u)]' = [[u \in Tasks |-> Stage(u)] EXCEPT ![t] = to]
  BY DEF Still
<1>2. [u \in Tasks |-> TriesLeft(u)]' = [[u \in Tasks |-> TriesLeft(u)] EXCEPT ![t] = 0]
  BY DEF Still
<1>3. CASE to = "absent"
  <2>1. TaskLife!Remove(t)
    BY <1>1, <1>2, <1>3 DEF TaskLife!Remove, TaskLife!Ends
  <2> QED BY <2>1 DEF TaskLife!Next
<1>4. CASE to # "absent"
  <2>1. TaskLife!Ends(t, {"running"}, to)
    BY <1>1, <1>2, <1>4 DEF TaskLife!Ends
  <2>2. TaskLife!Finish(t)
    BY <1>4, <2>1 DEF TaskLife!Finish
  <2> QED BY <2>2 DEF TaskLife!Next
<1> QED BY <1>3, <1>4

LEMMA TakeBackMapped ==
  ASSUME NEW ts \in SUBSET Tasks,
         \A t \in ts :
           /\ Stage(t) = "running"
           /\ \/ Stage(t)' = "waiting" /\ TriesLeft(t)' \in 0 .. TriesLeft(t)
              \/ Stage(t)' = "manual_review" /\ TriesLeft(t)' = 0,
         \A u \in Tasks \ ts : Still(u)
  PROVE  TaskLife!Next
<1> DEFINE again == {t \in ts : Stage(t)' = "waiting"}
<1>1. [u \in Tasks |-> Stage(u)]' = [u \in Tasks |-> IF u \in again THEN "waiting"
                                    ELSE IF u \in ts THEN "manual_review" ELSE Stage(u)]
  BY DEF Still
<1>2. \A t \in again : TriesLeft(t)' \in 0 .. TriesLeft(t)
  OBVIOUS
<1>3. \A t \in Tasks \ again : TriesLeft(t)' = IF t \in ts THEN 0 ELSE TriesLeft(t)
  BY DEF Still
<1>4. \A t \in Tasks : /\ [u \in Tasks |-> TriesLeft(u)]'[t] = TriesLeft(t)'
                       /\ [u \in Tasks |-> TriesLeft(u)][t] = TriesLeft(t)
                       /\ [u \in Tasks |-> Stage(u)][t] = Stage(t)
  OBVIOUS
<1>5. again \in SUBSET ts
  OBVIOUS
<1> HIDE DEF again
<1>6. TaskLife!TakeBack(ts)
  BY <1>1, <1>2, <1>3, <1>4, <1>5 DEF TaskLife!TakeBack
<1> QED BY <1>6 DEF TaskLife!Next

LifeView == <<[t \in Tasks |-> Stage(t)], [t \in Tasks |-> TriesLeft(t)]>>

LEMMA StillMapped == ASSUME \A u \in Tasks : Still(u) PROVE UNCHANGED LifeView
BY DEF Still, LifeView

\* A row whose status and counters do not change is still.
LEMMA RowStill ==
  ASSUME NEW t \in Tasks,
         task'[t].status = task[t].status
           \/ {task[t].status, task'[t].status} \subseteq {"pending", "retry_waiting"},
         task'[t].retry = task[t].retry, task'[t].zombies = task[t].zombies,
         task'[t].resumed = task[t].resumed
  PROVE  Still(t)
<1>1. Stage(t)' = Stage(t)
  BY DEF Stage
<1> QED BY <1>1 DEF Still, TriesLeft, TriesOf

-----------------------------------------------------------------------------
\* Every step of the dispatch core is one of them

\* Rows that keep status, counters and dependency, or lose nothing by what they
\* change, keep LifeOf.
LEMMA LifeKept ==
  ASSUME TypeOK, NEW t \in Tasks, LifeOf(t),
         task'[t].dep = task[t].dep,
         task[t].status = "absent" => task'[t].status = "absent",
         \A u \in Tasks : task[u].status = "absent" => task'[u].status = "absent",
         task'[t].status \in {"pending", "running", "retry_waiting"} =>
           task'[t].zombies < ZombieBound /\ task'[t].resumed <= AutoResumeCap
  PROVE  LifeOf(t)'
<1>1. DependsOn[t] \in Tasks \cup {None}
  BY BoundTypes
<1> QED BY <1>1 DEF LifeOf

LEMMA LifeUntouched ==
  ASSUME LifeInv, task' = task
  PROVE  (\A t \in Tasks : LifeOf(t)') /\ UNCHANGED LifeView
<1>1. \A t \in Tasks : LifeOf(t)' = LifeOf(t)
  BY DEF LifeOf
<1>2. \A t \in Tasks : Still(t)
  BY DEF Still, Stage, TriesLeft, TriesOf
<1> QED BY <1>1, <1>2, StillMapped DEF LifeInv

\* The boot cleanup and the zombie recovery take running rows back: those that
\* stay below their limit wait again, with a try or two less.
LEMMA TakenBack ==
  ASSUME LifeInv, TypeOK', NEW ts \in SUBSET Tasks,
         NEW limit \in Nat, limit <= ZombieBound,
         \A t \in ts : task[t].status = "running",
         \A t \in Tasks \ ts : task'[t] = task[t],
         \A t \in ts :
           /\ task'[t].zombies = task[t].zombies + 1
           /\ task'[t].resumed = task[t].resumed /\ task'[t].dep = task[t].dep
           /\ task'[t].status = IF Escalated(task[t], limit) THEN "manual_review" ELSE "retry_waiting"
           /\ task'[t].status = "retry_waiting" =>
                task'[t].retry \in {task[t].retry, task[t].retry + 1}
  PROVE  (\A t \in Tasks : LifeOf(t)') /\ TaskLife!Next
<1>1. TypeOK
  BY DEF LifeInv, Ownership
<1>2. \A t \in Tasks : task[t].status = "absent" => task'[t].status = "absent"
  OBVIOUS
<1>3. ASSUME NEW t \in Tasks \ ts PROVE LifeOf(t)' /\ Still(t)
  <2>1. LifeOf(t)
    BY DEF LifeInv
  <2>2. LifeOf(t)'
    BY <1>1, <1>2, <2>1, LifeKept DEF LifeOf
  <2> QED BY <2>2, RowStill
<1>4. ASSUME NEW t \in ts
      PROVE  /\ LifeOf(t)' /\ Stage(t) = "running"
             /\ \/ Stage(t)' = "waiting" /\ TriesLeft(t)' \in 0 .. TriesLeft(t)
                \/ Stage(t)' = "manual_review" /\ TriesLeft(t)' = 0
  <2> DEFINE left == TriesOf(t, task[t].resumed, task[t].retry, task[t].zombies)
  <2>1. /\ left \in Nat /\ left > 0 /\ TriesLeft(t) = left - 1 /\ Stage(t) = "running"
        /\ task[t].retry < MaxRetry[t]
    BY TriesFacts
  <2>2. /\ task[t].retry \in Nat /\ task[t].zombies \in Nat /\ task[t].resumed \in Nat
        /\ LifeOf(t)
    BY <1>1, RowTypes DEF LifeInv
  <2>3. task[t].resumed <= AutoResumeCap /\ task[t].zombies < ZombieBound
    BY <2>2 DEF LifeOf
  <2>4. CASE Escalated(task[t], limit)
    <3>1. task'[t].status = "manual_review"
      BY <2>4
    <3>2. LifeOf(t)'
      BY <1>1, <1>2, <2>2, <3>1, LifeKept
    <3>3. Stage(t)' = "manual_review"
      BY <3>1 DEF Stage
    <3>4. TriesLeft(t)' = 0
      BY <3>3 DEF TriesLeft
    <3> QED BY <2>1, <3>2, <3>3, <3>4
  <2>5. CASE ~Escalated(task[t], limit)
    <3>1. task'[t].status = "retry_waiting" /\ task[t].zombies + 1 < ZombieBound
      BY <2>2, <2>5, BoundTypes DEF Escalated
    <3>2. LifeOf(t)'
      BY <1>1, <1>2, <2>2, <2>3, <3>1, LifeKept
    <3>3. Stage(t)' = "waiting"
      BY <3>1 DEF Stage
    <3>4. TriesLeft(t)' = TriesOf(t, task'[t].resumed, task'[t].retry, task'[t].zombies)
      BY <3>3 DEF TriesLeft, TriesOf
    <3>5. TriesLeft(t)' \in {left - 1, left - 2}
      <4>0. /\ TriesOf(t, task[t].resumed, task[t].retry, task[t].zombies + 1) = left - 1
            /\ TriesOf(t, task[t].resumed, task[t].retry + 1, task[t].zombies + 1) = left - 2
        <5>1. task[t].retry <= MaxRetry[t]
          BY <2>1, <2>2, BoundTypes
        <5> QED BY <2>1, <2>2, <2>3, <3>1, <5>1, TriesArithmetic
      <4>1. CASE task'[t].retry = task[t].retry
        <5>1. TriesLeft(t)' = TriesOf(t, task[t].resumed, task[t].retry, task[t].zombies + 1)
          BY <3>4, <4>1
        <5> HIDE DEF left
        <5> QED BY <4>0, <5>1
      <4>2. CASE task'[t].retry = task[t].retry + 1
        <5>1. TriesLeft(t)' = TriesOf(t, task[t].resumed, task[t].retry + 1, task[t].zombies + 1)
          BY <3>4, <4>2
        <5> HIDE DEF left
        <5> QED BY <4>0, <5>1
      <4> QED BY <3>1, <4>1, <4>2
    <3>6. TriesLeft(t)' \in Nat
      <4>1. task'[t].retry \in Nat /\ task'[t].retry <= MaxRetry[t]
        BY <2>1, <2>2, <3>1, BoundTypes
      <4>2. task'[t].zombies \in Nat /\ task'[t].zombies < ZombieBound
        BY <2>2, <3>1
      <4>3. task'[t].resumed \in Nat /\ task'[t].resumed <= AutoResumeCap
        BY <2>2, <2>3
      <4> QED BY <3>4, <4>1, <4>2, <4>3, TriesArithmetic
    <3> HIDE DEF left
    <3> QED BY <2>1, <3>2, <3>3, <3>5, <3>6
  <2> QED BY <2>4, <2>5
<1>5. TaskLife!Next
  BY <1>3, <1>4, TakeBackMapped
<1> QED BY <1>3, <1>4, <1>5

LEMMA BootLife ==
  ASSUME LifeInv, TypeOK', NEW p \in Procs, Boot(p)
  PROVE  (\A t \in Tasks : LifeOf(t)') /\ TaskLife!Next
<1> DEFINE ts == {t \in Tasks : task[t].status = "running"}
<1>1. task \in [Tasks -> TaskRow]
  BY DEF LifeInv, Ownership, TypeOK
<1>2. \A t \in Tasks \ ts : task'[t] = task[t]
  BY DEF Boot
<1>3. ASSUME NEW t \in ts
      PROVE  /\ task'[t].zombies = task[t].zombies + 1
             /\ task'[t].resumed = task[t].resumed /\ task'[t].dep = task[t].dep
             /\ task'[t].status = IF Escalated(task[t], StartupLimit) THEN "manual_review" ELSE "retry_waiting"
             /\ task'[t].retry = task[t].retry
  <2>1. task'[t] = [task[t] EXCEPT
               !.status = IF Escalated(task[t], StartupLimit) THEN "manual_review" ELSE "retry_waiting",
               !.zombies = @ + 1, !.ws = None, !.age = "none"]
    BY DEF Boot
  <2>2. task[t] \in TaskRow
    BY <1>1
  <2> QED BY <2>1, <2>2 DEF TaskRow
<1> QED BY <1>2, <1>3, BoundTypes, TakenBack

LEMMA ZombiesLife ==
  ASSUME LifeInv, TypeOK', NEW p \in Procs, RecoverZombies(p)
  PROVE  (\A t \in Tasks : LifeOf(t)') /\ TaskLife!Next
<1> DEFINE ts == {t \in Tasks : Zombie(t)}
<1>1. task \in [Tasks -> TaskRow]
  BY DEF LifeInv, Ownership, TypeOK
<1>2. \A t \in Tasks \ ts : task'[t] = task[t]
  BY DEF RecoverZombies
<1>3. ASSUME NEW t \in ts
      PROVE  /\ task'[t].zombies = task[t].zombies + 1
             /\ task'[t].resumed = task[t].resumed /\ task'[t].dep = task[t].dep
             /\ task'[t].status = IF Escalated(task[t], ZombieLimit) THEN "manual_review" ELSE "retry_waiting"
             /\ task'[t].retry \in {task[t].retry, task[t].retry + 1}
  <2>1. task'[t] = IF Escalated(task[t], ZombieLimit)
         THEN [task[t] EXCEPT !.status = "manual_review", !.zombies = @ + 1]
         ELSE [task[t] EXCEPT !.status = "retry_waiting", !.zombies = @ + 1, !.retry = @ + 1]
    BY DEF RecoverZombies
  <2>2. task[t] \in TaskRow
    BY <1>1
  <2> QED BY <2>1, <2>2 DEF TaskRow
<1>4. \A t \in ts : task[t].status = "running"
  BY DEF Zombie
<1> QED BY <1>2, <1>3, <1>4, BoundTypes, TakenBack

\* The automatic resumption gives back the retries it takes from the resumptions.
LEMMA AutoResumeLife ==
  ASSUME LifeInv, TypeOK', NEW p \in Procs, AutoResume(p)
  PROVE  (\A t \in Tasks : LifeOf(t)') /\ UNCHANGED LifeView
<1>1. task \in [Tasks -> TaskRow] /\ TypeOK
  BY DEF LifeInv, Ownership, TypeOK
<1>2. ASSUME NEW t \in Tasks
      PROVE  IF Exhausted(t)
             THEN /\ task'[t].status = "pending" /\ task'[t].retry = 0
                  /\ task'[t].resumed = task[t].resumed + 1
                  /\ task'[t].zombies = task[t].zombies /\ task'[t].dep = task[t].dep
             ELSE task'[t] = task[t]
  <2>1. task'[t] = IF Exhausted(t) THEN Resumed(task[t], task[t].resumed + 1) ELSE task[t]
    BY DEF AutoResume
  <2>2. task[t] \in TaskRow
    BY <1>1
  <2> QED BY <2>1, <2>2 DEF TaskRow, Resumed
<1>3. \A t \in Tasks : task[t].status = "absent" => task'[t].status = "absent"
  BY <1>2 DEF Exhausted
<1>4. ASSUME NEW t \in Tasks PROVE LifeOf(t)' /\ Still(t)
  <2>1. LifeOf(t)
    BY DEF LifeInv
  <2>2. CASE ~Exhausted(t)
    <3>1. LifeOf(t)'
      BY <1>1, <1>2, <1>3, <2>1, <2>2, LifeKept DEF LifeOf
    <3> QED BY <1>2, <2>2, <3>1, RowStill
  <2>3. CASE Exhausted(t)
    <3>1. /\ task[t].status = "retry_waiting" /\ task[t].retry >= MaxRetry[t]
          /\ task[t].resumed < AutoResumeCap
      BY <2>3 DEF Exhausted
    <3>2. /\ task[t].retry \in Nat /\ task[t].zombies \in Nat /\ task[t].resumed \in Nat
          /\ task[t].zombies < ZombieBound /\ task[t].retry <= MaxRetry[t]
      BY <1>1, <2>1, <3>1, RowTypes DEF LifeOf, LifeInv, RetryBudget
    <3>3. task[t].retry = MaxRetry[t]
      BY <3>1, <3>2, BoundTypes
    <3>4. LifeOf(t)'
      BY <1>1, <1>2, <1>3, <2>1, <2>3, <3>1, <3>2, LifeKept, BoundTypes
    <3>5. Stage(t)' = "waiting" /\ Stage(t) = "waiting"
      BY <1>2, <2>3, <3>1 DEF Stage
    <3>6. TriesLeft(t)' = TriesOf(t, task[t].resumed + 1, 0, task[t].zombies)
      BY <1>2, <2>3, <3>5 DEF TriesLeft, TriesOf
    <3>7. TriesLeft(t) = TriesOf(t, task[t].resumed, task[t].retry, task[t].zombies)
      BY <3>5 DEF TriesLeft
    <3>8. TriesLeft(t)' = TriesLeft(t)
      <4>1. task[t].retry <= MaxRetry[t] /\ task[t].resumed <= AutoResumeCap
        BY <3>1, <3>2, BoundTypes
      <4>2. TriesOf(t, task[t].resumed + 1, 0, task[t].zombies)
              = TriesOf(t, task[t].resumed, task[t].retry, task[t].zombies)
        BY <3>1, <3>2, <3>3, <4>1, TriesArithmetic
      <4> QED BY <3>6, <3>7, <4>2
    <3> QED BY <3>4, <3>5, <3>8 DEF Still
  <2> QED BY <2>2, <2>3
<1> QED BY <1>4, StillMapped

\* A claim starts the task it has taken.
LEMMA ClaimLife ==
  ASSUME LifeInv, TypeOK', NEW w \in Workstations, NEW t \in Tasks, ClaimOne(w, t)
  PROVE  (\A u \in Tasks : LifeOf(u)') /\ TaskLife!Next
<1> DEFINE left == TriesOf(t, task[t].resumed, task[t].retry, task[t].zombies)
<1>1. /\ task \in [Tasks -> TaskRow] /\ TypeOK /\ \A u \in Tasks : LifeOf(u)
      /\ task[t] \in TaskRow
  BY DEF LifeInv, Ownership, TypeOK
<1>2. /\ task[t].status \in {"pending", "retry_waiting"} /\ task[t].retry < MaxRetry[t]
      /\ task[t].dep # None => task[task[t].dep].status = "success"
  BY DEF ClaimOne, Preferred, Claimable
<1>3. /\ \A u \in Tasks : u # t => task'[u] = task[u]
      /\ task'[t].status = "running" /\ task'[t].dep = task[t].dep
      /\ task'[t].retry = task[t].retry /\ task'[t].zombies = task[t].zombies
      /\ task'[t].resumed = task[t].resumed
  BY <1>1 DEF ClaimOne, TaskRow
<1>4. \A u \in Tasks : task[u].status = "absent" => task'[u].status = "absent"
  BY <1>2, <1>3
<1>5. ASSUME NEW u \in Tasks PROVE LifeOf(u)' /\ (u # t => Still(u))
  <2>1. CASE u # t
    <3>1. LifeOf(u)'
      BY <1>1, <1>3, <1>4, <2>1, LifeKept DEF LifeOf
    <3> QED BY <1>3, <2>1, <3>1, RowStill
  <2>2. CASE u = t
    BY <1>1, <1>2, <1>3, <1>4, <2>2, LifeKept DEF LifeOf
  <2> QED BY <2>1, <2>2
<1>6. left \in Nat /\ TriesLeft(t) = left /\ Stage(t) = "waiting"
  BY <1>2, TriesFacts
<1>7. left > 0
  <2>1. /\ task[t].retry \in Nat /\ task[t].zombies \in Nat /\ task[t].resumed \in Nat
        /\ task[t].zombies < ZombieBound /\ task[t].resumed <= AutoResumeCap
    BY <1>1, <1>2, RowTypes DEF LifeOf
  <2>2. task[t].retry <= MaxRetry[t]
    BY <1>2, <2>1, BoundTypes
  <2> QED BY <1>2, <2>1, <2>2, TriesArithmetic
<1>8. Stage(t)' = "running"
  BY <1>3 DEF Stage
<1>9. TriesLeft(t)' = left - 1
  BY <1>3, <1>8 DEF TriesLeft, TriesOf
<1>10. DependsOn[t] # None =>
         DependsOn[t] \in Tasks /\ Stage(DependsOn[t]) \in {"success", "absent"}
  <2> SUFFICES ASSUME DependsOn[t] # None
               PROVE  DependsOn[t] \in Tasks /\ Stage(DependsOn[t]) \in {"success", "absent"}
    OBVIOUS
  <2>1. DependsOn[t] \in Tasks
    BY BoundTypes
  <2>2. task[DependsOn[t]].status \in {"success", "absent"}
    BY <1>1, <1>2 DEF LifeOf
  <2> QED BY <2>1, <2>2 DEF Stage
<1> HIDE DEF left
<1>11. TriesLeft(t) > 0 /\ TriesLeft(t)' = TriesLeft(t) - 1
  BY <1>6, <1>7, <1>9
<1>12. TaskLife!Next
  BY <1>5, <1>6, <1>8, <1>10, <1>11, StartMapped
<1> QED BY <1>5, <1>12

\* A worker's final transaction gives its own task a verdict, or gives it back.
LEMMA FinalizeLife ==
  ASSUME LifeInv, TypeOK', NEW n \in Jobs, Finalize(n)
  PROVE  (\A u \in Tasks : LifeOf(u)') /\ TaskLife!Next
<1>0. PICK t : t = job[n].task
  OBVIOUS
<1> DEFINE left == TriesOf(t, task[t].resumed, task[t].retry, task[t].zombies)
<1>1. /\ task \in [Tasks -> TaskRow] /\ TypeOK /\ \A u \in Tasks : LifeOf(u)
      /\ t \in Tasks /\ task[t] \in TaskRow /\ task[t].status = "running"
  BY <1>0 DEF LifeInv, Ownership, TypeOK, WorkerOwnsRows, Owns, Finalize
<1>2. PICK o \in Outcomes :
        task' = [task EXCEPT ![t].status = o[1],
                   ![t].retry = IF o[1] = "retry_waiting" /\ task[t].status = "running"
                                THEN @ + 1 ELSE @]
  BY <1>0 DEF Finalize
<1>3. o[1] \in TaskLife!Verdicts \cup {"retry_waiting"}
  BY DEF Outcomes, TaskLife!Verdicts
<1>4. /\ \A u \in Tasks : u # t => task'[u] = task[u]
      /\ task'[t].status = o[1] /\ task'[t].dep = task[t].dep
      /\ task'[t].zombies = task[t].zombies /\ task'[t].resumed = task[t].resumed
      /\ o[1] = "retry_waiting" => task'[t].retry = task[t].retry + 1
  BY <1>1, <1>2 DEF TaskRow
<1>5. \A u \in Tasks : task[u].status = "absent" => task'[u].status = "absent"
  BY <1>1, <1>4
<1>6. ASSUME NEW u \in Tasks PROVE LifeOf(u)' /\ (u # t => Still(u))
  <2>1. CASE u # t
    <3>1. LifeOf(u)'
      BY <1>1, <1>4, <1>5, <2>1, LifeKept DEF LifeOf
    <3> QED BY <1>4, <2>1, <3>1, RowStill
  <2>2. CASE u = t
    <3>1. task[t].zombies < ZombieBound /\ task[t].resumed <= AutoResumeCap
      BY <1>1 DEF LifeOf
    <3> QED BY <1>1, <1>4, <1>5, <2>2, <3>1, LifeKept
  <2> QED BY <2>1, <2>2
<1>7. /\ left \in Nat /\ left > 0 /\ TriesLeft(t) = left - 1 /\ Stage(t) = "running"
      /\ task[t].retry < MaxRetry[t]
  BY <1>1, TriesFacts
<1>8. CASE o[1] # "retry_waiting"
  <2>1. Stage(t)' = o[1]
    BY <1>3, <1>4, <1>8 DEF Stage, TaskLife!Verdicts
  <2>2. TriesLeft(t)' = 0
    BY <1>3, <1>8, <2>1 DEF TriesLeft, TaskLife!Verdicts
  <2>3. TaskLife!Next
    BY <1>1, <1>3, <1>6, <1>7, <1>8, <2>1, <2>2, EndMapped
  <2> QED BY <1>6, <2>3
<1>9. CASE o[1] = "retry_waiting"
  <2>1. Stage(t)' = "waiting"
    BY <1>4, <1>9 DEF Stage
  <2>2. TriesLeft(t)' = TriesOf(t, task[t].resumed, task[t].retry + 1, task[t].zombies)
    BY <1>4, <1>9, <2>1 DEF TriesLeft, TriesOf
  <2>3. TriesOf(t, task[t].resumed, task[t].retry + 1, task[t].zombies) = left - 1
    <3>1. /\ task[t].retry \in Nat /\ task[t].zombies \in Nat /\ task[t].resumed \in Nat
          /\ task[t].zombies < ZombieBound /\ task[t].resumed <= AutoResumeCap
      BY <1>1, RowTypes DEF LifeOf
    <3>2. task[t].retry <= MaxRetry[t]
      BY <1>1, <1>7, <3>1, BoundTypes
    <3> QED BY <1>1, <1>7, <3>1, <3>2, TriesArithmetic
  <2> HIDE DEF left
  <2>4. TriesLeft(t)' \in 0 .. TriesLeft(t)
    BY <1>7, <2>2, <2>3
  <2>5. {t} \in SUBSET Tasks
    BY <1>1
  <2>6. TaskLife!Next
    BY <1>6, <1>7, <2>1, <2>4, <2>5, TakeBackMapped
  <2> QED BY <1>6, <2>6
<1> QED BY <1>8, <1>9

\* A deleted row leaves the lifecycle, and frees the rows that needed it.
LEMMA DeleteLife ==
  ASSUME LifeInv, TypeOK', NEW p \in Procs, DeleteTask(p)
  PROVE  (\A u \in Tasks : LifeOf(u)') /\ (TaskLife!Next \/ UNCHANGED LifeView)
<1>0. PICK t : t = req[p].on
  OBVIOUS
<1>1. /\ task \in [Tasks -> TaskRow] /\ TypeOK /\ \A u \in Tasks : LifeOf(u)
  BY DEF LifeInv, Ownership, TypeOK
<1>2. ASSUME NEW u \in Tasks, u # t
      PROVE  /\ task'[u].status = task[u].status /\ task'[u].retry = task[u].retry
             /\ task'[u].zombies = task[u].zombies /\ task'[u].resumed = task[u].resumed
             /\ task'[u].dep = IF task[u].dep = t THEN None ELSE task[u].dep
  <2>1. task'[u] = IF task[u].dep = t THEN [task[u] EXCEPT !.dep = None] ELSE task[u]
    BY <1>0, <1>2 DEF DeleteTask
  <2> QED BY <1>1, <2>1 DEF TaskRow
<1>3. t \in Tasks => task'[t].status = "absent"
  <2> SUFFICES ASSUME t \in Tasks PROVE task'[t].status = "absent"
    OBVIOUS
  <2>1. task'[t] = [task[t] EXCEPT !.status = "absent", !.ws = None, !.dep = None, !.age = "none"]
    BY <1>0 DEF DeleteTask
  <2>2. task[t] \in TaskRow
    BY <1>1
  <2> QED BY <2>1, <2>2 DEF TaskRow
<1>4. ASSUME NEW u \in Tasks PROVE LifeOf(u)' /\ (u # t => Still(u))
  <2>1. CASE u = t
    BY <1>3, <2>1 DEF LifeOf
  <2>2. CASE u # t
    <3>1. Still(u)
      BY <1>2, <2>2, RowStill
    <3>2. \A v \in Tasks : task[v].status = "absent" => task'[v].status = "absent"
      BY <1>2, <1>3
    <3>3. LifeOf(u) /\ DependsOn[u] \in Tasks \cup {None}
      BY <1>1, BoundTypes
    <3>4. LifeOf(u)'
      BY <1>2, <1>3, <2>2, <3>2, <3>3 DEF LifeOf
    <3> QED BY <3>1, <3>4
  <2> QED BY <2>1, <2>2
<1>5. CASE t \in Tasks /\ task[t].status # "absent"
  <2>1. Stage(t)' = "absent"
    BY <1>3, <1>5 DEF Stage
  <2>2. TriesLeft(t)' = 0
    BY <2>1 DEF TriesLeft
  <2>3. Stage(t) \in TaskLife!Verdicts \cup {"waiting", "running"}
    BY <1>1, <1>5, RowTypes DEF Stage, TaskStatus, TaskLife!Verdicts
  <2>4. TaskLife!Next
    BY <1>4, <1>5, <2>1, <2>2, <2>3, EndMapped
  <2> QED BY <1>4, <2>4
<1>6. CASE t \in Tasks /\ task[t].status = "absent"
  <2>1. Still(t)
    BY <1>3, <1>6 DEF Still, Stage, TriesLeft
  <2>2. \A u \in Tasks : Still(u)
    BY <1>4, <2>1
  <2> QED BY <1>4, <2>2, StillMapped
<1>7. CASE t \notin Tasks
  <2>1. \A u \in Tasks : Still(u)
    BY <1>4, <1>7
  <2> QED BY <1>4, <2>1, StillMapped
<1> QED BY <1>5, <1>6, <1>7

LEMMA StaleLife ==
  ASSUME LifeInv, TypeOK', NEW t \in Tasks, GrowsStale(t)
  PROVE  (\A u \in Tasks : LifeOf(u)') /\ UNCHANGED LifeView
<1>1. /\ task \in [Tasks -> TaskRow] /\ TypeOK /\ \A u \in Tasks : LifeOf(u)
  BY DEF LifeInv, Ownership, TypeOK
<1>2. ASSUME NEW u \in Tasks
      PROVE  /\ task'[u].status = task[u].status /\ task'[u].retry = task[u].retry
             /\ task'[u].zombies = task[u].zombies /\ task'[u].resumed = task[u].resumed
             /\ task'[u].dep = task[u].dep
  BY <1>1 DEF GrowsStale, TaskRow
<1>3. ASSUME NEW u \in Tasks PROVE LifeOf(u)' /\ Still(u)
  <2>1. LifeOf(u)'
    BY <1>1, <1>2, LifeKept DEF LifeOf
  <2> QED BY <1>2, <2>1, RowStill
<1> QED BY <1>3, StillMapped

LEMMA LifeStep ==
  ASSUME Cautious, LifeInv, [Next]_vars
  PROVE  LifeInv' /\ (TaskLife!Next \/ UNCHANGED LifeView)
<1>1. TypeOK' /\ Ownership' /\ RetryBudget'
  BY NextType, OwnershipStep, RetryBudgetStep DEF LifeInv, Ownership
<1>2. (\A u \in Tasks : LifeOf(u)') /\ (TaskLife!Next \/ UNCHANGED LifeView)
  <2>1. CASE task' = task
    BY <2>1, LifeUntouched
  <2>2. CASE Next
    <3>1. /\ \A p \in Procs : ~ResumeTask(p) /\ ~SoftRevive(p)
          /\ \A t \in Tasks : ~TaskReset(t)
          /\ \A p \in Procs, w \in Workstations : ~CaptureUrl(p, w)
      BY DEF Cautious, CautiousOps, LifeInv, Ownership, ResumeTask, SoftRevive, TaskReset,
        CaptureUrl, Spend
    <3>2. ASSUME NEW p \in Procs, Boot(p) \/ Crash(p) \/ PassStep(p) \/ PassFails(p) \/ DeleteTask(p)
          PROVE  (\A u \in Tasks : LifeOf(u)') /\ (TaskLife!Next \/ UNCHANGED LifeView)
      <4>1. CASE Boot(p)
        BY <1>1, <4>1, BootLife
      <4>2. CASE RecoverZombies(p)
        BY <1>1, <4>2, ZombiesLife
      <4>3. CASE AutoResume(p)
        BY <1>1, <4>3, AutoResumeLife
      <4>4. CASE RoundClaims(p)
        <5>1. PICK w \in Workstations, t \in Tasks : ClaimOne(w, t)
          BY <4>4 DEF RoundClaims
        <5> QED BY <1>1, <5>1, ClaimLife
      <4>5. CASE DeleteTask(p)
        BY <1>1, <4>5, DeleteLife
      <4> QED BY <2>1, <3>2, <4>1, <4>2, <4>3, <4>4, <4>5
        DEF PassStep, Crash, PassFails, StartPass, Sync, RecoverCooldowns, ReleaseOrphans,
            FindHealthy, RoundWaits, RoundExits, Submit, AwaitReturns, EndPass
    <3>3. ASSUME NEW j \in Jobs, WorkerStep(j)
          PROVE  (\A u \in Tasks : LifeOf(u)') /\ (TaskLife!Next \/ UNCHANGED LifeView)
      BY <1>1, <2>1, <3>3, FinalizeLife DEF WorkerStep, FinalizeFails, WorkerRaises
    <3>4. ASSUME NEW t \in Tasks, GrowsStale(t)
          PROVE  (\A u \in Tasks : LifeOf(u)') /\ (TaskLife!Next \/ UNCHANGED LifeView)
      BY <1>1, <3>4, StaleLife
    <3>5. CASE \/ \E p \in Procs, t \in Tasks : ReadForRequest(p, t)
               \/ \E w \in Workstations : TimerElapses(w) \/ OperatorOnStation(w)
               \/ ProbeRecover \/ Midnight
      <4>1. task' = task
        BY <3>5 DEF ReadForRequest, TimerElapses, OperatorOnStation, ProbeRecover, Midnight
      <4> QED BY <2>1, <4>1
    <3> QED BY <2>2, <3>1, <3>2, <3>3, <3>4, <3>5 DEF Next
  <2> QED BY <2>1, <2>2 DEF vars
<1> QED BY <1>1, <1>2 DEF LifeInv

LEMMA InitLife == Init => LifeInv /\ TaskLife!Init
<1> SUFFICES ASSUME Init PROVE LifeInv /\ TaskLife!Init
  OBVIOUS
<1>1. ASSUME NEW t \in Tasks
      PROVE  /\ task[t].status = "pending" /\ task[t].dep = DependsOn[t] /\ task[t].retry = 0
             /\ task[t].zombies = 0 /\ task[t].resumed = 0
  BY DEF Init
<1>2. RetryBudget
  BY <1>1, BoundTypes DEF RetryBudget
<1>3. \A t \in Tasks : LifeOf(t)
  BY <1>1, BoundTypes DEF LifeOf
<1>4. ASSUME NEW t \in Tasks PROVE Stage(t) = "waiting" /\ TriesLeft(t) = TriesOf(t, 0, 0, 0)
  <2>1. Stage(t) = "waiting"
    BY <1>1 DEF Stage
  <2> QED BY <1>1, <2>1 DEF TriesLeft
<1> QED BY <1>2, <1>3, <1>4, InitOwnership DEF LifeInv, TaskLife!Init

\* In a cautious installation the rows of the tasks table implement the lifecycle
\* of a task: every claim costs one of its tries, no worker, crash, zombie or
\* automatic resumption gives tries back, no task starts before the one it needs,
\* and a verdict stands until the task is removed (claim.py:111, state.py:35-100,
\* recovery.py:31-175, tasks/repository.py:490-521).
THEOREM TaskLifecycleImplemented == ASSUME Cautious PROVE Spec => ImplementsTaskLifecycle
<1>1. Init => LifeInv /\ TaskLife!Init
  BY InitLife
<1>2. LifeInv /\ [Next]_vars => LifeInv' /\ (TaskLife!Next \/ UNCHANGED LifeView)
  BY LifeStep
<1> QED BY <1>1, <1>2, PTL DEF Spec, ImplementsTaskLifecycle, TaskLife!Spec, LifeView
=============================================================================
