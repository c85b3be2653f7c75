------------------------------ MODULE Dispatch ------------------------------
(***************************************************************************)
(* The core of Flow Harvester: tasks and workstations as rows of one       *)
(* SQLite database, and everybody who changes them.                        *)
(*                                                                         *)
(*  - a scheduler daemon per process (app/scheduler/daemon.py) that runs   *)
(*    one pass after another (app/runner/multi.py): list the workstations, *)
(*    sync them, run the recoveries, then claim (workstation, task) pairs  *)
(*    and hand each to a worker thread until nothing is left;              *)
(*  - the worker threads, whose only effect here is the final transaction  *)
(*    (finalize_task) or an escaped exception;                             *)
(*  - operators using the web pages and the command line meanwhile;        *)
(*  - the clock, crashes and restarts.                                     *)
(*                                                                         *)
(* Every SQLite transaction is one action (BEGIN IMMEDIATE serialises      *)
(* them); what the code does in two transactions, or reads before it opens *)
(* one, is two actions.  Creation order and the failure times, which only  *)
(* rank the rows that may be picked, are left to nondeterministic choice,  *)
(* and so are the strike and failure counters that decide between cooldown *)
(* and manual_check.                                                       *)
(***************************************************************************)
EXTENDS Naturals, FiniteSets, WorkerOutcomes

CONSTANTS
  Tasks,          \* task ids
  Workstations,   \* workstation ids
  Procs,          \* operating-system processes that may run a daemon
  Jobs,           \* identities of worker futures; its size bounds the futures alive at once
  None,           \* SQL NULL, and "no such thing"
  DependsOn,      \* [Tasks -> Tasks \cup {None}]: depends_on_task_id at creation
  MaxRetry,       \* [Tasks -> Nat]: max_retry_count
  ZombieLimit,    \* recovery.zombie_recovery_limit
  StartupLimit,   \* the limit written into reset_zombie_state_on_startup
  AutoResumeCap,  \* auto_resume_cap of the active mode profile
  MaxConcurrent,  \* max_concurrent_ws of the active mode profile
  DailyLimit,     \* daily_task_limit of every workstation
  Absent,         \* workstations whose row does not exist yet at the start
  Operator,       \* which operations the operators use
  Disturbances,   \* what else happens: crashes, exceptions in workers, a database locked
                  \* for too long, new days
  Budget          \* bound on operator actions, crashes and failures together

OperatorOps == { "resume", "delete", "force_delete", "reset",
                 "revive", "nurture", "disable", "login", "no_access",
                 "probe", "add", "delete_ws" }
DisturbanceKinds == {"crash", "raise", "locked", "midnight"}

ASSUME ConstantsOK ==
  /\ None \notin Tasks \cup Workstations \cup Procs \cup Jobs
  /\ DependsOn \in [Tasks -> Tasks \cup {None}]
  /\ MaxRetry \in [Tasks -> Nat]
  /\ {StartupLimit, AutoResumeCap, Budget} \subseteq Nat
  /\ {ZombieLimit, MaxConcurrent, DailyLimit} \subseteq Nat \ {0}
  /\ Absent \subseteq Workstations
  /\ Operator \subseteq OperatorOps
  /\ Disturbances \subseteq DisturbanceKinds

\* A table has finitely many rows.
ASSUME FinitelyMany == IsFiniteSet(Workstations)

VARIABLES
  task,      \* the tasks table
  station,   \* the workstations table
  sched,     \* per process: its scheduler pass
  flight,    \* per process: in_flight, the future held for each workstation
  job,       \* the worker futures
  req,       \* per process: a web request between its read and its write
  budget     \* what is left of Budget

vars == <<task, station, sched, flight, job, req, budget>>

-----------------------------------------------------------------------------
\* Rows

TaskStatus == { "absent", "pending", "running", "success", "retry_waiting",
                "failed", "download_failed", "manual_review" }
StationStatus == { "absent", "healthy", "busy", "cooldown", "manual_check",
                   "nurturing", "disabled" }

\* age is started_at against running_stale_minutes; NULL is "none".
TaskRow == [ status : TaskStatus, ws : Workstations \cup {None},
             dep : Tasks \cup {None}, retry : Nat, zombies : Nat,
             resumed : Nat, age : {"none", "fresh", "stale"} ]

\* timer is cooldown_until against the clock; used is the day's successes and
\* failures; today says whether stats_date is the current date; url whether
\* flow_project_url is set.
StationRow == [ status : StationStatus, timer : {"none", "running", "elapsed"},
                used : Nat, today : BOOLEAN, url : BOOLEAN ]

JobRow == [ st : {"free", "working", "returned", "raised"},
            proc : Procs \cup {None}, ws : Workstations \cup {None},
            task : Tasks \cup {None} ]

PassSteps == {"sync", "recover", "release", "zombies", "healthy?", "autoresume"}
SchedState == [ pc : {"down", "idle", "loop", "stagger", "await", "drain"} \cup PassSteps,
                listed : [Workstations -> [status : StationStatus, url : BOOLEAN]],
                known : SUBSET Workstations,
                ws : Workstations \cup {None}, task : Tasks \cup {None} ]

ReqState == [ op : {"none", "resume", "delete", "login"},
              on : Tasks \cup Workstations \cup {None} ]

FreeJob == [st |-> "free", proc |-> None, ws |-> None, task |-> None]
NoReq == [op |-> "none", on |-> None]
NothingListed == [w \in Workstations |-> [status |-> "absent", url |-> FALSE]]
NewStation(status, url) ==
  [status |-> status, timer |-> "none", used |-> 0, today |-> FALSE, url |-> url]
Quiet(pc) ==
  [pc |-> pc, listed |-> NothingListed, known |-> {}, ws |-> None, task |-> None]
NoFlight == [w \in Workstations |-> None]

TypeOK ==
  /\ task \in [Tasks -> TaskRow]
  /\ station \in [Workstations -> StationRow]
  /\ sched \in [Procs -> SchedState]
  /\ flight \in [Procs -> [Workstations -> Jobs \cup {None}]]
  /\ job \in [Jobs -> JobRow]
  /\ req \in [Procs -> ReqState]
  /\ budget \in Nat

Present(w) == station[w].status # "absent"
Live(j) == job[j].st = "working"
Finished(j) == job[j].st \in {"returned", "raised"}
InFlight(p) == {w \in Workstations : flight[p][w] # None}

Init ==
  /\ task = [t \in Tasks |-> [status |-> "pending", ws |-> None, dep |-> DependsOn[t],
                              retry |-> 0, zombies |-> 0, resumed |-> 0, age |-> "none"]]
  /\ station = [w \in Workstations |->
                  NewStation(IF w \in Absent THEN "absent" ELSE "healthy", w \notin Absent)]
  /\ sched = [p \in Procs |-> Quiet("down")]
  /\ flight = [p \in Procs |-> NoFlight]
  /\ job = [j \in Jobs |-> FreeJob]
  /\ req = [p \in Procs |-> NoReq]
  /\ budget = Budget

Spend(kind, allowed) == kind \in allowed /\ budget > 0 /\ budget' = budget - 1

-----------------------------------------------------------------------------
\* Process lifecycle

\* One zombie row: limit decides between another try and the operator.
Escalated(row, limit) == row.zombies + 1 >= limit

\* reset_zombie_state_on_startup: every running row is taken for an orphan and
\* every busy workstation is freed; then the daemon thread starts.
Boot(p) ==
  /\ sched[p].pc = "down"
  /\ task' = [t \in Tasks |->
       IF task[t].status # "running" THEN task[t]
       ELSE [task[t] EXCEPT
               !.status = IF Escalated(task[t], StartupLimit) THEN "manual_review"
                          ELSE "retry_waiting",
               !.zombies = @ + 1, !.ws = None, !.age = "none"]]
  /\ station' = [w \in Workstations |->
       IF station[w].status = "busy" THEN [station[w] EXCEPT !.status = "healthy"]
       ELSE station[w]]
  /\ sched' = [sched EXCEPT ![p] = Quiet("idle")]
  /\ UNCHANGED <<flight, job, req, budget>>

\* The process dies with its threads; only the database survives.
Crash(p) ==
  /\ sched[p].pc # "down"
  /\ Spend("crash", Disturbances)
  /\ sched' = [sched EXCEPT ![p] = Quiet("down")]
  /\ flight' = [flight EXCEPT ![p] = NoFlight]
  /\ job' = [j \in Jobs |-> IF job[j].proc = p THEN FreeJob ELSE job[j]]
  /\ req' = [req EXCEPT ![p] = NoReq]
  /\ UNCHANGED <<task, station>>

-----------------------------------------------------------------------------
\* One scheduler pass

Goto(p, pc) == sched' = [sched EXCEPT ![p].pc = pc]

\* _resolve_workstations: the list the whole pass works with.  An exception here is
\* outside the daemon's try and would end its thread; it is not modelled.
StartPass(p) ==
  /\ sched[p].pc = "idle"
  /\ \E w \in Workstations : Present(w)
  /\ sched' = [sched EXCEPT ![p] =
       [Quiet("sync") EXCEPT !.listed =
          [w \in Workstations |-> [status |-> station[w].status, url |-> station[w].url]]]]
  /\ UNCHANGED <<task, station, flight, job, req, budget>>

Listed(p) == {w \in Workstations : sched[p].listed[w].status # "absent"}

\* sync_workstations: what was listed is written back, here for all workstations
\* at once, the look at each row and its write as one; a row that has gone since is
\* inserted again, with the status it was listed with.
Sync(p) ==
  /\ sched[p].pc = "sync"
  /\ station' = [w \in Workstations |->
       IF w \notin Listed(p) THEN station[w]
       ELSE IF Present(w) THEN [station[w] EXCEPT !.url = sched[p].listed[w].url]
       ELSE NewStation(sched[p].listed[w].status, sched[p].listed[w].url)]
  /\ sched' = [sched EXCEPT ![p] = [Quiet("recover") EXCEPT !.known = Listed(p)]]
  /\ UNCHANGED <<task, flight, job, req, budget>>

\* recover_workstation_states
RecoverCooldowns(p) ==
  /\ sched[p].pc = "recover"
  /\ station' = [w \in Workstations |->
       IF station[w].status = "cooldown" /\ station[w].timer = "elapsed"
       THEN [station[w] EXCEPT !.status = "healthy", !.timer = "none"]
       ELSE station[w]]
  /\ Goto(p, "release")
  /\ UNCHANGED <<task, flight, job, req, budget>>

AssignedEver(w) == {t \in Tasks : task[t].ws = w}
Assigned(w) == {t \in Tasks : task[t].status = "running" /\ task[t].ws = w}

\* release_orphaned_busy_workstations
ReleaseOrphans(p) ==
  /\ sched[p].pc = "release"
  /\ station' = [w \in Workstations |->
       IF station[w].status = "busy" /\ Assigned(w) = {}
       THEN [station[w] EXCEPT !.status = "healthy"]
       ELSE station[w]]
  /\ Goto(p, "zombies")
  /\ UNCHANGED <<task, flight, job, req, budget>>

ZombieByAge(t) == task[t].age = "stale"
ZombieIfStationFree(t) ==
  /\ task[t].status = "running" /\ task[t].age = "stale"
  /\ task[t].ws # None => station[task[t].ws].status # "busy"
Zombie(t) == task[t].status = "running" /\ task[t].age = "stale"

\* recover_zombie_tasks: rows running for too long are retried or escalated,
\* and their workstations freed.
RecoverZombies(p) ==
  /\ sched[p].pc = "zombies"
  /\ task' = [t \in Tasks |->
       IF ~Zombie(t) THEN task[t]
       ELSE IF Escalated(task[t], ZombieLimit)
         THEN [task[t] EXCEPT !.status = "manual_review", !.zombies = @ + 1]
         ELSE [task[t] EXCEPT !.status = "retry_waiting", !.zombies = @ + 1, !.retry = @ + 1]]
  /\ station' = [w \in Workstations |->
       IF station[w].status = "busy" /\ \E t \in Tasks : Zombie(t) /\ task[t].ws = w
       THEN [station[w] EXCEPT !.status = "healthy"]
       ELSE station[w]]
  /\ Goto(p, "healthy?")
  /\ UNCHANGED <<flight, job, req, budget>>

Exhausted(t) ==
  /\ task[t].status = "retry_waiting"
  /\ task[t].retry >= MaxRetry[t]
  /\ task[t].resumed < AutoResumeCap

ResumedUncounted(row, resumed) ==
  [row EXCEPT !.status = "pending", !.retry = 0, !.ws = None, !.age = "none"]
Resumed(row, resumed) ==
  [row EXCEPT !.status = "pending", !.retry = 0, !.resumed = resumed,
              !.ws = None, !.age = "none"]

\* auto_resume_exhausted_tasks looks for a healthy workstation before it opens
\* its transaction.
FindHealthy(p) ==
  /\ sched[p].pc = "healthy?"
  /\ Goto(p, IF AutoResumeCap > 0 /\ \E w \in Workstations : station[w].status = "healthy"
             THEN "autoresume" ELSE "loop")
  /\ UNCHANGED <<task, station, flight, job, req, budget>>

AutoResume(p) ==
  /\ sched[p].pc = "autoresume"
  /\ task' = [t \in Tasks |->
       IF Exhausted(t) THEN Resumed(task[t], task[t].resumed + 1) ELSE task[t]]
  /\ Goto(p, "loop")
  /\ UNCHANGED <<station, flight, job, req, budget>>

-----------------------------------------------------------------------------
\* claim_one

\* reset_stale_stats
Rolled(w) ==
  IF Present(w) /\ ~station[w].today
  THEN [station[w] EXCEPT !.used = 0, !.today = TRUE] ELSE station[w]

EligibleOffByOne(w) ==
  station[w].status = "healthy" /\ Rolled(w).used <= DailyLimit /\ station[w].url
Eligible(w) ==
  /\ station[w].status = "healthy"
  /\ Rolled(w).used < DailyLimit
  /\ station[w].url

ClaimableOnceMore(t) ==
  /\ task[t].status \in {"pending", "retry_waiting"}
  /\ task[t].retry <= MaxRetry[t]
  /\ task[t].dep # None => task[task[t].dep].status = "success"
ClaimableOnceLess(t) == ClaimableOnceMore(t) /\ task[t].retry + 1 < MaxRetry[t]
ClaimableAfterAnyEnd(t) ==
  /\ task[t].status \in {"pending", "retry_waiting"}
  /\ task[t].retry < MaxRetry[t]
  /\ task[t].dep # None => task[task[t].dep].status \notin {"pending", "running", "retry_waiting"}
Claimable(t) ==
  /\ task[t].status \in {"pending", "retry_waiting"}
  /\ task[t].retry < MaxRetry[t]
  /\ task[t].dep # None => task[task[t].dep].status = "success"

\* _pick_claimable_task: retry_waiting rows come before pending ones.
Preferred(t) ==
  /\ Claimable(t)
  /\ \/ task[t].status = "retry_waiting"
     \/ ~ \E u \in Tasks : Claimable(u) /\ task[u].status = "retry_waiting"

ClaimPossible == (\E w \in Workstations : Eligible(w)) /\ (\E t \in Tasks : Claimable(t))

ClaimOne(w, t) ==
  /\ Eligible(w)
  /\ Preferred(t)
  /\ station' = [v \in Workstations |->
       IF v = w THEN [Rolled(v) EXCEPT !.status = "busy"] ELSE Rolled(v)]
  /\ task' = [task EXCEPT ![t].status = "running", ![t].ws = w, ![t].age = "fresh"]

-----------------------------------------------------------------------------
\* The scheduling loop

\* _release_done: finished futures leave in_flight.  One that finishes between
\* this and the rest of the round is as good as still working: the round has
\* taken its decision from in_flight.
StillIn(p) == {w \in InFlight(p) : Live(flight[p][w])}
ReleaseDone(p) ==
  /\ flight' = [flight EXCEPT ![p] =
       [w \in Workstations |-> IF w \in StillIn(p) THEN flight[p][w] ELSE None]]
  /\ job' = [j \in Jobs |->
       IF job[j].proc = p /\ Finished(j) THEN FreeJob ELSE job[j]]

\* No room for another launch: every known workstation has a future, or the
\* mode's concurrency cap is reached.
FullOffByOne(p) ==
  sched[p].known \subseteq StillIn(p) \/ Cardinality(StillIn(p)) > MaxConcurrent
Full(p) ==
  \/ sched[p].known \subseteq StillIn(p)
  \/ Cardinality(StillIn(p)) >= MaxConcurrent

\* The round claims a pair.  A workstation that is not in this pass's list makes
\* the lookup by_id[...] fail after the claim has been committed, and the pass
\* ends; otherwise the launch waits for the stagger delay.
RoundClaims(p) ==
  /\ sched[p].pc = "loop"
  /\ ReleaseDone(p)
  /\ ~Full(p)
  /\ \E w \in Workstations, t \in Tasks :
       /\ ClaimOne(w, t)
       /\ sched' = [sched EXCEPT ![p] =
            IF w \in sched[p].known
            THEN [@ EXCEPT !.pc = "stagger", !.ws = w, !.task = t]
            ELSE [@ EXCEPT !.pc = "drain"]]
  /\ UNCHANGED <<req, budget>>

\* The round blocks on the first future in flight.
RoundWaits(p) ==
  /\ sched[p].pc = "loop"
  /\ ReleaseDone(p)
  /\ Full(p) \/ ~ClaimPossible
  /\ \E w \in StillIn(p) : sched' = [sched EXCEPT ![p].pc = "await", ![p].ws = w]
  /\ UNCHANGED <<task, station, req, budget>>

\* Nothing to claim and nothing in flight: the pass is over.
RoundExits(p) ==
  /\ sched[p].pc = "loop"
  /\ ReleaseDone(p)
  /\ StillIn(p) = {}
  /\ ~Full(p) /\ ~ClaimPossible
  /\ Goto(p, "drain")
  /\ UNCHANGED <<task, station, req, budget>>

\* pool.submit after the stagger sleep: the future takes its workstation's place
\* in in_flight, whatever was there.
Submit(p) ==
  /\ sched[p].pc = "stagger"
  /\ \E j \in Jobs :
       /\ job[j].st = "free"
       /\ job' = [k \in Jobs |->
            IF k = j THEN [st |-> "working", proc |-> p, ws |-> sched[p].ws, task |-> sched[p].task]
            ELSE IF k = flight[p][sched[p].ws] /\ Finished(k) THEN FreeJob
            ELSE job[k]]
       /\ flight' = [flight EXCEPT ![p][sched[p].ws] = j]
  /\ sched' = [sched EXCEPT ![p].pc = "loop", ![p].ws = None, ![p].task = None]
  /\ UNCHANGED <<task, station, req, budget>>

\* Future.result() returns, or raises in the scheduler thread what the worker
\* raised, which ends the pass.
AwaitReturns(p) ==
  /\ sched[p].pc = "await"
  /\ LET j == flight[p][sched[p].ws] IN
       /\ Finished(j)
       /\ sched' = [sched EXCEPT ![p].ws = None,
                                 ![p].pc = IF job[j].st = "returned" THEN "loop" ELSE "drain"]
  /\ UNCHANGED <<task, station, flight, job, req, budget>>

EndPassWithoutJoin(p) ==
  /\ sched[p].pc = "drain"
  /\ job' = [j \in Jobs |-> IF job[j].proc = p /\ Finished(j) THEN FreeJob ELSE job[j]]
  /\ flight' = [flight EXCEPT ![p] = NoFlight]
  /\ sched' = [sched EXCEPT ![p] = Quiet("idle")]
  /\ UNCHANGED <<task, station, req, budget>>

\* Leaving the pool waits for every future of the pass, overwritten ones too.
EndPass(p) ==
  /\ sched[p].pc = "drain"
  /\ \A j \in Jobs : job[j].proc = p => ~Live(j)
  /\ job' = [j \in Jobs |-> IF job[j].proc = p THEN FreeJob ELSE job[j]]
  /\ flight' = [flight EXCEPT ![p] = NoFlight]
  /\ sched' = [sched EXCEPT ![p] = Quiet("idle")]
  /\ UNCHANGED <<task, station, req, budget>>

\* A database error leaves the recoveries or claim_one: the daemon logs it and
\* waits for its next pass, behind the pool's exit once there is a pool.
PassFails(p) ==
  /\ sched[p].pc \in PassSteps \cup {"loop"}
  /\ Spend("locked", Disturbances)
  /\ sched' = [sched EXCEPT ![p] = IF @.pc = "loop" THEN [@ EXCEPT !.pc = "drain"] ELSE Quiet("idle")]
  /\ UNCHANGED <<task, station, flight, job, req>>

-----------------------------------------------------------------------------
\* Workers

\* _apply_workstation_outcome, its strike and failure counters abstracted to the
\* choice they decide.
StationAfterVerbatim(row, outcome) == {[row EXCEPT !.status = outcome]}
StationAfter(row, outcome) ==
  CASE outcome = "manual_check" ->
         { [row EXCEPT !.status = s, !.timer = "running"] : s \in {"cooldown", "manual_check"} }
    [] outcome = "page_failure" ->
         { [row EXCEPT !.status = "cooldown", !.timer = "running"],
           [row EXCEPT !.status = "healthy"] }
    [] OTHER -> { [row EXCEPT !.status = "healthy", !.timer = "none"] }

\* A worker's future leaves nobody waiting when it was overwritten in in_flight.
Settle(j, st) ==
  job' = [job EXCEPT ![j] =
            IF flight[job[j].proc][job[j].ws] = j THEN [@ EXCEPT !.st = st] ELSE FreeJob]

\* finalize_task and the workstation update, one transaction.
Finalize(j) ==
  /\ Live(j)
  /\ LET t == job[j].task
         w == job[j].ws IN
       /\ task[t].status # "absent" /\ Present(w)
       /\ \E o \in Outcomes :
            /\ task' = [task EXCEPT ![t].status = o[1],
                 ![t].retry = IF o[1] = "retry_waiting" /\ task[t].status = "running"
                              THEN @ + 1 ELSE @]
            /\ \E row \in StationAfter([station[w] EXCEPT !.used = @ + 1], o[2]) :
                 station' = [station EXCEPT ![w] = row]
  /\ Settle(j, "returned")
  /\ UNCHANGED <<sched, flight, req, budget>>

\* finalize_task finds its task or its workstation gone: ValueError, rolled back.
FinalizeFails(j) ==
  /\ Live(j)
  /\ task[job[j].task].status = "absent" \/ ~Present(job[j].ws)
  /\ Settle(j, "raised")
  /\ UNCHANGED <<task, station, sched, flight, req, budget>>

\* Any other exception that leaves the thread (browser, disk, locked database).
WorkerRaises(j) ==
  /\ Live(j)
  /\ Spend("raise", Disturbances)
  /\ Settle(j, "raised")
  /\ UNCHANGED <<task, station, sched, flight, req>>

-----------------------------------------------------------------------------
\* The clock

GrowsStale(t) ==
  /\ task[t].status = "running" /\ task[t].age = "fresh"
  /\ task' = [task EXCEPT ![t].age = "stale"]
  /\ UNCHANGED <<station, sched, flight, job, req, budget>>

TimerElapses(w) ==
  /\ station[w].timer = "running"
  /\ station' = [station EXCEPT ![w].timer = "elapsed"]
  /\ UNCHANGED <<task, sched, flight, job, req, budget>>

Midnight ==
  /\ "midnight" \in Disturbances
  /\ \E w \in Workstations : station[w].today
  /\ station' = [w \in Workstations |-> [station[w] EXCEPT !.today = FALSE]]
  /\ UNCHANGED <<task, sched, flight, job, req, budget>>

-----------------------------------------------------------------------------
\* Operators: tasks.  resume_task and delete_task read the row before they open
\* their transaction, and the write does not look at it again.

Up(p) == sched[p].pc # "down"

ReadForRequest(p, t) ==
  /\ Up(p) /\ req[p] = NoReq
  /\ \/ /\ Spend("resume", Operator)
        /\ task[t].status \in {"retry_waiting", "failed", "download_failed", "manual_review"}
        /\ req' = [req EXCEPT ![p] = [op |-> "resume", on |-> t]]
     \/ /\ \/ Spend("delete", Operator) /\ task[t].status # "running"
           \/ Spend("force_delete", Operator)
        /\ task[t].status # "absent"
        /\ req' = [req EXCEPT ![p] = [op |-> "delete", on |-> t]]
  /\ UNCHANGED <<task, station, sched, flight, job>>

ResumeTask(p) ==
  /\ req[p].op = "resume"
  /\ task' = [task EXCEPT ![req[p].on] = IF @.status = "absent" THEN @ ELSE Resumed(@, 0)]
  /\ req' = [req EXCEPT ![p] = NoReq]
  /\ UNCHANGED <<station, sched, flight, job, budget>>

\* The foreign key sets depends_on_task_id to NULL in the rows that named it.
DeleteTask(p) ==
  /\ req[p].op = "delete"
  /\ task' = [t \in Tasks |->
       IF t = req[p].on THEN [task[t] EXCEPT !.status = "absent", !.ws = None, !.dep = None, !.age = "none"]
       ELSE IF task[t].dep = req[p].on THEN [task[t] EXCEPT !.dep = None]
       ELSE task[t]]
  /\ req' = [req EXCEPT ![p] = NoReq]
  /\ UNCHANGED <<station, sched, flight, job, budget>>

\* The command-line task reset: one transaction, whatever the status is; a full one
\* forgets the zombie recoveries as well.
TaskReset(t) ==
  /\ Spend("reset", Operator)
  /\ task[t].status # "absent"
  /\ \E zombies \in {task[t].zombies, 0} :
       task' = [task EXCEPT ![t] = [Resumed(@, @.resumed) EXCEPT !.zombies = zombies]]
  /\ UNCHANGED <<station, sched, flight, job, req>>

-----------------------------------------------------------------------------
\* Operators: workstations

Becomes(w, row) == station' = [station EXCEPT ![w] = row]

\* hard_revive_workstation, the button that returns a workstation to service.
HardRevive(w) ==
  /\ Spend("revive", Operator)
  /\ Present(w)
  /\ Becomes(w, [station[w] EXCEPT !.status = "healthy", !.timer = "none"])

StartNurturing(w) ==
  /\ Spend("nurture", Operator)
  /\ station[w].status \in {"healthy", "cooldown", "manual_check"}
  /\ Becomes(w, [station[w] EXCEPT !.status = "nurturing", !.timer = "none"])

DisableAnyway(w) ==
  /\ Spend("disable", Operator)
  /\ Present(w)
  /\ Becomes(w, [station[w] EXCEPT !.status = "disabled", !.timer = "none"])

Disable(w) ==
  /\ Spend("disable", Operator)
  /\ Present(w) /\ station[w].status # "busy"
  /\ Becomes(w, [station[w] EXCEPT !.status = "disabled", !.timer = "none"])

\* _on_capture, called by the login window: the project URL is stored by one
\* transaction, soft_revive_workstation is the next.
CaptureUrl(p, w) ==
  /\ Up(p) /\ req[p] = NoReq
  /\ Spend("login", Operator)
  /\ Present(w)
  /\ Becomes(w, [station[w] EXCEPT !.url = TRUE])
  /\ req' = [req EXCEPT ![p] = [op |-> "login", on |-> w]]
  /\ UNCHANGED <<task, sched, flight, job>>

SoftRevive(p) ==
  /\ req[p].op = "login"
  /\ LET w == req[p].on IN
       Becomes(w, [station[w] EXCEPT !.timer = "none",
                     !.status = IF @ \in {"cooldown", "busy"} THEN "healthy" ELSE @])
  /\ req' = [req EXCEPT ![p] = NoReq]
  /\ UNCHANGED <<task, sched, flight, job, budget>>

\* _on_no_access: the login page says the account has no Flow access.
NoFlowAccess(w) ==
  /\ Spend("no_access", Operator)
  /\ Present(w)
  /\ Becomes(w, [station[w] EXCEPT !.status = "manual_check", !.timer = "none"])

\* The command-line recover-banned.  Each due row whose probe answers has a
\* verdict of its own; when a workstation is named it is probed whatever its
\* timer says, and its verdict is applied to every due row.  A row still banned
\* waits for the next tier, or for the operator when the tiers are exhausted.
ProbeRecover ==
  /\ Spend("probe", Operator)
  /\ LET Banned == {w \in Workstations : station[w].status = "manual_check"}
         Due == {w \in Banned : station[w].timer = "elapsed"}
     IN \E named \in {{}} \cup {{w} : w \in Banned} :
          \E probed \in IF named = {} THEN SUBSET Due ELSE {Due \cup named} :
          \E clean \in IF named = {} THEN SUBSET probed ELSE {{}, probed} :
            \E exhausted \in SUBSET (probed \ clean) :
              station' = [w \in Workstations |->
                IF w \notin probed THEN station[w]
                ELSE IF w \in clean THEN [station[w] EXCEPT !.status = "healthy", !.timer = "none"]
                ELSE [station[w] EXCEPT !.timer = IF w \in exhausted THEN "none" ELSE "running"]]
  /\ UNCHANGED <<task, sched, flight, job, req>>

CreateWorkstation(w) ==
  /\ Spend("add", Operator)
  /\ ~Present(w)
  /\ \E url \in BOOLEAN : Becomes(w, NewStation("healthy", url))

DeleteWorkstation(w) ==
  /\ Spend("delete_ws", Operator)
  /\ Present(w)
  /\ Becomes(w, NewStation("absent", FALSE))

OperatorOnStation(w) ==
  /\ \E p \in Procs : Up(p)
  /\ \/ HardRevive(w) \/ StartNurturing(w) \/ Disable(w)
     \/ NoFlowAccess(w) \/ CreateWorkstation(w) \/ DeleteWorkstation(w)
  /\ UNCHANGED <<task, sched, flight, job, req>>

-----------------------------------------------------------------------------
PassStep(p) ==
  \/ StartPass(p) \/ Sync(p) \/ RecoverCooldowns(p) \/ ReleaseOrphans(p)
  \/ RecoverZombies(p) \/ FindHealthy(p) \/ AutoResume(p)
  \/ RoundClaims(p) \/ RoundWaits(p) \/ RoundExits(p)
  \/ Submit(p) \/ AwaitReturns(p) \/ EndPass(p)

WorkerStep(j) == Finalize(j) \/ FinalizeFails(j) \/ WorkerRaises(j)

Next ==
  \/ \E p \in Procs :
       \/ Boot(p) \/ Crash(p) \/ PassStep(p) \/ PassFails(p)
       \/ ResumeTask(p) \/ DeleteTask(p) \/ SoftRevive(p)
       \/ \E t \in Tasks : ReadForRequest(p, t)
       \/ \E w \in Workstations : CaptureUrl(p, w)
  \/ \E j \in Jobs : WorkerStep(j)
  \/ \E t \in Tasks : GrowsStale(t) \/ TaskReset(t)
  \/ \E w \in Workstations : TimerElapses(w) \/ OperatorOnStation(w)
  \/ ProbeRecover
  \/ Midnight

Spec == Init /\ [][Next]_vars

\* The daemon thread, the workers and the clock always go on; a process that
\* died is started again (the desktop shortcut).  Operators and faults owe
\* nothing.
Fairness ==
  /\ \A p \in Procs : WF_vars(Boot(p)) /\ WF_vars(PassStep(p))
  /\ \A p \in Procs : WF_vars(ResumeTask(p) \/ DeleteTask(p) \/ SoftRevive(p))
  /\ \A j \in Jobs : WF_vars(Finalize(j) \/ FinalizeFails(j))
  /\ \A t \in Tasks : WF_vars(GrowsStale(t))
  /\ \A w \in Workstations : WF_vars(TimerElapses(w))
  /\ WF_vars(Midnight)

FairSpec == Spec /\ Fairness
=============================================================================
