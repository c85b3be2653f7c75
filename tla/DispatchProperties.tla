------------------------- MODULE DispatchProperties -------------------------
(***************************************************************************)
(* What the dispatch core promises, in three groups:                       *)
(*  - promises kept whatever the operators do;                             *)
(*  - promises kept as long as one process runs and the operators stay     *)
(*    within the operations that look at a row before they take it away    *)
(*    from a worker (Cautious);                                            *)
(*  - promises the code or its documentation states and the code breaks;   *)
(*    each has a run of its own with the shortest way to break it.         *)
(***************************************************************************)
EXTENDS Dispatch

\* The operations under which a worker keeps its rows.
CautiousOps == {"nurture", "disable", "probe", "add", "delete", "force_delete"}
Cautious == Operator \subseteq CautiousOps /\ \A p, q \in Procs : p = q

Pending(p) == sched[p].pc = "stagger"

-----------------------------------------------------------------------------
\* Whatever the operators do

\* A task never uses more attempts than its retry budget, and no worker is ever
\* given a task that has none left: retry_count is raised both by the zombie
\* recovery and by finalize_task, possibly for the same attempt (recovery.py:75,
\* state.py:64, claim.py:111).
RetryBudget ==
  \A t \in Tasks : /\ task[t].retry <= MaxRetry[t]
                   /\ task[t].status = "running" => task[t].retry < MaxRetry[t]

-----------------------------------------------------------------------------
\* One process and cautious operators

\* Two workers, or a worker and a claim that waits for its launch, never hold
\* the same task or the same workstation (claim_one's two compare-and-set
\* updates, against every path that makes a row claimable again).
ExclusiveClaim ==
  /\ \A i, j \in Jobs : Live(i) /\ Live(j) /\ i # j =>
       job[i].ws # job[j].ws /\ job[i].task # job[j].task
  /\ \A p \in Procs, j \in Jobs : Pending(p) /\ Live(j) =>
       sched[p].ws # job[j].ws /\ sched[p].task # job[j].task

Owns(w, t) ==
  /\ w \in Workstations /\ t \in Tasks
  /\ station[w].status = "busy"
  /\ task[t].status = "absent" \/ (task[t].status = "running" /\ task[t].ws = w)

\* The rows of a worker, and of a claim that waits for its launch, still say what
\* the claim wrote: the workstation is busy, and the task is running on it unless
\* an operator deleted the row.
WorkerOwnsRows ==
  /\ \A j \in Jobs : Live(j) => Owns(job[j].ws, job[j].task)
  /\ \A p \in Procs : Pending(p) => Owns(sched[p].ws, sched[p].task)

\* No worker outlives the pass that launched it: whoever lists the workstations,
\* recovers cooldowns, orphans and zombies, or boots, has no worker running
\* (the pool's exit, runner/multi.py:286 and 384).
NoWorkerOutlivesPass ==
  \A p \in Procs, j \in Jobs :
    sched[p].pc \in {"down", "idle"} \cup PassSteps => ~(Live(j) /\ job[j].proc = p)

\* A task runs only after the task it depends on has succeeded, and that success
\* is not taken back while it runs.
DependencyRespected ==
  \A t \in Tasks : task[t].status = "running" /\ task[t].dep # None =>
    task[task[t].dep].status = "success"

\* The operator's per-account daily limit is kept, over workers that end after
\* midnight and rows freed by a recovery.
DailyLimitKept == \A w \in Workstations : station[w].used <= DailyLimit

\* The mode profile's max_concurrent_ws bounds what really runs or is about to,
\* not only what in_flight remembers (IP fan-out, config/loader.py:96).
ConcurrencyCap ==
  \A p \in Procs :
    LET working == {j \in Jobs : Live(j) /\ job[j].proc = p} IN
      IF Pending(p) THEN Cardinality(working) < MaxConcurrent
      ELSE Cardinality(working) <= MaxConcurrent

\* The inductive invariant of a cautious installation.
Ownership ==
  /\ TypeOK
  /\ ExclusiveClaim /\ WorkerOwnsRows /\ NoWorkerOutlivesPass /\ DependencyRespected
  /\ \A j \in Jobs : Live(j) => job[j].proc \in Procs
  /\ \A p \in Procs : req[p].op \in {"none", "delete"}

KeepsVerdicts ==
  \A t \in Tasks :
    task[t].status \in {"success", "failed", "download_failed", "manual_review"} =>
      task'[t].status \in {task[t].status, "absent"}
KeepsDecisions ==
  \A w \in Workstations :
    station[w].status \in {"nurturing", "disabled"} =>
      station'[w].status \in {station[w].status, "disabled"}

\* A task that ended (success or a status that waits for the operator) is left
\* alone until an operator acts on it: no late worker, recovery or auto-resume
\* overwrites the verdict (state.py:35-100, recovery.py:31-93).
VerdictStands == [][KeepsVerdicts]_vars

\* A workstation an operator put aside (nurturing, disabled) returns to service
\* by no worker's result and no recovery (state.py:231-240, 290-307).
DecisionStands == [][KeepsDecisions]_vars

-----------------------------------------------------------------------------
\* What a task is promised

\* A task of the table as TaskLifecycle sees it.  Its tries are the retries of its
\* budget, those again for every automatic resumption, and one for every zombie
\* it may become without being handed to the operator.
Stage(t) == IF task[t].status \in {"pending", "retry_waiting"} THEN "waiting" ELSE task[t].status

ZombieBound == IF StartupLimit > ZombieLimit THEN StartupLimit ELSE ZombieLimit
TriesOf(t, resumed, retry, zombies) ==
  (AutoResumeCap - resumed) * MaxRetry[t] + (MaxRetry[t] - retry) + (ZombieBound - 1 - zombies)
TriesLeft(t) ==
  LET left == TriesOf(t, task[t].resumed, task[t].retry, task[t].zombies) IN
    CASE Stage(t) = "waiting" -> left
      [] Stage(t) = "running" -> left - 1
      [] OTHER -> 0

TaskLife ==
  INSTANCE TaskLifecycle
    WITH Needs <- DependsOn,
         Allowed <- [t \in Tasks |-> TriesOf(t, 0, 0, 0)],
         stage <- [t \in Tasks |-> Stage(t)],
         tries <- [t \in Tasks |-> TriesLeft(t)]

\* Claims, final transactions, recoveries and automatic resumptions together keep
\* to the lifecycle: the attempts of a task are bounded by one sum that no crash,
\* zombie or resumption ever raises, they start after their dependency, and no
\* late worker or recovery touches a verdict (claim.py:111, state.py:35-100,
\* recovery.py:31-93).
ImplementsTaskLifecycle == TaskLife!Spec

-----------------------------------------------------------------------------
\* Liveness

\* A task does not stay running for ever: its worker ends, or a restart or the
\* zombie recovery takes it back.
RunningEnds == \A t \in Tasks : task[t].status = "running" ~> task[t].status # "running"

\* A workstation is not lost: busy and an elapsed cooldown are left again.
StationReturns ==
  \A w \in Workstations : station[w].status \in {"busy", "cooldown"} ~>
                            station[w].status \notin {"busy", "cooldown"}

\* The automatic retries come to an end: the retry budget, the auto-resume cap
\* and the zombie limits together bound the attempts of every task.
AttemptsEnd == \A t \in Tasks : <>[](task[t].status # "running")

\* A task without dependency is taken up if workstations are available again and
\* again.
PendingIsClaimed ==
  \A t \in Tasks :
    ([]<>(\E w \in Workstations : Eligible(w))) /\ DependsOn[t] = None /\ MaxRetry[t] > 0
      => <>(task[t].status # "pending")

-----------------------------------------------------------------------------
\* Stated by the code's documentation, and not kept

\* "so each workstation only runs one task at a time" (runner/multi.py:7-8).
OneTaskPerWorkstation ==
  \A i, j \in Jobs : Live(i) /\ Live(j) /\ i # j => job[i].ws # job[j].ws

\* "Refuses to touch running tasks (would race the worker thread)"
\* (tasks/repository.py:414).
ResumeSparesRunning ==
  [][\A p \in Procs :
       req[p].op = "resume" /\ req'[p].op = "none" /\ task[req[p].on].status = "running"
         => task'[req[p].on].status = "running"]_vars

\* "The DB is the source of truth for workstations; the Web UI mutates it
\* directly" (workstations/sync.py:3-4): writing the list that was read from the
\* database back to it undoes no operator's change.
SyncKeepsDatabase ==
  [][\A p \in Procs : sched[p].pc = "sync" /\ sched'[p].pc = "recover" =>
       station' = station]_vars

\* "WS added via the Web UI after boot are picked up automatically"
\* (web/server.py:70-71): whatever is claimed is launched by the pass.
ClaimIsLaunched ==
  [][\A p \in Procs, t \in Tasks :
       sched[p].pc = "loop" /\ task[t].status # "running" /\ task'[t].status = "running"
         => sched'[p].pc = "stagger"]_vars
=============================================================================
