# Flow Harvester: TLA+ models, checks and proofs

Flow Harvester drives several browser accounts ("workstations") that generate
videos on a web page.  A FastAPI process serves the operator's pages and runs a
scheduler thread; the scheduler claims (workstation, task) pairs from one SQLite
database and hands each pair to a worker thread with a browser of its own.
This directory holds the models of that system, the TLC configurations that
check them and the theorems TLAPS proves about them.

## 1. Inventory

| Component | State it keeps | Operations | Talks to | What is hard | What makes it correct |
|---|---|---|---|---|---|
| Scheduler pass (`app/runner/multi.py`, `app/scheduler/daemon.py`) | the listed workstations, `in_flight`, the pool | list, sync, recover, claim, stagger, submit, wait, drain | database, worker futures | the list is stale while the pass runs; futures end at any time; an exception ends the pass | no worker outlives its pass; the concurrency cap bounds real workers; what is claimed is launched |
| Claims (`app/scheduler/claim.py`) | rows of `tasks` and `workstations` | `claim_one` | other schedulers, operators | two schedulers, day change, lazily reset counters | exclusive claims, dependency order, daily limit, retry budget |
| Final transaction (`app/scheduler/state.py`) | the same rows | `finalize_task`, `_apply_workstation_outcome` | operators, recoveries | it updates by id, whatever happened to the row since the claim | a worker overwrites no verdict and no operator's decision |
| Recoveries (`app/scheduler/recovery.py`, `state.py`, `tasks/repository.py`) | the same rows, `zombie_recovery_count`, `auto_resumed_count` | boot cleanup, cooldowns, orphans, zombies, auto-resume, probes | workers that may still be alive | nothing says whether a worker is alive; three counters bound the retries | running rows and busy workstations are always left; retries end |
| Workstation health (`state.py`, `workstations/repository.py`, `cli.py recover-banned`) | status, strikes, failures, probe tier, timers | outcome, revive, nurture, disable, probe | operators, login | counters with different reset rules | bounded strikes; probes only free what they probed |
| Worker loop (`app/worker/loop.py`) | rounds, downloads, storage cursor | open, generate, wait, download, resolve | page driver, `task_results` | resume after a crash between two writes | a round's files are never overwritten; the verdict matches the downloads |
| Tasks (`tasks/repository.py`, `tasks/importer.py`, `web/routes/tasks.py`) | rows, assets on disk | create, import, resume, delete, reset | scheduler | checks outside the transaction | one active task per segment; a running task is left alone |
| Login sessions (`workstations/login_session.py`, `web/routes/login.py`) | session state, registry, browser thread | start, capture, no access, cancel, time out | workstations table | callbacks race cancel and delete | a final state is final; one browser per profile |
| Daemon lifecycle (`scheduler/daemon.py`, `web/server.py`, `__main__.py`) | thread, stop event, status record | start, stop, run | lifespan, web routes | stop times out, start races it | one daemon thread per process |
| Tunnel (`app/tunnel.py`) | child process, reader thread, URL | start, stop | web routes | output and exit race stop | no orphan process, no stale URL |
| Page driver (`worker/flow_playwright.py`, `flow_mock.py`, `login_status.py`) | page state, seen media | open, upload, trigger, poll, download | the external page | external page in any state, results out of sight | nothing stored is offered again; a ban has a cause |
| Reports, license, configuration | none (pure) | aggregate, check expiry, merge | files, database | clock, boundary values | equal to a reference definition |
| Pages, templates, files, diagnostics, logging, paths | none of their own | read and render | everything | - | out of scope: input and output |

## 2. Plan and modules

| Module | What it is | Extends or uses |
|---|---|---|
| `Dispatch` | the scheduler pass, claims, final transactions, recoveries, operators, clock and crashes over the shared rows; everything that writes `tasks.status` and `workstations.status` | implements `TaskLifecycle` |
| `TaskLifecycle` | abstract: what a task is promised, its start after the task it needs, a bounded sum of tries, an end at its verdict | |
| `WorkstationHealth` | the strike, failure and probe counters and the timers that `Dispatch` leaves to a choice | implements `WorkstationLifecycle` |
| `WorkstationLifecycle` | abstract: who may move a workstation from where to where, with its one count of suspicions and failed probes | |
| `WorkerLoop` | the attempts at one task, with crashes between any two statements | `WorkerOutcomes`, which `Dispatch` assumes |
| `FlowPort` | abstract: the port `execute_task` is written against, as `flow_port.py` and the mock have it | |
| `FlowRound` | one session of the Playwright driver with a page that changes between any two looks | implements `FlowPort` |
| `FlowAttach` | how the driver attaches the task's pictures to the prompt, click by click | |
| `Browsers` | the workstations' rows and Chrome processes, as far as scheduler and logins share them | |
| `SchedulerDaemon`, `LoginSession` | the scheduler's thread; the login windows' threads and their registry | `Browsers` |
| `Console` | the process: both of them, the requests, start and shutdown | `SchedulerDaemon`, `LoginSession` |
| `TaskStore` | creation, upload, import, resume, reset and deletion of tasks with their pictures | |
| `DispatchProofs`, `OwnershipProofs`, `WorkerLoopProofs`, `WorkstationHealthProofs`, `ConsoleProofs`, `TaskStoreProofs`, `FlowRoundProofs`, `FlowAttachProofs` | the theorems of section 11 | the module they are about, its properties, `TLAPS` |

A `...Properties` module states what each of them promises, an `MC...` module
and its `.cfg` files are the instances, a `...Proofs` module holds theorems.

Left of the plan: the two hazards about a workstation that is returned or removed
under its worker; the daily report, the license decision and the merging of
configurations as pure algorithms; the tunnel.

## 3. `Dispatch`

`Dispatch.tla` has one action per SQLite transaction (every writer opens `BEGIN
IMMEDIATE`, so transactions are serial) and one per decision that is taken on
data read before a transaction.

| State | Code |
|---|---|
| `task[t]` | row of `tasks`: status, `assigned_workstation_id`, `depends_on_task_id`, `retry_count`, `zombie_recovery_count`, `auto_resumed_count`, `started_at` as none / fresh / stale |
| `station[w]` | row of `workstations`: status, `cooldown_until` as none / running / elapsed, today's successes and failures as one number, whether `stats_date` is today, whether `flow_project_url` is set |
| `sched[p]` | where the daemon thread of process `p` is, the list it read, the ids it knows, the claim it is launching |
| `flight[p]` | `in_flight` of `run_multi_workstation` |
| `job[j]` | a worker future: working, returned, raised |
| `req[p]` | a request of the operator between its read and its write |
| `budget` | model only: bounds operator actions, crashes and failures together |

| Actions | Code |
|---|---|
| `Boot`, `Crash` | `reset_zombie_state_on_startup`; the process ends with its threads |
| `StartPass`, `Sync` | `_resolve_workstations`, `sync_workstations` |
| `RecoverCooldowns`, `ReleaseOrphans`, `RecoverZombies`, `FindHealthy`, `AutoResume` | the prologue of `run_multi_workstation`, in its order |
| `RoundClaims`, `RoundWaits`, `RoundExits`, `Submit`, `AwaitReturns`, `EndPass` | its loop: claim, block on a future, leave; the launch after the stagger sleep; what `Future.result()` does; the pool's exit |
| `PassFails` | a database error in the recoveries or `claim_one`, caught by `_run_one_pass` |
| `Finalize`, `FinalizeFails`, `WorkerRaises` | the worker's only effect on the shared rows, or an escaped exception |
| `GrowsStale`, `TimerElapses`, `Midnight` | the clock |
| `ReadForRequest`, `ResumeTask`, `DeleteTask`, `TaskReset` | operators on tasks |
| `HardRevive`, `StartNurturing`, `Disable`, `CaptureUrl`, `SoftRevive`, `NoFlowAccess`, `ProbeRecover`, `CreateWorkstation`, `DeleteWorkstation` | operators, login callbacks and the command line on workstations |

Abstractions, all of them on data: creation order and failure times (which only
rank candidates) are nondeterministic choice; the strike and failure counters
are the choice they decide (`StationAfter`); what a worker does before its last
transaction is the set `Outcomes` of what `execute_task` can return; a sync is
one step for all workstations (rows are independent of each other); the list of
probe back-off hours is taken as not empty, as configured; `task-reset` may be full and
clear `zombie_recovery_count` or not. The read of a sync lies outside its
transaction (`workstations/repository.py:410`); the model makes them one step.
`StartPass` never fails: an exception while the workstations are listed or the mode
is read would end the daemon's thread for good (section 10). The daily limit is a
constant: an operator who lowers it below the day's count is not covered.

`DispatchProperties.tla` states the properties. `Cautious` names the assumption
of the stronger ones: a single process, and operators who use nothing but
nurture, disable, probe, add a workstation and delete a task. Each of the other
operations (revive, login, no access, resume, reset, delete a workstation) can take a
row from a live worker; section 10 says how.

`TaskLifecycle.tla` is the same core as a task sees it: a stage and a number of tries.
`Stage` maps `pending` and `retry_waiting` to "waiting" and every other status to itself,
a deleted row to "absent". `TriesLeft` maps the three counters that the code keeps apart to
one sum: a full retry budget for every automatic resumption that is left, the
retries that are left, and the crashes the zombie limits still forgive,

    (AutoResumeCap - resumed) * MaxRetry + (MaxRetry - retry)
        + (max(StartupLimit, ZombieLimit) - 1 - zombies)

less one while the task runs, and nothing once it waits for an operator.
A recovery that frees several tasks in one transaction is one step (`TakeBack`), and a
worker that gives its task back is the same step for one task.

## 4. `WorkerLoop`

`WorkerLoop.tla` models the attempts at one task, `execute_task` called again
and again, with one action per statement that commits: outside its last
transaction a worker writes in autocommit, so a crash or another attempt can come
between any two of them.

| State | Code |
|---|---|
| `row` | row of `tasks`: status, `downloaded_count`, `generation_round_count`; absent when deleted |
| `results` | rows of `task_results`: the key (`generation_round`, `sequence_no`) and which attempt wrote it |
| `files` | the files of the result folder by the same key, and which attempt wrote them |
| `attempt[a]` | the local variables of `execute_task` and `_download_round`, and where it is; `peers` is history: who was alive at the claim |
| `wiped`, `budget` | model only: the results were cleared under a live attempt; bounds the interference |

| Actions | Code |
|---|---|
| `Claim`, `ReadCursor`, `Open` | `TaskInput` from the claimed row; the cursor behind `MAX(generation_round)`; `flow.open()` with its early returns |
| `StartRound`, `RoundReturns`, `EndRound`, `ExitLoop` | the round loop: counters, upload to `wait_for_round_complete`, the sum of a round, the exit conditions; `Verdict` resolves the final status |
| `Download`, `Insert`, `Count` | one candidate: the file, the row, the live counters |
| `Finalize`, `Dies` | `finalize_task` as far as this task is concerned; a crash or an escaped exception |
| `TakeBack`, `Resume`, `FullReset`, `EditCursor`, `DeleteTask`, `ImportTask` | recoveries and operators; the page and the operator are external |

Abstractions: all attempts fall on one day and one kind of media (another day has
another folder, another kind another extension, so they share fewer files); a
candidate is its number; `target_count` stays the same when a deleted task is
imported again. Who may take a task when is the business of `Dispatch`: here a
live attempt loses its row only by a "takeover".

## 5. The Flow page: `FlowPort`, `FlowRound`, `FlowAttach`

`FlowPort.tla` is what `app/worker/loop.py` may rely on: the order of the calls
(open, then upload, prompt, Create, wait, download for every round), that a ready
round has candidates and any other answer none, that a page error comes
without candidates, and that nothing is downloaded that was not offered. It is
read from `flow_port.py` and from `flow_mock.py`, which is the port's other
implementation.

`FlowRound.tla` is `PlaywrightFlowPort` from `open` to `close` with the page
beside it. A card of the page is a poster or a video under one name, made by an
earlier session or by this one; the page also shows notices of refusal, a retry
button, an agreement dialog, or another page altogether. The gallery is virtualized, so
what it holds (`Results`) and what is in the document (`Gallery`) differ: cards and
notices are mounted late, leave the document and come back (`CardsMount`,
`CardsUnmount`). The page acts between any two looks of the driver (`World`), and
every look may fail in the ways the code catches.

| State | Code |
|---|---|
| `page` | external: cards and those out of the document (`hidden`), notices in sight and out of it (`waiting`), dialog, what covers the app |
| `port` | `_unusual_phrase_baseline`, `_candidate_snapshot` |
| `wait` | the local variables of `wait_for_round_complete`: clock, retries, popup sweeps, `last_new`, `last_change` |
| `pc`, `answer`, `kept` | where the driver is, the `GenerationRoundResult`, the files it has stored |
| `seen` | history: the refusal of the session, notices that came into sight since the baseline, a baseline that was not read, and what the last snapshot missed |
| `troubles` | bound: the kinds of trouble a session has had, within one of the sets of `Hardships` |

A poll of the wait loop is the actions `Probe`, `ClassifyInRound`, `Collect`,
`SilentBan` and `Decide` in the code's order; `EarlyExit` and `StabilityExit` are its
two ways to a ready round. A look at the results that fails ("glitch") skips the elements it
cannot read; where that is a `<video>`, the poster of the same name is taken
instead (`Findings`). Time counts polls: `Timeout`, `Window` and `NoProgress`
are scaled to 4, 1 and 2 polls, and keep their order.

`FlowAttach.tla` is `upload_source_assets` with its two routes (the `+` button,
or `Start` and `End`), the library search, the upload, and the Escape that gives one
picture up; `paste_prompt` and Create end a round. The plan of a round
is stated by positions (`OfKind`, `OneInto`), as the code's list comprehensions and
`next(...)` pick them. Every click or wait may
miss, at most `MaxMisses` times in an instance, and a miss takes the fallback
the code has for it.

- A thumbnail of the library is clicked in up to `Strategies` ways (six in the code),
  each with a look of its own (`TryAttachExisting`, `CheckReuse`); a way that raises is
  followed by the next without a look.
- A click that the driver has given up may take at any later time while the page is open
  (`pending`, `LateClick`). It attaches its picture in the slot it was made in and may close
  that slot's dialog, which the driver, who looks at the dialog only, takes for
  the success of what it did last.
- The Escape may fail as well, and nobody looks (`CloseDialog`): the session goes on, and
  the dialog that is left open makes the next click on a slot or the editor fail.
- Create takes the prompt with its chips, or the generation fails and both stay, as the
  driver itself relies on (1657-1659); the next round attaches again beside them.

## 6. Workstations: `WorkstationHealth` and `WorkstationLifecycle`

| State | Code |
|---|---|
| `row[w]` | status, `cooldown_until` as none / running / elapsed, `ban_probe_count`, `consecutive_failure_count` |
| `run[w]` | history: page failures in a row since a success, a cooldown's end or an operator |
| `working`, `banned` | who has a worker; external: whether the account's page shows a ban |
| `cli` | `recover-banned`: its open transaction with the rows still due, or the verdict it is about to hand out |

| Actions | Code |
|---|---|
| `Claim`, `Report`, `Vanish` | `_try_mark_busy`; the six ways of `_apply_workstation_outcome`; a worker that ends without it |
| `RecoverCooldowns`, `ReleaseOrphans` | the recoveries of a pass |
| `BeginDue`, `ProbeDue`, `ProbeUnlisted`, `ProbeRaises` | `recover-banned` over all rows that are due, in one transaction; a probe that raises leaves its row |
| `ProbeNamed`, `ApplyNamed` | `recover-banned --workstation`: the probe before, the verdict in the transaction |
| `HardRevive`, `StartNurturing`, `Disable`, `SoftRevive`, `NoFlowAccess` | operators and the login callbacks |

One column, `ban_probe_count`, counts strikes outside `manual_check` and probes
inside. `WorkstationLifecycle` has one count as well, in every standing; the refinement
maps the status to the standing (`StandingOf`) and the column to the count as it is
(`CountOf`), so that nothing is hidden by the mapping. It shows that only the named
operations move a row, that no success lowers the strikes, and that no count of probes
goes back into use as strikes. The other direction does not hold: after a login
that meets an account without access the strikes are the count the probes go on from
(`CountersApart`, section 10). The number of page failures in the window is abstracted to
whether there are enough, so `FailureRunStops` speaks of the counter, and the window
may only stop a workstation earlier.

## 7. The console: `Browsers`, `SchedulerDaemon`, `LoginSession`, `Console`

| State | Code |
|---|---|
| `row[w]`, `chrome` | what claims and logins see of a workstation; the Chrome processes by who launched them and on whose profile |
| `sched`, `loop`, `claimed`, `queue` | `_thread` and `_stop_event`; where each thread is; its pass's workers; claims that are left |
| `session`, `registry` | `LoginSession` objects with their threads; `LoginSessionRegistry` |
| `req`, `life` | a request between what it looks at and what it does; boot, shutdown and exit of the process |

`Launch` is `clean_profile_lock` followed by the browser's start: it kills every
process on a profile whose path contains the workstation's. A request is two steps
(`Ask`, `Do...`), with the join between them left out because its timeout lets the
second step come at any time. The scheduler's thread and the windows' are daemon
threads; the workers of the pool are not, so an orderly exit waits for them
(`ProcessEnds`) and a crash does not. A pass is its workers: `Dispatch` has the rest.

`Careful` is what the properties suppose of the operators: they log in to, revive
and delete a workstation only while no worker has it or may get it. With one
element, `Requests` says that clicks do not overlap; the runs use one.
Section 10 tells what happens otherwise.

## 8. The task store: `TaskStore`

| State | Code |
|---|---|
| `task[i]` | row of `tasks` with `task_assets`: status, the creative and segment as one key, pictures with their kinds, the frames tab, dependency; whether its pictures are copies |
| `folder[i]` | `assets_dir()/task_id` |
| `job[t]`, `bulk` | what the event loop, the threadpool and a command line are in the middle of; the bulk import's rows, done and errors |
| `worker[i]` | how many workers are at a task: one whose claim was taken back, or whose row was deleted, works on (at most `MaxWorkers` at a time) |
| `reopened` | history: tasks given back (resumed, reset or recovered) after they had ended, or while a worker was still at them |

`create_task` is three steps: validation with `_has_active_task`, the copies, the
transaction. Between them other threads and processes act, and the process may die.
The async routes share one event loop and never overlap each other; `resume` and
`delete` run in the threadpool; a command is another process. `Serial` supposes that the
console and the command line do not create at the same time and give no id twice.
`download_failed`, `retry_waiting` and `manual_review` are merged with the status
that the store treats alike; a mistake in a form or a row is a "slip", by which of
the checks sees it. A worker's result reaches the row by the task's id alone, whatever has
become of it (`Worked`), as in `finalize_task` (`state.py:57-90`): a reset of a running
task leaves a worker that may later put an ended task back to `retry_waiting`. A picture is a
file by its name: the routes strip directories and keep the last of several files
of one name (`routes/tasks.py:99-105`, `183-201`), which the model does not tell apart.

## 9. What the runs check

`MCDispatch.tla` gives the instances; each `.cfg` names its bounds. Jobs and
identical workstations are symmetric; the liveness run uses no symmetry.

| Run | Instance | What it shows |
|---|---|---|
| `cautious` | 1 process, 3 workstations (one of them added later), 2 tasks of which the second depends on the first, 2 futures, 2 disturbances or operator actions | `ExclusiveClaim`, `WorkerOwnsRows`, `NoWorkerOutlivesPass`, `DependencyRespected`, `RetryBudget`, that decisions stand (`DecisionStands`), and `ImplementsTaskLifecycle`, of which verdicts that stand are a part |
| `limits` | 1 process, 2 workstations, 2 tasks, at most one worker, one task a day, new days at any time, resets and deletions of tasks and workstations | `DailyLimitKept`, `ConcurrencyCap` |
| `liveness` | 1 process, 1 workstation, 2 tasks, crashes, exceptions, new days and the operators' revive, login, no-access, resume and delete | `RunningEnds`, `StationReturns`, `AttemptsEnd`, `PendingIsClaimed` |
| `interference` | 2 attempts, a target of 2, 2 rounds of at most 2 candidates, one crash, takeover, full reset, edited cursor or deletion at any point | `CountIsBacked`: the counter never says more than the rows; `KeptFiles`: no later attempt writes over a recorded file |
| `attempts` | 3 attempts one after the other, the same sizes, undisturbed | `CountIsExact`: an attempt's sum is the number of rows; `OutcomeKnown`; `LoopEnds` |
| `page` | one session of 2 rounds, 3 media of which one is an earlier session's, 2 notices, 3 takeovers; a video preset of two results with the sets of troubles {refusal, unreadable body}, {unreadable result, cards that leave the document}, {transient failure}, {takeover} and {dialog}, and an image preset with {unreadable result} and {takeover}; cards that mount late at any time (8.7 million states) | in video mode what a round offers is a video (`OffersOnlyVideos`), nothing stored that the snapshot saw is offered again (`NothingTwice`), a short round has waited (`ShortRoundWaited`), a ban has a cause and a refusal is reported (`BanHasCause`, `RefusalIsReported`), and `ImplementsFlowPort` |
| `attach` | frame pairs, single frames and references of up to 2 pictures, 2 rounds, 2 ways to click, and up to 4 clicks and waits in a session that miss, take late or raise (5.9 million states) | `ChipsAreWanted`, `MissingWasEscaped` |
| `health` | 2 workstations, 3 strikes, 2 probe tiers, 2 failures, every operation, probes that raise | `FailureRunStops`, `ImplementsLifecycle`, and under fairness `ProbesEnd` |
| `console` | 2 workstations, 1 claim, 2 threads, 2 sessions, careful operators, crashes at any time | `AtMostOneScheduler`, `LaunchSparesTheUsed`, and under fairness `StopsAreObeyed` |
| `store` | 2 ids, 2 pictures, forms, sheets of two rows with each kind and each slip, files of up to two lines, and up to 2 workers at a task, one of them stale | `OnlyReopeningDuplicates`, `PicturesAreKept`, `BulkIsHonest` |
| `verdict`, `exclusive` | the instances of the two disagreements of section 10 that are runs | a violation |

Bounds. Two tasks are enough for a dependency, for a preferred retry and for
two workers in conflict; two workstations for a wrong owner, the third for one
that the pass does not know. One retry, one auto-resume and a zombie limit of
two let every counter reach its limit and be reset. The budget of two lets a
failure follow an operator's action, or two failures follow one another; the clock
is not bounded by it. Two futures suffice where at most two workers can live: a launch takes a
workstation of its own, and an ended future is freed by the next round.
For the worker loop, a target of two with rounds of up to two candidates gives
partial, lost, refused and superfluous candidates, and two rounds an empty one
before the limit. Two attempts are enough for any conflict about a file, which
has two writers; three let a resumed attempt be resumed.
On the Flow page three media give an old card, a first result and a second one;
two rounds let what the first has downloaded meet the second's snapshot. The troubles
that meet in one session are those whose effects do: a refusal and the body that hides
it, a result that is not read and one that is out of the document. The others come one at a
time, and the takeovers left out behave as those
that are in. Two ways to click are enough for one to be given up and followed by another,
and four misses for a late click, the fallback after it, a failed Escape and a failed
generation. Two login sessions and two threads are one more than should ever
live; a second workstation is there to be spared. Two ids are enough for a
duplicate, a dependency and an id that exists; two rows of a sheet for one that fails
before or after one that does not.

Fairness (`Fairness`). The daemon loop runs in a thread of its own and always
takes its next step; a worker's calls have time limits, so it ends;
requests that have read their row write it; the clock goes on; a process that died
is started again, since the tool is opened by its user every day. `LoopEnds` needs the same of a worker's calls alone. Nothing is assumed of operators, crashes
and failures. `WorkstationHealth` supposes the passes, the clock and that
`recover-banned` is run again and again, as its help text asks (hourly, by cron), and that
a workstation's probe does not raise for ever (strong fairness of `Answers`). An exception while the
workstations are listed or the mode is read ends the daemon's thread for good
(`daemon.py:190-217`): the liveness results suppose that there is none.
`Console` supposes that living threads go on, that a request that has looked goes on to act,
and nothing of a process that is gone. `StationReturns` needs that no workstation is deleted while a pass lists it: the
resurrected row of section 10 may come back in cooldown without a timer.
`PendingIsClaimed` speaks of a task with attempts left and of no dependency, and
of a workstation that is eligible again and again.

## 10. Disagreements the models show

Two runs expect a violation, each of a sentence the repository says of itself.

- `verdict`: `recover-banned --workstation` probes one page and gives that verdict
  to every `manual_check` row that is due (`cli.py:434`).
- `exclusive`: the capture makes a workstation claimable while its login window
  is open for the language tab, up to five minutes; the worker's launch finds
  that window's Chrome on its profile and kills it (`profile_check.py:61`,
  `login_session.py:702-720`).

These properties are stated in the modules as well, and the configurations
`MCDispatch_revive`, `_resume`, `_resurrected`, `_added`, `MCWorkerLoop_rollback`,
`_night`, `MCFlowRound_stated`, `MCFlowAttach_reuse` and `MCWorkstationHealth_stated` let TLC
find the traces (the two `_stated` check two properties each: TLC's `-continue` reports both).

- `OneTaskPerWorkstation` (`Dispatch`, `Operator` with "revive" or "login"):
  `hard_revive_workstation` takes a busy workstation too, whatever its docstring says
  ("from any non-busy state"), and so does `soft_revive_workstation`: a second
  task while the first worker runs.
- `ResumeSparesRunning` ("resume"): `resume_task` looks at the status before its
  transaction and takes a task that was claimed in between.
- `SyncKeepsDatabase` ("delete_ws"): the pass writes the list it has read back to
  the table, so a workstation deleted in between returns with the status it was
  listed with; one listed in cooldown has no timer and never leaves it.
- `ClaimIsLaunched` ("add"): a workstation added during a pass is claimed by it, and the
  lookup of its configuration fails after the claim was committed.
- `DownloadedNeverRollsBack` (`WorkerLoop`): after a crash between the INSERT and the live
  UPDATE the row is behind by one, the next attempt starts from there, its first
  update catches up and its last transaction takes the difference back. Only the
  counter falls; rows and files stay.
- `NightCaptchaIsReviewed` (`WorkerLoop`): a captcha that is on the page when it is
  opened returns `retry_waiting` before the branch that marks `manual_review`.
- `OnlyNewOccurrences` (`FlowRound`): a card of an earlier session that mounts after
  the baseline, or a baseline whose body could not be read, raises
  `unusual_activity` although `open` says that only new notices do. `BanHasCause` is
  what holds.
- `OffersThisRoundsOnly` (`FlowRound`): `trigger_generation` says that its snapshot lets the
  wait "diff out the new candidates produced by this round"; a result that is out of
  the virtualized list, or cannot be read, as the snapshot is taken, is offered as
  this round's when its card mounts, a second time if it was stored before. `NothingTwice` is
  what holds.
- `SuccessResetsStrikes` (`WorkstationHealth`): `config/loader.py:62-64` says that a successful
  generation resets the counter of strikes; `state.py:151-165` keeps it on purpose.
  `ImplementsLifecycle` states what the code does: no success lowers it.
- `CountersApart` (`WorkstationHealth`): the strike counter is reset on entering
  `manual_check`, "the probe recovery has its own counter semantics" (`state.py:215-217`). The
  login that meets no access puts the row there with its strikes
  (`web/routes/login.py:130-139`), and `recover-banned --workstation` uses them as the tier
  its probes have reached (`state.py:340`, `364`).
- `PicturesAreTheTasks` (`FlowAttach`): the library is searched by file name, so a picture
  of another task with the same name is attached.
- `ActiveIsUnique` (`TaskStore`): resume and reset ask nobody, so a reopened task
  doubles an active one. A task that was reset, resumed or recovered while its worker was
  still at it may do so later: it ends, a new one of the same creative is made, and the
  stale worker's `retry_waiting` revives it. `OnlyReopeningDuplicates` is what holds.

With weaker assumptions on the operators the other properties fail too, as the
code's own comments would lead one to expect:

- Without `Serial` the console and `task add` create the same creative at once and both
  pass `_has_active_task`; `task add` with an id that exists copies its pictures into
  that task's directory before the insertion is refused.
- With two `Requests`, two starts at once make two scheduler threads. A start while a
  stopped thread still ends its pass is a no-op, so the scheduler stays off.
- With `Longer` not empty (`WS_1` beside `WS_10`), a launch kills the other
  workstation's browser, because the profile's path is matched as a part of the
  command line.
- Two processes on one database: the second one's boot takes the running tasks of the first.

Excused by name in a property, because the code does not prevent it: after a failed
generation the prompt keeps its chips (`flow_playwright.py:1657-1659`) and the next round
attaches its pictures beside them; a click on a thumbnail that takes after its 3 s attaches a
second chip, or closes the dialog of the next picture, which is then missing
(`ChipsAreWanted`, `MissingWasEscaped`); a result whose `<video>` cannot be read is offered
as its poster, also when the video was stored before (`NothingTwice`).

Met while reading, and not stated as properties: the deletion of a
workstation is not refused while its task runs, although `repository.py:515-517` asks
the caller for it; the scheduler's thread ends for good when the listing or the mode
cannot be read (`daemon.py:190-217`), outside the `except` of a pass; the
window's `cancel` joins for five seconds while the wait for a project to settle takes up to
6.3; `soft_revive_workstation` clears the probe timer of a `manual_check` row, which
recover-banned then never looks at, and leaves its status and strikes, although
`docs/customer-manual.md:155` says that a new login returns such a row to normal and clears its
strikes; `open` swallows a preset that could not be applied
(`flow_playwright.py:261-264`) although the comment at 1102-1106 says it must raise;
the retry inside a round passes a list where a selector is expected (1660-1662);
`NO_FLOW_ACCESS` is missing from the states that end a round (1675-1681), so it
runs into the timeout; `bulk-validate` says it validates "exactly as /bulk-import would" and
does not see active tasks, illegal ids, unknown kinds and missing dependencies; the bulk import's
docstring accepts `last_frame` in `source_asset_path` and the code refuses it; the API's
form does not send a frame pair to the frames tab, as the page's form does; an
`OSError` or a locked database ends a bulk import without an answer for the rows
already created; an insertion that is refused leaves its copies behind.

## 11. What is proved

Every theorem is proved from `Init` and `Next` for every value of the constants, by an
inductive invariant that TLC has checked first on the instances of section 9. The
only assumptions are the named `ASSUME`s of the modules, which TLC evaluates, and the
hypotheses that a theorem states.

| Module | Assumption on the constants | Why the code justifies it |
|---|---|---|
| `Dispatch` | `ConstantsOK`, `FinitelyMany` | the ranges of the loader and the schema; a table has finitely many workstations |
| `WorkerLoop` | `LoopConstantsOK` | `target_count > 0`, a round limit and a number of candidates |
| `WorkstationHealth` | `LimitsOK` | the loader refuses limits below one |
| `Browsers`, `Console` | `BrowsersOK`, `ConsoleOK` | threads, sessions and orphans are different things |
| `TaskStore` | `StoreOK` | forms, sheets and files have the columns that the parsers return |
| `FlowAttach` | `Inputs` | a task's assets are a list of rows with a kind, a file name and what it shows; at least one request and one way to click; the number of rounds and of misses |
| `FlowRound` | `Periods`, `Bounds`, `KnownTakeOvers` | durations are not negative and the timeout is positive (`config/loader.py:34`); finitely many media; the presets the loader accepts |

### Dispatch

`DispatchProofs` and `OwnershipProofs` hold for any number of tasks, workstations,
processes, futures and operator actions:

- `TypeCorrect`: `Spec => []TypeOK`, one lemma per group of actions.
- `RetryBudgetKept` (the configuration `MCDispatch_anything` checks it with two processes
  and every operation): inductive with `TypeOK` alone. A row is running only with an
  attempt left (`Claimable`), and both places that raise `retry_count`
  (`RecoverZombies`, `Finalize`) raise that of a running row and take it out of running
  in the same transaction.
- Under `Cautious`: `ExclusiveClaimKept`, `WorkerOwnsRowsKept`,
  `NoWorkerOutlivesPassKept`, `DependencyRespectedKept`, `VerdictStandsKept`,
  `DecisionStandsKept`. They rest on one inductive invariant, `Ownership`.
  `ExclusiveClaim` alone is not inductive: a recovery that frees the row of a live
  worker makes it claimable. `WorkerOwnsRows` adds that the rows of every worker
  and of every claim about to be launched are still busy and running, so that no
  claim matches them (`ClaimTakesFreeRows`), and `NoWorkerOutlivesPass` that nobody is
  alive when the recoveries run (`NobodyAlive`), which do not ask. A task
  whose row an operator deleted is the one exception: its worker keeps the
  workstation and fails at the end.
- Under `Cautious`, `TaskLifecycleImplemented`: `Spec => ImplementsTaskLifecycle`, one
  step per action. The invariant `LifeInv` adds to `Ownership` the ranges of the
  counters (`RetryBudget`, `LifeOf`). No counter bounds the attempts by itself: a restart
  takes a task back without counting a retry, and an automatic resumption sets the retries
  to zero. The proof shows that their sum only falls: a restart is paid with one of the
  crashes that `zombie_recovery_count` allows, and a resumption with one of the
  resumptions, worth the retries it gives back. This is the safety half of
  `AttemptsEnd`, for all limits.
- Under `Sparing`, which is weaker: `DailyLimitIsKept` and `ConcurrencyCapKept`. Tasks may be
  resumed, reset and deleted at will; only a revive, the login and a removed workstation
  that is created again return a busy row. `LimitInv` says that the workstation of
  every live worker and of every claim about to be launched is reserved, with a place
  left for its task, and that `in_flight` has a future of its own for each worker, so a process has
  at most as many workers as futures (`WorkersInFlight`, by an injection between finite
  sets). When the day changes under a worker the
  counter starts again, so the place stays.

### Worker loop

`WorkerLoopProofs`, for every target, round
limit, number of candidates and attempts and any interference:

- `LoopTypeCorrect`: `Spec => []TypeOK`.
- `CountIsBackedKept`. The invariant adds what each live attempt counts on: its
  starting counter, the candidates of its round and a row inserted but not yet
  counted are together at most the number of rows (`ClaimsBacked`). An insertion
  raises both sides for its attempt and the right side for all others.
- `OutcomeKnownKept`: inside the loop the outcome is still healthy, so the exit
  conditions determine the pair. This discharges what `Dispatch` assumes of its
  workers.
- `CountIsExactKept`: as long as nothing interferes and no attempt dies (`Exact`) one attempt
  is alive at most, what it claims is the number of rows, and between attempts the counter
  of the row is that number. A crash is outside its hypothesis; for crashes
  `CountIsBackedKept` is what holds.
- `KeptFilesKept`: every recorded key lies behind the place an attempt has
  reached, unless the two are contemporaries (`Placed`). `ReadCursor` establishes
  it, the order of rounds and candidates keeps it, and of two live attempts the
  later one saw the earlier (`PeersKnown`).
- `AttemptsAlwaysAdvance`: an attempt has at most `MaxRound * RoundCost + 4` statements to
  execute, and each one it executes leaves fewer, whatever else happens in between
  (`AdvanceInv`: an attempt is within its rounds and its candidates). This is
  the safety half of `LoopEnds`, without any assumption on the interference. No run
  checks it.

### The Flow page

`FlowRoundProofs`, for any number of media, notices, rounds, polls, retries and troubles:

- `RoundTypeCorrect`. `RoundInv` adds what the history says (`SeenOK`), what the driver's
  variables are at each place (`Stands`) and what the page shows at each place (`PageStands`).
- `OffersOnlyVideosKept`, `ShortRoundWaitedKept`: of the two exits of a poll, `EarlyExit`
  counts videos only, and `StabilityExit` drops the posters of a mixed set and
  never takes a set of posters only. Both are asked of a set computed in this poll.
- `BanHasCauseKept`: while the driver looks, a number of notices above the baseline has
  one of the causes (`BanInv`). It needs the baseline to be renewed at each round
  and says what it misses: a body that could not be read, a card that mounts late.
- `RefusalIsReportedKept`, if `NoProgress + 1 < Timeout`: the operator may set any positive
  timeout (`config/loader.py:34`), and with one below the two minutes of `NoProgress` there is
  no poll that could notice the silence. `ReportInv` carries the excuse to the last
  poll. What the theorem excuses: something did arrive, the app was covered, the refusal came
  after the last poll, the card offered a retry, or a look failed.
- `NothingTwiceKept`: what is stored was seen by the last snapshot, or was one of the results it
  missed, or is a poster that has become a video, or the app is covered (`KeptInv`).
  The argument is about the results there are (`Results`, of which none is ever lost) and not about
  those in the document, so cards may leave and return at will; a look never finds what is
  not a result, except the poster of a video it could not read (`Exposed`).
- `FlowPortImplemented`: `Spec => ImplementsFlowPort`, one step per action of the driver. The
  actions of the page and of a poll that does not answer map to a stutter.

`FlowAttachProofs`, for any tasks, assets, rounds and misses:

- `AttachTyped`, `ChipsWanted`, `MissingEscaped`, from one invariant, `AttachInv`. Every chip, and
  every click that has not taken yet, was made for an entry of the task's plan in that
  entry's slot (`OwnedChips`, `OwnedPending`), so no chip is where it does not belong
  whatever comes late. In a slot where no click came late the chips are those of
  the entries dealt with, read forwards (`Placed`), and an entry dealt with (`Done`) left
  a chip there or was given up with Escape (`Accounted`). A late click puts its slot
  beyond these books, and a failed generation the whole prompt; Create starts them afresh.
  `PlanFacts` says what the plan is: its entries are the task's assets of the mode's kinds,
  and a frame has one at most, since `OneInto` takes one and a task with two is refused before.

### Workstations

`WorkstationHealthProofs`, for all limits and tiers:

- `HealthTypeCorrect`, `FailureRunStopsKept`. The invariant `HealthInv` ties the history to the
  counter (`RunCounted`), and says that who works has not yet reached the limit
  (`WorkingRuns`): a revive under a running worker ends the run and leaves
  the counter, so the counter may be ahead of the run and never behind.
- `LifecycleImplemented`, if operators do not act on busy rows: each transaction is a lawful move of
  `WorkstationLifecycle`, row by row, with the column of strikes and probes as its count in every
  status. A round of probes is a step in which some counts rise and nothing else moves
  (`FailProbe`), or one that returns the row and clears the count. Operators on a
  busy row let a report arrive at a row that its worker does not own; the abstract lifecycle has
  no such move.

### The console

`ConsoleProofs`, for any number of workstations, threads and sessions:

- `ConsoleTypeCorrect`.
- `AtMostOneSchedulerKept`, if requests do not overlap (`OneRequest`): the thread that lives
  is the one the daemon knows, and a start that was asked for found none
  (`SchedulerInv`). A stop whose join times out forgets nothing, which is what the proof needs.
- `LaunchSparesTheUsedKept`, if the operators are `Careful` and no profile's path is part of
  another's (`ProfilesApart`): no workstation has two workers, two windows or one of each while
  someone signs in (`ApartInv`), so a launch finds only orphans and windows that nobody
  needs.

### The task store

`TaskStoreProofs`, for any ids, pictures, forms, sheets and files, under `Serial`:

- `StoreTypeCorrect`, `OnlyReopeningDuplicatesKept`, `PicturesAreKeptAlways`, `BulkIsHonestKept`
  rest on one invariant, `StoreInv`. `_has_active_task` looks before the copies and the
  insertion comes after them, so the rule needs that the key stays free in between
  (`KeyIsFree`, `OneCreation`); the row needs that the copies came first
  (`CopiedFirst`) and that a deletion clears only what has no row (`ClearsOld`); a stale
  worker's result needs that a task has one worker, which holds its claim, unless it was given back
  (`OneWorker`); the import's
  account needs what its current row is (`BulkStands`).

### What stays with TLC

- Liveness: `RunningEnds`, `StationReturns`, `AttemptsEnd`, `PendingIsClaimed`, `LoopEnds`,
  `ProbesEnd`, `StopsAreObeyed`. Fairness is stated with `ENABLED`, which is out of the prover's
  reach. What is proved next to them is that nothing can go on for ever:
  `TaskLifecycleImplemented` bounds the attempts at a task and `AttemptsAlwaysAdvance` the
  statements of an attempt. That the next step is taken is what TLC checks.
- The invariants and action properties of the passing runs are all theorems. Not every
  theorem has a run: `VerdictStandsKept` and `AttemptsAlwaysAdvance` have none of their own.
- The theorems' hypotheses on operators (`Cautious`, `Sparing`, `Careful`, `OneRequest`,
  `Serial`, operators who leave busy rows alone) are assumptions of the theorems, not of
  the models: section 10 tells what happens without them.

## 12. Not modelled

- Selectors, wording and layout of the Flow page, the movements of the mouse, the
  screenshots. The page is external and does what `FlowRound` names: it mounts, unmounts and replaces
  cards, refuses, fails, shows a dialog, is taken over; other changes of the page are not covered.
- The tunnel (a child process whose output is read for one URL), the license (one
  date compared at the start), the daily report and the merging of configurations:
  none of them shares state with the rest.
- `runner/single.py`, a developer's command that claims and finishes as `Dispatch`
  does, without threads.
- Templates, wording, logging, diagnostics archives, file paths, schema migrations, and
  the yaml bootstrap of the developer's command line.
- Clocks: durations are timers that run and elapse, or counted polls, so nothing is
  said about how long a lock, a join or a cooldown lasts.
