-------------------------- MODULE WorkstationHealth --------------------------
(***************************************************************************)
(* The health of the workstations: the strike and failure counters, the    *)
(* cooldown timers and the probes that decide when an account is used      *)
(* (app/scheduler/state.py, the status operations of                       *)
(* app/workstations/repository.py, the login callbacks of                  *)
(* app/web/routes/login.py and `recover-banned` of app/cli.py).  Dispatch  *)
(* leaves these decisions to choice and keeps the tasks; here the tasks    *)
(* are left out and a worker is the attempt it makes on a workstation.     *)
(*                                                                         *)
(* Durations are abstracted to a timer that runs and elapses, and the      *)
(* count of page failures within the last minutes to whether there are     *)
(* enough of them.  Counters that are only compared with a limit stop at   *)
(* it.                                                                     *)
(***************************************************************************)
EXTENDS Naturals, FiniteSets

CONSTANTS
  Workstations,     \* workstation ids
  None,             \* no workstation
  MaxStrikes,       \* cooldown.unusual_activity_max_strikes
  ProbeTiers,       \* length of cooldown.unusual_activity_probe_backoff_hours
  ConsecutiveLimit, \* cooldown.consecutive_failure_threshold
  OnBusyRows        \* TRUE if operators revive, and log in to, workstations whose worker runs

ASSUME LimitsOK ==
  /\ None \notin Workstations
  /\ {MaxStrikes, ConsecutiveLimit} \subseteq Nat \ {0}
  /\ ProbeTiers \in Nat
  /\ OnBusyRows \in BOOLEAN

VARIABLES
  row,      \* the workstations table
  run,      \* page failures in a row since a success, a cooldown's end or an operator (history)
  working,  \* workstations that have a worker
  banned,   \* whether the workstation's Flow page shows its account a ban or a captcha;
            \* a login page or one that does not load shows neither
  cli       \* recover-banned: the transaction it is in or about to begin

vars == <<row, run, working, banned, cli>>

Statuses == {"healthy", "busy", "cooldown", "manual_check", "nurturing", "disabled"}
Timers == {"none", "running", "elapsed"}

CountTop == IF MaxStrikes > ProbeTiers THEN MaxStrikes ELSE ProbeTiers
UpTo(limit, n) == IF n > limit THEN limit ELSE n

Rows == [status : Statuses, timer : Timers, strikes : 0..CountTop, failures : 0..ConsecutiveLimit]

\* pc: "idle"; "probed": the workstation named with --workstation was probed and
\* the transaction has yet to begin; "holding": the transaction is open while the
\* workstations in due are probed one after the other.
CliStates == [ pc : {"idle", "probed", "holding"}, on : Workstations \cup {None},
               verdict : BOOLEAN, due : SUBSET Workstations ]
Idle == [pc |-> "idle", on |-> None, verdict |-> FALSE, due |-> {}]

TypeOK ==
  /\ row \in [Workstations -> Rows]
  /\ run \in [Workstations -> 0..ConsecutiveLimit]
  /\ working \subseteq Workstations
  /\ banned \in [Workstations -> BOOLEAN]
  /\ cli \in CliStates
  /\ cli.pc = "holding" <=> cli.due # {}

Init ==
  /\ row = [w \in Workstations |->
       [status |-> "healthy", timer |-> "none", strikes |-> 0, failures |-> 0]]
  /\ run = [w \in Workstations |-> 0]
  /\ working = {}
  /\ banned = [w \in Workstations |-> FALSE]
  /\ cli = Idle

\* BEGIN IMMEDIATE: nobody writes while recover-banned holds its transaction.
Unlocked == cli.pc # "holding"

Is(w, statuses) == row[w].status \in statuses
Update(w, r) == row' = [row EXCEPT ![w] = r]

-----------------------------------------------------------------------------
\* Workers

\* claim_one's compare-and-set; its other conditions are Dispatch's.
Claim(w) ==
  /\ Unlocked /\ w \notin working
  /\ Is(w, {"healthy"})
  /\ row' = [row EXCEPT ![w].status = "busy"]
  /\ working' = working \cup {w}
  /\ UNCHANGED <<run, banned, cli>>

Healthy(r) == [r EXCEPT !.status = "healthy", !.timer = "none"]
Resting(r) == [r EXCEPT !.status = "cooldown", !.timer = "running"]
Held(r) ==
  [r EXCEPT !.status = "manual_check", !.strikes = 0,
            !.timer = IF ProbeTiers > 0 THEN "running" ELSE "none"]

\* A suspicion: strikes while the budget lasts, then manual_check.
StruckOnceMore(r) ==
  IF r.strikes < MaxStrikes THEN [Resting(r) EXCEPT !.strikes = @ + 1] ELSE Held(r)
Struck(r) ==
  IF r.strikes + 1 < MaxStrikes THEN [Resting(r) EXCEPT !.strikes = @ + 1] ELSE Held(r)

Failures(w) == UpTo(ConsecutiveLimit, row[w].failures + 1)
Failed(w) == [row[w] EXCEPT !.failures = Failures(w)]

\* _apply_workstation_outcome in the worker's final transaction.
ReportSuccess(w) ==
  /\ Update(w, [Healthy(row[w]) EXCEPT !.failures = 0])
  /\ run' = [run EXCEPT ![w] = 0]
ReportDownloadFailed(w) == Update(w, Healthy(row[w])) /\ UNCHANGED run
ReportFailed(w) == Update(w, Healthy(Failed(w))) /\ UNCHANGED run
ReportUnusual(w) == Update(w, Struck(row[w])) /\ UNCHANGED run
ReportNeedsHuman(w) == Update(w, Held(row[w])) /\ UNCHANGED run

EnoughCountedLate(w, windowFull) == row[w].failures >= ConsecutiveLimit \/ windowFull
Enough(w, windowFull) == Failures(w) >= ConsecutiveLimit \/ windowFull

ReportPageFailure(w) ==
  /\ \E windowFull \in BOOLEAN :
       Update(w, IF Enough(w, windowFull) THEN Resting(Failed(w))
                 ELSE [Failed(w) EXCEPT !.status = "healthy"])
  /\ run' = [run EXCEPT ![w] = UpTo(ConsecutiveLimit, @ + 1)]

Report(w) ==
  /\ Unlocked /\ w \in working
  /\ \/ ReportSuccess(w) \/ ReportDownloadFailed(w) \/ ReportFailed(w)
     \/ ReportUnusual(w) \/ ReportNeedsHuman(w) \/ ReportPageFailure(w)
  /\ working' = working \ {w}
  /\ UNCHANGED <<banned, cli>>

\* The worker ends without its final transaction: its process died, or the
\* database stayed locked for longer than the connection waits.
Vanish(w) ==
  /\ w \in working
  /\ working' = working \ {w}
  /\ UNCHANGED <<row, run, banned, cli>>

-----------------------------------------------------------------------------
\* The recoveries of a scheduler pass

\* recover_workstation_states
RecoverCooldowns ==
  LET back == {w \in Workstations : Is(w, {"cooldown"}) /\ row[w].timer = "elapsed"} IN
  /\ Unlocked /\ back # {}
  /\ row' = [w \in Workstations |->
       IF w \in back THEN [Healthy(row[w]) EXCEPT !.failures = 0] ELSE row[w]]
  /\ run' = [w \in Workstations |-> IF w \in back THEN 0 ELSE run[w]]
  /\ UNCHANGED <<working, banned, cli>>

\* release_orphaned_busy_workstations, or the restart's reset
ReleaseOrphans ==
  LET orphans == {w \in Workstations \ working : Is(w, {"busy"})} IN
  /\ Unlocked /\ orphans # {}
  /\ row' = [w \in Workstations |->
       IF w \in orphans THEN [row[w] EXCEPT !.status = "healthy"] ELSE row[w]]
  /\ UNCHANGED <<run, working, banned, cli>>

-----------------------------------------------------------------------------
\* recover-banned

Due(r) == {w \in Workstations : r[w].status = "manual_check" /\ r[w].timer = "elapsed"}

\* One row of probe_recover_banned_workstations.
StillBannedForEver(r) ==
  [r EXCEPT !.strikes = UpTo(CountTop, @ + 1), !.timer = "running"]
StillBanned(r) ==
  [r EXCEPT !.strikes = UpTo(CountTop, @ + 1),
            !.timer = IF r.strikes + 1 >= ProbeTiers THEN "none" ELSE "running"]
Cleared(r) == [Healthy(r) EXCEPT !.failures = 0, !.strikes = 0]

AfterProbe(r, still) == IF still THEN StillBanned(r) ELSE Cleared(r)
ForgetsRun(ws) == run' = [w \in Workstations |-> IF w \in ws THEN 0 ELSE run[w]]

\* Without --workstation: the rows that are due are read, then each is probed and
\* written, all in one transaction.
BeginDue ==
  /\ cli = Idle /\ Due(row) # {}
  /\ cli' = [Idle EXCEPT !.pc = "holding", !.due = Due(row)]
  /\ UNCHANGED <<row, run, working, banned>>

NextDueAndStay(w) == cli' = [cli EXCEPT !.due = @ \ {w}]
NextDue(w) == cli' = IF cli.due = {w} THEN Idle ELSE [cli EXCEPT !.due = @ \ {w}]

\* The probe answers; every page that does not show a ban counts as clean.
ProbeDue(w) ==
  /\ cli.pc = "holding" /\ w \in cli.due
  /\ Update(w, AfterProbe(row[w], banned[w]))
  /\ ForgetsRun(IF banned[w] THEN {} ELSE {w})
  /\ NextDue(w)
  /\ UNCHANGED <<working, banned>>

\* A workstation that is in the database and not in workstations.yaml.
ProbeUnlisted(w) ==
  /\ cli.pc = "holding" /\ w \in cli.due
  /\ Update(w, StillBanned(row[w]))
  /\ NextDue(w)
  /\ UNCHANGED <<run, working, banned>>

\* A probe that raises leaves its row for the next run.
ProbeRaises(w) ==
  /\ cli.pc = "holding" /\ w \in cli.due
  /\ NextDue(w)
  /\ UNCHANGED <<row, run, working, banned>>

\* With --workstation: probed before the transaction, whatever its timer says.
ProbeNamed(w) ==
  /\ cli = Idle /\ Is(w, {"manual_check"})
  /\ cli' = [Idle EXCEPT !.pc = "probed", !.on = w, !.verdict = banned[w]]
  /\ UNCHANGED <<row, run, working, banned>>

\* The transaction makes the named row due, if it still is in manual_check, and
\* hands the one verdict to every row that is due.
ApplyNamed ==
  LET forced == [row EXCEPT ![cli.on].timer =
                   IF row[cli.on].status = "manual_check" THEN "elapsed" ELSE @]
      due == Due(forced) IN
  /\ cli.pc = "probed"
  /\ row' = [w \in Workstations |->
       IF w \in due THEN AfterProbe(forced[w], cli.verdict) ELSE forced[w]]
  /\ ForgetsRun(IF cli.verdict THEN {} ELSE due)
  /\ cli' = Idle
  /\ UNCHANGED <<working, banned>>

-----------------------------------------------------------------------------
\* Operators and the login window

Free(w) == OnBusyRows \/ ~Is(w, {"busy"})
OperatorSets(w, r) ==
  /\ Unlocked
  /\ Update(w, r)
  /\ UNCHANGED <<working, banned, cli>>

\* hard_revive_workstation, from any status
HardRevive(w) == Free(w) /\ OperatorSets(w, Cleared(row[w])) /\ ForgetsRun({w})

StartNurturing(w) ==
  /\ Is(w, {"healthy", "cooldown", "manual_check"})
  /\ OperatorSets(w, [Cleared(row[w]) EXCEPT !.status = "nurturing"])
  /\ ForgetsRun({w})

Disable(w) ==
  /\ ~Is(w, {"busy"})
  /\ OperatorSets(w, [row[w] EXCEPT !.status = "disabled", !.timer = "none"])
  /\ UNCHANGED run

\* soft_revive_workstation, when the login window captured the project's URL: the
\* timers are cleared in every status.
SoftRevive(w) ==
  /\ Free(w)
  /\ OperatorSets(w, [row[w] EXCEPT
       !.status = IF @ \in {"cooldown", "busy"} THEN "healthy" ELSE @,
       !.timer = "none", !.failures = 0])
  /\ ForgetsRun({w})

\* The login window met the page of an account without access.  The count stays: a
\* probe of this row by name goes on from the strikes as if they were probes.
NoFlowAccess(w) ==
  /\ Free(w)
  /\ OperatorSets(w, [row[w] EXCEPT !.status = "manual_check", !.timer = "none"])
  /\ UNCHANGED run

-----------------------------------------------------------------------------
\* Time and the world

TimerElapses(w) ==
  /\ row[w].timer = "running"
  /\ row' = [row EXCEPT ![w].timer = "elapsed"]
  /\ UNCHANGED <<run, working, banned, cli>>

BanChanges(w) ==
  /\ banned' = [banned EXCEPT ![w] = ~@]
  /\ UNCHANGED <<row, run, working, cli>>

-----------------------------------------------------------------------------
Recoveries == RecoverCooldowns \/ ReleaseOrphans
Answers(w) == ProbeDue(w) \/ ProbeUnlisted(w)
Cron == BeginDue \/ (\E w \in Workstations : Answers(w) \/ ProbeRaises(w))
Operates(w) ==
  HardRevive(w) \/ StartNurturing(w) \/ Disable(w) \/ SoftRevive(w) \/ NoFlowAccess(w)

Next ==
  \/ Recoveries \/ Cron \/ ApplyNamed
  \/ \E w \in Workstations :
       \/ Claim(w) \/ Report(w) \/ Vanish(w) \/ ProbeNamed(w) \/ Operates(w)
       \/ TimerElapses(w) \/ BanChanges(w)

Spec == Init /\ [][Next]_vars

\* The daemon's passes and the clock go on, recover-banned is run again and again,
\* as its help text wants it (hourly, from cron), and the probe of a workstation
\* does not raise every time.
Fairness ==
  /\ WF_vars(RecoverCooldowns) /\ WF_vars(ReleaseOrphans)
  /\ WF_vars(BeginDue) /\ WF_vars(ApplyNamed)
  /\ \A w \in Workstations : SF_vars(Answers(w)) /\ WF_vars(TimerElapses(w))

FairSpec == Spec /\ Fairness
=============================================================================
