----------------------- MODULE WorkstationHealthProofs -----------------------
(***************************************************************************)
(* Theorems about the health of the workstations, for every number of      *)
(* workstations, strike budget, back-off and failure limit: the types, the *)
(* stop after a run of page failures, and that every transaction is a step *)
(* of WorkstationLifecycle.                                                *)
(***************************************************************************)
EXTENDS WorkstationHealthProperties, TLAPS

\* The run that only the properties see is never longer than the counter the code
\* keeps, and a workstation a worker works on still has a failure left.
RunCounted == \A w \in Workstations : run[w] <= row[w].failures
WorkingRuns == \A w \in working : run[w] < ConsecutiveLimit

\* The rows recover-banned has read and not yet written are as it read them: its
\* transaction keeps everybody else out.
DueAreHeld == \A w \in cli.due : Is(w, {"manual_check"})
NamedExists == cli.pc = "probed" => cli.on \in Workstations

\* Nobody takes a busy row from its worker.
WorkingBusy == ~OnBusyRows => \A w \in working : Is(w, {"busy"})

\* The inductive invariant.
HealthInv ==
  /\ TypeOK /\ NamedExists /\ DueAreHeld
  /\ RunCounted /\ WorkingRuns /\ FailureRunStops
  /\ WorkingBusy

-----------------------------------------------------------------------------
\* The operators on rows

LEMMA LimitTypes ==
  /\ MaxStrikes \in Nat /\ MaxStrikes > 0 /\ ProbeTiers \in Nat
  /\ ConsecutiveLimit \in Nat /\ ConsecutiveLimit > 0
  /\ CountTop \in Nat /\ CountTop >= MaxStrikes /\ CountTop > 0
BY LimitsOK DEF LimitsOK, CountTop

LEMMA RowFields ==
  ASSUME NEW r \in Rows
  PROVE  /\ r.status \in Statuses /\ r.timer \in Timers
         /\ r.strikes \in 0..CountTop /\ r.failures \in 0..ConsecutiveLimit
BY DEF Rows

\* A row stays a row when its fields change within their types.
LEMMA RowFieldChanges ==
  ASSUME NEW r \in Rows, NEW s \in Statuses, NEW t \in Timers,
         NEW k \in 0..CountTop, NEW n \in 0..ConsecutiveLimit
  PROVE  /\ [r EXCEPT !.status = s] \in Rows
         /\ [r EXCEPT !.timer = t] \in Rows
         /\ [r EXCEPT !.strikes = k] \in Rows
         /\ [r EXCEPT !.failures = n] \in Rows
BY DEF Rows

\* What each operator makes of a row: its fields, and that it still is a row.
LEMMA HealthyRow ==
  ASSUME NEW r \in Rows
  PROVE  /\ Healthy(r) \in Rows /\ Healthy(r).status = "healthy" /\ Healthy(r).timer = "none"
         /\ Healthy(r).strikes = r.strikes /\ Healthy(r).failures = r.failures
BY DEF Rows, Healthy, Statuses, Timers

LEMMA RestingRow ==
  ASSUME NEW r \in Rows
  PROVE  /\ Resting(r) \in Rows /\ Resting(r).status = "cooldown"
         /\ Resting(r).strikes = r.strikes /\ Resting(r).failures = r.failures
BY DEF Rows, Resting, Statuses, Timers

LEMMA HeldRow ==
  ASSUME NEW r \in Rows
  PROVE  /\ Held(r) \in Rows /\ Held(r).status = "manual_check"
         /\ Held(r).strikes = 0 /\ Held(r).failures = r.failures
<1>1. (IF ProbeTiers > 0 THEN "running" ELSE "none") \in Timers
  BY DEF Timers
<1>2. 0 \in 0..CountTop /\ "manual_check" \in Statuses
  BY LimitTypes DEF Statuses
<1> QED BY <1>1, <1>2 DEF Rows, Held

LEMMA ClearedRow ==
  ASSUME NEW r \in Rows
  PROVE  /\ Cleared(r) \in Rows /\ Cleared(r).status = "healthy" /\ Cleared(r).timer = "none"
         /\ Cleared(r).strikes = 0 /\ Cleared(r).failures = 0
<1>1. 0 \in 0..CountTop /\ 0 \in 0..ConsecutiveLimit
  BY LimitTypes
<1> QED BY <1>1, HealthyRow DEF Rows, Cleared

LEMMA StillBannedRow ==
  ASSUME NEW r \in Rows
  PROVE  /\ StillBanned(r) \in Rows /\ StillBanned(r).status = r.status
         /\ StillBanned(r).failures = r.failures
         /\ StillBanned(r).strikes \in {r.strikes, r.strikes + 1}
<1>1. (IF r.strikes + 1 >= ProbeTiers THEN "none" ELSE "running") \in Timers
  BY DEF Timers
<1>2. UpTo(CountTop, r.strikes + 1) \in 0..CountTop
  BY RowFields, LimitTypes DEF UpTo
<1>3. UpTo(CountTop, r.strikes + 1) \in {r.strikes, r.strikes + 1}
  BY RowFields, LimitTypes DEF UpTo
<1>4. /\ StillBanned(r) \in Rows /\ StillBanned(r).status = r.status
      /\ StillBanned(r).failures = r.failures
      /\ StillBanned(r).strikes = UpTo(CountTop, r.strikes + 1)
  BY <1>1, <1>2 DEF Rows, StillBanned
<1> QED BY <1>3, <1>4

\* A suspicion raises the strikes only below the budget, else it holds the row.
LEMMA StruckRow ==
  ASSUME NEW r \in Rows
  PROVE  /\ Struck(r) \in Rows /\ Struck(r).failures = r.failures
         /\ \/ /\ r.strikes + 1 < MaxStrikes /\ Struck(r).status = "cooldown"
               /\ Struck(r).strikes = r.strikes + 1
            \/ Struck(r).status = "manual_check" /\ Struck(r).strikes = 0
<1>1. CASE r.strikes + 1 < MaxStrikes
  <2>1. r.strikes + 1 \in 0..CountTop
    BY <1>1, LimitTypes, RowFields
  <2>2. Struck(r) = [Resting(r) EXCEPT !.strikes = r.strikes + 1]
    BY <1>1, RestingRow DEF Struck
  <2> QED BY <1>1, <2>1, <2>2, RestingRow DEF Rows
<1>2. CASE ~(r.strikes + 1 < MaxStrikes)
  <2>1. Struck(r) = Held(r)
    BY <1>2 DEF Struck
  <2> QED BY <2>1, HeldRow
<1> QED BY <1>1, <1>2

LEMMA FailedRow ==
  ASSUME TypeOK, NEW w \in Workstations
  PROVE  /\ Failed(w) \in Rows /\ Failed(w).status = row[w].status
         /\ Failed(w).strikes = row[w].strikes /\ Failed(w).failures = Failures(w)
         /\ Failures(w) \in 0..ConsecutiveLimit
         /\ row[w].failures <= Failures(w)
         /\ Failures(w) < ConsecutiveLimit => Failures(w) = row[w].failures + 1
<1>1. row[w] \in Rows
  BY DEF TypeOK
<1>2. /\ Failures(w) \in 0..ConsecutiveLimit
      /\ row[w].failures <= Failures(w)
      /\ Failures(w) < ConsecutiveLimit => Failures(w) = row[w].failures + 1
  BY <1>1, RowFields, LimitTypes DEF Failures, UpTo
<1> QED BY <1>1, <1>2 DEF Failed, Rows

-----------------------------------------------------------------------------
\* The invariant, one workstation at a time

HealthOf(w) ==
  /\ run[w] <= row[w].failures
  /\ w \in working => run[w] < ConsecutiveLimit
  /\ Is(w, {"healthy", "busy"}) => run[w] < ConsecutiveLimit
  /\ w \in cli.due => Is(w, {"manual_check"})
  /\ ~OnBusyRows /\ w \in working => Is(w, {"busy"})

LEMMA ByWorkstation ==
  ASSUME HealthInv PROVE \A w \in Workstations : HealthOf(w)
BY DEF HealthInv, DueAreHeld, RunCounted, WorkingRuns, FailureRunStops, WorkingBusy, HealthOf

LEMMA ByWorkstationAfter ==
  ASSUME TypeOK', NamedExists', \A w \in Workstations : HealthOf(w)'
  PROVE  HealthInv'
<1>1. working' \subseteq Workstations /\ cli'.due \subseteq Workstations
  BY DEF TypeOK, CliStates
<1> QED BY <1>1 DEF HealthInv, DueAreHeld, RunCounted, WorkingRuns, FailureRunStops,
                     WorkingBusy, HealthOf, Is

RunChanges(w) ==
  run'[w] \in 0..ConsecutiveLimit /\ run' = [run EXCEPT ![w] = run'[w]]

LEMMA RunChanging ==
  ASSUME HealthInv, NEW w \in Workstations
  PROVE  /\ \A n \in 0..ConsecutiveLimit :
              run' = [run EXCEPT ![w] = n] => RunChanges(w) /\ run'[w] = n
         /\ ForgetsRun({w}) => RunChanges(w) /\ run'[w] = 0
         /\ UNCHANGED run => RunChanges(w) /\ run'[w] = run[w]
<1>1. run \in [Workstations -> 0..ConsecutiveLimit] /\ 0 \in 0..ConsecutiveLimit
  BY LimitTypes DEF HealthInv, TypeOK
<1>2. \A n \in 0..ConsecutiveLimit :
        run' = [run EXCEPT ![w] = n] => RunChanges(w) /\ run'[w] = n
  BY <1>1 DEF RunChanges
<1>3. ForgetsRun({w}) => RunChanges(w) /\ run'[w] = 0
  BY <1>1 DEF RunChanges, ForgetsRun
<1>4. UNCHANGED run => RunChanges(w) /\ run'[w] = run[w]
  BY <1>1 DEF RunChanges
<1> QED BY <1>2, <1>3, <1>4

\* What is left to show of a step that writes the row of one workstation.
LEMMA OneRow ==
  ASSUME HealthInv,
         NEW w \in Workstations, NEW r \in Rows, RunChanges(w),
         Update(w, r), UNCHANGED banned,
         working' \subseteq Workstations, working' \ {w} \subseteq working,
         cli' = cli \/ NextDue(w),
         run'[w] <= r.failures,
         w \in working' \/ r.status \in {"healthy", "busy"} => run'[w] < ConsecutiveLimit,
         w \in cli'.due => r.status = "manual_check",
         ~OnBusyRows /\ w \in working' => r.status = "busy"
  PROVE  HealthInv'
<1> USE DEF HealthInv
<1>1. /\ row' \in [Workstations -> Rows] /\ row'[w] = r
      /\ \A v \in Workstations \ {w} : row'[v] = row[v]
  BY DEF TypeOK, Update
<1>2. /\ run' \in [Workstations -> 0..ConsecutiveLimit]
      /\ \A v \in Workstations \ {w} : run'[v] = run[v]
  BY DEF TypeOK, RunChanges
<1>3. /\ cli' \in CliStates /\ cli'.due \subseteq cli.due
      /\ cli'.pc = "holding" <=> cli'.due # {}
      /\ cli'.pc = "probed" => cli' = cli
  <2>1. CASE cli' = cli
    BY <2>1 DEF TypeOK
  <2>2. CASE cli' # cli /\ cli.due = {w}
    <3>1. cli' = Idle
      BY <2>2 DEF NextDue
    <3> QED BY <3>1 DEF Idle, CliStates
  <2>3. CASE cli' # cli /\ cli.due # {w}
    <3>1. cli' = [cli EXCEPT !.due = @ \ {w}]
      BY <2>3 DEF NextDue
    <3>2. cli \in CliStates
      BY DEF TypeOK
    <3>3. cli.due # {} /\ cli.due \ {w} # {}
      BY <2>3, <3>1, <3>2 DEF CliStates
    <3> QED BY <3>1, <3>2, <3>3 DEF CliStates, TypeOK
  <2> QED BY <2>1, <2>2, <2>3
<1>4. TypeOK'
  BY <1>1, <1>2, <1>3 DEF TypeOK
<1>5. NamedExists'
  BY <1>3 DEF NamedExists
<1>6. HealthOf(w)'
  BY <1>1, <1>2 DEF HealthOf, Is
<1>7. ASSUME NEW v \in Workstations, v # w PROVE HealthOf(v)'
  <2>1. HealthOf(v)
    BY ByWorkstation
  <2>2. row'[v] = row[v] /\ run'[v] = run[v] /\ (v \in working' => v \in working)
        /\ (v \in cli'.due => v \in cli.due)
    BY <1>1, <1>2, <1>3, <1>7
  <2> QED BY <2>1, <2>2 DEF HealthOf, Is
<1> QED BY <1>4, <1>5, <1>6, <1>7, ByWorkstationAfter

\* A row that is written without a change of its run.
LEMMA SameRun ==
  ASSUME HealthInv, NEW w \in Workstations, UNCHANGED run
  PROVE  RunChanges(w) /\ run'[w] = run[w] /\ run'[w] <= row[w].failures /\ row[w] \in Rows
BY RunChanging DEF HealthInv, TypeOK, RunCounted

-----------------------------------------------------------------------------
\* Workers

LEMMA ClaimHealth == ASSUME HealthInv, NEW w \in Workstations, Claim(w) PROVE HealthInv'
<1> DEFINE r == [row[w] EXCEPT !.status = "busy"]
<1>1. UNCHANGED <<run, banned, cli>> /\ Update(w, r) /\ working' = working \cup {w}
  BY DEF Claim, Update, HealthInv, TypeOK
<1>2. RunChanges(w) /\ run'[w] = run[w] /\ run'[w] <= row[w].failures /\ row[w] \in Rows
  BY <1>1, SameRun
<1>3. r \in Rows /\ r.status = "busy" /\ r.failures = row[w].failures
  BY <1>2 DEF Rows, Statuses
<1>4. run[w] < ConsecutiveLimit /\ w \notin cli.due
  BY DEF Claim, HealthInv, FailureRunStops, DueAreHeld, Is
<1>5. working' \subseteq Workstations
  BY <1>1 DEF HealthInv, TypeOK
<1> HIDE DEF r
<1> QED BY <1>1, <1>2, <1>3, <1>4, <1>5, OneRow

\* A report writes one row and takes its worker away.
LEMMA ReportedRow ==
  ASSUME HealthInv, NEW w \in Workstations, NEW r \in Rows, RunChanges(w),
         Unlocked, Update(w, r), run'[w] <= r.failures,
         working' = working \ {w}, UNCHANGED <<banned, cli>>,
         r.status \in {"healthy", "busy"} => run'[w] < ConsecutiveLimit
  PROVE  HealthInv'
<1>1. cli.due = {}
  BY DEF HealthInv, TypeOK, Unlocked
<1>2. working' \subseteq Workstations
  BY DEF HealthInv, TypeOK
<1> QED BY <1>1, <1>2, OneRow

LEMMA ReportHealth == ASSUME HealthInv, NEW w \in Workstations, Report(w) PROVE HealthInv'
<1>1. /\ Unlocked /\ w \in working /\ working' = working \ {w} /\ UNCHANGED <<banned, cli>>
      /\ TypeOK /\ row[w] \in Rows /\ run[w] \in 0..ConsecutiveLimit
      /\ run[w] < ConsecutiveLimit /\ run[w] <= row[w].failures
  BY DEF Report, HealthInv, TypeOK, WorkingRuns, RunCounted
<1>2. ASSUME NEW r \in Rows, Update(w, r), UNCHANGED run, row[w].failures <= r.failures
      PROVE  HealthInv'
  <2>1. run[w] <= r.failures
    BY <1>1, <1>2, RowFields
  <2>2. RunChanges(w) /\ run'[w] = run[w]
    BY <1>2, SameRun
  <2> QED BY <1>1, <1>2, <2>1, <2>2, ReportedRow
<1>3. CASE ReportSuccess(w)
  <2> DEFINE r == [Healthy(row[w]) EXCEPT !.failures = 0]
  <2>1. 0 \in 0..ConsecutiveLimit /\ 0 < ConsecutiveLimit
    BY LimitTypes
  <2>2. r \in Rows /\ r.failures = 0
    BY <1>1, <2>1, HealthyRow DEF Rows
  <2>3. Update(w, r) /\ RunChanges(w) /\ run'[w] = 0
    BY <1>3, <2>1, RunChanging DEF ReportSuccess
  <2> HIDE DEF r
  <2> QED BY <1>1, <2>1, <2>2, <2>3, ReportedRow
<1>4. CASE ReportDownloadFailed(w)
  BY <1>1, <1>2, <1>4, HealthyRow, RowFields DEF ReportDownloadFailed
<1>5. CASE ReportFailed(w)
  <2>1. Failed(w) \in Rows /\ row[w].failures <= Failed(w).failures
    BY <1>1, FailedRow
  <2> QED BY <1>2, <1>5, <2>1, HealthyRow DEF ReportFailed
<1>6. CASE ReportUnusual(w)
  BY <1>1, <1>2, <1>6, StruckRow, RowFields DEF ReportUnusual
<1>7. CASE ReportNeedsHuman(w)
  BY <1>1, <1>2, <1>7, HeldRow, RowFields DEF ReportNeedsHuman
<1>8. CASE ReportPageFailure(w)
  <2> DEFINE n == UpTo(ConsecutiveLimit, run[w] + 1)
  <2>1. n \in 0..ConsecutiveLimit /\ n <= Failures(w)
    BY <1>1, RowFields, LimitTypes DEF Failures, UpTo
  <2>2. RunChanges(w) /\ run'[w] = n
    BY <1>8, <2>1, RunChanging DEF ReportPageFailure
  <2>3. Failed(w) \in Rows /\ Failed(w).failures = Failures(w) /\ Failures(w) \in 0..ConsecutiveLimit
    BY <1>1, FailedRow
  <2>4. PICK windowFull \in BOOLEAN :
          Update(w, IF Enough(w, windowFull) THEN Resting(Failed(w))
                    ELSE [Failed(w) EXCEPT !.status = "healthy"])
    BY <1>8 DEF ReportPageFailure
  <2> HIDE DEF n
  <2>5. CASE Enough(w, windowFull)
    <3> DEFINE r == Resting(Failed(w))
    <3>1. r \in Rows /\ r.failures = Failures(w) /\ r.status \notin {"healthy", "busy"}
      BY <2>3, RestingRow
    <3>2. Update(w, r)
      BY <2>4, <2>5
    <3> HIDE DEF r
    <3> QED BY <1>1, <2>1, <2>2, <3>1, <3>2, ReportedRow
  <2>6. CASE ~Enough(w, windowFull)
    <3> DEFINE r == [Failed(w) EXCEPT !.status = "healthy"]
    <3>1. r \in Rows /\ r.failures = Failures(w)
      BY <2>3 DEF Rows, Statuses
    <3>2. n < ConsecutiveLimit
      BY <2>1, <2>3, <2>6, LimitTypes DEF Enough
    <3>3. Update(w, r)
      BY <2>4, <2>6
    <3> HIDE DEF r
    <3> QED BY <1>1, <2>1, <2>2, <3>1, <3>2, <3>3, ReportedRow
  <2> QED BY <2>5, <2>6
<1> QED BY <1>3, <1>4, <1>5, <1>6, <1>7, <1>8 DEF Report

LEMMA VanishHealth == ASSUME HealthInv, NEW w \in Workstations, Vanish(w) PROVE HealthInv'
<1>1. TypeOK' /\ NamedExists'
  BY DEF HealthInv, TypeOK, NamedExists, Vanish
<1>2. \A v \in Workstations : HealthOf(v)'
  BY ByWorkstation DEF HealthOf, Is, Vanish
<1> QED BY <1>1, <1>2, ByWorkstationAfter

-----------------------------------------------------------------------------
\* Recoveries

LEMMA RecoverCooldownsHealth == ASSUME HealthInv, RecoverCooldowns PROVE HealthInv'
<1> DEFINE back == {w \in Workstations : Is(w, {"cooldown"}) /\ row[w].timer = "elapsed"}
           returned(w) == [Healthy(row[w]) EXCEPT !.failures = 0]
<1>1. /\ row' = [w \in Workstations |-> IF w \in back THEN returned(w) ELSE row[w]]
      /\ run' = [w \in Workstations |-> IF w \in back THEN 0 ELSE run[w]]
      /\ UNCHANGED <<working, banned, cli>>
  BY DEF RecoverCooldowns
<1>2. cli.due = {}
  BY DEF RecoverCooldowns, HealthInv, TypeOK, Unlocked
<1>3. 0 \in 0..ConsecutiveLimit /\ 0 < ConsecutiveLimit
  BY LimitTypes
<1>4. \A w \in Workstations :
        returned(w) \in Rows /\ returned(w).failures = 0 /\ row[w] \in Rows
  BY <1>3, HealthyRow DEF HealthInv, TypeOK, Rows
<1> HIDE DEF returned
<1>5. TypeOK' /\ NamedExists'
  BY <1>1, <1>3, <1>4 DEF HealthInv, TypeOK, NamedExists
<1>6. ASSUME NEW w \in Workstations PROVE HealthOf(w)'
  <2>1. HealthOf(w)
    BY ByWorkstation
  <2>2. CASE w \in back
    <3>1. row'[w].failures = 0 /\ run'[w] = 0
      BY <1>1, <1>4, <2>2
    <3>2. ~OnBusyRows => w \notin working
      BY <2>1, <2>2 DEF HealthOf, Is
    <3> QED BY <1>1, <1>2, <1>3, <3>1, <3>2 DEF HealthOf
  <2>3. CASE w \notin back
    <3>1. row'[w] = row[w] /\ run'[w] = run[w]
      BY <1>1, <2>3
    <3> QED BY <1>1, <2>1, <3>1 DEF HealthOf, Is
  <2> QED BY <2>2, <2>3
<1> QED BY <1>5, <1>6, ByWorkstationAfter

LEMMA ReleaseOrphansHealth == ASSUME HealthInv, ReleaseOrphans PROVE HealthInv'
<1> DEFINE orphans == {w \in Workstations \ working : Is(w, {"busy"})}
           released(w) == [row[w] EXCEPT !.status = "healthy"]
<1>1. /\ row' = [w \in Workstations |-> IF w \in orphans THEN released(w) ELSE row[w]]
      /\ UNCHANGED <<run, working, banned, cli>>
  BY DEF ReleaseOrphans
<1>2. \A w \in Workstations :
        released(w) \in Rows /\ released(w).failures = row[w].failures /\ row[w] \in Rows
  BY DEF HealthInv, TypeOK, Rows, Statuses
<1> HIDE DEF released
<1>3. TypeOK' /\ NamedExists'
  BY <1>1, <1>2 DEF HealthInv, TypeOK, NamedExists
<1>4. ASSUME NEW w \in Workstations PROVE HealthOf(w)'
  <2>1. HealthOf(w)
    BY ByWorkstation
  <2>2. CASE w \in orphans
    <3>1. row'[w].failures = row[w].failures /\ run' = run /\ w \notin working'
      BY <1>1, <1>2, <2>2
    <3>2. run[w] < ConsecutiveLimit /\ w \notin cli.due
      BY <2>1, <2>2 DEF HealthOf, Is
    <3> QED BY <1>1, <2>1, <3>1, <3>2 DEF HealthOf
  <2>3. CASE w \notin orphans
    BY <1>1, <2>1, <2>3 DEF HealthOf, Is
  <2> QED BY <2>2, <2>3
<1> QED BY <1>3, <1>4, ByWorkstationAfter

-----------------------------------------------------------------------------
\* recover-banned

LEMMA BeginDueHealth == ASSUME HealthInv, BeginDue PROVE HealthInv'
<1>1. /\ cli' = [pc |-> "holding", on |-> None, verdict |-> FALSE, due |-> Due(row)]
      /\ Due(row) # {} /\ UNCHANGED <<row, run, working, banned>>
  BY DEF BeginDue, Idle
<1>2. Due(row) \subseteq Workstations
  BY DEF Due
<1>3. TypeOK' /\ NamedExists'
  BY <1>1, <1>2 DEF HealthInv, TypeOK, NamedExists, CliStates
<1>4. \A w \in Workstations : HealthOf(w)'
  BY <1>1, ByWorkstation DEF HealthOf, Is, Due
<1> QED BY <1>3, <1>4, ByWorkstationAfter

\* The row of a probe that found its page banned, or found no page.
LEMMA StillBannedHealth ==
  ASSUME HealthInv, NEW w \in Workstations, w \in cli.due, Update(w, StillBanned(row[w])),
         NextDue(w), UNCHANGED <<run, working, banned>>
  PROVE  HealthInv'
<1> DEFINE r == StillBanned(row[w])
<1>1. HealthOf(w) /\ TypeOK
  BY ByWorkstation DEF HealthInv
<1>2. RunChanges(w) /\ run'[w] = run[w] /\ run'[w] <= row[w].failures /\ row[w] \in Rows
  BY SameRun
<1>3. r \in Rows /\ r.status = "manual_check" /\ r.failures = row[w].failures
  BY <1>1, <1>2, StillBannedRow DEF HealthOf, Is
<1>4. Update(w, r) /\ working' \subseteq Workstations
  BY <1>1 DEF TypeOK
<1>5. w \in working => run[w] < ConsecutiveLimit /\ OnBusyRows
  BY <1>1 DEF HealthOf, Is, TypeOK
<1> HIDE DEF r
<1> QED BY <1>2, <1>3, <1>4, <1>5, OneRow

LEMMA ProbeDueHealth == ASSUME HealthInv, NEW w \in Workstations, ProbeDue(w) PROVE HealthInv'
<1>1. CASE banned[w]
  <2>1. run' = run
    BY <1>1 DEF ProbeDue, ForgetsRun, HealthInv, TypeOK
  <2> QED BY <1>1, <2>1, StillBannedHealth DEF ProbeDue, AfterProbe
<1>2. CASE ~banned[w]
  <2> DEFINE r == Cleared(row[w])
  <2>1. TypeOK /\ row[w] \in Rows /\ HealthOf(w)
    BY ByWorkstation DEF HealthInv, TypeOK
  <2>2. r \in Rows /\ r.failures = 0 /\ r.status = "healthy"
    BY <2>1, ClearedRow
  <2>3. RunChanges(w) /\ run'[w] = 0
    BY <1>2, RunChanging DEF ProbeDue
  <2>4. 0 \in 0..ConsecutiveLimit /\ 0 < ConsecutiveLimit
    BY LimitTypes
  <2>5. Update(w, r) /\ NextDue(w) /\ UNCHANGED <<working, banned>>
    BY <1>2 DEF ProbeDue, AfterProbe
  <2>6. w \notin cli'.due
    BY <2>1, <2>5 DEF NextDue, Idle, TypeOK, CliStates
  <2>7. w \in working => OnBusyRows
    BY <2>1 DEF ProbeDue, HealthOf, Is
  <2>8. working' \subseteq Workstations
    BY <2>1, <2>5 DEF TypeOK
  <2> HIDE DEF r
  <2> QED BY <2>2, <2>3, <2>4, <2>5, <2>6, <2>7, <2>8, OneRow
<1> QED BY <1>1, <1>2

LEMMA ProbeUnlistedHealth ==
  ASSUME HealthInv, NEW w \in Workstations, ProbeUnlisted(w) PROVE HealthInv'
BY StillBannedHealth DEF ProbeUnlisted

LEMMA ProbeRaisesHealth ==
  ASSUME HealthInv, NEW w \in Workstations, ProbeRaises(w) PROVE HealthInv'
<1>1. /\ cli' = (IF cli.due = {w} THEN Idle ELSE [cli EXCEPT !.due = @ \ {w}])
      /\ cli.pc = "holding" /\ w \in cli.due /\ UNCHANGED <<row, run, working, banned>>
  BY DEF ProbeRaises, NextDue
<1>2. TypeOK' /\ NamedExists' /\ cli'.due \subseteq cli.due
  BY <1>1 DEF HealthInv, TypeOK, NamedExists, CliStates, Idle
<1>3. \A v \in Workstations : HealthOf(v)'
  BY <1>1, <1>2, ByWorkstation DEF HealthOf, Is
<1> QED BY <1>2, <1>3, ByWorkstationAfter

LEMMA ProbeNamedHealth == ASSUME HealthInv, NEW w \in Workstations, ProbeNamed(w) PROVE HealthInv'
<1>1. /\ cli' = [pc |-> "probed", on |-> w, verdict |-> banned[w], due |-> {}]
      /\ cli = Idle /\ UNCHANGED <<row, run, working, banned>>
  BY DEF ProbeNamed, Idle
<1>2. TypeOK' /\ NamedExists'
  BY <1>1 DEF HealthInv, TypeOK, NamedExists, CliStates
<1>3. \A v \in Workstations : HealthOf(v)'
  BY <1>1, ByWorkstation DEF HealthOf, Is
<1> QED BY <1>2, <1>3, ByWorkstationAfter

\* The rows ApplyNamed goes over: the named one is due in them if it is held.
Forced ==
  [row EXCEPT ![cli.on].timer =
     IF row[cli.on].status = "manual_check" THEN "elapsed" ELSE @]

LEMMA ForcedRows ==
  ASSUME HealthInv, cli.pc = "probed"
  PROVE  /\ Forced \in [Workstations -> Rows]
         /\ \A w \in Workstations : /\ Forced[w].status = row[w].status
                                    /\ Forced[w].strikes = row[w].strikes
                                    /\ Forced[w].failures = row[w].failures
<1>1. cli.on \in Workstations /\ row \in [Workstations -> Rows]
  BY DEF HealthInv, NamedExists, TypeOK
<1>2. (IF row[cli.on].status = "manual_check" THEN "elapsed" ELSE row[cli.on].timer) \in Timers
  BY <1>1, RowFields DEF Timers
<1> QED BY <1>1, <1>2 DEF Forced, Rows

LEMMA ApplyNamedHealth == ASSUME HealthInv, ApplyNamed PROVE HealthInv'
<1> DEFINE due == Due(Forced)
           after(w) == AfterProbe(Forced[w], cli.verdict)
<1>1. /\ cli.pc = "probed" /\ cli' = Idle /\ UNCHANGED <<working, banned>>
      /\ row' = [w \in Workstations |-> IF w \in due THEN after(w) ELSE Forced[w]]
      /\ run' = [w \in Workstations |-> IF ~cli.verdict /\ w \in due THEN 0 ELSE run[w]]
  BY DEF ApplyNamed, Forced, ForgetsRun
<1>2. 0 \in 0..ConsecutiveLimit /\ 0 < ConsecutiveLimit
  BY LimitTypes
<1>3. \A w \in Workstations :
        /\ Forced[w] \in Rows /\ after(w) \in Rows
        /\ cli.verdict => after(w).status = Forced[w].status
                            /\ after(w).failures = Forced[w].failures
        /\ ~cli.verdict => after(w).failures = 0
  BY <1>1, ForcedRows, StillBannedRow, ClearedRow DEF AfterProbe
<1> HIDE DEF after
<1>4. TypeOK' /\ NamedExists'
  BY <1>1, <1>2, <1>3 DEF HealthInv, TypeOK, NamedExists, Idle, CliStates
<1>5. ASSUME NEW w \in Workstations PROVE HealthOf(w)'
  <2>1. HealthOf(w) /\ cli'.due = {}
    BY <1>1, ByWorkstation DEF Idle
  <2>2. Forced[w].status = row[w].status /\ Forced[w].failures = row[w].failures
    BY <1>1, ForcedRows
  <2>3. CASE w \in due
    <3>1. row[w].status = "manual_check" /\ (w \in working => OnBusyRows)
      BY <2>1, <2>2, <2>3 DEF Due, HealthOf, Is
    <3>2. CASE cli.verdict
      <4>1. /\ row'[w].status = "manual_check" /\ row'[w].failures = row[w].failures
            /\ run'[w] = run[w]
        BY <1>1, <1>3, <2>2, <2>3, <3>1, <3>2
      <4> QED BY <1>1, <2>1, <3>1, <4>1 DEF HealthOf, Is
    <3>3. CASE ~cli.verdict
      <4>1. row'[w].failures = 0 /\ run'[w] = 0
        BY <1>1, <1>3, <2>3, <3>3
      <4> QED BY <1>1, <1>2, <2>1, <3>1, <4>1 DEF HealthOf
    <3> QED BY <3>2, <3>3
  <2>4. CASE w \notin due
    <3>1. row'[w].status = row[w].status /\ row'[w].failures = row[w].failures /\ run'[w] = run[w]
      BY <1>1, <2>2, <2>4
    <3> QED BY <1>1, <2>1, <3>1 DEF HealthOf, Is
  <2> QED BY <2>3, <2>4
<1> QED BY <1>4, <1>5, ByWorkstationAfter

-----------------------------------------------------------------------------
\* Operators, time and the world

\* An operator writes a row that no worker holds, or may hold if it is free to.
LEMMA OperatorRow ==
  ASSUME HealthInv, NEW w \in Workstations, NEW r \in Rows, RunChanges(w),
         Free(w) \/ ~Is(w, {"busy"}), OperatorSets(w, r),
         run'[w] <= r.failures, run'[w] <= run[w],
         r.status \in {"healthy", "busy"} => run'[w] < ConsecutiveLimit
  PROVE  HealthInv'
<1>1. HealthOf(w) /\ TypeOK
  BY ByWorkstation DEF HealthInv
<1>2. Update(w, r) /\ UNCHANGED <<working, banned, cli>> /\ cli.due = {}
  BY <1>1 DEF OperatorSets, Unlocked, TypeOK
<1>3. w \in working => run'[w] < ConsecutiveLimit
  BY <1>1, LimitTypes DEF HealthOf, TypeOK, RunChanges
<1>4. w \in working => OnBusyRows
  BY <1>1 DEF HealthOf, Free, Is, TypeOK, LimitsOK
<1>5. working' \subseteq Workstations
  BY <1>1, <1>2 DEF TypeOK
<1> QED BY <1>2, <1>3, <1>4, <1>5, OneRow

LEMMA OperatesHealth == ASSUME HealthInv, NEW w \in Workstations, Operates(w) PROVE HealthInv'
<1>1. /\ 0 \in 0..ConsecutiveLimit /\ 0 < ConsecutiveLimit /\ row[w] \in Rows
      /\ run \in [Workstations -> 0..ConsecutiveLimit] /\ 0 <= run[w]
      /\ run[w] <= row[w].failures
  BY LimitTypes DEF HealthInv, TypeOK, RunCounted
<1>2. /\ ForgetsRun({w}) => RunChanges(w) /\ run'[w] = 0
      /\ UNCHANGED run => RunChanges(w) /\ run'[w] = run[w]
  BY RunChanging
<1>3. CASE HardRevive(w)
  BY <1>1, <1>2, <1>3, ClearedRow, OperatorRow DEF HardRevive
<1>4. CASE StartNurturing(w)
  <2> DEFINE r == [Cleared(row[w]) EXCEPT !.status = "nurturing"]
  <2>1. r \in Rows /\ r.failures = 0 /\ r.status = "nurturing"
    BY <1>1, ClearedRow DEF Rows, Statuses
  <2>2. OperatorSets(w, r) /\ ~Is(w, {"busy"}) /\ RunChanges(w) /\ run'[w] = 0
    BY <1>2, <1>4 DEF StartNurturing, Is
  <2> HIDE DEF r
  <2> QED BY <1>1, <2>1, <2>2, OperatorRow
<1>5. CASE Disable(w)
  <2> DEFINE r == [row[w] EXCEPT !.status = "disabled", !.timer = "none"]
  <2>1. r \in Rows /\ r.failures = row[w].failures /\ r.status = "disabled"
    BY <1>1 DEF Rows, Statuses, Timers
  <2>2. OperatorSets(w, r) /\ ~Is(w, {"busy"}) /\ RunChanges(w) /\ run'[w] = run[w]
    BY <1>2, <1>5 DEF Disable
  <2> HIDE DEF r
  <2> QED BY <1>1, <2>1, <2>2, OperatorRow
<1>6. CASE SoftRevive(w)
  <2> DEFINE s == IF row[w].status \in {"cooldown", "busy"} THEN "healthy" ELSE row[w].status
             r == [row[w] EXCEPT !.status = s, !.timer = "none", !.failures = 0]
  <2>1. s \in Statuses
    BY <1>1, RowFields DEF Statuses
  <2>2. r \in Rows /\ r.failures = 0
    BY <1>1, <2>1 DEF Rows, Timers
  <2>3. OperatorSets(w, r) /\ Free(w) /\ RunChanges(w) /\ run'[w] = 0
    BY <1>2, <1>6 DEF SoftRevive
  <2> HIDE DEF r
  <2> QED BY <1>1, <2>2, <2>3, OperatorRow
<1>7. CASE NoFlowAccess(w)
  <2> DEFINE r == [row[w] EXCEPT !.status = "manual_check", !.timer = "none"]
  <2>1. r \in Rows /\ r.failures = row[w].failures /\ r.status = "manual_check"
    BY <1>1 DEF Rows, Statuses, Timers
  <2>2. OperatorSets(w, r) /\ Free(w) /\ RunChanges(w) /\ run'[w] = run[w]
    BY <1>2, <1>7 DEF NoFlowAccess
  <2> HIDE DEF r
  <2> QED BY <1>1, <2>1, <2>2, OperatorRow
<1> QED BY <1>3, <1>4, <1>5, <1>6, <1>7 DEF Operates

LEMMA TimerElapsesHealth ==
  ASSUME HealthInv, NEW w \in Workstations, TimerElapses(w) PROVE HealthInv'
<1>1. /\ row' \in [Workstations -> Rows] /\ UNCHANGED <<run, working, banned, cli>>
      /\ \A v \in Workstations : row'[v].status = row[v].status /\ row'[v].failures = row[v].failures
  BY DEF TimerElapses, HealthInv, TypeOK, Rows, Timers
<1>2. TypeOK' /\ NamedExists'
  BY <1>1 DEF HealthInv, TypeOK, NamedExists
<1>3. \A v \in Workstations : HealthOf(v)'
  BY <1>1, ByWorkstation DEF HealthOf, Is
<1> QED BY <1>2, <1>3, ByWorkstationAfter

LEMMA BanChangesHealth ==
  ASSUME HealthInv, NEW w \in Workstations, BanChanges(w) PROVE HealthInv'
<1>1. banned' \in [Workstations -> BOOLEAN] /\ UNCHANGED <<row, run, working, cli>>
  BY DEF BanChanges, HealthInv, TypeOK
<1>2. TypeOK' /\ NamedExists'
  BY <1>1 DEF HealthInv, TypeOK, NamedExists
<1>3. \A v \in Workstations : HealthOf(v)'
  BY <1>1, ByWorkstation DEF HealthOf, Is
<1> QED BY <1>2, <1>3, ByWorkstationAfter

-----------------------------------------------------------------------------
\* The invariant holds

LEMMA InitHealth == ASSUME Init PROVE HealthInv
<1>1. TypeOK
  BY LimitTypes DEF Init, TypeOK, Rows, Statuses, Timers, CliStates, Idle
<1>2. NamedExists /\ DueAreHeld /\ WorkingRuns /\ WorkingBusy
  BY DEF Init, Idle, NamedExists, DueAreHeld, WorkingRuns, WorkingBusy
<1>3. RunCounted /\ FailureRunStops
  BY LimitTypes DEF Init, RunCounted, FailureRunStops
<1> QED BY <1>1, <1>2, <1>3 DEF HealthInv

LEMMA HealthStep == ASSUME HealthInv, [Next]_vars PROVE HealthInv'
<1>1. CASE UNCHANGED vars
  BY <1>1 DEF vars, HealthInv, TypeOK, NamedExists, DueAreHeld, RunCounted, WorkingRuns,
              FailureRunStops, WorkingBusy, Is
<1>2. CASE Recoveries
  BY <1>2, RecoverCooldownsHealth, ReleaseOrphansHealth DEF Recoveries
<1>3. CASE Cron
  BY <1>3, BeginDueHealth, ProbeDueHealth, ProbeUnlistedHealth, ProbeRaisesHealth
  DEF Cron, Answers
<1>4. CASE ApplyNamed
  BY <1>4, ApplyNamedHealth
<1>5. ASSUME NEW w \in Workstations,
             \/ Claim(w) \/ Report(w) \/ Vanish(w) \/ ProbeNamed(w) \/ Operates(w)
             \/ TimerElapses(w) \/ BanChanges(w)
      PROVE  HealthInv'
  BY <1>5, ClaimHealth, ReportHealth, VanishHealth, ProbeNamedHealth, OperatesHealth,
     TimerElapsesHealth, BanChangesHealth
<1> QED BY <1>1, <1>2, <1>3, <1>4, <1>5 DEF Next

LEMMA HealthHolds == Spec => []HealthInv
<1>1. HealthInv /\ [Next]_vars => HealthInv'
  BY HealthStep
<1>2. Init => HealthInv
  BY InitHealth
<1> QED BY <1>1, <1>2, PTL DEF Spec

\* Every row, counter and transaction of recover-banned keeps its type; in
\* particular no column leaves the range its counter is compared in.
THEOREM HealthTypeCorrect == Spec => []TypeOK
<1>1. HealthInv => TypeOK
  BY DEF HealthInv
<1> QED BY <1>1, HealthHolds, PTL

\* A workstation with ConsecutiveLimit page failures in a row is neither available
\* nor in use until a cooldown, a probe or an operator ended the run, also where
\* operators revive rows under a running worker (state.py:126-144, 218-240).
THEOREM FailureRunStopsKept == Spec => []FailureRunStops
<1>1. HealthInv => FailureRunStops
  BY DEF HealthInv
<1> QED BY <1>1, HealthHolds, PTL

-----------------------------------------------------------------------------
\* The lifecycle

LEMMA StandingByStatus ==
  ASSUME NEW r \in Rows
  PROVE  /\ r.status = "healthy" => Standing(r) = "available"
         /\ r.status = "busy" => Standing(r) = "working"
         /\ r.status = "cooldown" => Standing(r) = "resting"
         /\ r.status = "manual_check" => Standing(r) = "held"
         /\ r.status \in {"nurturing", "disabled"} => Standing(r) = "parked"
BY DEF Standing

\* A step that writes one row changes one entry of the lifecycle.
LEMMA OneMapped ==
  ASSUME HealthInv, NEW w \in Workstations, NEW r, Update(w, r)
  PROVE  /\ StandingOf' = [StandingOf EXCEPT ![w] = Standing(r)]
         /\ CountOf' = [CountOf EXCEPT ![w] = r.strikes]
         /\ StandingOf[w] = Standing(row[w]) /\ CountOf[w] = row[w].strikes
         /\ r.strikes = row[w].strikes => UNCHANGED CountOf
<1>1. row' = [row EXCEPT ![w] = r] /\ DOMAIN row = Workstations
  BY DEF Update, HealthInv, TypeOK
<1>2. \A v \in Workstations : row'[v] = IF v = w THEN r ELSE row[v]
  BY <1>1
<1> QED BY <1>2 DEF StandingOf, CountOf

\* A row written as it stands is no step of the lifecycle.
LEMMA SameStanding ==
  ASSUME HealthInv, \A w \in Workstations : /\ Standing(row'[w]) = Standing(row[w])
                                            /\ row'[w].strikes = row[w].strikes
  PROVE  UNCHANGED <<StandingOf, CountOf>>
BY DEF StandingOf, CountOf

LEMMA InitMapped == Init => Lifecycle!Init
<1> SUFFICES ASSUME Init PROVE Lifecycle!Init
  OBVIOUS
<1>1. \A w \in Workstations : row[w] \in Rows /\ row[w].status = "healthy" /\ row[w].strikes = 0
  BY InitHealth DEF Init, HealthInv, TypeOK
<1>2. \A w \in Workstations : Standing(row[w]) = "available" /\ row[w].strikes = 0
  BY <1>1, StandingByStatus
<1> QED BY <1>2 DEF StandingOf, CountOf, Lifecycle!Init

LEMMA ClaimMapped ==
  ASSUME HealthInv, NEW w \in Workstations, Claim(w) PROVE Lifecycle!Assign(w)
<1> DEFINE r == [row[w] EXCEPT !.status = "busy"]
<1>1. row[w] \in Rows /\ Update(w, r) /\ row[w].status = "healthy"
  BY DEF Claim, Is, Update, HealthInv, TypeOK
<1>2. r \in Rows /\ r.status = "busy" /\ r.strikes = row[w].strikes
  BY <1>1 DEF Rows, Statuses
<1> HIDE DEF r
<1>3. /\ Standing(row[w]) = "available" /\ Standing(r) = "working"
      /\ r.strikes = row[w].strikes
  BY <1>1, <1>2, StandingByStatus
<1>4. CountOf' = CountOf
  BY <1>1, <1>3, OneMapped
<1> QED BY <1>1, <1>3, <1>4, OneMapped DEF Lifecycle!Assign, Lifecycle!Moves, Lifecycle!Keeps

LEMMA ReportMapped ==
  ASSUME HealthInv, ~OnBusyRows, NEW w \in Workstations, Report(w)
  PROVE  Lifecycle!Report(w) \/ Lifecycle!Warn(w) \/ Lifecycle!Hold(w)
<1>1. TypeOK /\ row[w] \in Rows /\ row[w].status = "busy"
  BY DEF Report, HealthInv, TypeOK, WorkingBusy, Is
<1>2. Standing(row[w]) = "working"
  BY <1>1, StandingByStatus
<1>3. ASSUME NEW r \in Rows, Update(w, r), r.status \in {"healthy", "cooldown"},
             r.strikes = row[w].strikes
      PROVE  Lifecycle!Report(w)
  <2>1. Standing(r) \in {"available", "resting"} /\ r.strikes = row[w].strikes
    BY <1>2, <1>3, StandingByStatus
  <2>2. CountOf' = CountOf
    BY <1>3, <2>1, OneMapped
  <2> QED BY <1>2, <1>3, <2>1, <2>2, OneMapped
          DEF Lifecycle!Report, Lifecycle!Moves, Lifecycle!Keeps
<1>4. ASSUME NEW r \in Rows, Update(w, r), r.status = "manual_check", r.strikes = 0
      PROVE  Lifecycle!Hold(w)
  <2>1. Standing(r) = "held"
    BY <1>4, StandingByStatus
  <2> QED BY <1>2, <1>4, <2>1, OneMapped DEF Lifecycle!Hold, Lifecycle!Moves, Lifecycle!Forgets
<1>5. ASSUME NEW r \in Rows, Update(w, r), r.status = "cooldown",
             row[w].strikes + 1 < MaxStrikes, r.strikes = row[w].strikes + 1
      PROVE  Lifecycle!Warn(w)
  <2>1. Standing(r) = "resting" /\ r.strikes = row[w].strikes + 1
    BY <1>5, StandingByStatus
  <2>2. CountOf[w] = row[w].strikes /\ StandingOf[w] = "working"
    BY <1>2, <1>5, OneMapped
  <2> QED BY <1>5, <2>1, <2>2, OneMapped DEF Lifecycle!Warn, Lifecycle!Moves
<1>6. CASE ReportSuccess(w)
  <2> DEFINE r == [Healthy(row[w]) EXCEPT !.failures = 0]
  <2>1. 0 \in 0..ConsecutiveLimit
    BY LimitTypes
  <2>2. r \in Rows /\ r.status = "healthy" /\ r.strikes = row[w].strikes
    BY <1>1, <2>1, HealthyRow DEF Rows
  <2>3. Update(w, r)
    BY <1>6 DEF ReportSuccess
  <2> HIDE DEF r
  <2> QED BY <1>3, <2>2, <2>3
<1>7. CASE ReportDownloadFailed(w)
  BY <1>1, <1>3, <1>7, HealthyRow DEF ReportDownloadFailed
<1>8. CASE ReportFailed(w)
  BY <1>1, <1>3, <1>8, FailedRow, HealthyRow DEF ReportFailed
<1>9. CASE ReportUnusual(w)
  BY <1>1, <1>4, <1>5, <1>9, StruckRow DEF ReportUnusual
<1>10. CASE ReportNeedsHuman(w)
  BY <1>1, <1>4, <1>10, HeldRow DEF ReportNeedsHuman
<1>11. CASE ReportPageFailure(w)
  <2>1. Failed(w) \in Rows /\ Failed(w).strikes = row[w].strikes
    BY <1>1, FailedRow
  <2>2. [Failed(w) EXCEPT !.status = "healthy"] \in Rows
    BY <2>1 DEF Rows, Statuses
  <2>3. /\ [Failed(w) EXCEPT !.status = "healthy"].status = "healthy"
        /\ [Failed(w) EXCEPT !.status = "healthy"].strikes = row[w].strikes
    BY <2>1 DEF Rows
  <2>4. \/ Update(w, Resting(Failed(w)))
        \/ Update(w, [Failed(w) EXCEPT !.status = "healthy"])
    BY <1>11 DEF ReportPageFailure
  <2> QED BY <1>3, <2>1, <2>2, <2>3, <2>4, RestingRow
<1> QED BY <1>6, <1>7, <1>8, <1>9, <1>10, <1>11 DEF Report

\* A round of recovery: the rows of ws become available, the others stay.
LEMMA RoundMapped ==
  ASSUME HealthInv, NEW ws \in SUBSET Workstations, NEW from,
         \A w \in ws : Standing(row[w]) = from /\ Standing(row'[w]) = "available",
         \A w \in Workstations \ ws : /\ Standing(row'[w]) = Standing(row[w])
                                      /\ row'[w].strikes = row[w].strikes
  PROVE  /\ Lifecycle!BackFrom(from, ws)
         /\ (\A w \in ws : row'[w].strikes = row[w].strikes) => CountOf' = CountOf
         /\ (\A w \in ws : row'[w].strikes = 0) =>
              CountOf' = [w \in Workstations |-> IF w \in ws THEN 0 ELSE CountOf[w]]
BY DEF StandingOf, CountOf, Lifecycle!BackFrom

Mapped == <<StandingOf, CountOf>>

LEMMA RecoveriesMapped == ASSUME HealthInv, Recoveries PROVE Lifecycle!Next
<1>1. CASE RecoverCooldowns
  <2> DEFINE back == {w \in Workstations : Is(w, {"cooldown"}) /\ row[w].timer = "elapsed"}
             returned(w) == [Healthy(row[w]) EXCEPT !.failures = 0]
  <2>1. row' = [w \in Workstations |-> IF w \in back THEN returned(w) ELSE row[w]]
    BY <1>1 DEF RecoverCooldowns
  <2>2. 0 \in 0..ConsecutiveLimit /\ \A w \in Workstations : row[w] \in Rows
    BY LimitTypes DEF HealthInv, TypeOK
  <2>3. \A w \in Workstations : /\ returned(w) \in Rows /\ returned(w).status = "healthy"
                                /\ returned(w).strikes = row[w].strikes
    BY <2>2, HealthyRow DEF Rows
  <2> HIDE DEF returned
  <2>4. \A w \in back : /\ Standing(row[w]) = "resting" /\ Standing(row'[w]) = "available"
                        /\ row'[w].strikes = row[w].strikes
    BY <2>1, <2>2, <2>3, StandingByStatus DEF Is
  <2>5. \A w \in Workstations \ back : row'[w] = row[w]
    BY <2>1
  <2>6. back \in SUBSET Workstations
    OBVIOUS
  <2> HIDE DEF back
  <2>7. Lifecycle!BackFrom("resting", back) /\ CountOf' = CountOf
    BY <2>4, <2>5, <2>6, RoundMapped
  <2> QED BY <2>6, <2>7 DEF Lifecycle!Next, Lifecycle!Return, Lifecycle!Keeps
<1>2. CASE ReleaseOrphans
  <2> DEFINE orphans == {w \in Workstations \ working : Is(w, {"busy"})}
             released(w) == [row[w] EXCEPT !.status = "healthy"]
  <2>1. row' = [w \in Workstations |-> IF w \in orphans THEN released(w) ELSE row[w]]
    BY <1>2 DEF ReleaseOrphans
  <2>2. \A w \in Workstations : row[w] \in Rows
    BY DEF HealthInv, TypeOK
  <2>3. \A w \in Workstations : /\ released(w) \in Rows /\ released(w).status = "healthy"
                                /\ released(w).strikes = row[w].strikes
    BY <2>2 DEF Rows, Statuses
  <2> HIDE DEF released
  <2>4. \A w \in orphans : /\ Standing(row[w]) = "working" /\ Standing(row'[w]) = "available"
                           /\ row'[w].strikes = row[w].strikes
    BY <2>1, <2>2, <2>3, StandingByStatus DEF Is
  <2>5. \A w \in Workstations \ orphans : row'[w] = row[w]
    BY <2>1
  <2>6. orphans \in SUBSET Workstations
    OBVIOUS
  <2> HIDE DEF orphans
  <2>7. Lifecycle!BackFrom("working", orphans) /\ CountOf' = CountOf
    BY <2>4, <2>5, <2>6, RoundMapped
  <2> QED BY <2>6, <2>7 DEF Lifecycle!Next, Lifecycle!Release, Lifecycle!Keeps
<1> QED BY <1>1, <1>2 DEF Recoveries

\* Probes of ws that find a ban, or no page: each row stays held, and counts it or
\* has reached the top.
LEMMA FailMapped ==
  ASSUME HealthInv, NEW ws \in SUBSET Workstations,
         \A w \in ws : /\ Standing(row[w]) = "held" /\ Standing(row'[w]) = "held"
                       /\ row'[w].strikes \in {row[w].strikes, row[w].strikes + 1},
         \A w \in Workstations \ ws : /\ Standing(row'[w]) = Standing(row[w])
                                      /\ row'[w].strikes = row[w].strikes
  PROVE  Lifecycle!FailProbe(ws)
<1> DEFINE counted == {w \in ws : row'[w].strikes = row[w].strikes + 1}
<1>1. \A w \in Workstations : row[w].strikes \in Nat
  BY RowFields, LimitTypes DEF HealthInv, TypeOK
<1>2. \A w \in Workstations :
        row'[w].strikes = IF w \in counted THEN row[w].strikes + 1 ELSE row[w].strikes
  BY <1>1
<1>3. counted \in SUBSET ws
  OBVIOUS
<1> HIDE DEF counted
<1>4. CountOf' = [w \in Workstations |-> IF w \in counted THEN CountOf[w] + 1 ELSE CountOf[w]]
  BY <1>2 DEF CountOf
<1>5. UNCHANGED StandingOf /\ \A w \in ws : StandingOf[w] = "held"
  BY DEF StandingOf
<1> QED BY <1>3, <1>4, <1>5 DEF Lifecycle!FailProbe

LEMMA StillBannedMapped ==
  ASSUME HealthInv, NEW w \in Workstations, row[w].status = "manual_check",
         Update(w, StillBanned(row[w]))
  PROVE  Lifecycle!Next
<1>1. row[w] \in Rows /\ row \in [Workstations -> Rows]
  BY DEF HealthInv, TypeOK
<1>2. /\ StillBanned(row[w]) \in Rows /\ StillBanned(row[w]).status = "manual_check"
      /\ StillBanned(row[w]).strikes \in {row[w].strikes, row[w].strikes + 1}
  BY <1>1, StillBannedRow
<1>3. row'[w] = StillBanned(row[w]) /\ \A v \in Workstations \ {w} : row'[v] = row[v]
  BY <1>1 DEF Update
<1>4. Standing(row[w]) = "held" /\ Standing(row'[w]) = "held"
  BY <1>1, <1>2, <1>3, StandingByStatus
<1>5. {w} \in SUBSET Workstations
  OBVIOUS
<1>6. Lifecycle!FailProbe({w})
  BY <1>2, <1>3, <1>4, <1>5, FailMapped
<1> QED BY <1>5, <1>6 DEF Lifecycle!Next

LEMMA CronMapped == ASSUME HealthInv, Cron PROVE Lifecycle!Next \/ UNCHANGED Mapped
<1>1. CASE BeginDue
  BY <1>1 DEF BeginDue, Mapped, StandingOf, CountOf
<1>2. ASSUME NEW w \in Workstations, w \in cli.due PROVE row[w] \in Rows /\ row[w].status = "manual_check"
  BY <1>2 DEF HealthInv, TypeOK, DueAreHeld, Is
<1>3. ASSUME NEW w \in Workstations, ProbeUnlisted(w) PROVE Lifecycle!Next
  BY <1>2, <1>3, StillBannedMapped DEF ProbeUnlisted
<1>4. ASSUME NEW w \in Workstations, ProbeDue(w), banned[w] PROVE Lifecycle!Next
  BY <1>2, <1>4, StillBannedMapped DEF ProbeDue, AfterProbe
<1>5. ASSUME NEW w \in Workstations, ProbeDue(w), ~banned[w] PROVE Lifecycle!Next
  <2>1. Update(w, Cleared(row[w])) /\ row[w] \in Rows /\ row[w].status = "manual_check"
    BY <1>2, <1>5 DEF ProbeDue, AfterProbe
  <2>2. row' = [row EXCEPT ![w] = Cleared(row[w])] /\ row \in [Workstations -> Rows]
    BY <2>1 DEF Update, HealthInv, TypeOK
  <2>3. row'[w] = Cleared(row[w]) /\ \A v \in Workstations \ {w} : row'[v] = row[v]
    BY <2>2
  <2>4. /\ Standing(row[w]) = "held" /\ Standing(row'[w]) = "available"
        /\ row'[w].strikes = 0
    BY <2>1, <2>3, ClearedRow, StandingByStatus
  <2>5. {w} \in SUBSET Workstations
    OBVIOUS
  <2>6. Lifecycle!Parole({w})
    BY <2>3, <2>4, <2>5, RoundMapped DEF Lifecycle!Parole
  <2> QED BY <2>5, <2>6 DEF Lifecycle!Next
<1>6. ASSUME NEW w \in Workstations, ProbeRaises(w) PROVE UNCHANGED Mapped
  BY <1>6 DEF ProbeRaises, Mapped, StandingOf, CountOf
<1> QED BY <1>1, <1>3, <1>4, <1>5, <1>6 DEF Cron, Answers

LEMMA ApplyNamedMapped ==
  ASSUME HealthInv, ApplyNamed PROVE Lifecycle!Next
<1> DEFINE due == Due(Forced)
           after(w) == AfterProbe(Forced[w], cli.verdict)
<1>1. /\ cli.pc = "probed"
      /\ row' = [w \in Workstations |-> IF w \in due THEN after(w) ELSE Forced[w]]
  BY DEF ApplyNamed, Forced
<1>2. \A w \in Workstations : /\ Forced[w] \in Rows /\ row[w] \in Rows
                              /\ Forced[w].status = row[w].status
                              /\ Forced[w].strikes = row[w].strikes
  BY <1>1, ForcedRows DEF HealthInv, TypeOK
<1>3. \A w \in Workstations \ due : /\ Standing(row'[w]) = Standing(row[w])
                                    /\ row'[w].strikes = row[w].strikes
  BY <1>1, <1>2 DEF Standing
<1>4. due \in SUBSET Workstations /\ \A w \in due : row[w].status = "manual_check"
  BY <1>2 DEF Due
<1>5. \A w \in due : Standing(row[w]) = "held"
  BY <1>2, <1>4, StandingByStatus
<1>6. CASE cli.verdict
  <2>1. \A w \in due : /\ after(w) \in Rows /\ after(w).status = "manual_check"
                       /\ after(w).strikes \in {row[w].strikes, row[w].strikes + 1}
    BY <1>2, <1>4, <1>6, StillBannedRow DEF AfterProbe
  <2>2. \A w \in due : row'[w] = after(w)
    BY <1>1, <1>4
  <2> HIDE DEF due, after
  <2>3. \A w \in due : Standing(row'[w]) = "held"
    BY <2>1, <2>2, StandingByStatus
  <2>4. Lifecycle!FailProbe(due)
    BY <1>3, <1>4, <1>5, <2>1, <2>2, <2>3, FailMapped
  <2> QED BY <1>4, <2>4 DEF Lifecycle!Next
<1>7. CASE ~cli.verdict
  <2>1. \A w \in due : after(w) \in Rows /\ after(w).status = "healthy" /\ after(w).strikes = 0
    BY <1>2, <1>4, <1>7, ClearedRow DEF AfterProbe
  <2>2. \A w \in due : row'[w] = after(w)
    BY <1>1, <1>4
  <2> HIDE DEF due, after
  <2>3. \A w \in due : Standing(row'[w]) = "available" /\ row'[w].strikes = 0
    BY <2>1, <2>2, StandingByStatus
  <2>4. Lifecycle!Parole(due)
    BY <1>3, <1>4, <1>5, <2>3, RoundMapped DEF Lifecycle!Parole
  <2> QED BY <1>4, <2>4 DEF Lifecycle!Next
<1> QED BY <1>6, <1>7

LEMMA OperatesMapped ==
  ASSUME HealthInv, ~OnBusyRows, NEW w \in Workstations, Operates(w)
  PROVE  Lifecycle!Next \/ UNCHANGED Mapped
<1>1. row[w] \in Rows /\ row[w].status \in Statuses \ {"busy"} /\ 0 \in 0..ConsecutiveLimit
  BY LimitTypes, RowFields DEF Operates, HardRevive, StartNurturing, Disable, SoftRevive,
     NoFlowAccess, Free, Is, HealthInv, TypeOK
<1>2. Standing(row[w]) \in Lifecycle!Standings \ {"working"}
  BY <1>1, StandingByStatus DEF Statuses, Lifecycle!Standings
<1>3. CASE HardRevive(w)
  <2>1. Update(w, Cleared(row[w]))
    BY <1>3 DEF HardRevive, OperatorSets
  <2>2. Standing(Cleared(row[w])) = "available" /\ Cleared(row[w]).strikes = 0
    BY <1>1, ClearedRow, StandingByStatus
  <2>3. Lifecycle!Reinstate(w)
    BY <1>2, <2>1, <2>2, OneMapped DEF Lifecycle!Reinstate, Lifecycle!Moves, Lifecycle!Forgets
  <2> QED BY <2>3 DEF Lifecycle!Next
<1>4. ASSUME NEW r \in Rows, Update(w, r), r.status \in {"nurturing", "disabled"},
             row[w].status \in {"healthy", "cooldown", "manual_check"},
             r.strikes = 0 \/ r.strikes = row[w].strikes
      PROVE  Lifecycle!Next
  <2>1. /\ Standing(r) = "parked"
        /\ Standing(row[w]) \in {"available", "resting", "held"}
    BY <1>1, <1>4, StandingByStatus
  <2>2. Lifecycle!Park(w)
    BY <1>4, <2>1, OneMapped
       DEF Lifecycle!Park, Lifecycle!Moves, Lifecycle!Forgets, Lifecycle!Keeps
  <2> QED BY <2>2 DEF Lifecycle!Next
<1>5. CASE StartNurturing(w)
  <2> DEFINE r == [Cleared(row[w]) EXCEPT !.status = "nurturing"]
  <2>1. r \in Rows /\ r.status = "nurturing" /\ r.strikes = 0
    BY <1>1, ClearedRow DEF Rows, Statuses
  <2>2. Update(w, r) /\ row[w].status \in {"healthy", "cooldown", "manual_check"}
    BY <1>5 DEF StartNurturing, OperatorSets, Is
  <2> HIDE DEF r
  <2> QED BY <1>4, <2>1, <2>2
<1>6. ASSUME NEW r \in Rows, Update(w, r), Standing(r) = Standing(row[w]),
             r.strikes = row[w].strikes
      PROVE  UNCHANGED Mapped
  <2>1. \A v \in Workstations : row'[v] = IF v = w THEN r ELSE row[v]
    BY <1>6 DEF Update, HealthInv, TypeOK
  <2> QED BY <1>6, <2>1, SameStanding DEF Mapped
<1>7. CASE Disable(w)
  <2> DEFINE r == [row[w] EXCEPT !.status = "disabled", !.timer = "none"]
  <2>1. r \in Rows /\ r.status = "disabled" /\ r.strikes = row[w].strikes
    BY <1>1 DEF Rows, Statuses, Timers
  <2>2. Update(w, r)
    BY <1>7 DEF Disable, OperatorSets
  <2> HIDE DEF r
  <2>3. CASE row[w].status \in {"healthy", "cooldown", "manual_check"}
    BY <1>4, <2>1, <2>2, <2>3
  <2>4. CASE row[w].status \in {"nurturing", "disabled"}
    BY <1>1, <1>6, <2>1, <2>2, <2>4, StandingByStatus
  <2> QED BY <1>1, <2>3, <2>4 DEF Statuses
<1>8. CASE SoftRevive(w)
  <2> DEFINE s == IF row[w].status \in {"cooldown", "busy"} THEN "healthy" ELSE row[w].status
             r == [row[w] EXCEPT !.status = s, !.timer = "none", !.failures = 0]
  <2>1. s \in Statuses
    BY <1>1, RowFields DEF Statuses
  <2>2. r \in Rows /\ r.status = s /\ r.strikes = row[w].strikes
    BY <1>1, <2>1 DEF Rows, Timers
  <2>3. Update(w, r)
    BY <1>8 DEF SoftRevive, OperatorSets
  <2> HIDE DEF r
  <2>4. CASE row[w].status = "cooldown"
    <3>1. /\ Standing(row[w]) = "resting" /\ Standing(r) = "available"
          /\ r.strikes = row[w].strikes
      BY <1>1, <2>2, <2>4, StandingByStatus
    <3>2. {w} \in SUBSET Workstations
      OBVIOUS
    <3>3. row'[w] = r /\ \A v \in Workstations \ {w} : row'[v] = row[v]
      BY <2>3 DEF Update, HealthInv, TypeOK
    <3>4. Lifecycle!BackFrom("resting", {w}) /\ CountOf' = CountOf
      BY <3>1, <3>2, <3>3, RoundMapped
    <3> QED BY <3>2, <3>4 DEF Lifecycle!Next, Lifecycle!Return, Lifecycle!Keeps
  <2>5. CASE row[w].status # "cooldown"
    <3>1. r.status = row[w].status
      BY <1>1, <2>2, <2>5
    <3>2. Standing(r) = Standing(row[w]) /\ r.strikes = row[w].strikes
      BY <2>2, <3>1 DEF Standing
    <3> QED BY <1>6, <2>2, <2>3, <3>2
  <2> QED BY <2>4, <2>5
<1>9. CASE NoFlowAccess(w)
  <2> DEFINE r == [row[w] EXCEPT !.status = "manual_check", !.timer = "none"]
  <2>1. r \in Rows /\ r.status = "manual_check" /\ r.strikes = row[w].strikes
    BY <1>1 DEF Rows, Statuses, Timers
  <2>2. Update(w, r)
    BY <1>9 DEF NoFlowAccess, OperatorSets
  <2> HIDE DEF r
  <2>3. Standing(r) = "held"
    BY <2>1, StandingByStatus
  <2>4. Lifecycle!Bar(w)
    BY <1>2, <2>1, <2>2, <2>3, OneMapped DEF Lifecycle!Bar, Lifecycle!Moves, Lifecycle!Keeps
  <2> QED BY <2>4 DEF Lifecycle!Next
<1> QED BY <1>3, <1>5, <1>7, <1>8, <1>9 DEF Operates

LEMMA TimerElapsesMapped ==
  ASSUME HealthInv, NEW w \in Workstations, TimerElapses(w) PROVE UNCHANGED Mapped
<1>1. \A v \in Workstations : row'[v].status = row[v].status /\ row'[v].strikes = row[v].strikes
  BY DEF TimerElapses, HealthInv, TypeOK, Rows
<1>2. \A v \in Workstations : /\ Standing(row'[v]) = Standing(row[v])
                              /\ row'[v].strikes = row[v].strikes
  BY <1>1 DEF Standing
<1> QED BY <1>2, SameStanding DEF Mapped

LEMMA MappedStep ==
  ASSUME HealthInv, ~OnBusyRows, [Next]_vars PROVE [Lifecycle!Next]_Mapped
<1>1. ASSUME UNCHANGED row PROVE UNCHANGED Mapped
  BY <1>1 DEF Mapped, StandingOf, CountOf
<1>2. ASSUME NEW w \in Workstations,
             \/ Claim(w) \/ Report(w) \/ Vanish(w) \/ ProbeNamed(w) \/ Operates(w)
             \/ TimerElapses(w) \/ BanChanges(w)
      PROVE  Lifecycle!Next \/ UNCHANGED Mapped
  <2>1. CASE Claim(w)
    BY <2>1, ClaimMapped DEF Lifecycle!Next
  <2>2. CASE Report(w)
    BY <2>2, ReportMapped DEF Lifecycle!Next
  <2>3. CASE Vanish(w) \/ ProbeNamed(w) \/ BanChanges(w)
    BY <1>1, <2>3 DEF Vanish, ProbeNamed, BanChanges
  <2>4. CASE Operates(w) \/ TimerElapses(w)
    BY <2>4, OperatesMapped, TimerElapsesMapped
  <2> QED BY <1>2, <2>1, <2>2, <2>3, <2>4
<1> QED BY <1>1, <1>2, RecoveriesMapped, CronMapped, ApplyNamedMapped DEF Next, vars

\* Where no operator takes a busy row from its worker, every transaction of the
\* workers, the recoveries, recover-banned and the operators is a step of the
\* lifecycle or none that it sees (state.py, workstations/repository.py, cli.py).
THEOREM LifecycleImplemented == ASSUME ~OnBusyRows PROVE Spec => ImplementsLifecycle
<1>1. HealthInv /\ [Next]_vars => [Lifecycle!Next]_Mapped
  BY MappedStep
<1> QED BY <1>1, InitMapped, HealthHolds, PTL DEF Spec, ImplementsLifecycle, Lifecycle!Spec, Mapped
=============================================================================
