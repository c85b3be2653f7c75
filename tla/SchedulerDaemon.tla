-------------------------- MODULE SchedulerDaemon --------------------------
(***************************************************************************)
(* The scheduler's thread and the two calls that start and stop it         *)
(* (app/scheduler/daemon.py).  A pass of run_multi_workstation is what     *)
(* Dispatch models; here it is the workers it has, and that it goes on     *)
(* until there is nothing left to claim: it never looks at the stop event. *)
(***************************************************************************)
EXTENDS Browsers

VARIABLES
  sched,     \* _thread and _stop_event
  loop,      \* where each daemon thread is
  claimed,   \* the workers: the thread whose pass has one, and the workstation
  queue      \* the claims that the task queue still has to give

daemonVars == <<sched, loop, claimed, queue>>

\* "none" before start and after the thread's end, "head" of the loop or in the wait
\* between two passes, in a "pass"
Places == {"none", "head", "pass"}

DaemonTypeOK ==
  /\ sched \in [thread : Threads \cup {None}, stop : BOOLEAN]
  /\ loop \in [Threads -> Places]
  /\ claimed \subseteq Threads \X Workstations
  /\ queue \in Nat

Alive(t) == t # None /\ loop[t] # "none"
IsRunning == Alive(sched.thread)

\* start(): nothing if is_running; the thread is made in a step of its own.
MustSpawnUnlessHeard == ~(IsRunning /\ ~sched.stop)
MustSpawn == ~IsRunning
NewThread == CHOOSE t \in Threads : ~Alive(t)
Spawn ==
  LET t == NewThread IN
  /\ \E u \in Threads : ~Alive(u)
  /\ sched' = [thread |-> t, stop |-> FALSE]
  /\ loop' = [loop EXCEPT ![t] = "head"]
  /\ UNCHANGED <<claimed, queue>>

\* stop(): the event is set for whichever thread is the current one.
SignalStop == sched' = [sched EXCEPT !.stop = TRUE] /\ UNCHANGED <<loop, claimed, queue>>

Goes(t, from, to) == loop[t] = from /\ loop' = [loop EXCEPT ![t] = to]

-----------------------------------------------------------------------------
\* _run

\* The loop's condition, after the poll interval or at once when the event is set.
NextPass(t) ==
  /\ Goes(t, "head", IF sched.stop THEN "none" ELSE "pass")
  /\ UNCHANGED <<sched, claimed, queue, row, chrome>>

\* The listing of the workstations, or reading the mode, raises: _run catches it
\* outside its loop and the thread ends.
DaemonDies(t) ==
  /\ Goes(t, "head", "none")
  /\ UNCHANGED <<sched, claimed, queue, row, chrome>>

Claim(t, w) ==
  /\ loop[t] = "pass" /\ queue > 0
  /\ row[w] = "ready" /\ <<t, w>> \notin claimed
  /\ Becomes(w, "busy")
  /\ claimed' = claimed \cup {<<t, w>>}
  /\ queue' = queue - 1
  /\ UNCHANGED <<sched, loop, chrome>>

\* PlaywrightFlowPort.open in the worker's thread
WorkerOpens(t, w) ==
  /\ <<t, w>> \in claimed /\ ~HasChrome(w, t)
  /\ Launch(w, t)
  /\ UNCHANGED <<sched, loop, claimed, queue, row>>

\* The worker ends, with its browser or without, and writes its workstation's row.
WorkerEnds(t, w) ==
  /\ <<t, w>> \in claimed
  /\ claimed' = claimed \ {<<t, w>>}
  /\ chrome' = chrome \ {[by |-> t, on |-> w]}
  /\ IF row[w] = "absent" THEN UNCHANGED row
     ELSE \E r \in {"ready", "resting", "held"} : Becomes(w, r)
  /\ UNCHANGED <<sched, loop, queue>>

Claimable == queue > 0 /\ \E w \in Workstations : row[w] = "ready"

\* claim_one finds nothing and no future is left.
PassEnds(t) ==
  /\ ~Claimable
  /\ \A w \in Workstations : <<t, w>> \notin claimed
  /\ Goes(t, "pass", IF sched.stop THEN "none" ELSE "head")
  /\ UNCHANGED <<sched, claimed, queue, row, chrome>>

\* A cooldown ends: the recovery that a pass begins with.
CooldownEnds(t, w) ==
  /\ loop[t] = "pass" /\ row[w] = "resting"
  /\ Becomes(w, "ready")
  /\ UNCHANGED <<sched, loop, claimed, queue, chrome>>

ThreadStep(t) ==
  \/ NextPass(t) \/ PassEnds(t)
  \/ \E w \in Workstations : Claim(t, w)
WorkerStep(t, w) == WorkerOpens(t, w) \/ WorkerEnds(t, w)
=============================================================================
