------------------------------- MODULE Console -------------------------------
(***************************************************************************)
(* The web console's process: the scheduler's thread, the login windows,   *)
(* the requests that start and stop both, and the process's own start and  *)
(* shutdown (app/web/server.py, app/web/routes/scheduler.py, login.py and  *)
(* workstations.py).                                                       *)
(*                                                                         *)
(* A request is two steps, what it looks at and what it then does; the     *)
(* joins between them end with the thread or with their timeout, so the    *)
(* second step may come at any time.                                       *)
(***************************************************************************)
EXTENDS SchedulerDaemon, LoginSession

CONSTANTS
  Requests,    \* request threads: with one, the operators' clicks do not overlap
  Careful,     \* TRUE if operators log in to, revive, delete and create a workstation
               \* only while no worker has it or may get it and no other window is open
  Queue        \* claims in the task queue when the process starts

ASSUME ConsoleOK == Careful \in BOOLEAN /\ Queue \in Nat

VARIABLES
  req,         \* what each request thread has looked at and is about to do
  life         \* the process

vars == <<row, chrome, sched, loop, claimed, queue, session, registry, req, life>>

Ops == {"start", "stop", "login", "cancel", "delete", "remove"}
NoReq == [op |-> "none", on |-> None, known |-> None]

TypeOK ==
  /\ row \in [Workstations -> Rows]
  /\ chrome \subseteq [by : Owners, on : Workstations]
  /\ DaemonTypeOK /\ LoginTypeOK
  /\ req \in [Requests -> [ op : Ops \cup {"none"}, on : Workstations \cup {None},
                            known : Sessions \cup {None} ]]
  /\ life \in [pc : {"up", "stopping", "cancelling", "down"}, todo : SUBSET Sessions]

Up == life.pc = "up"
Down == [pc |-> "down", todo |-> {}]

Idle == [thread |-> None, stop |-> FALSE]
NoLoop == [t \in Threads |-> "none"]
NoSessions == [s \in Sessions |-> NoSession]
NoneKnown == [w \in Workstations |-> None]
NoReqs == [r \in Requests |-> NoReq]

Init ==
  /\ row = [w \in Workstations |-> "new"]
  /\ chrome = {}
  /\ queue = Queue
  /\ sched = Idle /\ loop = NoLoop /\ claimed = {}
  /\ session = NoSessions /\ registry = NoneKnown
  /\ req = NoReqs
  /\ life = Down

-----------------------------------------------------------------------------
\* The process

\* lifespan: the startup reset frees the busy workstations, the daemon is started.
Boot ==
  /\ life = Down
  /\ life' = [life EXCEPT !.pc = "up"]
  /\ row' = [w \in Workstations |-> IF row[w] = "busy" THEN "ready" ELSE row[w]]
  /\ Spawn
  /\ UNCHANGED <<chrome, session, registry, req>>

\* The threads end with the process, their browsers may stay.
Exits ==
  /\ sched' = Idle /\ loop' = NoLoop /\ claimed' = {}
  /\ session' = NoSessions /\ registry' = NoneKnown
  /\ req' = NoReqs
  /\ \E left \in SUBSET Workstations :
       chrome' = {[by |-> Orphan, on |-> w] : w \in {v \in left : \E c \in chrome : c.on = v}}
  /\ life' = Down
  /\ UNCHANGED <<row, queue>>

Crash == life # Down /\ Exits

\* The end of lifespan: daemon.stop, then registry.cancel_all, each with a timeout.
BeginShutdown ==
  /\ Up /\ \A r \in Requests : req[r] = NoReq
  /\ life' = [life EXCEPT !.pc = "stopping"]
  /\ IF IsRunning THEN SignalStop ELSE UNCHANGED daemonVars
  /\ UNCHANGED <<row, chrome, session, registry, req>>
DaemonJoined ==
  /\ life.pc = "stopping"
  /\ life' = [pc |-> "cancelling", todo |-> {s \in Sessions : Registered(s)}]
  /\ UNCHANGED <<row, chrome, sched, loop, claimed, queue, session, registry, req>>
CancelNext(s) ==
  /\ s \in life.todo
  /\ life' = [life EXCEPT !.todo = @ \ {s}]
  /\ session' = Told({s})
  /\ UNCHANGED <<row, chrome, sched, loop, claimed, queue, registry, req>>
\* The scheduler's thread and the windows' are daemon threads; the workers of its pool
\* are not, and the interpreter waits for them before it ends.
ProcessEnds == life.pc = "cancelling" /\ life.todo = {} /\ claimed = {} /\ Exits

-----------------------------------------------------------------------------
\* The requests

Unused(w) ==
  /\ row[w] \in {"absent", "new", "held"}
  /\ ~ \E t \in Threads : <<t, w>> \in claimed
  /\ ~ \E s \in Sessions : Running(s) /\ session[s].ws = w
  /\ ~ \E r \in Requests : req[r].on = w

\* What a request looks at before it does anything.
Asks(op, w) ==
  CASE op = "start" -> MustSpawn
    [] op = "stop" -> IsRunning
    [] op = "login" -> row[w] # "absent" /\ ~Running(registry[w]) /\ (Careful => Unused(w))
    [] op = "cancel" -> Running(registry[w])
    [] op = "delete" -> row[w] # "absent" /\ (Careful => row[w] \in {"new", "held"})

Ask(r, op, w) ==
  /\ Up /\ req[r] = NoReq
  /\ Asks(op, w)
  /\ req' = [req EXCEPT ![r] =
       [ op |-> IF op = "delete" /\ registry[w] = None THEN "remove" ELSE op,
         on |-> IF op \in {"start", "stop"} THEN None ELSE w,
         known |-> IF op \in {"cancel", "delete"} THEN registry[w] ELSE None ]]
  /\ UNCHANGED <<row, chrome, sched, loop, claimed, queue, session, registry, life>>

Does(r, op) == req[r].op = op /\ req' = [req EXCEPT ![r] = NoReq]

DoStart(r) ==
  /\ Does(r, "start")
  /\ Spawn
  /\ UNCHANGED <<row, chrome, session, registry, life>>
DoStop(r) ==
  /\ Does(r, "stop") /\ SignalStop
  /\ UNCHANGED <<row, chrome, session, registry, life>>
DoLogin(r) ==
  /\ Does(r, "login")
  /\ Begin(req[r].on)
  /\ UNCHANGED <<row, chrome, sched, loop, claimed, queue, life>>
DoCancel(r) ==
  /\ Does(r, "cancel")
  /\ session' = Told({req[r].known})
  /\ UNCHANGED <<row, chrome, sched, loop, claimed, queue, registry, life>>

\* delete_route: the window is told to close, after five seconds it is forgotten,
\* and the row is deleted.
DoDelete(r) ==
  /\ req[r].op = "delete"
  /\ session' = Told({req[r].known})
  /\ req' = [req EXCEPT ![r].op = "remove"]
  /\ UNCHANGED <<row, chrome, sched, loop, claimed, queue, registry, life>>
DoRemove(r) ==
  /\ Does(r, "remove")
  /\ registry' = IF req[r].known = None THEN registry ELSE [registry EXCEPT ![req[r].on] = None]
  /\ Becomes(req[r].on, "absent")
  /\ UNCHANGED <<chrome, sched, loop, claimed, queue, session, life>>

\* create_route, and "back to service" of the workstation's page
Create(w) ==
  /\ Up /\ row[w] = "absent" /\ (Careful => Unused(w))
  /\ Becomes(w, "new")
  /\ UNCHANGED <<chrome, sched, loop, claimed, queue, session, registry, req, life>>
Revive(w) ==
  /\ Up /\ row[w] \in {"resting", "held"} /\ (Careful => Unused(w))
  /\ Becomes(w, "ready")
  /\ UNCHANGED <<chrome, sched, loop, claimed, queue, session, registry, req, life>>

Do(r) == DoStart(r) \/ DoStop(r) \/ DoLogin(r) \/ DoCancel(r) \/ DoDelete(r) \/ DoRemove(r)

-----------------------------------------------------------------------------
Daemon(t) ==
  /\ \/ ThreadStep(t) \/ DaemonDies(t)
     \/ \E w \in Workstations : WorkerStep(t, w) \/ CooldownEnds(t, w)
  /\ UNCHANGED <<session, registry, req, life>>
Login(s) == (SessionStep(s) \/ OperatorActs(s)) /\ UNCHANGED <<daemonVars, req, life>>

Next ==
  \/ Boot \/ Crash \/ BeginShutdown \/ DaemonJoined \/ ProcessEnds
  \/ \E t \in Threads : Daemon(t)
  \/ \E s \in Sessions : Login(s) \/ CancelNext(s)
  \/ \E w \in Workstations : Create(w) \/ Revive(w)
  \/ \E r \in Requests : Do(r) \/ \E op \in Ops \ {"remove"}, w \in Workstations : Ask(r, op, w)

Spec == Init /\ [][Next]_vars

\* Threads go on as long as the process lives; operators owe nothing once they have
\* clicked, and a process that was shut down or died need not come back.
Fairness ==
  /\ \A t \in Threads : WF_vars(ThreadStep(t) /\ UNCHANGED <<loginVars, req, life>>)
  /\ \A t \in Threads, w \in Workstations :
       WF_vars(WorkerEnds(t, w) /\ UNCHANGED <<loginVars, req, life>>)
  /\ \A s \in Sessions : WF_vars(SessionStep(s) /\ UNCHANGED <<daemonVars, req, life>>)
  /\ \A s \in Sessions : WF_vars(CancelNext(s))
  /\ \A r \in Requests : WF_vars(Do(r))
  /\ WF_vars(DaemonJoined) /\ WF_vars(ProcessEnds)

FairSpec == Spec /\ Fairness
=============================================================================
