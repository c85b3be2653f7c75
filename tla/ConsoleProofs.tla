---------------------------- MODULE ConsoleProofs ----------------------------
(***************************************************************************)
(* Theorems about the console, for every number of workstations, threads,  *)
(* windows and queued tasks: one scheduler, as long as clicks do not       *)
(* overlap; and no launch kills a browser that somebody needs, as long as  *)
(* the operators are careful and no profile's path contains another's,     *)
(* however many requests overlap.                                          *)
(***************************************************************************)
EXTENDS ConsoleProperties, TLAPS

-----------------------------------------------------------------------------
\* Type correctness

\* A window's thread has a workstation, and so has a request about one.
WindowsPlaced == \A s \in Sessions : Running(s) => session[s].ws \in Workstations
RequestsPlaced ==
  \A r \in Requests : req[r].op \notin {"none", "start", "stop"} => req[r].on \in Workstations

Shape == TypeOK /\ WindowsPlaced /\ RequestsPlaced

LEMMA RowsKept ==
  ASSUME row \in [Workstations -> Rows], NEW w, NEW r \in Rows, Becomes(w, r)
  PROVE  /\ row' \in [Workstations -> Rows]
         /\ \A v \in Workstations : row'[v] = IF v = w THEN r ELSE row[v]
BY DEF Becomes

LEMMA BrowsersType ==
  ASSUME chrome \subseteq [by : Owners, on : Workstations], NEW w, NEW o
  PROVE  /\ Spared(w) \subseteq [by : Owners, on : Workstations]
         /\ Without(o) \subseteq [by : Owners, on : Workstations]
         /\ w \in Workstations /\ o \in Owners /\ Launch(w, o)
              => chrome' \subseteq [by : Owners, on : Workstations]
BY DEF Spared, Without, Launch

\* A new thread is one that does not live.
LEMMA SpawnsNew ==
  ASSUME DaemonTypeOK, Spawn
  PROVE  /\ DaemonTypeOK' /\ NewThread \in Threads /\ ~Alive(NewThread)
         /\ sched' = [thread |-> NewThread, stop |-> FALSE]
         /\ loop' = [loop EXCEPT ![NewThread] = "head"]
         /\ UNCHANGED <<claimed, queue>>
<1>1. NewThread \in Threads /\ ~Alive(NewThread)
  BY DEF Spawn, NewThread
<1> QED BY <1>1 DEF Spawn, DaemonTypeOK, Places

\* A new window gets an identity that no window has.
LEMMA BeginsNew ==
  ASSUME LoginTypeOK, NEW w \in Workstations, Begin(w)
  PROVE  /\ LoginTypeOK'
         /\ \E s \in Sessions : /\ ~Running(s)
              /\ session' = [session EXCEPT ![s] = [ws |-> w, pc |-> "opening", stop |-> FALSE]]
              /\ registry' = [registry EXCEPT ![w] = s]
<1> DEFINE s == CHOOSE x \in Sessions : Free(x, w)
<1>1. s \in Sessions /\ Free(s, w)
  BY DEF Begin
<1> HIDE DEF s
<1>2. /\ session' = [session EXCEPT ![s] = [ws |-> w, pc |-> "opening", stop |-> FALSE]]
      /\ registry' = [registry EXCEPT ![w] = s]
  BY DEF Begin, s
<1> QED BY <1>1, <1>2 DEF LoginTypeOK, SessionRow, Free

\* Being told to stop changes nothing else.
LEMMA ToldKeeps ==
  ASSUME LoginTypeOK, NEW ss
  PROVE  /\ Told(ss) \in [Sessions -> SessionRow]
         /\ \A s \in Sessions : Told(ss)[s].ws = session[s].ws /\ Told(ss)[s].pc = session[s].pc
         /\ \A s \in Sessions : ~Told(ss)[s].stop => ~session[s].stop
<1> SUFFICES ASSUME NEW s \in Sessions
             PROVE  /\ Told(ss)[s] \in SessionRow
                    /\ Told(ss)[s].ws = session[s].ws /\ Told(ss)[s].pc = session[s].pc
                    /\ ~Told(ss)[s].stop => ~session[s].stop
  <2>1. Told(ss) = [s \in Sessions |-> Told(ss)[s]]
    BY DEF Told
  <2> QED BY <2>1
<1>1. session[s] \in SessionRow
  BY DEF LoginTypeOK
<1>2. Told(ss)[s] = session[s] \/ Told(ss)[s] = [session[s] EXCEPT !.stop = TRUE]
  BY DEF Told
<1> QED BY <1>1, <1>2 DEF SessionRow

LEMMA InitShape == Init => Shape
BY ConsoleOK, BrowsersOK
   DEF Init, Shape, TypeOK, DaemonTypeOK, LoginTypeOK, WindowsPlaced, RequestsPlaced, Rows, Idle,
       NoLoop, NoSessions, NoSession, NoneKnown, NoReqs, NoReq, Down, Places, SessionRow, Running,
       ConsoleOK, BrowsersOK

LEMMA ProcessShape ==
  ASSUME Shape, \/ Boot \/ Crash \/ BeginShutdown \/ DaemonJoined \/ ProcessEnds
                \/ \E s \in Sessions : CancelNext(s)
  PROVE  Shape'
<1>1. CASE Boot
  <2>1. DaemonTypeOK'
    BY <1>1, SpawnsNew DEF Boot, Shape, TypeOK
  <2>2. row' \in [Workstations -> Rows]
    BY <1>1 DEF Boot, Shape, TypeOK, Rows
  <2>3. life' \in [pc : {"up", "stopping", "cancelling", "down"}, todo : SUBSET Sessions]
    BY <1>1 DEF Boot, Shape, TypeOK
  <2> QED BY <1>1, <2>1, <2>2, <2>3
          DEF Boot, Shape, TypeOK, LoginTypeOK, WindowsPlaced, RequestsPlaced, Running
<1>2. CASE Exits
  <2>1. chrome' \subseteq [by : Owners, on : Workstations]
    BY <1>2 DEF Exits, Owners
  <2>2. /\ DaemonTypeOK' /\ LoginTypeOK' /\ WindowsPlaced'
    BY <1>2 DEF Exits, Shape, TypeOK, DaemonTypeOK, LoginTypeOK, WindowsPlaced, Idle, NoLoop,
                NoSessions, NoSession, NoneKnown, Places, SessionRow, Running
  <2>3. /\ row' \in [Workstations -> Rows]
        /\ req' \in [Requests -> [ op : Ops \cup {"none"}, on : Workstations \cup {None},
                                   known : Sessions \cup {None} ]]
        /\ life' \in [pc : {"up", "stopping", "cancelling", "down"}, todo : SUBSET Sessions]
        /\ RequestsPlaced'
    BY <1>2 DEF Exits, Shape, TypeOK, NoReqs, NoReq, Down, RequestsPlaced
  <2> QED BY <2>1, <2>2, <2>3 DEF Shape, TypeOK
<1>3. CASE BeginShutdown
  <2>1. DaemonTypeOK'
    BY <1>3 DEF BeginShutdown, SignalStop, daemonVars, Shape, TypeOK, DaemonTypeOK
  <2>2. life' \in [pc : {"up", "stopping", "cancelling", "down"}, todo : SUBSET Sessions]
    BY <1>3 DEF BeginShutdown, Shape, TypeOK
  <2> QED BY <1>3, <2>1, <2>2
          DEF BeginShutdown, Shape, TypeOK, LoginTypeOK, WindowsPlaced, RequestsPlaced, Running
<1>4. CASE DaemonJoined
  BY <1>4 DEF DaemonJoined, Shape, TypeOK, DaemonTypeOK, LoginTypeOK, WindowsPlaced, RequestsPlaced,
              Running
<1>5. CASE \E s \in Sessions : CancelNext(s)
  <2>1. PICK s \in Sessions : CancelNext(s)
    BY <1>5
  <2>2. LoginTypeOK' /\ WindowsPlaced'
    BY <2>1, ToldKeeps DEF CancelNext, Shape, TypeOK, LoginTypeOK, WindowsPlaced, Running
  <2>3. life' \in [pc : {"up", "stopping", "cancelling", "down"}, todo : SUBSET Sessions]
    BY <2>1 DEF CancelNext, Shape, TypeOK
  <2> QED BY <2>1, <2>2, <2>3 DEF CancelNext, Shape, TypeOK, DaemonTypeOK, RequestsPlaced
<1> QED BY <1>1, <1>2, <1>3, <1>4, <1>5 DEF Crash, ProcessEnds

LEMMA DaemonShape ==
  ASSUME Shape, NEW t \in Threads, Daemon(t)
  PROVE  Shape'
<1>1. row \in [Workstations -> Rows] /\ chrome \subseteq [by : Owners, on : Workstations]
      /\ DaemonTypeOK
  BY DEF Shape, TypeOK
<1>2. DaemonTypeOK'
  <2>1. CASE ThreadStep(t) \/ DaemonDies(t)
    <3>1. CASE NextPass(t) \/ PassEnds(t) \/ DaemonDies(t)
      BY <1>1, <3>1 DEF NextPass, PassEnds, DaemonDies, Goes, DaemonTypeOK, Places
    <3>2. ASSUME NEW w \in Workstations, Claim(t, w) PROVE DaemonTypeOK'
      BY <1>1, <3>2 DEF Claim, DaemonTypeOK
    <3> QED BY <2>1, <3>1, <3>2 DEF ThreadStep
  <2>2. ASSUME NEW w \in Workstations, WorkerStep(t, w) \/ CooldownEnds(t, w) PROVE DaemonTypeOK'
    BY <1>1, <2>2 DEF WorkerStep, WorkerOpens, WorkerEnds, CooldownEnds, DaemonTypeOK
  <2> QED BY <2>1, <2>2 DEF Daemon
<1>3. row' \in [Workstations -> Rows]
  <2>1. CASE ThreadStep(t) \/ DaemonDies(t)
    BY <1>1, <2>1, RowsKept DEF ThreadStep, NextPass, PassEnds, Claim, DaemonDies, Rows
  <2>2. ASSUME NEW w \in Workstations, WorkerStep(t, w) \/ CooldownEnds(t, w)
        PROVE  row' \in [Workstations -> Rows]
    BY <1>1, <2>2, RowsKept DEF WorkerStep, WorkerOpens, WorkerEnds, CooldownEnds, Rows
  <2> QED BY <2>1, <2>2 DEF Daemon
<1>4. chrome' \subseteq [by : Owners, on : Workstations]
  <2>1. CASE ThreadStep(t) \/ DaemonDies(t)
    BY <1>1, <2>1 DEF ThreadStep, NextPass, PassEnds, Claim, DaemonDies
  <2>2. ASSUME NEW w \in Workstations, WorkerStep(t, w) \/ CooldownEnds(t, w)
        PROVE  chrome' \subseteq [by : Owners, on : Workstations]
    BY <1>1, <2>2, BrowsersType DEF WorkerStep, WorkerOpens, WorkerEnds, CooldownEnds, Owners
  <2> QED BY <2>1, <2>2 DEF Daemon
<1> QED BY <1>2, <1>3, <1>4
        DEF Daemon, Shape, TypeOK, LoginTypeOK, WindowsPlaced, RequestsPlaced, Running

\* A window's thread goes on, on the same workstation, or ends.
LEMMA WindowMoves ==
  ASSUME Shape, NEW s \in Sessions, SessionStep(s) \/ OperatorActs(s)
  PROVE  /\ Running(s) /\ session[s].ws \in Workstations
         /\ UNCHANGED registry
         /\ \/ UNCHANGED session
            \/ session' = [session EXCEPT ![s] = NoSession]
            \/ \E pc \in {"watching", "settling", "language"} :
                 session' = [session EXCEPT ![s].pc = pc]
<1>0. s # None
  BY BrowsersOK DEF BrowsersOK
<1>1. Running(s)
  BY <1>0 DEF SessionStep, OperatorActs, OpenBrowser, OpenFails, WatchStops, WindowGone, Capture,
          CaptureFails, LanguageDone, SeesNoAccess, SeesProject, OperatorCloses, Watching, At, Running
<1>2. UNCHANGED registry
  BY DEF SessionStep, OperatorActs, OpenBrowser, OpenFails, WatchStops, WindowGone, Capture,
         CaptureFails, LanguageDone, SeesNoAccess, SeesProject, OperatorCloses
<1>3. \/ UNCHANGED session
      \/ session' = [session EXCEPT ![s] = NoSession]
      \/ \E pc \in {"watching", "settling", "language"} : session' = [session EXCEPT ![s].pc = pc]
  BY DEF SessionStep, OperatorActs, OpenBrowser, OpenFails, WatchStops, WindowGone, Capture,
         CaptureFails, LanguageDone, SeesNoAccess, SeesProject, OperatorCloses, Ends, Moves
<1> QED BY <1>1, <1>2, <1>3 DEF Shape, WindowsPlaced

LEMMA LoginShape ==
  ASSUME Shape, NEW s \in Sessions, Login(s)
  PROVE  Shape'
<1>1. row \in [Workstations -> Rows] /\ chrome \subseteq [by : Owners, on : Workstations]
      /\ LoginTypeOK /\ (SessionStep(s) \/ OperatorActs(s))
      /\ Running(s) /\ session[s].ws \in Workstations
  BY WindowMoves DEF Shape, TypeOK, Login
<1>2. LoginTypeOK' /\ WindowsPlaced'
  <2>1. UNCHANGED registry
    BY <1>1, WindowMoves
  <2>2. CASE UNCHANGED session
    BY <2>1, <2>2 DEF Shape, TypeOK, LoginTypeOK, WindowsPlaced, Running
  <2>3. CASE session' = [session EXCEPT ![s] = NoSession]
    BY <1>1, <2>1, <2>3 DEF Shape, LoginTypeOK, WindowsPlaced, NoSession, SessionRow, Running
  <2>4. CASE \E pc \in {"watching", "settling", "language"} :
               session' = [session EXCEPT ![s].pc = pc]
    BY <1>1, <2>1, <2>4 DEF Shape, LoginTypeOK, WindowsPlaced, SessionRow, Running
  <2> QED BY <1>1, <2>2, <2>3, <2>4, WindowMoves
<1>3. row' \in [Workstations -> Rows]
  <2>1. Captured(row[session[s].ws]) \in Rows
    BY <1>1 DEF Captured, Rows
  <2> QED BY <1>1, <2>1, RowsKept
          DEF SessionStep, OperatorActs, OpenBrowser, OpenFails, WatchStops, WindowGone, Capture,
              CaptureFails, LanguageDone, SeesNoAccess, SeesProject, OperatorCloses, Rows
<1>4. chrome' \subseteq [by : Owners, on : Workstations]
  BY <1>1, BrowsersType
     DEF SessionStep, OperatorActs, OpenBrowser, OpenFails, WatchStops, WindowGone, Capture,
         CaptureFails, LanguageDone, SeesNoAccess, SeesProject, OperatorCloses, Ends, Owners
<1> QED BY <1>2, <1>3, <1>4
        DEF Login, daemonVars, Shape, TypeOK, DaemonTypeOK, RequestsPlaced

LEMMA RequestShape ==
  ASSUME Shape,
         \/ \E r \in Requests : Do(r) \/ \E op \in Ops \ {"remove"}, w \in Workstations : Ask(r, op, w)
         \/ \E w \in Workstations : Create(w) \/ Revive(w)
  PROVE  Shape'
<1> DEFINE Request == [ op : Ops \cup {"none"}, on : Workstations \cup {None},
                        known : Sessions \cup {None} ]
<1>1. row \in [Workstations -> Rows] /\ DaemonTypeOK /\ LoginTypeOK /\ req \in [Requests -> Request]
  BY DEF Shape, TypeOK
<1>2. ASSUME NEW w \in Workstations, Create(w) \/ Revive(w) PROVE Shape'
  <2>1. row' \in [Workstations -> Rows]
    BY <1>1, <1>2, RowsKept DEF Create, Revive, Rows
  <2> QED BY <1>2, <2>1 DEF Create, Revive, Shape, TypeOK, DaemonTypeOK, LoginTypeOK, WindowsPlaced,
                            RequestsPlaced, Running
<1>3. ASSUME NEW r \in Requests, NEW op \in Ops \ {"remove"}, NEW w \in Workstations, Ask(r, op, w)
      PROVE  Shape'
  <2> DEFINE q == [ op |-> IF op = "delete" /\ registry[w] = None THEN "remove" ELSE op,
                    on |-> IF op \in {"start", "stop"} THEN None ELSE w,
                    known |-> IF op \in {"cancel", "delete"} THEN registry[w] ELSE None ]
  <2>1. q \in Request /\ (q.op \notin {"start", "stop"} => q.on \in Workstations)
    BY <1>1 DEF LoginTypeOK, Ops
  <2>2. req' = [req EXCEPT ![r] = q]
    BY <1>3 DEF Ask
  <2> HIDE DEF q
  <2>3. req' \in [Requests -> Request] /\ RequestsPlaced'
    BY <1>1, <2>1, <2>2 DEF Shape, RequestsPlaced
  <2> QED BY <1>3, <2>3 DEF Ask, Shape, TypeOK, DaemonTypeOK, LoginTypeOK, WindowsPlaced, Running
<1>4. ASSUME NEW r \in Requests, Do(r) PROVE Shape'
  <2>1. req' \in [Requests -> Request] /\ RequestsPlaced'
    BY <1>1, <1>4 DEF Do, DoStart, DoStop, DoLogin, DoCancel, DoDelete, DoRemove, Does, NoReq, Ops,
                      Shape, RequestsPlaced
  <2>2. DaemonTypeOK'
    BY <1>1, <1>4, SpawnsNew
       DEF Do, DoStart, DoStop, DoLogin, DoCancel, DoDelete, DoRemove, SignalStop, DaemonTypeOK
  <2>3. LoginTypeOK' /\ WindowsPlaced'
    <3>1. CASE DoLogin(r)
      <4>1. req[r].on \in Workstations /\ Begin(req[r].on)
        BY <3>1 DEF DoLogin, Does, Shape, RequestsPlaced
      <4>2. PICK s \in Sessions :
              session' = [session EXCEPT ![s] = [ws |-> req[r].on, pc |-> "opening", stop |-> FALSE]]
        BY <1>1, <4>1, BeginsNew
      <4> QED BY <1>1, <4>1, <4>2, BeginsNew DEF Shape, WindowsPlaced, LoginTypeOK, Running
    <3>2. CASE DoCancel(r) \/ DoDelete(r)
      BY <1>1, <3>2, ToldKeeps DEF DoCancel, DoDelete, Shape, LoginTypeOK, WindowsPlaced, Running
    <3>3. CASE DoStart(r) \/ DoStop(r) \/ DoRemove(r)
      BY <1>1, <3>3 DEF DoStart, DoStop, DoRemove, Shape, LoginTypeOK, WindowsPlaced, Running
    <3> QED BY <1>4, <3>1, <3>2, <3>3 DEF Do
  <2>4. row' \in [Workstations -> Rows]
    BY <1>1, <1>4, RowsKept DEF Do, DoStart, DoStop, DoLogin, DoCancel, DoDelete, DoRemove, Rows
  <2>5. UNCHANGED life
    BY <1>4 DEF Do, DoStart, DoStop, DoLogin, DoCancel, DoDelete, DoRemove
  <2>6. chrome' \subseteq [by : Owners, on : Workstations]
    BY <1>4 DEF Shape, TypeOK, Do, DoStart, DoStop, DoLogin, Begin, DoCancel, DoDelete, DoRemove
  <2> QED BY <2>1, <2>2, <2>3, <2>4, <2>5, <2>6 DEF Shape, TypeOK
<1> QED BY <1>2, <1>3, <1>4

LEMMA NextShape == Shape /\ [Next]_vars => Shape'
<1> SUFFICES ASSUME Shape, [Next]_vars PROVE Shape'
  OBVIOUS
<1>1. CASE UNCHANGED vars
  BY <1>1 DEF Shape, TypeOK, DaemonTypeOK, LoginTypeOK, WindowsPlaced, RequestsPlaced, Running, vars
<1>2. CASE Next
  BY <1>2, ProcessShape, DaemonShape, LoginShape, RequestShape DEF Next
<1> QED BY <1>1, <1>2

\* Type correctness: rows, browsers, threads, windows and requests stay well formed.
THEOREM ConsoleTypeCorrect == Spec => []TypeOK
<1>1. Shape => TypeOK
  BY DEF Shape
<1> QED BY <1>1, InitShape, NextShape, PTL DEF Spec

-----------------------------------------------------------------------------
\* When the process is down nothing lives in it

NothingWhenDown == life.pc = "down" =>
  /\ life.todo = {} /\ claimed = {}
  /\ \A t \in Threads : ~Alive(t)
  /\ \A s \in Sessions : ~Running(s)
  /\ \A r \in Requests : req[r] = NoReq

LEMMA OnlyBootWhenDown ==
  ASSUME Shape, NothingWhenDown, life.pc = "down", Next PROVE Boot
<1>1. ~Up /\ \A r \in Requests : req[r].op = "none"
  BY DEF Up, NothingWhenDown, NoReq
<1>2. ASSUME NEW t \in Threads, Daemon(t) PROVE FALSE
  <2>1. t # None /\ loop[t] = "none" /\ claimed = {}
    BY BrowsersOK DEF NothingWhenDown, Alive, BrowsersOK
  <2> QED BY <1>2, <2>1 DEF Daemon, ThreadStep, NextPass, PassEnds, Claim, DaemonDies, Goes, WorkerStep,
                            WorkerOpens, WorkerEnds, CooldownEnds
<1>3. ASSUME NEW s \in Sessions, Login(s) PROVE FALSE
  <2>1. session[s].pc = "none"
    BY BrowsersOK DEF NothingWhenDown, Running, BrowsersOK
  <2> QED BY <1>3, <2>1
          DEF Login, SessionStep, OperatorActs, OpenBrowser, OpenFails, WatchStops, WindowGone, Capture,
              CaptureFails, LanguageDone, SeesNoAccess, SeesProject, OperatorCloses, Watching, At
<1>4. ~ \E r \in Requests : Do(r)
  BY <1>1 DEF Do, DoStart, DoStop, DoLogin, DoCancel, DoDelete, DoRemove, Does
<1>5. ~ \E w \in Workstations : Create(w) \/ Revive(w)
  BY <1>1 DEF Create, Revive
<1>6. ~ \E r \in Requests, op \in Ops \ {"remove"}, w \in Workstations : Ask(r, op, w)
  BY <1>1 DEF Ask
<1>7. ~ \E s \in Sessions : CancelNext(s)
  BY DEF CancelNext, NothingWhenDown
<1>8. ~Crash
  <2>1. life = Down
    BY DEF Shape, TypeOK, NothingWhenDown, Down
  <2> QED BY <2>1 DEF Crash
<1>9. ~BeginShutdown /\ ~DaemonJoined /\ ~ProcessEnds
  BY <1>1 DEF BeginShutdown, DaemonJoined, ProcessEnds
<1> QED BY <1>2, <1>3, <1>4, <1>5, <1>6, <1>7, <1>8, <1>9 DEF Next

\* Only the end of the process takes it down.
LEMMA OnlyExitGoesDown ==
  ASSUME Shape, life.pc # "down", life'.pc = "down", Next PROVE Exits
<1>1. ASSUME life'.pc = life.pc PROVE FALSE
  BY <1>1
<1>2. ~BeginShutdown /\ ~DaemonJoined /\ ~Boot
  BY DEF BeginShutdown, DaemonJoined, Boot, Shape, TypeOK
<1>3. ~ \E s \in Sessions : CancelNext(s)
  BY <1>1 DEF CancelNext, Shape, TypeOK
<1>4. ~ \E t \in Threads : Daemon(t)
  BY <1>1 DEF Daemon
<1>5. ~ \E s \in Sessions : Login(s)
  BY <1>1 DEF Login
<1>6. ~ \E w \in Workstations : Create(w) \/ Revive(w)
  BY <1>1 DEF Create, Revive
<1>7. ~ \E r \in Requests : Do(r) \/ \E op \in Ops \ {"remove"}, w \in Workstations : Ask(r, op, w)
  BY <1>1 DEF Ask, Do, DoStart, DoStop, DoLogin, DoCancel, DoDelete, DoRemove
<1> QED BY <1>2, <1>3, <1>4, <1>5, <1>6, <1>7 DEF Next, Crash, ProcessEnds

LEMMA ExitsEmpty ==
  ASSUME Exits
  PROVE  /\ life' = Down /\ claimed' = {}
         /\ \A t \in Threads : ~Alive(t)'
         /\ \A s \in Sessions : ~Running(s)'
         /\ \A r \in Requests : req'[r] = NoReq
BY DEF Exits, Idle, NoLoop, NoSessions, NoSession, NoReqs, Alive, Running

LEMMA InitDown == Init => NothingWhenDown
BY DEF Init, NothingWhenDown, Down, NoLoop, NoSessions, NoSession, NoReqs, Alive, Running

LEMMA NextDown == Shape /\ NothingWhenDown /\ [Next]_vars => NothingWhenDown'
<1> SUFFICES ASSUME Shape, NothingWhenDown, [Next]_vars, life'.pc = "down" PROVE NothingWhenDown'
  BY DEF NothingWhenDown
<1>1. CASE UNCHANGED vars
  BY <1>1 DEF NothingWhenDown, Alive, Running, vars
<1>2. CASE Next
  <2>1. CASE life.pc = "down"
    <3>1. Boot
      BY <1>2, <2>1, OnlyBootWhenDown
    <3> QED BY <3>1 DEF Boot, Shape, TypeOK
  <2>2. CASE life.pc # "down"
    <3>1. Exits
      BY <1>2, <2>2, OnlyExitGoesDown
    <3> QED BY <3>1, ExitsEmpty DEF NothingWhenDown, Down
  <2> QED BY <2>1, <2>2
<1> QED BY <1>1, <1>2

-----------------------------------------------------------------------------
\* One scheduler

\* The clicks do not overlap.
OneRequest == \A r, q \in Requests : r = q

\* The only thread that lives is the one the daemon knows, and a start that was
\* asked for finds none.
KnownThread == \A t \in Threads : Alive(t) => t = sched.thread
StartIsDue == \A r \in Requests : req[r].op = "start" => ~IsRunning

SchedulerInv == Shape /\ NothingWhenDown /\ KnownThread /\ StartIsDue

LEMMA ThreadsKept ==
  ASSUME KnownThread, StartIsDue, Shape, sched'.thread = sched.thread,
         \A t \in Threads : loop'[t] = loop[t] \/ loop[t] # "none",
         \A r \in Requests : req'[r].op = "start" => req[r].op = "start"
  PROVE  KnownThread' /\ StartIsDue'
<1>1. \A t \in Threads : Alive(t)' => Alive(t)
  BY BrowsersOK DEF Alive, BrowsersOK
<1>2. IsRunning' => IsRunning
  BY DEF IsRunning, Alive, Shape, TypeOK, DaemonTypeOK
<1> QED BY <1>1, <1>2 DEF KnownThread, StartIsDue

\* A thread that is started when none lives is the only one.
LEMMA SpawnKnown ==
  ASSUME Shape, Spawn, \A t \in Threads : ~Alive(t),
         \A r \in Requests : req'[r].op # "start"
  PROVE  KnownThread' /\ StartIsDue'
<1>1. /\ NewThread \in Threads /\ sched'.thread = NewThread
      /\ loop \in [Threads -> Places] /\ loop' = [loop EXCEPT ![NewThread] = "head"]
  BY SpawnsNew DEF Shape, TypeOK, DaemonTypeOK
<1>2. \A t \in Threads : t # NewThread => ~Alive(t)'
  BY <1>1 DEF Alive
<1> QED BY <1>1, <1>2 DEF KnownThread, StartIsDue

LEMMA InitScheduler == Init => SchedulerInv
<1> SUFFICES ASSUME Init PROVE SchedulerInv
  OBVIOUS
<1>1. (\A t \in Threads : ~Alive(t)) /\ (\A r \in Requests : req[r].op = "none")
  BY DEF Init, NoLoop, NoReqs, NoReq, Alive
<1> QED BY <1>1, InitShape, InitDown DEF SchedulerInv, KnownThread, StartIsDue

LEMMA NextScheduler == OneRequest /\ SchedulerInv /\ [Next]_vars => SchedulerInv'
<1> SUFFICES ASSUME OneRequest, SchedulerInv, [Next]_vars PROVE SchedulerInv'
  OBVIOUS
<1>0. /\ Shape /\ NothingWhenDown /\ KnownThread /\ StartIsDue
      /\ Shape' /\ NothingWhenDown' /\ loop \in [Threads -> Places]
      /\ req \in [Requests -> [ op : Ops \cup {"none"}, on : Workstations \cup {None},
                                known : Sessions \cup {None} ]]
  BY NextShape, NextDown DEF SchedulerInv, Shape, TypeOK, DaemonTypeOK
<1> SUFFICES KnownThread' /\ StartIsDue'
  BY <1>0 DEF SchedulerInv
<1>1. CASE UNCHANGED vars
  BY <1>0, <1>1, ThreadsKept DEF vars
<1>2. CASE Boot
  <2>1. (\A t \in Threads : ~Alive(t)) /\ (\A r \in Requests : req[r] = NoReq)
    BY <1>0, <1>2 DEF Boot, NothingWhenDown, Down
  <2> QED BY <1>0, <1>2, <2>1, SpawnKnown DEF Boot, NoReq
<1>3. CASE Exits
  BY <1>3, ExitsEmpty DEF KnownThread, StartIsDue, NoReq
<1>4. CASE BeginShutdown \/ DaemonJoined \/ \E s \in Sessions : CancelNext(s)
  <2>1. sched'.thread = sched.thread /\ UNCHANGED <<loop, req>>
    BY <1>0, <1>4 DEF BeginShutdown, SignalStop, daemonVars, DaemonJoined, CancelNext, Shape, TypeOK,
                      DaemonTypeOK
  <2> QED BY <1>0, <2>1, ThreadsKept
<1>5. ASSUME NEW t \in Threads, Daemon(t) PROVE KnownThread' /\ StartIsDue'
  <2>1. UNCHANGED <<sched, req>>
    BY <1>5 DEF Daemon, ThreadStep, NextPass, PassEnds, Claim, DaemonDies, WorkerStep, WorkerOpens,
                WorkerEnds, CooldownEnds
  <2>2. UNCHANGED loop \/ \E from \in {"head", "pass"}, to \in Places : Goes(t, from, to)
    BY <1>5 DEF Daemon, ThreadStep, NextPass, PassEnds, Claim, DaemonDies, WorkerStep, WorkerOpens,
                WorkerEnds, CooldownEnds, Places
  <2>3. \A u \in Threads : loop'[u] = loop[u] \/ loop[u] # "none"
    BY <1>0, <2>2 DEF Goes
  <2> QED BY <1>0, <2>1, <2>3, ThreadsKept
<1>6. CASE (\E s \in Sessions : Login(s)) \/ (\E w \in Workstations : Create(w) \/ Revive(w))
  BY <1>0, <1>6, ThreadsKept DEF Login, daemonVars, Create, Revive
<1>7. ASSUME NEW r \in Requests, NEW op \in Ops \ {"remove"}, NEW w \in Workstations, Ask(r, op, w)
      PROVE  KnownThread' /\ StartIsDue'
  <2>1. CASE op = "start"
    <3>1. ~IsRunning /\ UNCHANGED <<sched, loop>>
      BY <1>7, <2>1 DEF Ask, Asks, MustSpawn
    <3>2. (~IsRunning)' /\ KnownThread'
      BY <1>0, <3>1 DEF IsRunning, Alive, KnownThread
    <3> QED BY <3>2 DEF StartIsDue
  <2>2. CASE op # "start"
    BY <1>0, <1>7, <2>2, ThreadsKept DEF Ask
  <2> QED BY <2>1, <2>2
<1>8. ASSUME NEW r \in Requests, Do(r) PROVE KnownThread' /\ StartIsDue'
  <2>1. CASE DoStart(r)
    <3>1. \A q \in Requests : req'[q].op # "start"
      BY <1>0, <2>1 DEF DoStart, Does, NoReq, OneRequest
    <3>2. \A t \in Threads : ~Alive(t)
      BY <1>0, <2>1 DEF DoStart, Does, StartIsDue, KnownThread, IsRunning
    <3> QED BY <1>0, <2>1, <3>1, <3>2, SpawnKnown DEF DoStart
  <2>2. CASE DoStop(r) \/ DoLogin(r) \/ DoCancel(r) \/ DoDelete(r) \/ DoRemove(r)
    <3>1. sched'.thread = sched.thread /\ UNCHANGED loop
      BY <1>0, <2>2 DEF DoStop, SignalStop, DoLogin, DoCancel, DoDelete, DoRemove, Shape, TypeOK,
                        DaemonTypeOK
    <3>2. \A q \in Requests : req'[q].op = "start" => req[q].op = "start"
      BY <1>0, <2>2 DEF DoStop, DoLogin, DoCancel, DoDelete, DoRemove, Does, NoReq
    <3> QED BY <1>0, <3>1, <3>2, ThreadsKept
  <2> QED BY <1>8, <2>1, <2>2 DEF Do
<1> QED BY <1>1, <1>2, <1>3, <1>4, <1>5, <1>6, <1>7, <1>8 DEF Next, Crash, ProcessEnds

\* Two scheduler threads never run side by side while the clicks do not overlap:
\* not after a stop that timed out, not after a thread that died, not after a
\* restart of the process.
THEOREM AtMostOneSchedulerKept == ASSUME OneRequest PROVE Spec => []AtMostOneScheduler
<1>1. SchedulerInv => AtMostOneScheduler
  BY DEF SchedulerInv, KnownThread, AtMostOneScheduler
<1>2. SchedulerInv /\ [Next]_vars => SchedulerInv'
  BY NextScheduler
<1> QED BY <1>1, <1>2, InitScheduler, PTL DEF Spec

-----------------------------------------------------------------------------
\* Who may be on a workstation

\* A row that no claim takes.
Closed(w) == row[w] \in {"absent", "new", "held"} /\ \A t \in Threads : <<t, w>> \notin claimed
SigningIn(s) == Running(s) /\ session[s].pc # "language"

\* A worker's row is busy or deleted, and it has the workstation to itself.
ClaimsApart ==
  /\ \A t \in Threads, w \in Workstations : <<t, w>> \in claimed => row[w] \in {"busy", "absent"}
  /\ \A t, u \in Threads, w \in Workstations : <<t, w>> \in claimed /\ <<u, w>> \in claimed => t = u
\* A workstation has one window, and while the operator signs in no worker gets it;
\* both are so from the moment a login was asked for.
WindowsApart == \A s, z \in Sessions :
  Running(s) /\ Running(z) /\ session[s].ws = session[z].ws => s = z
SigningInClosed == \A s \in Sessions : SigningIn(s) => Closed(session[s].ws)
LoginIsDue == \A r \in Requests : req[r].op = "login" =>
  /\ Closed(req[r].on)
  /\ \A s \in Sessions : Running(s) => session[s].ws # req[r].on
LoginsApart == \A r, q \in Requests :
  req[r].op = "login" /\ req[q].op = "login" /\ req[r].on = req[q].on => r = q
\* A window's browser is on its own workstation.
BrowsersKnown == \A c \in chrome : c.by \in Sessions =>
  Running(c.by) /\ session[c.by].pc # "opening" /\ c.on = session[c.by].ws

Apart == /\ ClaimsApart /\ WindowsApart /\ SigningInClosed /\ LoginIsDue /\ LoginsApart
         /\ BrowsersKnown
ApartInv == Shape /\ NothingWhenDown /\ Apart

\* Where no window and no login is added, it is enough that the rows they need stay
\* closed.
LEMMA ApartKept ==
  ASSUME Apart,
         \A z \in Sessions : Running(z)' => Running(z) /\ session'[z].ws = session[z].ws,
         \A z \in Sessions : SigningIn(z)' => Closed(session[z].ws)',
         \A q \in Requests : req'[q].op = "login" => req'[q] = req[q] /\ Closed(req[q].on)',
         ClaimsApart', BrowsersKnown'
  PROVE  Apart'
<1>1. WindowsApart'
  BY DEF Apart, WindowsApart
<1>2. SigningInClosed'
  BY DEF SigningInClosed, SigningIn
<1>3. LoginIsDue'
  BY DEF Apart, LoginIsDue
<1>4. LoginsApart'
  BY DEF Apart, LoginsApart
<1> QED BY <1>1, <1>2, <1>3, <1>4 DEF Apart

\* A step of neither a window nor a request, which kills browsers or adds a worker's.
LEMMA RowsApart ==
  ASSUME Apart, UNCHANGED <<session, req>>, ClaimsApart',
         \A z \in Sessions : SigningIn(z) => Closed(session[z].ws)',
         \A q \in Requests : req[q].op = "login" => Closed(req[q].on)',
         \A c \in chrome' : c.by \in Sessions => c \in chrome
  PROVE  Apart'
<1>1. \A z \in Sessions : (Running(z)' <=> Running(z)) /\ (SigningIn(z)' <=> SigningIn(z))
  BY DEF Running, SigningIn
<1>2. BrowsersKnown'
  BY <1>1 DEF Apart, BrowsersKnown
<1> QED BY <1>1, <1>2, ApartKept

LEMMA ExitsApart ==
  ASSUME Exits PROVE Apart'
<1>1. \A c \in chrome' : c.by \notin Sessions
  BY BrowsersOK DEF Exits, BrowsersOK
<1>2. \A r \in Requests : req'[r].op # "login"
  BY <1>1, ExitsEmpty DEF NoReq
<1> QED BY <1>1, <1>2, ExitsEmpty
        DEF Apart, ClaimsApart, WindowsApart, SigningInClosed, SigningIn, LoginIsDue, LoginsApart,
            BrowsersKnown

\* Being told to stop moves no window.
LEMMA ToldApart ==
  ASSUME Shape, Apart, NEW ss, session' = Told(ss), UNCHANGED <<row, claimed, chrome>>,
         \A q \in Requests : req'[q].op = "login" => req'[q] = req[q]
  PROVE  Apart'
<1>1. \A z \in Sessions : session'[z].ws = session[z].ws /\ session'[z].pc = session[z].pc
  BY ToldKeeps DEF Shape, TypeOK
<1>2. \A z \in Sessions : (Running(z)' <=> Running(z)) /\ (SigningIn(z)' <=> SigningIn(z))
  BY <1>1 DEF Running, SigningIn
<1>3. \A w : Closed(w)' <=> Closed(w)
  BY DEF Closed
<1>4. ClaimsApart' /\ BrowsersKnown'
  BY <1>1, <1>2 DEF Apart, ClaimsApart, BrowsersKnown
<1> QED BY <1>1, <1>2, <1>3, <1>4, ApartKept DEF Apart, SigningInClosed, LoginIsDue

LEMMA ProcessApart ==
  ASSUME ApartInv, \/ Boot \/ Crash \/ BeginShutdown \/ DaemonJoined \/ ProcessEnds
                   \/ \E s \in Sessions : CancelNext(s)
  PROVE  Apart'
<1>0. Shape /\ Apart
  BY DEF ApartInv
<1>1. CASE Boot
  <2>1. claimed = {} /\ claimed' = {}
    BY <1>1, SpawnsNew DEF Boot, Down, ApartInv, NothingWhenDown, Shape, TypeOK
  <2>2. \A w \in Workstations : Closed(w) => Closed(w)'
    BY <1>0, <1>1, <2>1 DEF Boot, Closed
  <2>3. ClaimsApart'
    BY <2>1 DEF ClaimsApart
  <2>4. UNCHANGED <<chrome, session, req>>
    BY <1>1 DEF Boot
  <2>5. \A z \in Sessions : SigningIn(z) => session[z].ws \in Workstations
    BY <1>0 DEF Shape, WindowsPlaced, SigningIn
  <2>6. \A q \in Requests : req[q].op = "login" => req[q].on \in Workstations
    BY <1>0 DEF Shape, RequestsPlaced
  <2> QED BY <1>0, <2>2, <2>3, <2>4, <2>5, <2>6, RowsApart DEF Apart, SigningInClosed, LoginIsDue
<1>2. CASE Exits
  BY <1>2, ExitsApart
<1>3. CASE BeginShutdown \/ DaemonJoined
  <2>1. UNCHANGED <<row, chrome, session, claimed, req>>
    BY <1>3 DEF BeginShutdown, SignalStop, daemonVars, DaemonJoined
  <2>2. ClaimsApart' /\ \A w : Closed(w) => Closed(w)'
    BY <1>0, <2>1 DEF Apart, ClaimsApart, Closed
  <2> QED BY <1>0, <2>1, <2>2, RowsApart DEF Apart, SigningInClosed, LoginIsDue
<1>4. ASSUME NEW s \in Sessions, CancelNext(s) PROVE Apart'
  BY <1>0, <1>4, ToldApart DEF CancelNext
<1> QED BY <1>1, <1>2, <1>3, <1>4 DEF Crash, ProcessEnds

\* A claim takes a row that nobody signs in to and nobody has; a worker gives back
\* its own.
LEMMA DaemonApart ==
  ASSUME ApartInv, NEW t \in Threads, Daemon(t)
  PROVE  Apart'
<1>0. /\ Shape /\ Apart /\ UNCHANGED <<session, req>>
      /\ row \in [Workstations -> Rows] /\ claimed \subseteq Threads \X Workstations
  BY DEF ApartInv, Daemon, Shape, TypeOK, DaemonTypeOK
<1>1. ASSUME \A w \in Workstations : Closed(w) => Closed(w)', ClaimsApart',
             \A c \in chrome' : c.by \in Sessions => c \in chrome
      PROVE  Apart'
  <2>1. \A z \in Sessions : SigningIn(z) => session[z].ws \in Workstations
    BY <1>0 DEF Shape, WindowsPlaced, SigningIn
  <2>2. \A q \in Requests : req[q].op = "login" => req[q].on \in Workstations
    BY <1>0 DEF Shape, RequestsPlaced
  <2> QED BY <1>0, <1>1, <2>1, <2>2, RowsApart DEF Apart, SigningInClosed, LoginIsDue
<1>2. CASE NextPass(t) \/ PassEnds(t) \/ DaemonDies(t)
  <2>1. UNCHANGED <<row, claimed, chrome>>
    BY <1>2 DEF NextPass, PassEnds, DaemonDies
  <2> QED BY <1>0, <1>1, <2>1 DEF Apart, ClaimsApart, Closed
<1>3. ASSUME NEW w \in Workstations, Claim(t, w) PROVE Apart'
  <2>1. /\ row[w] = "ready" /\ claimed' = claimed \cup {<<t, w>>} /\ UNCHANGED chrome
        /\ row'[w] = "busy"
        /\ \A v \in Workstations : v # w => row'[v] = row[v]
    BY <1>0, <1>3 DEF Claim, Becomes
  <2>2. \A v \in Workstations : Closed(v) => Closed(v)'
    BY <2>1 DEF Closed
  <2>3. \A u \in Threads : <<u, w>> \notin claimed
    BY <1>0, <2>1 DEF Apart, ClaimsApart
  <2>4. ClaimsApart'
    BY <1>0, <2>1, <2>3 DEF Apart, ClaimsApart
  <2> QED BY <1>1, <2>1, <2>2, <2>4
<1>4. ASSUME NEW w \in Workstations, WorkerOpens(t, w) PROVE Apart'
  <2>1. UNCHANGED <<row, claimed>> /\ chrome' = Spared(w) \cup {[by |-> t, on |-> w]}
    BY <1>4 DEF WorkerOpens, Launch
  <2>2. \A c \in chrome' : c.by \in Sessions => c \in chrome
    BY <2>1, BrowsersOK DEF Spared, BrowsersOK
  <2> QED BY <1>0, <1>1, <2>1, <2>2 DEF Apart, ClaimsApart, Closed
<1>5. ASSUME NEW w \in Workstations, WorkerEnds(t, w) PROVE Apart'
  <2>1. /\ <<t, w>> \in claimed /\ claimed' = claimed \ {<<t, w>>} /\ chrome' \subseteq chrome
    BY <1>5 DEF WorkerEnds
  <2>2. \A v \in Workstations : v # w => row'[v] = row[v]
    BY <1>0, <1>5 DEF WorkerEnds, Becomes
  <2>3. \A v \in Workstations : Closed(v) => Closed(v)'
    BY <2>1, <2>2 DEF Closed
  <2>4. \A u \in Threads : <<u, w>> \notin claimed'
    BY <1>0, <2>1 DEF Apart, ClaimsApart
  <2>5. ClaimsApart'
    BY <1>0, <2>1, <2>4, <2>2 DEF Apart, ClaimsApart
  <2> QED BY <1>1, <2>1, <2>3, <2>5
<1>6. ASSUME NEW w \in Workstations, CooldownEnds(t, w) PROVE Apart'
  <2>1. /\ row[w] = "resting" /\ UNCHANGED <<claimed, chrome>>
        /\ \A v \in Workstations : v # w => row'[v] = row[v]
    BY <1>0, <1>6 DEF CooldownEnds, Becomes
  <2>2. \A v \in Workstations : Closed(v) => Closed(v)'
    BY <2>1 DEF Closed
  <2>3. ClaimsApart'
    BY <1>0, <2>1 DEF Apart, ClaimsApart
  <2> QED BY <1>1, <2>1, <2>2, <2>3
<1> QED BY <1>2, <1>3, <1>4, <1>5, <1>6 DEF Daemon, ThreadStep, WorkerStep

\* A window that ends, or that moves on without being back where the operator signs in.
LEMMA WindowKept ==
  ASSUME Shape, NEW s \in Sessions,
         \/ UNCHANGED session
         \/ session' = [session EXCEPT ![s] = NoSession]
         \/ SigningIn(s) /\ \E pc \in {"watching", "settling"} : session' = [session EXCEPT ![s].pc = pc]
         \/ Running(s) /\ session' = [session EXCEPT ![s].pc = "language"]
  PROVE  /\ \A z \in Sessions : Running(z)' => Running(z) /\ session'[z].ws = session[z].ws
         /\ \A z \in Sessions : SigningIn(z)' => SigningIn(z)
<1>0. session \in [Sessions -> SessionRow]
  BY DEF Shape, TypeOK, LoginTypeOK
<1>1. CASE UNCHANGED session
  BY <1>1 DEF Running, SigningIn
<1>2. CASE session' = [session EXCEPT ![s] = NoSession]
  BY <1>0, <1>2 DEF Running, SigningIn, NoSession
<1>3. CASE SigningIn(s) /\ \E pc \in {"watching", "settling"} : session' = [session EXCEPT ![s].pc = pc]
  BY <1>0, <1>3 DEF Running, SigningIn, SessionRow
<1>4. CASE Running(s) /\ session' = [session EXCEPT ![s].pc = "language"]
  BY <1>0, <1>4 DEF Running, SigningIn, SessionRow
<1> QED BY <1>1, <1>2, <1>3, <1>4

\* The rows that a window changes are those of its own workstation: it closes them, or
\* opens them when the operator has signed in.
LEMMA LoginApart ==
  ASSUME ApartInv, NEW s \in Sessions, Login(s)
  PROVE  Apart'
<1> DEFINE w == session[s].ws
<1>0. /\ Shape /\ Apart /\ Running(s) /\ w \in Workstations /\ UNCHANGED <<req, claimed>>
      /\ session \in [Sessions -> SessionRow] /\ row \in [Workstations -> Rows] /\ s # None
      /\ (SessionStep(s) \/ OperatorActs(s))
  BY WindowMoves, BrowsersOK DEF ApartInv, Login, daemonVars, Shape, TypeOK, LoginTypeOK, BrowsersOK
<1>1. ASSUME \A z \in Sessions : Running(z)' => Running(z) /\ session'[z].ws = session[z].ws,
             \A z \in Sessions : SigningIn(z)' => SigningIn(z),
             \A v \in Workstations : v # w => row'[v] = row[v],
             row'[w] = row[w] \/ (row'[w] = "held" /\ SigningIn(s)) \/ (SigningIn(s) /\ ~SigningIn(s)'),
             BrowsersKnown'
      PROVE  Apart'
  <2>1. \A v \in Workstations : v # w /\ Closed(v) => Closed(v)'
    BY <1>0, <1>1 DEF Closed
  <2>2. \A z \in Sessions : SigningIn(z)' => Closed(session[z].ws)'
    <3> SUFFICES ASSUME NEW z \in Sessions, SigningIn(z)' PROVE Closed(session[z].ws)'
      OBVIOUS
    <3>1. /\ SigningIn(z) /\ session'[z].ws = session[z].ws /\ session[z].ws \in Workstations
          /\ Closed(session[z].ws)
      BY <1>0, <1>1 DEF SigningIn, Apart, SigningInClosed, Shape, WindowsPlaced
    <3>2. CASE session[z].ws # w
      BY <2>1, <3>1, <3>2
    <3>3. CASE session[z].ws = w
      <4>1. z = s
        BY <1>0, <3>1, <3>3 DEF Apart, WindowsApart, SigningIn
      <4> QED BY <1>0, <1>1, <3>1, <4>1 DEF Closed
    <3> QED BY <3>2, <3>3
  <2>3. \A q \in Requests : req[q].op = "login" => req[q].on # w /\ req[q].on \in Workstations
    BY <1>0 DEF Apart, LoginIsDue, Shape, RequestsPlaced
  <2>4. ClaimsApart'
    <3>1. SigningIn(s) => \A t \in Threads : <<t, w>> \notin claimed
      BY <1>0 DEF Apart, SigningInClosed, Closed
    <3> QED BY <1>0, <1>1, <3>1 DEF Apart, ClaimsApart
  <2> QED BY <1>0, <1>1, <2>1, <2>2, <2>3, <2>4, ApartKept DEF Apart, LoginIsDue
<1>2. CASE OpenBrowser(s)
  <2>1. /\ session[s].pc = "opening" /\ SigningIn(s) /\ UNCHANGED row
        /\ session' = [session EXCEPT ![s].pc = "watching"]
        /\ chrome' = Spared(w) \cup {[by |-> s, on |-> w]}
    BY <1>0, <1>2 DEF OpenBrowser, At, Moves, Launch, SigningIn
  <2>2. session'[s].pc = "watching" /\ session'[s].ws = w /\ \A z \in Sessions \ {s} : session'[z] = session[z]
    BY <1>0, <2>1 DEF SessionRow
  <2>3. BrowsersKnown'
    <3> SUFFICES ASSUME NEW c \in chrome', c.by \in Sessions
                 PROVE  (Running(c.by) /\ session[c.by].pc # "opening" /\ c.on = session[c.by].ws)'
      BY DEF BrowsersKnown
    <3>1. CASE c = [by |-> s, on |-> w]
      BY <1>0, <2>2, <3>1 DEF Running
    <3>2. CASE c \in chrome
      <4>1. c.by # s
        BY <1>0, <2>1, <3>2 DEF Apart, BrowsersKnown
      <4> QED BY <1>0, <2>2, <3>2, <4>1 DEF Apart, BrowsersKnown, Running
    <3> QED BY <2>1, <3>1, <3>2 DEF Spared
  <2> QED BY <1>0, <1>1, <2>1, <2>3, WindowKept
<1>3. CASE session' = [session EXCEPT ![s] = NoSession] /\ chrome' \subseteq chrome
           /\ (\A c \in chrome' : c.by # s)
           /\ (\A v \in Workstations : v # w => row'[v] = row[v])
           /\ (row'[w] = row[w] \/ (row'[w] = "held" /\ SigningIn(s)))
  <2>1. \A z \in Sessions \ {s} : session'[z] = session[z]
    BY <1>0, <1>3
  <2>2. BrowsersKnown'
    <3> SUFFICES ASSUME NEW c \in chrome', c.by \in Sessions
                 PROVE  (Running(c.by) /\ session[c.by].pc # "opening" /\ c.on = session[c.by].ws)'
      BY DEF BrowsersKnown
    <3>1. c.by # s /\ c \in chrome
      BY <1>3
    <3> QED BY <1>0, <2>1, <3>1 DEF Apart, BrowsersKnown, Running
  <2> QED BY <1>0, <1>1, <1>3, <2>2, WindowKept
<1>4. CASE OpenFails(s)
  <2>1. /\ session[s].pc = "opening" /\ UNCHANGED row
        /\ session' = [session EXCEPT ![s] = NoSession] /\ chrome' \subseteq chrome
    BY <1>4 DEF OpenFails, At, Spared
  <2>2. \A c \in chrome' : c.by # s
    BY <1>0, <2>1 DEF Apart, BrowsersKnown
  <2> QED BY <1>3, <2>1, <2>2
<1>5. CASE WatchStops(s) \/ WindowGone(s) \/ CaptureFails(s) \/ LanguageDone(s)
  <2>1. UNCHANGED row /\ Ends(s)
    BY <1>5 DEF WatchStops, WindowGone, CaptureFails, LanguageDone
  <2> QED BY <1>3, <2>1 DEF Ends, Without
<1>6. CASE SeesNoAccess(s)
  <2>1. SigningIn(s) /\ Ends(s)
    BY <1>0, <1>6 DEF SeesNoAccess, Watching, At, SigningIn
  <2>2. /\ \A v \in Workstations : v # w => row'[v] = row[v]
        /\ row'[w] = row[w] \/ row'[w] = "held"
    BY <1>0, <1>6 DEF SeesNoAccess, Becomes
  <2> QED BY <1>3, <2>1, <2>2 DEF Ends, Without
<1>7. CASE SeesProject(s) \/ Capture(s)
  <2>1. /\ SigningIn(s) /\ UNCHANGED chrome
        /\ \/ UNCHANGED row /\ session' = [session EXCEPT ![s].pc = "settling"]
           \/ Becomes(w, Captured(row[w])) /\ session' = [session EXCEPT ![s].pc = "language"]
    BY <1>0, <1>7 DEF SeesProject, Capture, Watching, At, Moves, SigningIn
  <2>2. /\ \A v \in Workstations : v # w => row'[v] = row[v]
        /\ row'[w] = row[w] \/ session' = [session EXCEPT ![s].pc = "language"]
    BY <1>0, <2>1 DEF Becomes
  <2>3. session' = [session EXCEPT ![s].pc = "language"] => ~SigningIn(s)'
    BY <1>0 DEF SigningIn, SessionRow
  <2>4. /\ \A z \in Sessions \ {s} : session'[z] = session[z]
        /\ session'[s].pc \in {"settling", "language"} /\ session'[s].ws = w
    BY <1>0, <2>1 DEF SessionRow
  <2>5. BrowsersKnown'
    <3> SUFFICES ASSUME NEW c \in chrome', c.by \in Sessions
                 PROVE  (Running(c.by) /\ session[c.by].pc # "opening" /\ c.on = session[c.by].ws)'
      BY DEF BrowsersKnown
    <3>1. Running(c.by) /\ session[c.by].pc # "opening" /\ c.on = session[c.by].ws
      BY <1>0, <2>1 DEF Apart, BrowsersKnown
    <3>2. CASE c.by = s
      BY <1>0, <2>4, <3>1, <3>2 DEF Running
    <3>3. CASE c.by # s
      BY <2>4, <3>1, <3>3 DEF Running
    <3> QED BY <3>2, <3>3
  <2>6. \/ SigningIn(s) /\ \E pc \in {"watching", "settling"} : session' = [session EXCEPT ![s].pc = pc]
        \/ Running(s) /\ session' = [session EXCEPT ![s].pc = "language"]
    BY <1>0, <2>1
  <2> QED BY <1>0, <1>1, <2>1, <2>2, <2>3, <2>5, <2>6, WindowKept
<1>8. CASE OperatorCloses(s)
  <2>1. UNCHANGED <<row, session>> /\ chrome' \subseteq chrome
    BY <1>8 DEF OperatorCloses
  <2>2. ClaimsApart' /\ \A v : Closed(v) => Closed(v)'
    BY <1>0, <2>1 DEF Apart, ClaimsApart, Closed
  <2> QED BY <1>0, <2>1, <2>2, RowsApart DEF Apart, SigningInClosed, LoginIsDue
<1> QED BY <1>0, <1>2, <1>4, <1>5, <1>6, <1>7, <1>8 DEF SessionStep, OperatorActs

\* Careful operators open a row, and ask for a login, only where nobody is; a login
\* that was asked for finds it so.
LEMMA RequestApart ==
  ASSUME Careful, ApartInv,
         \/ \E r \in Requests : Do(r) \/ \E op \in Ops \ {"remove"}, w \in Workstations : Ask(r, op, w)
         \/ \E w \in Workstations : Create(w) \/ Revive(w)
  PROVE  Apart'
<1>0. /\ Shape /\ Apart /\ row \in [Workstations -> Rows] /\ session \in [Sessions -> SessionRow]
      /\ req \in [Requests -> [ op : Ops \cup {"none"}, on : Workstations \cup {None},
                                known : Sessions \cup {None} ]]
      /\ \A z \in Sessions : SigningIn(z) => session[z].ws \in Workstations
      /\ \A q \in Requests : req[q].op = "login" => req[q].on \in Workstations
  BY DEF ApartInv, Shape, TypeOK, LoginTypeOK, WindowsPlaced, RequestsPlaced, SigningIn
<1>1. ASSUME NEW w \in Workstations, Create(w) \/ Revive(w) PROVE Apart'
  <2>1. /\ UNCHANGED <<claimed, session, req, chrome>> /\ Unused(w)
        /\ \A v \in Workstations : v # w => row'[v] = row[v]
    BY <1>0, <1>1 DEF Create, Revive, Becomes
  <2>2. \A t \in Threads : <<t, w>> \notin claimed
    BY <2>1 DEF Unused
  <2>3. ClaimsApart'
    BY <1>0, <2>1, <2>2 DEF Apart, ClaimsApart
  <2>4. \A v \in Workstations : v # w /\ Closed(v) => Closed(v)'
    BY <2>1 DEF Closed
  <2>5. \A z \in Sessions : SigningIn(z) => session[z].ws # w
    BY <2>1 DEF Unused, SigningIn
  <2>6. \A q \in Requests : req[q].on # w
    BY <2>1 DEF Unused
  <2> QED BY <1>0, <2>1, <2>3, <2>4, <2>5, <2>6, RowsApart DEF Apart, SigningInClosed, LoginIsDue
<1>2. ASSUME UNCHANGED <<row, claimed, session, chrome>>,
             \A q \in Requests : req'[q].op = "login" => req'[q] = req[q]
      PROVE  Apart'
  <2>1. \A z \in Sessions : (Running(z)' <=> Running(z)) /\ (SigningIn(z)' <=> SigningIn(z))
    BY <1>2 DEF Running, SigningIn
  <2>2. \A v : Closed(v)' <=> Closed(v)
    BY <1>2 DEF Closed
  <2>3. ClaimsApart' /\ BrowsersKnown'
    BY <1>0, <1>2, <2>1 DEF Apart, ClaimsApart, BrowsersKnown
  <2> QED BY <1>0, <1>2, <2>1, <2>2, <2>3, ApartKept DEF Apart, SigningInClosed, LoginIsDue
<1>3. ASSUME NEW r \in Requests, NEW op \in Ops \ {"remove"}, NEW w \in Workstations, Ask(r, op, w)
      PROVE  Apart'
  <2>0. UNCHANGED <<row, claimed, session, chrome>> /\ \A q \in Requests \ {r} : req'[q] = req[q]
    BY <1>0, <1>3 DEF Ask
  <2>1. CASE op # "login"
    <3>1. req'[r].op # "login"
      BY <1>0, <1>3, <2>1 DEF Ask
    <3> QED BY <1>2, <2>0, <3>1
  <2>2. CASE op = "login"
    <3>1. Unused(w) /\ row[w] # "absent" /\ req'[r].op = "login" /\ req'[r].on = w
      BY <1>0, <1>3, <2>2 DEF Ask, Asks
    <3>2. /\ Closed(w) /\ \A z \in Sessions : Running(z) => session[z].ws # w
          /\ \A q \in Requests : req[q].on # w
      BY <3>1 DEF Unused, Closed
    <3>3. \A z \in Sessions : (Running(z)' <=> Running(z)) /\ (SigningIn(z)' <=> SigningIn(z))
      BY <2>0 DEF Running, SigningIn
    <3>4. \A v : Closed(v)' <=> Closed(v)
      BY <2>0 DEF Closed
    <3>5. LoginIsDue'
      <4> SUFFICES ASSUME NEW q \in Requests, req'[q].op = "login"
                   PROVE  /\ Closed(req[q].on)'
                          /\ \A z \in Sessions : Running(z)' => session'[z].ws # req'[q].on
        BY DEF LoginIsDue
      <4>1. CASE q = r
        BY <2>0, <3>1, <3>2, <3>3, <3>4, <4>1
      <4>2. CASE q # r
        BY <1>0, <2>0, <3>3, <3>4, <4>2 DEF Apart, LoginIsDue
      <4> QED BY <4>1, <4>2
    <3>6. LoginsApart'
      BY <1>0, <2>0, <3>1, <3>2 DEF Apart, LoginsApart
    <3>7. WindowsApart' /\ SigningInClosed'
      BY <1>0, <2>0, <3>3, <3>4 DEF Apart, WindowsApart, SigningInClosed
    <3>8. ClaimsApart' /\ BrowsersKnown'
      BY <1>0, <2>0, <3>3 DEF Apart, ClaimsApart, BrowsersKnown
    <3> QED BY <3>5, <3>6, <3>7, <3>8 DEF Apart
  <2> QED BY <2>1, <2>2
<1>4. ASSUME NEW r \in Requests, DoStart(r) \/ DoStop(r) PROVE Apart'
  <2>1. UNCHANGED <<row, claimed, session, chrome>> /\ req' = [req EXCEPT ![r] = NoReq]
    BY <1>4 DEF DoStart, DoStop, Does, Spawn, SignalStop
  <2>2. \A q \in Requests : req'[q].op = "login" => req'[q] = req[q]
    BY <1>0, <2>1 DEF NoReq
  <2> QED BY <1>2, <2>1, <2>2
<1>5. ASSUME NEW r \in Requests, DoLogin(r) PROVE Apart'
  <2> DEFINE w == req[r].on
  <2>1. /\ w \in Workstations /\ Begin(w) /\ UNCHANGED <<row, chrome, claimed>>
        /\ req[r].op = "login" /\ req'[r] = NoReq /\ \A q \in Requests \ {r} : req'[q] = req[q]
    BY <1>0, <1>5 DEF DoLogin, Does
  <2>2. PICK s \in Sessions : /\ ~Running(s)
          /\ session' = [session EXCEPT ![s] = [ws |-> w, pc |-> "opening", stop |-> FALSE]]
    BY <1>0, <2>1, BeginsNew DEF Shape, TypeOK
  <2>3. /\ session'[s].ws = w /\ session'[s].pc = "opening"
        /\ \A z \in Sessions \ {s} : session'[z] = session[z]
    BY <1>0, <2>2
  <2>4. Closed(w) /\ \A z \in Sessions : Running(z) => session[z].ws # w
    BY <1>0, <2>1 DEF Apart, LoginIsDue
  <2>5. \A z \in Sessions \ {s} : (Running(z)' <=> Running(z)) /\ (SigningIn(z)' <=> SigningIn(z))
    BY <2>3 DEF Running, SigningIn
  <2>6. \A v : Closed(v)' <=> Closed(v)
    BY <2>1 DEF Closed
  <2>7. WindowsApart'
    <3> SUFFICES ASSUME NEW y \in Sessions, NEW z \in Sessions, Running(y)', Running(z)',
                        session'[y].ws = session'[z].ws
                 PROVE  y = z
      BY DEF WindowsApart
    <3>1. CASE y = s \/ z = s
      BY <2>3, <2>4, <2>5, <3>1
    <3>2. CASE y # s /\ z # s
      BY <1>0, <2>3, <2>5, <3>2 DEF Apart, WindowsApart
    <3> QED BY <3>1, <3>2
  <2>8. SigningInClosed'
    <3> SUFFICES ASSUME NEW z \in Sessions, SigningIn(z)' PROVE Closed(session[z].ws)'
      BY DEF SigningInClosed
    <3>1. CASE z = s
      BY <2>3, <2>4, <2>6, <3>1
    <3>2. CASE z # s
      BY <1>0, <2>3, <2>5, <2>6, <3>2 DEF Apart, SigningInClosed
    <3> QED BY <3>1, <3>2
  <2>9. \A q \in Requests : req'[q].op = "login" => q # r /\ req'[q] = req[q] /\ req[q].on # w
    BY <1>0, <2>1 DEF NoReq, Apart, LoginsApart
  <2>10. LoginIsDue'
    <3> SUFFICES ASSUME NEW q \in Requests, req'[q].op = "login"
                 PROVE  /\ Closed(req[q].on)'
                        /\ \A z \in Sessions : Running(z)' => session'[z].ws # req'[q].on
      BY DEF LoginIsDue
    <3>1. Closed(req[q].on)'
      BY <1>0, <2>6, <2>9 DEF Apart, LoginIsDue
    <3>2. ASSUME NEW z \in Sessions, Running(z)' PROVE session'[z].ws # req'[q].on
      <4>1. CASE z = s
        BY <2>3, <2>9, <4>1
      <4>2. CASE z # s
        BY <1>0, <2>3, <2>5, <2>9, <3>2, <4>2 DEF Apart, LoginIsDue
      <4> QED BY <4>1, <4>2
    <3> QED BY <3>1, <3>2
  <2>11. LoginsApart'
    BY <1>0, <2>9 DEF Apart, LoginsApart
  <2>12. BrowsersKnown'
    <3> SUFFICES ASSUME NEW c \in chrome, c.by \in Sessions
                 PROVE  (Running(c.by) /\ session[c.by].pc # "opening" /\ c.on = session[c.by].ws)'
      BY <2>1 DEF BrowsersKnown
    <3>1. c.by # s
      BY <1>0, <2>2 DEF Apart, BrowsersKnown
    <3> QED BY <1>0, <2>3, <2>5, <3>1 DEF Apart, BrowsersKnown
  <2>13. ClaimsApart'
    BY <1>0, <2>1 DEF Apart, ClaimsApart
  <2> QED BY <2>7, <2>8, <2>10, <2>11, <2>12, <2>13 DEF Apart
<1>6. ASSUME NEW r \in Requests, DoCancel(r) \/ DoDelete(r) PROVE Apart'
  <2>1. UNCHANGED <<row, claimed, chrome>> /\ session' = Told({req[r].known})
    BY <1>6 DEF DoCancel, DoDelete
  <2>2. \A q \in Requests : req'[q].op = "login" => req'[q] = req[q]
    BY <1>0, <1>6 DEF DoCancel, DoDelete, Does, NoReq
  <2> QED BY <1>0, <2>1, <2>2, ToldApart
<1>7. ASSUME NEW r \in Requests, DoRemove(r) PROVE Apart'
  <2> DEFINE w == req[r].on
  <2>1. /\ UNCHANGED <<claimed, chrome, session>> /\ Becomes(w, "absent")
        /\ req' = [req EXCEPT ![r] = NoReq] /\ w \in Workstations
    BY <1>7 DEF DoRemove, Does, ApartInv, Shape, RequestsPlaced
  <2>2. \A v \in Workstations : row'[v] = row[v] \/ row'[v] = "absent"
    BY <1>0, <2>1 DEF Becomes
  <2>3. ClaimsApart' /\ \A v \in Workstations : Closed(v) => Closed(v)'
    BY <1>0, <2>1, <2>2 DEF Apart, ClaimsApart, Closed
  <2>4. \A q \in Requests : req'[q].op = "login" => req'[q] = req[q]
    BY <1>0, <2>1 DEF NoReq
  <2>5. \A z \in Sessions : (Running(z)' <=> Running(z)) /\ (SigningIn(z)' <=> SigningIn(z))
    BY <2>1 DEF Running, SigningIn
  <2>6. BrowsersKnown'
    BY <1>0, <2>1, <2>5 DEF Apart, BrowsersKnown
  <2> QED BY <1>0, <2>1, <2>3, <2>4, <2>5, <2>6, ApartKept DEF Apart, SigningInClosed, LoginIsDue
<1> QED BY <1>1, <1>3, <1>4, <1>5, <1>6, <1>7 DEF Do

LEMMA InitApart == Init => ApartInv
<1> SUFFICES ASSUME Init PROVE ApartInv
  OBVIOUS
<1>1. /\ chrome = {} /\ claimed = {} /\ (\A z \in Sessions : ~Running(z))
      /\ (\A r \in Requests : req[r].op = "none")
  BY DEF Init, NoSessions, NoSession, NoReqs, NoReq, Running
<1>2. Apart
  BY <1>1 DEF Apart, ClaimsApart, WindowsApart, SigningInClosed, SigningIn, LoginIsDue, LoginsApart,
              BrowsersKnown
<1> QED BY <1>2, InitShape, InitDown DEF ApartInv

LEMMA NextApart == Careful /\ ApartInv /\ [Next]_vars => ApartInv'
<1> SUFFICES ASSUME Careful, ApartInv, [Next]_vars PROVE ApartInv'
  OBVIOUS
<1>1. Shape' /\ NothingWhenDown'
  BY NextShape, NextDown DEF ApartInv
<1>2. CASE UNCHANGED vars
  <2>1. UNCHANGED <<row, claimed, chrome, session, req>>
    BY <1>2 DEF vars
  <2>2. ClaimsApart' /\ \A v : Closed(v) => Closed(v)'
    BY <2>1 DEF ApartInv, Apart, ClaimsApart, Closed
  <2>3. Apart'
    BY <2>1, <2>2, RowsApart DEF ApartInv, Apart, SigningInClosed, LoginIsDue
  <2> QED BY <1>1, <2>3 DEF ApartInv
<1>3. CASE Next
  <2>1. Apart'
    BY <1>3, ProcessApart, DaemonApart, LoginApart, RequestApart DEF Next
  <2> QED BY <1>1, <2>1 DEF ApartInv
<1> QED BY <1>2, <1>3

-----------------------------------------------------------------------------
\* A launch kills nothing that is in use

ProfilesApart == \A w \in Workstations : Longer[w] = {}

\* A browser on the workstation of a worker that has none, or of a window that opens,
\* is not in use.
LEMMA UsedIsElsewhere ==
  ASSUME ApartInv, NEW c \in chrome, InUse(c)
  PROVE  /\ \A t \in Threads : <<t, c.on>> \in claimed => c.by = t
         /\ \A s \in Sessions : At(s, "opening") => session[s].ws # c.on
<1>0. Apart /\ Shape /\ \A s \in Sessions : s # None
  BY BrowsersOK DEF ApartInv, BrowsersOK
<1>1. CASE c.by \in Sessions /\ Needed(c.by)
  <2>1. /\ Running(c.by) /\ session[c.by].pc # "opening" /\ c.on = session[c.by].ws
        /\ SigningIn(c.by)
    BY <1>0, <1>1 DEF Apart, BrowsersKnown, Needed, SigningIn
  <2>2. \A t \in Threads : <<t, c.on>> \notin claimed
    BY <1>0, <1>1, <2>1 DEF Apart, SigningInClosed, Closed
  <2>3. \A s \in Sessions : At(s, "opening") => session[s].ws # c.on
    BY <1>0, <1>1, <2>1 DEF Apart, WindowsApart, At, Running
  <2> QED BY <2>2, <2>3
<1>2. CASE c.by \in Threads /\ <<c.by, c.on>> \in claimed
  <2>1. c.on \in Workstations
    BY <1>0 DEF Shape, TypeOK
  <2>2. \A t \in Threads : <<t, c.on>> \in claimed => c.by = t
    BY <1>0, <1>2, <2>1 DEF Apart, ClaimsApart
  <2>3. \A s \in Sessions : At(s, "opening") => session[s].ws # c.on
    BY <1>0, <1>2 DEF Apart, SigningInClosed, SigningIn, Closed, At, Running
  <2> QED BY <2>2, <2>3
<1> QED BY <1>1, <1>2 DEF InUse

\* Only a worker and a window that opens launch a browser.
LEMMA WhoLaunches ==
  ASSUME ApartInv, Next, Launching
  PROVE  \/ \E t \in Threads, w \in Workstations : WorkerOpens(t, w)
         \/ \E s \in Sessions : OpenBrowser(s) \/ OpenFails(s)
<1>0. Shape /\ session \in [Sessions -> SessionRow] /\ \A s \in Sessions : s # None
  BY BrowsersOK DEF ApartInv, Shape, TypeOK, LoginTypeOK, BrowsersOK
<1>1. ASSUME \A c \in chrome' : c \in chrome \/ c.by = Orphan,
             (\A s \in Sessions : At(s, "opening") => session'[s].pc = "opening") \/ ~Up'
      PROVE  FALSE
  BY <1>1 DEF Launching, Launches, At
<1>2. ~Crash /\ ~ProcessEnds
  <2> SUFFICES ASSUME Exits PROVE FALSE
    BY DEF Crash, ProcessEnds
  <2>1. \A c \in chrome' : c.by = Orphan
    BY DEF Exits
  <2>2. ~Up'
    BY ExitsEmpty DEF Up, Down
  <2> QED BY <1>1, <2>1, <2>2
<1>3. ~Boot /\ ~BeginShutdown /\ ~DaemonJoined
  BY <1>1 DEF Boot, BeginShutdown, DaemonJoined, At
<1>4. ASSUME NEW s \in Sessions, CancelNext(s) PROVE FALSE
  <2>1. UNCHANGED chrome /\ session' = Told({s})
    BY <1>4 DEF CancelNext
  <2>2. \A z \in Sessions : session'[z].pc = session[z].pc
    BY <1>0, <2>1, ToldKeeps DEF Shape, TypeOK
  <2> QED BY <1>1, <2>1, <2>2 DEF At
<1>5. ~ \E w \in Workstations : Create(w) \/ Revive(w)
  BY <1>1 DEF Create, Revive, At
<1>6. ~ \E r \in Requests, op \in Ops \ {"remove"}, w \in Workstations : Ask(r, op, w)
  BY <1>1 DEF Ask, At
<1>7. ASSUME NEW r \in Requests, Do(r) PROVE FALSE
  <2>1. CASE DoStart(r) \/ DoStop(r) \/ DoRemove(r)
    BY <1>1, <2>1 DEF DoStart, DoStop, DoRemove, At
  <2>2. CASE DoCancel(r) \/ DoDelete(r)
    BY <1>0, <1>1, <2>2, ToldKeeps DEF DoCancel, DoDelete, Shape, TypeOK, At
  <2>3. CASE DoLogin(r)
    <3>1. req[r].on \in Workstations /\ Begin(req[r].on) /\ UNCHANGED chrome
      BY <1>0, <2>3 DEF DoLogin, Does, Shape, RequestsPlaced
    <3>2. PICK s \in Sessions :
            session' = [session EXCEPT ![s] = [ws |-> req[r].on, pc |-> "opening", stop |-> FALSE]]
      BY <1>0, <3>1, BeginsNew DEF Shape, TypeOK
    <3> QED BY <1>0, <1>1, <3>1, <3>2 DEF At
  <2> QED BY <1>7, <2>1, <2>2, <2>3 DEF Do
<1>8. ASSUME NEW t \in Threads, Daemon(t) PROVE \E w \in Workstations : WorkerOpens(t, w)
  <2>1. UNCHANGED session
    BY <1>8 DEF Daemon
  <2>2. CASE chrome' \subseteq chrome
    BY <1>1, <2>1, <2>2 DEF At
  <2>3. chrome' \subseteq chrome \/ \E w \in Workstations : WorkerOpens(t, w)
    BY <1>8 DEF Daemon, ThreadStep, NextPass, PassEnds, Claim, DaemonDies, WorkerStep, WorkerEnds,
                CooldownEnds
  <2> QED BY <2>2, <2>3
<1>9. ASSUME NEW s \in Sessions, Login(s), ~OpenBrowser(s), ~OpenFails(s) PROVE FALSE
  <2>1. ~At(s, "opening") /\ chrome' \subseteq chrome
    BY <1>9 DEF Login, SessionStep, OperatorActs, WatchStops, WindowGone, Capture, CaptureFails,
                LanguageDone, SeesNoAccess, SeesProject, OperatorCloses, Watching, At, Ends, Without
  <2>2. \A z \in Sessions \ {s} : session'[z] = session[z]
    BY <1>0, <1>9, WindowMoves DEF Login
  <2> QED BY <1>1, <2>1, <2>2 DEF At
<1> QED BY <1>2, <1>3, <1>4, <1>5, <1>6, <1>7, <1>8, <1>9 DEF Next

\* clean_profile_lock kills no browser of a worker that works, nor of a window in
\* which the operator is signing in: for careful operators and profiles whose paths
\* do not contain each other, and for any number of requests that overlap.
THEOREM LaunchSparesTheUsedKept ==
  ASSUME Careful, ProfilesApart PROVE Spec => LaunchSparesTheUsed
<1>1. ApartInv /\ [Next]_vars => ApartInv'
  BY NextApart
<1>2. ASSUME ApartInv, [Next]_vars
      PROVE  [\A c \in chrome : InUse(c) /\ Launching => c \in chrome']_vars
  <2> SUFFICES ASSUME Next, NEW c \in chrome, InUse(c), Launching PROVE c \in chrome'
    BY <1>2
  <2>1. /\ \A t \in Threads : <<t, c.on>> \in claimed => c.by = t
        /\ \A s \in Sessions : At(s, "opening") => session[s].ws # c.on
    BY <1>2, UsedIsElsewhere
  <2>2. ASSUME NEW w \in Workstations, c.on # w PROVE c \in Spared(w)
    BY <2>2 DEF ProfilesApart, Spared, Matching
  <2>3. ASSUME NEW t \in Threads, NEW w \in Workstations, WorkerOpens(t, w) PROVE c \in chrome'
    <3>1. <<t, w>> \in claimed /\ ~HasChrome(w, t) /\ Spared(w) \subseteq chrome'
      BY <2>3 DEF WorkerOpens, Launch
    <3>2. c = [by |-> c.by, on |-> c.on]
      BY <1>2 DEF ApartInv, Shape, TypeOK
    <3>3. c.on # w
      BY <2>1, <3>1, <3>2 DEF HasChrome
    <3> QED BY <2>2, <3>1, <3>3
  <2>4. ASSUME NEW s \in Sessions, OpenBrowser(s) \/ OpenFails(s) PROVE c \in chrome'
    <3>1. At(s, "opening") /\ Spared(session[s].ws) \subseteq chrome'
      BY <2>4 DEF OpenBrowser, OpenFails, Launch
    <3>2. session[s].ws \in Workstations
      BY <1>2, <3>1, BrowsersOK DEF ApartInv, Shape, WindowsPlaced, Running, At, BrowsersOK
    <3> QED BY <2>1, <2>2, <3>1, <3>2
  <2> QED BY <1>2, <2>3, <2>4, WhoLaunches
<1> QED BY <1>1, <1>2, InitApart, PTL DEF Spec, LaunchSparesTheUsed
=============================================================================
