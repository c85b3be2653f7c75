---------------------------- MODULE LoginSession ----------------------------
(***************************************************************************)
(* The login windows: one thread per session drives a Chrome on the        *)
(* workstation's profile until the operator has signed in and opened a     *)
(* project, stores its URL and waits for the account's language to be      *)
(* English (app/workstations/login_session.py, with the callbacks of       *)
(* app/web/routes/login.py).  The registry keeps the latest session of     *)
(* each workstation.                                                       *)
(***************************************************************************)
EXTENDS Browsers

VARIABLES
  session,    \* the sessions, by identity
  registry    \* LoginSessionRegistry: the session known for each workstation

loginVars == <<session, registry>>

\* "opening" the browser, "watching" its pages, "settling" on a project's page, in
\* the "language" tab; "none" before start and after the thread's end.  Of the states
\* the page shows, waiting_for_login and waiting_for_project are both "watching", and
\* captured, error and cancelled, which only tell how a thread ended, are "none".
SessionRow == [ ws : Workstations \cup {None}, stop : BOOLEAN,
                pc : {"none", "opening", "watching", "settling", "language"} ]
NoSession == [ws |-> None, pc |-> "none", stop |-> FALSE]

LoginTypeOK ==
  /\ session \in [Sessions -> SessionRow]
  /\ registry \in [Workstations -> Sessions \cup {None}]

Running(s) == s # None /\ session[s].pc # "none"
Registered(s) == \E w \in Workstations : registry[w] = s

\* registry.put and LoginSession.start
Free(s, w) == ~Running(s) /\ \A v \in Workstations \ {w} : registry[v] # s
Begin(w) ==
  LET s == CHOOSE x \in Sessions : Free(x, w) IN
  /\ \E other \in Sessions : Free(other, w)
  /\ session' = [session EXCEPT ![s] =
       [ws |-> w, pc |-> "opening", stop |-> FALSE]]
  /\ registry' = [registry EXCEPT ![w] = s]

\* The stop event that cancel() sets; only a thread that lives is told.
Told(ss) == [s \in Sessions |-> IF s \in ss /\ Running(s) THEN [session[s] EXCEPT !.stop = TRUE]
                                ELSE session[s]]

At(s, pc) == session[s].pc = pc
Moves(s, pc) == session' = [session EXCEPT ![s].pc = pc]

\* The thread ends: its context is closed.
Ends(s) == session' = [session EXCEPT ![s] = NoSession] /\ chrome' = Without(s)

-----------------------------------------------------------------------------
\* _drive_browser

OpenBrowser(s) ==
  /\ At(s, "opening")
  /\ Launch(session[s].ws, s)
  /\ Moves(s, "watching")
  /\ UNCHANGED <<row, registry>>

\* The launch or the first navigation raises.
OpenFails(s) ==
  /\ At(s, "opening")
  /\ chrome' = Spared(session[s].ws)
  /\ session' = [session EXCEPT ![s] = NoSession]
  /\ UNCHANGED <<row, registry>>

-----------------------------------------------------------------------------
\* _watch_for_project_url

Watching(s) == At(s, "watching") /\ ~session[s].stop
Shown(s) == HasChrome(session[s].ws, s)

\* The loop's condition: the stop event ends it.
WatchStopsWhenClosed(s) ==
  /\ At(s, "watching") /\ session[s].stop /\ ~Shown(s)
  /\ Ends(s)
  /\ UNCHANGED <<row, registry>>
WatchStops(s) ==
  /\ At(s, "watching") /\ session[s].stop
  /\ Ends(s)
  /\ UNCHANGED <<row, registry>>

\* No page is left: the operator closed the window, or something killed it.
WindowGone(s) ==
  /\ Watching(s) /\ ~Shown(s)
  /\ Ends(s)
  /\ UNCHANGED <<row, registry>>

SeesNoAccess(s) ==
  /\ Watching(s) /\ Shown(s)
  /\ IF row[session[s].ws] = "absent" THEN UNCHANGED row ELSE Becomes(session[s].ws, "held")
  /\ Ends(s)
  /\ UNCHANGED registry

SeesProject(s) ==
  /\ Watching(s) /\ Shown(s)
  /\ Moves(s, "settling")
  /\ UNCHANGED <<row, chrome, registry>>

\* on_capture stores the URL and revives the row softly: what was new, resting or
\* busy is healthy.  The wait before it looks at no stop event.
Captured(r) == IF r \in {"new", "resting", "busy"} THEN "ready" ELSE r
Capture(s) ==
  /\ At(s, "settling")
  /\ Becomes(session[s].ws, Captured(row[session[s].ws]))
  /\ Moves(s, "language")
  /\ UNCHANGED <<chrome, registry>>

CaptureFails(s) ==
  /\ At(s, "settling")
  /\ Ends(s)
  /\ UNCHANGED <<row, registry>>

\* The language tab is English, closed, given up after five minutes or told to
\* stop: the session is captured in every case.
LanguageDone(s) ==
  /\ At(s, "language")
  /\ Ends(s)
  /\ UNCHANGED <<row, registry>>

\* The operator closes the window.
OperatorCloses(s) ==
  /\ At(s, "watching") /\ Shown(s)
  /\ chrome' = chrome \ {[by |-> s, on |-> session[s].ws]}
  /\ UNCHANGED <<row, session, registry>>

\* What the thread does by itself, and what it does when the operator has acted.
SessionStep(s) ==
  \/ OpenBrowser(s) \/ OpenFails(s) \/ WatchStops(s) \/ WindowGone(s)
  \/ Capture(s) \/ CaptureFails(s) \/ LanguageDone(s)
OperatorActs(s) == SeesNoAccess(s) \/ SeesProject(s) \/ OperatorCloses(s)
=============================================================================
