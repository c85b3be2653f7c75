-------------------------- MODULE ConsoleProperties --------------------------
(***************************************************************************)
(* What the operators may rely on: one scheduler, browsers that are not    *)
(* killed by the launch of another one, and stops that are obeyed.         *)
(***************************************************************************)
EXTENDS Console

\* Two scheduler threads never run side by side, as long as the clicks do not
\* overlap: not after a stop whose join timed out, and not after a thread that died
\* (daemon.py:127-168; two at once would make each other's workers orphans).
AtMostOneScheduler == \A t, u \in Threads : Alive(t) /\ Alive(u) => t = u

\* A login window the operator still needs: not told to stop, and without the
\* project it was opened for.
Needed(s) == Running(s) /\ ~session[s].stop /\ session[s].pc # "language"
InUse(c) ==
  \/ c.by \in Sessions /\ Needed(c.by)
  \/ c.by \in Threads /\ <<c.by, c.on>> \in claimed
Launches(c) == c \in chrome' \ chrome /\ c.by # Orphan
Launching ==
  \/ \E c \in chrome' : Launches(c)
  \/ Up /\ Up' /\ \E s \in Sessions : At(s, "opening") /\ ~At(s, "opening")'

\* clean_profile_lock kills no browser of a worker that works, nor of a window in
\* which the operator is signing in, if the operators are careful and no profile's
\* path is part of another's (profile_check.py:46-130, called by login_session.py:238
\* and flow_playwright.py:179).
LaunchSparesTheUsed ==
  [][\A c \in chrome : InUse(c) /\ Launching => c \in chrome']_vars

\* A stop is obeyed: the scheduler ends once its pass has no more to do, a window
\* that was told to close ends, and a shutdown comes to its end
\* (daemon.py:144-188, login_session.py:198-205, server.py:90-97).
StopsAreObeyed ==
  /\ (IsRunning /\ sched.stop) ~> ~(IsRunning /\ sched.stop)
  /\ \A s \in Sessions : (Running(s) /\ session[s].stop) ~> ~(Running(s) /\ session[s].stop)
  /\ (life.pc = "stopping") ~> (life = Down)

-----------------------------------------------------------------------------
\* Stated by a comment, and not kept

\* "at the moment of a new session start, nothing legitimate should be holding the
\* profile (login + worker on the same WS are mutually exclusive, ...)"
\* (profile_check.py:61-65): a launch finds no living program's browser on its own
\* profile.
NothingHoldsTheProfile ==
  [][\A c \in chrome, d \in chrome' :
       Launches(d) /\ c.on = d.on => c.by = Orphan]_vars
=============================================================================
