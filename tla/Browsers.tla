------------------------------ MODULE Browsers ------------------------------
(***************************************************************************)
(* What the scheduler's workers and the login windows of one console have  *)
(* in common: the rows of the workstations, seen as far as claims and      *)
(* logins look at them, and the Chrome processes on their profile          *)
(* directories.  A launch first kills every process whose command line     *)
(* contains the profile's path (app/workstations/profile_check.py).        *)
(***************************************************************************)
EXTENDS Naturals, FiniteSets

CONSTANTS
  Workstations,   \* workstation ids
  Threads,        \* identities of daemon threads
  Sessions,       \* identities of login sessions
  None,           \* no thread, no session
  Longer          \* [Workstations -> SUBSET Workstations]: whose profile path contains this one's

\* A process that lost the program that launched it is an orphan.
Orphan == "orphan"

ASSUME BrowsersOK ==
  /\ {None, Orphan} \cap (Workstations \cup Threads \cup Sessions) = {}
  /\ Threads \cap Sessions = {}
  /\ Longer \in [Workstations -> SUBSET Workstations]

VARIABLES
  row,            \* the workstations table
  chrome          \* the Chrome processes: who launched one, on whose profile

\* "new": healthy without a project URL, which no claim takes; "ready": healthy with
\* one; "held": manual_check, nurturing or disabled.
Rows == {"absent", "new", "ready", "busy", "resting", "held"}

Owners == Threads \cup Sessions \cup {Orphan}

MatchingAll(w) == Workstations
Matching(w) == {w} \cup Longer[w]

\* clean_profile_lock, then launch_persistent_context
Spared(w) == {c \in chrome : c.on \notin Matching(w)}
Launch(w, owner) == chrome' = Spared(w) \cup {[by |-> owner, on |-> w]}
HasChrome(w, owner) == [by |-> owner, on |-> w] \in chrome
Without(owner) == {c \in chrome : c.by # owner}
Becomes(w, r) == row' = [row EXCEPT ![w] = r]
=============================================================================
