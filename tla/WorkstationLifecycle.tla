------------------------ MODULE WorkstationLifecycle ------------------------
(***************************************************************************)
(* What the health of a workstation promises, whatever the counters and    *)
(* timers behind it: who may move a workstation from where to where.       *)
(*                                                                         *)
(*   available  may be given to a worker                                   *)
(*   working    is given to a worker                                       *)
(*   resting    comes back by itself                                       *)
(*   held       comes back by a probe of its page, or by an operator       *)
(*   parked     comes back by an operator only                             *)
(*                                                                         *)
(* A worker reports about a workstation that is working and about no       *)
(* other.  Each workstation has one count.  While the workstation is in    *)
(* use it is of the suspicions its account drew, the last one of the       *)
(* budget holds the workstation, and no success lowers it.  While the      *)
(* workstation is held it is of the probes its page failed.  A worker's    *)
(* hold starts it afresh and so does all that puts a held workstation into *)
(* use again, so that no probe is ever taken for a suspicion.  The other   *)
(* way it can happen: a login that bars an account leaves the count as it  *)
(* is, and the probes go on from the suspicions.                           *)
(***************************************************************************)
EXTENDS Naturals

CONSTANTS
  Workstations,   \* workstation ids
  Budget          \* the suspicion that holds the workstation

VARIABLES
  standing,       \* where each workstation stands
  count           \* of suspicions, and of failed probes while it is held

Standings == {"available", "working", "resting", "held", "parked"}

Init ==
  /\ standing = [w \in Workstations |-> "available"]
  /\ count = [w \in Workstations |-> 0]

Moves(w, from, to) == standing[w] \in from /\ standing' = [standing EXCEPT ![w] = to]
Keeps == UNCHANGED count
Forgets(w) == count' = [count EXCEPT ![w] = 0]

Assign(w) == Moves(w, {"available"}, "working") /\ Keeps

\* The worker is done, or its failures ask for a rest.
Report(w) == \E to \in {"available", "resting"} : Moves(w, {"working"}, to) /\ Keeps
\* The worker met a suspicion: rest while the budget lasts.
Warn(w) ==
  /\ count[w] + 1 < Budget
  /\ Moves(w, {"working"}, "resting")
  /\ count' = [count EXCEPT ![w] = @ + 1]
\* The worker met the last suspicion, or something only a person can solve.
Hold(w) == Moves(w, {"working"}, "held") /\ Forgets(w)
\* A login shows that the account has no access at all.
Bar(w) == Moves(w, Standings \ {"working"}, "held") /\ Keeps

Reinstate(w) == Moves(w, Standings \ {"working"}, "available") /\ Forgets(w)
\* For a course of manual use, or for good.
Park(w) == Moves(w, {"available", "resting", "held"}, "parked") /\ (Forgets(w) \/ Keeps)

\* One round of recovery returns as many workstations as it finds fit.
BackFrom(from, ws) ==
  /\ \A w \in ws : standing[w] = from
  /\ standing' = [w \in Workstations |-> IF w \in ws THEN "available" ELSE standing[w]]
Return(ws) == BackFrom("resting", ws) /\ Keeps
\* The workers of ws are gone without a report.
Release(ws) == BackFrom("working", ws) /\ Keeps
\* The pages of ws are clean again.
Parole(ws) ==
  /\ BackFrom("held", ws)
  /\ count' = [w \in Workstations |-> IF w \in ws THEN 0 ELSE count[w]]
\* They are not.  The count need not go on once no limit lies above it.
FailProbe(ws) ==
  /\ \A w \in ws : standing[w] = "held"
  /\ UNCHANGED standing
  /\ \E counted \in SUBSET ws :
       count' = [w \in Workstations |-> IF w \in counted THEN count[w] + 1 ELSE count[w]]

Next ==
  \/ \E w \in Workstations :
       Assign(w) \/ Report(w) \/ Warn(w) \/ Hold(w) \/ Bar(w) \/ Reinstate(w) \/ Park(w)
  \/ \E ws \in SUBSET Workstations :
       Return(ws) \/ Release(ws) \/ Parole(ws) \/ FailProbe(ws)

Spec == Init /\ [][Next]_<<standing, count>>
=============================================================================
