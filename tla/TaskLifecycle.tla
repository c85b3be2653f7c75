---------------------------- MODULE TaskLifecycle ----------------------------
(***************************************************************************)
(* What the dispatch core promises of a task, whatever the counters and    *)
(* recoveries behind it:                                                   *)
(*                                                                         *)
(*   - a task starts after the task it needs has succeeded, or was removed *)
(*     by an operator, and only while it has tries left;                   *)
(*   - every start costs a try, and nothing gives tries back: the tries of *)
(*     its retries, its automatic resumptions and its crashes are one sum; *)
(*   - a verdict is the end, until an operator removes the task.           *)
(*                                                                         *)
(* What an operator resumes or resets is a new start, not part of this.    *)
(***************************************************************************)
EXTENDS Naturals

CONSTANTS
  Tasks,     \* task ids
  None,      \* no task
  Needs,     \* [Tasks -> Tasks \cup {None}]: the task that has to succeed first
  Allowed    \* [Tasks -> Nat]: the tries of each task

VARIABLES
  stage,     \* where each task stands
  tries      \* the tries it has left

Verdicts == {"success", "failed", "download_failed", "manual_review"}

Init ==
  /\ stage = [t \in Tasks |-> "waiting"]
  /\ tries = Allowed

Start(t) ==
  /\ stage[t] = "waiting" /\ tries[t] > 0
  /\ Needs[t] # None => stage[Needs[t]] \in {"success", "absent"}
  /\ stage' = [stage EXCEPT ![t] = "running"]
  /\ tries' = [tries EXCEPT ![t] = @ - 1]

Ends(t, from, to) ==
  /\ stage[t] \in from
  /\ stage' = [stage EXCEPT ![t] = to]
  /\ tries' = [tries EXCEPT ![t] = 0]

Finish(t) == \E verdict \in Verdicts : Ends(t, {"running"}, verdict)
Remove(t) == Ends(t, Verdicts \cup {"waiting", "running"}, "absent")

\* A worker gives its task back, or a recovery takes back all it finds: each waits
\* for another start, at the cost of further tries at most, or for the operator.
TakeBack(ts) ==
  /\ \A t \in ts : stage[t] = "running"
  /\ \E again \in SUBSET ts :
       /\ stage' = [t \in Tasks |-> IF t \in again THEN "waiting"
                                    ELSE IF t \in ts THEN "manual_review" ELSE stage[t]]
       /\ \A t \in again : tries'[t] \in 0 .. tries[t]
       /\ \A t \in Tasks \ again : tries'[t] = IF t \in ts THEN 0 ELSE tries[t]

Next ==
  \/ \E ts \in SUBSET Tasks : TakeBack(ts)
  \/ \E t \in Tasks : Start(t) \/ Finish(t) \/ Remove(t)

Spec == Init /\ [][Next]_<<stage, tries>>
=============================================================================
