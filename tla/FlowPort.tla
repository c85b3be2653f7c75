------------------------------ MODULE FlowPort ------------------------------
(***************************************************************************)
(* What the worker relies on when it drives a page: the FlowPort protocol  *)
(* of src/app/worker/flow_port.py, as the scripted MockFlowPort of         *)
(* flow_mock.py plays it in the tests.  One session: open, then rounds of  *)
(* upload, paste, trigger, wait and downloads, then close.                 *)
(*                                                                         *)
(* Nothing is said here of how a page is driven.  FlowRound implements     *)
(* this module with a real page that changes under it.                     *)
(***************************************************************************)
EXTENDS FiniteSets

CONSTANT
    Handle      \* what a candidate is to the worker: an opaque download handle

VARIABLES
    phase,      \* where the session is in the protocol
    answer,     \* the last GenerationRoundResult, or NoAnswer
    kept        \* handles whose download succeeded

vars == <<phase, answer, kept>>

-----------------------------------------------------------------------------
PageStates ==
    {"ready", "unusual_activity", "login_required", "captcha", "load_failed",
     "service_unavailable", "no_flow_access"}

Answers ==
    [state : PageStates, candidates : SUBSET Handle, timed_out : BOOLEAN]

NoAnswer == [state |-> "ready", candidates |-> {}, timed_out |-> FALSE]

(* A round that is ready produced something, any other produced nothing,   *)
(* and only a round that did not load can have timed out.                  *)
Lawful(a) ==
    /\ a \in Answers
    /\ a.state = "ready" <=> a.candidates # {}
    /\ a.timed_out => a.state = "load_failed"

Phases ==
    {"closed", "open", "attached", "prompted", "triggered", "answered", "over",
     "shut"}

-----------------------------------------------------------------------------
Init ==
    /\ phase = "closed"
    /\ answer = NoAnswer
    /\ kept = {}

(* open() hands back a page state; only a ready page is worked on.  It may *)
(* also raise: the profile is missing or the browser does not start.       *)
Open ==
    /\ phase = "closed"
    /\ \/ \E s \in PageStates :
             /\ answer' = [NoAnswer EXCEPT !.state = s]
             /\ phase' = IF s = "ready" THEN "open" ELSE "over"
       \/ phase' = "over" /\ answer' = NoAnswer
    /\ UNCHANGED kept

(* Each preparation succeeds or raises FlowPortError, which ends the       *)
(* session.                                                                *)
Prepare(from, to) ==
    /\ phase = from
    /\ phase' \in {to, "over"}
    /\ answer' = NoAnswer
    /\ UNCHANGED kept

Upload == Prepare("open", "attached") \/ Prepare("answered", "attached")
Paste == Prepare("attached", "prompted")
Trigger == Prepare("prompted", "triggered")

Wait ==
    /\ phase = "triggered"
    /\ answer' \in Answers
    /\ Lawful(answer')
    /\ phase' = IF answer'.state = "ready" THEN "answered" ELSE "over"
    /\ UNCHANGED kept

(* Every candidate is asked for; each download succeeds or raises.         *)
Download ==
    /\ phase = "answered"
    /\ \E got \in SUBSET answer.candidates : kept' = kept \cup got
    /\ UNCHANGED <<phase, answer>>

Close ==
    /\ phase \in {"open", "answered", "over"}
    /\ phase' = "shut"
    /\ UNCHANGED <<answer, kept>>

Next == Open \/ Upload \/ Paste \/ Trigger \/ Wait \/ Download \/ Close

Spec == Init /\ [][Next]_vars
=============================================================================
