--------------------- MODULE WorkstationHealthProperties ---------------------
(***************************************************************************)
(* What the counters and timers of WorkstationHealth add up to.  Those     *)
(* that speak of a row a worker holds suppose that nobody takes the row    *)
(* from under the worker (OnBusyRows = FALSE): what happens otherwise is   *)
(* Dispatch's subject.                                                     *)
(***************************************************************************)
EXTENDS WorkstationHealth

\* A workstation whose last ConsecutiveLimit ends were page failures is not used
\* again before it had its cooldown, whatever other failures, suspicions and
\* broken downloads came in between (state.py:126-144 and 218-240, the counter
\* against recover_workstation_states and release_orphaned_busy_workstations).
FailureRunStops ==
  \A w \in Workstations : Is(w, {"healthy", "busy"}) => run[w] < ConsecutiveLimit

\* A row's status, seen as WorkstationLifecycle sees it; the count is the column
\* ban_probe_count, in every status, whatever it counts there.
Standing(r) ==
  CASE r.status = "healthy" -> "available"
    [] r.status = "busy" -> "working"
    [] r.status = "cooldown" -> "resting"
    [] r.status = "manual_check" -> "held"
    [] r.status \in {"nurturing", "disabled"} -> "parked"

StandingOf == [w \in Workstations |-> Standing(row[w])]
CountOf == [w \in Workstations |-> row[w].strikes]

Lifecycle ==
  INSTANCE WorkstationLifecycle
    WITH standing <- StandingOf, count <- CountOf, Budget <- MaxStrikes

\* Every transaction on a workstation is a step of the lifecycle: a report only
\* moves a row that is busy, an operator's decision is undone by operators only,
\* no success lowers the strikes (as state.py:151-165 wants it, and against
\* config/loader.py:62-64, see SuccessResetsStrikes), and a count of probes never
\* goes back into use as strikes (state.py:103-269, 290-428;
\* workstations/repository.py:127-245).  Strikes do become probes: CountersApart.
ImplementsLifecycle == Lifecycle!Spec

\* A manual_check row that waits for its next probe does not wait for ever: it is
\* cleared, or the last tier of the back-off hands it to the operator
\* (state.py:364-396).
ProbesEnd ==
  \A w \in Workstations :
    Is(w, {"manual_check"}) /\ row[w].timer # "none" ~>
      ~(Is(w, {"manual_check"}) /\ row[w].timer # "none")

-----------------------------------------------------------------------------
\* Stated by comments and help texts, and not kept

\* "opens its Flow project URL ..., checks for unusual_activity / captcha phrases,
\* and either: flips the WS back to healthy (clean probe)" (cli.py:375-381): what
\* recover-banned returns to service shows no ban, unless its page has changed
\* since this run probed it.
ReturnsWhatItProbed ==
  [][\A w \in Workstations :
       cli' # cli /\ Is(w, {"manual_check"}) /\ row'[w].status = "healthy"
         => ~banned[w] \/ cli.on = w]_vars

\* "a successful generation resets the counter" (config/loader.py:62-64): a worker
\* that sets the failures to 0 leaves no strike.  state.py:151-165 keeps them
\* on purpose.
SuccessResetsStrikes ==
  [][\A w \in working \ working' :
       row[w].failures > 0 /\ row'[w].failures = 0 => row'[w].strikes = 0]_vars

\* "Reset strike counter on entering manual_check; the probe recovery has its own
\* counter semantics" (state.py:215-217): a row comes to manual_check with a count
\* of 0.  The login that meets an account without access leaves it
\* (web/routes/login.py:130-139).
CountersApart ==
  [][\A w \in Workstations :
       Is(w, Statuses \ {"manual_check"}) /\ row'[w].status = "manual_check"
         => row'[w].strikes = 0]_vars
=============================================================================
