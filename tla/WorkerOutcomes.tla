--------------------------- MODULE WorkerOutcomes ---------------------------
(***************************************************************************)
(* What a worker can hand to the final transaction: WorkerOutcome's        *)
(* final_status and workstation_outcome.  Dispatch assumes that a worker   *)
(* ends with one of these pairs, WorkerLoop shows that it does.            *)
(***************************************************************************)

Outcomes == { <<"success", "healthy">>, <<"download_failed", "healthy">>,
              <<"failed", "healthy">>, <<"retry_waiting", "page_failure">>,
              <<"retry_waiting", "manual_check">>, <<"manual_review", "manual_check">> }
=============================================================================
