----------------------------- MODULE WorkerLoop -----------------------------
(***************************************************************************)
(* execute_task (app/worker/loop.py): the attempts at one task, the rows   *)
(* of task_results they write and the files they leave on disk.            *)
(*                                                                         *)
(* Every statement of a worker commits by itself, so a crash or another    *)
(* attempt can come between any two of them.  The page is external: each   *)
(* call to FlowPort returns any of the answers the loop tells apart.  Who  *)
(* may take the task when is Dispatch's business; here a task is taken     *)
(* back from a live attempt only by a "takeover".                          *)
(***************************************************************************)
EXTENDS Naturals, FiniteSets, WorkerOutcomes

CONSTANTS
  Attempts,        \* the calls of execute_task for this task
  Target,          \* target_count
  MaxRound,        \* max_round_per_task
  MaxCandidates,   \* the most candidates one generation returns
  Interference,    \* the disturbances that may happen
  Budget           \* how many of them: bounds the model

InterferenceKinds == {"die", "takeover", "full_reset", "edit_cursor", "delete"}

ASSUME LoopConstantsOK ==
  /\ {Target, MaxRound, MaxCandidates} \subseteq Nat \ {0}
  /\ Interference \subseteq InterferenceKinds
  /\ Budget \in Nat

VARIABLES
  row,       \* the row of tasks: status, downloaded_count, generation_round_count
  results,   \* the rows of task_results: storage key and the attempt that wrote it
  files,     \* the files in the result folder, likewise
  attempt,   \* the local state of every attempt
  wiped,     \* history: task_results were cleared under a live attempt
  budget     \* what is left of Budget

vars == <<row, results, files, attempt, wiped, budget>>

-----------------------------------------------------------------------------
\* State

Status == { "absent", "pending", "running", "success", "retry_waiting", "failed",
            "download_failed", "manual_review" }

\* A storage key is <<generation_round, sequence_no>>.
Stored == [at : Nat \X Nat, by : Attempts]

\* dc, rc and sess are downloaded_count, round_count and session_round_count;
\* left is the number of candidates of the round, seq the one in hand, got and
\* lost say how many were persisted and whether one failed.  out and final are
\* workstation_outcome and final_status; review says that captcha_action is
\* "skip", challenge that the page asks for a login or a captcha; peers is
\* history: the attempts alive at the claim.
AttemptState ==
  [ pc : {"free", "cursor", "open", "loop", "wait", "download", "insert", "count",
          "finalize", "ended"},
    dc : Nat, rc : Nat, sess : Nat, left : Nat, seq : Nat, got : Nat, lost : BOOLEAN,
    out : {"healthy", "page_failure", "manual_check"}, final : Status,
    review : BOOLEAN, challenge : BOOLEAN, peers : SUBSET Attempts ]

Unused ==
  [ pc |-> "free", dc |-> 0, rc |-> 0, sess |-> 0, left |-> 0, seq |-> 1, got |-> 0,
    lost |-> FALSE, out |-> "healthy", final |-> "retry_waiting", review |-> FALSE,
    challenge |-> FALSE, peers |-> {} ]

TypeOK ==
  /\ row \in [status : Status, downloaded : Nat, rounds : Nat]
  /\ results \subseteq Stored /\ IsFiniteSet(results)
  /\ files \subseteq Stored
  /\ attempt \in [Attempts -> AttemptState]
  /\ wiped \in BOOLEAN
  /\ budget \in Nat

Alive(a) == attempt[a].pc \notin {"free", "ended"}
Present == row.status # "absent"
Key(a) == <<attempt[a].rc, attempt[a].seq>>
Recorded(key) == \E r \in results : r.at = key

Init ==
  /\ row = [status |-> "pending", downloaded |-> 0, rounds |-> 0]
  /\ results = {} /\ files = {}
  /\ attempt = [a \in Attempts |-> Unused]
  /\ wiped = FALSE
  /\ budget = Budget

Spend(kind) == kind \in Interference /\ budget > 0 /\ budget' = budget - 1
Becomes(a, state) == attempt' = [attempt EXCEPT ![a] = state]

-----------------------------------------------------------------------------
\* An attempt

\* The claim binds the row; TaskInput takes its counters from it.
Claim(a) ==
  /\ attempt[a].pc = "free"
  /\ row.status \in {"pending", "retry_waiting"}
  /\ row' = [row EXCEPT !.status = "running"]
  /\ Becomes(a, [Unused EXCEPT !.pc = "cursor", !.dc = row.downloaded, !.rc = row.rounds,
                   !.peers = {b \in Attempts : Alive(b)}])
  /\ UNCHANGED <<results, files, wiped, budget>>

\* The cursor starts behind every round that task_results knows.
ReadCursorOfTask(a) ==
  /\ attempt[a].pc = "cursor"
  /\ Becomes(a, [attempt[a] EXCEPT !.pc = "open"])
  /\ UNCHANGED <<row, results, files, wiped, budget>>
ReadCursor(a) ==
  /\ attempt[a].pc = "cursor"
  /\ \E last \in {0} \cup {r.at[1] : r \in results} :
       /\ \A r \in results : r.at[1] <= last
       /\ Becomes(a, [attempt[a] EXCEPT !.pc = "open", !.rc = IF @ < last THEN last ELSE @])
  /\ UNCHANGED <<row, results, files, wiped, budget>>

Conclude(a, state, final, out) ==
  Becomes(a, [state EXCEPT !.pc = "finalize", !.final = final, !.out = out])

\* A circuit breaker.  captcha_action is a parameter that only the verdict of a
\* blocked attempt reads, so its value is chosen here.
Blocked(s, review, challenge) ==
  [s EXCEPT !.out = "manual_check", !.review = review, !.challenge = challenge]

\* flow.open() and the two early returns.
Open(a) ==
  /\ attempt[a].pc = "open"
  /\ \/ Becomes(a, [attempt[a] EXCEPT !.pc = "loop"])
     \/ \E review, challenge \in BOOLEAN :
          Conclude(a, Blocked(attempt[a], review, challenge), "retry_waiting", "manual_check")
     \/ Conclude(a, attempt[a], "retry_waiting", "page_failure")
  /\ UNCHANGED <<row, results, files, wiped, budget>>

GoesOn(a) == attempt[a].dc < Target /\ attempt[a].sess < MaxRound

StartRoundUncounted(a) ==
  /\ attempt[a].pc = "loop" /\ GoesOn(a)
  /\ Becomes(a, [attempt[a] EXCEPT !.pc = "wait"])
  /\ UNCHANGED <<row, results, files, wiped, budget>>
StartRound(a) ==
  /\ attempt[a].pc = "loop" /\ GoesOn(a)
  /\ Becomes(a, [attempt[a] EXCEPT !.pc = "wait", !.rc = @ + 1, !.sess = @ + 1])
  /\ UNCHANGED <<row, results, files, wiped, budget>>

\* The verdict of the loop's exit: final_status and workstation_outcome.
VerdictCapFirst(s) ==
  IF s.dc >= Target THEN <<"success", "healthy">>
  ELSE IF s.sess >= MaxRound THEN <<"failed", s.out>>
  ELSE <<"retry_waiting", s.out>>
Verdict(s) ==
  CASE s.dc >= Target -> <<"success", "healthy">>
    [] s.dc < Target /\ s.out = "manual_check" ->
         <<IF s.review /\ s.challenge THEN "manual_review" ELSE "retry_waiting", s.out>>
    [] s.dc < Target /\ s.out = "page_failure" -> <<"retry_waiting", s.out>>
    [] OTHER -> <<IF s.sess >= MaxRound THEN "failed" ELSE "retry_waiting", s.out>>
LeaveLoopSwapped(a, state) == Conclude(a, state, Verdict(state)[2], Verdict(state)[1])
LeaveLoop(a, state) == Conclude(a, state, Verdict(state)[1], Verdict(state)[2])

ExitLoop(a) ==
  /\ attempt[a].pc = "loop" /\ ~GoesOn(a)
  /\ LeaveLoop(a, attempt[a])
  /\ UNCHANGED <<row, results, files, wiped, budget>>

\* Upload, prompt, trigger and wait: candidates, a page that fails or times out,
\* or a circuit breaker.  Candidates are numbered from 1.
RoundReturns(a) ==
  /\ attempt[a].pc = "wait"
  /\ \/ \E n \in 0 .. MaxCandidates :
          Becomes(a, [attempt[a] EXCEPT !.pc = "download", !.left = n])
     \/ LeaveLoop(a, [attempt[a] EXCEPT !.out = "page_failure"])
     \/ \E review, challenge \in BOOLEAN : LeaveLoop(a, Blocked(attempt[a], review, challenge))
  /\ UNCHANGED <<row, results, files, wiped, budget>>

-----------------------------------------------------------------------------
\* _download_round

NextCandidate(s) == [s EXCEPT !.pc = "download", !.seq = @ + 1]

\* download_candidate writes the file of the key, over whatever is there; one that
\* fails half way has written it, too.
Stores(a) == files' = {f \in files : f.at # Key(a)} \cup {[at |-> Key(a), by |-> a]}

Download(a) ==
  /\ attempt[a].pc = "download"
  /\ attempt[a].seq <= attempt[a].left
  /\ \/ Stores(a) /\ Becomes(a, [attempt[a] EXCEPT !.pc = "insert"])
     \/ /\ Stores(a) \/ UNCHANGED files
        /\ Becomes(a, [NextCandidate(attempt[a]) EXCEPT !.lost = TRUE])
  /\ UNCHANGED <<row, results, wiped, budget>>

\* INSERT INTO task_results.  A key that is taken and a task that is gone (its
\* foreign key) both end in IntegrityError: the candidate is skipped.
Insert(a) ==
  /\ attempt[a].pc = "insert"
  /\ IF Present /\ ~Recorded(Key(a))
     THEN /\ results' = results \cup {[at |-> Key(a), by |-> a]}
          /\ Becomes(a, [attempt[a] EXCEPT !.pc = "count"])
     ELSE /\ Becomes(a, NextCandidate(attempt[a]))
          /\ UNCHANGED results
  /\ UNCHANGED <<row, files, wiped, budget>>

\* The live progress: downloaded_count becomes the number of rows.
Count(a) ==
  /\ attempt[a].pc = "count"
  /\ row' = IF Present
            THEN [row EXCEPT !.downloaded = Cardinality(results),
                    !.rounds = IF @ < attempt[a].rc THEN attempt[a].rc ELSE @]
            ELSE row
  /\ Becomes(a, [NextCandidate(attempt[a]) EXCEPT !.got = @ + 1])
  /\ UNCHANGED <<results, files, wiped, budget>>

\* What a round brought: when every candidate was lost, generation is not
\* triggered again.
BetweenRounds(s) == [s EXCEPT !.pc = "loop", !.left = 0, !.seq = 1, !.got = 0, !.lost = FALSE]
CountedSkips(s) == [BetweenRounds(s) EXCEPT !.dc = s.dc + s.left]
Counted(s) == [BetweenRounds(s) EXCEPT !.dc = s.dc + s.got]

EndRound(a) ==
  /\ attempt[a].pc = "download"
  /\ attempt[a].seq > attempt[a].left
  /\ IF attempt[a].got = 0 /\ attempt[a].lost
     THEN Conclude(a, attempt[a], "download_failed", "healthy")
     ELSE Becomes(a, Counted(attempt[a]))
  /\ UNCHANGED <<row, results, files, wiped, budget>>

-----------------------------------------------------------------------------
\* The end of an attempt

Ends(a) == Becomes(a, [Unused EXCEPT !.pc = "ended", !.peers = attempt[a].peers])

\* finalize_task: the attempt's own counters go to the row, whoever holds it.
Finalize(a) ==
  /\ attempt[a].pc = "finalize"
  /\ row' = IF Present
            THEN [status |-> attempt[a].final, downloaded |-> attempt[a].dc,
                  rounds |-> attempt[a].rc]
            ELSE row
  /\ Ends(a)
  /\ UNCHANGED <<results, files, wiped, budget>>

\* The process dies, or an exception leaves the thread.
Dies(a) ==
  /\ Alive(a)
  /\ Spend("die")
  /\ Ends(a)
  /\ UNCHANGED <<row, results, files, wiped>>

-----------------------------------------------------------------------------
\* What others do to the task

\* The boot cleanup, the zombie recovery, a reset or a resume that came late
\* take a running row back.
TakeBack ==
  /\ row.status = "running"
  /\ IF \E a \in Attempts : Alive(a) THEN Spend("takeover") ELSE UNCHANGED budget
  /\ \E s \in {"retry_waiting", "manual_review", "pending"} : row' = [row EXCEPT !.status = s]
  /\ UNCHANGED <<results, files, attempt, wiped>>

\* resume_task and the auto-resume keep the progress.
Resume ==
  /\ row.status \in {"retry_waiting", "failed", "download_failed", "manual_review"}
  /\ row' = [row EXCEPT !.status = "pending"]
  /\ UNCHANGED <<results, files, attempt, wiped, budget>>

\* task reset --full keeps the files and forgets the rest.
FullReset ==
  /\ Present
  /\ Spend("full_reset")
  /\ row' = [status |-> "pending", downloaded |-> 0, rounds |-> 0]
  /\ results' = {}
  /\ wiped' = (wiped \/ \E a \in Attempts : Alive(a))
  /\ UNCHANGED <<files, attempt>>

\* generation_round_count is edited by hand.
EditCursor ==
  /\ Present
  /\ Spend("edit_cursor")
  /\ \E n \in 0 .. row.rounds : row' = [row EXCEPT !.rounds = n]
  /\ UNCHANGED <<results, files, attempt, wiped>>

\* delete_task: the results go with the row, the files stay.
DeleteTask ==
  /\ Present
  /\ Spend("delete")
  /\ row' = [status |-> "absent", downloaded |-> 0, rounds |-> 0]
  /\ results' = {}
  /\ wiped' = (wiped \/ \E a \in Attempts : Alive(a))
  /\ UNCHANGED <<files, attempt>>

\* The same task_id is imported again.
ImportTask ==
  /\ ~Present
  /\ row' = [status |-> "pending", downloaded |-> 0, rounds |-> 0]
  /\ UNCHANGED <<results, files, attempt, wiped, budget>>

-----------------------------------------------------------------------------

AttemptStep(a) ==
  \/ ReadCursor(a) \/ Open(a) \/ StartRound(a) \/ ExitLoop(a) \/ RoundReturns(a)
  \/ Download(a) \/ Insert(a) \/ Count(a) \/ EndRound(a) \/ Finalize(a)

Next ==
  \/ \E a \in Attempts : Claim(a) \/ AttemptStep(a) \/ Dies(a)
  \/ TakeBack \/ Resume \/ FullReset \/ EditCursor \/ DeleteTask \/ ImportTask

Spec == Init /\ [][Next]_vars

\* Every call of the page has a time limit: an attempt goes on until it ends.
FairSpec == Spec /\ \A a \in Attempts : WF_vars(AttemptStep(a))
=============================================================================
