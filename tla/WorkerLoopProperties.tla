------------------------ MODULE WorkerLoopProperties ------------------------
(***************************************************************************)
(* What the attempts at a task promise.                                    *)
(***************************************************************************)
EXTENDS WorkerLoop

\* A task is a success only with target_count rows in task_results, and its
\* counter never overstates them: not after a crash between the INSERT and the
\* UPDATE, not with two attempts at once.  task reset --full under a live attempt
\* is the exception.
CountIsBacked ==
  Present /\ ~wiped =>
    /\ row.downloaded <= Cardinality(results)
    /\ row.status = "success" => Target <= Cardinality(results)

\* The file of a recorded result still holds what was recorded, unless another
\* attempt ran at the same time and drew the same round: resumes, crashes and an
\* edited generation_round_count never lead a later attempt to an earlier file.
Contemporary(a, b) == a \in attempt[b].peers \/ b \in attempt[a].peers
KeptFiles ==
  \A r \in results : r \in files \/ \E f \in files : f.at = r.at /\ Contemporary(f.by, r.by)

\* When nobody interfered and no attempt died, the counter that the last statement of
\* an attempt writes, its own sum, is the number of rows (worker/loop.py:351).
CountIsExact ==
  budget = Budget /\ Present /\ (\A a \in Attempts : ~Alive(a)) =>
    row.downloaded = Cardinality(results)

\* What reaches the final transaction is one of the pairs that Dispatch expects;
\* the loop's last else, a healthy retry, is never taken.
OutcomeKnown ==
  \A a \in Attempts : attempt[a].pc = "finalize" =>
    <<attempt[a].final, attempt[a].out>> \in Outcomes

\* The loop ends, whatever the page answers: empty rounds count too.
LoopEnds == \A a \in Attempts : Alive(a) ~> ~Alive(a)

\* The statements an attempt has before it at most: a round is a start, an answer,
\* three statements for each candidate and an end.
RoundCost == 3 * MaxCandidates + 3
RoundsAhead(s) == (MaxRound - s.sess) * RoundCost
StepsLeft(s) ==
  CASE s.pc = "cursor" -> RoundsAhead(s) + 4
    [] s.pc = "open" -> RoundsAhead(s) + 3
    [] s.pc = "loop" -> RoundsAhead(s) + 2
    [] s.pc = "wait" -> RoundsAhead(s) + 3 * MaxCandidates + 4
    [] s.pc = "download" -> RoundsAhead(s) + 3 * (s.left + 1 - s.seq) + 3
    [] s.pc = "insert" -> RoundsAhead(s) + 3 * (s.left + 1 - s.seq) + 2
    [] s.pc = "count" -> RoundsAhead(s) + 3 * (s.left + 1 - s.seq) + 1
    [] s.pc = "finalize" -> 1
    [] OTHER -> 0

\* An attempt never starts anew, and every statement of it brings its end nearer,
\* whatever the page, the database and the other attempts answer: not one
\* branch of the loop, nor of the downloads, leads back without using up a round
\* or a candidate (loop.py:222-352, 443-530).
Advances ==
  \A a \in Attempts : attempt'[a] # attempt[a] =>
    IF attempt[a].pc = "free" THEN StepsLeft(attempt'[a]) = MaxRound * RoundCost + 4
    ELSE StepsLeft(attempt'[a]) \in 0 .. (StepsLeft(attempt[a]) - 1)
AttemptsAdvance == [][Advances]_vars

-----------------------------------------------------------------------------
\* What the repository says and the runs refute

\* docs: the task goes on, downloaded_count does not roll back.  A deleted or a
\* fully reset task is not meant.
DownloadedNeverRollsBack ==
  [][results \subseteq results' => row.downloaded <= row'.downloaded]_vars

\* docs: at night a task that meets a captcha is marked manual_review.
NightCaptchaIsReviewed ==
  \A a \in Attempts :
    attempt[a].pc = "finalize" /\ attempt[a].review /\ attempt[a].challenge =>
      attempt[a].final = "manual_review"
=============================================================================
