-------------------------- MODULE WorkerLoopProofs --------------------------
(***************************************************************************)
(* Theorems about the worker loop, for every target, round limit, number   *)
(* of candidates, number of attempts and amount of interference.           *)
(***************************************************************************)
EXTENDS WorkerLoopProperties, FiniteSetTheorems, TLAPS

-----------------------------------------------------------------------------
\* Type correctness

LEMMA SpendType == ASSUME budget \in Nat, NEW k, Spend(k) PROVE budget' \in Nat
BY DEF Spend

LEMMA BecomesType ==
  ASSUME attempt \in [Attempts -> AttemptState], NEW a, NEW state \in AttemptState,
         Becomes(a, state)
  PROVE  attempt' \in [Attempts -> AttemptState]
BY DEF Becomes

LEMMA UnusedType == Unused \in AttemptState
BY DEF Unused, AttemptState, Status

\* The steps of the loop keep a local state well formed.
LEMMA StateChanges ==
  ASSUME NEW s \in AttemptState
  PROVE  /\ \A pc \in {"open", "loop", "insert"} : [s EXCEPT !.pc = pc] \in AttemptState
         /\ \A n \in Nat : [s EXCEPT !.pc = "open", !.rc = n] \in AttemptState
         /\ [s EXCEPT !.pc = "wait", !.rc = @ + 1, !.sess = @ + 1] \in AttemptState
         /\ \A n \in Nat : [s EXCEPT !.pc = "download", !.left = n] \in AttemptState
         /\ NextCandidate(s) \in AttemptState
         /\ [NextCandidate(s) EXCEPT !.lost = TRUE] \in AttemptState
         /\ [NextCandidate(s) EXCEPT !.got = @ + 1] \in AttemptState
         /\ [s EXCEPT !.pc = "count"] \in AttemptState
         /\ Counted(s) \in AttemptState
         /\ [s EXCEPT !.out = "page_failure"] \in AttemptState
         /\ \A review, challenge \in BOOLEAN : Blocked(s, review, challenge) \in AttemptState
<1>1. /\ s.rc + 1 \in Nat /\ s.sess + 1 \in Nat /\ s.seq + 1 \in Nat
      /\ s.got + 1 \in Nat /\ s.dc + s.got \in Nat
  BY DEF AttemptState
<1>2. /\ NextCandidate(s) \in AttemptState
      /\ NextCandidate(s).got = s.got
  BY <1>1 DEF AttemptState, NextCandidate
<1>3. BetweenRounds(s) \in AttemptState
  BY DEF AttemptState, BetweenRounds
<1>4. Counted(s) \in AttemptState
  BY <1>1, <1>3 DEF AttemptState, Counted
<1>5. \A review, challenge \in BOOLEAN : Blocked(s, review, challenge) \in AttemptState
  BY DEF AttemptState, Blocked
<1>6. [s EXCEPT !.out = "page_failure"] \in AttemptState
  BY DEF AttemptState
<1>7. /\ [NextCandidate(s) EXCEPT !.lost = TRUE] \in AttemptState
      /\ [NextCandidate(s) EXCEPT !.got = @ + 1] \in AttemptState
  BY <1>1, <1>2 DEF AttemptState
<1>8. /\ \A pc \in {"open", "loop", "insert", "count"} : [s EXCEPT !.pc = pc] \in AttemptState
      /\ \A n \in Nat : [s EXCEPT !.pc = "open", !.rc = n] \in AttemptState
      /\ \A n \in Nat : [s EXCEPT !.pc = "download", !.left = n] \in AttemptState
  BY DEF AttemptState
<1>9. [s EXCEPT !.pc = "wait", !.rc = @ + 1, !.sess = @ + 1] \in AttemptState
  BY <1>1 DEF AttemptState
<1> QED BY <1>2, <1>4, <1>5, <1>6, <1>7, <1>8, <1>9

\* Outs and finals of a verdict.
Outs == {"healthy", "page_failure", "manual_check"}

LEMMA VerdictType ==
  ASSUME NEW s \in AttemptState
  PROVE  Verdict(s)[1] \in Status /\ Verdict(s)[2] \in Outs
BY LoopConstantsOK DEF Verdict, AttemptState, Status, Outs, LoopConstantsOK

LEMMA ConcludeType ==
  ASSUME attempt \in [Attempts -> AttemptState], NEW a, NEW s \in AttemptState,
         NEW f \in Status, NEW o \in Outs, Conclude(a, s, f, o)
  PROVE  attempt' \in [Attempts -> AttemptState]
<1>1. [s EXCEPT !.pc = "finalize", !.final = f, !.out = o] \in AttemptState
  BY DEF AttemptState, Outs
<1> QED BY <1>1, BecomesType DEF Conclude

LEMMA LeaveLoopType ==
  ASSUME attempt \in [Attempts -> AttemptState], NEW a, NEW s \in AttemptState, LeaveLoop(a, s)
  PROVE  attempt' \in [Attempts -> AttemptState]
BY VerdictType, ConcludeType DEF LeaveLoop

LEMMA InitType == Init => TypeOK
<1> SUFFICES ASSUME Init PROVE TypeOK
  OBVIOUS
<1>1. IsFiniteSet({})
  BY FS_EmptySet
<1> QED BY <1>1, UnusedType, LoopConstantsOK DEF Init, TypeOK, LoopConstantsOK, Status, Stored

LEMMA LoopStepType ==
  ASSUME TypeOK, NEW a \in Attempts,
         Claim(a) \/ ReadCursor(a) \/ Open(a) \/ StartRound(a) \/ ExitLoop(a) \/ RoundReturns(a)
  PROVE  TypeOK'
<1> DEFINE s == attempt[a]
<1>0. s \in AttemptState /\ attempt \in [Attempts -> AttemptState]
  BY DEF TypeOK
<1>1. CASE Claim(a)
  <2>1. row' \in [status : Status, downloaded : Nat, rounds : Nat]
    BY <1>1 DEF TypeOK, Claim, Status
  <2>2. /\ row.downloaded \in Nat /\ row.rounds \in Nat
        /\ {b \in Attempts : Alive(b)} \subseteq Attempts
    BY DEF TypeOK
  <2>3. [Unused EXCEPT !.pc = "cursor", !.dc = row.downloaded, !.rc = row.rounds,
           !.peers = {b \in Attempts : Alive(b)}] \in AttemptState
    BY <2>2, UnusedType DEF AttemptState
  <2>4. attempt' \in [Attempts -> AttemptState]
    BY <1>0, <1>1, <2>3, BecomesType DEF Claim
  <2> QED BY <1>1, <2>1, <2>4 DEF TypeOK, Claim
<1>2. CASE ReadCursor(a)
  <2>1. PICK last \in {0} \cup {r.at[1] : r \in results} :
          Becomes(a, [s EXCEPT !.pc = "open", !.rc = IF @ < last THEN last ELSE @])
    BY <1>2 DEF ReadCursor
  <2>2. last \in Nat
    BY DEF TypeOK, Stored
  <2>3. (IF s.rc < last THEN last ELSE s.rc) \in Nat
    BY <1>0, <2>2 DEF AttemptState
  <2>4. [s EXCEPT !.pc = "open", !.rc = IF @ < last THEN last ELSE @] \in AttemptState
    BY <1>0, <2>3, StateChanges
  <2>5. attempt' \in [Attempts -> AttemptState]
    BY <1>0, <2>1, <2>4, BecomesType
  <2> QED BY <1>2, <2>5 DEF TypeOK, ReadCursor
<1>3. CASE Open(a)
  <2>1. attempt' \in [Attempts -> AttemptState]
    <3>1. CASE Becomes(a, [s EXCEPT !.pc = "loop"])
      BY <1>0, <3>1, StateChanges, BecomesType
    <3>2. CASE \E review, challenge \in BOOLEAN :
                 Conclude(a, Blocked(s, review, challenge), "retry_waiting", "manual_check")
      BY <1>0, <3>2, StateChanges, ConcludeType DEF Status, Outs
    <3>3. CASE Conclude(a, s, "retry_waiting", "page_failure")
      BY <1>0, <3>3, ConcludeType DEF Status, Outs
    <3> QED BY <1>3, <3>1, <3>2, <3>3 DEF Open
  <2> QED BY <1>3, <2>1 DEF TypeOK, Open
<1>4. CASE StartRound(a)
  <2>1. attempt' \in [Attempts -> AttemptState]
    BY <1>0, <1>4, StateChanges, BecomesType DEF StartRound
  <2> QED BY <1>4, <2>1 DEF TypeOK, StartRound
<1>5. CASE ExitLoop(a)
  <2>1. attempt' \in [Attempts -> AttemptState]
    BY <1>0, <1>5, LeaveLoopType DEF ExitLoop
  <2> QED BY <1>5, <2>1 DEF TypeOK, ExitLoop
<1>6. CASE RoundReturns(a)
  <2>1. attempt' \in [Attempts -> AttemptState]
    <3>1. CASE \E n \in 0 .. MaxCandidates : Becomes(a, [s EXCEPT !.pc = "download", !.left = n])
      <4>1. PICK n \in 0 .. MaxCandidates : Becomes(a, [s EXCEPT !.pc = "download", !.left = n])
        BY <3>1
      <4>2. n \in Nat
        BY LoopConstantsOK DEF LoopConstantsOK
      <4>3. [s EXCEPT !.pc = "download", !.left = n] \in AttemptState
        BY <1>0, <4>2, StateChanges
      <4> QED BY <1>0, <4>1, <4>3, BecomesType
    <3>2. CASE LeaveLoop(a, [s EXCEPT !.out = "page_failure"])
      BY <1>0, <3>2, StateChanges, LeaveLoopType
    <3>3. CASE \E review, challenge \in BOOLEAN : LeaveLoop(a, Blocked(s, review, challenge))
      BY <1>0, <3>3, StateChanges, LeaveLoopType
    <3> QED BY <1>6, <3>1, <3>2, <3>3 DEF RoundReturns
  <2> QED BY <1>6, <2>1 DEF TypeOK, RoundReturns
<1> QED BY <1>1, <1>2, <1>3, <1>4, <1>5, <1>6

LEMMA DownloadStepType ==
  ASSUME TypeOK, NEW a \in Attempts,
         Download(a) \/ Insert(a) \/ Count(a) \/ EndRound(a)
  PROVE  TypeOK'
<1> DEFINE s == attempt[a]
<1>0. s \in AttemptState /\ attempt \in [Attempts -> AttemptState]
  BY DEF TypeOK
<1>1. [at |-> Key(a), by |-> a] \in Stored
  BY <1>0 DEF Key, Stored, AttemptState
<1>2. CASE Download(a)
  <2>1. files' \subseteq Stored
    BY <1>1, <1>2 DEF TypeOK, Download, Stores
  <2>2. attempt' \in [Attempts -> AttemptState]
    BY <1>0, <1>2, StateChanges, BecomesType DEF Download
  <2> QED BY <1>2, <2>1, <2>2 DEF TypeOK, Download
<1>3. CASE Insert(a)
  <2>1. IsFiniteSet(results \cup {[at |-> Key(a), by |-> a]})
    BY FS_AddElement DEF TypeOK
  <2>2. results' \subseteq Stored /\ IsFiniteSet(results')
    BY <1>1, <1>3, <2>1 DEF TypeOK, Insert
  <2>3. attempt' \in [Attempts -> AttemptState]
    BY <1>0, <1>3, StateChanges, BecomesType DEF Insert
  <2> QED BY <1>3, <2>2, <2>3 DEF TypeOK, Insert
<1>4. CASE Count(a)
  <2>1. Cardinality(results) \in Nat /\ s.rc \in Nat
    BY <1>0, FS_CardinalityType DEF TypeOK, AttemptState
  <2>2. row' \in [status : Status, downloaded : Nat, rounds : Nat]
    BY <1>4, <2>1 DEF TypeOK, Count
  <2>3. attempt' \in [Attempts -> AttemptState]
    BY <1>0, <1>4, StateChanges, BecomesType DEF Count
  <2> QED BY <1>4, <2>2, <2>3 DEF TypeOK, Count
<1>5. CASE EndRound(a)
  <2>1. attempt' \in [Attempts -> AttemptState]
    BY <1>0, <1>5, StateChanges, BecomesType, ConcludeType DEF EndRound, Status, Outs
  <2> QED BY <1>5, <2>1 DEF TypeOK, EndRound
<1> QED BY <1>2, <1>3, <1>4, <1>5

LEMMA EndStepType ==
  ASSUME TypeOK, NEW a \in Attempts, Finalize(a) \/ Dies(a)
  PROVE  TypeOK'
<1>0. attempt[a] \in AttemptState /\ attempt \in [Attempts -> AttemptState]
  BY DEF TypeOK
<1>1. [Unused EXCEPT !.pc = "ended", !.peers = attempt[a].peers] \in AttemptState
  BY <1>0, UnusedType DEF AttemptState
<1>2. attempt' \in [Attempts -> AttemptState]
  BY <1>0, <1>1, BecomesType DEF Finalize, Dies, Ends
<1>3. row' \in [status : Status, downloaded : Nat, rounds : Nat]
  <2>1. [status |-> attempt[a].final, downloaded |-> attempt[a].dc, rounds |-> attempt[a].rc]
          \in [status : Status, downloaded : Nat, rounds : Nat]
    BY <1>0 DEF AttemptState
  <2> QED BY <2>1 DEF TypeOK, Finalize, Dies
<1>4. budget' \in Nat
  BY SpendType DEF TypeOK, Finalize, Dies
<1> QED BY <1>2, <1>3, <1>4 DEF TypeOK, Finalize, Dies

LEMMA OthersType ==
  ASSUME TypeOK, TakeBack \/ Resume \/ FullReset \/ EditCursor \/ DeleteTask \/ ImportTask
  PROVE  TypeOK'
<1>1. row' \in [status : Status, downloaded : Nat, rounds : Nat]
  <2>1. CASE EditCursor
    <3>1. PICK n \in 0 .. row.rounds : row' = [row EXCEPT !.rounds = n]
      BY <2>1 DEF EditCursor
    <3> QED BY <3>1 DEF TypeOK
  <2> QED BY <2>1 DEF TypeOK, TakeBack, Resume, FullReset, DeleteTask, ImportTask, Status
<1>2. results' \subseteq Stored /\ IsFiniteSet(results')
  BY FS_EmptySet DEF TypeOK, TakeBack, Resume, FullReset, EditCursor, DeleteTask, ImportTask
<1>3. budget' \in Nat
  BY SpendType DEF TypeOK, TakeBack, Resume, FullReset, EditCursor, DeleteTask, ImportTask
<1>4. wiped' \in BOOLEAN
  BY DEF TypeOK, TakeBack, Resume, FullReset, EditCursor, DeleteTask, ImportTask
<1> QED BY <1>1, <1>2, <1>3, <1>4 DEF TypeOK, TakeBack, Resume, FullReset, EditCursor, DeleteTask, ImportTask

LEMMA NextType == TypeOK /\ [Next]_vars => TypeOK'
<1> SUFFICES ASSUME TypeOK, [Next]_vars PROVE TypeOK'
  OBVIOUS
<1>1. CASE UNCHANGED vars
  BY <1>1 DEF TypeOK, vars
<1>2. ASSUME NEW a \in Attempts, Claim(a) \/ AttemptStep(a) \/ Dies(a) PROVE TypeOK'
  BY <1>2, LoopStepType, DownloadStepType, EndStepType DEF AttemptStep
<1>3. CASE TakeBack \/ Resume \/ FullReset \/ EditCursor \/ DeleteTask \/ ImportTask
  BY <1>3, OthersType
<1> QED BY <1>1, <1>2, <1>3 DEF Next

\* Type correctness: rows, stored results and local states stay well formed,
\* whatever the page answers and whoever interferes.
THEOREM LoopTypeCorrect == Spec => []TypeOK
<1> QED BY InitType, NextType, PTL DEF Spec

-----------------------------------------------------------------------------
\* What one attempt's move leaves alone

LEMMA BecomesState ==
  ASSUME TypeOK, NEW a \in Attempts, NEW s, Becomes(a, s)
  PROVE  /\ attempt'[a] = s
         /\ \A b \in Attempts : b # a => attempt'[b] = attempt[b]
BY DEF TypeOK, Becomes

\* Only a success that counted its target leaves the loop as one.
LEMMA VerdictSuccess ==
  ASSUME NEW s \in AttemptState, Verdict(s)[1] = "success"
  PROVE  s.dc >= Target
BY LoopConstantsOK DEF Verdict, AttemptState, LoopConstantsOK

\* A circuit breaker touches neither the counters nor the place in the round.
LEMMA BlockedKeeps ==
  ASSUME NEW s \in AttemptState, NEW review \in BOOLEAN, NEW challenge \in BOOLEAN
  PROVE  /\ Blocked(s, review, challenge) \in AttemptState
         /\ Blocked(s, review, challenge).dc = s.dc
         /\ Blocked(s, review, challenge).got = s.got
         /\ Blocked(s, review, challenge).out = "manual_check"
         /\ Blocked(s, review, challenge).peers = s.peers
<1>1. Blocked(s, review, challenge) \in AttemptState
  BY StateChanges
<1> QED BY <1>1 DEF Blocked, AttemptState

-----------------------------------------------------------------------------
\* The counters are backed by rows

\* The rows an attempt counts on: those it found counted when it claimed the
\* task, those of this round, and the one it has inserted and not counted yet.
Claimed(a) ==
  attempt[a].dc + attempt[a].got + (IF attempt[a].pc = "count" THEN 1 ELSE 0)

ClaimsBacked == ~wiped =>
  \A a \in Attempts : Alive(a) => Claimed(a) <= Cardinality(results)
SuccessEarned == \A a \in Attempts :
  attempt[a].pc = "finalize" /\ attempt[a].final = "success" => attempt[a].dc >= Target

BackedInv == TypeOK /\ CountIsBacked /\ ClaimsBacked /\ SuccessEarned

LEMMA InitBacked == Init => BackedInv
<1> SUFFICES ASSUME Init PROVE BackedInv
  OBVIOUS
<1>1. TypeOK /\ Cardinality({}) = 0
  BY InitType, FS_EmptySet
<1> QED BY <1>1 DEF BackedInv, Init, CountIsBacked, ClaimsBacked, SuccessEarned, Alive,
               Unused

\* A move of one attempt that leaves the task and its results alone.
LEMMA LoopMoveBacked ==
  ASSUME BackedInv, TypeOK', NEW a \in Attempts, NEW s, Becomes(a, s),
         UNCHANGED <<row, results, wiped>>,
         Alive(a), s.pc \in {"open", "loop", "wait", "download", "insert", "finalize"},
         s.dc + s.got <= Claimed(a),
         s.pc = "finalize" /\ s.final = "success" => s.dc >= Target
  PROVE  BackedInv'
<1>1. attempt'[a] = s /\ \A b \in Attempts : b # a => attempt'[b] = attempt[b]
  BY BecomesState DEF BackedInv
<1>2. CountIsBacked'
  BY DEF BackedInv, CountIsBacked, Present
<1>3. SuccessEarned'
  BY <1>1 DEF BackedInv, SuccessEarned
<1>4. ClaimsBacked'
  <2> SUFFICES ASSUME ~wiped, NEW b \in Attempts, Alive(b)'
               PROVE  Claimed(b)' <= Cardinality(results)
    BY DEF ClaimsBacked, Present
  <2>0. Cardinality(results) \in Nat /\ s \in AttemptState /\ attempt[a] \in AttemptState
    BY <1>1, FS_CardinalityType DEF BackedInv, TypeOK
  <2>1. CASE b = a
    <3>1. Claimed(a) <= Cardinality(results)
      BY DEF BackedInv, ClaimsBacked
    <3>2. Claimed(a)' = s.dc + s.got
      BY <1>1, <2>0 DEF Claimed, AttemptState
    <3>3. s.dc + s.got \in Nat /\ Claimed(a) \in Nat
      BY <2>0 DEF Claimed, AttemptState
    <3> QED BY <2>0, <2>1, <3>1, <3>2, <3>3
  <2>2. CASE b # a
    BY <1>1, <2>2 DEF BackedInv, ClaimsBacked, Claimed, Alive
  <2> QED BY <2>1, <2>2
<1> QED BY <1>2, <1>3, <1>4 DEF BackedInv

LEMMA ConcludeBacked ==
  ASSUME BackedInv, TypeOK', NEW a \in Attempts, NEW s \in AttemptState, NEW f, NEW o,
         Conclude(a, s, f, o), UNCHANGED <<row, results, wiped>>,
         Alive(a), s.dc + s.got <= Claimed(a), f = "success" => s.dc >= Target
  PROVE  BackedInv'
<1> DEFINE t == [s EXCEPT !.pc = "finalize", !.final = f, !.out = o]
<1>1. t.pc = "finalize" /\ t.final = f /\ t.dc = s.dc /\ t.got = s.got
  BY DEF AttemptState
<1> HIDE DEF t
<1>2. Becomes(a, t)
  BY DEF Conclude, t
<1> QED BY <1>1, <1>2, LoopMoveBacked

\* The claim takes the row's counter, which is backed.
LEMMA ClaimBacked ==
  ASSUME BackedInv, TypeOK', NEW a \in Attempts, Claim(a)
  PROVE  BackedInv'
<1> DEFINE s == [Unused EXCEPT !.pc = "cursor", !.dc = row.downloaded, !.rc = row.rounds,
                   !.peers = {b \in Attempts : Alive(b)}]
<1>1. s.pc = "cursor" /\ s.dc = row.downloaded /\ s.got = 0
  BY DEF Unused
<1>2. Becomes(a, s)
  BY DEF Claim
<1> HIDE DEF s
<1>3. attempt'[a] = s /\ \A b \in Attempts : b # a => attempt'[b] = attempt[b]
  BY <1>2, BecomesState DEF BackedInv
<1>4. /\ row'.downloaded = row.downloaded /\ row'.status = "running"
      /\ UNCHANGED <<results, wiped>>
      /\ Present
  BY DEF Claim, BackedInv, TypeOK, Present
<1>5. CountIsBacked'
  BY <1>4 DEF BackedInv, CountIsBacked, Present
<1>6. SuccessEarned'
  BY <1>1, <1>3 DEF BackedInv, SuccessEarned
<1>7. ClaimsBacked'
  <2> SUFFICES ASSUME ~wiped, NEW b \in Attempts, Alive(b)'
               PROVE  Claimed(b)' <= Cardinality(results)
    BY <1>4 DEF ClaimsBacked
  <2>1. CASE b = a
    <3>1. Claimed(b)' = row.downloaded
      BY <1>1, <1>3, <2>1 DEF Claimed, BackedInv, TypeOK
    <3> QED BY <1>4, <3>1 DEF BackedInv, CountIsBacked
  <2>2. CASE b # a
    BY <1>3, <1>4, <2>2 DEF BackedInv, ClaimsBacked, Claimed, Alive
  <2> QED BY <2>1, <2>2
<1> QED BY <1>5, <1>6, <1>7 DEF BackedInv

LEMMA LoopStepBacked ==
  ASSUME BackedInv, TypeOK', NEW a \in Attempts,
         ReadCursor(a) \/ Open(a) \/ StartRound(a) \/ ExitLoop(a) \/ RoundReturns(a)
  PROVE  BackedInv'
<1> DEFINE s == attempt[a]
<1>0. /\ s \in AttemptState /\ Alive(a) /\ s.dc + s.got <= Claimed(a)
      /\ UNCHANGED <<row, results, wiped>>
  <2>1. s \in AttemptState
    BY DEF BackedInv, TypeOK
  <2>2. s.pc \in {"cursor", "open", "loop", "wait"}
    BY DEF ReadCursor, Open, StartRound, ExitLoop, RoundReturns
  <2>3. Claimed(a) = s.dc + s.got /\ s.dc + s.got \in Nat
    BY <2>1, <2>2 DEF Claimed, AttemptState
  <2>4. UNCHANGED <<row, results, wiped>>
    BY DEF ReadCursor, Open, StartRound, ExitLoop, RoundReturns
  <2> QED BY <2>1, <2>2, <2>3, <2>4 DEF Alive
<1>1. CASE ReadCursor(a)
  <2>1. PICK last : Becomes(a, [s EXCEPT !.pc = "open", !.rc = IF @ < last THEN last ELSE @])
    BY <1>1 DEF ReadCursor
  <2> QED BY <1>0, <2>1, LoopMoveBacked DEF AttemptState
<1>2. CASE Open(a)
  <2>1. CASE Becomes(a, [s EXCEPT !.pc = "loop"])
    BY <1>0, <2>1, LoopMoveBacked DEF AttemptState
  <2>2. CASE \E review, challenge \in BOOLEAN :
               Conclude(a, Blocked(s, review, challenge), "retry_waiting", "manual_check")
    <3>1. PICK review, challenge \in BOOLEAN :
            Conclude(a, Blocked(s, review, challenge), "retry_waiting", "manual_check")
      BY <2>2
    <3>2. /\ Blocked(s, review, challenge) \in AttemptState
          /\ Blocked(s, review, challenge).dc = s.dc /\ Blocked(s, review, challenge).got = s.got
      BY <1>0, BlockedKeeps
    <3> QED BY <1>0, <3>1, <3>2, ConcludeBacked
  <2>3. CASE Conclude(a, s, "retry_waiting", "page_failure")
    BY <1>0, <2>3, ConcludeBacked
  <2> QED BY <1>2, <2>1, <2>2, <2>3 DEF Open
<1>3. CASE StartRound(a)
  BY <1>0, <1>3, LoopMoveBacked DEF StartRound, AttemptState
<1>4. CASE ExitLoop(a)
  BY <1>0, <1>4, ConcludeBacked, VerdictSuccess DEF ExitLoop, LeaveLoop
<1>5. CASE RoundReturns(a)
  <2>1. CASE \E n \in 0 .. MaxCandidates : Becomes(a, [s EXCEPT !.pc = "download", !.left = n])
    BY <1>0, <2>1, LoopMoveBacked DEF AttemptState
  <2>2. CASE LeaveLoop(a, [s EXCEPT !.out = "page_failure"])
    <3> DEFINE t == [s EXCEPT !.out = "page_failure"]
    <3>1. t \in AttemptState /\ t.dc = s.dc /\ t.got = s.got
      BY <1>0 DEF AttemptState
    <3> HIDE DEF t
    <3>2. LeaveLoop(a, t)
      BY <2>2 DEF t
    <3> QED BY <1>0, <3>1, <3>2, ConcludeBacked, VerdictSuccess DEF LeaveLoop
  <2>3. CASE \E review, challenge \in BOOLEAN : LeaveLoop(a, Blocked(s, review, challenge))
    <3>1. PICK review, challenge \in BOOLEAN : LeaveLoop(a, Blocked(s, review, challenge))
      BY <2>3
    <3> DEFINE t == Blocked(s, review, challenge)
    <3>2. t \in AttemptState /\ t.dc = s.dc /\ t.got = s.got
      BY <1>0, BlockedKeeps
    <3> HIDE DEF t
    <3>3. LeaveLoop(a, t)
      BY <3>1 DEF t
    <3> QED BY <1>0, <3>2, <3>3, ConcludeBacked, VerdictSuccess DEF LeaveLoop
  <2> QED BY <1>5, <2>1, <2>2, <2>3 DEF RoundReturns
<1> QED BY <1>1, <1>2, <1>3, <1>4, <1>5

LEMMA NextCandidateKeeps ==
  ASSUME NEW s \in AttemptState
  PROVE  /\ NextCandidate(s) \in AttemptState
         /\ NextCandidate(s).pc = "download" /\ NextCandidate(s).dc = s.dc
         /\ NextCandidate(s).got = s.got /\ NextCandidate(s).rc = s.rc
         /\ NextCandidate(s).seq = s.seq + 1 /\ NextCandidate(s).peers = s.peers
<1>1. NextCandidate(s) \in AttemptState
  BY StateChanges
<1> QED BY <1>1 DEF NextCandidate, AttemptState

LEMMA DownloadBacked ==
  ASSUME BackedInv, TypeOK', NEW a \in Attempts, Download(a)
  PROVE  BackedInv'
<1> DEFINE s == attempt[a]
<1>0. /\ s \in AttemptState /\ s.pc = "download" /\ Alive(a)
      /\ s.dc + s.got <= Claimed(a) /\ UNCHANGED <<row, results, wiped>>
  BY DEF BackedInv, TypeOK, Alive, Claimed, AttemptState, Download
<1>1. CASE Becomes(a, [s EXCEPT !.pc = "insert"])
  BY <1>0, <1>1, LoopMoveBacked DEF AttemptState
<1>2. CASE Becomes(a, [NextCandidate(s) EXCEPT !.lost = TRUE])
  <2> DEFINE t == [NextCandidate(s) EXCEPT !.lost = TRUE]
  <2>1. t.pc = "download" /\ t.dc = s.dc /\ t.got = s.got
    BY <1>0, NextCandidateKeeps DEF AttemptState
  <2> HIDE DEF t
  <2>2. Becomes(a, t)
    BY <1>2 DEF t
  <2> QED BY <1>0, <2>1, <2>2, LoopMoveBacked
<1> QED BY <1>1, <1>2 DEF Download

\* A row is inserted before it is counted: the attempt's claim grows with it,
\* and no other claim does.
LEMMA InsertBacked ==
  ASSUME BackedInv, TypeOK', NEW a \in Attempts, Insert(a)
  PROVE  BackedInv'
<1> DEFINE s == attempt[a]
           r == [at |-> Key(a), by |-> a]
<1>0. /\ s \in AttemptState /\ s.pc = "insert" /\ Alive(a)
      /\ s.dc + s.got <= Claimed(a) /\ UNCHANGED <<row, wiped>>
  BY DEF BackedInv, TypeOK, Alive, Claimed, AttemptState, Insert
<1>1. CASE Becomes(a, NextCandidate(s)) /\ UNCHANGED results
  BY <1>0, <1>1, NextCandidateKeeps, LoopMoveBacked
<1>2. CASE /\ Present /\ ~Recorded(Key(a))
           /\ results' = results \cup {r}
           /\ Becomes(a, [s EXCEPT !.pc = "count"])
  <2>1. /\ attempt'[a] = [s EXCEPT !.pc = "count"]
        /\ \A b \in Attempts : b # a => attempt'[b] = attempt[b]
    BY <1>2, BecomesState DEF BackedInv
  <2>2. r \notin results
    BY <1>2 DEF Recorded
  <2>3. Cardinality(results') = Cardinality(results) + 1 /\ Cardinality(results) \in Nat
    BY <1>2, <2>2, FS_AddElement, FS_CardinalityType DEF BackedInv, TypeOK
  <2>4. CountIsBacked'
    BY <1>0, <2>3, LoopConstantsOK
       DEF BackedInv, CountIsBacked, Present, TypeOK, LoopConstantsOK
  <2>5. SuccessEarned'
    BY <1>0, <2>1 DEF BackedInv, SuccessEarned, AttemptState
  <2>6. ClaimsBacked'
    <3> SUFFICES ASSUME ~wiped, NEW b \in Attempts, Alive(b)'
                 PROVE  Claimed(b)' <= Cardinality(results')
      BY <1>0 DEF ClaimsBacked, Present
    <3>1. CASE b = a
      <4>1. Claimed(a)' = s.dc + s.got + 1 /\ Claimed(a) = s.dc + s.got
        BY <1>0, <2>1 DEF Claimed, AttemptState
      <4>2. Claimed(a) <= Cardinality(results) /\ Claimed(a) \in Nat
        BY <1>0, <4>1 DEF BackedInv, ClaimsBacked, AttemptState
      <4> QED BY <2>3, <3>1, <4>1, <4>2
    <3>2. CASE b # a
      <4>1. Claimed(b) <= Cardinality(results) /\ Claimed(b)' = Claimed(b)
        BY <2>1, <3>2 DEF BackedInv, ClaimsBacked, Claimed, Alive
      <4>2. Claimed(b) \in Nat
        BY DEF BackedInv, TypeOK, Claimed, AttemptState
      <4> QED BY <2>3, <4>1, <4>2
    <3> QED BY <3>1, <3>2
  <2> QED BY <2>4, <2>5, <2>6 DEF BackedInv
<1> QED BY <1>1, <1>2 DEF Insert

\* The UPDATE writes the number of rows itself.
LEMMA CountBacked ==
  ASSUME BackedInv, TypeOK', NEW a \in Attempts, Count(a)
  PROVE  BackedInv'
<1> DEFINE s == attempt[a]
           t == [NextCandidate(s) EXCEPT !.got = @ + 1]
<1>0. /\ s \in AttemptState /\ s.pc = "count" /\ Alive(a)
      /\ Claimed(a) = s.dc + s.got + 1 /\ UNCHANGED <<results, wiped>>
      /\ Becomes(a, t)
  BY DEF BackedInv, TypeOK, Alive, Claimed, AttemptState, Count
<1>1. t.pc = "download" /\ t.dc = s.dc /\ t.got = s.got + 1
  BY <1>0, NextCandidateKeeps DEF AttemptState
<1> HIDE DEF t
<1>2. attempt'[a] = t /\ \A b \in Attempts : b # a => attempt'[b] = attempt[b]
  BY <1>0, BecomesState DEF BackedInv
<1>3. Cardinality(results) \in Nat
  BY FS_CardinalityType DEF BackedInv, TypeOK
<1>4. row'.status = row.status /\ (Present => row'.downloaded = Cardinality(results))
  BY DEF Count, BackedInv, TypeOK
<1>5. CountIsBacked'
  BY <1>0, <1>3, <1>4 DEF BackedInv, CountIsBacked, Present
<1>6. SuccessEarned'
  BY <1>1, <1>2 DEF BackedInv, SuccessEarned
<1>7. ClaimsBacked'
  <2> SUFFICES ASSUME ~wiped, NEW b \in Attempts, Alive(b)'
               PROVE  Claimed(b)' <= Cardinality(results)
    BY <1>0, <1>4 DEF ClaimsBacked, Present
  <2>1. CASE b = a
    <3>1. Claimed(a)' = s.dc + (s.got + 1)
      BY <1>0, <1>1, <1>2 DEF Claimed, AttemptState
    <3>2. Claimed(a)' = Claimed(a)
      BY <1>0, <3>1 DEF AttemptState
    <3> QED BY <1>0, <2>1, <3>2 DEF BackedInv, ClaimsBacked
  <2>2. CASE b # a
    BY <1>2, <2>2 DEF BackedInv, ClaimsBacked, Claimed, Alive
  <2> QED BY <2>1, <2>2
<1> QED BY <1>5, <1>6, <1>7 DEF BackedInv

LEMMA EndRoundBacked ==
  ASSUME BackedInv, TypeOK', NEW a \in Attempts, EndRound(a)
  PROVE  BackedInv'
<1> DEFINE s == attempt[a]
<1>0. /\ s \in AttemptState /\ s.pc = "download" /\ Alive(a)
      /\ s.dc + s.got <= Claimed(a) /\ UNCHANGED <<row, results, wiped>>
  BY DEF BackedInv, TypeOK, Alive, Claimed, AttemptState, EndRound
<1>1. CASE Conclude(a, s, "download_failed", "healthy")
  BY <1>0, <1>1, ConcludeBacked
<1>2. CASE Becomes(a, Counted(s))
  <2>1. Counted(s).pc = "loop" /\ Counted(s).dc = s.dc + s.got /\ Counted(s).got = 0
    BY <1>0 DEF Counted, BetweenRounds, AttemptState
  <2>2. s.dc + s.got + 0 = s.dc + s.got
    BY <1>0 DEF AttemptState
  <2> QED BY <1>0, <1>2, <2>1, <2>2, LoopMoveBacked
<1> QED BY <1>1, <1>2 DEF EndRound

LEMMA EndStepBacked ==
  ASSUME BackedInv, TypeOK', NEW a \in Attempts, Finalize(a) \/ Dies(a)
  PROVE  BackedInv'
<1> DEFINE s == attempt[a]
           t == [Unused EXCEPT !.pc = "ended", !.peers = attempt[a].peers]
<1>1. Becomes(a, t) /\ UNCHANGED <<results, wiped>> /\ Alive(a) /\ s \in AttemptState
  BY DEF Finalize, Dies, Ends, Alive, BackedInv, TypeOK
<1>2. t.pc = "ended"
  BY DEF Unused
<1> HIDE DEF t
<1>3. attempt'[a] = t /\ \A b \in Attempts : b # a => attempt'[b] = attempt[b]
  BY <1>1, BecomesState DEF BackedInv
<1>4. Present' => Present
  BY DEF Finalize, Dies, Present
<1>5. CountIsBacked'
  <2>1. CASE Finalize(a)
    <3> SUFFICES ASSUME Present', ~wiped
                 PROVE  /\ row'.downloaded <= Cardinality(results)
                        /\ row'.status = "success" => Target <= Cardinality(results)
      BY <1>1 DEF CountIsBacked
    <3>1. row'.status = s.final /\ row'.downloaded = s.dc /\ s.pc = "finalize"
      BY <1>4, <2>1 DEF Finalize
    <3>2. Claimed(a) <= Cardinality(results)
      BY <1>1, <1>4 DEF BackedInv, ClaimsBacked
    <3>3. Claimed(a) = s.dc + s.got
      BY <1>1, <3>1 DEF Claimed, AttemptState
    <3>4. s.dc <= Cardinality(results) /\ Cardinality(results) \in Nat
      BY <1>1, <3>2, <3>3, FS_CardinalityType DEF AttemptState, BackedInv, TypeOK
    <3>5. s.final = "success" => Target <= s.dc
      BY <3>1 DEF BackedInv, SuccessEarned
    <3> QED BY <1>1, <3>1, <3>4, <3>5, LoopConstantsOK DEF LoopConstantsOK, AttemptState
  <2>2. CASE Dies(a)
    BY <2>2 DEF BackedInv, CountIsBacked, Dies, Present
  <2> QED BY <2>1, <2>2
<1>6. ClaimsBacked'
  BY <1>1, <1>2, <1>3, <1>4 DEF BackedInv, ClaimsBacked, Claimed, Alive
<1>7. SuccessEarned'
  BY <1>2, <1>3 DEF BackedInv, SuccessEarned
<1> QED BY <1>5, <1>6, <1>7 DEF BackedInv

LEMMA OthersBacked ==
  ASSUME BackedInv, TypeOK', TakeBack \/ Resume \/ FullReset \/ EditCursor \/ DeleteTask \/ ImportTask
  PROVE  BackedInv'
<1>1. UNCHANGED attempt /\ SuccessEarned'
  BY DEF BackedInv, SuccessEarned, TakeBack, Resume, FullReset, EditCursor, DeleteTask, ImportTask
<1>2. CASE TakeBack \/ Resume \/ EditCursor
  <2>1. /\ UNCHANGED <<results, wiped>> /\ row'.downloaded = row.downloaded
        /\ Present' => Present
        /\ row'.status = "success" => row.status = "success"
    BY <1>2 DEF TakeBack, Resume, EditCursor, BackedInv, TypeOK, Present
  <2> QED BY <1>1, <2>1 DEF BackedInv, CountIsBacked, ClaimsBacked, Claimed, Alive
<1>3. CASE FullReset \/ DeleteTask
  <2>1. /\ row'.downloaded = 0 /\ row'.status # "success"
        /\ results' = {} /\ Cardinality({}) = 0
        /\ wiped' = (wiped \/ \E a \in Attempts : Alive(a))
    BY <1>3, FS_EmptySet DEF FullReset, DeleteTask
  <2>2. CountIsBacked'
    BY <2>1 DEF CountIsBacked
  <2>3. CASE \E a \in Attempts : Alive(a)
    BY <1>1, <2>1, <2>2, <2>3 DEF BackedInv, ClaimsBacked
  <2>4. CASE \A a \in Attempts : ~Alive(a)
    BY <1>1, <2>2, <2>4 DEF BackedInv, ClaimsBacked, Alive
  <2> QED BY <2>3, <2>4
<1>4. CASE ImportTask
  <2>1. row'.downloaded = 0 /\ row'.status = "pending" /\ UNCHANGED <<results, wiped>>
    BY <1>4 DEF ImportTask
  <2>2. Cardinality(results) \in Nat
    BY FS_CardinalityType DEF BackedInv, TypeOK
  <2> QED BY <1>1, <2>1, <2>2 DEF BackedInv, CountIsBacked, ClaimsBacked, Claimed, Alive
<1> QED BY <1>2, <1>3, <1>4

LEMMA NextBacked == BackedInv /\ [Next]_vars => BackedInv'
<1> SUFFICES ASSUME BackedInv, [Next]_vars PROVE BackedInv'
  OBVIOUS
<1>0. TypeOK'
  BY NextType DEF BackedInv
<1>1. CASE UNCHANGED vars
  BY <1>0, <1>1 DEF BackedInv, CountIsBacked, ClaimsBacked, SuccessEarned, Claimed, Alive,
                    Present, vars
<1>2. ASSUME NEW a \in Attempts, Claim(a) \/ AttemptStep(a) \/ Dies(a) PROVE BackedInv'
  BY <1>0, <1>2, ClaimBacked, LoopStepBacked, DownloadBacked, InsertBacked, CountBacked,
     EndRoundBacked, EndStepBacked DEF AttemptStep
<1>3. CASE TakeBack \/ Resume \/ FullReset \/ EditCursor \/ DeleteTask \/ ImportTask
  BY <1>0, <1>3, OthersBacked
<1> QED BY <1>1, <1>2, <1>3 DEF Next

\* downloaded_count never says more than task_results holds, and a success has
\* its target_count of rows, with any number of attempts at once and a crash
\* between any two statements.
THEOREM CountIsBackedKept == Spec => []CountIsBacked
<1>1. BackedInv => CountIsBacked
  BY DEF BackedInv
<1> QED BY <1>1, InitBacked, NextBacked, PTL DEF Spec

-----------------------------------------------------------------------------
\* The final pair

InLoop == {"cursor", "open", "loop", "wait", "download", "insert", "count"}
HealthyInLoop == \A a \in Attempts : attempt[a].pc \in InLoop => attempt[a].out = "healthy"
OutcomeInv == TypeOK /\ HealthyInLoop /\ OutcomeKnown

LEMMA VerdictKnown ==
  ASSUME NEW s \in AttemptState,
         s.out # "healthy" \/ s.dc >= Target \/ s.sess >= MaxRound
  PROVE  <<Verdict(s)[1], Verdict(s)[2]>> \in Outcomes
<1>0. Target \in Nat /\ MaxRound \in Nat
  BY LoopConstantsOK DEF LoopConstantsOK
<1>1. CASE s.dc >= Target
  BY <1>0, <1>1 DEF Verdict, Outcomes, AttemptState
<1>2. CASE s.dc < Target /\ s.out = "manual_check"
  BY <1>0, <1>2 DEF Verdict, Outcomes, AttemptState
<1>3. CASE s.dc < Target /\ s.out = "page_failure"
  BY <1>0, <1>3 DEF Verdict, Outcomes, AttemptState
<1>4. CASE s.dc < Target /\ s.out = "healthy"
  BY <1>0, <1>4 DEF Verdict, Outcomes, AttemptState
<1> QED BY <1>0, <1>1, <1>2, <1>3, <1>4 DEF AttemptState

LEMMA InitOutcome == Init => OutcomeInv
BY InitType DEF OutcomeInv, Init, HealthyInLoop, OutcomeKnown, Unused, InLoop

\* A move of one attempt keeps the invariant if its new local state does.
LEMMA MoveOutcome ==
  ASSUME OutcomeInv, TypeOK', NEW a \in Attempts, NEW s, Becomes(a, s),
         s.pc \in InLoop => s.out = "healthy",
         s.pc = "finalize" => <<s.final, s.out>> \in Outcomes
  PROVE  OutcomeInv'
<1>1. attempt'[a] = s /\ \A b \in Attempts : b # a => attempt'[b] = attempt[b]
  BY BecomesState DEF OutcomeInv
<1> QED BY <1>1 DEF OutcomeInv, HealthyInLoop, OutcomeKnown

LEMMA ConcludeOutcome ==
  ASSUME OutcomeInv, TypeOK', NEW a \in Attempts, NEW s \in AttemptState, NEW f, NEW o,
         Conclude(a, s, f, o), <<f, o>> \in Outcomes
  PROVE  OutcomeInv'
<1> DEFINE t == [s EXCEPT !.pc = "finalize", !.final = f, !.out = o]
<1>1. t.pc = "finalize" /\ t.final = f /\ t.out = o
  BY DEF AttemptState
<1> HIDE DEF t
<1>2. Becomes(a, t)
  BY DEF Conclude, t
<1> QED BY <1>1, <1>2, MoveOutcome DEF InLoop

LEMMA LoopStepOutcome ==
  ASSUME OutcomeInv, TypeOK', NEW a \in Attempts,
         ReadCursor(a) \/ Open(a) \/ StartRound(a) \/ ExitLoop(a) \/ RoundReturns(a)
  PROVE  OutcomeInv'
<1> DEFINE s == attempt[a]
<1>0. s \in AttemptState /\ s.out = "healthy"
  BY DEF OutcomeInv, TypeOK, HealthyInLoop, InLoop,
         ReadCursor, Open, StartRound, ExitLoop, RoundReturns
<1>1. CASE ReadCursor(a)
  <2>1. PICK last : Becomes(a, [s EXCEPT !.pc = "open", !.rc = IF @ < last THEN last ELSE @])
    BY <1>1 DEF ReadCursor
  <2> QED BY <1>0, <2>1, MoveOutcome DEF AttemptState
<1>2. CASE Open(a)
  <2>1. CASE Becomes(a, [s EXCEPT !.pc = "loop"])
    BY <1>0, <2>1, MoveOutcome DEF AttemptState
  <2>2. CASE \E review, challenge \in BOOLEAN :
               Conclude(a, Blocked(s, review, challenge), "retry_waiting", "manual_check")
    <3>1. PICK review, challenge \in BOOLEAN :
            Conclude(a, Blocked(s, review, challenge), "retry_waiting", "manual_check")
      BY <2>2
    <3>2. Blocked(s, review, challenge) \in AttemptState
      BY <1>0, BlockedKeeps
    <3> QED BY <3>1, <3>2, ConcludeOutcome DEF Outcomes
  <2>3. CASE Conclude(a, s, "retry_waiting", "page_failure")
    BY <1>0, <2>3, ConcludeOutcome DEF Outcomes
  <2> QED BY <1>2, <2>1, <2>2, <2>3 DEF Open
<1>3. CASE StartRound(a)
  BY <1>0, <1>3, MoveOutcome DEF StartRound, AttemptState
<1>4. CASE ExitLoop(a)
  <2>1. s.dc >= Target \/ s.sess >= MaxRound
    BY <1>0, <1>4, LoopConstantsOK DEF ExitLoop, GoesOn, AttemptState, LoopConstantsOK
  <2> QED BY <1>0, <1>4, <2>1, VerdictKnown, ConcludeOutcome DEF ExitLoop, LeaveLoop
<1>5. CASE RoundReturns(a)
  <2>1. CASE \E n \in 0 .. MaxCandidates : Becomes(a, [s EXCEPT !.pc = "download", !.left = n])
    BY <1>0, <2>1, MoveOutcome DEF AttemptState
  <2>2. CASE LeaveLoop(a, [s EXCEPT !.out = "page_failure"])
    <3> DEFINE t == [s EXCEPT !.out = "page_failure"]
    <3>1. t \in AttemptState /\ t.out = "page_failure"
      BY <1>0 DEF AttemptState
    <3> HIDE DEF t
    <3>2. LeaveLoop(a, t)
      BY <2>2 DEF t
    <3> QED BY <3>1, <3>2, VerdictKnown, ConcludeOutcome DEF LeaveLoop
  <2>3. CASE \E review, challenge \in BOOLEAN : LeaveLoop(a, Blocked(s, review, challenge))
    <3>1. PICK review, challenge \in BOOLEAN : LeaveLoop(a, Blocked(s, review, challenge))
      BY <2>3
    <3> DEFINE t == Blocked(s, review, challenge)
    <3>2. t \in AttemptState /\ t.out = "manual_check"
      BY <1>0, BlockedKeeps
    <3> HIDE DEF t
    <3>3. LeaveLoop(a, t)
      BY <3>1 DEF t
    <3> QED BY <3>2, <3>3, VerdictKnown, ConcludeOutcome DEF LeaveLoop
  <2> QED BY <1>5, <2>1, <2>2, <2>3 DEF RoundReturns
<1> QED BY <1>1, <1>2, <1>3, <1>4, <1>5

LEMMA DownloadStepOutcome ==
  ASSUME OutcomeInv, TypeOK', NEW a \in Attempts,
         Download(a) \/ Insert(a) \/ Count(a) \/ EndRound(a)
  PROVE  OutcomeInv'
<1> DEFINE s == attempt[a]
<1>0. s \in AttemptState /\ s.out = "healthy"
  BY DEF OutcomeInv, TypeOK, HealthyInLoop, InLoop, Download, Insert, Count, EndRound
<1>1. /\ NextCandidate(s) \in AttemptState
      /\ NextCandidate(s).out = "healthy" /\ NextCandidate(s).pc = "download"
  BY <1>0, NextCandidateKeeps DEF NextCandidate, AttemptState
<1>3. CASE Download(a)
  BY <1>0, <1>1, <1>3, MoveOutcome DEF Download, AttemptState
<1>4. CASE Insert(a)
  BY <1>0, <1>1, <1>4, MoveOutcome DEF Insert, AttemptState
<1>5. CASE Count(a)
  BY <1>0, <1>1, <1>5, MoveOutcome DEF Count, AttemptState
<1>6. CASE EndRound(a)
  <2>1. CASE Conclude(a, s, "download_failed", "healthy")
    BY <1>0, <2>1, ConcludeOutcome DEF Outcomes
  <2>2. CASE Becomes(a, Counted(s))
    <3>1. Counted(s).pc = "loop" /\ Counted(s).out = "healthy"
      BY <1>0 DEF Counted, BetweenRounds, AttemptState
    <3> QED BY <2>2, <3>1, MoveOutcome
  <2> QED BY <1>6, <2>1, <2>2 DEF EndRound
<1> QED BY <1>3, <1>4, <1>5, <1>6

LEMMA NextOutcome == OutcomeInv /\ [Next]_vars => OutcomeInv'
<1> SUFFICES ASSUME OutcomeInv, [Next]_vars PROVE OutcomeInv'
  OBVIOUS
<1>0. TypeOK'
  BY NextType DEF OutcomeInv
<1>1. CASE UNCHANGED attempt
  BY <1>0, <1>1 DEF OutcomeInv, HealthyInLoop, OutcomeKnown
<1>2. ASSUME NEW a \in Attempts, Claim(a) \/ AttemptStep(a) \/ Dies(a) PROVE OutcomeInv'
  <2>1. CASE Claim(a)
    <3> DEFINE s == [Unused EXCEPT !.pc = "cursor", !.dc = row.downloaded, !.rc = row.rounds,
                       !.peers = {b \in Attempts : Alive(b)}]
    <3>1. s.pc = "cursor" /\ s.out = "healthy"
      BY DEF Unused
    <3> HIDE DEF s
    <3>2. Becomes(a, s)
      BY <2>1 DEF Claim, s
    <3> QED BY <1>0, <3>1, <3>2, MoveOutcome
  <2>2. CASE Finalize(a) \/ Dies(a)
    <3> DEFINE s == [Unused EXCEPT !.pc = "ended", !.peers = attempt[a].peers]
    <3>1. s.pc = "ended"
      BY DEF Unused
    <3> HIDE DEF s
    <3>2. Becomes(a, s)
      BY <2>2 DEF Finalize, Dies, Ends, s
    <3> QED BY <1>0, <3>1, <3>2, MoveOutcome DEF InLoop
  <2> QED BY <1>0, <1>2, <2>1, <2>2, LoopStepOutcome, DownloadStepOutcome DEF AttemptStep
<1>3. CASE TakeBack \/ Resume \/ FullReset \/ EditCursor \/ DeleteTask \/ ImportTask
  BY <1>1, <1>3 DEF TakeBack, Resume, FullReset, EditCursor, DeleteTask, ImportTask
<1> QED BY <1>1, <1>2, <1>3 DEF Next, vars

\* Every attempt reaches its final transaction with a pair that Dispatch knows:
\* the assumption of that module about its workers is discharged here.
THEOREM OutcomeKnownKept == Spec => []OutcomeKnown
<1>1. OutcomeInv => OutcomeKnown
  BY DEF OutcomeInv
<1> QED BY <1>1, InitOutcome, NextOutcome, PTL DEF Spec
-----------------------------------------------------------------------------
\* Without interference the counter is exact

\* One attempt at a time, which holds the running row; what it counts on is all
\* there is, and got is 0 outside a round; the row of a task at rest tells all.
Exact ==
  /\ Present
  /\ \A a, b \in Attempts : Alive(a) /\ Alive(b) => a = b
  /\ \A a \in Attempts : Alive(a) =>
       /\ row.status = "running" /\ Claimed(a) = Cardinality(results)
       /\ attempt[a].pc \notin {"download", "insert", "count"} => attempt[a].got = 0
  /\ (\E a \in Attempts : Alive(a)) \/ row.downloaded = Cardinality(results)

ExactInv == OutcomeInv /\ budget <= Budget /\ (budget = Budget => Exact)

LEMMA InitExact == Init => ExactInv
<1> SUFFICES ASSUME Init PROVE ExactInv
  OBVIOUS
<1>1. OutcomeInv /\ Cardinality({}) = 0
  BY InitOutcome, FS_EmptySet
<1>2. \A a \in Attempts : ~Alive(a)
  BY DEF Init, Alive, Unused
<1> QED BY <1>1, <1>2, LoopConstantsOK DEF ExactInv, Init, Exact, Present, LoopConstantsOK

\* A move of the attempt inside the loop: the row and its results stay.
LEMMA LoopMoveExact ==
  ASSUME TypeOK, Exact, TypeOK', NEW a \in Attempts, NEW s, Becomes(a, s),
         UNCHANGED <<row, results>>,
         Alive(a), s.pc \in {"open", "loop", "wait", "download", "insert", "finalize"},
         s.dc + s.got = Claimed(a), s.pc \notin {"download", "insert"} => s.got = 0
  PROVE  Exact'
<1>1. attempt'[a] = s /\ \A b \in Attempts : b # a => attempt'[b] = attempt[b]
  BY BecomesState
<1>2. \A b \in Attempts : Alive(b)' <=> b = a
  BY <1>1 DEF Exact, Alive
<1>3. s \in AttemptState
  BY <1>1 DEF TypeOK
<1>4. Claimed(a)' = s.dc + s.got
  BY <1>1, <1>3 DEF Claimed, AttemptState
<1> QED BY <1>1, <1>2, <1>4 DEF Exact, Present

LEMMA ConcludeExact ==
  ASSUME TypeOK, Exact, TypeOK', NEW a \in Attempts, NEW s \in AttemptState, NEW f, NEW o,
         Conclude(a, s, f, o), UNCHANGED <<row, results>>,
         Alive(a), s.dc + s.got = Claimed(a), s.got = 0
  PROVE  Exact'
<1> DEFINE t == [s EXCEPT !.pc = "finalize", !.final = f, !.out = o]
<1>1. t.pc = "finalize" /\ t.dc = s.dc /\ t.got = s.got
  BY DEF AttemptState
<1> HIDE DEF t
<1>2. Becomes(a, t)
  BY DEF Conclude, t
<1> QED BY <1>1, <1>2, LoopMoveExact

\* The claim finds nobody at the task, and takes its counter.
LEMMA ClaimExact ==
  ASSUME TypeOK, Exact, TypeOK', NEW a \in Attempts, Claim(a)
  PROVE  Exact'
<1> DEFINE s == [Unused EXCEPT !.pc = "cursor", !.dc = row.downloaded, !.rc = row.rounds,
                   !.peers = {b \in Attempts : Alive(b)}]
<1>1. s.pc = "cursor" /\ s.dc = row.downloaded /\ s.got = 0
  BY DEF Unused
<1>2. Becomes(a, s)
  BY DEF Claim
<1> HIDE DEF s
<1>3. attempt'[a] = s /\ \A b \in Attempts : b # a => attempt'[b] = attempt[b]
  BY <1>2, BecomesState
<1>4. \A b \in Attempts : ~Alive(b)
  BY DEF Claim, Exact
<1>5. \A b \in Attempts : Alive(b)' <=> b = a
  BY <1>1, <1>3, <1>4 DEF Alive
<1>6. row'.status = "running" /\ UNCHANGED results
  BY DEF Claim, TypeOK
<1>7. Claimed(a)' = row.downloaded
  BY <1>1, <1>3 DEF Claimed, TypeOK
<1>8. row.downloaded = Cardinality(results)
  BY <1>4 DEF Exact
<1> QED BY <1>1, <1>3, <1>5, <1>6, <1>7, <1>8 DEF Exact, Present

LEMMA LoopStepExact ==
  ASSUME TypeOK, Exact, TypeOK', NEW a \in Attempts,
         ReadCursor(a) \/ Open(a) \/ StartRound(a) \/ ExitLoop(a) \/ RoundReturns(a)
  PROVE  Exact'
<1> DEFINE s == attempt[a]
<1>0. /\ s \in AttemptState /\ Alive(a) /\ s.dc + s.got = Claimed(a) /\ s.got = 0
      /\ UNCHANGED <<row, results>>
  <2>1. s \in AttemptState
    BY DEF TypeOK
  <2>2. s.pc \in {"cursor", "open", "loop", "wait"}
    BY DEF ReadCursor, Open, StartRound, ExitLoop, RoundReturns
  <2>3. Claimed(a) = s.dc + s.got
    BY <2>1, <2>2 DEF Claimed, AttemptState
  <2>4. UNCHANGED <<row, results>>
    BY DEF ReadCursor, Open, StartRound, ExitLoop, RoundReturns
  <2>5. Alive(a)
    BY <2>2 DEF Alive
  <2>6. s.got = 0
    BY <2>2, <2>5 DEF Exact
  <2> QED BY <2>1, <2>3, <2>4, <2>5, <2>6
<1>1. CASE ReadCursor(a)
  <2>1. PICK last : Becomes(a, [s EXCEPT !.pc = "open", !.rc = IF @ < last THEN last ELSE @])
    BY <1>1 DEF ReadCursor
  <2> QED BY <1>0, <2>1, LoopMoveExact DEF AttemptState
<1>2. CASE Open(a)
  <2>1. CASE Becomes(a, [s EXCEPT !.pc = "loop"])
    BY <1>0, <2>1, LoopMoveExact DEF AttemptState
  <2>2. CASE \E review, challenge \in BOOLEAN :
               Conclude(a, Blocked(s, review, challenge), "retry_waiting", "manual_check")
    <3>1. PICK review, challenge \in BOOLEAN :
            Conclude(a, Blocked(s, review, challenge), "retry_waiting", "manual_check")
      BY <2>2
    <3>2. /\ Blocked(s, review, challenge) \in AttemptState
          /\ Blocked(s, review, challenge).dc = s.dc /\ Blocked(s, review, challenge).got = s.got
      BY <1>0, BlockedKeeps
    <3> QED BY <1>0, <3>1, <3>2, ConcludeExact
  <2>3. CASE Conclude(a, s, "retry_waiting", "page_failure")
    BY <1>0, <2>3, ConcludeExact
  <2> QED BY <1>2, <2>1, <2>2, <2>3 DEF Open
<1>3. CASE StartRound(a)
  BY <1>0, <1>3, LoopMoveExact DEF StartRound, AttemptState
<1>4. CASE ExitLoop(a)
  BY <1>0, <1>4, ConcludeExact DEF ExitLoop, LeaveLoop
<1>5. CASE RoundReturns(a)
  <2>1. CASE \E n \in 0 .. MaxCandidates : Becomes(a, [s EXCEPT !.pc = "download", !.left = n])
    BY <1>0, <2>1, LoopMoveExact DEF AttemptState
  <2>2. CASE LeaveLoop(a, [s EXCEPT !.out = "page_failure"])
    <3> DEFINE t == [s EXCEPT !.out = "page_failure"]
    <3>1. t \in AttemptState /\ t.dc = s.dc /\ t.got = s.got
      BY <1>0 DEF AttemptState
    <3> HIDE DEF t
    <3>2. LeaveLoop(a, t)
      BY <2>2 DEF t
    <3> QED BY <1>0, <3>1, <3>2, ConcludeExact DEF LeaveLoop
  <2>3. CASE \E review, challenge \in BOOLEAN : LeaveLoop(a, Blocked(s, review, challenge))
    <3>1. PICK review, challenge \in BOOLEAN : LeaveLoop(a, Blocked(s, review, challenge))
      BY <2>3
    <3> DEFINE t == Blocked(s, review, challenge)
    <3>2. t \in AttemptState /\ t.dc = s.dc /\ t.got = s.got
      BY <1>0, BlockedKeeps
    <3> HIDE DEF t
    <3>3. LeaveLoop(a, t)
      BY <3>1 DEF t
    <3> QED BY <1>0, <3>2, <3>3, ConcludeExact DEF LeaveLoop
  <2> QED BY <1>5, <2>1, <2>2, <2>3 DEF RoundReturns
<1> QED BY <1>1, <1>2, <1>3, <1>4, <1>5

LEMMA RoundStepExact ==
  ASSUME TypeOK, Exact, TypeOK', NEW a \in Attempts, Download(a) \/ EndRound(a)
  PROVE  Exact'
<1> DEFINE s == attempt[a]
<1>0. /\ s \in AttemptState /\ s.pc = "download" /\ Alive(a)
      /\ s.dc + s.got = Claimed(a) /\ UNCHANGED <<row, results>>
  BY DEF TypeOK, Alive, Claimed, AttemptState, Download, EndRound
<1>1. CASE Download(a)
  <2>1. CASE Becomes(a, [s EXCEPT !.pc = "insert"])
    BY <1>0, <2>1, LoopMoveExact DEF AttemptState
  <2>2. CASE Becomes(a, [NextCandidate(s) EXCEPT !.lost = TRUE])
    <3> DEFINE t == [NextCandidate(s) EXCEPT !.lost = TRUE]
    <3>1. t.pc = "download" /\ t.dc = s.dc /\ t.got = s.got
      BY <1>0, NextCandidateKeeps DEF AttemptState
    <3> HIDE DEF t
    <3>2. Becomes(a, t)
      BY <2>2 DEF t
    <3> QED BY <1>0, <3>1, <3>2, LoopMoveExact
  <2> QED BY <1>1, <2>1, <2>2 DEF Download
<1>2. CASE EndRound(a)
  <2>1. CASE s.got = 0 /\ Conclude(a, s, "download_failed", "healthy")
    BY <1>0, <2>1, ConcludeExact
  <2>2. CASE Becomes(a, Counted(s))
    <3>1. Counted(s).pc = "loop" /\ Counted(s).dc = s.dc + s.got /\ Counted(s).got = 0
      BY <1>0 DEF Counted, BetweenRounds, AttemptState
    <3>2. s.dc + s.got + 0 = s.dc + s.got
      BY <1>0 DEF AttemptState
    <3> QED BY <1>0, <2>2, <3>1, <3>2, LoopMoveExact
  <2> QED BY <1>2, <2>1, <2>2 DEF EndRound
<1> QED BY <1>1, <1>2

\* The row and what the attempt counts on grow together.
LEMMA InsertExact ==
  ASSUME TypeOK, Exact, TypeOK', NEW a \in Attempts, Insert(a)
  PROVE  Exact'
<1> DEFINE s == attempt[a]
           r == [at |-> Key(a), by |-> a]
<1>0. /\ s \in AttemptState /\ s.pc = "insert" /\ Alive(a)
      /\ s.dc + s.got = Claimed(a) /\ UNCHANGED row
  BY DEF TypeOK, Alive, Claimed, AttemptState, Insert
<1>1. CASE Becomes(a, NextCandidate(s)) /\ UNCHANGED results
  BY <1>0, <1>1, NextCandidateKeeps, LoopMoveExact
<1>2. CASE /\ Present /\ ~Recorded(Key(a))
           /\ results' = results \cup {r}
           /\ Becomes(a, [s EXCEPT !.pc = "count"])
  <2>1. /\ attempt'[a] = [s EXCEPT !.pc = "count"]
        /\ \A b \in Attempts : b # a => attempt'[b] = attempt[b]
    BY <1>2, BecomesState
  <2>2. r \notin results
    BY <1>2 DEF Recorded
  <2>3. Cardinality(results') = Cardinality(results) + 1
    BY <1>2, <2>2, FS_AddElement DEF TypeOK
  <2>4. \A b \in Attempts : Alive(b)' <=> b = a
    BY <1>0, <2>1 DEF Exact, Alive, AttemptState
  <2>5. attempt'[a].pc = "count" /\ attempt'[a].dc = s.dc /\ attempt'[a].got = s.got
    BY <1>0, <2>1 DEF AttemptState
  <2>6. Claimed(a)' = s.dc + s.got + 1
    BY <2>5 DEF Claimed
  <2>7. Claimed(a) = Cardinality(results)
    BY <1>0 DEF Exact
  <2> QED BY <1>0, <2>3, <2>4, <2>5, <2>6, <2>7 DEF Exact, Present
<1> QED BY <1>1, <1>2 DEF Insert

LEMMA CountExact ==
  ASSUME TypeOK, Exact, TypeOK', NEW a \in Attempts, Count(a)
  PROVE  Exact'
<1> DEFINE s == attempt[a]
           t == [NextCandidate(s) EXCEPT !.got = @ + 1]
<1>0. /\ s \in AttemptState /\ s.pc = "count" /\ Alive(a)
      /\ Claimed(a) = s.dc + s.got + 1 /\ UNCHANGED results
      /\ Becomes(a, t)
  BY DEF TypeOK, Alive, Claimed, AttemptState, Count
<1>1. t.pc = "download" /\ t.dc = s.dc /\ t.got = s.got + 1
  BY <1>0, NextCandidateKeeps DEF AttemptState
<1> HIDE DEF t
<1>2. attempt'[a] = t /\ \A b \in Attempts : b # a => attempt'[b] = attempt[b]
  BY <1>0, BecomesState
<1>3. row'.status = row.status
  BY DEF Count, TypeOK
<1>4. \A b \in Attempts : Alive(b)' <=> b = a
  BY <1>0, <1>1, <1>2 DEF Exact, Alive
<1>5. Claimed(a)' = s.dc + s.got + 1
  <2>1. Claimed(a)' = s.dc + (s.got + 1) + 0
    BY <1>1, <1>2 DEF Claimed
  <2> QED BY <1>0, <2>1 DEF AttemptState
<1> QED BY <1>0, <1>1, <1>2, <1>3, <1>4, <1>5 DEF Exact, Present

\* The attempt's own sum goes to the row, and it is the number of rows.
LEMMA FinalizeExact ==
  ASSUME TypeOK, OutcomeKnown, Exact, TypeOK', NEW a \in Attempts, Finalize(a)
  PROVE  Exact'
<1> DEFINE s == attempt[a]
           t == [Unused EXCEPT !.pc = "ended", !.peers = attempt[a].peers]
<1>1. /\ Becomes(a, t) /\ UNCHANGED results /\ Alive(a)
      /\ s \in AttemptState /\ s.pc = "finalize"
  BY DEF Finalize, Ends, Alive, TypeOK
<1>2. t.pc = "ended"
  BY DEF Unused
<1> HIDE DEF t
<1>3. attempt'[a] = t /\ \A b \in Attempts : b # a => attempt'[b] = attempt[b]
  BY <1>1, BecomesState
<1>4. \A b \in Attempts : ~Alive(b)'
  BY <1>1, <1>2, <1>3 DEF Exact, Alive
<1>5. s.dc = Cardinality(results)
  BY <1>1 DEF Exact, Claimed, AttemptState
<1>6. row'.downloaded = s.dc /\ row'.status = s.final
  BY DEF Finalize, Exact
<1>7. s.final # "absent"
  BY <1>1 DEF OutcomeKnown, Outcomes
<1> QED BY <1>1, <1>4, <1>5, <1>6, <1>7 DEF Exact, Present

LEMMA OthersExact ==
  ASSUME TypeOK, Exact, TakeBack \/ Resume \/ ImportTask, budget' = budget
  PROVE  Exact'
<1>1. CASE TakeBack
  <2>1. /\ UNCHANGED <<results, attempt>> /\ row'.downloaded = row.downloaded
        /\ row'.status # "absent"
    BY <1>1 DEF TakeBack, TypeOK
  <2>2. \A a \in Attempts : ~Alive(a)
    BY <1>1 DEF TakeBack, Spend, TypeOK
  <2> QED BY <2>1, <2>2 DEF Exact, Present, Alive
<1>2. CASE Resume
  <2>1. /\ UNCHANGED <<results, attempt>> /\ row'.downloaded = row.downloaded
        /\ row'.status = "pending" /\ row.status # "running"
    BY <1>2 DEF Resume, TypeOK
  <2>2. \A a \in Attempts : ~Alive(a)
    BY <2>1 DEF Exact
  <2> QED BY <2>1, <2>2 DEF Exact, Present, Alive
<1>3. CASE ImportTask
  BY <1>3 DEF ImportTask, Exact
<1> QED BY <1>1, <1>2, <1>3

LEMMA NextExact == ExactInv /\ [Next]_vars => ExactInv'
<1> SUFFICES ASSUME ExactInv, [Next]_vars PROVE ExactInv'
  OBVIOUS
<1>0. OutcomeInv /\ OutcomeInv' /\ TypeOK /\ TypeOK' /\ OutcomeKnown
      /\ budget \in Nat /\ Budget \in Nat
  BY NextOutcome, LoopConstantsOK DEF ExactInv, OutcomeInv, TypeOK, LoopConstantsOK
<1>1. /\ budget' = budget \/ budget' = budget - 1
      /\ FullReset \/ EditCursor \/ DeleteTask \/ (\E a \in Attempts : Dies(a))
           => budget' = budget - 1
  <2>1. CASE UNCHANGED vars
    <3>1. budget' = budget
      BY <2>1 DEF vars
    <3> QED BY <2>1, <3>1, <1>0 DEF vars, FullReset, EditCursor, DeleteTask, Dies, Spend
  <2>2. CASE \E a \in Attempts : Dies(a)
    BY <2>2 DEF Dies, Spend
  <2>3. CASE FullReset \/ EditCursor \/ DeleteTask
    BY <2>3 DEF FullReset, EditCursor, DeleteTask, Spend
  <2>4. CASE TakeBack \/ Resume \/ ImportTask
    BY <2>4, <2>2, <2>3 DEF TakeBack, Resume, ImportTask, Spend
  <2>5. ASSUME NEW a \in Attempts, Claim(a) \/ AttemptStep(a) PROVE budget' = budget
    BY <2>5 DEF Claim, AttemptStep, ReadCursor, Open, StartRound, ExitLoop, RoundReturns,
                Download, Insert, Count, EndRound, Finalize
  <2> QED BY <2>1, <2>2, <2>3, <2>4, <2>5 DEF Next
<1>2. budget' <= Budget
  BY <1>0, <1>1 DEF ExactInv
<1>3. ASSUME budget' = Budget PROVE Exact'
  <2>1. /\ budget' = budget /\ Exact
        /\ ~FullReset /\ ~EditCursor /\ ~DeleteTask /\ \A a \in Attempts : ~Dies(a)
    BY <1>0, <1>1, <1>3 DEF ExactInv
  <2>2. CASE UNCHANGED vars
    BY <2>1, <2>2 DEF Exact, Present, Alive, Claimed, vars
  <2>3. ASSUME NEW a \in Attempts, Claim(a) \/ AttemptStep(a) PROVE Exact'
    BY <1>0, <2>1, <2>3, ClaimExact, LoopStepExact, RoundStepExact, InsertExact, CountExact,
       FinalizeExact DEF AttemptStep
  <2>4. CASE TakeBack \/ Resume \/ ImportTask
    BY <1>0, <2>1, <2>4, OthersExact
  <2> QED BY <2>1, <2>2, <2>3, <2>4 DEF Next
<1> QED BY <1>0, <1>2, <1>3 DEF ExactInv

\* When nobody interfered and no attempt died, the counter of a task that no attempt
\* holds is the number of its results, however many attempts there were and whichever
\* candidates failed (worker/loop.py:342-358 and 502-522).
THEOREM CountIsExactKept == Spec => []CountIsExact
<1>1. ExactInv => CountIsExact
  BY DEF ExactInv, Exact, CountIsExact
<1> QED BY <1>1, InitExact, NextExact, PTL DEF Spec

-----------------------------------------------------------------------------
\* Files.  KeptFiles is not inductive: a download that overwrites a recorded file
\* is ruled out by where the attempt stands in the order of the keys.

\* A recorded key lies behind the place an attempt has reached, from the moment
\* it has read the cursor.
Behind(s, r) ==
  /\ s.pc \in {"open", "loop"} => r.at[1] <= s.rc
  /\ s.pc = "wait" => r.at[1] < s.rc
  /\ s.pc \in {"download", "insert"} =>
       r.at[1] < s.rc \/ (r.at[1] = s.rc /\ r.at[2] < s.seq)
  /\ s.pc = "count" => r.at[1] < s.rc \/ (r.at[1] = s.rc /\ r.at[2] <= s.seq)

\* Only the rows of attempts that run at the same time can lie ahead.
Placed == \A a \in Attempts : \A r \in results :
  Contemporary(a, r.by) \/ Behind(attempt[a], r)

\* Of two attempts that are alive, the later one saw the earlier one.
PeersKnown ==
  /\ \A a \in Attempts : attempt[a].pc = "free" => attempt[a].peers = {}
  /\ \A a, b \in Attempts : a # b /\ Alive(a) /\ Alive(b) => Contemporary(a, b)

\* What is about to be recorded is on disk, from this attempt or from one that
\* runs at the same time.
Written == \A a \in Attempts : attempt[a].pc = "insert" =>
  \E f \in files : f.at = Key(a) /\ (f.by = a \/ Contemporary(f.by, a))

KeptInv == TypeOK /\ PeersKnown /\ Placed /\ Written /\ KeptFiles

LEMMA InitKept == Init => KeptInv
BY InitType DEF KeptInv, Init, PeersKnown, Placed, Written, KeptFiles, Unused, Alive

\* Peers are fixed by the claim.
LEMMA ContemporaryGrows ==
  ASSUME KeptInv, NEW a \in Attempts, NEW s, Becomes(a, s),
         attempt[a].pc = "free" \/ s.peers = attempt[a].peers,
         NEW b \in Attempts, NEW c \in Attempts, Contemporary(b, c)
  PROVE  Contemporary(b, c)'
<1>1. attempt'[a] = s /\ \A d \in Attempts : d # a => attempt'[d] = attempt[d]
  BY BecomesState DEF KeptInv
<1>2. \A d \in Attempts : attempt[d].peers \subseteq attempt'[d].peers
  BY <1>1 DEF KeptInv, PeersKnown
<1> QED BY <1>2 DEF Contemporary

\* A move of one attempt that writes neither a row nor a file.
LEMMA MoveKept ==
  ASSUME KeptInv, TypeOK', NEW a \in Attempts, NEW s, Becomes(a, s),
         UNCHANGED <<results, files>>,
         Alive(a), s.pc \notin {"free", "insert"}, s.peers = attempt[a].peers,
         \A r \in results : Behind(attempt[a], r) => Behind(s, r)
  PROVE  KeptInv'
<1>1. attempt'[a] = s /\ \A b \in Attempts : b # a => attempt'[b] = attempt[b]
  BY BecomesState DEF KeptInv
<1>2. \A b, c \in Attempts : Contemporary(b, c) => Contemporary(b, c)'
  BY ContemporaryGrows
<1>3. PeersKnown'
  BY <1>1, <1>2 DEF KeptInv, PeersKnown, Alive
<1>4. \A r \in results \cup files : r.by \in Attempts
  BY DEF KeptInv, TypeOK, Stored
<1>5. Placed'
  BY <1>1, <1>2, <1>4 DEF KeptInv, Placed
<1>6. Written'
  <2> SUFFICES ASSUME NEW b \in Attempts, attempt'[b].pc = "insert"
               PROVE  \E f \in files : f.at = Key(b)' /\ (f.by = b \/ Contemporary(f.by, b)')
    BY DEF Written
  <2>1. b # a /\ attempt'[b] = attempt[b] /\ Key(b)' = Key(b)
    BY <1>1 DEF Key
  <2>2. PICK f \in files : f.at = Key(b) /\ (f.by = b \/ Contemporary(f.by, b))
    BY <2>1 DEF KeptInv, Written
  <2> QED BY <1>2, <1>4, <2>1, <2>2
<1>7. KeptFiles'
  BY <1>2, <1>4 DEF KeptInv, KeptFiles
<1> QED BY <1>3, <1>5, <1>6, <1>7 DEF KeptInv

LEMMA ClaimKept ==
  ASSUME KeptInv, TypeOK', NEW a \in Attempts, Claim(a)
  PROVE  KeptInv'
<1> DEFINE s == [Unused EXCEPT !.pc = "cursor", !.dc = row.downloaded, !.rc = row.rounds,
                   !.peers = {b \in Attempts : Alive(b)}]
<1>0. s.pc = "cursor" /\ s.peers = {b \in Attempts : Alive(b)}
  BY DEF Unused
<1>1. Becomes(a, s) /\ attempt[a].pc = "free" /\ UNCHANGED <<results, files>>
  BY DEF Claim
<1> HIDE DEF s
<1>2. attempt'[a] = s /\ \A b \in Attempts : b # a => attempt'[b] = attempt[b]
  BY <1>1, BecomesState DEF KeptInv
<1>3. \A b, c \in Attempts : Contemporary(b, c) => Contemporary(b, c)'
  BY <1>1, ContemporaryGrows
<1>4. \A r \in results \cup files : r.by \in Attempts
  BY DEF KeptInv, TypeOK, Stored
<1>5. PeersKnown'
  <2>1. \A b \in Attempts : b # a /\ Alive(b)' => b \in attempt'[a].peers
    BY <1>0, <1>2 DEF Alive
  <2>2. \A b, c \in Attempts : b # a /\ c # a /\ b # c /\ Alive(b)' /\ Alive(c)'
                                 => Contemporary(b, c)'
    BY <1>2, <1>3 DEF KeptInv, PeersKnown, Alive
  <2>3. \A b \in Attempts : attempt'[b].pc = "free" => attempt'[b].peers = {}
    BY <1>0, <1>2 DEF KeptInv, PeersKnown
  <2> QED BY <2>1, <2>2, <2>3 DEF PeersKnown, Contemporary
<1>6. Placed'
  BY <1>0, <1>1, <1>2, <1>3, <1>4 DEF KeptInv, Placed, Behind
<1>7. Written'
  <2> SUFFICES ASSUME NEW b \in Attempts, attempt'[b].pc = "insert"
               PROVE  \E f \in files : f.at = Key(b)' /\ (f.by = b \/ Contemporary(f.by, b)')
    BY <1>1 DEF Written
  <2>1. b # a /\ attempt'[b] = attempt[b] /\ Key(b)' = Key(b)
    BY <1>0, <1>2 DEF Key
  <2>2. PICK f \in files : f.at = Key(b) /\ (f.by = b \/ Contemporary(f.by, b))
    BY <2>1 DEF KeptInv, Written
  <2> QED BY <1>3, <1>4, <2>1, <2>2
<1>8. KeptFiles'
  BY <1>1, <1>3, <1>4 DEF KeptInv, KeptFiles
<1> QED BY <1>5, <1>6, <1>7, <1>8 DEF KeptInv

\* An attempt that leaves the loop has no place any more.
LEMMA ConcludeKept ==
  ASSUME KeptInv, TypeOK', NEW a \in Attempts, NEW s \in AttemptState, NEW f, NEW o,
         Conclude(a, s, f, o), UNCHANGED <<results, files>>,
         Alive(a), s.peers = attempt[a].peers
  PROVE  KeptInv'
<1> DEFINE t == [s EXCEPT !.pc = "finalize", !.final = f, !.out = o]
<1>1. t.pc = "finalize" /\ t.peers = s.peers
  BY DEF AttemptState
<1>2. Becomes(a, t)
  BY DEF Conclude
<1> HIDE DEF t
<1>3. \A r \in results : Behind(t, r)
  BY <1>1 DEF Behind
<1> QED BY <1>1, <1>2, <1>3, MoveKept

\* The cursor is read behind every recorded round: this is what puts a later
\* attempt after all the others.
LEMMA ReadCursorKept ==
  ASSUME KeptInv, TypeOK', NEW a \in Attempts, ReadCursor(a)
  PROVE  KeptInv'
<1> DEFINE s == attempt[a]
<1>0. s \in AttemptState /\ s.pc = "cursor" /\ Alive(a) /\ UNCHANGED <<results, files>>
  BY DEF KeptInv, TypeOK, ReadCursor, Alive
<1>1. PICK last \in {0} \cup {r.at[1] : r \in results} :
        /\ \A r \in results : r.at[1] <= last
        /\ Becomes(a, [s EXCEPT !.pc = "open", !.rc = IF @ < last THEN last ELSE @])
  BY DEF ReadCursor
<1> DEFINE t == [s EXCEPT !.pc = "open", !.rc = IF @ < last THEN last ELSE @]
<1>2. /\ t.pc = "open" /\ t.peers = s.peers
      /\ t.rc = IF s.rc < last THEN last ELSE s.rc
  BY <1>0 DEF AttemptState
<1>3. Becomes(a, t)
  BY <1>1
<1> HIDE DEF t
<1>4. last \in Nat /\ \A r \in results : r.at[1] \in Nat
  BY DEF KeptInv, TypeOK, Stored
<1>5. \A r \in results : r.at[1] <= t.rc
  BY <1>0, <1>1, <1>2, <1>4 DEF AttemptState
<1>6. \A r \in results : Behind(t, r)
  BY <1>2, <1>5 DEF Behind
<1> QED BY <1>0, <1>2, <1>3, <1>6, MoveKept

LEMMA LoopStepKept ==
  ASSUME KeptInv, TypeOK', NEW a \in Attempts,
         Open(a) \/ StartRound(a) \/ ExitLoop(a) \/ RoundReturns(a)
  PROVE  KeptInv'
<1> DEFINE s == attempt[a]
<1>0. s \in AttemptState /\ Alive(a) /\ UNCHANGED <<results, files>>
  BY DEF KeptInv, TypeOK, Alive, Open, StartRound, ExitLoop, RoundReturns
<1>n. \A r \in results : r.at[1] \in Nat /\ r.at[2] \in Nat
  BY DEF KeptInv, TypeOK, Stored
<1>b. \A review, challenge \in BOOLEAN :
        /\ Blocked(s, review, challenge) \in AttemptState
        /\ Blocked(s, review, challenge).peers = s.peers
  BY <1>0, BlockedKeeps
<1>1. CASE Open(a)
  <2>1. CASE Becomes(a, [s EXCEPT !.pc = "loop"])
    <3>1. \A r \in results : Behind(s, r) => Behind([s EXCEPT !.pc = "loop"], r)
      BY <1>0, <1>1 DEF Behind, AttemptState, Open
    <3> QED BY <1>0, <2>1, <3>1, MoveKept DEF AttemptState
  <2>2. CASE \E review, challenge \in BOOLEAN :
               Conclude(a, Blocked(s, review, challenge), "retry_waiting", "manual_check")
    BY <1>0, <1>b, <2>2, ConcludeKept
  <2>3. CASE Conclude(a, s, "retry_waiting", "page_failure")
    BY <1>0, <2>3, ConcludeKept
  <2> QED BY <1>1, <2>1, <2>2, <2>3 DEF Open
<1>2. CASE StartRound(a)
  <2> DEFINE t == [s EXCEPT !.pc = "wait", !.rc = @ + 1, !.sess = @ + 1]
  <2>1. t.pc = "wait" /\ t.rc = s.rc + 1 /\ t.peers = s.peers /\ s.pc = "loop"
    BY <1>0, <1>2 DEF StartRound, AttemptState
  <2>2. Becomes(a, t)
    BY <1>2 DEF StartRound
  <2> HIDE DEF t
  <2>3. \A r \in results : Behind(s, r) => Behind(t, r)
    BY <1>0, <1>n, <2>1 DEF Behind, AttemptState
  <2> QED BY <1>0, <2>1, <2>2, <2>3, MoveKept
<1>3. CASE ExitLoop(a)
  BY <1>0, <1>3, ConcludeKept DEF ExitLoop, LeaveLoop
<1>4. CASE RoundReturns(a)
  <2>1. CASE \E n \in 0 .. MaxCandidates : Becomes(a, [s EXCEPT !.pc = "download", !.left = n])
    <3>1. PICK n \in 0 .. MaxCandidates : Becomes(a, [s EXCEPT !.pc = "download", !.left = n])
      BY <2>1
    <3> DEFINE t == [s EXCEPT !.pc = "download", !.left = n]
    <3>2. t.pc = "download" /\ t.rc = s.rc /\ t.peers = s.peers /\ s.pc = "wait"
      BY <1>0, <1>4 DEF RoundReturns, AttemptState
    <3>3. Becomes(a, t)
      BY <3>1
    <3> HIDE DEF t
    <3>4. \A r \in results : Behind(s, r) => Behind(t, r)
      BY <3>2 DEF Behind
    <3> QED BY <1>0, <3>2, <3>3, <3>4, MoveKept
  <2>2. CASE LeaveLoop(a, [s EXCEPT !.out = "page_failure"])
    <3> DEFINE t == [s EXCEPT !.out = "page_failure"]
    <3>1. t \in AttemptState /\ t.peers = s.peers
      BY <1>0 DEF AttemptState
    <3> HIDE DEF t
    <3>2. LeaveLoop(a, t)
      BY <2>2 DEF t
    <3> QED BY <1>0, <3>1, <3>2, ConcludeKept DEF LeaveLoop
  <2>3. CASE \E review, challenge \in BOOLEAN : LeaveLoop(a, Blocked(s, review, challenge))
    BY <1>0, <1>b, <2>3, ConcludeKept DEF LeaveLoop
  <2> QED BY <1>4, <2>1, <2>2, <2>3 DEF RoundReturns
<1> QED BY <1>1, <1>2, <1>3, <1>4

\* A candidate is left behind by the next one.
LEMMA NextCandidateBehind ==
  ASSUME NEW s \in AttemptState, s.pc \in {"download", "insert", "count"},
         NEW t, t.pc = "download", t.rc = s.rc, t.seq = s.seq + 1,
         NEW r, r.at[1] \in Nat, r.at[2] \in Nat, Behind(s, r)
  PROVE  Behind(t, r)
BY DEF Behind, AttemptState

\* Writing the file of the candidate in hand: a recorded file of the same key is
\* one of a contemporary's.
LEMMA StoreKept ==
  ASSUME KeptInv, TypeOK', NEW a \in Attempts, NEW t, Becomes(a, t), Stores(a),
         UNCHANGED results, attempt[a].pc = "download", t.pc \in {"download", "insert"},
         t.peers = attempt[a].peers,
         t.pc = "insert" => t.rc = attempt[a].rc /\ t.seq = attempt[a].seq,
         \A r \in results : Behind(attempt[a], r) => Behind(t, r)
  PROVE  KeptInv'
<1> DEFINE s == attempt[a]
           new == [at |-> Key(a), by |-> a]
<1>0. s \in AttemptState /\ Alive(a)
  BY DEF KeptInv, TypeOK, Alive
<1>1. attempt'[a] = t /\ \A b \in Attempts : b # a => attempt'[b] = attempt[b]
  BY BecomesState DEF KeptInv
<1>2. \A b, c \in Attempts : Contemporary(b, c) => Contemporary(b, c)'
  BY ContemporaryGrows
<1>3. \A f \in files \cup results : f.by \in Attempts
  BY DEF KeptInv, TypeOK, Stored
<1>4. new \in files' /\ \A f \in files : f.at # Key(a) => f \in files'
  BY DEF Stores
<1>5. PeersKnown'
  BY <1>0, <1>1, <1>2 DEF KeptInv, PeersKnown, Alive
<1>6. Placed'
  <2> SUFFICES ASSUME NEW b \in Attempts, NEW r \in results
               PROVE  Contemporary(b, r.by)' \/ Behind(attempt'[b], r)
    BY DEF Placed
  <2>1. Contemporary(b, r.by) \/ Behind(attempt[b], r)
    BY DEF KeptInv, Placed
  <2> QED BY <1>1, <1>2, <1>3, <2>1
<1>7. Written'
  <2> SUFFICES ASSUME NEW b \in Attempts, attempt'[b].pc = "insert"
               PROVE  \E f \in files' : f.at = Key(b)' /\ (f.by = b \/ Contemporary(f.by, b)')
    BY DEF Written
  <2>1. Key(b)' = Key(b)
    BY <1>1 DEF Key
  <2>2. CASE b = a
    BY <1>4, <2>1, <2>2
  <2>3. CASE b # a
    <3>1. PICK f \in files : f.at = Key(b) /\ (f.by = b \/ Contemporary(f.by, b))
      BY <1>1, <2>3 DEF KeptInv, Written
    <3>2. Contemporary(a, b)
      BY <1>0, <1>1, <2>3 DEF KeptInv, PeersKnown, Alive
    <3>3. CASE Key(b) = Key(a)
      BY <1>2, <1>4, <2>1, <3>2, <3>3
    <3>4. CASE Key(b) # Key(a)
      BY <1>2, <1>3, <1>4, <2>1, <3>1, <3>4
    <3> QED BY <3>3, <3>4
  <2> QED BY <2>2, <2>3
<1>8. KeptFiles'
  <2> SUFFICES ASSUME NEW r \in results
               PROVE  r \in files' \/ \E f \in files' : f.at = r.at /\ Contemporary(f.by, r.by)'
    BY DEF KeptFiles
  <2>1. CASE r.at = Key(a)
    <3>1. ~Behind(s, r)
      BY <1>0, <2>1 DEF Behind, Key, AttemptState
    <3>2. Contemporary(a, r.by)
      BY <3>1 DEF KeptInv, Placed
    <3> QED BY <1>2, <1>3, <1>4, <2>1, <3>2
  <2>2. CASE r.at # Key(a)
    BY <1>2, <1>3, <1>4, <2>2 DEF KeptInv, KeptFiles
  <2> QED BY <2>1, <2>2
<1> QED BY <1>5, <1>6, <1>7, <1>8 DEF KeptInv

LEMMA DownloadKept ==
  ASSUME KeptInv, TypeOK', NEW a \in Attempts, Download(a)
  PROVE  KeptInv'
<1> DEFINE s == attempt[a]
<1>0. s \in AttemptState /\ s.pc = "download" /\ Alive(a) /\ UNCHANGED results
  BY DEF KeptInv, TypeOK, Alive, Download
<1>n. \A r \in results : r.at[1] \in Nat /\ r.at[2] \in Nat
  BY DEF KeptInv, TypeOK, Stored
<1>1. CASE Stores(a) /\ Becomes(a, [s EXCEPT !.pc = "insert"])
  <2> DEFINE t == [s EXCEPT !.pc = "insert"]
  <2>1. t.pc = "insert" /\ t.rc = s.rc /\ t.seq = s.seq /\ t.peers = s.peers
    BY <1>0 DEF AttemptState
  <2> HIDE DEF t
  <2>2. Becomes(a, t)
    BY <1>1 DEF t
  <2>3. \A r \in results : Behind(s, r) => Behind(t, r)
    BY <1>0, <2>1 DEF Behind
  <2> QED BY <1>0, <1>1, <2>1, <2>2, <2>3, StoreKept
<1>2. CASE /\ Stores(a) \/ UNCHANGED files
           /\ Becomes(a, [NextCandidate(s) EXCEPT !.lost = TRUE])
  <2> DEFINE t == [NextCandidate(s) EXCEPT !.lost = TRUE]
  <2>1. t.pc = "download" /\ t.rc = s.rc /\ t.seq = s.seq + 1 /\ t.peers = s.peers
    BY <1>0, NextCandidateKeeps DEF AttemptState
  <2> HIDE DEF t
  <2>2. Becomes(a, t)
    BY <1>2 DEF t
  <2>3. \A r \in results : Behind(s, r) => Behind(t, r)
    BY <1>0, <1>n, <2>1, NextCandidateBehind
  <2>4. CASE Stores(a)
    BY <1>0, <2>1, <2>2, <2>3, <2>4, StoreKept
  <2>5. CASE UNCHANGED files
    BY <1>0, <2>1, <2>2, <2>3, <2>5, MoveKept
  <2> QED BY <1>2, <2>4, <2>5
<1> QED BY <1>1, <1>2 DEF Download

LEMMA InsertKept ==
  ASSUME KeptInv, TypeOK', NEW a \in Attempts, Insert(a)
  PROVE  KeptInv'
<1> DEFINE s == attempt[a]
           new == [at |-> Key(a), by |-> a]
<1>0. s \in AttemptState /\ s.pc = "insert" /\ Alive(a) /\ UNCHANGED files
  BY DEF KeptInv, TypeOK, Alive, Insert
<1>n. \A r \in results \cup files : r.at[1] \in Nat /\ r.at[2] \in Nat /\ r.by \in Attempts
  BY DEF KeptInv, TypeOK, Stored
<1>1. CASE Becomes(a, NextCandidate(s)) /\ UNCHANGED results
  <2>1. /\ NextCandidate(s).pc = "download" /\ NextCandidate(s).rc = s.rc
        /\ NextCandidate(s).seq = s.seq + 1 /\ NextCandidate(s).peers = s.peers
    BY <1>0, NextCandidateKeeps DEF NextCandidate, AttemptState
  <2>2. \A r \in results : Behind(s, r) => Behind(NextCandidate(s), r)
    BY <1>0, <1>n, <2>1, NextCandidateBehind
  <2> QED BY <1>0, <1>1, <2>1, <2>2, MoveKept
<1>2. CASE results' = results \cup {new} /\ Becomes(a, [s EXCEPT !.pc = "count"])
  <2> DEFINE t == [s EXCEPT !.pc = "count"]
  <2>1. /\ t.pc = "count" /\ t.rc = s.rc /\ t.seq = s.seq /\ t.peers = s.peers
        /\ Becomes(a, t)
    BY <1>0, <1>2 DEF AttemptState
  <2> HIDE DEF t
  <2>2. attempt'[a] = t /\ \A b \in Attempts : b # a => attempt'[b] = attempt[b]
    BY <2>1, BecomesState DEF KeptInv
  <2>3. \A b, c \in Attempts : Contemporary(b, c) => Contemporary(b, c)'
    BY <2>1, ContemporaryGrows
  <2>4. PeersKnown'
    BY <1>0, <2>1, <2>2, <2>3 DEF KeptInv, PeersKnown, Alive
  <2>5. Placed'
    <3>1. ASSUME NEW b \in Attempts, NEW r \in results
          PROVE  Contemporary(b, r.by)' \/ Behind(attempt'[b], r)
      <4>1. Contemporary(b, r.by) \/ Behind(attempt[b], r)
        BY DEF KeptInv, Placed
      <4>2. Behind(s, r) => Behind(t, r)
        BY <1>0, <1>n, <2>1 DEF Behind, AttemptState
      <4> QED BY <1>n, <2>2, <2>3, <4>1, <4>2
    <3>2. ASSUME NEW b \in Attempts
          PROVE  Contemporary(b, new.by)' \/ Behind(attempt'[b], new)
      <4>1. CASE b = a
        BY <1>0, <2>1, <2>2, <4>1 DEF Behind, Key, AttemptState
      <4>2. CASE b # a /\ Alive(b)
        BY <1>0, <2>3, <4>2 DEF KeptInv, PeersKnown
      <4>3. CASE b # a /\ ~Alive(b)
        BY <2>2, <4>3 DEF Alive, Behind
      <4> QED BY <4>1, <4>2, <4>3
    <3> QED BY <1>2, <3>1, <3>2 DEF Placed
  <2>6. Written'
    <3> SUFFICES ASSUME NEW b \in Attempts, attempt'[b].pc = "insert"
                 PROVE  \E f \in files : f.at = Key(b)' /\ (f.by = b \/ Contemporary(f.by, b)')
      BY <1>0 DEF Written
    <3>1. b # a /\ attempt'[b] = attempt[b] /\ Key(b)' = Key(b)
      BY <2>1, <2>2 DEF Key
    <3>2. PICK f \in files : f.at = Key(b) /\ (f.by = b \/ Contemporary(f.by, b))
      BY <3>1 DEF KeptInv, Written
    <3> QED BY <1>n, <2>3, <3>1, <3>2
  <2>7. KeptFiles'
    <3>1. new \in files \/ \E f \in files : f.at = new.at /\ Contemporary(f.by, new.by)'
      <4>1. PICK f \in files : f.at = Key(a) /\ (f.by = a \/ Contemporary(f.by, a))
        BY <1>0 DEF KeptInv, Written
      <4>2. CASE f.by = a
        BY <4>1, <4>2 DEF KeptInv, TypeOK, Stored
      <4>3. CASE Contemporary(f.by, a)
        BY <1>n, <2>3, <4>1, <4>3
      <4> QED BY <4>1, <4>2, <4>3
    <3>2. \A r \in results : r \in files \/ \E f \in files : f.at = r.at /\ Contemporary(f.by, r.by)'
      BY <1>n, <2>3 DEF KeptInv, KeptFiles
    <3> QED BY <1>0, <1>2, <3>1, <3>2 DEF KeptFiles
  <2> QED BY <2>4, <2>5, <2>6, <2>7 DEF KeptInv
<1> QED BY <1>1, <1>2 DEF Insert

LEMMA EndRoundKept ==
  ASSUME KeptInv, TypeOK', NEW a \in Attempts, Count(a) \/ EndRound(a)
  PROVE  KeptInv'
<1> DEFINE s == attempt[a]
<1>0. s \in AttemptState /\ Alive(a) /\ UNCHANGED <<results, files>>
  BY DEF KeptInv, TypeOK, Alive, Count, EndRound
<1>n. \A r \in results : r.at[1] \in Nat /\ r.at[2] \in Nat
  BY DEF KeptInv, TypeOK, Stored
<1>1. CASE Count(a)
  <2> DEFINE t == [NextCandidate(s) EXCEPT !.got = @ + 1]
  <2>1. /\ t.pc = "download" /\ t.rc = s.rc /\ t.seq = s.seq + 1 /\ t.peers = s.peers
        /\ s.pc = "count" /\ Becomes(a, t)
    BY <1>0, <1>1, NextCandidateKeeps DEF NextCandidate, AttemptState, Count
  <2> HIDE DEF t
  <2>2. \A r \in results : Behind(s, r) => Behind(t, r)
    BY <1>0, <1>n, <2>1, NextCandidateBehind
  <2> QED BY <1>0, <2>1, <2>2, MoveKept
<1>2. CASE EndRound(a)
  <2>1. CASE Conclude(a, s, "download_failed", "healthy")
    BY <1>0, <2>1, ConcludeKept
  <2>2. CASE Becomes(a, Counted(s))
    <3>1. /\ Counted(s).pc = "loop" /\ Counted(s).rc = s.rc /\ Counted(s).peers = s.peers
          /\ s.pc = "download"
      BY <1>0, <1>2 DEF Counted, BetweenRounds, AttemptState, EndRound
    <3>2. \A r \in results : Behind(s, r) => Behind(Counted(s), r)
      BY <1>0, <1>n, <3>1 DEF Behind, AttemptState
    <3> QED BY <1>0, <2>2, <3>1, <3>2, MoveKept
  <2> QED BY <1>2, <2>1, <2>2 DEF EndRound
<1> QED BY <1>1, <1>2

LEMMA EndStepKept ==
  ASSUME KeptInv, TypeOK', NEW a \in Attempts, Finalize(a) \/ Dies(a)
  PROVE  KeptInv'
<1> DEFINE t == [Unused EXCEPT !.pc = "ended", !.peers = attempt[a].peers]
<1>1. t.pc = "ended" /\ t.peers = attempt[a].peers
  BY DEF Unused
<1>2. Becomes(a, t) /\ Alive(a) /\ UNCHANGED <<results, files>>
  BY DEF Finalize, Dies, Ends, Alive
<1> HIDE DEF t
<1>3. \A r \in results : Behind(t, r)
  BY <1>1 DEF Behind
<1> QED BY <1>1, <1>2, <1>3, MoveKept

LEMMA OthersKept ==
  ASSUME KeptInv, TypeOK', UNCHANGED <<attempt, files>>, results' \in {results, {}}
  PROVE  KeptInv'
<1>1. PeersKnown'
  BY DEF KeptInv, PeersKnown, Contemporary, Alive
<1>2. Placed' /\ KeptFiles'
  BY DEF KeptInv, Placed, KeptFiles, Contemporary
<1>3. Written'
  BY DEF KeptInv, Written, Key, Contemporary
<1> QED BY <1>1, <1>2, <1>3 DEF KeptInv

LEMMA NextKept == KeptInv /\ [Next]_vars => KeptInv'
<1> SUFFICES ASSUME KeptInv, [Next]_vars PROVE KeptInv'
  OBVIOUS
<1>0. TypeOK'
  BY NextType DEF KeptInv
<1>1. CASE UNCHANGED vars
  BY <1>0, <1>1, OthersKept DEF vars
<1>2. ASSUME NEW a \in Attempts, Claim(a) \/ AttemptStep(a) \/ Dies(a) PROVE KeptInv'
  BY <1>0, <1>2, ClaimKept, ReadCursorKept, LoopStepKept, DownloadKept, InsertKept,
     EndRoundKept, EndStepKept DEF AttemptStep
<1>3. CASE TakeBack \/ Resume \/ FullReset \/ EditCursor \/ DeleteTask \/ ImportTask
  BY <1>0, <1>3, OthersKept DEF TakeBack, Resume, FullReset, EditCursor, DeleteTask, ImportTask
<1> QED BY <1>1, <1>2, <1>3 DEF Next

\* A resumed task never writes over a result it has: the file of a recorded row
\* holds what was recorded, unless two attempts ran at once and drew the same
\* round.
THEOREM KeptFilesKept == Spec => []KeptFiles
<1>1. KeptInv => KeptFiles
  BY DEF KeptInv
<1> QED BY <1>1, InitKept, NextKept, PTL DEF Spec

-----------------------------------------------------------------------------
\* The end comes nearer.  The invariant places the candidate in hand among those of
\* its round, and the rounds of the session within their limit.

InPlace(s) ==
  /\ s.sess <= MaxRound
  /\ s.pc \in {"cursor", "open"} => s.sess = 0
  /\ s.pc \in {"cursor", "open", "loop", "wait"} => s.seq = 1
  /\ s.pc = "download" => s.seq <= s.left + 1
  /\ s.pc \in {"insert", "count"} => s.seq <= s.left

AdvanceInv == TypeOK /\ \A a \in Attempts : InPlace(attempt[a])

LEMMA LimitsOfLoop == MaxRound \in Nat /\ MaxCandidates \in Nat /\ RoundCost \in Nat
BY LoopConstantsOK DEF LoopConstantsOK, RoundCost

LEMMA RoundsOf ==
  ASSUME NEW s \in AttemptState, s.sess <= MaxRound
  PROVE  /\ RoundsAhead(s) \in Nat
         /\ \A after \in AttemptState :
              /\ after.sess = s.sess => RoundsAhead(after) = RoundsAhead(s)
              /\ s.sess < MaxRound /\ after.sess = s.sess + 1 =>
                   RoundsAhead(s) = RoundsAhead(after) + RoundCost
<1> DEFINE m == MaxRound - s.sess
<1>1. m \in Nat /\ RoundCost \in Nat
  BY LimitsOfLoop DEF AttemptState
<1>2. RoundsAhead(s) \in Nat
  BY <1>1 DEF RoundsAhead
<1>3. \A after \in AttemptState : after.sess = s.sess => RoundsAhead(after) = RoundsAhead(s)
  BY DEF RoundsAhead
<1>4. ASSUME NEW after \in AttemptState, s.sess < MaxRound, after.sess = s.sess + 1
      PROVE  RoundsAhead(s) = RoundsAhead(after) + RoundCost
  <2>1. PICK n \in Nat : MaxRound - s.sess = n + 1 /\ MaxRound - after.sess = n
    BY <1>1, <1>4, LimitsOfLoop DEF AttemptState
  <2>2. (n + 1) * RoundCost = n * RoundCost + RoundCost
    BY <1>1, <2>1
  <2> QED BY <2>1, <2>2 DEF RoundsAhead
<1> QED BY <1>2, <1>3, <1>4

LEMMA StepsOf ==
  ASSUME NEW s
  PROVE  /\ s.pc = "cursor" => StepsLeft(s) = RoundsAhead(s) + 4
         /\ s.pc = "open" => StepsLeft(s) = RoundsAhead(s) + 3
         /\ s.pc = "loop" => StepsLeft(s) = RoundsAhead(s) + 2
         /\ s.pc = "wait" => StepsLeft(s) = RoundsAhead(s) + 3 * MaxCandidates + 4
         /\ s.pc = "download" => StepsLeft(s) = RoundsAhead(s) + 3 * (s.left + 1 - s.seq) + 3
         /\ s.pc = "insert" => StepsLeft(s) = RoundsAhead(s) + 3 * (s.left + 1 - s.seq) + 2
         /\ s.pc = "count" => StepsLeft(s) = RoundsAhead(s) + 3 * (s.left + 1 - s.seq) + 1
         /\ s.pc = "finalize" => StepsLeft(s) = 1
         /\ s.pc \in {"free", "ended"} => StepsLeft(s) = 0
BY DEF StepsLeft

\* Who is under way has a statement before him.
LEMMA StepsPositive ==
  ASSUME NEW s \in AttemptState, InPlace(s), s.pc \notin {"free", "ended"}
  PROVE  StepsLeft(s) \in Nat \ {0}
<1>1. RoundsAhead(s) \in Nat /\ s.left \in Nat /\ s.seq \in Nat
  BY RoundsOf DEF InPlace, AttemptState
<1>2. s.pc \in {"download", "insert", "count"} => s.left + 1 - s.seq \in Nat
  BY <1>1 DEF InPlace
<1>3. s.pc \in {"cursor", "open", "loop", "wait", "download", "insert", "count", "finalize"}
  BY DEF AttemptState
<1>4. CASE s.pc \in {"cursor", "open", "loop", "wait"}
  BY <1>1, <1>4, StepsOf, LimitsOfLoop
<1>5. CASE s.pc \in {"download", "insert", "count"}
  BY <1>1, <1>2, <1>5, StepsOf
<1>6. CASE s.pc = "finalize"
  BY <1>6, StepsOf
<1> QED BY <1>3, <1>4, <1>5, <1>6

\* A statement within a round, or before the first.
Nearer(s, after) == InPlace(after) /\ StepsLeft(after) \in 0 .. (StepsLeft(s) - 1)

LEMMA MovesNearer ==
  ASSUME NEW s \in AttemptState, NEW after \in AttemptState, InPlace(s), after.sess = s.sess,
         \/ s.pc = "cursor" /\ after.pc = "open" /\ after.seq = s.seq
         \/ s.pc = "open" /\ after.pc = "loop" /\ after.seq = s.seq
         \/ /\ s.pc = "wait" /\ after.pc = "download" /\ after.seq = s.seq
            /\ after.left <= MaxCandidates
         \/ /\ s.pc = "download" /\ s.seq <= s.left
            /\ after.pc = "insert" /\ after.left = s.left /\ after.seq = s.seq
         \/ s.pc = "insert" /\ after.pc = "count" /\ after.left = s.left /\ after.seq = s.seq
         \/ /\ s.pc \in {"download", "insert", "count"} /\ s.seq <= s.left
            /\ after.pc = "download" /\ after.left = s.left /\ after.seq = s.seq + 1
         \/ s.pc = "download" /\ after.pc = "loop" /\ after.seq = 1
         \/ s.pc \notin {"free", "ended", "finalize"} /\ after.pc = "finalize"
  PROVE  Nearer(s, after)
<1>1. PICK r \in Nat : r = RoundsAhead(s) /\ r = RoundsAhead(after)
  BY RoundsOf DEF InPlace
<1>2. /\ s.left \in Nat /\ s.seq \in Nat /\ after.left \in Nat /\ after.seq \in Nat
      /\ s.sess <= MaxRound
  BY DEF AttemptState, InPlace
<1>3. MaxCandidates \in Nat
  BY LimitsOfLoop
<1>4. CASE s.pc = "cursor" /\ after.pc = "open" /\ after.seq = s.seq
  <2>1. StepsLeft(s) = r + 4 /\ StepsLeft(after) = r + 3
    BY <1>1, <1>4, StepsOf
  <2>2. InPlace(after)
    BY <1>2, <1>4 DEF InPlace
  <2> QED BY <2>1, <2>2 DEF Nearer
<1>5. CASE s.pc = "open" /\ after.pc = "loop" /\ after.seq = s.seq
  <2>1. StepsLeft(s) = r + 3 /\ StepsLeft(after) = r + 2
    BY <1>1, <1>5, StepsOf
  <2>2. InPlace(after)
    BY <1>2, <1>5 DEF InPlace
  <2> QED BY <2>1, <2>2 DEF Nearer
<1>6. CASE s.pc = "wait" /\ after.pc = "download" /\ after.seq = s.seq /\ after.left <= MaxCandidates
  <2>1. after.seq = 1 /\ InPlace(after)
    BY <1>2, <1>6 DEF InPlace
  <2>2. /\ StepsLeft(s) = r + 3 * MaxCandidates + 4
        /\ StepsLeft(after) = r + 3 * (after.left + 1 - after.seq) + 3
    BY <1>1, <1>6, StepsOf
  <2> QED BY <1>2, <1>3, <1>6, <2>1, <2>2 DEF Nearer
<1>7. CASE /\ s.pc = "download" /\ s.seq <= s.left
           /\ after.pc = "insert" /\ after.left = s.left /\ after.seq = s.seq
  <2>1. /\ StepsLeft(s) = r + 3 * (s.left + 1 - s.seq) + 3
        /\ StepsLeft(after) = r + 3 * (s.left + 1 - s.seq) + 2
    BY <1>1, <1>7, StepsOf
  <2> QED BY <1>2, <1>7, <2>1 DEF InPlace, Nearer
<1>8. CASE s.pc = "insert" /\ after.pc = "count" /\ after.left = s.left /\ after.seq = s.seq
  <2>1. /\ StepsLeft(s) = r + 3 * (s.left + 1 - s.seq) + 2
        /\ StepsLeft(after) = r + 3 * (s.left + 1 - s.seq) + 1
    BY <1>1, <1>8, StepsOf
  <2> QED BY <1>2, <1>8, <2>1 DEF InPlace, Nearer
<1>9. CASE /\ s.pc \in {"download", "insert", "count"} /\ s.seq <= s.left
           /\ after.pc = "download" /\ after.left = s.left /\ after.seq = s.seq + 1
  <2>1. PICK d \in Nat : d = s.left - s.seq
    BY <1>2, <1>9
  <2>2. s.left + 1 - s.seq = d + 1 /\ after.left + 1 - after.seq = d
    BY <1>2, <1>9, <2>1
  <2>3. StepsLeft(s) \in {r + 3 * (d + 1) + 3, r + 3 * (d + 1) + 2, r + 3 * (d + 1) + 1}
    BY <1>1, <1>9, <2>2, StepsOf
  <2>4. StepsLeft(after) = r + 3 * d + 3
    BY <1>1, <1>9, <2>2, StepsOf
  <2>5. InPlace(after)
    BY <1>2, <1>9 DEF InPlace
  <2> QED BY <2>3, <2>4, <2>5 DEF Nearer
<1>10. CASE s.pc = "download" /\ after.pc = "loop" /\ after.seq = 1
  <2>1. StepsLeft(s) = r + 3 * (s.left + 1 - s.seq) + 3 /\ StepsLeft(after) = r + 2
    BY <1>1, <1>10, StepsOf
  <2>2. s.left + 1 - s.seq \in Nat
    BY <1>2, <1>10 DEF InPlace
  <2> QED BY <1>2, <1>10, <2>1, <2>2 DEF InPlace, Nearer
<1>11. CASE s.pc \notin {"free", "ended", "finalize"} /\ after.pc = "finalize"
  <2>1. s.pc \in {"cursor", "open", "loop", "wait", "download", "insert", "count"}
    BY <1>11 DEF AttemptState
  <2>2. s.pc \in {"download", "insert", "count"} => s.left + 1 - s.seq \in Nat
    BY <1>2 DEF InPlace
  <2>3. StepsLeft(after) = 1 /\ StepsLeft(s) \in Nat
    BY <1>11, StepsOf, StepsPositive
  <2>4. StepsLeft(s) > 1
    <3>1. CASE s.pc \in {"cursor", "open", "loop", "wait"}
      <4>1. StepsLeft(s) \in {r + 4, r + 3, r + 2, r + 3 * MaxCandidates + 4}
        BY <1>1, <3>1, StepsOf
      <4> QED BY <1>3, <4>1
    <3>2. CASE s.pc \in {"download", "insert"}
      <4>1. PICK d \in Nat : d = s.left + 1 - s.seq
        BY <2>2, <3>2
      <4>2. StepsLeft(s) \in {r + 3 * d + 3, r + 3 * d + 2}
        BY <1>1, <3>2, <4>1, StepsOf
      <4> QED BY <4>2
    <3>3. CASE s.pc = "count"
      <4>1. s.left + 1 - s.seq >= 1
        BY <1>2, <3>3 DEF InPlace
      <4>2. StepsLeft(s) = r + 3 * (s.left + 1 - s.seq) + 1
        BY <1>1, <3>3, StepsOf
      <4> QED BY <1>2, <4>1, <4>2
    <3> QED BY <2>1, <3>1, <3>2, <3>3
  <2> QED BY <1>2, <1>11, <2>3, <2>4 DEF InPlace, Nearer
<1> QED BY <1>4, <1>5, <1>6, <1>7, <1>8, <1>9, <1>10, <1>11

\* A new round is paid for by those that are left.
LEMMA RoundNearer ==
  ASSUME NEW s \in AttemptState, NEW after \in AttemptState, InPlace(s),
         s.pc = "loop", s.sess < MaxRound,
         after.pc = "wait", after.sess = s.sess + 1, after.seq = s.seq
  PROVE  Nearer(s, after)
<1>1. /\ s.sess \in Nat /\ s.sess <= MaxRound /\ s.seq = 1
  BY DEF AttemptState, InPlace
<1>2. InPlace(after)
  BY <1>1, LimitsOfLoop DEF InPlace
<1>3. PICK r \in Nat : r = RoundsAhead(after) /\ RoundsAhead(s) = r + RoundCost
  BY <1>1, <1>2, RoundsOf DEF InPlace
<1>4. StepsLeft(s) = r + RoundCost + 2 /\ StepsLeft(after) = r + 3 * MaxCandidates + 4
  BY <1>3, StepsOf
<1> QED BY <1>2, <1>4, LimitsOfLoop DEF RoundCost, Nearer

LEMMA EndsNearer ==
  ASSUME TypeOK, NEW a \in Attempts, InPlace(attempt[a]), Alive(a), Ends(a)
  PROVE  Nearer(attempt[a], attempt'[a])
<1>1. attempt'[a] = [Unused EXCEPT !.pc = "ended", !.peers = attempt[a].peers]
  BY BecomesState DEF TypeOK, Ends
<1>2. attempt'[a].pc = "ended" /\ attempt'[a].sess = 0
  BY <1>1 DEF Unused
<1>3. InPlace(attempt'[a])
  BY <1>2, LimitsOfLoop DEF InPlace
<1>4. StepsLeft(attempt'[a]) = 0 /\ StepsLeft(attempt[a]) \in Nat \ {0}
  BY <1>2, StepsOf, StepsPositive DEF TypeOK, Alive
<1> QED BY <1>3, <1>4 DEF Nearer

LEMMA ConcludesNearer ==
  ASSUME TypeOK, TypeOK', NEW a \in Attempts, InPlace(attempt[a]),
         attempt[a].pc \in {"open", "loop", "wait", "download"},
         NEW s \in AttemptState, s.sess = attempt[a].sess,
         NEW final, NEW out, Conclude(a, s, final, out)
  PROVE  Nearer(attempt[a], attempt'[a])
<1>1. attempt'[a] = [s EXCEPT !.pc = "finalize", !.final = final, !.out = out]
  BY BecomesState DEF TypeOK, Conclude
<1>2. attempt'[a].pc = "finalize" /\ attempt'[a].sess = attempt[a].sess
  BY <1>1 DEF AttemptState
<1>3. attempt[a] \in AttemptState /\ attempt'[a] \in AttemptState
  BY DEF TypeOK
<1> QED BY <1>2, <1>3, MovesNearer

LEMMA StatementNearer ==
  ASSUME AdvanceInv, TypeOK', NEW a \in Attempts, AttemptStep(a) \/ Dies(a)
  PROVE  Nearer(attempt[a], attempt'[a])
<1> DEFINE s == attempt[a]
<1>1. TypeOK /\ InPlace(s) /\ s \in AttemptState /\ attempt'[a] \in AttemptState
  BY DEF AdvanceInv, TypeOK
<1>2. ASSUME NEW state, Becomes(a, state) PROVE attempt'[a] = state
  BY <1>1, <1>2, BecomesState DEF TypeOK
<1>3. CASE ReadCursor(a)
  <2>1. PICK last \in {0} \cup {r.at[1] : r \in results} :
          Becomes(a, [s EXCEPT !.pc = "open", !.rc = IF @ < last THEN last ELSE @])
    BY <1>3 DEF ReadCursor
  <2>2. attempt'[a] = [s EXCEPT !.pc = "open", !.rc = IF @ < last THEN last ELSE @]
    BY <1>2, <2>1
  <2>3. attempt'[a].pc = "open" /\ attempt'[a].seq = s.seq /\ attempt'[a].sess = s.sess
    BY <1>1, <2>2 DEF AttemptState
  <2> QED BY <1>1, <1>3, <2>3, MovesNearer DEF ReadCursor
<1>4. CASE Open(a)
  <2>1. s.pc = "open"
    BY <1>4 DEF Open
  <2>2. CASE Becomes(a, [s EXCEPT !.pc = "loop"])
    <3>1. attempt'[a] = [s EXCEPT !.pc = "loop"]
      BY <1>2, <2>2
    <3>2. attempt'[a].pc = "loop" /\ attempt'[a].seq = s.seq /\ attempt'[a].sess = s.sess
      BY <1>1, <3>1 DEF AttemptState
    <3> QED BY <1>1, <2>1, <3>2, MovesNearer
  <2>3. ASSUME NEW review \in BOOLEAN, NEW challenge \in BOOLEAN,
               Conclude(a, Blocked(s, review, challenge), "retry_waiting", "manual_check")
        PROVE  Nearer(s, attempt'[a])
    <3>1. /\ Blocked(s, review, challenge) \in AttemptState
          /\ Blocked(s, review, challenge).sess = s.sess
      BY <1>1 DEF Blocked, AttemptState
    <3> QED BY <1>1, <2>1, <2>3, <3>1, ConcludesNearer
  <2>4. CASE Conclude(a, s, "retry_waiting", "page_failure")
    BY <1>1, <2>1, <2>4, ConcludesNearer
  <2> QED BY <1>4, <2>2, <2>3, <2>4 DEF Open
<1>5. CASE StartRound(a)
  <2>1. s.pc = "loop" /\ s.sess < MaxRound
    BY <1>5 DEF StartRound, GoesOn
  <2>2. attempt'[a] = [s EXCEPT !.pc = "wait", !.rc = @ + 1, !.sess = @ + 1]
    BY <1>2, <1>5 DEF StartRound
  <2>3. attempt'[a].pc = "wait" /\ attempt'[a].sess = s.sess + 1 /\ attempt'[a].seq = s.seq
    BY <1>1, <2>2 DEF AttemptState
  <2> QED BY <1>1, <2>1, <2>3, RoundNearer
<1>6. CASE ExitLoop(a)
  BY <1>1, <1>6, ConcludesNearer DEF ExitLoop, LeaveLoop
<1>7. CASE RoundReturns(a)
  <2>1. s.pc = "wait"
    BY <1>7 DEF RoundReturns
  <2>2. ASSUME NEW n \in 0 .. MaxCandidates, Becomes(a, [s EXCEPT !.pc = "download", !.left = n])
        PROVE  Nearer(s, attempt'[a])
    <3>1. attempt'[a] = [s EXCEPT !.pc = "download", !.left = n]
      BY <1>2, <2>2
    <3>2. /\ attempt'[a].pc = "download" /\ attempt'[a].seq = s.seq /\ attempt'[a].sess = s.sess
          /\ attempt'[a].left <= MaxCandidates
      BY <1>1, <3>1 DEF AttemptState
    <3> QED BY <1>1, <2>1, <3>2, MovesNearer
  <2>3. ASSUME NEW state \in AttemptState, state.sess = s.sess, LeaveLoop(a, state)
        PROVE  Nearer(s, attempt'[a])
    BY <1>1, <2>1, <2>3, ConcludesNearer DEF LeaveLoop
  <2>4. /\ [s EXCEPT !.out = "page_failure"] \in AttemptState
        /\ [s EXCEPT !.out = "page_failure"].sess = s.sess
    BY <1>1 DEF AttemptState
  <2>5. \A review, challenge \in BOOLEAN :
          /\ Blocked(s, review, challenge) \in AttemptState
          /\ Blocked(s, review, challenge).sess = s.sess
    BY <1>1 DEF Blocked, AttemptState
  <2> QED BY <1>7, <2>2, <2>3, <2>4, <2>5 DEF RoundReturns
<1>8. ASSUME NEW state, attempt'[a] = state, s.pc \in {"download", "insert", "count"},
             s.seq <= s.left, state.pc = "download", state.left = s.left,
             state.seq = s.seq + 1, state.sess = s.sess
      PROVE  Nearer(s, attempt'[a])
  BY <1>1, <1>8, MovesNearer
<1>9. /\ NextCandidate(s).pc = "download" /\ NextCandidate(s).left = s.left
      /\ NextCandidate(s).seq = s.seq + 1 /\ NextCandidate(s).sess = s.sess
      /\ NextCandidate(s) \in AttemptState
  <2>1. NextCandidate(s) \in AttemptState
    BY <1>1, StateChanges
  <2> QED BY <1>1, <2>1 DEF NextCandidate, AttemptState
<1>10. CASE Download(a)
  <2>1. s.pc = "download" /\ s.seq <= s.left
    BY <1>10 DEF Download
  <2>2. CASE Becomes(a, [s EXCEPT !.pc = "insert"])
    <3>1. attempt'[a] = [s EXCEPT !.pc = "insert"]
      BY <1>2, <2>2
    <3>2. /\ attempt'[a].pc = "insert" /\ attempt'[a].seq = s.seq /\ attempt'[a].sess = s.sess
          /\ attempt'[a].left = s.left
      BY <1>1, <3>1 DEF AttemptState
    <3> QED BY <1>1, <2>1, <3>2, MovesNearer
  <2>3. CASE Becomes(a, [NextCandidate(s) EXCEPT !.lost = TRUE])
    <3>1. attempt'[a] = [NextCandidate(s) EXCEPT !.lost = TRUE]
      BY <1>2, <2>3
    <3>2. /\ attempt'[a].pc = "download" /\ attempt'[a].seq = s.seq + 1
          /\ attempt'[a].sess = s.sess /\ attempt'[a].left = s.left
      BY <1>9, <3>1 DEF AttemptState
    <3> QED BY <1>8, <2>1, <3>2
  <2> QED BY <1>10, <2>2, <2>3 DEF Download
<1>11. CASE Insert(a)
  <2>1. s.pc = "insert" /\ s.seq <= s.left
    BY <1>1, <1>11 DEF Insert, InPlace
  <2>2. CASE Becomes(a, [s EXCEPT !.pc = "count"])
    <3>1. attempt'[a] = [s EXCEPT !.pc = "count"]
      BY <1>2, <2>2
    <3>2. /\ attempt'[a].pc = "count" /\ attempt'[a].seq = s.seq /\ attempt'[a].sess = s.sess
          /\ attempt'[a].left = s.left
      BY <1>1, <3>1 DEF AttemptState
    <3> QED BY <1>1, <2>1, <3>2, MovesNearer
  <2>3. CASE Becomes(a, NextCandidate(s))
    <3>1. attempt'[a] = NextCandidate(s)
      BY <1>2, <2>3
    <3> QED BY <1>8, <1>9, <2>1, <3>1
  <2> QED BY <1>11, <2>2, <2>3 DEF Insert
<1>12. CASE Count(a)
  <2>1. s.pc = "count" /\ s.seq <= s.left
    BY <1>1, <1>12 DEF Count, InPlace
  <2>2. attempt'[a] = [NextCandidate(s) EXCEPT !.got = @ + 1]
    BY <1>2, <1>12 DEF Count
  <2>3. /\ attempt'[a].pc = "download" /\ attempt'[a].seq = s.seq + 1
        /\ attempt'[a].sess = s.sess /\ attempt'[a].left = s.left
    BY <1>9, <2>2 DEF AttemptState
  <2> QED BY <1>8, <2>1, <2>3
<1>13. CASE EndRound(a)
  <2>1. s.pc = "download"
    BY <1>13 DEF EndRound
  <2>2. CASE Conclude(a, s, "download_failed", "healthy")
    BY <1>1, <2>1, <2>2, ConcludesNearer
  <2>3. CASE Becomes(a, Counted(s))
    <3>1. attempt'[a] = Counted(s)
      BY <1>2, <2>3
    <3>2. attempt'[a].pc = "loop" /\ attempt'[a].seq = 1 /\ attempt'[a].sess = s.sess
      BY <1>1, <3>1 DEF Counted, BetweenRounds, AttemptState
    <3> QED BY <1>1, <2>1, <3>2, MovesNearer
  <2> QED BY <1>13, <2>2, <2>3 DEF EndRound
<1>14. CASE Finalize(a) \/ Dies(a)
  BY <1>1, <1>14, EndsNearer DEF Finalize, Dies, Alive
<1> QED BY <1>3, <1>4, <1>5, <1>6, <1>7, <1>10, <1>11, <1>12, <1>13, <1>14 DEF AttemptStep

LEMMA AdvanceStep == AdvanceInv /\ [Next]_vars => AdvanceInv' /\ [Advances]_vars
<1> SUFFICES ASSUME AdvanceInv, [Next]_vars PROVE AdvanceInv' /\ Advances
  OBVIOUS
<1>1. TypeOK /\ TypeOK'
  BY NextType DEF AdvanceInv
<1> DEFINE Fine(b) ==
             /\ InPlace(attempt'[b])
             /\ attempt'[b] # attempt[b] =>
                  IF attempt[b].pc = "free" THEN StepsLeft(attempt'[b]) = MaxRound * RoundCost + 4
                  ELSE StepsLeft(attempt'[b]) \in 0 .. (StepsLeft(attempt[b]) - 1)
<1>2. ASSUME NEW b \in Attempts, attempt'[b] = attempt[b] PROVE Fine(b)
  BY <1>2 DEF AdvanceInv
<1>3. ASSUME NEW a \in Attempts, AttemptStep(a) \/ Dies(a), NEW b \in Attempts PROVE Fine(b)
  <2>1. CASE b = a
    <3>1. Nearer(attempt[a], attempt'[a])
      BY <1>1, <1>3, StatementNearer
    <3>2. attempt[a].pc # "free"
      BY <1>3 DEF AttemptStep, Dies, Alive, ReadCursor, Open, StartRound, ExitLoop, RoundReturns,
        Download, Insert, Count, EndRound, Finalize
    <3> QED BY <2>1, <3>1, <3>2 DEF Nearer
  <2>2. CASE b # a
    <3>1. attempt'[b] = attempt[b]
      BY <1>1, <1>3, <2>2 DEF AttemptStep, Dies, ReadCursor, Open, StartRound, ExitLoop,
        RoundReturns, Download, Insert, Count, EndRound, Finalize, Ends, LeaveLoop, Conclude, Becomes,
        TypeOK
    <3> QED BY <1>2, <3>1
  <2> QED BY <2>1, <2>2
<1>4. ASSUME NEW a \in Attempts, Claim(a), NEW b \in Attempts PROVE Fine(b)
  <2>1. CASE b # a
    <3>1. attempt'[b] = attempt[b]
      BY <1>1, <1>4, <2>1 DEF Claim, Becomes, TypeOK
    <3> QED BY <1>2, <3>1
  <2>2. CASE b = a
    <3>1. attempt'[a] = [Unused EXCEPT !.pc = "cursor", !.dc = row.downloaded, !.rc = row.rounds,
                           !.peers = {c \in Attempts : Alive(c)}]
      BY <1>1, <1>4, BecomesState DEF Claim, TypeOK
    <3>2. attempt'[a].pc = "cursor" /\ attempt'[a].sess = 0 /\ attempt'[a].seq = 1
      BY <3>1 DEF Unused
    <3>3. InPlace(attempt'[a])
      BY <3>2, LimitsOfLoop DEF InPlace
    <3>4. RoundsAhead(attempt'[a]) = MaxRound * RoundCost
      <4>1. MaxRound - attempt'[a].sess = MaxRound
        BY <3>2, LimitsOfLoop
      <4> QED BY <4>1 DEF RoundsAhead
    <3>5. StepsLeft(attempt'[a]) = MaxRound * RoundCost + 4
      BY <3>2, <3>4, StepsOf
    <3> QED BY <1>4, <2>2, <3>3, <3>5 DEF Claim
  <2> QED BY <2>1, <2>2
<1>5. CASE UNCHANGED vars \/ TakeBack \/ Resume \/ FullReset \/ EditCursor \/ DeleteTask \/ ImportTask
  <2>1. attempt' = attempt
    BY <1>5 DEF vars, TakeBack, Resume, FullReset, EditCursor, DeleteTask, ImportTask
  <2> QED BY <1>1, <1>2, <2>1 DEF AdvanceInv, Advances
<1>6. \A b \in Attempts : Fine(b)
  BY <1>2, <1>3, <1>4, <1>5 DEF Next, vars, TakeBack, Resume, FullReset, EditCursor, DeleteTask, ImportTask
<1> QED BY <1>1, <1>6 DEF AdvanceInv, Advances

\* Every statement of an attempt uses up one of the MaxRound * RoundCost + 4 it may
\* take, for any limits, answers of the page and interference: what LoopEnds needs
\* besides the scheduling of the thread.
THEOREM AttemptsAlwaysAdvance == Spec => AttemptsAdvance
<1>1. Init => AdvanceInv
  BY InitType, LimitsOfLoop DEF AdvanceInv, Init, InPlace, Unused
<1>2. AdvanceInv /\ [Next]_vars => AdvanceInv' /\ [Advances]_vars
  BY AdvanceStep
<1> QED BY <1>1, <1>2, PTL DEF Spec, AttemptsAdvance
=============================================================================
