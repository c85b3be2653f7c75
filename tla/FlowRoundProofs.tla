--------------------------- MODULE FlowRoundProofs ---------------------------
(***************************************************************************)
(* Theorems about the driver of a Flow page, for every number of media,    *)
(* rounds and notices, for periods of any length, whatever troubles the    *)
(* session has and whatever the page does between two looks.               *)
(***************************************************************************)
EXTENDS FlowRoundProperties, FiniteSetTheorems, TLAPS

-----------------------------------------------------------------------------
(* Where the driver stands.                                                *)

Opening == {"closed", "baseline", "opening", "preset", "settled", "idle"}
Preparing == {"attached", "prompted", "snapped"}
Polling == {"probe", "classify", "collect", "silent"}

SeenOK ==
    seen \in [refused : 0 .. MaxRounds, refusedAt : 0 .. Timeout,
              late : BOOLEAN, blind : BOOLEAN, missed : SUBSET Sources]

(* The round the driver is in, the time it has, and the answer, which it   *)
(* has not got before it waits.                                            *)
Stands ==
    /\ pc \in Opening => wait.round = 0
    /\ pc \in Preparing => wait.round < MaxRounds
    /\ pc \in Polling \cup {"clicked", "waiting", "answered"} => wait.round > 0
    /\ pc \in {"classify", "collect", "silent"} => wait.now < Timeout
    /\ pc = "silent" => wait.now > NoProgress
    /\ pc \notin {"answered", "downloaded", "over", "shut"} => answer = NoAnswer
    /\ answer.timed_out => answer.state # "ready"

(* Nothing works before Create was clicked; the notices, in sight or not,  *)
(* are as many as the page has, and that of a refusal is in sight unless   *)
(* the list was scrolled.                                                  *)
PageStands ==
    /\ pc # "shut" /\ (page.work # "idle" \/ page.dialog # "none") => wait.round > 0
    /\ page.notices + page.waiting <= MaxNotices
    /\ seen.refused > 0 => page.notices > 0 \/ "scrolled" \in troubles

RoundInv == TypeOK /\ SeenOK /\ Stands /\ PageStands

(* While the driver looks, a notice above the baseline has a cause.        *)
BanInv ==
    /\ pc \in Polling \cup {"opening", "preset", "settled"} =>
          \/ page.over # "app"
          \/ page.notices <= port.baseline
          \/ seen.late
          \/ seen.blind
          \/ seen.refused = wait.round /\ wait.round > 0
    /\ BanHasCause

(* What excuses a driver that does not report a refusal.                   *)
Excused ==
    \/ wait.lastNew # {}
    \/ page.over # "app"
    \/ seen.refusedAt >= Timeout
    \/ page.retryable
    \/ {"blind", "glitch", "scrolled"} \cap troubles # {}

ReportInv ==
    /\ pc \in {"clicked", "waiting"} => wait.now = 0
    /\ pc = "probe" /\ wait.now >= Timeout /\ seen.refused = wait.round => Excused
    /\ RefusalIsReported

(* What was once a result: it is one still, in sight or not, or it is a    *)
(* poster that became a video.                                             *)
Was(s) == page.card[s[1]] \in {s[2], "video"}

(* What is kept was seen or missed by the snapshot, or is a poster that    *)
(* became a video.                                                         *)
KeptInv ==
    /\ \A s \in kept \cup answer.candidates : Was(s)
    /\ pc \in Polling \cup {"snapped", "clicked", "waiting"} =>
          \A s \in kept :
             s \in port.snapshot \cup seen.missed \/ page.over # "app" \/ page.card[s[1]] # s[2]

-----------------------------------------------------------------------------
(* Types and looks.                                                        *)

PageType ==
    [over : TakeOvers \cup {"app", "gone"}, card : [Media -> {"none", "poster", "video"}],
     hidden : SUBSET Media, notices : 0 .. MaxNotices, waiting : 0 .. MaxNotices,
     retryable : BOOLEAN, work : {"idle", "held", "running"}, dialog : {"none", "due", "up"}]
PortType == [baseline : 0 .. MaxNotices, snapshot : SUBSET Sources]
WaitType ==
    [round : 0 .. MaxRounds, now : 0 .. Timeout, retries : 0 .. RetryBudget,
     lastRetry : (-1 - RetryGap) .. Timeout, sweeps : 0 .. Sweeps,
     lastNew : SUBSET Sources, lastChange : 0 .. Timeout]

LEMMA Typed ==
    TypeOK <=> /\ preset \in Presets /\ page \in PageType /\ port \in PortType /\ wait \in WaitType
               /\ pc \in Steps /\ answer \in Port!Answers /\ kept \subseteq Sources
BY DEF TypeOK, PageType, PortType, WaitType

LEMMA Numbers ==
    /\ RetryGap \in Nat /\ Window \in Nat /\ NoProgress \in Nat /\ Timeout \in Nat
    /\ RetryBudget \in Nat /\ Sweeps \in Nat /\ MaxNotices \in Nat /\ MaxRounds \in Nat /\ MaxRounds > 0
    /\ Timeout > 0
BY Periods, Bounds

(* A text is the page's, or none at all: then the session has that trouble. *)
LEMMA Texting ==
    ASSUME page \in PageType, NEW body \in Texts, BodyText(body)
    PROVE  /\ body \in {Body, EmptyBody}
           /\ body.notices \in 0 .. MaxNotices
           /\ body.notices <= Body.notices
           /\ troubles \subseteq troubles'
           /\ page.over = "app" /\ body # Body => "blind" \in troubles'
           /\ body.retryable => page.retryable
<1>1. body \in {Body, EmptyBody}  BY DEF Texts, PageBody
<1>2. page.notices \in 0 .. MaxNotices  BY DEF PageType
<1>3. Body.notices \in 0 .. MaxNotices /\ 0 \in 0 .. MaxNotices  BY <1>2, Numbers DEF Body
<1>4. body.notices \in 0 .. MaxNotices /\ body.notices <= Body.notices
  BY <1>1, <1>3, Numbers DEF EmptyBody
<1>5. troubles \subseteq troubles'  BY DEF BodyText, Spend
<1>6. page.over = "app" /\ body # Body => "blind" \in troubles'
  BY DEF BodyText, Spend, PageBody
<1>7. body.retryable => page.retryable
  <2>1. CASE body = Body
    <3>1. body.retryable = (page.over = "app" /\ page.retryable)  BY <2>1 DEF Body
    <3> QED  BY <3>1, Zenon
  <2>2. CASE body = EmptyBody
    <3>1. body.retryable = FALSE  BY <2>2 DEF EmptyBody
    <3> QED  BY <3>1
  <2> QED  BY <1>1, <2>1, <2>2
<1> QED  BY <1>1, <1>4, <1>5, <1>6, <1>7

LEMMA Listed ==
    ASSUME NEW s \in Gallery
    PROVE  page.over = "app" /\ s \in Sources /\ page.card[s[1]] = s[2]
BY DEF Gallery, Shown, Sources

(* What a look finds is in the list, or is the poster of a video that      *)
(* could not be read; then the session has that trouble.                   *)
LEMMA Finding ==
    ASSUME NEW found \in Findings, CollectCandidates(found)
    PROVE  /\ found \subseteq Sources /\ troubles \subseteq troubles'
           /\ \A s \in found : page.over = "app" /\ Was(s)
           /\ \A s \in found : page.card[s[1]] # s[2] => "glitch" \in troubles' /\ s[2] = "poster"
<1>1. troubles \subseteq troubles' /\ (found # Gallery => "glitch" \in troubles')
  BY DEF CollectCandidates, Spend
<1>2. found \subseteq Gallery \cup Posters  BY DEF Findings
<1>3. ASSUME NEW s \in Gallery PROVE page.over = "app" /\ s \in Sources /\ Was(s)
  BY <1>3, Listed DEF Was
<1>4. ASSUME NEW s \in Posters
      PROVE  page.over = "app" /\ s \in Sources /\ Was(s) /\ s[2] = "poster"
  <2>1. PICK c \in Gallery : s = <<c[1], "poster">>  BY <1>4 DEF Posters
  <2>2. page.over = "app" /\ c \in Sources /\ page.card[c[1]] = c[2]  BY <2>1, Listed
  <2> QED  BY <2>1, <2>2 DEF Was, Sources, Kinds
<1>5. ASSUME NEW s \in found, page.card[s[1]] # s[2]
      PROVE  "glitch" \in troubles' /\ s[2] = "poster"
  <2>1. s \notin Gallery  BY <1>5, Listed
  <2> QED  BY <1>1, <1>2, <1>4, <1>5, <2>1
<1> QED  BY <1>1, <1>2, <1>3, <1>4, <1>5

(* Dismissing the dialog may start the work, nothing else.                 *)
LEMMA Dismissing ==
    ASSUME page \in PageType
    PROVE  /\ Dismissed(page) \in PageType
           /\ Dismissed(page).over = page.over /\ Dismissed(page).card = page.card
           /\ Dismissed(page).hidden = page.hidden /\ Dismissed(page).notices = page.notices
           /\ Dismissed(page).waiting = page.waiting /\ Dismissed(page).retryable = page.retryable
           /\ Dismissed(page).work # "idle" \/ Dismissed(page).dialog # "none" =>
                page.work # "idle" \/ page.dialog # "none"
BY DEF Dismissed, PageType

(* Results are finite in number.                                           *)
LEMMA FinitelyMany == ASSUME NEW set \in SUBSET Sources PROVE Cardinality(set) \in Nat
<1>1. IsFiniteSet(Media)  BY Bounds
<1>2. IsFiniteSet({"poster", "video"})
  <2>1. IsFiniteSet({"poster"}) /\ IsFiniteSet({"video"})  BY FS_Singleton
  <2>2. {"poster", "video"} = {"poster"} \cup {"video"}  OBVIOUS
  <2> QED  BY <2>1, <2>2, FS_Union
<1>3. IsFiniteSet(Sources)  BY <1>1, <1>2, FS_Product DEF Sources, Kinds
<1> QED  BY <1>3, FS_Subset, FS_CardinalityType

(* The states of a page, whatever the text.                                *)
LEMMA Classifying ==
    ASSUME NEW body, NEW baseline
    PROVE  /\ Classify(body, baseline) \in Port!PageStates
           /\ Classify(body, baseline) = "unusual_activity" => body.notices > baseline
BY DEF Classify, Port!PageStates

LEMMA FailureIsTyped ==
    ASSUME NEW state \in Port!PageStates
    PROVE  Failure(state) \in Port!Answers /\ NoAnswer \in Port!Answers /\ NoAnswer = Failure("ready")
BY DEF Failure, NoAnswer, Port!Answers, Port!PageStates

-----------------------------------------------------------------------------
(* The page's own steps keep the round's invariant.                        *)

Steady == UNCHANGED <<preset, port, wait, pc, answer, kept>>

(* The driver stands still: the page and what is remembered of it matter.  *)
LEMMA PageMoves ==
    ASSUME RoundInv, Steady, page' \in PageType, SeenOK', PageStands'
    PROVE  RoundInv'
<1>1. TypeOK'  BY Typed DEF RoundInv, Steady, TypeOK, PageType
<1>2. Stands'  BY DEF RoundInv, Stands, Steady
<1> QED  BY <1>1, <1>2 DEF RoundInv

LEMMA CardsMountStep == ASSUME RoundInv, CardsMount PROVE RoundInv'
<1> USE DEF RoundInv
<1>1. page \in PageType /\ Steady /\ troubles' = troubles  BY Typed DEF CardsMount, Steady
<1>2. PICK cards \in SUBSET page.hidden, n \in 0 .. page.waiting :
        /\ page' = [page EXCEPT !.hidden = @ \ cards, !.notices = @ + n, !.waiting = @ - n]
        /\ seen' = [seen EXCEPT !.late = @ \/ n > 0]
  BY DEF CardsMount
<1>3. /\ n \in Nat /\ page.waiting \in 0 .. MaxNotices /\ page.notices \in 0 .. MaxNotices
      /\ page.notices + page.waiting <= MaxNotices /\ n <= page.waiting
  BY <1>1, <1>2, Numbers DEF PageType, PageStands
<1>4. page.notices + n \in 0 .. MaxNotices /\ page.waiting - n \in 0 .. MaxNotices  BY <1>3, Numbers
<1>5. page' \in PageType  BY <1>1, <1>2, <1>4 DEF PageType
<1>6. /\ page'.notices = page.notices + n /\ page'.waiting = page.waiting - n
      /\ page'.work = page.work /\ page'.dialog = page.dialog
  BY <1>1, <1>2 DEF PageType
<1>7. SeenOK' /\ seen'.refused = seen.refused
  <2>1. PICK some \in BOOLEAN : some = (seen.late \/ n > 0)
    <3>1. (seen.late \/ n > 0) \in BOOLEAN  OBVIOUS
    <3> QED  BY <3>1, Zenon
  <2>2. seen' = [seen EXCEPT !.late = some]  BY <1>2, <2>1
  <2> QED  BY <2>2 DEF SeenOK
<1>8. PageStands'
  <2>1. pc' # "shut" /\ (page'.work # "idle" \/ page'.dialog # "none") => wait'.round > 0
    BY <1>1, <1>6 DEF PageStands, Steady
  <2>2. page'.notices + page'.waiting <= MaxNotices  BY <1>3, <1>6, Numbers
  <2>3. seen'.refused > 0 => page'.notices > 0 \/ "scrolled" \in troubles'
    BY <1>1, <1>3, <1>6, <1>7 DEF PageStands
  <2> QED  BY <2>1, <2>2, <2>3 DEF PageStands
<1> HIDE DEF RoundInv
<1> QED  BY <1>1, <1>5, <1>7, <1>8, PageMoves

LEMMA CardsUnmountStep == ASSUME RoundInv, CardsUnmount PROVE RoundInv'
<1> USE DEF RoundInv
<1>1. page \in PageType /\ Steady /\ seen' = seen /\ "scrolled" \in troubles'
  BY Typed DEF CardsUnmount, Steady, Spend
<1>2. PICK cards \in SUBSET {m \in Media : Shown(m)}, n \in 0 .. page.notices :
        page' = [page EXCEPT !.hidden = @ \cup cards, !.notices = @ - n, !.waiting = @ + n]
  BY DEF CardsUnmount
<1>3. /\ n \in Nat /\ page.waiting \in 0 .. MaxNotices /\ page.notices \in 0 .. MaxNotices
      /\ page.notices + page.waiting <= MaxNotices /\ n <= page.notices
  BY <1>1, <1>2, Numbers DEF PageType, PageStands
<1>4. page.notices - n \in 0 .. MaxNotices /\ page.waiting + n \in 0 .. MaxNotices  BY <1>3, Numbers
<1>5. page' \in PageType  BY <1>1, <1>2, <1>4 DEF PageType
<1>6. /\ page'.notices = page.notices - n /\ page'.waiting = page.waiting + n
      /\ page'.work = page.work /\ page'.dialog = page.dialog
  BY <1>1, <1>2 DEF PageType
<1>7. SeenOK'  BY <1>1 DEF SeenOK
<1>8. PageStands'
  <2>1. pc' # "shut" /\ (page'.work # "idle" \/ page'.dialog # "none") => wait'.round > 0
    BY <1>1, <1>6 DEF PageStands, Steady
  <2>2. page'.notices + page'.waiting <= MaxNotices  BY <1>3, <1>6, Numbers
  <2> QED  BY <1>1, <2>1, <2>2 DEF PageStands
<1> HIDE DEF RoundInv
<1> QED  BY <1>1, <1>5, <1>7, <1>8, PageMoves

(* Steps after which the page's notices and what is remembered stand.      *)
LEMMA QuietPage ==
    ASSUME RoundInv, Steady, UNCHANGED seen, troubles \subseteq troubles', page' \in PageType,
           page'.notices = page.notices, page'.waiting = page.waiting,
           page'.work # "idle" \/ page'.dialog # "none" => page.work # "idle" \/ page.dialog # "none"
    PROVE  RoundInv'
<1>1. SeenOK'  BY DEF RoundInv, SeenOK
<1>2. PageStands'  BY DEF RoundInv, PageStands, Steady
<1> QED  BY <1>1, <1>2, PageMoves

LEMMA PosterAppearsStep == ASSUME RoundInv, PosterAppears PROVE RoundInv'
<1>1. page \in PageType /\ Steady /\ UNCHANGED <<seen, troubles>>
  BY Typed DEF PosterAppears, Steady, RoundInv
<1>2. PICK m \in Media : page' = [page EXCEPT !.card[m] = "poster"]  BY DEF PosterAppears
<1>3. page' \in PageType  BY <1>1, <1>2 DEF PageType
<1>4. /\ page'.notices = page.notices /\ page'.waiting = page.waiting
      /\ page'.work = page.work /\ page'.dialog = page.dialog
  BY <1>1, <1>2 DEF PageType
<1> QED  BY <1>1, <1>3, <1>4, QuietPage

LEMMA VideoMountsStep == ASSUME RoundInv, VideoMounts PROVE RoundInv'
<1>1. page \in PageType /\ Steady /\ UNCHANGED <<seen, troubles>>
  BY Typed DEF VideoMounts, Steady, RoundInv
<1>2. PICK m \in Media : page' = [page EXCEPT !.card[m] = "video"]  BY DEF VideoMounts
<1>3. page' \in PageType  BY <1>1, <1>2 DEF PageType
<1>4. /\ page'.notices = page.notices /\ page'.waiting = page.waiting
      /\ page'.work = page.work /\ page'.dialog = page.dialog
  BY <1>1, <1>2 DEF PageType
<1> QED  BY <1>1, <1>3, <1>4, QuietPage

LEMMA GenerationFailsStep == ASSUME RoundInv, GenerationFails PROVE RoundInv'
<1>1. page \in PageType /\ Steady /\ UNCHANGED seen /\ troubles \subseteq troubles'
  BY Typed DEF GenerationFails, Steady, RoundInv, Spend
<1>2. page' = [page EXCEPT !.retryable = TRUE, !.work = "idle"]  BY DEF GenerationFails
<1>3. page' \in PageType  BY <1>1, <1>2 DEF PageType
<1>4. /\ page'.notices = page.notices /\ page'.waiting = page.waiting
      /\ page'.work = "idle" /\ page'.dialog = page.dialog
  BY <1>1, <1>2 DEF PageType
<1> QED  BY <1>1, <1>3, <1>4, QuietPage

LEMMA DialogAppearsStep == ASSUME RoundInv, DialogAppears PROVE RoundInv'
<1>1. page \in PageType /\ Steady /\ UNCHANGED <<seen, troubles>> /\ page.dialog = "due"
  BY Typed DEF DialogAppears, Steady, RoundInv
<1>2. page' = [page EXCEPT !.dialog = "up"]  BY DEF DialogAppears
<1>3. page' \in PageType  BY <1>1, <1>2 DEF PageType
<1>4. /\ page'.notices = page.notices /\ page'.waiting = page.waiting
  BY <1>1, <1>2 DEF PageType
<1> QED  BY <1>1, <1>3, <1>4, QuietPage

LEMMA PageTakenOverStep == ASSUME RoundInv, PageTakenOver PROVE RoundInv'
<1>1. page \in PageType /\ Steady /\ UNCHANGED seen /\ troubles \subseteq troubles'
  BY Typed DEF PageTakenOver, Steady, RoundInv, Spend
<1>2. PICK o \in TakeOvers : page' = [page EXCEPT !.over = o]  BY DEF PageTakenOver
<1>3. page' \in PageType  BY <1>1, <1>2 DEF PageType
<1>4. /\ page'.notices = page.notices /\ page'.waiting = page.waiting
      /\ page'.work = page.work /\ page'.dialog = page.dialog
  BY <1>1, <1>2 DEF PageType
<1> QED  BY <1>1, <1>3, <1>4, QuietPage

LEMMA GenerationRefusedStep == ASSUME RoundInv, GenerationRefused PROVE RoundInv'
<1> USE DEF RoundInv
<1>1. page \in PageType /\ Steady /\ wait \in WaitType  BY Typed DEF GenerationRefused, Steady
<1>2. PICK n \in {page.notices, page.notices + 1} :
        n \in 1 .. (MaxNotices - page.waiting) /\ page' = [page EXCEPT !.notices = n, !.work = "idle"]
  BY DEF GenerationRefused
<1>3. /\ seen' = [seen EXCEPT !.refused = wait.round,
                              !.refusedAt = IF pc \in Polling THEN wait.now ELSE 0]
      /\ "refused" \notin troubles /\ "refused" \in troubles' /\ pc # "shut" /\ page.work = "running"
  BY DEF GenerationRefused, Afford, Spend, Polling, Alive
<1>4. page' \in PageType
  <2>1. page.waiting \in 0 .. MaxNotices  BY <1>1 DEF PageType
  <2>2. n \in 0 .. MaxNotices  BY <1>2, <2>1, Numbers
  <2> QED  BY <1>1, <1>2, <2>2 DEF PageType
<1>5. /\ page'.notices = n /\ page'.work = "idle" /\ page'.dialog = page.dialog
      /\ page'.waiting = page.waiting /\ page.waiting \in 0 .. MaxNotices
  BY <1>1, <1>2 DEF PageType
<1>6. SeenOK' /\ seen'.late = seen.late
  <2>1. wait.round \in 0 .. MaxRounds /\ wait.now \in 0 .. Timeout /\ 0 \in 0 .. Timeout
    BY <1>1, Numbers DEF WaitType
  <2> QED  BY <1>3, <2>1 DEF SeenOK
<1>7. PageStands'
  <2>1. pc' # "shut" /\ (page'.work # "idle" \/ page'.dialog # "none") => wait'.round > 0
    BY <1>1, <1>3, <1>5 DEF PageStands, Steady
  <2>2. page'.notices + page'.waiting <= MaxNotices  BY <1>2, <1>5, Numbers
  <2>3. page'.notices > 0  BY <1>2, <1>5, Numbers
  <2> QED  BY <1>5, <1>6, <2>1, <2>2, <2>3 DEF PageStands
<1> HIDE DEF RoundInv
<1> QED  BY <1>1, <1>4, <1>6, <1>7, PageMoves

LEMMA WorldStep == ASSUME RoundInv, World PROVE RoundInv'
BY CardsMountStep, CardsUnmountStep, PosterAppearsStep, VideoMountsStep, GenerationRefusedStep,
   GenerationFailsStep, DialogAppearsStep, PageTakenOverStep DEF World

-----------------------------------------------------------------------------
(* The driver's steps keep it: open() and what prepares a round.           *)

LEMMA DriverMoves ==
    ASSUME RoundInv, UNCHANGED preset, page' \in {page, Dismissed(page)}, pc # "shut",
           port' \in PortType, wait' \in WaitType, wait'.round = wait.round, pc' \in Steps,
           answer' \in Port!Answers, kept' \subseteq Sources, SeenOK', seen'.refused = seen.refused,
           troubles \subseteq troubles', Stands'
    PROVE  RoundInv'
<1> USE DEF RoundInv
<1>1. page \in PageType /\ preset \in Presets  BY Typed
<1>2. /\ page' \in PageType /\ page'.notices = page.notices
      /\ page'.waiting = page.waiting
      /\ page'.work # "idle" \/ page'.dialog # "none" => page.work # "idle" \/ page.dialog # "none"
  BY <1>1, Dismissing
<1>3. TypeOK'  BY <1>1, <1>2, Typed DEF TypeOK, PageType, PortType, WaitType
<1>4. PageStands'  BY <1>2 DEF PageStands
<1> QED  BY <1>3, <1>4

(* What holds of a driver that is at work.                                 *)
LEMMA AtWork ==
    ASSUME RoundInv
    PROVE  /\ preset \in Presets /\ page \in PageType /\ port \in PortType /\ wait \in WaitType
           /\ wait.round \in 0 .. MaxRounds /\ pc \in Steps /\ answer \in Port!Answers
           /\ kept \subseteq Sources /\ SeenOK /\ Stands
           /\ NoAnswer \in Port!Answers /\ NoWait \in WaitType
<1>1. NoAnswer \in Port!Answers  BY FailureIsTyped DEF Port!PageStates
<1>2. NoWait \in WaitType
  <2>1. 0 \in 0 .. MaxRounds /\ 0 \in 0 .. Timeout /\ 0 \in 0 .. RetryBudget /\ 0 \in 0 .. Sweeps
        /\ 0 \in (-1 - RetryGap) .. Timeout
    BY Numbers
  <2> QED  BY <2>1 DEF NoWait, WaitType
<1>3. wait.round \in 0 .. MaxRounds  BY Typed DEF RoundInv, WaitType
<1> QED  BY <1>1, <1>2, <1>3, Typed DEF RoundInv

LEMMA OpenGotoStep == ASSUME RoundInv, OpenGoto PROVE RoundInv'
<1>1. /\ UNCHANGED <<preset, page, port, wait, kept, troubles, seen>> /\ pc = "closed"
      /\ \/ pc' = "baseline" /\ answer' = answer
         \/ pc' = "over" /\ answer' \in {NoAnswer, Failure("load_failed")}
  BY DEF OpenGoto
<1>2. Failure("load_failed") \in Port!Answers  BY FailureIsTyped DEF Port!PageStates
<1>3. answer' \in Port!Answers /\ pc' \in Steps  BY <1>1, <1>2, AtWork DEF Steps
<1>4. Stands'
  BY <1>1, AtWork DEF Stands, Opening, Preparing, Polling, NoAnswer, Failure
<1>5. SeenOK'  BY <1>1, AtWork DEF SeenOK
<1> QED  BY <1>1, <1>3, <1>4, <1>5, AtWork, DriverMoves

LEMMA Refreshing ==
    ASSUME RoundInv, NEW body \in Texts, RefreshBaseline(body)
    PROVE  /\ port' \in PortType /\ SeenOK' /\ seen'.refused = seen.refused /\ ~seen'.late
           /\ troubles \subseteq troubles'
           /\ port'.baseline = body.notices /\ seen'.blind = (body.notices # Body.notices)
           /\ seen'.missed = seen.missed /\ port'.snapshot = port.snapshot
<1>1. /\ port' = [port EXCEPT !.baseline = body.notices]
      /\ seen' = [seen EXCEPT !.blind = body.notices # Body.notices, !.late = FALSE]
      /\ BodyText(body)
  BY DEF RefreshBaseline
<1>2. body.notices \in 0 .. MaxNotices /\ troubles \subseteq troubles'
  BY <1>1, Texting, AtWork
<1>3. PICK some \in BOOLEAN : some = (body.notices # Body.notices)
  <2>1. (body.notices # Body.notices) \in BOOLEAN  OBVIOUS
  <2> QED  BY <2>1, Zenon
<1>4. seen' = [seen EXCEPT !.blind = some, !.late = FALSE] /\ seen \in [refused : 0 .. MaxRounds, refusedAt : 0 .. Timeout,
              late : BOOLEAN, blind : BOOLEAN, missed : SUBSET Sources]
  BY <1>1, <1>3, AtWork DEF SeenOK
<1>5. /\ SeenOK' /\ seen'.refused = seen.refused /\ seen'.late = FALSE
      /\ seen'.blind = some /\ seen'.missed = seen.missed
  BY <1>4 DEF SeenOK
<1>6. port' \in PortType /\ port'.baseline = body.notices /\ port'.snapshot = port.snapshot
  BY <1>1, <1>2, AtWork DEF PortType
<1> QED  BY <1>2, <1>3, <1>5, <1>6

LEMMA OpenBaselineStep == ASSUME RoundInv, OpenBaseline PROVE RoundInv'
<1>1. PICK body \in Texts : RefreshBaseline(body)  BY DEF OpenBaseline
<1>2. pc = "baseline" /\ pc' = "opening" /\ UNCHANGED <<preset, page, wait, answer, kept>>
  BY DEF OpenBaseline
<1>3. Stands'  BY <1>2, AtWork DEF Stands, Opening, Preparing, Polling
<1>4. pc' \in Steps  BY <1>2 DEF Steps
<1> QED  BY <1>1, <1>2, <1>3, <1>4, AtWork, Refreshing, DriverMoves

LEMMA OpenLookStep ==
    ASSUME RoundInv, NEW here, NEW next, <<here, next>> \in {<<"opening", "preset">>, <<"settled", "idle">>},
           OpenLook(here, next)
    PROVE  RoundInv'
<1>1. PICK body \in Texts :
        /\ BodyText(body)
        /\ pc' = IF Classify(body, port.baseline) = "ready" THEN next ELSE "over"
        /\ answer' = Failure(Classify(body, port.baseline))
  BY DEF OpenLook
<1>2. /\ pc = here /\ UNCHANGED <<preset, page, port, wait, kept, seen>>
      /\ here \in {"opening", "settled"} /\ next \in {"preset", "idle"}
  BY DEF OpenLook
<1>3. Classify(body, port.baseline) \in Port!PageStates  BY Classifying
<1>4. answer' \in Port!Answers /\ (pc' # "over" => answer' = NoAnswer) /\ ~answer'.timed_out
  BY <1>1, <1>3, FailureIsTyped DEF Failure
<1>5. Stands'
  BY <1>1, <1>2, <1>4, AtWork DEF Stands, Opening, Preparing, Polling
<1>6. pc' \in Steps /\ troubles \subseteq troubles' /\ SeenOK'
  BY <1>1, <1>2, Texting, AtWork DEF Steps, SeenOK
<1> QED  BY <1>2, <1>4, <1>5, <1>6, AtWork, DriverMoves

LEMMA OpenPresetStep == ASSUME RoundInv, OpenPreset PROVE RoundInv'
<1>1. /\ pc = "preset" /\ pc' = "settled" /\ page' = Dismissed(page)
      /\ UNCHANGED <<preset, port, wait, answer, kept, troubles, seen>>
  BY DEF OpenPreset
<1>2. Stands'  BY <1>1, AtWork DEF Stands, Opening, Preparing, Polling
<1>3. pc' \in Steps /\ SeenOK'  BY <1>1, AtWork DEF Steps, SeenOK
<1> QED  BY <1>1, <1>2, <1>3, AtWork, DriverMoves

LEMMA PrepareStep ==
    ASSUME RoundInv, NEW here, NEW next,
           <<here, next>> \in {<<"idle", "attached">>, <<"downloaded", "attached">>, <<"attached", "prompted">>},
           Prepare(here, next), here = "downloaded" => wait.round < MaxRounds
    PROVE  RoundInv'
<1>1. /\ pc = here /\ pc' \in {next, "over"} /\ page' = Dismissed(page) /\ answer' = NoAnswer
      /\ wait' = [NoWait EXCEPT !.round = wait.round]
      /\ UNCHANGED <<preset, port, kept, troubles, seen>>
      /\ here \in {"idle", "downloaded", "attached"} /\ next \in {"attached", "prompted"}
  BY DEF Prepare
<1>2. wait' \in WaitType /\ wait'.round = wait.round
  BY <1>1, AtWork DEF WaitType, NoWait
<1>3. wait.round < MaxRounds
  BY <1>1, AtWork, Numbers DEF Stands, Opening, Preparing
<1>4. Stands'  BY <1>1, <1>2, <1>3, AtWork DEF Stands, Opening, Preparing, Polling, NoAnswer
<1>5. pc' \in Steps /\ SeenOK'  BY <1>1, AtWork DEF Steps, SeenOK
<1> QED  BY <1>1, <1>2, <1>4, <1>5, AtWork, DriverMoves

LEMMA TakeSnapshotStep == ASSUME RoundInv, TakeSnapshot PROVE RoundInv'
<1>1. PICK found \in Findings :
        /\ CollectCandidates(found)
        /\ port' = [port EXCEPT !.snapshot = found]
        /\ seen' = [seen EXCEPT !.missed = Results \ found]
  BY DEF TakeSnapshot
<1>2. /\ pc = "prompted" /\ pc' = "snapped" /\ page' = Dismissed(page)
      /\ UNCHANGED <<preset, wait, answer, kept>>
  BY DEF TakeSnapshot
<1>3. port' \in PortType /\ troubles \subseteq troubles'  BY <1>1, Finding, AtWork DEF PortType
<1>4. Results \ found \in SUBSET Sources  BY AtWork DEF Results, Sources, PageType
<1>5. SeenOK' /\ seen'.refused = seen.refused  BY <1>1, <1>4, AtWork DEF SeenOK
<1>6. Stands'  BY <1>2, AtWork DEF Stands, Opening, Preparing, Polling
<1>7. pc' \in Steps  BY <1>2 DEF Steps
<1> QED  BY <1>2, <1>3, <1>5, <1>6, <1>7, AtWork, DriverMoves

LEMMA TriggerRaisesStep == ASSUME RoundInv, TriggerRaises PROVE RoundInv'
<1>1. /\ pc = "prompted" /\ pc' = "over"
      /\ UNCHANGED <<preset, page, port, wait, answer, kept, troubles, seen>>
  BY DEF TriggerRaises
<1>2. Stands'  BY <1>1, AtWork DEF Stands, Opening, Preparing, Polling
<1>3. pc' \in Steps /\ SeenOK'  BY <1>1, AtWork DEF Steps, SeenOK
<1> QED  BY <1>1, <1>2, <1>3, AtWork, DriverMoves

LEMMA SweepAfterClickStep == ASSUME RoundInv, SweepAfterClick PROVE RoundInv'
<1>1. /\ pc = "clicked" /\ pc' = "waiting" /\ page' = Dismissed(page)
      /\ UNCHANGED <<preset, port, wait, answer, kept, troubles, seen>>
  BY DEF SweepAfterClick
<1>2. Stands'  BY <1>1, AtWork DEF Stands, Opening, Preparing, Polling
<1>3. pc' \in Steps /\ SeenOK'  BY <1>1, AtWork DEF Steps, SeenOK
<1> QED  BY <1>1, <1>2, <1>3, AtWork, DriverMoves

LEMMA ClickCreateStep == ASSUME RoundInv, ClickCreate PROVE RoundInv'
<1> USE DEF RoundInv
<1>1. /\ pc = "snapped" /\ UNCHANGED <<preset, port, answer, kept, seen>>
  BY DEF ClickCreate
<1>2. CASE pc' = "over" /\ UNCHANGED <<page, wait, troubles>>
  <2>1. Stands'  BY <1>1, <1>2, AtWork DEF Stands, Opening, Preparing, Polling
  <2>2. pc' \in Steps /\ SeenOK'  BY <1>1, <1>2, AtWork DEF Steps, SeenOK
  <2> HIDE DEF RoundInv
  <2> QED  BY <1>1, <1>2, <2>1, <2>2, AtWork, DriverMoves
<1>3. ASSUME NEW dialog \in {"none", "due", "up"}, NEW work \in {"running", "held"},
             page' = [page EXCEPT !.work = work, !.dialog = dialog],
             wait' = [NoWait EXCEPT !.round = wait.round + 1], pc' = "clicked",
             troubles \subseteq troubles'
      PROVE  RoundInv'
  <2>1. page' \in PageType  BY <1>3, AtWork DEF PageType
  <2>2. page'.notices = page.notices /\ page'.waiting = page.waiting
    BY <1>3, AtWork DEF PageType
  <2>3. wait.round + 1 \in 0 .. MaxRounds /\ wait.round + 1 > 0
    BY <1>1, AtWork, Numbers DEF Stands, Preparing
  <2>4. wait' \in WaitType /\ wait'.round > 0  BY <1>3, <2>3, AtWork DEF WaitType, NoWait
  <2>5. TypeOK'  BY <1>1, <1>3, <2>1, <2>4, AtWork, Typed DEF TypeOK, PageType, WaitType, PortType, Steps
  <2>6. SeenOK'  BY <1>1, AtWork DEF SeenOK
  <2>7. Stands'  BY <1>1, <1>3, <2>4, AtWork DEF Stands, Opening, Preparing, Polling
  <2>8. PageStands'  BY <1>1, <1>3, <2>2, <2>4 DEF PageStands
  <2> QED  BY <2>5, <2>6, <2>7, <2>8
<1>4. CASE /\ page' = [page EXCEPT !.work = IF page.dialog = "none" THEN "running" ELSE "held"]
           /\ UNCHANGED troubles /\ wait' = [NoWait EXCEPT !.round = wait.round + 1] /\ pc' = "clicked"
  <2>1. page.dialog \in {"none", "due", "up"}  BY AtWork DEF PageType
  <2>2. PICK work \in {"running", "held"} : page' = [page EXCEPT !.work = work]  BY <1>4
  <2>3. page' = [page EXCEPT !.work = work, !.dialog = page.dialog]  BY <2>2, AtWork DEF PageType
  <2> QED  BY <1>3, <1>4, <2>1, <2>3
<1>5. CASE /\ page' = [page EXCEPT !.dialog = "due", !.work = "held"] /\ Spend("dialog")
           /\ wait' = [NoWait EXCEPT !.round = wait.round + 1] /\ pc' = "clicked"
  <2>1. page' = [page EXCEPT !.work = "held", !.dialog = "due"]  BY <1>5, AtWork DEF PageType
  <2>2. troubles \subseteq troubles'  BY <1>5 DEF Spend
  <2> QED  BY <1>3, <1>5, <2>1, <2>2
<1> QED  BY <1>2, <1>4, <1>5 DEF ClickCreate

-----------------------------------------------------------------------------
(* The polls of a round: it offers something, or it goes on.               *)

Offers(new) ==
    /\ pc' = "answered" /\ UNCHANGED wait
    /\ answer' \in Port!Answers /\ answer'.state = "ready" /\ ~answer'.timed_out
    /\ answer'.candidates # {} /\ answer'.candidates \subseteq new
    /\ InVideoMode => Videos(answer'.candidates) = answer'.candidates
    /\ Cardinality(answer'.candidates) < preset.expected =>
          /\ answer'.candidates \subseteq wait.lastNew
          /\ wait.now - wait.lastChange >= Window

GoesOn(new) ==
    /\ pc' = "probe" /\ UNCHANGED answer
    /\ wait' \in WaitType /\ wait'.round = wait.round /\ wait'.now = wait.now + 1
    /\ wait'.lastNew = new

LEMMA Deciding ==
    ASSUME wait \in WaitType, preset \in Presets, NEW new \in SUBSET Sources, wait.now < Timeout, Decide(new)
    PROVE  Offers(new) \/ GoesOn(new)
<1>0. /\ wait.now \in 0 .. Timeout /\ wait.now + 1 \in 0 .. Timeout
      /\ preset.expected \in Nat /\ Cardinality(new) \in Nat
  BY Numbers, Bounds, FinitelyMany DEF WaitType
<1>1. CASE EarlyExit(new)
  <2>1. /\ answer' = [state |-> "ready", timed_out |-> FALSE, candidates |-> new]
        /\ pc' = "answered" /\ UNCHANGED wait
    BY <1>1 DEF Decide, Answer
  <2>2. new # {} /\ new = Videos(new) /\ Cardinality(new) >= preset.expected  BY <1>1 DEF EarlyExit
  <2>3. answer' \in Port!Answers  BY <2>1 DEF Port!Answers, Port!PageStates
  <2>4. /\ answer'.candidates = new /\ answer'.state = "ready" /\ ~answer'.timed_out
        /\ ~(Cardinality(new) < preset.expected)
    BY <1>0, <2>1, <2>2
  <2> QED  BY <2>1, <2>2, <2>3, <2>4 DEF Offers
<1>2. CASE ~EarlyExit(new) /\ StabilityExit(new)
  <2>1. /\ answer' = [state |-> "ready", timed_out |-> FALSE, candidates |-> Accepted(new)]
        /\ pc' = "answered" /\ UNCHANGED wait
    BY <1>2 DEF Decide, Answer
  <2>2. /\ new # {} /\ new = wait.lastNew /\ wait.now - wait.lastChange >= Window
        /\ ~(InVideoMode /\ Videos(new) = {})
    BY <1>2 DEF StabilityExit
  <2>3. Videos(new) \subseteq new /\ Videos(Videos(new)) = Videos(new)  BY DEF Videos
  <2>4. /\ Accepted(new) \subseteq new /\ Accepted(new) # {}
        /\ InVideoMode => Videos(Accepted(new)) = Accepted(new)
    <3>1. CASE InVideoMode
      <4>1. Accepted(new) = Videos(new) /\ Videos(new) # {}  BY <2>2, <3>1 DEF Accepted
      <4> QED  BY <2>3, <4>1
    <3>2. CASE ~InVideoMode  BY <2>2, <3>2 DEF Accepted
    <3> QED  BY <3>1, <3>2
  <2>5. answer' \in Port!Answers  BY <2>1, <2>4 DEF Port!Answers, Port!PageStates
  <2>6. answer'.candidates = Accepted(new) /\ answer'.state = "ready" /\ ~answer'.timed_out  BY <2>1
  <2> QED  BY <2>1, <2>2, <2>4, <2>5, <2>6 DEF Offers
<1>3. CASE ~EarlyExit(new) /\ ~StabilityExit(new)
  <2> DEFINE at == IF new # wait.lastNew THEN wait.now ELSE wait.lastChange
  <2>1. /\ wait' = [[wait EXCEPT !.lastNew = new, !.lastChange = at] EXCEPT !.now = @ + 1]
        /\ pc' = "probe" /\ UNCHANGED answer
    BY <1>3 DEF Decide, SleepAndPoll
  <2>2. at \in 0 .. Timeout  BY <1>0 DEF WaitType
  <2> HIDE DEF at
  <2>3. /\ wait' \in WaitType /\ wait'.round = wait.round /\ wait'.now = wait.now + 1
        /\ wait'.lastNew = new
    BY <1>0, <2>1, <2>2 DEF WaitType
  <2> QED  BY <2>1, <2>3 DEF GoesOn
<1> QED  BY <1>1, <1>2, <1>3

(* Nothing is not offered.                                                 *)
LEMMA NothingGoesOn == ~Offers({})  BY DEF Offers

LEMMA DecidingStep ==
    ASSUME RoundInv, NEW new \in SUBSET Sources, Decide(new), pc \in {"collect", "silent"},
           UNCHANGED <<preset, page, port, kept, seen>>, troubles \subseteq troubles'
    PROVE  RoundInv'
<1>1. wait.now < Timeout /\ wait.round > 0 /\ answer = NoAnswer
  BY AtWork DEF Stands, Polling
<1>2. SeenOK'  BY AtWork DEF SeenOK
<1>3. CASE Offers(new)
  <2>1. Stands'  BY <1>1, <1>3 DEF Offers, Stands, Opening, Preparing, Polling
  <2>2. wait' \in WaitType /\ wait'.round = wait.round /\ pc' \in Steps /\ answer' \in Port!Answers
    BY <1>3, AtWork DEF Offers, Steps
  <2> QED  BY <1>2, <2>1, <2>2, AtWork, DriverMoves
<1>4. CASE GoesOn(new)
  <2>1. Stands'  BY <1>1, <1>4 DEF GoesOn, Stands, Opening, Preparing, Polling, NoAnswer
  <2>2. wait' \in WaitType /\ wait'.round = wait.round /\ pc' \in Steps /\ answer' \in Port!Answers
    BY <1>4, AtWork DEF GoesOn, Steps
  <2> QED  BY <1>2, <2>1, <2>2, AtWork, DriverMoves
<1> QED  BY <1>1, <1>3, <1>4, AtWork, Deciding

LEMMA WaitBeginsStep == ASSUME RoundInv, WaitBegins PROVE RoundInv'
<1>1. PICK body \in Texts : RefreshBaseline(body)  BY DEF WaitBegins
<1>2. /\ pc = "waiting" /\ pc' = "probe" /\ UNCHANGED <<preset, page, answer, kept>>
      /\ wait' = [wait EXCEPT !.retries = RetryBudget, !.lastRetry = -1 - RetryGap, !.sweeps = Sweeps]
  BY DEF WaitBegins
<1>3. RetryBudget \in 0 .. RetryBudget /\ -1 - RetryGap \in (-1 - RetryGap) .. Timeout /\ Sweeps \in 0 .. Sweeps
  BY Numbers
<1>4. wait' \in WaitType /\ wait'.round = wait.round  BY <1>2, <1>3, AtWork DEF WaitType
<1>5. Stands'  BY <1>2, <1>4, AtWork DEF Stands, Opening, Preparing, Polling
<1>6. pc' \in Steps  BY <1>2 DEF Steps
<1> QED  BY <1>1, <1>2, <1>4, <1>5, <1>6, AtWork, Refreshing, DriverMoves

LEMMA TimedOutStep == ASSUME RoundInv, TimedOut PROVE RoundInv'
<1>1. /\ answer' = [state |-> "load_failed", candidates |-> {}, timed_out |-> TRUE]
      /\ pc = "probe" /\ pc' = "over" /\ UNCHANGED <<preset, page, port, wait, kept, troubles, seen>>
  BY DEF TimedOut, Answer
<1>2. answer' \in Port!Answers  BY <1>1 DEF Port!Answers, Port!PageStates
<1>3. Stands'  BY <1>1, AtWork DEF Stands, Opening, Preparing, Polling
<1>4. pc' \in Steps /\ SeenOK'  BY <1>1, AtWork DEF Steps, SeenOK
<1> QED  BY <1>1, <1>2, <1>3, <1>4, AtWork, DriverMoves

(* A poll is spent on a retry, or it looks.                                *)
LEMMA Probing ==
    ASSUME RoundInv, Probe
    PROVE  /\ wait' \in WaitType /\ wait'.round = wait.round /\ troubles \subseteq troubles'
           /\ wait'.lastNew = wait.lastNew
           /\ \/ pc' = "classify" /\ wait'.now = wait.now
              \/ pc' = "probe" /\ page.retryable
<1> DEFINE w == [wait EXCEPT !.sweeps = SweepsLeft(@)]
           v == [w EXCEPT !.retries = @ - 1, !.lastRetry = wait.now]
<1>0. wait.now < Timeout /\ wait \in WaitType  BY AtWork DEF Probe
<1>1. SweepsLeft(wait.sweeps) \in 0 .. Sweeps  BY <1>0, Numbers DEF SweepsLeft, WaitType
<1>2. /\ w \in WaitType /\ w.round = wait.round /\ w.now = wait.now /\ w.lastNew = wait.lastNew
      /\ w.retries = wait.retries
  BY <1>0, <1>1 DEF WaitType
<1> HIDE DEF w
<1>3. CASE wait' = w /\ pc' = "classify" /\ troubles \subseteq troubles'  BY <1>2, <1>3
<1>4. CASE wait.retries > 0 /\ \E body \in Texts : BodyText(body) /\ body.retryable /\ SleepAndPoll(v)
  <2>1. PICK body \in Texts : BodyText(body) /\ body.retryable /\ SleepAndPoll(v)  BY <1>4
  <2>2. page.retryable /\ troubles \subseteq troubles'  BY <2>1, Texting, AtWork
  <2>3. wait.retries - 1 \in 0 .. RetryBudget /\ wait.now \in (-1 - RetryGap) .. Timeout
        /\ wait.now + 1 \in 0 .. Timeout
    BY <1>0, <1>4, Numbers DEF WaitType
  <2>4. v \in WaitType /\ v.round = wait.round /\ v.now = wait.now /\ v.lastNew = wait.lastNew
    BY <1>2, <2>3 DEF WaitType
  <2> HIDE DEF v
  <2>5. wait' = [v EXCEPT !.now = @ + 1] /\ pc' = "probe"  BY <2>1 DEF SleepAndPoll
  <2>6. wait' \in WaitType /\ wait'.round = wait.round /\ wait'.lastNew = wait.lastNew
    BY <2>3, <2>4, <2>5 DEF WaitType
  <2> QED  BY <2>2, <2>5, <2>6
<1>5. CASE wait.retries > 0
  <2>1. PICK body \in Texts :
          /\ BodyText(body)
          /\ IF body.retryable /\ wait.now - wait.lastRetry > RetryGap THEN SleepAndPoll(v)
             ELSE wait' = w /\ pc' = "classify"
    BY <1>5 DEF Probe, w
  <2>2. troubles \subseteq troubles'  BY <2>1, Texting, AtWork
  <2>3. CASE body.retryable /\ wait.now - wait.lastRetry > RetryGap
    <3>1. SleepAndPoll(v)  BY <2>1, <2>3
    <3> HIDE DEF v
    <3> QED  BY <1>4, <1>5, <2>1, <2>3, <3>1
  <2>4. CASE ~(body.retryable /\ wait.now - wait.lastRetry > RetryGap)
    <3>1. wait' = w /\ pc' = "classify"  BY <2>1, <2>4
    <3> QED  BY <1>3, <2>2, <3>1
  <2> QED  BY <2>3, <2>4
<1>6. CASE ~(wait.retries > 0)
  <2>1. wait' = w /\ pc' = "classify" /\ troubles' = troubles  BY <1>6 DEF Probe, w
  <2> QED  BY <1>3, <2>1
<1> QED  BY <1>5, <1>6

LEMMA ProbeStep == ASSUME RoundInv, Probe PROVE RoundInv'
<1>1. /\ pc = "probe" /\ wait.now < Timeout /\ page' \in {page, Dismissed(page)}
      /\ UNCHANGED <<preset, port, answer, kept, seen>>
  BY DEF Probe
<1>2. /\ wait' \in WaitType /\ wait'.round = wait.round /\ troubles \subseteq troubles'
      /\ \/ pc' = "classify" /\ wait'.now = wait.now
         \/ pc' = "probe"
  BY Probing
<1>3. Stands'  BY <1>1, <1>2, AtWork DEF Stands, Opening, Preparing, Polling
<1>4. pc' \in Steps /\ SeenOK'  BY <1>1, <1>2, AtWork DEF Steps, SeenOK
<1> QED  BY <1>1, <1>2, <1>3, <1>4, AtWork, DriverMoves

(* A failed answer ends the session.                                       *)
LEMMA FailingStep ==
    ASSUME RoundInv, NEW state \in Port!PageStates \ {"ready"}, Answer(Failure(state)), pc \in Polling,
           UNCHANGED <<preset, page, port, wait, kept, seen>>, troubles \subseteq troubles'
    PROVE  RoundInv'
<1>1. answer' = Failure(state) /\ pc' = "over"  BY DEF Answer, Failure
<1>2. answer' \in Port!Answers  BY <1>1, FailureIsTyped
<1>3. Stands'  BY <1>1, AtWork DEF Stands, Opening, Preparing, Polling, Failure
<1>4. pc' \in Steps /\ SeenOK' /\ pc # "shut"  BY <1>1, AtWork DEF Steps, SeenOK, Polling
<1> QED  BY <1>1, <1>2, <1>3, <1>4, AtWork, DriverMoves

LEMMA ClassifyInRoundStep == ASSUME RoundInv, ClassifyInRound PROVE RoundInv'
<1>1. PICK body \in Texts :
        /\ BodyText(body)
        /\ IF Classify(body, port.baseline) \in EndsRound
           THEN Answer(Failure(Classify(body, port.baseline)))
           ELSE pc' = "collect" /\ UNCHANGED answer
  BY DEF ClassifyInRound
<1>2. pc = "classify" /\ UNCHANGED <<preset, page, port, wait, kept, seen>>  BY DEF ClassifyInRound
<1>3. troubles \subseteq troubles'  BY <1>1, Texting, AtWork
<1>4. CASE Classify(body, port.baseline) \in EndsRound
  <2>1. EndsRound \subseteq Port!PageStates \ {"ready"}  BY DEF EndsRound, Port!PageStates
  <2> QED  BY <1>1, <1>2, <1>3, <1>4, <2>1, FailingStep DEF Polling
<1>5. CASE pc' = "collect" /\ UNCHANGED answer
  <2>1. Stands'  BY <1>2, <1>5, AtWork DEF Stands, Opening, Preparing, Polling
  <2>2. pc' \in Steps /\ SeenOK'  BY <1>2, <1>5, AtWork DEF Steps, SeenOK
  <2> QED  BY <1>2, <1>3, <1>5, <2>1, <2>2, AtWork, DriverMoves
<1> QED  BY <1>1, <1>4, <1>5

LEMMA CollectStep == ASSUME RoundInv, Collect PROVE RoundInv'
<1>1. PICK found \in Findings :
        /\ CollectCandidates(found)
        /\ IF NewOnly(found) = {} /\ wait.now > NoProgress
           THEN pc' = "silent" /\ UNCHANGED <<wait, answer>>
           ELSE Decide(NewOnly(found))
  BY DEF Collect
<1>2. pc = "collect" /\ UNCHANGED <<preset, page, port, kept, seen>>  BY DEF Collect
<1>3. troubles \subseteq troubles' /\ NewOnly(found) \subseteq Sources
  BY <1>1, Finding DEF NewOnly
<1>4. CASE NewOnly(found) = {} /\ wait.now > NoProgress
  <2>1. pc' = "silent" /\ UNCHANGED <<wait, answer>>  BY <1>1, <1>4
  <2>2. Stands'  BY <1>2, <1>4, <2>1, AtWork DEF Stands, Opening, Preparing, Polling
  <2>3. pc' \in Steps /\ SeenOK'  BY <1>2, <2>1, AtWork DEF Steps, SeenOK
  <2> QED  BY <1>2, <1>3, <2>1, <2>2, <2>3, AtWork, DriverMoves
<1>5. CASE Decide(NewOnly(found))  BY <1>2, <1>3, <1>5, DecidingStep
<1> QED  BY <1>1, <1>4, <1>5

LEMMA SilentBanStep == ASSUME RoundInv, SilentBan PROVE RoundInv'
<1>1. PICK body \in Texts :
        /\ BodyText(body)
        /\ IF StillBanned(body)
           THEN Answer(Failure("unusual_activity")) /\ UNCHANGED wait
           ELSE Decide({})
  BY DEF SilentBan
<1>2. pc = "silent" /\ UNCHANGED <<preset, page, port, kept, seen>>  BY DEF SilentBan
<1>3. troubles \subseteq troubles'  BY <1>1, Texting, AtWork
<1>4. CASE Answer(Failure("unusual_activity")) /\ UNCHANGED wait
  BY <1>2, <1>3, <1>4, FailingStep DEF Polling, Port!PageStates
<1>5. CASE Decide({})  BY <1>2, <1>3, <1>5, DecidingStep
<1> QED  BY <1>1, <1>4, <1>5

LEMMA DownloadCandidatesStep == ASSUME RoundInv, DownloadCandidates PROVE RoundInv'
<1>1. PICK got \in SUBSET answer.candidates : kept' = kept \cup got  BY DEF DownloadCandidates
<1>2. /\ pc = "answered" /\ pc' = "downloaded" /\ wait' = [NoWait EXCEPT !.round = wait.round]
      /\ UNCHANGED <<preset, page, port, answer, troubles, seen>>
  BY DEF DownloadCandidates
<1>3. wait' \in WaitType /\ wait'.round = wait.round  BY <1>2, AtWork DEF WaitType, NoWait
<1>4. answer.candidates \subseteq Sources  BY AtWork DEF Port!Answers
<1>5. kept' \subseteq Sources  BY <1>1, <1>4, AtWork
<1>6. Stands'  BY <1>2, AtWork DEF Stands, Opening, Preparing, Polling
<1>7. pc' \in Steps /\ SeenOK'  BY <1>2, AtWork DEF Steps, SeenOK
<1> QED  BY <1>2, <1>3, <1>5, <1>6, <1>7, AtWork, DriverMoves

LEMMA CloseStep == ASSUME RoundInv, Close PROVE RoundInv'
<1>1. /\ pc' = "shut" /\ page' = [page EXCEPT !.over = "gone"] /\ wait' = NoWait
      /\ UNCHANGED <<preset, port, answer, kept, troubles, seen>>
  BY DEF Close
<1>2. page' \in PageType  BY <1>1, AtWork DEF PageType
<1>3. page'.notices = page.notices /\ page'.waiting = page.waiting
  BY <1>1, AtWork DEF PageType
<1>4. TypeOK'  BY <1>1, <1>2, AtWork DEF TypeOK, PageType, WaitType, PortType, Steps
<1>5. SeenOK'  BY <1>1, AtWork DEF SeenOK
<1>6. Stands'  BY <1>1, AtWork DEF Stands, Opening, Preparing, Polling
<1>7. PageStands'  BY <1>1, <1>3 DEF PageStands, RoundInv
<1> QED  BY <1>4, <1>5, <1>6, <1>7 DEF RoundInv

-----------------------------------------------------------------------------
(* The round's invariant, and the types.                                   *)

LEMMA RoundInitially == Init => RoundInv
<1> SUFFICES ASSUME Init PROVE RoundInv  OBVIOUS
<1> USE DEF Init
<1>1. PICK old \in EarlierCards, hidden \in SUBSET Earlier, n \in 0 .. MaxNotices - 1,
           waiting \in 0 .. MaxNotices - 1 :
        /\ n + waiting < MaxNotices
        /\ page = [over |-> "app", card |-> old, hidden |-> hidden, notices |-> n,
                  waiting |-> waiting, retryable |-> FALSE, work |-> "idle", dialog |-> "none"]
  OBVIOUS
<1>2. n \in 0 .. MaxNotices /\ waiting \in 0 .. MaxNotices /\ n + waiting <= MaxNotices
      /\ 0 \in 0 .. MaxNotices
  BY <1>1, Numbers
<1>3. page \in PageType
  <2>1. old \in [Media -> {"none", "poster", "video"}]  BY DEF EarlierCards
  <2>2. hidden \subseteq Media  BY Bounds
  <2> QED  BY <1>1, <1>2, <2>1, <2>2 DEF PageType
<1>4. port \in PortType  BY <1>2 DEF PortType
<1>5. NoWait \in WaitType
  <2>1. 0 \in 0 .. MaxRounds /\ 0 \in 0 .. Timeout /\ 0 \in 0 .. RetryBudget /\ 0 \in 0 .. Sweeps
        /\ 0 \in (-1 - RetryGap) .. Timeout
    BY Numbers
  <2> QED  BY <2>1 DEF NoWait, WaitType
<1>6. NoAnswer \in Port!Answers  BY FailureIsTyped DEF Port!PageStates
<1>7. TypeOK  BY <1>3, <1>4, <1>5, <1>6, Typed DEF Steps
<1>8. SeenOK /\ seen.refused = 0
  <2>1. 0 \in 0 .. MaxRounds /\ 0 \in 0 .. Timeout  BY Numbers
  <2> QED  BY <2>1 DEF SeenOK
<1>9. Stands  BY DEF Stands, Opening, Preparing, Polling, NoAnswer, NoWait
<1>10. PageStands
  <2>1. page.work = "idle" /\ page.dialog = "none"  BY <1>1
  <2>2. page.notices + page.waiting <= MaxNotices  BY <1>1, <1>2
  <2> QED  BY <1>8, <2>1, <2>2 DEF PageStands
<1> QED  BY <1>7, <1>8, <1>9, <1>10 DEF RoundInv

LEMMA RoundStep == RoundInv /\ [Next]_vars => RoundInv'
<1> SUFFICES ASSUME RoundInv, [Next]_vars PROVE RoundInv'  OBVIOUS
<1>1. CASE World  BY <1>1, WorldStep
<1>2. CASE OpenClassify  BY <1>2, OpenLookStep DEF OpenClassify
<1>3. CASE OpenSettled  BY <1>3, OpenLookStep DEF OpenSettled
<1>4. CASE UploadSourceAssets  BY <1>4, PrepareStep DEF UploadSourceAssets
<1>5. CASE PastePrompt  BY <1>5, PrepareStep DEF PastePrompt
<1>6. CASE UNCHANGED vars
  BY <1>6, Typed DEF vars, RoundInv, SeenOK, Stands, PageStands, TypeOK, PageType, PortType, WaitType
<1> QED
  BY <1>1, <1>2, <1>3, <1>4, <1>5, <1>6, OpenGotoStep, OpenBaselineStep, OpenPresetStep,
     TakeSnapshotStep, TriggerRaisesStep, ClickCreateStep, SweepAfterClickStep, WaitBeginsStep,
     TimedOutStep, ProbeStep, ClassifyInRoundStep, CollectStep, SilentBanStep,
     DownloadCandidatesStep, CloseStep
  DEF Next, Driver

LEMMA RoundInvKept == Spec => []RoundInv  BY RoundInitially, RoundStep, PTL DEF Spec

(* Every variable has its type: the clocks, the retries and the sweeps of  *)
(* a wait never leave their bounds (flow_playwright.py:1560-1830).         *)
THEOREM RoundTypeCorrect == Spec => []TypeOK
<1>1. RoundInv => TypeOK  BY DEF RoundInv
<1> QED  BY <1>1, RoundInvKept, PTL

-----------------------------------------------------------------------------
(* What a step may do to the answer.                                       *)

(* The driver offers what it found, and the list has it.                   *)
Offering == \E found \in Findings :
    /\ CollectCandidates(found) /\ Offers(NewOnly(found))
    /\ pc \in {"collect", "silent"} /\ UNCHANGED <<page, port, seen>>

Answering ==
    /\ preset' = preset
    /\ kept' \subseteq kept \cup answer.candidates
    /\ \/ Offering
       \/ answer'.candidates = {} /\ pc' # "answered"
       \/ UNCHANGED answer /\ (pc' = "answered" => pc = "answered" /\ UNCHANGED wait)

LEMMA StepAnswers == ASSUME RoundInv, Next PROVE Answering
<1>1. CASE World
  BY <1>1 DEF World, CardsMount, CardsUnmount, PosterAppears, VideoMounts, GenerationRefused, GenerationFails,
     DialogAppears, PageTakenOver, Answering
<1>2. CASE OpenGoto  BY <1>2 DEF OpenGoto, NoAnswer, Failure, Answering
<1>3. CASE OpenBaseline  BY <1>3 DEF OpenBaseline, Answering
<1>4. ASSUME NEW here, NEW next \in {"preset", "idle"}, OpenLook(here, next) PROVE Answering
  BY <1>4 DEF OpenLook, Failure, Answering
<1>5. CASE OpenClassify \/ OpenSettled  BY <1>4, <1>5 DEF OpenClassify, OpenSettled
<1>6. CASE OpenPreset  BY <1>6 DEF OpenPreset, Answering
<1>7. ASSUME NEW here, NEW next \in {"attached", "prompted"}, Prepare(here, next) PROVE Answering
  BY <1>7 DEF Prepare, NoAnswer, Answering
<1>8. CASE UploadSourceAssets \/ PastePrompt  BY <1>7, <1>8 DEF UploadSourceAssets, PastePrompt
<1>9. CASE TakeSnapshot \/ TriggerRaises \/ SweepAfterClick \/ WaitBegins
  BY <1>9 DEF TakeSnapshot, TriggerRaises, SweepAfterClick, WaitBegins, Answering
<1>10. CASE ClickCreate  BY <1>10 DEF ClickCreate, Answering
<1>11. CASE TimedOut  BY <1>11 DEF TimedOut, Answer, Answering
<1>12. CASE Probe  BY <1>12, Probing DEF Probe, Answering
<1>13. CASE ClassifyInRound  BY <1>13 DEF ClassifyInRound, Answer, Failure, EndsRound, Answering
<1>14. CASE Collect
  <2>1. PICK found \in Findings :
          /\ CollectCandidates(found)
          /\ IF NewOnly(found) = {} /\ wait.now > NoProgress
             THEN pc' = "silent" /\ UNCHANGED <<wait, answer>>
             ELSE Decide(NewOnly(found))
    BY <1>14 DEF Collect
  <2>2. pc = "collect" /\ UNCHANGED <<preset, page, port, kept, seen>>  BY <1>14 DEF Collect
  <2>3. CASE pc' = "silent" /\ UNCHANGED <<wait, answer>>  BY <2>2, <2>3 DEF Answering
  <2>4. CASE Decide(NewOnly(found))
    <3>1. NewOnly(found) \in SUBSET Sources  BY <2>1, Finding DEF NewOnly
    <3>2. Offers(NewOnly(found)) \/ GoesOn(NewOnly(found))
      BY <2>2, <2>4, <3>1, Deciding, AtWork DEF Stands
    <3>3. CASE Offers(NewOnly(found))  BY <2>1, <2>2, <3>3 DEF Offering, Answering
    <3>4. CASE GoesOn(NewOnly(found))  BY <2>2, <3>4 DEF GoesOn, Answering
    <3> QED  BY <3>2, <3>3, <3>4
  <2> QED  BY <2>1, <2>3, <2>4
<1>15. CASE SilentBan
  <2>1. pc = "silent" /\ UNCHANGED <<preset, page, port, kept, seen>>  BY <1>15 DEF SilentBan
  <2>2. Answer(Failure("unusual_activity")) \/ Decide({})  BY <1>15 DEF SilentBan
  <2>3. CASE Answer(Failure("unusual_activity"))  BY <2>1, <2>3 DEF Answer, Failure, Answering
  <2>4. CASE Decide({})
    <3>1. GoesOn({})  BY <2>1, <2>4, Deciding, NothingGoesOn, AtWork DEF Stands
    <3> QED  BY <2>1, <3>1 DEF GoesOn, Answering
  <2> QED  BY <2>2, <2>3, <2>4
<1>16. CASE DownloadCandidates  BY <1>16 DEF DownloadCandidates, Answering
<1>17. CASE Close  BY <1>17 DEF Close, Answering
<1> QED  BY <1>1, <1>2, <1>3, <1>5, <1>6, <1>8, <1>9, <1>10, <1>11, <1>12, <1>13, <1>14, <1>15,
            <1>16, <1>17 DEF Next, Driver

-----------------------------------------------------------------------------
(* What a round offers.                                                    *)

LEMMA OfferStep ==
    ASSUME RoundInv, OffersOnlyVideos, ShortRoundWaited, [Next]_vars
    PROVE  OffersOnlyVideos' /\ ShortRoundWaited'
<1>1. CASE UNCHANGED vars
  BY <1>1 DEF vars, OffersOnlyVideos, ShortRoundWaited, InVideoMode, Videos
<1>2. CASE Next
  <2>1. Answering  BY <1>2, StepAnswers
  <2>2. OffersOnlyVideos'
    <3> SUFFICES ASSUME preset'.video, NEW s \in answer'.candidates \cup kept' PROVE s[2] = "video"
      BY DEF OffersOnlyVideos, InVideoMode, Videos
    <3>1. InVideoMode /\ \A a \in answer.candidates \cup kept : a[2] = "video"
      BY <2>1 DEF Answering, OffersOnlyVideos, InVideoMode, Videos
    <3>2. CASE s \in kept'  BY <2>1, <3>1, <3>2 DEF Answering
    <3>3. CASE s \in answer'.candidates
      <4>1. CASE Offering  BY <3>1, <3>3, <4>1 DEF Offering, Offers, Videos
      <4>2. CASE ~Offering  BY <2>1, <3>1, <3>3, <4>2 DEF Answering
      <4> QED  BY <4>1, <4>2
    <3> QED  BY <3>2, <3>3
  <2>3. ShortRoundWaited'
    <3>1. CASE Offering  BY <2>1, <3>1 DEF Answering, Offering, Offers, ShortRoundWaited
    <3>2. CASE ~Offering  BY <2>1, <3>2 DEF Answering, ShortRoundWaited
    <3> QED  BY <3>1, <3>2
  <2> QED  BY <2>2, <2>3
<1> QED  BY <1>1, <1>2

LEMMA OffersKept == Spec => [](OffersOnlyVideos /\ ShortRoundWaited)
<1>1. Init => OffersOnlyVideos /\ ShortRoundWaited
  BY DEF Init, OffersOnlyVideos, ShortRoundWaited, NoAnswer, Videos
<1>2. RoundInv /\ OffersOnlyVideos /\ ShortRoundWaited /\ [Next]_vars => OffersOnlyVideos' /\ ShortRoundWaited'
  BY OfferStep
<1> QED  BY <1>1, <1>2, RoundInvKept, PTL DEF Spec

(* In video mode no poster is offered or kept, in whatever order posters   *)
(* and videos mount (flow_playwright.py:1776-1826).                        *)
THEOREM OffersOnlyVideosKept == Spec => []OffersOnlyVideos  BY OffersKept, PTL

(* A round that falls short of its preset has waited for the whole window  *)
(* (flow_playwright.py:1587-1592 and 1771-1801).                           *)
THEOREM ShortRoundWaitedKept == Spec => []ShortRoundWaited  BY OffersKept, PTL

-----------------------------------------------------------------------------
(* A verdict of unusual activity has a cause.                              *)

Looking == Polling \cup {"opening", "preset", "settled"}

(* A driver that looks on at what it looked at, and has no such verdict.   *)
LEMMA BanCalm ==
    ASSUME RoundInv, BanInv, pc # "over",
           pc' \in Looking =>
              /\ pc \in Looking /\ page' \in {page, Dismissed(page)} /\ UNCHANGED <<port, seen>>
              /\ wait'.round = wait.round,
           pc' = "over" => answer'.state # "unusual_activity"
    PROVE  BanInv'
<1>1. BanHasCause'  BY DEF BanHasCause
<1>2. pc' \in Looking => page'.over = page.over /\ page'.notices = page.notices
  BY Dismissing, AtWork
<1>3. ASSUME pc' \in Looking
      PROVE  \/ page'.over # "app" \/ page'.notices <= port'.baseline
             \/ seen'.late \/ seen'.blind \/ (seen'.refused = wait'.round /\ wait'.round > 0)
  <2>1. /\ pc \in Looking /\ port' = port /\ seen' = seen /\ wait'.round = wait.round
        /\ page'.over = page.over /\ page'.notices = page.notices
    BY <1>2, <1>3
  <2>2. \/ page.over # "app" \/ page.notices <= port.baseline
        \/ seen.late \/ seen.blind \/ (seen.refused = wait.round /\ wait.round > 0)
    BY <2>1 DEF BanInv, Looking
  <2> QED  BY <2>1, <2>2
<1> QED  BY <1>1, <1>3 DEF BanInv, Looking

(* What the page does while the driver looks on.                           *)
LEMMA BanWorld == ASSUME RoundInv, BanInv, World PROVE BanInv'
<1>0. /\ page \in PageType /\ SeenOK /\ PageStands /\ wait \in WaitType /\ UNCHANGED <<pc, wait, port, answer>>
      /\ pc # "over"
  BY AtWork DEF RoundInv, World, CardsMount, CardsUnmount, PosterAppears, VideoMounts, GenerationRefused,
     GenerationFails, DialogAppears, PageTakenOver, Alive
<1>1. BanHasCause'  BY <1>0 DEF BanHasCause
<1> DEFINE C == \/ page.over # "app" \/ page.notices <= port.baseline
                \/ seen.late \/ seen.blind \/ (seen.refused = wait.round /\ wait.round > 0)
<1>2. ASSUME pc \in Looking, C PROVE C'
  <2>1. CASE CardsMount
    <3>1. PICK n \in 0 .. page.waiting :
            /\ seen' = [seen EXCEPT !.late = @ \/ n > 0]
            /\ page'.over = page.over /\ page'.notices = page.notices + n
      BY <1>0, <2>1 DEF CardsMount, PageType
    <3>2. seen'.late = (seen.late \/ n > 0) /\ seen'.blind = seen.blind /\ seen'.refused = seen.refused
      BY <1>0, <3>1 DEF SeenOK
    <3>3. page.waiting \in 0 .. MaxNotices /\ page.notices \in 0 .. MaxNotices  BY <1>0 DEF PageType
    <3>4. CASE n > 0
      <4>1. seen'.late = TRUE  BY <3>2, <3>4
      <4> QED  BY <4>1
    <3>5. CASE ~(n > 0)
      <4>1. page'.notices = page.notices  BY <3>1, <3>3, <3>5, Numbers
      <4>2. seen.late => seen'.late  BY <3>2, Zenon
      <4> QED  BY <1>0, <1>2, <3>1, <3>2, <4>1, <4>2
    <3> QED  BY <3>4, <3>5
  <2>2. CASE CardsUnmount
    <3>1. PICK n \in 0 .. page.notices :
            seen' = seen /\ page'.over = page.over /\ page'.notices = page.notices - n
      BY <1>0, <2>2 DEF CardsUnmount, PageType
    <3>2. page.notices \in 0 .. MaxNotices /\ port.baseline \in 0 .. MaxNotices
      BY <1>0, AtWork DEF PageType, PortType
    <3>3. page.notices <= port.baseline => page'.notices <= port.baseline  BY <3>1, <3>2, Numbers
    <3> QED  BY <1>0, <1>2, <3>1, <3>3
  <2>3. CASE GenerationRefused
    <3>1. seen'.refused = wait.round  BY <1>0, <2>3 DEF GenerationRefused, SeenOK
    <3>2. wait.round > 0  BY <1>0, <2>3 DEF GenerationRefused, PageStands, Alive
    <3> QED  BY <1>0, <3>1, <3>2
  <2>4. CASE PosterAppears \/ VideoMounts \/ GenerationFails \/ DialogAppears \/ PageTakenOver
    <3>1. page'.notices = page.notices /\ seen' = seen
      BY <1>0, <2>4
      DEF PosterAppears, VideoMounts, GenerationFails, DialogAppears, PageTakenOver, PageType
    <3>2. page.over # "app" => page'.over # "app"
      BY <1>0, <2>4
      DEF PosterAppears, VideoMounts, GenerationFails, DialogAppears, PageTakenOver, PageType
    <3> QED  BY <1>0, <1>2, <3>1, <3>2
  <2> QED  BY <2>1, <2>2, <2>3, <2>4 DEF World
<1>3. pc \in Looking => C  BY DEF BanInv, Looking
<1>4. pc' \in Looking => C'  BY <1>0, <1>2, <1>3
<1> QED  BY <1>1, <1>4 DEF BanInv, Looking

(* A baseline is taken.                                                    *)
LEMMA BanRefreshed ==
    ASSUME RoundInv, NEW body \in Texts, RefreshBaseline(body), page' = page, pc' # "over"
    PROVE  BanInv'
<1>1. port'.baseline = body.notices /\ seen'.blind = (body.notices # Body.notices)  BY Refreshing
<1>2. page.notices \in 0 .. MaxNotices  BY AtWork DEF PageType
<1>3. page.over # "app" \/ page.notices <= port'.baseline \/ seen'.blind
  <2>1. page.over = "app" => Body.notices = page.notices  BY DEF Body
  <2>2. CASE body.notices = Body.notices  BY <1>1, <1>2, <2>1, <2>2, Numbers
  <2>3. CASE body.notices # Body.notices  BY <1>1, <2>3
  <2> QED  BY <2>2, <2>3
<1>4. BanHasCause'  BY DEF BanHasCause
<1> QED  BY <1>3, <1>4 DEF BanInv

(* A look that classifies: a notice above the baseline has a cause.        *)
LEMMA BanClassified ==
    ASSUME RoundInv, BanInv, NEW body \in Texts, BodyText(body), pc \in Looking,
           Classify(body, port.baseline) = "unusual_activity"
    PROVE  seen.late \/ seen.blind \/ (seen.refused = wait.round /\ wait.round > 0)
<1>1. body.notices > port.baseline  BY Classifying
<1>2. body.notices \in 0 .. MaxNotices /\ body.notices <= Body.notices  BY Texting, AtWork
<1>3. port.baseline \in 0 .. MaxNotices /\ page.notices \in 0 .. MaxNotices
  BY AtWork DEF PortType, PageType
<1>4. page.over = "app" /\ ~(page.notices <= port.baseline)
  <2>1. Body.notices = (IF page.over = "app" THEN page.notices ELSE 0)  BY DEF Body
  <2> QED  BY <1>1, <1>2, <1>3, <2>1, Numbers
<1> QED  BY <1>4 DEF BanInv, Looking

LEMMA BanStep == ASSUME RoundInv, BanInv, [Next]_vars PROVE BanInv'
<1> USE DEF Looking, Polling
<1>1. CASE UNCHANGED vars  BY <1>1 DEF vars, BanInv, BanHasCause
<1>2. CASE World  BY <1>2, BanWorld
<1>3. CASE OpenGoto  BY <1>3, BanCalm DEF OpenGoto, NoAnswer, Failure
<1>4. CASE OpenBaseline  BY <1>4, BanRefreshed DEF OpenBaseline
<1>5. ASSUME NEW here \in {"opening", "settled"}, NEW next \in {"preset", "idle"}, OpenLook(here, next)
      PROVE  BanInv'
  <2>1. PICK body \in Texts :
          /\ BodyText(body)
          /\ pc' = IF Classify(body, port.baseline) = "ready" THEN next ELSE "over"
          /\ answer' = Failure(Classify(body, port.baseline))
    BY <1>5 DEF OpenLook
  <2>2. pc = here /\ UNCHANGED <<preset, page, port, wait, kept, seen>>  BY <1>5 DEF OpenLook
  <2>3. CASE Classify(body, port.baseline) = "unusual_activity"
    <3>1. pc' = "over" /\ answer'.state = "unusual_activity"  BY <2>1, <2>3 DEF Failure
    <3>2. seen.late \/ seen.blind \/ (seen.refused = wait.round /\ wait.round > 0)
      BY <2>1, <2>2, <2>3, BanClassified
    <3> QED  BY <2>2, <3>1, <3>2 DEF BanInv, BanHasCause
  <2>4. CASE Classify(body, port.baseline) # "unusual_activity"
    <3>1. answer'.state # "unusual_activity"  BY <2>1, <2>4 DEF Failure
    <3> QED  BY <2>1, <2>2, <3>1, BanCalm
  <2> QED  BY <2>3, <2>4
<1>6. CASE OpenClassify \/ OpenSettled  BY <1>5, <1>6 DEF OpenClassify, OpenSettled
<1>7. CASE OpenPreset  BY <1>7, BanCalm DEF OpenPreset
<1>8. ASSUME NEW here \in {"idle", "downloaded", "attached"}, NEW next \in {"attached", "prompted"},
             Prepare(here, next)
      PROVE  BanInv'
  BY <1>8, BanCalm DEF Prepare, NoAnswer
<1>9. CASE UploadSourceAssets \/ PastePrompt  BY <1>8, <1>9 DEF UploadSourceAssets, PastePrompt
<1>10. CASE TakeSnapshot \/ SweepAfterClick  BY <1>10, BanCalm DEF TakeSnapshot, SweepAfterClick
<1>11. CASE TriggerRaises \/ ClickCreate
  <2>1. answer' = NoAnswer /\ pc' \in {"over", "clicked"} /\ pc # "over"
    BY <1>11, AtWork DEF TriggerRaises, ClickCreate, Stands
  <2> QED  BY <2>1, BanCalm DEF NoAnswer
<1>12. CASE WaitBegins  BY <1>12, BanRefreshed DEF WaitBegins
<1>13. CASE TimedOut  BY <1>13, BanCalm DEF TimedOut, Answer
<1>14. CASE Probe
  <2>1. /\ pc = "probe" /\ page' \in {page, Dismissed(page)} /\ UNCHANGED <<port, answer, seen>>
        /\ pc' \in {"classify", "probe"} /\ wait'.round = wait.round
    BY <1>14, Probing DEF Probe
  <2> QED  BY <2>1, BanCalm
<1>15. CASE ClassifyInRound
  <2>1. PICK body \in Texts :
          /\ BodyText(body)
          /\ IF Classify(body, port.baseline) \in EndsRound
             THEN Answer(Failure(Classify(body, port.baseline)))
             ELSE pc' = "collect" /\ UNCHANGED answer
    BY <1>15 DEF ClassifyInRound
  <2>2. pc = "classify" /\ UNCHANGED <<preset, page, port, wait, kept, seen>>
    BY <1>15 DEF ClassifyInRound
  <2>3. CASE Classify(body, port.baseline) = "unusual_activity"
    <3>1. pc' = "over" /\ answer'.state = "unusual_activity"
      BY <2>1, <2>3 DEF Failure, Answer, EndsRound
    <3>2. seen.late \/ seen.blind \/ (seen.refused = wait.round /\ wait.round > 0)
      BY <2>1, <2>2, <2>3, BanClassified
    <3> QED  BY <2>2, <3>1, <3>2 DEF BanInv, BanHasCause
  <2>4. CASE Classify(body, port.baseline) # "unusual_activity"
    <3>1. pc' = "collect" \/ (pc' = "over" /\ answer'.state # "unusual_activity")
      BY <2>1, <2>4 DEF Failure, Answer, EndsRound
    <3> QED  BY <2>2, <3>1, BanCalm
  <2> QED  BY <2>3, <2>4
<1>16. ASSUME NEW new \in SUBSET Sources, Decide(new), pc \in {"collect", "silent"},
              UNCHANGED <<preset, page, port, kept, seen>>
       PROVE  BanInv'
  <2>1. Offers(new) \/ GoesOn(new)  BY <1>16, Deciding, AtWork DEF Stands
  <2>2. pc' \in {"answered", "probe"} /\ wait'.round = wait.round  BY <2>1 DEF Offers, GoesOn
  <2> QED  BY <1>16, <2>2, BanCalm
<1>17. CASE Collect
  <2>1. PICK found \in Findings :
          /\ CollectCandidates(found)
          /\ IF NewOnly(found) = {} /\ wait.now > NoProgress
             THEN pc' = "silent" /\ UNCHANGED <<wait, answer>>
             ELSE Decide(NewOnly(found))
    BY <1>17 DEF Collect
  <2>2. pc = "collect" /\ UNCHANGED <<preset, page, port, kept, seen>>  BY <1>17 DEF Collect
  <2>3. CASE pc' = "silent" /\ UNCHANGED <<wait, answer>>  BY <2>2, <2>3, BanCalm
  <2>4. CASE Decide(NewOnly(found))
    <3>1. NewOnly(found) \in SUBSET Sources  BY <2>1, Finding DEF NewOnly
    <3> QED  BY <1>16, <2>2, <2>4, <3>1
  <2> QED  BY <2>1, <2>3, <2>4
<1>18. CASE SilentBan
  <2>1. pc = "silent" /\ UNCHANGED <<preset, page, port, kept, seen>>  BY <1>18 DEF SilentBan
  <2>2. CASE Answer(Failure("unusual_activity")) /\ UNCHANGED wait
    <3>1. wait.now > NoProgress  BY <2>1, AtWork DEF Stands
    <3>2. pc' = "over"  BY <2>2 DEF Answer, Failure
    <3> QED  BY <2>2, <3>1, <3>2 DEF BanInv, BanHasCause
  <2>3. CASE Decide({})  BY <1>16, <2>1, <2>3
  <2> QED  BY <1>18, <2>2, <2>3 DEF SilentBan
<1>19. CASE DownloadCandidates  BY <1>19, BanCalm DEF DownloadCandidates
<1>20. CASE Close  BY <1>20 DEF Close, BanInv, BanHasCause
<1> QED  BY <1>1, <1>2, <1>3, <1>4, <1>6, <1>7, <1>9, <1>10, <1>11, <1>12, <1>13, <1>14, <1>15,
            <1>17, <1>18, <1>19, <1>20 DEF Next, Driver

(* A ban is reported of a refusal of this round, of notices that mounted   *)
(* late or could not be read, or after two minutes without a result        *)
(* (flow_playwright.py:450-461 and 1704-1722).                             *)
THEOREM BanHasCauseKept == Spec => []BanHasCause
<1>1. Init => BanInv
  BY DEF Init, BanInv, BanHasCause, Polling
<1>2. RoundInv /\ BanInv /\ [Next]_vars => BanInv'  BY BanStep
<1>3. BanInv => BanHasCause  BY DEF BanInv
<1> QED  BY <1>1, <1>2, <1>3, RoundInvKept, PTL DEF Spec

-----------------------------------------------------------------------------
(* A refusal is reported.                                                  *)

LEMMA ReportCalm ==
    ASSUME RoundInv, ReportInv, pc # "over",
           pc' \in {"clicked", "waiting"} => wait'.now = 0,
           pc' = "probe" /\ wait'.now >= Timeout /\ seen'.refused = wait'.round => Excused',
           pc' = "over" => ~answer'.timed_out
    PROVE  ReportInv'
BY DEF ReportInv, RefusalIsReported

LEMMA ReportWorld == ASSUME RoundInv, ReportInv, World PROVE ReportInv'
<1>0. /\ page \in PageType /\ SeenOK /\ wait \in WaitType /\ UNCHANGED <<pc, wait, port, answer>> /\ pc # "over"
  BY AtWork
  DEF World, CardsMount, CardsUnmount, PosterAppears, VideoMounts, GenerationRefused, GenerationFails,
      DialogAppears, PageTakenOver, Alive
<1>1. CASE GenerationRefused
  <2>1. pc = "probe" => seen'.refusedAt = wait.now  BY <1>0, <1>1 DEF GenerationRefused, SeenOK
  <2>2. pc = "probe" /\ wait.now >= Timeout => Excused'  BY <1>0, <2>1 DEF Excused
  <2> QED  BY <1>0, <2>2 DEF ReportInv, RefusalIsReported
<1>2. CASE CardsMount
  <2>1. seen'.refused = seen.refused /\ seen'.refusedAt = seen.refusedAt
    <3>1. PICK some : seen' = [seen EXCEPT !.late = some]  BY <1>2 DEF CardsMount
    <3> QED  BY <1>0, <3>1 DEF SeenOK
  <2>2. page'.over = page.over /\ page'.retryable = page.retryable /\ troubles' = troubles
    BY <1>0, <1>2 DEF CardsMount, PageType
  <2>3. Excused => Excused'  BY <1>0, <2>1, <2>2 DEF Excused
  <2> QED  BY <1>0, <2>1, <2>3 DEF ReportInv, RefusalIsReported
<1>3. CASE CardsUnmount
  <2>1. /\ seen' = seen /\ "scrolled" \in troubles' /\ UNCHANGED <<pc, wait, answer>>
    BY <1>3 DEF CardsUnmount, Spend
  <2>2. Excused'  BY <2>1 DEF Excused
  <2>3. RefusalIsReported'  BY <2>1 DEF RefusalIsReported
  <2> QED  BY <2>1, <2>2, <2>3 DEF ReportInv
<1>4. CASE PosterAppears \/ VideoMounts \/ GenerationFails \/ DialogAppears \/ PageTakenOver
  <2>1. seen' = seen /\ troubles \subseteq troubles'
    BY <1>4 DEF PosterAppears, VideoMounts, GenerationFails, DialogAppears, PageTakenOver, Spend
  <2>2. page.over # "app" => page'.over # "app"
    BY <1>0, <1>4
    DEF PosterAppears, VideoMounts, GenerationFails, DialogAppears, PageTakenOver, PageType
  <2>3. page.retryable => page'.retryable
    <3>1. CASE GenerationFails
      <4>1. page'.retryable = TRUE  BY <1>0, <3>1 DEF GenerationFails, PageType
      <4> QED  BY <4>1
    <3>2. CASE PosterAppears \/ VideoMounts \/ DialogAppears \/ PageTakenOver
      <4>1. page'.retryable = page.retryable
        BY <1>0, <3>2 DEF PosterAppears, VideoMounts, DialogAppears, PageTakenOver, PageType
      <4> QED  BY <4>1
    <3> QED  BY <1>4, <3>1, <3>2
  <2>4. Excused => Excused'  BY <1>0, <2>1, <2>2, <2>3 DEF Excused
  <2> QED  BY <1>0, <2>1, <2>4 DEF ReportInv, RefusalIsReported
<1> QED  BY <1>1, <1>2, <1>3, <1>4 DEF World

(* The last poll showed something new, or did not see the notice.          *)
LEMMA LastPoll ==
    ASSUME RoundInv, ReportInv, NoProgress + 1 < Timeout, Collect \/ SilentBan
    PROVE  ReportInv'
<1>0. /\ wait \in WaitType /\ wait.now \in 0 .. Timeout /\ wait.now < Timeout /\ wait.round > 0
      /\ page \in PageType /\ PageStands /\ ~answer.timed_out /\ pc \in {"collect", "silent"}
  BY AtWork DEF Stands, Polling, WaitType, RoundInv, Collect, SilentBan, NoAnswer
<1>1. ASSUME NEW new \in SUBSET Sources, Decide(new), UNCHANGED <<preset, page, port, kept, seen>>,
             wait.now > NoProgress /\ seen.refused = wait.round => new # {} \/ Excused'
      PROVE  ReportInv'
  <2>1. Offers(new) \/ GoesOn(new)  BY <1>0, <1>1, Deciding, AtWork
  <2>2. CASE Offers(new)
    <3>1. pc' = "answered" /\ wait' = wait  BY <2>2 DEF Offers
    <3> QED  BY <1>0, <3>1, ReportCalm
  <2>3. CASE GoesOn(new)
    <3>1. /\ pc' = "probe" /\ wait'.now = wait.now + 1 /\ wait'.round = wait.round
          /\ wait'.lastNew = new /\ answer' = answer
      BY <2>3 DEF GoesOn
    <3>2. ASSUME wait'.now >= Timeout, seen'.refused = wait'.round PROVE Excused'
      <4>1. wait.now > NoProgress /\ seen.refused = wait.round
        BY <1>0, <1>1, <3>1, <3>2, Numbers
      <4>2. new # {} \/ Excused'  BY <1>1, <4>1
      <4> QED  BY <3>1, <4>2 DEF Excused
    <3> QED  BY <1>0, <3>1, <3>2, ReportCalm
  <2> QED  BY <2>1, <2>2, <2>3
<1>2. CASE Collect
  <2>1. PICK found \in Findings :
          /\ CollectCandidates(found)
          /\ IF NewOnly(found) = {} /\ wait.now > NoProgress
             THEN pc' = "silent" /\ UNCHANGED <<wait, answer>>
             ELSE Decide(NewOnly(found))
    BY <1>2 DEF Collect
  <2>2. UNCHANGED <<preset, page, port, kept, seen>>  BY <1>2 DEF Collect
  <2>3. CASE NewOnly(found) = {} /\ wait.now > NoProgress  BY <1>0, <2>1, <2>3, ReportCalm
  <2>4. CASE ~(NewOnly(found) = {} /\ wait.now > NoProgress)
    <3>1. NewOnly(found) \in SUBSET Sources  BY <2>1, Finding DEF NewOnly
    <3>2. Decide(NewOnly(found))  BY <2>1, <2>4
    <3> QED  BY <1>1, <2>2, <2>4, <3>1, <3>2
  <2> QED  BY <2>3, <2>4
<1>3. CASE SilentBan
  <2>1. PICK body \in Texts :
          /\ BodyText(body)
          /\ IF StillBanned(body)
             THEN Answer(Failure("unusual_activity")) /\ UNCHANGED wait
             ELSE Decide({})
    BY <1>3 DEF SilentBan
  <2>2. UNCHANGED <<preset, page, port, kept, seen>>  BY <1>3 DEF SilentBan
  <2>3. CASE StillBanned(body)
    <3>1. pc' = "over" /\ ~answer'.timed_out  BY <2>1, <2>3 DEF Answer, Failure
    <3> QED  BY <1>0, <3>1, ReportCalm
  <2>4. CASE ~StillBanned(body)
    <3>1. Decide({})  BY <2>1, <2>4
    <3>2. ASSUME seen.refused = wait.round PROVE Excused'
      <4>1. page.notices > 0 \/ "scrolled" \in troubles'
        BY <1>0, <2>1, <3>2, Texting DEF PageStands
      <4>2. page.over = "app" /\ page.notices > 0 => body # Body
        <5>1. page.over = "app" => Body.notices = page.notices  BY DEF Body
        <5> QED  BY <2>4, <5>1 DEF StillBanned
      <4>3. page.over = "app" => {"blind", "scrolled"} \cap troubles' # {}
        BY <1>0, <2>1, <4>1, <4>2, Texting
      <4> QED  BY <2>2, <4>3 DEF Excused
    <3> QED  BY <1>1, <2>2, <3>1, <3>2
  <2> QED  BY <2>3, <2>4
<1> QED  BY <1>2, <1>3

LEMMA ReportStep ==
    ASSUME RoundInv, ReportInv, NoProgress + 1 < Timeout, [Next]_vars
    PROVE  ReportInv'
<1>1. CASE UNCHANGED vars  BY <1>1 DEF vars, ReportInv, RefusalIsReported, Excused
<1>2. CASE World  BY <1>2, ReportWorld
<1>3. CASE OpenGoto  BY <1>3, ReportCalm DEF OpenGoto, NoAnswer, Failure
<1>4. CASE OpenBaseline  BY <1>4, ReportCalm DEF OpenBaseline
<1>5. ASSUME NEW here \in {"opening", "settled"}, NEW next \in {"preset", "idle"}, OpenLook(here, next)
      PROVE  ReportInv'
  BY <1>5, ReportCalm DEF OpenLook, Failure
<1>6. CASE OpenClassify \/ OpenSettled  BY <1>5, <1>6 DEF OpenClassify, OpenSettled
<1>7. CASE OpenPreset  BY <1>7, ReportCalm DEF OpenPreset
<1>8. ASSUME NEW here \in {"idle", "downloaded", "attached"}, NEW next \in {"attached", "prompted"},
             Prepare(here, next)
      PROVE  ReportInv'
  BY <1>8, ReportCalm DEF Prepare, NoAnswer
<1>9. CASE UploadSourceAssets \/ PastePrompt  BY <1>8, <1>9 DEF UploadSourceAssets, PastePrompt
<1>10. CASE TakeSnapshot  BY <1>10, ReportCalm DEF TakeSnapshot
<1>11. CASE TriggerRaises \/ ClickCreate
  <2>1. /\ answer' = NoAnswer /\ pc # "over"
        /\ pc' = "over" \/ (pc' = "clicked" /\ wait' = [NoWait EXCEPT !.round = wait.round + 1])
    BY <1>11, AtWork DEF TriggerRaises, ClickCreate, Stands
  <2>2. pc' = "clicked" => wait'.now = 0  BY <2>1 DEF NoWait
  <2> QED  BY <2>1, <2>2, ReportCalm DEF NoAnswer
<1>12. CASE SweepAfterClick
  <2>1. pc = "clicked" /\ pc' = "waiting" /\ wait' = wait  BY <1>12 DEF SweepAfterClick
  <2> QED  BY <2>1, ReportCalm DEF ReportInv
<1>13. CASE WaitBegins
  <2>1. /\ pc = "waiting" /\ pc' = "probe"
        /\ wait' = [wait EXCEPT !.retries = RetryBudget, !.lastRetry = -1 - RetryGap, !.sweeps = Sweeps]
    BY <1>13 DEF WaitBegins
  <2>2. wait'.now = 0  BY <2>1, AtWork DEF ReportInv, WaitType
  <2> QED  BY <2>1, <2>2, ReportCalm, Numbers
<1>14. CASE TimedOut
  <2>1. /\ pc = "probe" /\ wait.now >= Timeout /\ pc' = "over"
        /\ UNCHANGED <<preset, page, port, wait, kept, troubles, seen>>
    BY <1>14 DEF TimedOut, Answer
  <2>2. RefusalIsReported'  BY <2>1 DEF ReportInv, Excused, RefusalIsReported
  <2> QED  BY <2>1, <2>2 DEF ReportInv
<1>15. CASE Probe
  <2>1. /\ wait.now < Timeout /\ pc = "probe" /\ page' \in {page, Dismissed(page)}
    BY <1>15 DEF Probe
  <2>2. page'.retryable = page.retryable  BY <2>1, Dismissing, AtWork
  <2>3. CASE pc' = "classify"  BY <2>1, <2>3, ReportCalm
  <2>4. CASE pc' = "probe" /\ page.retryable  BY <2>1, <2>2, <2>4, ReportCalm DEF Excused
  <2> QED  BY <1>15, <2>3, <2>4, Probing
<1>16. CASE ClassifyInRound
  <2>1. pc = "classify" /\ (pc' = "collect" \/ (pc' = "over" /\ ~answer'.timed_out))
    BY <1>16 DEF ClassifyInRound, Answer, Failure, EndsRound
  <2> QED  BY <2>1, ReportCalm
<1>17. CASE Collect \/ SilentBan  BY <1>17, LastPoll
<1>18. CASE DownloadCandidates  BY <1>18, ReportCalm DEF DownloadCandidates
<1>19. CASE Close  BY <1>19 DEF Close, ReportInv, RefusalIsReported
<1> QED  BY <1>1, <1>2, <1>3, <1>4, <1>6, <1>7, <1>9, <1>10, <1>11, <1>12, <1>13, <1>14, <1>15,
            <1>16, <1>17, <1>18, <1>19 DEF Next, Driver

(* A round that times out after a refusal had an excuse, if there is a     *)
(* poll between the two minutes and the deadline, as there is unless the   *)
(* operator has lowered it (flow_playwright.py:1704-1722).                 *)
THEOREM RefusalIsReportedKept == ASSUME NoProgress + 1 < Timeout PROVE Spec => []RefusalIsReported
<1>1. Init => ReportInv  BY DEF Init, ReportInv, RefusalIsReported
<1>2. RoundInv /\ ReportInv /\ [Next]_vars => ReportInv'  BY ReportStep
<1>3. ReportInv => RefusalIsReported  BY DEF ReportInv
<1> QED  BY <1>1, <1>2, <1>3, RoundInvKept, PTL DEF Spec

-----------------------------------------------------------------------------
(* Nothing is downloaded twice.                                            *)

(* Cards come and go, but a result stays one, and a poster only becomes a  *)
(* video.                                                                  *)
PageGoesOn ==
    /\ page.over # "app" => page'.over # "app"
    /\ \A m \in Media :
          \/ page'.card[m] = page.card[m]
          \/ page.card[m] = "none"
          \/ page.card[m] = "poster" /\ page'.card[m] = "video"

LEMMA StepOfPage == ASSUME RoundInv, [Next]_vars PROVE PageGoesOn
<1>0. page \in PageType  BY AtWork
<1>1. CASE page' \in {page, Dismissed(page)}
  <2>1. page'.over = page.over /\ page'.card = page.card
    BY <1>0, <1>1, Dismissing
  <2> QED  BY <2>1 DEF PageGoesOn
<1>2. CASE World
  <2>1. CASE CardsMount \/ CardsUnmount
    <3>1. page'.over = page.over /\ page'.card = page.card
      BY <1>0, <2>1 DEF CardsMount, CardsUnmount, PageType
    <3> QED  BY <3>1 DEF PageGoesOn
  <2>2. CASE PosterAppears
    <3>1. PICK m \in Media : page.card[m] = "none" /\ page' = [page EXCEPT !.card[m] = "poster"]
      BY <2>2 DEF PosterAppears
    <3>2. /\ page'.over = page.over
          /\ \A n \in Media : n # m => page'.card[n] = page.card[n]
      BY <1>0, <3>1 DEF PageType
    <3> QED  BY <3>1, <3>2 DEF PageGoesOn
  <2>3. CASE VideoMounts
    <3>1. PICK m \in Media : page.card[m] = "poster" /\ page' = [page EXCEPT !.card[m] = "video"]
      BY <2>3 DEF VideoMounts
    <3>2. /\ page'.over = page.over /\ page'.card[m] = "video"
          /\ \A n \in Media : n # m => page'.card[n] = page.card[n]
      BY <1>0, <3>1 DEF PageType
    <3> QED  BY <3>1, <3>2 DEF PageGoesOn
  <2>4. CASE GenerationRefused \/ GenerationFails \/ DialogAppears
    <3>1. page'.over = page.over /\ page'.card = page.card
      BY <1>0, <2>4 DEF GenerationRefused, GenerationFails, DialogAppears, PageType
    <3> QED  BY <3>1 DEF PageGoesOn
  <2>5. CASE PageTakenOver
    <3>1. page.over = "app" /\ page'.card = page.card
      BY <1>0, <2>5 DEF PageTakenOver, PageType
    <3> QED  BY <3>1 DEF PageGoesOn
  <2> QED  BY <1>2, <2>1, <2>2, <2>3, <2>4, <2>5 DEF World
<1>3. CASE ClickCreate
  <2>1. page' = page \/ (page'.over = page.over /\ page'.card = page.card)
    BY <1>0, <1>3 DEF ClickCreate, PageType
  <2> QED  BY <2>1 DEF PageGoesOn
<1>4. CASE Close
  <2>1. page'.over = "gone" /\ page'.card = page.card
    BY <1>0, <1>4 DEF Close, PageType
  <2> QED  BY <2>1 DEF PageGoesOn
<1>5. CASE UNCHANGED vars  BY <1>1, <1>5 DEF vars
<1>6. CASE Driver /\ ~ClickCreate /\ ~Close
  <2>1. page' \in {page, Dismissed(page)}
    BY <1>6
    DEF Driver, OpenGoto, OpenBaseline, OpenClassify, OpenPreset, OpenSettled, OpenLook,
        UploadSourceAssets, PastePrompt, Prepare, TakeSnapshot, TriggerRaises, SweepAfterClick,
        WaitBegins, TimedOut, Probe, ClassifyInRound, Collect, SilentBan, DownloadCandidates
  <2> QED  BY <1>1, <2>1
<1> QED  BY <1>2, <1>3, <1>4, <1>5, <1>6 DEF Next

Waiting == Polling \cup {"snapped", "clicked", "waiting"}

(* Between two clicks on Create the snapshot stands, and what is kept.     *)
LEMMA SnapshotStands ==
    ASSUME RoundInv, [Next]_vars, pc' \in Waiting, ~TakeSnapshot
    PROVE  /\ pc \in Waiting /\ kept' = kept /\ port'.snapshot = port.snapshot
           /\ seen'.missed = seen.missed
<1> USE DEF Waiting, Polling
<1>0. seen \in [refused : 0 .. MaxRounds, refusedAt : 0 .. Timeout,
                late : BOOLEAN, blind : BOOLEAN, missed : SUBSET Sources]
  BY AtWork DEF SeenOK
<1>1. CASE World
  <2>1. UNCHANGED <<pc, kept, port>>
    BY <1>1 DEF World, CardsMount, CardsUnmount, PosterAppears, VideoMounts, GenerationRefused, GenerationFails,
       DialogAppears, PageTakenOver
  <2>2. CASE CardsMount  BY <1>0, <2>1, <2>2 DEF CardsMount
  <2>3. CASE GenerationRefused  BY <1>0, <2>1, <2>3 DEF GenerationRefused
  <2>4. CASE ~CardsMount /\ ~GenerationRefused
    <3>1. seen' = seen
      BY <1>1, <2>4
      DEF World, CardsUnmount, PosterAppears, VideoMounts, GenerationFails, DialogAppears, PageTakenOver
    <3> QED  BY <2>1, <3>1
  <2> QED  BY <2>2, <2>3, <2>4
<1>2. CASE WaitBegins
  <2>1. PICK body \in Texts : RefreshBaseline(body)  BY <1>2 DEF WaitBegins
  <2>2. seen'.missed = seen.missed /\ port'.snapshot = port.snapshot  BY <2>1, Refreshing
  <2> QED  BY <1>2, <2>2 DEF WaitBegins
<1>3. CASE ClickCreate \/ SweepAfterClick \/ Probe \/ ClassifyInRound \/ Collect \/ SilentBan
  BY <1>3 DEF ClickCreate, SweepAfterClick, Probe, ClassifyInRound, Collect, SilentBan
<1>4. CASE UNCHANGED vars  BY <1>4 DEF vars
<1>5. ~(OpenGoto \/ OpenBaseline \/ OpenPreset \/ TriggerRaises \/ TimedOut \/ DownloadCandidates \/ Close)
  BY DEF OpenGoto, OpenBaseline, OpenPreset, TriggerRaises, TimedOut, Answer, DownloadCandidates, Close
<1>6. ~(OpenClassify \/ OpenSettled \/ UploadSourceAssets \/ PastePrompt)
  BY DEF OpenClassify, OpenSettled, OpenLook, UploadSourceAssets, PastePrompt, Prepare
<1> QED  BY <1>1, <1>2, <1>3, <1>4, <1>5, <1>6 DEF Next, Driver

LEMMA KeptStep == ASSUME RoundInv, KeptInv, [Next]_vars PROVE KeptInv'
<1>0. /\ page \in PageType /\ kept \subseteq Sources /\ answer.candidates \subseteq Sources /\ PageGoesOn
  BY AtWork, StepOfPage DEF Port!Answers
<1>1. ASSUME NEW s \in Sources, Was(s) PROVE Was(s)'
  BY <1>0, <1>1 DEF Was, PageGoesOn, Sources, Kinds
<1>2. ASSUME NEW s \in kept' \cup answer'.candidates PROVE Was(s)'
  <2>1. CASE s \in kept \cup answer.candidates  BY <1>0, <1>1, <2>1 DEF KeptInv
  <2>2. CASE s \notin kept \cup answer.candidates
    <3>1. Answering  BY <1>2, <2>2, StepAnswers DEF vars
    <3>2. Offering  BY <1>2, <2>2, <3>1 DEF Answering
    <3>3. PICK found \in Findings : CollectCandidates(found) /\ Offers(NewOnly(found))
      BY <3>2 DEF Offering
    <3>4. s \in found  BY <1>2, <2>2, <3>1, <3>3 DEF Answering, Offers, NewOnly
    <3>5. s \in Sources /\ Was(s)  BY <3>3, <3>4, Finding
    <3> QED  BY <1>1, <3>5
  <2> QED  BY <2>1, <2>2
<1>3. ASSUME pc' \in Waiting, NEW s \in kept',
             page'.over = "app", page'.card[s[1]] = s[2]
      PROVE  s \in port'.snapshot \cup seen'.missed
  <2>1. CASE TakeSnapshot
    <3>1. PICK found \in Findings :
            port' = [port EXCEPT !.snapshot = found] /\ seen' = [seen EXCEPT !.missed = Results \ found]
      BY <2>1 DEF TakeSnapshot
    <3>2. kept' = kept /\ page' = Dismissed(page)  BY <2>1 DEF TakeSnapshot
    <3>3. port'.snapshot = found /\ seen'.missed = Results \ found
      BY <3>1, AtWork DEF PortType, SeenOK
    <3>4. page.card[s[1]] = s[2] /\ s \in Sources  BY <1>0, <1>3, <3>2, Dismissing
    <3>5. s \in Results  BY <3>4 DEF Results, Sources
    <3> QED  BY <3>3, <3>5
  <2>2. CASE ~TakeSnapshot
    <3>1. /\ pc \in Waiting /\ kept' = kept /\ port'.snapshot = port.snapshot
          /\ seen'.missed = seen.missed
      BY <1>3, <2>2, SnapshotStands
    <3>2. s \in Sources /\ Was(s)  BY <1>0, <3>1 DEF KeptInv
    <3>3. page.over = "app"  BY <1>0, <1>3 DEF PageGoesOn
    <3>4. page.card[s[1]] = s[2]
      BY <1>0, <1>3, <3>2 DEF Was, PageGoesOn, Sources, Kinds
    <3> QED  BY <1>3, <3>1, <3>3, <3>4 DEF KeptInv, Waiting
  <2> QED  BY <2>1, <2>2
<1> QED  BY <1>2, <1>3 DEF KeptInv, Waiting

LEMMA OffersTheNew ==
    ASSUME RoundInv, KeptInv, [Next]_vars
    PROVE  answer' # answer => answer'.candidates \cap kept \subseteq seen.missed \cup Exposed'
<1> SUFFICES ASSUME answer' # answer, NEW s \in answer'.candidates, s \in kept, s \notin seen.missed
             PROVE  s \in Exposed'
  OBVIOUS
<1>1. Answering  BY StepAnswers DEF vars
<1>2. PICK found \in Findings :
        /\ CollectCandidates(found) /\ Offers(NewOnly(found)) /\ pc \in {"collect", "silent"}
        /\ page' = page
  BY <1>1 DEF Answering, Offering
<1>3. s \in found /\ s \notin port.snapshot  BY <1>2 DEF Offers, NewOnly
<1>4. s \in Sources /\ page.over = "app" /\ Was(s)  BY <1>2, <1>3, Finding
<1>5. page.card[s[1]] # s[2]  BY <1>2, <1>3, <1>4 DEF KeptInv, Polling
<1>6. "glitch" \in troubles' /\ s[2] = "poster"  BY <1>2, <1>3, <1>5, Finding
<1>7. page'.card[s[1]] = "video"  BY <1>2, <1>4, <1>5 DEF Was
<1> QED  BY <1>4, <1>6, <1>7 DEF Exposed

(* Over all rounds of a session nothing kept is offered again that the     *)
(* round's snapshot saw, however cards leave the document and come back: a *)
(* result it did not see may be, and a poster whose video could not be     *)
(* read (flow_playwright.py:1481-1486, 1697-1732 and 1845-1896).           *)
THEOREM NothingTwiceKept == Spec => NothingTwice
<1>1. Init => KeptInv  BY DEF Init, KeptInv, NoAnswer, Polling
<1>2. RoundInv /\ KeptInv /\ [Next]_vars => KeptInv'  BY KeptStep
<1>3. RoundInv /\ KeptInv /\ [Next]_vars =>
        [answer' # answer => answer'.candidates \cap kept \subseteq seen.missed \cup Exposed']_vars
  BY OffersTheNew
<1> QED  BY <1>1, <1>2, <1>3, RoundInvKept, PTL DEF Spec, NothingTwice

-----------------------------------------------------------------------------
(* The driver is a FlowPort.                                               *)

(* A page that is not ready is answered as the port answers it.            *)
LEMMA FailureIsPorts ==
    ASSUME NEW v
    PROVE  Failure(v) = [Port!NoAnswer EXCEPT !.state = v]
<1>1. ASSUME NEW c, NEW t
      PROVE  [state |-> v, candidates |-> c, timed_out |-> t]
               = [[state |-> "ready", candidates |-> c, timed_out |-> t] EXCEPT !.state = v]
  OBVIOUS
<1>2. [state |-> v, candidates |-> {}, timed_out |-> FALSE]
        = [[state |-> "ready", candidates |-> {}, timed_out |-> FALSE] EXCEPT !.state = v]
  BY <1>1, Zenon
<1> QED  BY <1>2 DEF Failure, Port!NoAnswer

LEMMA PortStep == ASSUME RoundInv, [Next]_vars PROVE [Port!Next]_Port!vars
<1> USE DEF Port!vars
<1>0. answer \in Port!Answers /\ Stands /\ NoAnswer = Port!NoAnswer
  BY AtWork DEF NoAnswer, Port!NoAnswer
<1>1. CASE UNCHANGED vars  BY <1>1 DEF vars
<1>2. CASE World
  BY <1>2 DEF World, CardsMount, CardsUnmount, PosterAppears, VideoMounts, GenerationRefused, GenerationFails,
     DialogAppears, PageTakenOver
<1>3. CASE OpenGoto
  <2>1. CASE pc' = "baseline"
    <3>1. PhaseOf(pc)' = PhaseOf(pc)  BY <1>3, <2>1 DEF OpenGoto, PhaseOf
    <3> QED  BY <1>3, <2>1, <3>1 DEF OpenGoto
  <2>2. CASE pc' = "over"
    <3>1. PhaseOf(pc) = "closed" /\ PhaseOf(pc)' = "over"  BY <1>3, <2>2 DEF OpenGoto, PhaseOf
    <3>2. answer' = Port!NoAnswer \/ answer' = [Port!NoAnswer EXCEPT !.state = "load_failed"]
      BY <1>0, <1>3, <2>2, FailureIsPorts DEF OpenGoto
    <3>3. kept' = kept  BY <1>3 DEF OpenGoto
    <3>4. Port!Open  BY <3>1, <3>2, <3>3 DEF Port!Open, Port!PageStates
    <3> QED  BY <3>4 DEF Port!Next
  <2> QED  BY <1>3, <2>1, <2>2 DEF OpenGoto
<1>4. CASE OpenBaseline \/ OpenPreset \/ SweepAfterClick \/ WaitBegins \/ TakeSnapshot
  <2>1. PhaseOf(pc)' = PhaseOf(pc)
    BY <1>4 DEF OpenBaseline, OpenPreset, SweepAfterClick, WaitBegins, TakeSnapshot, PhaseOf
  <2> QED  BY <1>4, <2>1 DEF OpenBaseline, OpenPreset, SweepAfterClick, WaitBegins, TakeSnapshot
<1>5. ASSUME NEW here, NEW next, <<here, next>> \in {<<"opening", "preset">>, <<"settled", "idle">>},
             OpenLook(here, next)
      PROVE  [Port!Next]_Port!vars
  <2>1. PICK state \in Port!PageStates :
          pc' = (IF state = "ready" THEN next ELSE "over") /\ answer' = Failure(state)
    BY <1>5, Classifying DEF OpenLook
  <2>2. pc = here /\ kept' = kept /\ PhaseOf(pc) = "closed"  BY <1>5 DEF OpenLook, PhaseOf
  <2>3. answer' = [Port!NoAnswer EXCEPT !.state = state]  BY <2>1, FailureIsPorts
  <2>4. CASE state = "ready" /\ next = "preset"
    <3>1. answer = NoAnswer  BY <1>0, <1>5, <2>2 DEF Stands
    <3>2. answer' = answer /\ PhaseOf(pc)' = "closed"
      BY <2>1, <2>4, <3>1 DEF Failure, NoAnswer, PhaseOf
    <3> QED  BY <2>2, <3>2
  <2>5. CASE state # "ready" \/ next = "idle"
    <3>1. PhaseOf(pc)' = IF state = "ready" THEN "open" ELSE "over"  BY <2>1, <2>5 DEF PhaseOf
    <3>2. Port!Open  BY <2>2, <2>3, <3>1 DEF Port!Open
    <3> QED  BY <3>2 DEF Port!Next
  <2> QED  BY <1>5, <2>4, <2>5
<1>6. CASE OpenClassify \/ OpenSettled  BY <1>5, <1>6 DEF OpenClassify, OpenSettled
<1>7. CASE UploadSourceAssets
  <2>1. /\ pc \in {"idle", "downloaded"} /\ pc' \in {"attached", "over"} /\ answer' = NoAnswer /\ kept' = kept
    BY <1>7 DEF UploadSourceAssets, Prepare
  <2>2. PhaseOf(pc) \in {"open", "answered"} /\ PhaseOf(pc)' \in {"attached", "over"}
    BY <2>1 DEF PhaseOf
  <2>3. Port!Upload  BY <1>0, <2>1, <2>2 DEF Port!Upload, Port!Prepare
  <2> QED  BY <2>3 DEF Port!Next
<1>8. CASE PastePrompt
  <2>1. /\ pc = "attached" /\ pc' \in {"prompted", "over"} /\ answer' = NoAnswer /\ kept' = kept
    BY <1>8 DEF PastePrompt, Prepare
  <2>2. PhaseOf(pc) = "attached" /\ PhaseOf(pc)' \in {"prompted", "over"}  BY <2>1 DEF PhaseOf
  <2>3. Port!Paste  BY <1>0, <2>1, <2>2 DEF Port!Paste, Port!Prepare
  <2> QED  BY <2>3 DEF Port!Next
<1>9. CASE TriggerRaises \/ ClickCreate
  <2>1. /\ pc \in {"prompted", "snapped"} /\ pc' \in {"clicked", "over"} /\ answer' = answer /\ kept' = kept
    BY <1>9 DEF TriggerRaises, ClickCreate
  <2>2. answer' = NoAnswer  BY <1>0, <2>1 DEF Stands
  <2>3. PhaseOf(pc) = "prompted" /\ PhaseOf(pc)' \in {"triggered", "over"}  BY <2>1 DEF PhaseOf
  <2>4. Port!Trigger  BY <1>0, <2>1, <2>2, <2>3 DEF Port!Trigger, Port!Prepare
  <2> QED  BY <2>4 DEF Port!Next
<1>10. CASE Probe
  <2>1. pc = "probe" /\ pc' \in {"probe", "classify"} /\ answer' = answer /\ kept' = kept
    BY <1>10, Probing DEF Probe
  <2>2. PhaseOf(pc)' = PhaseOf(pc)  BY <2>1 DEF PhaseOf
  <2> QED  BY <2>1, <2>2
(* The end of a wait, and a wait that goes on *)
<1>11. ASSUME pc \in Polling, kept' = kept, answer' \in Port!Answers,
              answer'.state # "ready" /\ answer'.candidates = {} /\ pc' = "over",
              answer'.timed_out => answer'.state = "load_failed"
       PROVE  [Port!Next]_Port!vars
  <2>1. PhaseOf(pc) = "triggered" /\ PhaseOf(pc)' = "over"  BY <1>11 DEF PhaseOf, Polling
  <2>2. Port!Wait  BY <1>11, <2>1 DEF Port!Wait, Port!Lawful
  <2> QED  BY <2>2 DEF Port!Next
<1>12. ASSUME NEW new, pc \in Polling, kept' = kept, Offers(new) PROVE [Port!Next]_Port!vars
  <2>1. PhaseOf(pc) = "triggered" /\ PhaseOf(pc)' = "answered"
    BY <1>12 DEF PhaseOf, Polling, Offers
  <2>2. Port!Wait  BY <1>12, <2>1 DEF Port!Wait, Port!Lawful, Offers
  <2> QED  BY <2>2 DEF Port!Next
<1>13. ASSUME pc \in Polling, pc' \in Polling, kept' = kept, answer' = answer PROVE [Port!Next]_Port!vars
  <2>1. PhaseOf(pc)' = PhaseOf(pc)  BY <1>13 DEF PhaseOf, Polling
  <2> QED  BY <1>13, <2>1
<1>14. ASSUME NEW state \in Port!PageStates \ {"ready"}, Answer(Failure(state)), pc \in Polling, kept' = kept
       PROVE  [Port!Next]_Port!vars
  <2>1. answer' = Failure(state) /\ pc' = "over"  BY <1>14 DEF Answer, Failure
  <2>2. answer' \in Port!Answers  BY <2>1, FailureIsTyped
  <2> QED  BY <1>11, <1>14, <2>1, <2>2 DEF Failure
<1>15. CASE TimedOut
  <2>1. /\ answer' = [state |-> "load_failed", candidates |-> {}, timed_out |-> TRUE]
        /\ pc = "probe" /\ pc' = "over" /\ kept' = kept
    BY <1>15 DEF TimedOut, Answer
  <2>2. answer' \in Port!Answers  BY <2>1 DEF Port!Answers, Port!PageStates
  <2> QED  BY <1>11, <2>1, <2>2 DEF Polling
<1>16. CASE ClassifyInRound
  <2>1. PICK state \in Port!PageStates :
          IF state \in EndsRound THEN Answer(Failure(state)) ELSE pc' = "collect" /\ UNCHANGED answer
    BY <1>16, Classifying DEF ClassifyInRound
  <2>2. pc \in Polling /\ kept' = kept  BY <1>16 DEF ClassifyInRound, Polling
  <2>3. CASE state \in EndsRound
    <3>1. state # "ready"  BY <2>3 DEF EndsRound
    <3> QED  BY <1>14, <2>1, <2>2, <2>3, <3>1
  <2>4. CASE pc' = "collect" /\ UNCHANGED answer  BY <1>13, <2>2, <2>4 DEF Polling
  <2> QED  BY <2>1, <2>3, <2>4
<1>17. ASSUME NEW new \in SUBSET Sources, Decide(new), pc \in {"collect", "silent"}, kept' = kept
       PROVE  [Port!Next]_Port!vars
  <2>1. Offers(new) \/ GoesOn(new)  BY <1>0, <1>17, Deciding, AtWork DEF Stands
  <2>2. CASE Offers(new)  BY <1>12, <1>17, <2>2 DEF Polling
  <2>3. CASE GoesOn(new)  BY <1>13, <1>17, <2>3 DEF Polling, GoesOn
  <2> QED  BY <2>1, <2>2, <2>3
<1>18. CASE Collect
  <2>1. PICK found \in Findings :
          /\ CollectCandidates(found)
          /\ IF NewOnly(found) = {} /\ wait.now > NoProgress
             THEN pc' = "silent" /\ UNCHANGED <<wait, answer>>
             ELSE Decide(NewOnly(found))
    BY <1>18 DEF Collect
  <2>2. pc = "collect" /\ kept' = kept  BY <1>18 DEF Collect
  <2>3. CASE pc' = "silent" /\ UNCHANGED answer  BY <1>13, <2>2, <2>3 DEF Polling
  <2>4. CASE Decide(NewOnly(found))
    <3>1. NewOnly(found) \in SUBSET Sources  BY <2>1, Finding DEF NewOnly
    <3> QED  BY <1>17, <2>2, <2>4, <3>1
  <2> QED  BY <2>1, <2>3, <2>4
<1>19. CASE SilentBan
  <2>1. pc = "silent" /\ kept' = kept  BY <1>19 DEF SilentBan
  <2>2. Answer(Failure("unusual_activity")) \/ Decide({})  BY <1>19 DEF SilentBan
  <2>3. CASE Answer(Failure("unusual_activity"))  BY <1>14, <2>1, <2>3 DEF Polling, Port!PageStates
  <2>4. CASE Decide({})  BY <1>17, <2>1, <2>4
  <2> QED  BY <2>2, <2>3, <2>4
<1>20. CASE DownloadCandidates
  <2>1. /\ pc = "answered" /\ pc' = "downloaded" /\ answer' = answer
        /\ \E got \in SUBSET answer.candidates : kept' = kept \cup got
    BY <1>20 DEF DownloadCandidates
  <2>2. PhaseOf(pc) = "answered" /\ PhaseOf(pc)' = "answered"  BY <2>1 DEF PhaseOf
  <2>3. Port!Download  BY <2>1, <2>2 DEF Port!Download
  <2> QED  BY <2>3 DEF Port!Next
<1>21. CASE Close
  <2>1. pc \in {"over", "idle", "downloaded"} /\ pc' = "shut" /\ answer' = answer /\ kept' = kept
    BY <1>21 DEF Close
  <2>2. PhaseOf(pc) \in {"open", "answered", "over"} /\ PhaseOf(pc)' = "shut"  BY <2>1 DEF PhaseOf
  <2>3. Port!Close  BY <2>1, <2>2 DEF Port!Close
  <2> QED  BY <2>3 DEF Port!Next
<1> QED  BY <1>1, <1>2, <1>3, <1>4, <1>6, <1>7, <1>8, <1>9, <1>10, <1>15, <1>16, <1>18, <1>19,
            <1>20, <1>21 DEF Next, Driver

(* What the worker loop is written against is what it gets: a round that   *)
(* is ready has candidates, any other none, and only what was offered is   *)
(* downloaded (flow_port.py:84-103).                                       *)
THEOREM FlowPortImplemented == Spec => ImplementsFlowPort
<1>1. Init => Port!Init
  BY DEF Init, Port!Init, PhaseOf, NoAnswer, Port!NoAnswer
<1>2. RoundInv /\ [Next]_vars => [Port!Next]_Port!vars  BY PortStep
<1> QED  BY <1>1, <1>2, RoundInvKept, PTL DEF Spec, ImplementsFlowPort, Port!Spec
=============================================================================
