------------------------------ MODULE FlowRound ------------------------------
(***************************************************************************)
(* PlaywrightFlowPort (src/app/worker/flow_playwright.py): one session on  *)
(* a real Flow page, from open() to close().                               *)
(*                                                                         *)
(* Flow has no marker for "generation complete".  The driver looks at the  *)
(* page from time to time and compares: the gallery with the snapshot it   *)
(* took before it clicked Create, the number of "unusual activity" notices *)
(* with a baseline.  Every look is an action of its own here, and the page *)
(* changes between any two of them: a poster becomes a video, a generation *)
(* is refused, another page takes over.  The gallery is virtualized, so    *)
(* that what it holds is not what the driver can see: cards are mounted    *)
(* late, taken out of the document and mounted again.  A look may also     *)
(* fail: a body that cannot be read is an empty text, an element that      *)
(* cannot be read is skipped.                                              *)
(*                                                                         *)
(* Attaching the assets and applying the preset are modelled in            *)
(* FlowAttach; here they succeed or raise.                                 *)
(***************************************************************************)
EXTENDS Integers, FiniteSets

CONSTANTS
    Media,          \* generations the gallery can show, by the name in their URL
    Earlier,        \* those that earlier sessions may have left there
    Presets,        \* flow_mode specs of the session: [video, expected]
    MaxRounds,      \* rounds of one session
    Window,         \* candidate_stability_window_sec, in poll intervals
    NoProgress,     \* no_progress_ban_threshold_sec, in poll intervals
    Timeout,        \* generation_wait_timeout_sec, in poll intervals
    RetryGap,       \* the 5 s between two retries, in poll intervals
    RetryBudget,    \* retry_budget
    Sweeps,         \* popup_sweeps_remaining
    MaxNotices,     \* bound: "unusual activity" notices on the page
    TakeOvers,      \* pages that may take over, e.g. a captcha
    Hardships       \* bound: the sets of troubles a session of each preset can have, each once

(* The code's own periods are 5 s, 30 s and 120 s.  The timeout is 600 s   *)
(* unless the operator sets another, which may be shorter than they are.   *)
ASSUME Periods ==
    {RetryGap, Window, NoProgress, Timeout} \subseteq Nat /\ Timeout > 0

ASSUME Bounds ==
    /\ IsFiniteSet(Media) /\ Earlier \subseteq Media
    /\ Presets \subseteq [video : BOOLEAN, expected : Nat]
    /\ {RetryBudget, Sweeps, MaxNotices} \subseteq Nat /\ MaxRounds \in Nat \ {0}

VARIABLES
    preset,     \* the flow_mode_spec the session was built with
    page,       \* Flow's page
    port,       \* fields of the PlaywrightFlowPort object
    wait,       \* locals of wait_for_round_complete
    pc,         \* the next thing the driver does
    answer,     \* the last GenerationRoundResult
    kept,       \* candidates downloaded
    troubles,   \* kinds of trouble the session has had
    seen        \* history, read by properties only

vars == <<preset, page, port, wait, pc, answer, kept, troubles, seen>>

-----------------------------------------------------------------------------
(* The page.                                                               *)

Kinds == {"poster", "video"}
Sources == Media \X Kinds       \* a poster's URL and its video's URL differ

(* "gone" is the browser itself.                                           *)
ASSUME KnownTakeOvers ==
    TakeOvers \subseteq {"no_access", "service", "captcha", "login", "broken", "gone"}

Afford(kind) == kind \notin troubles /\ \E h \in Hardships[preset] : troubles \cup {kind} \subseteq h
Spend(kind) == troubles' = troubles \cup {kind}

(* The results there are, and those whose cards are mounted.               *)
Results == {<<m, page.card[m]>> : m \in {n \in Media : page.card[n] \in Kinds}}
Shown(m) == page.card[m] \in Kinds /\ m \notin page.hidden

(* What the page's list of results shows: nothing when another page took   *)
(* over or the browser is gone.                                            *)
Gallery ==
    IF page.over = "app" THEN {<<m, page.card[m]>> : m \in {n \in Media : Shown(n)}} ELSE {}

(* What inner_text of the body tells the driver.                           *)
Body ==
    [over |-> page.over,
     notices |-> IF page.over = "app" THEN page.notices ELSE 0,
     retryable |-> page.over = "app" /\ page.retryable]

(* _body_text: a body that cannot be read is the empty text.               *)
EmptyBody == [over |-> "app", notices |-> 0, retryable |-> FALSE]

PageBody == IF page.over = "gone" THEN EmptyBody ELSE Body

Texts == {PageBody} \cup IF Afford("blind") THEN {EmptyBody} ELSE {}

BodyText(body) ==
    IF body = PageBody THEN UNCHANGED troubles ELSE Spend("blind")

(* _collect_candidates_full: elements that cannot be read are skipped, and *)
(* a video wins over the poster of the same name, unless the video cannot  *)
(* be read.                                                                *)
Posters == {<<c[1], "poster">> : c \in Gallery}
OnePerName(set) == \A c, d \in set : c[1] = d[1] => c = d
Findings ==
    IF Afford("glitch") THEN {f \in SUBSET (Gallery \cup Posters) : OnePerName(f)}
    ELSE {Gallery}

CollectCandidates(found) ==
    IF found = Gallery THEN UNCHANGED troubles ELSE Spend("glitch")

(* A bug the baseline was introduced against: any notice is a new one.     *)
ClassifyAnyNotice(body, baseline) ==
    CASE body.over = "no_access" -> "no_flow_access"
      [] body.over = "service" -> "service_unavailable"
      [] body.notices > 0 -> "unusual_activity"
      [] body.over = "captcha" -> "captcha"
      [] body.over = "login" -> "login_required"
      [] body.over = "broken" -> "load_failed"
      [] OTHER -> "ready"

(* _classify_state, most specific first; a notice counts only above the    *)
(* baseline.                                                               *)
Classify(body, baseline) ==
    CASE body.over = "no_access" -> "no_flow_access"
      [] body.over = "service" -> "service_unavailable"
      [] body.notices > baseline -> "unusual_activity"
      [] body.over = "captcha" -> "captcha"
      [] body.over = "login" -> "login_required"
      [] body.over = "broken" -> "load_failed"
      [] OTHER -> "ready"

(* The "I agree" dialog Flow shows once, after the first Create click of a *)
(* session; the generation starts when somebody agrees.                    *)
Dismissed(p) ==
    IF p.dialog = "up" THEN [p EXCEPT !.dialog = "none", !.work = "running"] ELSE p

-----------------------------------------------------------------------------
(* What happens on the page by itself.                                     *)

(* Between the downloads and the next prompt, and while the preset is      *)
(* applied, nothing looks at the page, so what would happen then happens   *)
(* before the next look.                                                   *)
Alive == pc \notin {"closed", "preset", "idle", "attached", "downloaded", "over", "shut"}

(* Cards are mounted: when the list has loaded, or when it is scrolled.    *)
(* They are results and failed generations with their notices.             *)
CardsMount ==
    /\ Alive /\ page.over = "app"
    /\ \E cards \in SUBSET page.hidden, n \in 0 .. page.waiting :
          /\ cards # {} \/ n > 0
          /\ page' = [page EXCEPT !.hidden = @ \ cards, !.notices = @ + n, !.waiting = @ - n]
          /\ seen' = [seen EXCEPT !.late = @ \/ n > 0]
    /\ UNCHANGED <<preset, port, wait, pc, answer, kept, troubles>>

(* The list is scrolled, or new cards push others out of sight: they leave *)
(* the document.                                                           *)
CardsUnmount ==
    /\ Alive /\ page.over = "app" /\ Afford("scrolled")
    /\ \E cards \in SUBSET {m \in Media : Shown(m)}, n \in 0 .. page.notices :
          /\ cards # {} \/ n > 0
          /\ page' = [page EXCEPT !.hidden = @ \cup cards, !.notices = @ - n, !.waiting = @ + n]
    /\ Spend("scrolled")
    /\ UNCHANGED <<preset, port, wait, pc, answer, kept, seen>>

(* The generation of this round puts a poster in the list, a video later.  *)
PosterAppears ==
    /\ Alive /\ page.over = "app" /\ page.work = "running"
    /\ \E m \in Media :
          /\ m \notin Earlier /\ page.card[m] = "none"
          /\ page' = [page EXCEPT !.card[m] = "poster"]
    /\ UNCHANGED <<preset, port, wait, pc, answer, kept, troubles, seen>>

VideoMounts ==
    /\ Alive
    /\ \E m \in Media :
          /\ page.card[m] = "poster"
          /\ page' = [page EXCEPT !.card[m] = "video"]
    /\ UNCHANGED <<preset, port, wait, pc, answer, kept, troubles, seen>>

(* Flow refuses the generation: a new failed card with the notice, or the  *)
(* slot of an older one is used again and the count stays.                 *)
GenerationRefused ==
    /\ Alive /\ page.over = "app" /\ page.work = "running" /\ Afford("refused")
    /\ \E n \in {page.notices, page.notices + 1} :
          /\ n \in 1 .. (MaxNotices - page.waiting)
          /\ page' = [page EXCEPT !.notices = n, !.work = "idle"]
    /\ seen' = [seen EXCEPT !.refused = wait.round,
                            !.refusedAt = IF pc \in {"probe", "classify", "collect", "silent"}
                                          THEN wait.now ELSE 0]
    /\ Spend("refused")
    /\ UNCHANGED <<preset, port, wait, pc, answer, kept>>

(* "Audio generation failed" and the like.                                 *)
GenerationFails ==
    /\ Alive /\ page.over = "app" /\ page.work = "running" /\ Afford("transient")
    /\ page' = [page EXCEPT !.retryable = TRUE, !.work = "idle"]
    /\ Spend("transient")
    /\ UNCHANGED <<preset, port, wait, pc, answer, kept, seen>>

DialogAppears ==
    /\ Alive /\ page.over = "app" /\ page.dialog = "due"
    /\ page' = [page EXCEPT !.dialog = "up"]
    /\ UNCHANGED <<preset, port, wait, pc, answer, kept, troubles, seen>>

PageTakenOver ==
    /\ Alive /\ page.over = "app" /\ Afford("takeover")
    /\ \E o \in TakeOvers : page' = [page EXCEPT !.over = o]
    /\ Spend("takeover")
    /\ UNCHANGED <<preset, port, wait, pc, answer, kept, seen>>

World ==
    \/ CardsMount \/ CardsUnmount \/ PosterAppears \/ VideoMounts \/ GenerationRefused
    \/ GenerationFails \/ DialogAppears \/ PageTakenOver

-----------------------------------------------------------------------------
(* open().                                                                 *)

NoAnswer == [state |-> "ready", candidates |-> {}, timed_out |-> FALSE]
Failure(state) == [state |-> state, candidates |-> {}, timed_out |-> FALSE]

NoWait ==
    [round |-> 0, now |-> 0, retries |-> 0, lastRetry |-> 0, sweeps |-> 0,
     lastNew |-> {}, lastChange |-> 0]

EarlierCards ==
    {c \in [Media -> {"none", "poster", "video"}] : \A m \in Media \ Earlier : c[m] = "none"}

Init ==
    /\ preset \in Presets
    /\ \E old \in EarlierCards, hidden \in SUBSET Earlier, n, waiting \in 0 .. MaxNotices - 1 :
          /\ n + waiting < MaxNotices
          /\ \A m \in hidden : old[m] # "none"
          /\ page = [over |-> "app", card |-> old, hidden |-> hidden,
                  notices |-> n, waiting |-> waiting,
                  retryable |-> FALSE, work |-> "idle", dialog |-> "none"]
    /\ port = [baseline |-> 0, snapshot |-> {}]
    /\ wait = NoWait
    /\ pc = "closed"
    /\ answer = NoAnswer
    /\ kept = {}
    /\ troubles = {}
    /\ seen = [refused |-> 0, refusedAt |-> 0,
               late |-> FALSE, blind |-> FALSE, missed |-> {}]

(* The browser starts and the page answers; FlowPortError, or a goto that  *)
(* fails and reads as PAGE_LOAD_FAILED, ends the session.                  *)
OpenGoto ==
    /\ pc = "closed"
    /\ \/ pc' = "baseline" /\ answer' = answer
       \/ pc' = "over" /\ answer' \in {NoAnswer, Failure("load_failed")}
    /\ UNCHANGED <<preset, page, port, wait, kept, troubles, seen>>

(* _refresh_unusual_phrase_baseline, in open() and again when a wait       *)
(* begins.                                                                 *)
RefreshBaseline(body) ==
    /\ BodyText(body)
    /\ port' = [port EXCEPT !.baseline = body.notices]
    /\ seen' = [seen EXCEPT !.blind = body.notices # Body.notices, !.late = FALSE]

OpenBaseline ==
    /\ pc = "baseline"
    /\ \E body \in Texts : RefreshBaseline(body)
    /\ pc' = "opening"
    /\ UNCHANGED <<preset, page, wait, answer, kept>>

(* One of the two looks of open(): anything but READY is handed back and   *)
(* ends the session.                                                       *)
OpenLook(here, next) ==
    /\ pc = here
    /\ \E body \in Texts :
          LET state == Classify(body, port.baseline) IN
          /\ BodyText(body)
          /\ pc' = IF state = "ready" THEN next ELSE "over"
          /\ answer' = Failure(state)
    /\ UNCHANGED <<preset, page, port, wait, kept, seen>>

OpenClassify == OpenLook("opening", "preset")

(* Popups are swept, the preset is applied (see FlowAttach); whatever goes *)
(* wrong in it is logged.                                                  *)
OpenPreset ==
    /\ pc = "preset"
    /\ page' = Dismissed(page)
    /\ pc' = "settled"
    /\ UNCHANGED <<preset, port, wait, answer, kept, troubles, seen>>

OpenSettled == OpenLook("settled", "idle")

-----------------------------------------------------------------------------
(* One round: upload, paste, trigger.                                      *)

(* upload_source_assets and paste_prompt: both sweep popups first, and     *)
(* either succeeds or raises FlowPortError.                                *)
Prepare(here, next) ==
    /\ pc = here
    /\ page' = Dismissed(page)
    /\ pc' \in IF page.over = "gone" THEN {"over"} ELSE {next, "over"}
    /\ answer' = NoAnswer
    /\ wait' = [NoWait EXCEPT !.round = wait.round]
    /\ UNCHANGED <<preset, port, kept, troubles, seen>>

UploadSourceAssets ==
    \/ Prepare("idle", "attached")
    \/ wait.round < MaxRounds /\ Prepare("downloaded", "attached")
PastePrompt == Prepare("attached", "prompted")

(* trigger_generation: the results seen before the click, which need not   *)
(* be all there are.                                                       *)
TakeSnapshot ==
    /\ pc = "prompted"
    /\ page.over # "gone"
    /\ page' = Dismissed(page)
    /\ \E found \in Findings :
          /\ CollectCandidates(found)
          /\ port' = [port EXCEPT !.snapshot = found]
          /\ seen' = [seen EXCEPT !.missed = Results \ found]
    /\ pc' = "snapped"
    /\ UNCHANGED <<preset, wait, answer, kept>>

(* The review pause raises when the browser is gone.                       *)
TriggerRaises ==
    /\ pc = "prompted"
    /\ page.over = "gone"
    /\ pc' = "over"
    /\ UNCHANGED <<preset, page, port, wait, answer, kept, troubles, seen>>

(* Create is clicked and the dialog swept; without the button the round    *)
(* raises.  The first click of a session may bring up the dialog.          *)
ClickCreate ==
    /\ pc = "snapped"
    /\ \/ /\ page.over = "app"
          /\ \/ /\ page' = [page EXCEPT !.work = IF page.dialog = "none"
                                               THEN "running" ELSE "held"]
                /\ UNCHANGED troubles
             \/ /\ Afford("dialog") /\ Spend("dialog")
                /\ page' = [page EXCEPT !.dialog = "due", !.work = "held"]
          /\ wait' = [NoWait EXCEPT !.round = wait.round + 1]
          /\ pc' = "clicked"
       \/ /\ pc' = "over"
          /\ UNCHANGED <<page, wait, troubles>>
    /\ UNCHANGED <<preset, port, answer, kept, seen>>

SweepAfterClick ==
    /\ pc = "clicked"
    /\ page' = Dismissed(page)
    /\ pc' = "waiting"
    /\ UNCHANGED <<preset, port, wait, answer, kept, troubles, seen>>

-----------------------------------------------------------------------------
(* wait_for_round_complete.                                                *)

WaitBegins ==
    /\ pc = "waiting"
    /\ \E body \in Texts : RefreshBaseline(body)
    /\ wait' = [wait EXCEPT !.retries = RetryBudget, !.lastRetry = -1 - RetryGap,
                            !.sweeps = Sweeps]
    /\ pc' = "probe"
    /\ UNCHANGED <<preset, page, answer, kept>>

Answer(a) ==
    /\ answer' = a
    /\ pc' = IF a.state = "ready" THEN "answered" ELSE "over"

(* The deadline, looked at before every poll.                              *)
TimedOut ==
    /\ pc = "probe"
    /\ wait.now >= Timeout
    /\ Answer([state |-> "load_failed", candidates |-> {}, timed_out |-> TRUE])
    /\ UNCHANGED <<preset, page, port, wait, kept, troubles, seen>>

SleepAndPoll(w) ==
    /\ wait' = [w EXCEPT !.now = @ + 1]
    /\ pc' = "probe"

(* A bug: the number of sweeps runs below zero.                            *)
SweepsLeftUnbounded(n) == n - 1

SweepsLeft(n) == IF n > 0 THEN n - 1 ELSE 0

(* Popups during the first polls, then the transient failures: Create is   *)
(* to be clicked again, but page.locator() is handed the whole list of     *)
(* selectors, the click raises, and what is left is a poll without a look. *)
Probe ==
    /\ pc = "probe"
    /\ wait.now < Timeout
    /\ page' = IF wait.sweeps > 0 THEN Dismissed(page) ELSE page
    /\ LET w == [wait EXCEPT !.sweeps = SweepsLeft(@)]
           due == wait.now - wait.lastRetry > RetryGap IN
       IF wait.retries > 0
       THEN \E body \in Texts :
               /\ BodyText(body)
               /\ IF body.retryable /\ due
                  THEN SleepAndPoll([w EXCEPT !.retries = @ - 1, !.lastRetry = wait.now])
                  ELSE wait' = w /\ pc' = "classify"
       ELSE wait' = w /\ pc' = "classify" /\ UNCHANGED troubles
    /\ UNCHANGED <<preset, port, answer, kept, seen>>

(* The states that end the round at once.  NO_FLOW_ACCESS is not among     *)
(* them.                                                                   *)
EndsRound ==
    {"unusual_activity", "login_required", "captcha", "service_unavailable", "load_failed"}

ClassifyInRound ==
    /\ pc = "classify"
    /\ \E body \in Texts :
          LET state == Classify(body, port.baseline) IN
          /\ BodyText(body)
          /\ IF state \in EndsRound
             THEN Answer(Failure(state))
             ELSE pc' = "collect" /\ UNCHANGED answer
    /\ UNCHANGED <<preset, page, port, wait, kept, seen>>

(* A bug: everything on the page is this round's.                          *)
NewOnlyNoDiff(found) == found

(* What is on the page and was not seen before the click.                  *)
NewOnly(found) == found \ port.snapshot

Videos(set) == {c \in set : c[2] = "video"}
InVideoMode == preset.video

(* The customer's bug of 2026-05-08: the first video ends the round.       *)
EarlyExitFirstVideo(new) == new # {} /\ new = Videos(new)

(* A bug: a round without results is a success.                            *)
EarlyExitOfNothing(new) == new = Videos(new) /\ Cardinality(new) >= preset.expected

(* Everything new is a video, and there are as many as were asked for.     *)
EarlyExit(new) ==
    /\ new # {} /\ new = Videos(new)
    /\ Cardinality(new) >= preset.expected

(* The set has not changed for the window; posters alone are waited for in *)
(* video mode.                                                             *)
StabilityExit(new) ==
    /\ new # {} /\ new = wait.lastNew
    /\ ~(InVideoMode /\ Videos(new) = {})
    /\ wait.now - wait.lastChange >= Window

(* A bug: the stale poster lands in the .mp4 slot.                         *)
AcceptedAll(new) == new

(* Posters that never became videos are dropped from a mixed set.          *)
Accepted(new) ==
    IF InVideoMode /\ Videos(new) # {} THEN Videos(new) ELSE new

Decide(new) ==
    IF EarlyExit(new) \/ StabilityExit(new)
    THEN /\ Answer([state |-> "ready", timed_out |-> FALSE,
                    candidates |-> IF EarlyExit(new) THEN new ELSE Accepted(new)])
         /\ UNCHANGED wait
    ELSE /\ SleepAndPoll([wait EXCEPT !.lastNew = new,
                                      !.lastChange = IF new # wait.lastNew
                                                     THEN wait.now ELSE @])
         /\ UNCHANGED answer

Collect ==
    /\ pc = "collect"
    /\ \E found \in Findings :
          LET new == NewOnly(found) IN
          /\ CollectCandidates(found)
          /\ IF new = {} /\ wait.now > NoProgress
             THEN pc' = "silent" /\ UNCHANGED <<wait, answer>>
             ELSE Decide(new)
    /\ UNCHANGED <<preset, page, port, kept, seen>>

(* The bug the fallback repairs: the count of a recycled slot stays.       *)
StillBannedByCount(body) == body.notices > port.baseline

StillBanned(body) == body.notices > 0

(* Nothing new for two minutes and the notice is on the page, whatever the *)
(* baseline says: a refusal in a recycled slot.                            *)
SilentBan ==
    /\ pc = "silent"
    /\ \E body \in Texts :
          /\ BodyText(body)
          /\ IF StillBanned(body)
             THEN Answer(Failure("unusual_activity")) /\ UNCHANGED wait
             ELSE Decide({})
    /\ UNCHANGED <<preset, page, port, kept, seen>>

-----------------------------------------------------------------------------
(* Downloads and the end of the session.                                   *)

(* download_candidate for each candidate: the URL is fetched and written,  *)
(* or the download raises.                                                 *)
DownloadCandidates ==
    /\ pc = "answered"
    /\ \E got \in IF page.over = "gone" THEN {{}} ELSE SUBSET answer.candidates :
          kept' = kept \cup got
    /\ pc' = "downloaded"
    /\ wait' = [NoWait EXCEPT !.round = wait.round]
    /\ UNCHANGED <<preset, page, port, answer, troubles, seen>>

Close ==
    /\ pc \in {"over", "idle", "downloaded"}
    /\ pc' = "shut"
    /\ page' = [page EXCEPT !.over = "gone"]
    /\ wait' = NoWait
    /\ UNCHANGED <<preset, port, answer, kept, troubles, seen>>

Driver ==
    \/ OpenGoto \/ OpenBaseline \/ OpenClassify \/ OpenPreset \/ OpenSettled
    \/ UploadSourceAssets \/ PastePrompt \/ TakeSnapshot \/ TriggerRaises
    \/ ClickCreate \/ SweepAfterClick
    \/ WaitBegins \/ TimedOut \/ Probe \/ ClassifyInRound \/ Collect \/ SilentBan
    \/ DownloadCandidates \/ Close

Next == World \/ Driver

Spec == Init /\ [][Next]_vars
=============================================================================
