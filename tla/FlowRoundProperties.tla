------------------------- MODULE FlowRoundProperties -------------------------
(* What a session of FlowRound promises, and that it is a FlowPort.        *)
EXTENDS FlowRound

Steps ==
    {"closed", "baseline", "opening", "preset", "settled", "idle", "attached",
     "prompted", "snapped", "clicked", "waiting", "probe", "classify", "collect",
     "silent", "answered", "downloaded", "over", "shut"}

PhaseOf(step) ==
    CASE step \in {"closed", "baseline", "opening", "preset", "settled"} -> "closed"
      [] step = "idle" -> "open"
      [] step \in {"prompted", "snapped"} -> "prompted"
      [] step \in {"clicked", "waiting", "probe", "classify", "collect", "silent"} ->
            "triggered"
      [] step = "downloaded" -> "answered"
      [] OTHER -> step

Port == INSTANCE FlowPort
            WITH Handle <- Sources, phase <- PhaseOf(pc), answer <- answer, kept <- kept

(* Whatever the page does between two looks, the worker sees a FlowPort:   *)
(* rounds that are ready have candidates, others have none, and nothing is *)
(* downloaded that was not offered (flow_port.py:84-103).                  *)
ImplementsFlowPort == Port!Spec

(* Every variable has its type.                                            *)
TypeOK ==
    /\ preset \in Presets
    /\ page \in [over : TakeOvers \cup {"app", "gone"},
                 card : [Media -> {"none", "poster", "video"}],
                 hidden : SUBSET Media,
                 notices : 0 .. MaxNotices, waiting : 0 .. MaxNotices,
                 retryable : BOOLEAN, work : {"idle", "held", "running"},
                 dialog : {"none", "due", "up"}]
    /\ port \in [baseline : 0 .. MaxNotices, snapshot : SUBSET Sources]
    /\ wait \in [round : 0 .. MaxRounds, now : 0 .. Timeout, retries : 0 .. RetryBudget,
                 lastRetry : (-1 - RetryGap) .. Timeout, sweeps : 0 .. Sweeps,
                 lastNew : SUBSET Sources, lastChange : 0 .. Timeout]
    /\ pc \in Steps
    /\ answer \in Port!Answers
    /\ kept \subseteq Sources

(* In video mode no poster is ever offered or downloaded, although posters *)
(* come first under the same name, some never become videos, and the       *)
(* preset that was to put the page in video mode may not have been applied *)
(* (flow_playwright.py:1776-1826).                                         *)
OffersOnlyVideos == InVideoMode => Videos(answer.candidates \cup kept) = answer.candidates \cup kept

(* Over all rounds of a session no file that a snapshot saw is downloaded  *)
(* a second time: not when its card leaves the document and comes back,    *)
(* not when its poster becomes a video.  What the snapshot of the round    *)
(* missed may come again, and so may a poster whose video could not be     *)
(* read (flow_playwright.py:1481-1486, 1697-1732 and 1845-1896).           *)
Exposed ==
    {s \in Sources : "glitch" \in troubles /\ s[2] = "poster" /\ page.card[s[1]] = "video"}
NothingTwice ==
    [][answer' # answer => answer'.candidates \cap kept \subseteq seen.missed \cup Exposed']_vars

(* A round that offers fewer results than the preset asks for has seen the *)
(* same set for the whole stability window (1771-1801 and the customer bug *)
(* told in 1587-1592).                                                     *)
ShortRoundWaited ==
    pc = "answered" /\ Cardinality(answer.candidates) < preset.expected =>
        /\ answer.candidates \subseteq wait.lastNew
        /\ wait.now - wait.lastChange >= Window

(* A verdict of unusual activity has a cause: a refusal in this round,     *)
(* notices that mounted, for the first time or again, since the baseline   *)
(* was taken or could not be read then, or two minutes without a result.   *)
(* Notices that the baseline counted and that stay in sight never raise it *)
(* (flow_playwright.py:450-461 and 1704-1722).                             *)
BanHasCause ==
    answer.state = "unusual_activity" /\ pc = "over" =>
        \/ seen.refused = wait.round /\ wait.round > 0
        \/ seen.late
        \/ seen.blind
        \/ wait.now > NoProgress

(* A refusal is not mistaken for a slow page: a round that times out after *)
(* Flow refused it either showed something new, or was taken over, or the  *)
(* notice was out of sight, or the refusal came after the last poll, or a  *)
(* poll went to a retry or could not read the page                         *)
(* (flow_playwright.py:1704-1716).                                         *)
RefusalIsReported ==
    answer.timed_out /\ pc = "over" /\ seen.refused = wait.round =>
        \/ wait.lastNew # {}
        \/ page.over # "app"
        \/ seen.refusedAt >= Timeout
        \/ page.retryable
        \/ {"blind", "glitch", "scrolled"} \cap troubles # {}

(* open() says of its baseline: "only NEW occurrences during this session  *)
(* will trigger UNUSUAL_ACTIVITY" (flow_playwright.py:244-248).            *)
OnlyNewOccurrences == answer.state = "unusual_activity" => seen.refused > 0

(* trigger_generation() says of its snapshot that it lets the wait "diff   *)
(* out the new candidates produced by *this* round"                        *)
(* (flow_playwright.py:1454-1456): nothing that was there before the click *)
(* is offered as the round's.                                              *)
OffersThisRoundsOnly == pc = "answered" => answer.candidates \cap seen.missed = {}
=============================================================================
