----------------------------- MODULE FlowAttach -----------------------------
(***************************************************************************)
(* PlaywrightFlowPort, the part that prepares a generation: the flow_mode  *)
(* preset, the source assets and the prompt                                *)
(* (src/app/worker/flow_playwright.py, 542-1575).                          *)
(*                                                                         *)
(* A project page keeps its asset library and its settings between         *)
(* sessions.  A thumbnail of the library is known by the name of its file  *)
(* only, <order>_<name of the upload>; what picture it shows is kept here  *)
(* beside the name.  Every click may miss, every wait may run out: the     *)
(* code then goes on, raises, or has it swallowed by its caller.  A click  *)
(* that was given up on may still take, at any time while the page is      *)
(* open, and a prompt whose generation failed keeps its chips.             *)
(***************************************************************************)
EXTENDS Naturals, Sequences, FiniteSets, Functions

CONSTANTS
    Tasks,          \* tasks worked on, one session each
    AssetsOf,       \* [Tasks -> sequence of [kind, name, shows]]
    Asked,          \* the settings the preset names, in the order they are applied
    Tabs,           \* settings that exist only once the first one is applied
    Strategies,     \* ways to click a thumbnail, 6 in the code
    MaxRounds,      \* bound: rounds of a session
    MaxMisses       \* bound: clicks and waits of a session that miss

FrameKinds == {"first_frame", "last_frame"}
Slots == {"Start", "End", "+"}

ASSUME Inputs ==
    /\ Tasks # {}
    /\ Asked # <<>>
    /\ Strategies \in Nat \ {0}
    /\ MaxRounds \in Nat
    /\ MaxMisses \in Nat
    /\ \A t \in Tasks :
          /\ AssetsOf[t] \in Seq(Range(AssetsOf[t]))
          /\ \A i \in 1 .. Len(AssetsOf[t]) :
                DOMAIN AssetsOf[t][i] = {"kind", "name", "shows"}

VARIABLES
    library,    \* the project's asset library: thumbnails [name, shows]
    applied,    \* settings of the page that are as the preset asks
    panel,      \* the settings panel covers the prompt
    picker,     \* the slot whose picker dialog is open, or "none"
    chips,      \* [Slots -> sequence of thumbnails attached to the prompt]
    pending,    \* clicks that have not taken: [slot, picture, nth miss]
    typed,      \* the prompt in the editor: a task's, or "none"
    pc,         \* the next thing the driver does
    job,        \* the session: [task, round, at, way]: at assets attached so far
    waiting,    \* tasks that have had no session yet
    misses,     \* misses of this session
    seen        \* history, read by properties only

vars ==
    <<library, applied, panel, picker, chips, pending, typed, pc, job, waiting, misses, seen>>
site == <<library, applied, panel, picker, chips, pending, typed>>

-----------------------------------------------------------------------------
Miss == misses < MaxMisses /\ misses' = misses + 1
Hit == UNCHANGED misses

NoChips == [s \in Slots |-> <<>>]

(* Nothing was closed with Escape in this round, and in the prompt as it   *)
(* is no chip came late and none is left of a generation that failed.      *)
NothingSeen == [escaped |-> {}, belated |-> {}, kept |-> FALSE]

Assets == AssetsOf[job.task]
OfKind(assets, kind) == {i \in 1 .. Len(assets) : assets[i].kind = kind}

(* upload_source_assets: one frame asset sends all of them to the named    *)
(* slots.                                                                  *)
InFrames(assets) == \E i \in 1 .. Len(assets) : assets[i].kind \in FrameKinds

(* _upload_via_frame_buttons refuses a second frame of a kind and every    *)
(* other kind.                                                             *)
Refused(assets) ==
    \/ assets = <<>>
    \/ /\ InFrames(assets)
       /\ \/ \E k \in FrameKinds : \E i, j \in OfKind(assets, k) : i # j
          \/ \E i \in 1 .. Len(assets) : assets[i].kind \notin FrameKinds

Into(slot, assets) == [i \in 1 .. Len(assets) |-> [slot |-> slot, asset |-> assets[i]]]

(* The one frame of a kind, when there is one, into its slot.              *)
OneInto(slot, assets, kind) ==
    IF OfKind(assets, kind) = {} THEN <<>>
    ELSE <<[slot |-> slot, asset |-> assets[CHOOSE i \in OfKind(assets, kind) : TRUE]]>>

(* A bug: frames go to the slots in the order they are listed.             *)
PlanAsListed(assets) ==
    IF InFrames(assets)
    THEN [i \in 1 .. Len(assets) |->
            [slot |-> IF i = 1 THEN "Start" ELSE "End", asset |-> assets[i]]]
    ELSE Into("+", assets)

(* Which asset goes where, in the order of the uploads: the first frame to *)
(* Start, then the last frame to End, whatever order they are listed in.   *)
Plan(assets) ==
    IF InFrames(assets)
    THEN OneInto("Start", assets, "first_frame") \o OneInto("End", assets, "last_frame")
    ELSE Into("+", assets)

Current == Plan(Assets)[job.at + 1]

-----------------------------------------------------------------------------
Init ==
    /\ library = {}
    /\ applied \in SUBSET Range(Asked)
    /\ panel = FALSE
    /\ picker = "none"
    /\ chips = NoChips
    /\ pending = {}
    /\ typed = "none"
    /\ pc = "closed"
    /\ job = [task |-> CHOOSE t \in Tasks : TRUE, round |-> 0, at |-> 0, way |-> 1]
    /\ waiting = Tasks
    /\ misses = 0
    /\ seen = NothingSeen

(* A session of a task opens the project page; the library and the         *)
(* settings are as the last one left them, the prompt is empty.            *)
StartSession ==
    /\ pc = "closed"
    /\ \E t \in waiting :
          /\ job' = [task |-> t, round |-> 0, at |-> 0, way |-> 1]
          /\ waiting' = waiting \ {t}
    /\ pc' = "panel"
    /\ panel' = FALSE /\ picker' = "none" /\ chips' = NoChips /\ typed' = "none"
    /\ pending' = {}
    /\ misses' = 0
    /\ seen' = NothingSeen
    /\ UNCHANGED <<library, applied>>

(* FlowPortError leaves the loop, which closes the browser.                *)
Raise == pc' = "closed"

(* _open_settings_panel and the wait for its tabs.  Without a trigger, or  *)
(* without tabs, _select_video_mode raises, and open() logs it and goes on.*)
OpenSettingsPanel ==
    /\ pc = "panel"
    /\ \/ /\ Hit
          /\ panel' = TRUE
          /\ pc' = "preset"
       \/ /\ Miss
          /\ panel' \in BOOLEAN
          /\ pc' = "ready"
    /\ UNCHANGED <<library, applied, picker, chips, pending, typed, job, waiting, seen>>

(* _click_inactive_tab and _set_model for each setting in turn: a control  *)
(* that is not there is skipped.  The controls under a tab exist only on   *)
(* that tab.                                                               *)
ApplyPreset ==
    /\ pc = "preset"
    /\ \E missed \in SUBSET Range(Asked) :
          LET clicked == Range(Asked) \ missed
              reachable == IF Asked[1] \in applied \cup clicked
                           THEN clicked ELSE clicked \ Tabs IN
          /\ Cardinality(missed) <= 1
          /\ IF missed = {} THEN Hit ELSE Miss
          /\ applied' = applied \cup reachable
    /\ pc' = "popovers"
    /\ UNCHANGED <<library, panel, picker, chips, pending, typed, job, waiting, seen>>

(* _close_open_popovers: Escape, the trigger again, a click on the body.   *)
CloseOpenPopovers ==
    /\ pc = "popovers"
    /\ \/ Hit /\ panel' = FALSE
       \/ Miss /\ panel' = TRUE
    /\ pc' = "ready"
    /\ UNCHANGED <<library, applied, picker, chips, pending, typed, job, waiting, seen>>

-----------------------------------------------------------------------------
(* upload_source_assets.                                                   *)

BeginUpload ==
    /\ pc = "ready"
    /\ job.round < MaxRounds
    /\ IF Refused(Assets) THEN Raise ELSE pc' = "trigger"
    /\ job' = [job EXCEPT !.round = @ + 1, !.at = 0]
    /\ seen' = [seen EXCEPT !.escaped = {}]
    /\ UNCHANGED <<site, waiting, misses>>

(* The button of the slot is clicked and the picker opens; the buttons of  *)
(* the frame slots are on the frames sub-tab only, and a dialog that is    *)
(* open still takes the click.                                             *)
ClickTrigger ==
    /\ pc = "trigger"
    /\ LET slot == Current.slot
           shown == picker = "none" /\ (slot # "+" => "subtab" \in applied) IN
       \/ /\ shown /\ Hit
          /\ picker' = slot
          /\ pc' = "find"
       \/ /\ IF shown THEN Miss ELSE Hit
          /\ Raise
          /\ UNCHANGED picker
    /\ UNCHANGED <<library, applied, panel, chips, pending, typed, job, waiting, seen>>

Named(name) == {x \in library : x.name = name}

(* _find_existing_library_asset: a thumbnail with the file's name that has *)
(* loaded in the dialog within 5 s.                                        *)
FindExisting ==
    /\ pc = "find"
    /\ LET there == picker # "none" /\ Named(Current.asset.name) # {} IN
       \/ /\ Hit
          /\ pc' = IF there THEN "reuse" ELSE "fresh"
       \/ /\ there /\ Miss
          /\ pc' = "fresh"
    /\ job' = [job EXCEPT !.way = 1]
    /\ UNCHANGED <<site, waiting, seen>>

Attach(x) == chips' = [chips EXCEPT ![picker] = Append(@, x)]

(* A click that has not taken yet, and may never take.                     *)
Late(x) == [slot |-> picker, picture |-> x, nth |-> misses]

(* A bug: one way too many.                                                *)
MoreWaysByOne(n) == n <= Strategies

MoreWays(n) == n < Strategies

NextWay ==
    IF MoreWays(job.way)
    THEN pc' = "reuse" /\ job' = [job EXCEPT !.way = @ + 1]
    ELSE pc' = "fresh" /\ UNCHANGED job

(* _try_attach_existing, one way to click: the thumbnail is attached and   *)
(* the dialog closes; or not, or not yet; or the click raises, as it does  *)
(* when the dialog is gone, and the next way is tried without a look.      *)
TryAttachExisting ==
    /\ pc = "reuse"
    /\ \/ /\ picker # "none" /\ Hit
          /\ \E x \in Named(Current.asset.name) : Attach(x)
          /\ picker' = "none"
          /\ pc' = "check"
          /\ UNCHANGED <<pending, job>>
       \/ /\ picker # "none" /\ Miss
          /\ \/ UNCHANGED pending
             \/ \E x \in Named(Current.asset.name) : pending' = pending \cup {Late(x)}
          /\ pc' = "check"
          /\ UNCHANGED <<chips, picker, job>>
       \/ /\ IF picker = "none" THEN Hit ELSE Miss
          /\ NextWay
          /\ UNCHANGED <<chips, picker, pending>>
    /\ UNCHANGED <<library, applied, panel, typed, waiting, seen>>

(* The look after it: the dialog that is gone within 3 s says that the     *)
(* click took, whichever click it was.                                     *)
CheckReuse ==
    /\ pc = "check"
    /\ IF picker = "none" THEN pc' = "settle" /\ UNCHANGED job ELSE NextWay
    /\ UNCHANGED <<site, waiting, misses, seen>>

(* "Upload image" in the dialog: the file becomes a thumbnail and a chip,  *)
(* now or later; without the dialog or its button the upload raises.       *)
UploadImage ==
    /\ pc = "fresh"
    /\ LET x == [name |-> Current.asset.name, shows |-> Current.asset.shows] IN
       \/ /\ picker # "none" /\ Hit
          /\ library' = library \cup {x}
          /\ Attach(x)
          /\ picker' = "none"
          /\ pc' = "closing"
          /\ UNCHANGED pending
       \/ /\ picker # "none" /\ Miss
          /\ library' \in {library, library \cup {x}}
          /\ pending' \in {pending, pending \cup {Late(x)}}
          /\ pc' = "closing"
          /\ UNCHANGED <<chips, picker>>
       \/ /\ IF picker = "none" THEN Hit ELSE Miss
          /\ Raise
          /\ UNCHANGED <<library, chips, picker, pending>>
    /\ UNCHANGED <<applied, panel, typed, job, waiting, seen>>

(* A dialog that does not close in time is closed with Escape, which may   *)
(* fail as well: nobody looks.                                             *)
CloseDialog ==
    /\ pc = "closing"
    /\ \/ /\ picker = "none" /\ Hit
          /\ UNCHANGED <<picker, seen>>
       \/ /\ picker # "none"
          /\ \/ Hit /\ picker' = "none"
             \/ Miss /\ UNCHANGED picker
          /\ seen' = [seen EXCEPT !.escaped = @ \cup {Current.asset.shows}]
    /\ pc' = "settle"
    /\ UNCHANGED <<library, applied, panel, chips, pending, typed, job, waiting>>

(* A bug: the last asset is left out.                                      *)
MoreAfterShort(n) == n + 1 < Len(Plan(Assets))

MoreAfter(n) == n < Len(Plan(Assets))

NextAsset ==
    /\ pc = "settle"
    /\ job' = [job EXCEPT !.at = @ + 1]
    /\ pc' = IF MoreAfter(job.at + 1) THEN "trigger" ELSE "paste"
    /\ UNCHANGED <<site, waiting, misses, seen>>

(* A click takes that the driver has given up on: a chip more in its slot, *)
(* and the dialog of that slot, if it is open, may close.                  *)
LateClick ==
    /\ pc # "closed"
    /\ \E e \in pending :
          /\ pending' = pending \ {e}
          /\ library' = library \cup {e.picture}
          /\ chips' = [chips EXCEPT ![e.slot] = Append(@, e.picture)]
          /\ picker' \in IF picker = e.slot THEN {picker, "none"} ELSE {picker}
          /\ seen' = [seen EXCEPT !.belated = @ \cup {e.slot}]
    /\ UNCHANGED <<applied, panel, typed, pc, job, waiting, misses>>

-----------------------------------------------------------------------------
(* paste_prompt: click the editor, select all, delete, type.  A panel or a *)
(* dialog over the editor makes the click time out.                        *)
PastePrompt ==
    /\ pc = "paste"
    /\ \/ /\ ~panel /\ picker = "none" /\ Hit
          /\ typed' = job.task
          /\ pc' = "create"
       \/ /\ IF panel \/ picker # "none" THEN Hit ELSE Miss
          /\ Raise
          /\ UNCHANGED typed
    /\ UNCHANGED <<library, applied, panel, picker, chips, pending, job, waiting, seen>>

(* trigger_generation: the prompt and the chips are logged, then Create is *)
(* clicked.  Flow takes the prompt with its chips; when the generation     *)
(* fails they are still there.                                             *)
TriggerGeneration ==
    /\ pc = "create"
    /\ \/ /\ Hit
          /\ chips' = NoChips
          /\ typed' = "none"
          /\ pc' = "ready"
          /\ seen' = NothingSeen
       \/ /\ Miss
          /\ pc' = "ready"
          /\ seen' = [seen EXCEPT !.kept = TRUE]
          /\ UNCHANGED <<chips, typed>>
       \/ /\ Miss /\ Raise
          /\ UNCHANGED <<chips, typed, seen>>
    /\ UNCHANGED <<library, applied, panel, picker, pending, job, waiting>>

EndSession ==
    /\ pc = "ready"
    /\ job.round > 0
    /\ pc' = "closed"
    /\ UNCHANGED <<site, job, waiting, misses, seen>>

Next ==
    \/ StartSession \/ OpenSettingsPanel \/ ApplyPreset \/ CloseOpenPopovers
    \/ BeginUpload \/ ClickTrigger \/ FindExisting \/ TryAttachExisting \/ CheckReuse
    \/ UploadImage \/ CloseDialog \/ NextAsset \/ LateClick
    \/ PastePrompt \/ TriggerGeneration \/ EndSession

Spec == Init /\ [][Next]_vars
=============================================================================
