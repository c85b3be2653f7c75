------------------------ MODULE FlowAttachProperties ------------------------
(* What Create is clicked with, after everything that may miss.            *)
EXTENDS FlowAttach

AllAssets == UNION {Range(AssetsOf[t]) : t \in Tasks}
Thumbnails == {[name |-> a.name, shows |-> a.shows] : a \in AllAssets}

(* Every variable has its type, and no thumbnail is clicked in more ways   *)
(* than there are (flow_playwright.py:880-910).                            *)
TypeOK ==
    /\ library \subseteq Thumbnails
    /\ applied \subseteq Range(Asked)
    /\ panel \in BOOLEAN
    /\ picker \in Slots \cup {"none"}
    /\ DOMAIN chips = Slots /\ \A s \in Slots : chips[s] \in Seq(Thumbnails)
    /\ pending \subseteq [slot : Slots, picture : Thumbnails, nth : 0 .. MaxMisses]
    /\ typed \in Tasks \cup {"none"}
    /\ pc \in {"closed", "panel", "preset", "popovers", "ready", "trigger", "find",
               "reuse", "check", "fresh", "closing", "settle", "paste", "create"}
    /\ job \in [task : Tasks, round : 0 .. MaxRounds, at : Nat, way : 1 .. Strategies]
    /\ waiting \subseteq Tasks
    /\ misses \in 0 .. MaxMisses
    /\ DOMAIN seen = {"escaped", "belated", "kept"}
    /\ seen.belated \subseteq Slots /\ seen.kept \in BOOLEAN

(* The slot an asset belongs in: a first frame in Start, a last frame in   *)
(* End, anything else at the prompt (docstring, 543-563).                  *)
Belongs(asset, slot) ==
    CASE slot = "Start" -> asset.kind = "first_frame"
      [] slot = "End" -> asset.kind = "last_frame"
      [] slot = "+" -> asset.kind \notin FrameKinds

(* A sequence of positions read forwards: none is read twice.              *)
Forwards(f, n) == \A i, j \in 1 .. n : i < j => f[i] < f[j]

(* The chips of a slot are there for assets that belong in it.             *)
Owned(s) ==
    \A i \in 1 .. Len(chips[s]) : \E a \in 1 .. Len(Assets) :
        Belongs(Assets[a], s) /\ Assets[a].name = chips[s][i].name

(* They are in the order of the task, and none is there twice.             *)
InOrder(s) ==
    \E from \in [1 .. Len(chips[s]) -> 1 .. Len(Assets)] :
        /\ Forwards(from, Len(chips[s]))
        /\ \A i \in 1 .. Len(chips[s]) :
              Belongs(Assets[from[i]], s) /\ Assets[from[i]].name = chips[s][i].name

(* When Create is clicked no slot holds a chip that belongs elsewhere, in  *)
(* whatever order the task lists its assets, whichever clicks missed or    *)
(* took late, in this round or an earlier one.  A chip is there twice, or  *)
(* out of order, only if a click took in that slot after it was given up   *)
(* on, or a generation had failed and left its chips                       *)
(* (flow_playwright.py:862-910 and 1657-1659).                             *)
ChipsAreWanted ==
    pc = "create" =>
        \A s \in Slots : Owned(s) /\ (InOrder(s) \/ s \in seen.belated \/ seen.kept)

(* A picture is missing when Create is clicked only if its dialog had to   *)
(* be closed with Escape in this round, or if the dialog closed because    *)
(* another click took in that slot; every other failure ended the session  *)
(* before (upload_source_assets, 744-910).                                 *)
MissingWasEscaped ==
    pc = "create" =>
        \A i \in 1 .. Len(Assets) :
            \/ Assets[i].shows \in seen.escaped
            \/ \E s \in Slots :
                  /\ Belongs(Assets[i], s)
                  /\ \/ s \in seen.belated
                     \/ \E k \in 1 .. Len(chips[s]) : chips[s][k].name = Assets[i].name

(* "Attach one or more source assets to the prompt as inline chips"        *)
(* (flow_playwright.py:543): the pictures are the task's own.              *)
PicturesAreTheTasks ==
    pc = "create" =>
        \A s \in Slots : \A k \in 1 .. Len(chips[s]) :
            \E i \in 1 .. Len(Assets) : chips[s][k].shows = Assets[i].shows
=============================================================================
