---------------------------- MODULE MCFlowRound ----------------------------
(* A page with one result and one notice of earlier sessions, and room for *)
(* two new results.                                                        *)
EXTENDS FlowRoundProperties, TLC

CONSTANTS m1, m2, m3

MCPresets == {[video |-> TRUE, expected |-> 2], [video |-> FALSE, expected |-> 0]}
(* Every trouble, and those together whose effects meet: a refusal that    *)
(* one look does not read, a result that leaves the document or is not     *)
(* read.                                                                   *)
MCHardships ==
    [p \in MCPresets |->
       IF p.video
       THEN {{"refused", "blind"}, {"glitch", "scrolled"}, {"transient"}, {"takeover"}, {"dialog"}}
       ELSE {{"glitch"}, {"takeover"}}]
MCNoHardships == [p \in MCPresets |-> {}]

(* m1 may be an earlier result; the two others differ only in name.        *)
MCSymmetry == Permutations({m2, m3})
=============================================================================
