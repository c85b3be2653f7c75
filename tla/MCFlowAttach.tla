---------------------------- MODULE MCFlowAttach ----------------------------
(* Four tasks of one project: two with frames whose uploads had the same   *)
(* file names, one with reference pictures, one that frames mode refuses.  *)
EXTENDS FlowAttachProperties, TLC

CONSTANTS t1, t2, t3, t4

MCAsset(t, order, kind, name) == [kind |-> kind, name |-> <<order, name>>, shows |-> <<t, order>>]

MCAssetsOf ==
    (t1 :> <<MCAsset(t1, 1, "last_frame", "b"), MCAsset(t1, 2, "first_frame", "a")>>)
    @@ (t2 :> <<MCAsset(t2, 1, "first_frame", "b")>>)
    @@ (t3 :> <<MCAsset(t3, 1, "reference", "a"), MCAsset(t3, 2, "reference", "b")>>)
    @@ (t4 :> <<MCAsset(t4, 1, "first_frame", "a"), MCAsset(t4, 2, "reference", "b")>>)

MCAsked == <<"tab", "subtab", "model">>
=============================================================================
