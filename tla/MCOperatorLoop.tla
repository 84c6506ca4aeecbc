--------------------------- MODULE MCOperatorLoop ---------------------------
(***************************************************************************)
(* The operator loop on small instances.  One intent with one ordinary     *)
(* approval, with everything that can go wrong; or two actions at a time,  *)
(* the second of them a delete that takes two people.  The See feed        *)
(* proposes, and one operator identity decides.                            *)
(***************************************************************************)
EXTENDS OperatorLoop, TLC

CONSTANTS i1, i2, pay, cancel, r1, r2, t1, t2

(* One action.                                                              *)
OneAction == {pay}
OneIntent == {i1}
OneVerbOf == pay :> "create"
OneImpactOf == pay :> {"legal"}
OneIntentOf == pay :> i1
OneRequestOf == pay :> r1

(* Two actions of two intents.                                              *)
TwoActions == {pay, cancel}
TwoIntents == {i1, i2}
TwoVerbOf == pay :> "create" @@ cancel :> "delete"
TwoImpactOf == pay :> {"reputational"} @@ cancel :> {"reputational"}
TwoPersonImpactOf == pay :> {"reputational"} @@ cancel :> {"legal"}
TwoIntentOf == pay :> i1 @@ cancel :> i2
TwoInvertible == {cancel}
TwoRequests == {r1, r2}
TwoRequestOf == pay :> r1 @@ cancel :> r2
=============================================================================
