---------------------------- MODULE MCIntentStore ----------------------------
(***************************************************************************)
(* The intent store on a small instance: an intent whose actions are a     *)
(* two-person delete and an ordinary approval, and an action id that the   *)
(* intent does not hold.                                                   *)
(***************************************************************************)
EXTENDS IntentStore, TLC

CONSTANTS i1, cancel, dispatch, typo

MCActions == {cancel, dispatch, typo}
MCIntents == {i1}
MCVerbOf == cancel :> "delete" @@ dispatch :> "create" @@ typo :> "create"
MCImpactOf == cancel :> {"legal", "reputational"} @@ dispatch :> {"legal"}
              @@ typo :> {"unknown-word"}
MCIntentOf == cancel :> i1 @@ dispatch :> i1 @@ typo :> i1
MCUnminted == {typo}
MCInvertible == {cancel}
=============================================================================
