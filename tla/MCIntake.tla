------------------------------ MODULE MCIntake ------------------------------
(***************************************************************************)
(* The components that take things in from others, on small instances,     *)
(* side by side: the event stream, the dialled feeds, the judge, L0's      *)
(* routing, voice and video sent to the operator's chat, the gateway       *)
(* client, and See's scene cache, cloud session and feed client.  They     *)
(* share no variable, so a behaviour exercises one of them, part, and the  *)
(* others rest: the states of this instance are the sum of theirs, not the *)
(* product.  The fair actions of a part that rests are not enabled.        *)
(***************************************************************************)
EXTENDS StreamIngest, Dialer, Judge, Orchestrator, MediaDoor, GatewayClient,
        SceneCache, CloudSession, FeedClient, TLC

VARIABLE part

PARTS == {"stream", "dialer", "judge", "l0", "door", "gateway", "scenes", "cloud", "client"}

(* Every part but the one exercised rests.                                  *)
Rest ==
  /\ UNCHANGED part
  /\ part # "stream" => UNCHANGED streamVars
  /\ part # "dialer" => UNCHANGED dialerVars
  /\ part # "judge" => UNCHANGED judgeVars
  /\ part # "l0" => UNCHANGED l0Vars
  /\ part # "door" => UNCHANGED doorVars
  /\ part # "gateway" => UNCHANGED gatewayVars
  /\ part # "scenes" => UNCHANGED sceneVars
  /\ part # "cloud" => UNCHANGED cloudVars
  /\ part # "client" => UNCHANGED feedVars

Next ==
  \/ part = "stream" /\ StreamNext /\ Rest
  \/ part = "dialer" /\ DialerNext /\ Rest
  \/ part = "judge" /\ JudgeNext /\ Rest
  \/ part = "l0" /\ L0Next /\ Rest
  \/ part = "door" /\ DoorNext /\ Rest
  \/ part = "gateway" /\ GatewayNext /\ Rest
  \/ part = "scenes" /\ SceneNext /\ Rest
  \/ part = "cloud" /\ CloudNext /\ Rest
  \/ part = "client" /\ FeedNext /\ Rest

Init ==
  /\ part \in PARTS
  /\ StreamInit /\ DialerInit /\ JudgeInit /\ L0Init /\ DoorInit /\ GatewayInit /\ SceneInit
  /\ CloudInit /\ FeedInit

vars == <<part, streamVars, dialerVars, judgeVars, l0Vars, doorVars, gatewayVars, sceneVars,
          cloudVars, feedVars>>

Spec == Init /\ [][Next]_vars /\ DialerFair /\ JudgeFair /\ L0Fair /\ GatewayFair

(* Every part keeps to its types, and to the limits they state: the cap on  *)
(* what is in flight, the back-off, the quiet streak, the pending calls.    *)
IntakeTypeOK ==
  /\ part \in PARTS
  /\ StreamTypeOK /\ DialerTypeOK /\ JudgeTypeOK /\ L0TypeOK /\ GatewayTypeOK /\ CloudTypeOK

-----------------------------------------------------------------------------
(* e1 and e2 are of a kind, e4 repeats the payload of e1.                   *)
MCKindOf == "e1" :> "fire" @@ "e2" :> "fire" @@ "e3" :> "road" @@ "e4" :> "sign"
MCBodyOf == "e1" :> "b1" @@ "e2" :> "b2" @@ "e3" :> "b3" @@ "e4" :> "b1"
MCStampOf == "e1" :> 0 @@ "e2" :> 1 @@ "e3" :> 1 @@ "e4" :> 2
MCScopesOf == "detector" :> {"propose"} @@ "operator" :> {"propose", "decide"} @@ "nobody" :> {}

(* Of a camera with the schema: nothing, contact, smoke that the model is   *)
(* asked about, and a phrase of the trigger list; of the live interface:    *)
(* nothing, and a follow-up answered with yes.                              *)
Nominally ==
  [camera |-> "c1", contact |-> FALSE, changes |-> {}, vehicles |-> {}, signs |-> {}, lying |-> FALSE,
   blocked |-> FALSE, roadDamage |-> FALSE, danger |-> FALSE, lexicon |-> FALSE, hit |-> "none"]
MCSightings ==
  {Nominally, [Nominally EXCEPT !.contact = TRUE], [Nominally EXCEPT !.vehicles = {"burning"}],
   [Nominally EXCEPT !.lexicon = TRUE, !.hit = "fire"]}
  \cup {toObservation(m) : m \in {x \in LiveMessage : x.hit = "none" /\ ~x.lexicon}}

MCFileOf == <<"a", "b", "a">>
MCClipOf == "s1" :> "city" @@ "s2" :> "city" @@ "s3" :> "port"
=============================================================================
