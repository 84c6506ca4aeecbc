-------------------------------- MODULE Judge --------------------------------
(***************************************************************************)
(* Judging the camera feeds: one description in, of a camera that speaks   *)
(* Observation Schema v1 (src/coco/adapter.js) or of the live interface    *)
(* (src/coco/live.js), the window of its camera, L0's review of it         *)
(* (src/orchestrator.js, reviewObservation), the judge's two stages        *)
(* (src/coco/judge.js) and, for the live interface, the publication of the *)
(* verdict.  Frames with a status, with a reported error or of no known    *)
(* form are logged or refused, and change nothing of this.                 *)
(*                                                                         *)
(* The one await that lasts is the model's answer.  Observations that      *)
(* arrive meanwhile are handled while it is out: quiet ones count towards  *)
(* the clearance of incidents, candidates are dropped as busy.             *)
(***************************************************************************)
EXTENDS Integers, Sequences, FiniteSets

CONSTANTS
  Sightings,       \* the observations a feed may deliver, see Sighting
  Cameras,
  clearAfterQuiet,
  contextSize,     \* observations kept for a camera
  JudgedTypes,     \* the types the model answers with
  MaxObservations  \* bound: observations delivered

INCIDENT_TYPES == {"traffic-accident", "fire", "fallen-signage", "road-maintenance",
                   "utility-hazard", "public-warning", "other"}

(* What an observation says, as far as anything below looks at it; hit is   *)
(* the incident type of the trigger rule its description matches.           *)
Sighting ==
  [camera : Cameras, contact : BOOLEAN, changes : SUBSET {"contact", "obstructed"},
   vehicles : SUBSET {"stopped", "damaged", "burning"}, signs : SUBSET {"down", "occupying"},
   lying : BOOLEAN, blocked : BOOLEAN, roadDamage : BOOLEAN, danger : BOOLEAN, lexicon : BOOLEAN,
   hit : INCIDENT_TYPES \cup {"none"}]

ASSUME JudgeAssumption ==
  /\ Sightings \subseteq Sighting /\ JudgedTypes \subseteq INCIDENT_TYPES
  /\ {clearAfterQuiet, contextSize} \subseteq Nat \ {0} /\ MaxObservations \in Nat

VARIABLES
  received,    \* observations so far
  contexts,    \* camera -> its latest observations, oldest first
  judging,     \* observations whose judgement awaits the model: set of [n, obs, shown]
  inFlightNow,
  openIncidents, \* camera|type -> [intent, occurrences, quietStreak]
  intentCount, \* intents opened; an intent is its number
  published,   \* the observation topic: numbers of the observations, in order
  routes,      \* history: <<intent, L1 agent>> of the rows routed-to-l1
  cameraOf,    \* history: the camera of each observation
  quietSince,  \* history: key -> quiet observations of its camera since it was last seen
  openings     \* history: [key, quiet] of each intent opened

arrivals == <<received, contexts, cameraOf>>
judgeVars == <<received, contexts, cameraOf, judging, inFlightNow, openIncidents, intentCount, published, routes, quietSince, openings>>
KeysOf == Cameras \X INCIDENT_TYPES
Unjudged == -1    \* quietSince of a key that was never seen

JudgeInit ==
  /\ received = 0 /\ contexts = [c \in Cameras |-> <<>>] /\ cameraOf = <<>> /\ judging = {} /\ inFlightNow = FALSE /\ intentCount = 0
  /\ openIncidents = [k \in {} |-> 0] /\ published = <<>> /\ routes = {} /\ openings = <<>>
  /\ quietSince = [k \in KeysOf |-> Unjudged]

-----------------------------------------------------------------------------
candidateSignals(o) ==
  {s \in {"interaction:contact_visible"} : o.contact}
  \cup {s \in {"changes:new_vehicle_contact"} : "contact" \in o.changes}
  \cup {s \in {"vehicles:stopped_in_obstructed_intersection"} : "stopped" \in o.vehicles /\ "obstructed" \in o.changes}
  \cup {s \in {"vehicle:visible_damage"} : "damaged" \in o.vehicles}
  \cup {s \in {"vehicle:smoke_or_fire"} : "burning" \in o.vehicles}
  \cup {s \in {"sign:down"} : "down" \in o.signs} \cup {s \in {"sign:occupying_road"} : "occupying" \in o.signs}
  \cup {s \in {"pedestrian:down"} : o.lying} \cup {s \in {"object:occupying_road"} : o.blocked}
  \cup {s \in {"road:damage_or_flooding"} : o.roadDamage}
  \cup {s \in {"followup:danger_true"} : o.danger} \cup {s \in {"description:danger_lexicon"} : o.lexicon}

Quiet(o) == candidateSignals(o) = {} /\ o.hit = "none"

L1_BY_INCIDENT ==
  [t \in INCIDENT_TYPES |-> CASE t = "traffic-accident" -> "accident-agent" [] t = "fire" -> "fire-agent"
     [] t = "utility-hazard" -> "utility-agent" [] t = "public-warning" -> "comms-agent" [] OTHER -> "roadside"]

l1FromSignals(S) ==
  IF "vehicle:smoke_or_fire" \in S \/ {"description:danger_lexicon", "followup:danger_true"} \subseteq S THEN "fire-agent"
  ELSE IF S \cap {"interaction:contact_visible", "changes:new_vehicle_contact", "vehicle:visible_damage"} # {}
       THEN "accident-agent" ELSE "roadside"

(* Strong signals stand in for a model that cannot be asked.                *)
degradedVerdict(o) ==
  IF candidateSignals(o) \cap {"interaction:contact_visible", "changes:new_vehicle_contact"} # {}
  THEN "traffic-accident" ELSE "none"

-----------------------------------------------------------------------------
(* The agent a new incident goes to.                                        *)
Owner(o, t) == L1_BY_INCIDENT[t]

LIVE_CAMERA == "coco-live"

(* What the live interface says: a description, by the type whose trigger   *)
(* phrase it has and whether it has a word of danger, and the answer to the *)
(* follow-up, which is whatever the model wrote.                            *)
LiveMessage == [hit : INCIDENT_TYPES \cup {"none"}, lexicon : BOOLEAN, answer : {"true", "false", "a text", "none"}]
toObservation(m) ==
  [camera |-> LIVE_CAMERA, contact |-> FALSE, changes |-> {}, vehicles |-> {}, signs |-> {}, lying |-> FALSE,
   blocked |-> FALSE, roadDamage |-> FALSE, danger |-> m.answer = "true", lexicon |-> m.lexicon, hit |-> m.hit]

(* The window an observation belongs to; the one of live.js is its own.     *)
(* Mutated: one for all cameras.                                            *)
AnyWindow(o) == CHOOSE c \in Cameras : TRUE
contextFor(o) == o.camera

Kept(ctx) == IF Len(ctx) > contextSize THEN Tail(ctx) ELSE ctx

Arrives(o) ==
  /\ received < MaxObservations /\ o \in Sightings /\ received' = received + 1
  /\ contexts' = [contexts EXCEPT ![contextFor(o)] = Kept(Append(@, received'))]
  /\ cameraOf' = Append(cameraOf, o.camera)

(* What a prompt quotes of a window.                                        *)
DIGESTED == 6
digest(ctx) == IF Len(ctx) <= DIGESTED THEN ctx ELSE SubSeq(ctx, Len(ctx) - DIGESTED + 1, Len(ctx))

(* Of the live interface the verdict goes out on the bus.                   *)
Publish(o, n) == published' = IF o.camera = LIVE_CAMERA THEN Append(published, n) ELSE published
Of(o, k) == k[1] = o.camera

Counted(o) ==
  [k \in DOMAIN openIncidents |->
    IF Of(o, k) THEN [openIncidents[k] EXCEPT !.quietStreak = @ + 1] ELSE openIncidents[k]]

(* Mutated: one quiet observation more is waited for.                       *)
UnclearedLater(f) == {k \in DOMAIN f : f[k].quietStreak <= clearAfterQuiet}
Uncleared(f) == {k \in DOMAIN f : f[k].quietStreak < clearAfterQuiet}

(* No signal: clearance of the camera's incidents goes on, the model rests. *)
Nominal(o) ==
  /\ Arrives(o) /\ Quiet(o) /\ Publish(o, received')
  /\ openIncidents' = [k \in Uncleared(Counted(o)) |-> Counted(o)[k]]
  /\ quietSince' = [k \in KeysOf |-> IF Of(o, k) /\ quietSince[k] # Unjudged THEN quietSince[k] + 1 ELSE quietSince[k]]
  /\ UNCHANGED <<judging, inFlightNow, intentCount, routes, openings>>

SkippedBusy(o) ==
  /\ Arrives(o) /\ ~Quiet(o) /\ inFlightNow /\ Publish(o, received')
  /\ UNCHANGED <<judging, inFlightNow, openIncidents, intentCount, routes, quietSince, openings>>

(* The verdict is in: nominal, attached to the open incident, or an intent. *)
Settle(o, t) ==
  LET k == <<o.camera, t>>
      Route(i, l1) == routes' = routes \cup {<<i, l1>>}
  IN IF t = "none" THEN UNCHANGED <<openIncidents, intentCount, routes, quietSince, openings>>
     ELSE /\ quietSince' = [quietSince EXCEPT ![k] = 0]
          /\ IF k \in DOMAIN openIncidents
             THEN /\ openIncidents' = [openIncidents EXCEPT ![k].occurrences = @ + 1, ![k].quietStreak = 0]
                  /\ Route(openIncidents[k].intent, l1FromSignals(candidateSignals(o)))
                  /\ UNCHANGED <<intentCount, openings>>
             ELSE /\ intentCount' = intentCount + 1
                  /\ openIncidents' = [j \in DOMAIN openIncidents \cup {k} |->
                       IF j = k THEN [intent |-> intentCount', occurrences |-> 1, quietStreak |-> 0] ELSE openIncidents[j]]
                  /\ Route(intentCount', Owner(o, t))
                  /\ openings' = Append(openings, [key |-> k, quiet |-> quietSince[k]])

(* A trigger phrase names the type; no inference.                           *)
TriggerMatched(o) ==
  /\ Arrives(o) /\ ~Quiet(o) /\ ~inFlightNow /\ o.hit # "none"
  /\ Settle(o, o.hit) /\ Publish(o, received') /\ UNCHANGED <<judging, inFlightNow>>

(* The local model is down: decided without it, and without waiting.        *)
Degraded(o) ==
  /\ Arrives(o) /\ ~Quiet(o) /\ ~inFlightNow /\ o.hit = "none"
  /\ Settle(o, degradedVerdict(o)) /\ Publish(o, received') /\ UNCHANGED <<judging, inFlightNow>>

Ask == inFlightNow' = TRUE

Begin(o) ==
  /\ Arrives(o) /\ ~Quiet(o) /\ ~inFlightNow /\ o.hit = "none"
  /\ Ask /\ judging' = judging \cup {[n |-> received', obs |-> o, shown |-> digest(contexts'[contextFor(o)])]}
  /\ UNCHANGED <<openIncidents, intentCount, published, routes, quietSince, openings>>

Release(t) == inFlightNow' = FALSE

(* The model answers, with a type or none, unreadably, late or not at all:  *)
(* an error is the degraded verdict.                                        *)
Judged(t) ==
  \E j \in judging :
    /\ judging' = judging \ {j} /\ Release(t)
    /\ Settle(j.obs, t) /\ Publish(j.obs, j.n) /\ UNCHANGED arrivals

InferenceFails ==
  \E j \in judging :
    /\ judging' = judging \ {j} /\ Release("none")
    /\ Settle(j.obs, degradedVerdict(j.obs)) /\ Publish(j.obs, j.n) /\ UNCHANGED arrivals

Observe(o) == Nominal(o) \/ SkippedBusy(o) \/ TriggerMatched(o) \/ Degraded(o) \/ Begin(o)
(* Mutated: an answer that another observation overtook is dropped.         *)
AnswerInOrder == /\ \A j \in judging : j.n = received
                 /\ InferenceFails \/ \E t \in JudgedTypes \cup {"none"} : Judged(t)
Answer == InferenceFails \/ \E t \in JudgedTypes \cup {"none"} : Judged(t)
JudgeNext == Answer \/ \E o \in Sightings : Observe(o)

(* complete() has a timeout of 60 s: the model answers or fails.            *)
JudgeFair == WF_judgeVars(Answer)
JudgeSpec == JudgeInit /\ [][JudgeNext]_judgeVars /\ JudgeFair

-----------------------------------------------------------------------------
(* The types, and no incident is open that has been quiet for long enough.  *)
JudgeTypeOK ==
  /\ received \in 0..MaxObservations /\ inFlightNow \in BOOLEAN /\ intentCount \in 0..MaxObservations
  /\ \A j \in judging : j.n \in 1..received /\ j.obs \in Sightings
  /\ contexts \in [Cameras -> Seq(1..MaxObservations)] /\ \A c \in Cameras : Len(contexts[c]) <= contextSize
  /\ cameraOf \in Seq(Cameras) /\ Len(cameraOf) = received
  /\ DOMAIN openIncidents \subseteq KeysOf
  /\ \A k \in DOMAIN openIncidents :
       openIncidents[k] \in [intent : 1..MaxObservations, occurrences : Nat, quietStreak : 0..(clearAfterQuiet - 1)]
  /\ published \in Seq(1..MaxObservations) /\ Len(published) <= received

(* One judgement is out at a time, and the flag says so: neither two models *)
(* calls at once, nor a flag that an error leaves up and that would drop    *)
(* every later candidate (judge.js:223-243).                                *)
OneJudgement == Cardinality(judging) = IF inFlightNow THEN 1 ELSE 0

(* Every live observation is published once, judged or not, and only one    *)
(* that waits for the model is overtaken (live.js:112-121).                 *)
PublishedOnce ==
  /\ \A i, j \in DOMAIN published : published[i] = published[j] => i = j
  /\ {published[i] : i \in DOMAIN published} =
       {n \in 1..received : cameraOf[n] = LIVE_CAMERA} \ {j.n : j \in judging}

(* The model is shown the candidate and what its camera said just before,   *)
(* in order, whatever other cameras said between: of the observations of    *)
(* that camera up to it the last contextSize, or the last six               *)
(* (adapter.js:125-130, live.js:109-112, judge.js:81).                      *)
WindowIsOfItsCamera ==
  \A j \in judging :
    LET mine == {n \in 1..j.n : cameraOf[n] = j.obs.camera}
        later(n) == {m \in mine : m > n} IN
      /\ {j.shown[i] : i \in DOMAIN j.shown} =
           {n \in mine : Cardinality(later(n)) < contextSize /\ Cardinality(later(n)) < DIGESTED}
      /\ \A i, k \in DOMAIN j.shown : i < k => j.shown[i] < j.shown[k]

(* An incident that goes on is one intent: a second intent for the same     *)
(* camera and type is opened only after clearAfterQuiet quiet observations  *)
(* of that camera since it was last seen, whatever judgement was out        *)
(* meanwhile (judge.js:209-219, :251-257, :284).                            *)
OneIntentPerIncident ==
  \A n \in DOMAIN openings : openings[n].quiet = Unjudged \/ openings[n].quiet >= clearAfterQuiet

(* A verdict comes for every candidate taken up: the flag falls again.      *)
JudgementEnds == inFlightNow ~> ~inFlightNow

(* The owner of an open incident's type has been given its intent, and the  *)
(* intent is of that incident alone, whichever agents later observations of *)
(* it were routed to (judge.js:259-284, orchestrator.js:167-183).           *)
OwnersAreTold ==
  \A k \in DOMAIN openIncidents :
    /\ <<openIncidents[k].intent, L1_BY_INCIDENT[k[2]]>> \in routes
    /\ \A j \in DOMAIN openIncidents : openIncidents[j].intent = openIncidents[k].intent => j = k

(* One judgement at a time, on the window of its camera, which ends; every  *)
(* live observation published once; one intent for an incident, known to    *)
(* its owner.                                                               *)
JudgePromise == [](OneJudgement /\ WindowIsOfItsCamera /\ PublishedOnce /\ OneIntentPerIncident /\ OwnersAreTold) /\ JudgementEnds
=============================================================================
