------------------------------ MODULE MediaDoor ------------------------------
(***************************************************************************)
(* Voice and video on the Telegram door: the serial poll loop hands each   *)
(* update to the media branch of handle(), which has the local model write *)
(* a transcript and proposes an intent (src/channels/telegram-loop.js,     *)
(* modality.js, the PERCEIVE rule of models/router.js).  Telegram keeps an *)
(* update until a later getUpdates asks past it.  What is said and shown   *)
(* is left out; intents live in memory.                                    *)
(***************************************************************************)
EXTENDS Naturals, Sequences

CONSTANTS LastUpdate,    \* updates are 1 .. LastUpdate
          FileOf,        \* the file each update carries
          NoFile,        \* nothing in hand
          MaxDoorFaults  \* bound: sends that fail and crashes

ASSUME DoorAssumption == LastUpdate \in Nat /\ MaxDoorFaults \in Nat

VARIABLES arrived,     \* updates Telegram has received
          confirmed,   \* updates below this are gone from Telegram
          offset,      \* the loop's next update, in memory
          batch,       \* what the current poll still has to handle
          door,        \* the message being handled: its stage and file
          localUp,     \* whether the local model answers
          carried,     \* the endpoints media bytes have been sent to
          minted,      \* intents created for each file since the start
          begun,       \* updates whose handling has begun, ever
          doorFaults

doorVars == <<arrived, confirmed, offset, batch, door, localUp, carried, minted,
              begun, doorFaults>>

Updates == 1..LastUpdate
Files == {FileOf[u] : u \in Updates}
InHand(stage, file) == [stage |-> stage, file |-> file]
Idle == InHand("idle", NoFile)

DoorInit ==
  /\ arrived = 0 /\ confirmed = 0 /\ offset = 0 /\ batch = <<>> /\ door = Idle
  /\ localUp = TRUE /\ carried = {} /\ minted = [f \in Files |-> 0]
  /\ begun = {} /\ doorFaults = 0

(* The environment: a message arrives, the local model comes and goes.      *)
Arrive ==
  /\ arrived < LastUpdate
  /\ arrived' = arrived + 1
  /\ UNCHANGED <<confirmed, offset, batch, door, localUp, carried, minted, begun,
                 doorFaults>>

Flap ==
  /\ localUp' = ~localUp
  /\ UNCHANGED <<arrived, confirmed, offset, batch, door, carried, minted, begun,
                 doorFaults>>

(* pollOnce(): asking from offset on confirms everything before it.         *)
Larger(a, b) == IF a > b THEN a ELSE b
Poll ==
  /\ door = Idle /\ batch = <<>>
  /\ confirmed' = Larger(confirmed, offset)
  /\ batch' = [i \in 1..(arrived + 1 - Larger(confirmed', 1)) |-> Larger(confirmed', 1) + i - 1]
  /\ batch' # <<>>
  /\ UNCHANGED <<arrived, offset, door, localUp, carried, minted, begun, doorFaults>>

NextOffset(u) == Larger(offset, u + 1)

BeginMedia ==
  /\ door = Idle /\ batch # <<>>
  /\ offset' = NextOffset(Head(batch))
  /\ door' = InHand("route", FileOf[Head(batch)])
  /\ begun' = begun \cup {Head(batch)}
  /\ batch' = Tail(batch)
  /\ UNCHANGED <<arrived, confirmed, localUp, carried, minted, doorFaults>>

(* route({ task: PERCEIVE }): the local model, or a refusal.                *)
Places == IF localUp THEN {"local"} ELSE {}

At(stage) == door.stage = stage
MoveTo(stage) == door' = [door EXCEPT !.stage = stage]
StillDoor == UNCHANGED <<arrived, confirmed, offset, batch, localUp, begun>>

(* Routing, the download (which may fail) and the call, in that order: the  *)
(* bytes go to the endpoint the route named, answered or not.               *)
Transform ==
  /\ At("route")
  /\ \/ MoveTo("refuse") /\ UNCHANGED carried
     \/ \E place \in Places : carried' = carried \cup {place} /\ MoveTo("infer")
  /\ UNCHANGED <<minted, doorFaults>> /\ StillDoor

Infer ==
  /\ At("infer")
  /\ \/ MoveTo("refuse")
     \/ localUp /\ MoveTo("propose")
  /\ UNCHANGED <<carried, minted, doorFaults>> /\ StillDoor

(* intents.propose() under the key tg-media-<file>: the one there is, or a  *)
(* new one.                                                                 *)
(* Mutated: every delivery is a new intent.                                 *)
IsNewEveryTime(f) == TRUE
IsNew(f) == minted[f] = 0

ProposeHeard ==
  /\ At("propose")
  /\ minted' = IF IsNew(door.file) THEN [minted EXCEPT ![door.file] = @ + 1] ELSE minted
  /\ MoveTo("reply")
  /\ UNCHANGED <<carried, doorFaults>> /\ StillDoor

(* "Heard": a failed send falls into the catch.                             *)
SendFails == doorFaults < MaxDoorFaults /\ doorFaults' = doorFaults + 1

ReplyHeard ==
  /\ At("reply")
  /\ \/ door' = Idle /\ UNCHANGED doorFaults
     \/ SendFails /\ MoveTo("refuse")
  /\ UNCHANGED <<carried, minted>> /\ StillDoor

(* catch: "Cannot process that"; when this send fails too, the error leaves *)
(* handle() and pollOnce(), and the rest of the batch is fetched again.     *)
RefuseMedia ==
  /\ At("refuse")
  /\ door' = Idle
  /\ \/ UNCHANGED <<batch, doorFaults>>
     \/ SendFails /\ batch' = <<>>
  /\ UNCHANGED <<arrived, confirmed, offset, localUp, carried, minted, begun>>

(* The process goes down and comes up with an empty store and offset 0.     *)
CrashDoor ==
  /\ doorFaults < MaxDoorFaults /\ doorFaults' = doorFaults + 1
  /\ offset' = 0 /\ batch' = <<>> /\ door' = Idle
  /\ minted' = [f \in Files |-> 0]
  /\ UNCHANGED <<arrived, confirmed, localUp, carried, begun>>

DoorNext == Arrive \/ Flap \/ Poll \/ BeginMedia \/ Transform \/ Infer \/ ProposeHeard
            \/ ReplyHeard \/ RefuseMedia \/ CrashDoor
DoorSpec == DoorInit /\ [][DoorNext]_doorVars

(* The media's bytes go nowhere but to the local model, whatever comes up   *)
(* or goes down between the route and the call (modality.js: zero egress).  *)
MediaStaysLocal == carried \subseteq {"local"}

(* However often a voice note is delivered, and however its replies fail,   *)
(* it is one intent in the store (the key of telegram-loop.js).             *)
OneIntentPerFile == \A f \in Files : minted[f] <= 1

(* An update Telegram has forgotten was handed to handle(): an error in the *)
(* middle of a batch costs no other update (pollOnce()).                    *)
NothingSkipped == \A u \in Updates : u < confirmed => u \in begun

(* Media stays on the box, each file is one intent, and no update is passed *)
(* over.                                                                    *)
DoorPromise == MediaStaysLocal /\ OneIntentPerFile /\ NothingSkipped
=============================================================================
