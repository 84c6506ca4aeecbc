------------------------- MODULE IntentSourceProofs -------------------------
(***************************************************************************)
(* What makes intents, and the routing of them.  Voice and video on the    *)
(* operator's door, for any updates and files: the bytes stay on the box,  *)
(* a file is one intent, and no update is passed over, whatever fails and  *)
(* however often the process starts again.  The judge of the camera feeds, *)
(* for any cameras, observations and answers.  L0, for any intents, tools  *)
(* and models.                                                             *)
(***************************************************************************)
EXTENDS MediaDoor, Judge, Orchestrator, SequenceTheorems, FunctionTheorems, FiniteSetTheorems, TLAPS

DoorTypes ==
  /\ arrived \in 0..LastUpdate
  /\ confirmed \in Nat /\ offset \in Nat
  /\ batch \in Seq(Updates)
  /\ minted \in [Files -> Nat]

(* What is left of a poll are updates in a row, up to the newest of it.     *)
InARow == \A i \in DOMAIN batch : batch[i] = batch[1] + i - 1

(* Everything before the offset, and before what is left, has been begun.   *)
BegunBefore(n) == \A u \in Updates : u < n => u \in begun
NoGap ==
  /\ BegunBefore(offset) /\ BegunBefore(confirmed)
  /\ batch # <<>> => BegunBefore(batch[1])

DoorInv == DoorTypes /\ InARow /\ NoGap /\ MediaStaysLocal /\ OneIntentPerFile

(* At first nothing has arrived.                                            *)
LEMMA DoorStarts == DoorInit => DoorInv
<1> SUFFICES ASSUME DoorInit PROVE DoorInv
  OBVIOUS
<1>1. batch = <<>> /\ <<>> \in Seq(Updates) /\ DOMAIN batch = {}
  BY EmptySeq DEF DoorInit
<1>2. DoorTypes
  BY <1>1, DoorAssumption DEF DoorInit, DoorTypes
<1>3. InARow
  BY <1>1 DEF InARow
<1>4. NoGap
  BY <1>1, DoorAssumption DEF DoorInit, NoGap, BegunBefore, Updates
<1>5. MediaStaysLocal /\ OneIntentPerFile
  BY DEF DoorInit, MediaStaysLocal, OneIntentPerFile
<1> QED
  BY <1>2, <1>3, <1>4, <1>5 DEF DoorInv

(* A poll confirms what is before the offset and brings the rest in a row.  *)
LEMMA PollKeeps == ASSUME DoorInv, Poll PROVE DoorInv'
<1> DEFINE first == Larger(confirmed', 1)
           n == arrived + 1 - first
<1>1. /\ batch = <<>> /\ confirmed' = Larger(confirmed, offset)
      /\ batch' = [i \in 1..n |-> first + i - 1] /\ batch' # <<>>
      /\ UNCHANGED <<arrived, offset, minted, begun, carried>>
  BY DEF Poll
<1>2. confirmed' \in Nat /\ first \in Nat /\ first >= 1 /\ first >= confirmed' /\ (first = 1 \/ first = confirmed')
  BY <1>1 DEF DoorInv, DoorTypes, Larger
<1>3. arrived \in Nat /\ arrived <= LastUpdate /\ n \in Int
  BY <1>2, DoorAssumption DEF DoorInv, DoorTypes
<1> HIDE DEF first
<1>4. n >= 1
  <2> SUFFICES ASSUME ~(n >= 1) PROVE FALSE
    OBVIOUS
  <2>1. 1..n = {}
    BY <1>3
  <2>2. batch' = <<>>
    BY <1>1, <2>1
  <2> QED
    BY <1>1, <2>2
<1>5. \A i \in 1..n : first + i - 1 \in Updates
  BY <1>2, <1>3, DoorAssumption DEF Updates
<1>6. batch' \in Seq(Updates) /\ DOMAIN batch' = 1..n /\ \A i \in 1..n : batch'[i] = first + i - 1
  BY <1>1, <1>3, <1>4, <1>5
<1>7. DoorTypes'
  BY <1>1, <1>2, <1>6 DEF DoorInv, DoorTypes
<1>8. batch'[1] = first
  BY <1>2, <1>3, <1>4, <1>6
<1>9. InARow'
  BY <1>6, <1>8 DEF InARow
<1>10. NoGap'
  <2>1. BegunBefore(offset)' /\ BegunBefore(confirmed)'
    BY <1>1 DEF DoorInv, NoGap, BegunBefore, Larger
  <2>2. BegunBefore(batch[1])'
    BY <1>2, <1>8, <2>1, DoorAssumption DEF BegunBefore, Updates
  <2> QED
    BY <2>1, <2>2 DEF NoGap
<1> QED
  BY <1>1, <1>7, <1>9, <1>10 DEF DoorInv, MediaStaysLocal, OneIntentPerFile

(* One update of the batch is begun, and the offset passes that one only.   *)
LEMMA BeginKeeps == ASSUME DoorInv, BeginMedia PROVE DoorInv'
<1> DEFINE u == batch[1]
<1>1. /\ batch # <<>> /\ offset' = Larger(offset, u + 1) /\ begun' = begun \cup {u} /\ batch' = Tail(batch)
      /\ UNCHANGED <<arrived, confirmed, minted, carried>>
  BY DEF BeginMedia, NextOffset
<1>2. batch \in Seq(Updates) /\ u \in Updates /\ u \in Nat
  BY <1>1, DoorAssumption DEF DoorInv, DoorTypes, Updates
<1> HIDE DEF u
<1>3. /\ batch' \in Seq(Updates) /\ Len(batch') = Len(batch) - 1
      /\ \A i \in 1..Len(batch') : batch'[i] = batch[i + 1]
  BY <1>1, <1>2, HeadTailProperties
<1>4. Len(batch) \in Nat /\ DOMAIN batch = 1..Len(batch) /\ DOMAIN batch' = 1..Len(batch')
  BY <1>2, <1>3
<1>5. \A i \in DOMAIN batch' : batch'[i] = u + i
  <2> SUFFICES ASSUME NEW i \in DOMAIN batch' PROVE batch'[i] = u + i
    OBVIOUS
  <2>1. i \in 1..Len(batch') /\ i + 1 \in DOMAIN batch
    BY <1>3, <1>4
  <2>2. batch[i + 1] = u + (i + 1) - 1
    BY <2>1 DEF DoorInv, InARow, u
  <2> QED
    BY <1>2, <1>3, <2>1, <2>2
<1>6. DoorTypes'
  BY <1>1, <1>2, <1>3 DEF DoorInv, DoorTypes, Larger
<1>7. batch' # <<>> => batch'[1] = u + 1
  BY <1>3, <1>4, <1>5
<1>8. InARow'
  <2> SUFFICES ASSUME NEW i \in DOMAIN batch' PROVE batch'[i] = batch'[1] + i - 1
    BY DEF InARow
  <2>1. batch' # <<>> /\ i \in Nat
    BY <1>4
  <2> QED
    BY <1>2, <1>5, <1>7, <2>1
<1>9. NoGap'
  <2>1. \A v \in Updates : v < u + 1 => v \in begun'
    BY <1>1, <1>2, DoorAssumption DEF DoorInv, NoGap, BegunBefore, Updates, u
  <2>2. BegunBefore(offset)'
    BY <1>1, <2>1 DEF DoorInv, NoGap, BegunBefore, Larger
  <2>3. BegunBefore(confirmed)'
    BY <1>1 DEF DoorInv, NoGap, BegunBefore
  <2>4. batch' # <<>> => BegunBefore(batch[1])'
    BY <1>7, <2>1 DEF BegunBefore
  <2> QED
    BY <2>2, <2>3, <2>4 DEF NoGap
<1> QED
  BY <1>1, <1>6, <1>8, <1>9 DEF DoorInv, MediaStaysLocal, OneIntentPerFile

(* The bytes are routed, and go to the local model or nowhere.              *)
LEMMA TransformKeeps == ASSUME DoorInv, Transform PROVE DoorInv'
<1>1. carried' \subseteq carried \cup {"local"} /\ UNCHANGED minted /\ StillDoor
  BY DEF Transform, Places
<1> QED
  BY <1>1 DEF DoorInv, DoorTypes, InARow, NoGap, BegunBefore, StillDoor, MediaStaysLocal, OneIntentPerFile

(* A file is proposed under its key.                                        *)
LEMMA ProposeKeeps == ASSUME DoorInv, ProposeHeard PROVE DoorInv'
<1>1. UNCHANGED carried /\ StillDoor
  BY DEF ProposeHeard
<1>2. minted' \in [Files -> Nat] /\ \A f \in Files : minted'[f] = minted[f] \/ (minted[f] = 0 /\ minted'[f] = 1)
  <2> DEFINE g == door.file
  <2>1. minted' = IF minted[g] = 0 THEN [minted EXCEPT ![g] = @ + 1] ELSE minted
    BY DEF ProposeHeard, IsNew
  <2>2. minted \in [Files -> Nat]
    BY DEF DoorInv, DoorTypes
  <2> HIDE DEF g
  <2>3. CASE minted[g] = 0 /\ g \in Files
    BY <2>1, <2>2, <2>3
  <2>4. CASE minted[g] = 0 /\ g \notin Files
    BY <2>1, <2>2, <2>4
  <2>5. CASE minted[g] # 0
    BY <2>1, <2>2, <2>5
  <2> QED
    BY <2>3, <2>4, <2>5
<1>3. OneIntentPerFile'
  BY <1>2 DEF DoorInv, OneIntentPerFile
<1> QED
  BY <1>1, <1>2, <1>3 DEF DoorInv, DoorTypes, InARow, NoGap, BegunBefore, StillDoor, MediaStaysLocal

(* An error leaves pollOnce(), or the process goes down: the rest of the    *)
(* batch is dropped, and the offset has not passed it.                      *)
LEMMA DropKeeps ==
  ASSUME DoorInv, batch' = <<>>, offset' \in {offset, 0}, UNCHANGED <<arrived, confirmed, carried, begun>>,
         minted' \in {minted, [f \in Files |-> 0]}
  PROVE  DoorInv'
<1>1. <<>> \in Seq(Updates) /\ DOMAIN batch' = {}
  BY EmptySeq
<1>2. DoorTypes'
  BY <1>1 DEF DoorInv, DoorTypes
<1>3. InARow'
  BY <1>1 DEF InARow
<1>4. NoGap'
  BY DoorAssumption DEF DoorInv, NoGap, BegunBefore, Updates
<1>5. MediaStaysLocal' /\ OneIntentPerFile'
  BY DEF DoorInv, MediaStaysLocal, OneIntentPerFile
<1> QED
  BY <1>2, <1>3, <1>4, <1>5 DEF DoorInv

(* What arrives, what is said to the operator, and a local model that comes *)
(* and goes change nothing of this.                                         *)
LEMMA OthersKeep ==
  ASSUME DoorInv, arrived' \in 0..LastUpdate, UNCHANGED <<confirmed, offset, batch, carried, minted, begun>>
  PROVE  DoorInv'
  BY DEF DoorInv, DoorTypes, InARow, NoGap, BegunBefore, MediaStaysLocal, OneIntentPerFile

(* Together: every step keeps the invariant.                                *)
LEMMA DoorSteps == DoorInv /\ [DoorNext]_doorVars => DoorInv'
<1> SUFFICES ASSUME DoorInv, [DoorNext]_doorVars PROVE DoorInv'
  OBVIOUS
<1>a. arrived \in 0..LastUpdate
  BY DEF DoorInv, DoorTypes
<1>1. CASE UNCHANGED doorVars
  BY <1>1, <1>a, OthersKeep DEF doorVars
<1>2. CASE Arrive
  BY <1>2, <1>a, OthersKeep, DoorAssumption DEF Arrive
<1>3. CASE Flap
  BY <1>3, <1>a, OthersKeep DEF Flap
<1>4. CASE Infer
  BY <1>4, <1>a, OthersKeep DEF Infer, StillDoor
<1>5. CASE ReplyHeard
  BY <1>5, <1>a, OthersKeep DEF ReplyHeard, StillDoor
<1>6. CASE RefuseMedia
  BY <1>6, <1>a, OthersKeep, DropKeeps DEF RefuseMedia
<1>7. CASE CrashDoor
  BY <1>7, DropKeeps DEF CrashDoor
<1> QED
  BY <1>1, <1>2, <1>3, <1>4, <1>5, <1>6, <1>7, PollKeeps, BeginKeeps, TransformKeeps, ProposeKeeps DEF DoorNext

(* Media goes nowhere but to the local model, one file is one intent, and   *)
(* what Telegram has forgotten was begun, for any updates and failures.     *)
THEOREM DoorTheorem == DoorSpec => []DoorPromise
<1>1. DoorSpec => []DoorInv
  BY DoorStarts, DoorSteps, PTL DEF DoorSpec
<1>2. DoorInv => DoorPromise
  BY DEF DoorInv, NoGap, BegunBefore, DoorPromise, NothingSkipped
<1> QED
  BY <1>1, <1>2, PTL

-----------------------------------------------------------------------------
(* The judge.  What a camera said up to n, and a window of its last, at     *)
(* most size: in order, and what it leaves out came before a full window.   *)
Mine(cams, c, n) == {m \in 1..n : cams[m] = c}
IsWindow(w, cams, c, n, size) ==
  /\ w \in Seq(Nat) /\ Len(w) <= size
  /\ \A i \in 1..Len(w) : w[i] \in Mine(cams, c, n)
  /\ \A i, k \in 1..Len(w) : i < k => w[i] < w[k]
  /\ \A m \in Mine(cams, c, n) : (\E i \in 1..Len(w) : w[i] = m) \/ (Len(w) = size /\ \A i \in 1..Len(w) : m < w[i])

FeedTypes ==
  /\ received \in Nat /\ inFlightNow \in BOOLEAN /\ contexts \in [Cameras -> Seq(Nat)]
  /\ cameraOf \in Seq(Cameras) /\ Len(cameraOf) = received
  /\ published \in Seq(Nat)

IncidentTypes ==
  /\ intentCount \in Nat /\ DOMAIN openIncidents \subseteq KeysOf
  /\ \A k \in DOMAIN openIncidents : openIncidents[k] \in [intent : Nat, occurrences : Nat, quietStreak : Nat]
  /\ quietSince \in [KeysOf -> Int] /\ openings \in Seq([key : KeysOf, quiet : Int])

(* The flag is up while the model is asked, about one observation.          *)
MostDigested == IF contextSize < DIGESTED THEN contextSize ELSE DIGESTED
Awaited(j) ==
  /\ j.n \in 1..received /\ j.obs \in Sightings /\ j.obs.camera = cameraOf[j.n]
  /\ IsWindow(j.shown, cameraOf, j.obs.camera, j.n, MostDigested)
AskedAlone == IF inFlightNow THEN \E j : judging = {j} /\ Awaited(j) ELSE judging = {}
WindowsKept == \A c \in Cameras : IsWindow(contexts[c], cameraOf, c, received, contextSize)

Topic == {published[i] : i \in DOMAIN published}
PublishedSoFar ==
  /\ \A i, j \in DOMAIN published : published[i] = published[j] => i = j
  /\ \A i \in DOMAIN published : published[i] \in 1..received
  /\ \A n \in 1..received : n \in Topic <=> cameraOf[n] = LIVE_CAMERA /\ \A j \in judging : j.n # n

(* An open incident has been quiet for as long as its streak says, one that *)
(* is not open for long enough.                                             *)
StreaksAreTrue ==
  \A k \in KeysOf :
    IF k \in DOMAIN openIncidents THEN openIncidents[k].quietStreak = quietSince[k]
    ELSE quietSince[k] = Unjudged \/ quietSince[k] >= clearAfterQuiet
IntentsAreCounted == \A k \in DOMAIN openIncidents : openIncidents[k].intent <= intentCount

FeedsInv == FeedTypes /\ AskedAlone /\ WindowsKept /\ PublishedSoFar
IncidentsInv == IncidentTypes /\ StreaksAreTrue /\ IntentsAreCounted /\ OneIntentPerIncident /\ OwnersAreTold

(* What came later does not change what a camera had said.                  *)
LEMMA WindowStays ==
  ASSUME NEW cams \in Seq(Cameras), NEW d, NEW w, NEW c, NEW n \in Nat, NEW size, n <= Len(cams),
         IsWindow(w, cams, c, n, size)
  PROVE  IsWindow(w, Append(cams, d), c, n, size)
<1>1. \A m \in 1..n : Append(cams, d)[m] = cams[m]
  OBVIOUS
<1>2. Mine(Append(cams, d), c, n) = Mine(cams, c, n)
  BY <1>1 DEF Mine
<1> QED
  BY <1>2 DEF IsWindow

(* Another camera's observation leaves a window what it is.                 *)
LEMMA WindowOfOthers ==
  ASSUME NEW cams \in Seq(Cameras), NEW d \in Cameras, NEW w, NEW c, c # d, NEW size,
         IsWindow(w, cams, c, Len(cams), size)
  PROVE  IsWindow(w, Append(cams, d), c, Len(cams) + 1, size)
<1>0. Len(cams) \in Nat
  BY LenProperties
<1>1. (\A m \in 1..Len(cams) : Append(cams, d)[m] = cams[m]) /\ Append(cams, d)[Len(cams) + 1] = d
  BY <1>0
<1>2. Mine(Append(cams, d), c, Len(cams) + 1) = Mine(cams, c, Len(cams))
  BY <1>0, <1>1 DEF Mine
<1> QED
  BY <1>2 DEF IsWindow

(* The parts of a window, one by one.                                       *)
LEMMA WindowIs ==
  ASSUME NEW w, NEW cams, NEW c, NEW n \in Nat, NEW size, IsWindow(w, cams, c, n, size)
  PROVE  /\ w \in Seq(Nat) /\ Len(w) \in Nat /\ Len(w) <= size
         /\ \A i \in 1..Len(w) : w[i] \in Nat /\ w[i] <= n /\ w[i] \in Mine(cams, c, n)
<1>1. w \in Seq(Nat) /\ Len(w) \in Nat /\ Len(w) <= size
  BY LenProperties DEF IsWindow
<1>2. \A m \in Mine(cams, c, n) : m \in Nat /\ m <= n
  BY DEF Mine
<1> QED
  BY <1>1, <1>2 DEF IsWindow

(* The camera's own comes last, and the first makes room for it.            *)
LEMMA WindowMoves ==
  ASSUME NEW cams \in Seq(Cameras), NEW c \in Cameras, NEW w,
         IsWindow(w, cams, c, Len(cams), contextSize)
  PROVE  IsWindow(Kept(Append(w, Len(cams) + 1)), Append(cams, c), c, Len(cams) + 1, contextSize)
<1> DEFINE n == Len(cams) + 1
           before == Mine(cams, c, Len(cams))
           mine == Mine(Append(cams, c), c, n)
           v == Append(w, n)
<1>0. Len(cams) \in Nat /\ n \in Nat /\ contextSize \in Nat \ {0}
  BY LenProperties, JudgeAssumption
<1>1. (\A m \in 1..Len(cams) : Append(cams, c)[m] = cams[m]) /\ Append(cams, c)[n] = c
  BY <1>0
<1>2. mine = before \cup {n} /\ \A m \in before : m \in Nat /\ m < n
  BY <1>0, <1>1 DEF Mine
<1>3. w \in Seq(Nat) /\ Len(w) \in Nat /\ Len(w) <= contextSize
  BY <1>0, WindowIs
<1>4. \A i \in 1..Len(w) : w[i] \in before
  BY DEF IsWindow
<1>5. /\ v \in Seq(Nat) /\ Len(v) = Len(w) + 1
      /\ \A i \in 1..Len(w) : v[i] = w[i]
      /\ v[Len(w) + 1] = n
  <2> HIDE DEF n
  <2> QED
    BY <1>0, <1>3, AppendProperties
<1>w. \A i, k \in 1..Len(w) : i < k => w[i] < w[k]
  BY DEF IsWindow
<1>m. \A m \in before : (\E i \in 1..Len(w) : w[i] = m) \/ (Len(w) = contextSize /\ \A i \in 1..Len(w) : m < w[i])
  BY DEF IsWindow
<1> HIDE DEF n, mine, v, before
<1>6. ASSUME NEW i \in 1..Len(v) PROVE v[i] \in mine /\ v[i] \in Nat
  <2>1. CASE i \in 1..Len(w)
    BY <1>2, <1>4, <1>5, <2>1
  <2>2. CASE i = Len(w) + 1
    BY <1>0, <1>2, <1>5, <2>2
  <2> QED
    BY <1>3, <1>5, <2>1, <2>2
<1>7. ASSUME NEW i \in 1..Len(v), NEW k \in 1..Len(v), i < k PROVE v[i] < v[k]
  <2>1. i \in 1..Len(w) /\ v[i] = w[i] /\ v[i] < n
    <3>1. i \in 1..Len(w)
      BY <1>3, <1>5, <1>7
    <3> QED
      BY <1>2, <1>4, <1>5, <3>1
  <2>2. CASE k \in 1..Len(w)
    BY <1>w, <1>5, <1>7, <2>1, <2>2
  <2>3. CASE k = Len(w) + 1
    BY <1>5, <2>1, <2>3
  <2> QED
    BY <1>3, <1>5, <2>2, <2>3
<1>8. CASE Len(w) + 1 <= contextSize
  <2>1. ASSUME NEW m \in mine PROVE \E i \in 1..Len(v) : v[i] = m
    <3>1. CASE m = n
      BY <1>3, <1>5, <3>1
    <3>2. CASE m \in before
      <4>1. PICK i \in 1..Len(w) : w[i] = m
        BY <1>0, <1>3, <1>8, <1>m, <3>2
      <4>2. i \in 1..Len(v) /\ v[i] = m
        BY <1>3, <1>5, <4>1
      <4> QED
        BY <4>2
    <3> QED
      BY <1>2, <3>1, <3>2
  <2>2. ~(Len(v) > contextSize)
    BY <1>0, <1>3, <1>5, <1>8
  <2>3. Kept(v) = v /\ Len(v) <= contextSize
    BY <1>5, <1>8, <2>2 DEF Kept
  <2>4. IsWindow(v, Append(cams, c), c, n, contextSize)
    BY <1>5, <1>6, <1>7, <2>1, <2>3 DEF IsWindow, mine
  <2> QED
    BY <2>3, <2>4 DEF v, n
<1>9. CASE ~(Len(w) + 1 <= contextSize)
  <2> DEFINE t == Tail(v)
  <2>1. Len(w) = contextSize /\ Len(v) > contextSize
    BY <1>0, <1>3, <1>5, <1>9
  <2>2. Kept(v) = t
    BY <2>1 DEF Kept
  <2>3. t \in Seq(Nat) /\ Len(t) = contextSize /\ \A i \in 1..contextSize : t[i] = v[i + 1]
    BY <1>0, <1>5, <2>1
  <2> HIDE DEF t
  <2>4. \A i \in 1..contextSize : i + 1 \in 1..Len(v) /\ 1 \in 1..Len(v) /\ 1 < i + 1
    BY <1>0, <1>5, <2>1
  <2>5. \A i \in 1..Len(t) : t[i] \in mine /\ t[i] \in Nat /\ v[1] < t[i]
    BY <1>6, <1>7, <2>3, <2>4
  <2>6. ASSUME NEW i \in 1..Len(t), NEW k \in 1..Len(t), i < k PROVE t[i] < t[k]
    <3>1. i + 1 < k + 1
      BY <1>0, <2>3, <2>6
    <3> QED
      BY <1>7, <2>3, <2>4, <3>1
  <2>7. ASSUME NEW m \in mine PROVE (\E i \in 1..Len(t) : t[i] = m) \/ \A i \in 1..Len(t) : m < t[i]
    <3>1. ASSUME NEW i \in 1..Len(v), v[i] = m PROVE (\E k \in 1..Len(t) : t[k] = m) \/ \A k \in 1..Len(t) : m < t[k]
      <4>1. CASE i = 1
        BY <2>5, <3>1, <4>1
      <4>2. CASE i # 1
        <5>1. i - 1 \in 1..contextSize /\ (i - 1) + 1 = i
          BY <1>0, <1>5, <2>1, <4>2
        <5>2. t[i - 1] = m
          BY <2>3, <3>1, <5>1
        <5> QED
          BY <2>3, <5>1, <5>2
      <4> QED
        BY <4>1, <4>2
    <3>2. CASE m = n
      <4>1. Len(w) + 1 \in 1..Len(v)
        BY <1>3, <1>5
      <4> QED
        BY <1>5, <3>1, <3>2, <4>1
    <3>3. CASE m \in before /\ \E i \in 1..Len(w) : w[i] = m
      <4>1. PICK i \in 1..Len(w) : w[i] = m
        BY <3>3
      <4>2. i \in 1..Len(v) /\ v[i] = m
        BY <1>3, <1>5, <4>1
      <4> QED
        BY <3>1, <4>2
    <3>4. CASE m \in before /\ \A i \in 1..Len(w) : m < w[i]
      <4>1. 1 \in 1..Len(w) /\ v[1] = w[1] /\ m \in Nat /\ v[1] \in Nat
        BY <1>0, <1>2, <1>5, <1>6, <2>1, <3>4
      <4>2. m < v[1]
        BY <3>4, <4>1
      <4> QED
        BY <2>5, <4>1, <4>2
    <3> QED
      BY <1>2, <1>m, <3>2, <3>3, <3>4
  <2>8. IsWindow(t, Append(cams, c), c, n, contextSize)
    <3>1. Len(t) <= contextSize
      BY <1>0, <2>3
    <3> QED
      BY <2>3, <2>5, <2>6, <2>7, <3>1 DEF IsWindow, mine
  <2> QED
    BY <2>2, <2>8 DEF v, n
<1> QED
  BY <1>8, <1>9

(* A digest is a window too, of the last six at most.                       *)
LEMMA DigestIsWindow ==
  ASSUME NEW w, NEW cams, NEW c, NEW n \in Nat, IsWindow(w, cams, c, n, contextSize)
  PROVE  IsWindow(digest(w), cams, c, n, MostDigested)
<1>0. contextSize \in Nat /\ DIGESTED = 6
  BY JudgeAssumption DEF DIGESTED
<1>1. w \in Seq(Nat) /\ Len(w) \in Nat /\ Len(w) <= contextSize /\ \A i \in 1..Len(w) : w[i] \in Nat
  BY WindowIs
<1>w. \A i, k \in 1..Len(w) : i < k => w[i] < w[k]
  BY DEF IsWindow
<1>m. \A m \in Mine(cams, c, n) : (\E i \in 1..Len(w) : w[i] = m) \/ \A i \in 1..Len(w) : m < w[i]
  BY DEF IsWindow
<1>2. CASE Len(w) <= 6
  <2>1. digest(w) = w
    BY <1>0, <1>2 DEF digest
  <2>2. Len(w) <= MostDigested /\ (Len(w) = contextSize => Len(w) = MostDigested)
    <3>1. Len(w) \in Nat /\ Len(w) <= contextSize
      BY <1>1
    <3>2. CASE contextSize < 6
      BY <1>0, <3>1, <3>2 DEF MostDigested
    <3>3. CASE ~(contextSize < 6)
      <4>1. MostDigested = 6
        BY <1>0, <3>3 DEF MostDigested
      <4>2. Len(w) = contextSize => Len(w) = 6
        BY <1>0, <1>2, <3>1, <3>3
      <4> QED
        BY <1>2, <4>1, <4>2
    <3> QED
      BY <3>2, <3>3
  <2> QED
    BY <2>1, <2>2 DEF IsWindow
<1>3. CASE ~(Len(w) <= 6)
  <2> DEFINE a == Len(w) - 6 + 1
             t == SubSeq(w, a, Len(w))
  <2>1. digest(w) = t
    BY <1>0, <1>3 DEF digest
  <2>2. MostDigested = 6 /\ a \in 1..Len(w) /\ a \in Nat /\ Len(w) - a + 1 = 6
    BY <1>0, <1>1, <1>3 DEF MostDigested
  <2>3. t \in Seq(Nat) /\ Len(t) = 6 /\ \A i \in 1..6 : t[i] = w[a + i - 1]
    BY <1>1, <2>2, SubSeqProperties
  <2> HIDE DEF t, a
  <2>l. Len(w) \in Nat
    BY <1>1
  <2>4. \A i \in 1..6 : a + i - 1 \in 1..Len(w)
    BY <2>l, <2>2
  <2>a. \A i \in 1..Len(w) : i < a \/ (i - a + 1 \in 1..6 /\ a + (i - a + 1) - 1 = i)
    BY <2>l, <2>2
  <2>5. \A i \in 1..Len(t) : t[i] \in Mine(cams, c, n)
    BY <2>3, <2>4 DEF IsWindow
  <2>6. ASSUME NEW i \in 1..6, NEW k \in 1..6, i < k PROVE t[i] < t[k]
    <3>1. a + i - 1 < a + k - 1
      BY <2>2, <2>6
    <3> QED
      BY <1>w, <2>3, <2>4, <3>1
  <2>7. ASSUME NEW m \in Mine(cams, c, n) PROVE (\E i \in 1..6 : t[i] = m) \/ \A i \in 1..6 : m < t[i]
    <3>1. ASSUME NEW i \in 1..Len(w), w[i] = m, i < a PROVE \A k \in 1..6 : m < t[k]
      <4> TAKE k \in 1..6
      <4>1. i < a + k - 1
        BY <2>2, <3>1
      <4> QED
        BY <1>w, <2>3, <2>4, <3>1, <4>1
    <3>2. ASSUME NEW i \in 1..Len(w), w[i] = m, ~(i < a) PROVE \E k \in 1..6 : t[k] = m
      <4>1. i - a + 1 \in 1..6 /\ t[i - a + 1] = m
        BY <2>3, <2>a, <3>2
      <4> QED
        BY <4>1
    <3>3. CASE \A i \in 1..Len(w) : m < w[i]
      BY <2>3, <2>4, <3>3
    <3> QED
      BY <1>m, <3>1, <3>2, <3>3
  <2>8. IsWindow(t, cams, c, n, 6)
    BY <2>3, <2>5, <2>6, <2>7 DEF IsWindow
  <2> QED
    BY <2>1, <2>2, <2>8
<1> QED
  BY <1>2, <1>3

(* A stretch of a sequence without repetition has as many elements as places. *)
Stretch(w, p, q) == {w[i] : i \in (p + 1)..q}
LEMMA StretchCounts ==
  ASSUME NEW w, NEW p \in Nat, NEW q \in Nat, p <= q, \A i, k \in (p + 1)..q : w[i] = w[k] => i = k
  PROVE  Cardinality(Stretch(w, p, q)) = q - p
<1> DEFINE I == (p + 1)..q
           S == {w[i] : i \in I}
           f == [i \in I |-> w[i]]
<1>1. IsFiniteSet(I) /\ Cardinality(I) = q - p
  <2>1. p + 1 \in Int /\ q \in Int
    OBVIOUS
  <2>2. IsFiniteSet(I) /\ Cardinality(I) = IF p + 1 > q THEN 0 ELSE q - (p + 1) + 1
    BY <2>1, FS_Interval, Zenon
  <2> QED
    BY <2>2
<1>2. f \in [I -> S]
  OBVIOUS
<1>3. \A i, k \in I : f[i] = f[k] => i = k
  OBVIOUS
<1>4. \A m \in S : \E i \in I : f[i] = m
  OBVIOUS
<1> HIDE DEF f, I, S
<1>5. ExistsBijection(I, S)
  BY <1>2, <1>3, <1>4, Fun_IsBij DEF ExistsBijection
<1>6. IsFiniteSet(S) /\ Cardinality(S) = Cardinality(I)
  BY <1>1, <1>5, FS_Bijection
<1> QED
  BY <1>1, <1>6 DEF S, I, Stretch

(* Of a window as many are later than an element as stand behind it, and    *)
(* more than fit than one that is not in it.                                *)
LEMMA WindowMeans ==
  ASSUME NEW w, NEW cams, NEW c, NEW n \in Nat, NEW size \in Nat, IsWindow(w, cams, c, n, size), NEW x \in Mine(cams, c, n),
         NEW later, later = {m \in Mine(cams, c, n) : m > x}
  PROVE  Cardinality(later) \in Nat /\ ((\E i \in 1..Len(w) : w[i] = x) <=> Cardinality(later) < size)
<1> DEFINE mine == Mine(cams, c, n)
<1>1. w \in Seq(Nat) /\ Len(w) \in Nat /\ Len(w) <= size
  BY WindowIs
<1>2. mine \subseteq 1..n /\ \A m \in mine : m \in Nat
  BY DEF Mine
<1>w. \A i, k \in 1..Len(w) : i < k => w[i] < w[k]
  BY DEF IsWindow
<1>r. \A i \in 1..Len(w) : w[i] \in mine /\ w[i] \in Nat
  BY WindowIs
<1>m. \A m \in mine : (\E i \in 1..Len(w) : w[i] = m) \/ (Len(w) = size /\ \A i \in 1..Len(w) : m < w[i])
  BY DEF IsWindow
<1>3. IsFiniteSet(later) /\ Cardinality(later) \in Nat
  <2>1. IsFiniteSet(1..n) /\ later \subseteq 1..n
    BY <1>2, FS_Interval
  <2> QED
    BY <2>1, FS_Subset, FS_CardinalityType
<1>l. \A m : m \in later <=> m \in mine /\ m > x
  OBVIOUS
<1>x. x \in mine /\ x \in Nat
  BY <1>2
<1> HIDE DEF mine
<1>4. \A i, k \in 1..Len(w) : w[i] = w[k] => i = k
  <2> SUFFICES ASSUME NEW i \in 1..Len(w), NEW k \in 1..Len(w), i # k PROVE w[i] # w[k]
    OBVIOUS
  <2>1. CASE i < k
    BY <1>w, <1>r, <2>1
  <2>2. CASE k < i
    BY <1>w, <1>r, <2>2
  <2> QED
    BY <1>1, <2>1, <2>2
<1>5. ASSUME NEW p \in 1..Len(w), w[p] = x PROVE Cardinality(later) < size
  <2> DEFINE S == Stretch(w, p, Len(w))
  <2>0. \A m : m \in S <=> \E i \in (p + 1)..Len(w) : w[i] = m
    BY DEF Stretch
  <2>1. p \in Nat /\ p <= Len(w) /\ \A i \in (p + 1)..Len(w) : i \in 1..Len(w) /\ p < i
    BY <1>1
  <2>2. Cardinality(S) = Len(w) - p
    <3>1. \A i, k \in (p + 1)..Len(w) : w[i] = w[k] => i = k
      BY <1>4, <2>1
    <3>2. Len(w) \in Nat /\ p \in Nat /\ p <= Len(w)
      BY <1>1, <2>1
    <3> QED
      BY <3>1, <3>2, StretchCounts
  <2>3. \A i \in (p + 1)..Len(w) : w[i] \in later
    BY <1>5, <1>l, <1>r, <1>w, <2>1
  <2>4. ASSUME NEW m \in later PROVE \E i \in (p + 1)..Len(w) : w[i] = m
    <3>1. m \in mine /\ m > x /\ m \in Nat
      BY <1>2, <1>l DEF mine
    <3>2. PICK i \in 1..Len(w) : w[i] = m
      <4>1. ~(m < x)
        BY <1>x, <3>1
      <4> QED
        BY <1>5, <1>m, <3>1, <4>1
    <3>3. ~(i < p) /\ i # p
      BY <1>5, <1>w, <1>x, <3>1, <3>2
    <3>4. i \in (p + 1)..Len(w)
      BY <1>1, <3>3
    <3> QED
      BY <3>2, <3>4
  <2>5. later = S
    BY <2>0, <2>3, <2>4
  <2> HIDE DEF S
  <2>6. Len(w) - p < size
    BY <1>1, <2>1
  <2> QED
    BY <2>2, <2>5, <2>6
<1>6. ASSUME ~\E i \in 1..Len(w) : w[i] = x PROVE ~(Cardinality(later) < size)
  <2>1. Len(w) = size /\ \A i \in 1..Len(w) : x < w[i]
    BY <1>6, <1>m, <1>x
  <2>0. PICK p : p = 0
    OBVIOUS
  <2> DEFINE S == Stretch(w, p, Len(w))
  <2>2. \A i \in (p + 1)..Len(w) : w[i] \in later
    BY <1>l, <1>r, <2>0, <2>1
  <2>3. Cardinality(S) = Len(w)
    <3>1. \A i, k \in (p + 1)..Len(w) : w[i] = w[k] => i = k
      BY <1>4, <2>0
    <3>2. p \in Nat /\ Len(w) \in Nat /\ p <= Len(w)
      BY <1>1, <2>0
    <3>3. Cardinality(S) = Len(w) - p
      BY <3>1, <3>2, StretchCounts
    <3> QED
      BY <2>0, <3>2, <3>3
  <2>4. S \subseteq later
    BY <2>2 DEF Stretch
  <2> HIDE DEF S
  <2>5. Cardinality(S) <= Cardinality(later)
    BY <1>3, <2>4, FS_Subset
  <2> QED
    BY <1>1, <1>3, <2>1, <2>3, <2>5
<1> QED
  BY <1>3, <1>5, <1>6

-----------------------------------------------------------------------------
LEMMA JudgeStarts == JudgeInit => FeedsInv /\ IncidentsInv
<1> SUFFICES ASSUME JudgeInit PROVE FeedsInv /\ IncidentsInv
  OBVIOUS
<1>0. contextSize \in Nat \ {0} /\ clearAfterQuiet \in Nat
  BY JudgeAssumption
<1>1. FeedTypes /\ IncidentTypes
  <2>1. FeedTypes
    BY EmptySeq DEF JudgeInit, FeedTypes
  <2>2. openings \in Seq([key : KeysOf, quiet : Int]) /\ DOMAIN openIncidents = {}
    BY EmptySeq DEF JudgeInit
  <2>3. quietSince \in [KeysOf -> Int]
    <3>1. Unjudged \in Int
      BY DEF Unjudged
    <3> QED
      BY <3>1 DEF JudgeInit
  <2> QED
    BY <2>1, <2>2, <2>3 DEF JudgeInit, IncidentTypes
<1>2. AskedAlone /\ PublishedSoFar
  BY DEF JudgeInit, AskedAlone, PublishedSoFar
<1>3. WindowsKept
  <2> SUFFICES ASSUME NEW c \in Cameras PROVE IsWindow(<<>>, <<>>, c, 0, contextSize)
    BY DEF JudgeInit, WindowsKept
  <2>1. Mine(<<>>, c, 0) = {}
    BY DEF Mine
  <2>2. <<>> \in Seq(Nat) /\ Len(<<>>) = 0
    BY EmptySeq
  <2> QED
    BY <1>0, <2>1, <2>2 DEF IsWindow
<1>4. StreaksAreTrue /\ IntentsAreCounted /\ OneIntentPerIncident /\ OwnersAreTold
  BY DEF JudgeInit, StreaksAreTrue, IntentsAreCounted, OneIntentPerIncident, OwnersAreTold
<1> QED
  BY <1>1, <1>2, <1>3, <1>4 DEF FeedsInv, IncidentsInv

(* An observation goes into its camera's window, and changes no other.      *)
LEMMA ArrivalKeeps ==
  ASSUME FeedTypes, WindowsKept, NEW o, Arrives(o)
  PROVE  /\ o \in Sightings /\ o.camera \in Cameras /\ received' = received + 1 /\ received' \in Nat
         /\ cameraOf' = Append(cameraOf, o.camera) /\ cameraOf' \in Seq(Cameras) /\ Len(cameraOf') = received'
         /\ contexts' \in [Cameras -> Seq(Nat)] /\ WindowsKept'
<1> DEFINE me == o.camera
           w == contexts[o.camera]
<1>1. /\ o \in Sightings /\ me \in Cameras /\ received' = received + 1 /\ received' \in Nat
      /\ cameraOf' = Append(cameraOf, me) /\ contexts' = [contexts EXCEPT ![me] = Kept(Append(w, received + 1))]
  BY JudgeAssumption DEF Arrives, contextFor, FeedTypes, Sighting
<1>2. cameraOf \in Seq(Cameras) /\ Len(cameraOf) = received /\ received \in Nat /\ contexts \in [Cameras -> Seq(Nat)]
  BY DEF FeedTypes
<1> HIDE DEF me
<1>3. cameraOf' \in Seq(Cameras) /\ Len(cameraOf') = received'
  BY <1>1, <1>2, AppendProperties
<1>4. contexts'[me] = Kept(Append(w, received + 1)) /\ \A c \in Cameras : c # me => contexts'[c] = contexts[c]
  BY <1>1, <1>2
<1>5. IsWindow(contexts'[me], cameraOf', me, received', contextSize)
  <2>1. IsWindow(w, cameraOf, me, Len(cameraOf), contextSize)
    BY <1>1, <1>2 DEF WindowsKept, me
  <2> HIDE DEF w
  <2> QED
    BY <1>1, <1>2, <1>4, <2>1, WindowMoves
<1>6. ASSUME NEW c \in Cameras, c # me PROVE IsWindow(contexts'[c], cameraOf', c, received', contextSize)
  <2>1. IsWindow(contexts[c], cameraOf, c, Len(cameraOf), contextSize)
    BY <1>2 DEF WindowsKept
  <2> QED
    BY <1>1, <1>2, <1>4, <1>6, <2>1, WindowOfOthers
<1>7. WindowsKept'
  BY <1>1, <1>5, <1>6 DEF WindowsKept
<1>8. contexts' \in [Cameras -> Seq(Nat)]
  <2>1. contexts'[me] \in Seq(Nat)
    BY <1>5 DEF IsWindow
  <2> QED
    BY <1>1, <1>2, <1>4, <2>1
<1> QED
  BY <1>1, <1>3, <1>7, <1>8 DEF me

(* What waits for the model keeps its window, whatever arrives.             *)
LEMMA AwaitedStays ==
  ASSUME FeedTypes, NEW o, cameraOf' = Append(cameraOf, o.camera), received' = received + 1, NEW j, Awaited(j)
  PROVE  Awaited(j)'
<1>1. /\ cameraOf \in Seq(Cameras) /\ Len(cameraOf) = received /\ received \in Nat
      /\ j.n \in 1..received /\ j.n \in Nat /\ j.n <= Len(cameraOf)
  BY DEF FeedTypes, Awaited
<1>2. IsWindow(j.shown, cameraOf', j.obs.camera, j.n, MostDigested)
  <2>1. IsWindow(j.shown, cameraOf, j.obs.camera, j.n, MostDigested)
    BY DEF Awaited
  <2> QED
    BY <1>1, <2>1, WindowStays
<1>3. cameraOf'[j.n] = cameraOf[j.n] /\ j.n \in 1..received'
  BY <1>1, AppendProperties
<1> QED
  BY <1>2, <1>3 DEF Awaited

(* The topic gets the live observation in hand, and no other.               *)
LEMMA TopicGrows ==
  ASSUME NEW o, NEW n \in Nat, published \in Seq(Nat), Publish(o, n)
  PROVE  /\ published' \in Seq(Nat)
         /\ o.camera # LIVE_CAMERA => published' = published
         /\ o.camera = LIVE_CAMERA =>
              /\ DOMAIN published' = 1..(Len(published) + 1) /\ Len(published) \in Nat /\ DOMAIN published = 1..Len(published)
              /\ published'[Len(published) + 1] = n /\ \A i \in DOMAIN published : published'[i] = published[i]
BY AppendProperties, LenProperties DEF Publish

LEMMA PublishedNext ==
  ASSUME published \in Seq(Nat), NEW o, NEW n \in Nat, Publish(o, n), n \notin Topic,
         \A i, j \in DOMAIN published : published[i] = published[j] => i = j
  PROVE  /\ \A i, j \in DOMAIN published' : published'[i] = published'[j] => i = j
         /\ \A m : m \in Topic' <=> m \in Topic \/ (m = n /\ o.camera = LIVE_CAMERA)
<1>1. CASE o.camera # LIVE_CAMERA
  BY <1>1, TopicGrows DEF Topic
<1>2. CASE o.camera = LIVE_CAMERA
  <2> DEFINE L == Len(published)
  <2>1. DOMAIN published' = 1..(L + 1) /\ L \in Nat /\ DOMAIN published = 1..L
    BY <1>2, TopicGrows
  <2>2. published'[L + 1] = n /\ \A i \in 1..L : published'[i] = published[i] /\ published[i] # n
    BY <1>2, <2>1, TopicGrows DEF Topic
  <2> HIDE DEF L
  <2>3. ASSUME NEW i \in 1..(L + 1), NEW j \in 1..(L + 1), published'[i] = published'[j] PROVE i = j
    <3>1. CASE i \in 1..L /\ j \in 1..L
      BY <2>1, <2>2, <2>3, <3>1
    <3>2. CASE i = L + 1 \/ j = L + 1
      <4>1. \A k \in 1..(L + 1) : k # L + 1 => k \in 1..L
        BY <2>1
      <4> QED
        BY <2>2, <2>3, <3>2, <4>1
    <3> QED
      BY <2>1, <3>1, <3>2
  <2>4. ASSUME NEW m PROVE m \in Topic' <=> m \in Topic \/ m = n
    <3>1. ASSUME m \in Topic' PROVE m \in Topic \/ m = n
      <4>1. PICK i \in 1..(L + 1) : published'[i] = m
        BY <2>1, <3>1 DEF Topic
      <4>2. i = L + 1 \/ i \in 1..L
        BY <2>1
      <4> QED
        BY <2>1, <2>2, <4>1, <4>2 DEF Topic
    <3>2. ASSUME m \in Topic PROVE m \in Topic'
      <4>1. PICK i \in 1..L : published[i] = m
        BY <2>1, <3>2 DEF Topic
      <4>2. i \in 1..(L + 1)
        BY <2>1
      <4> QED
        BY <2>1, <2>2, <4>1, <4>2 DEF Topic
    <3>3. n \in Topic'
      <4>1. L + 1 \in 1..(L + 1)
        BY <2>1
      <4> QED
        BY <2>1, <2>2, <4>1 DEF Topic
    <3> QED
      BY <3>1, <3>2, <3>3
  <2> QED
    BY <1>2, <2>1, <2>3, <2>4
<1> QED
  BY <1>1, <1>2

(* An observation that is settled at once.                                  *)
LEMMA SettledAtOnce ==
  ASSUME FeedsInv, NEW o, Arrives(o), UNCHANGED <<judging, inFlightNow>>, Publish(o, received')
  PROVE  FeedsInv'
<1>1. /\ o.camera \in Cameras /\ received' = received + 1 /\ received' \in Nat /\ received \in Nat
      /\ cameraOf' = Append(cameraOf, o.camera) /\ cameraOf' \in Seq(Cameras) /\ Len(cameraOf') = received'
      /\ contexts' \in [Cameras -> Seq(Nat)] /\ WindowsKept'
  BY ArrivalKeeps DEF FeedsInv, FeedTypes
<1>2. cameraOf'[received'] = o.camera /\ \A n \in 1..received : cameraOf'[n] = cameraOf[n]
  <2>1. cameraOf \in Seq(Cameras) /\ Len(cameraOf) = received
    BY DEF FeedsInv, FeedTypes
  <2> QED
    BY <1>1, <2>1, AppendProperties
<1>3. AskedAlone'
  <2>1. \A j : Awaited(j) => Awaited(j)'
    BY <1>1, AwaitedStays DEF FeedsInv
  <2> QED
    BY <2>1 DEF FeedsInv, AskedAlone
<1>4. \A j \in judging : j.n \in 1..received
  BY DEF FeedsInv, AskedAlone, Awaited
<1>5. received' \notin Topic
  BY <1>1 DEF FeedsInv, PublishedSoFar, Topic
<1>6. /\ \A i, j \in DOMAIN published' : published'[i] = published'[j] => i = j
      /\ \A m : m \in Topic' <=> m \in Topic \/ (m = received' /\ o.camera = LIVE_CAMERA)
  BY <1>1, <1>5, PublishedNext DEF FeedsInv, FeedTypes, PublishedSoFar
<1>7. published' \in Seq(Nat)
  BY <1>1, TopicGrows DEF FeedsInv, FeedTypes
<1>8. PublishedSoFar'
  <2>1. \A m : m \in Topic => m \in 1..received
    BY DEF FeedsInv, PublishedSoFar, Topic
  <2>2. \A i \in DOMAIN published' : published'[i] \in 1..received'
    <3> SUFFICES ASSUME NEW i \in DOMAIN published' PROVE published'[i] \in 1..received'
      OBVIOUS
    <3>1. published'[i] \in Topic'
      BY DEF Topic
    <3> QED
      BY <1>1, <1>6, <2>1, <3>1
  <2>3. ASSUME NEW n \in 1..received' PROVE n \in Topic' <=> cameraOf'[n] = LIVE_CAMERA /\ \A j \in judging' : j.n # n
    <3>1. CASE n = received'
      <4>1. n \notin Topic /\ \A j \in judging' : j.n # n
        BY <1>1, <1>4, <1>5, <3>1
      <4> QED
        BY <1>2, <1>6, <3>1, <4>1
    <3>2. CASE n \in 1..received
      <4>1. n # received' /\ cameraOf'[n] = cameraOf[n]
        BY <1>1, <1>2, <3>2
      <4> QED
        BY <1>6, <3>2, <4>1 DEF FeedsInv, PublishedSoFar
    <3> QED
      BY <1>1, <3>1, <3>2
  <2> QED
    BY <1>6, <2>2, <2>3 DEF PublishedSoFar
<1> QED
  BY <1>1, <1>3, <1>7, <1>8 DEF FeedsInv, FeedTypes

(* A candidate that the model is asked about.                               *)
LEMMA AskingKeeps ==
  ASSUME FeedsInv, NEW o, Begin(o)
  PROVE  FeedsInv'
<1>j. PICK j : j = [n |-> received', obs |-> o, shown |-> digest(contexts'[o.camera])]
  OBVIOUS
<1>0. Arrives(o) /\ ~inFlightNow /\ judging = {} /\ inFlightNow' = TRUE /\ judging' = {j} /\ published' = published
  BY <1>j DEF Begin, FeedsInv, AskedAlone, contextFor, Ask
<1>1. /\ o \in Sightings /\ o.camera \in Cameras /\ received' = received + 1 /\ received' \in Nat /\ received \in Nat
      /\ cameraOf' = Append(cameraOf, o.camera) /\ cameraOf' \in Seq(Cameras) /\ Len(cameraOf') = received'
      /\ contexts' \in [Cameras -> Seq(Nat)] /\ WindowsKept'
  BY <1>0, ArrivalKeeps DEF FeedsInv, FeedTypes
<1>2. cameraOf'[received'] = o.camera /\ \A n \in 1..received : cameraOf'[n] = cameraOf[n]
  <2>1. cameraOf \in Seq(Cameras) /\ Len(cameraOf) = received
    BY DEF FeedsInv, FeedTypes
  <2> QED
    BY <1>1, <2>1, AppendProperties
<1>3. j.n = received' /\ j.obs = o /\ j.shown = digest(contexts'[o.camera])
  BY <1>j
<1>4. Awaited(j)'
  <2>1. IsWindow(digest(contexts'[o.camera]), cameraOf', o.camera, received', MostDigested)
    <3>1. IsWindow(contexts'[o.camera], cameraOf', o.camera, received', contextSize)
      BY <1>1 DEF WindowsKept
    <3> QED
      BY <1>1, <3>1, DigestIsWindow
  <2>2. received' \in 1..received'
    BY <1>1
  <2> QED
    BY <1>1, <1>2, <1>3, <2>1, <2>2 DEF Awaited
<1>5. AskedAlone'
  <2>1. \E i : judging' = {i} /\ Awaited(i)'
    BY <1>0, <1>4
  <2> QED
    BY <1>0, <2>1 DEF AskedAlone
<1>6. PublishedSoFar'
  <2>1. ASSUME NEW n \in 1..received' PROVE n \in Topic' <=> cameraOf'[n] = LIVE_CAMERA /\ \A i \in judging' : i.n # n
    <3>0. n \in Topic' <=> n \in Topic
      BY <1>0 DEF Topic
    <3>1. CASE n = received'
      <4>1. n \notin Topic
        BY <1>1, <3>1 DEF FeedsInv, PublishedSoFar, Topic
      <4> QED
        BY <1>0, <1>3, <3>0, <3>1, <4>1
    <3>2. CASE n \in 1..received
      <4>1. n # received' /\ cameraOf'[n] = cameraOf[n]
        BY <1>1, <1>2, <3>2
      <4>2. n \in Topic <=> cameraOf[n] = LIVE_CAMERA
        BY <1>0, <3>2 DEF FeedsInv, PublishedSoFar
      <4> QED
        BY <1>0, <1>3, <3>0, <4>1, <4>2
    <3> QED
      BY <1>1, <3>1, <3>2
  <2>2. \A i \in DOMAIN published : published[i] \in 1..received'
    BY <1>1 DEF FeedsInv, PublishedSoFar
  <2> QED
    BY <1>0, <2>1, <2>2 DEF FeedsInv, PublishedSoFar
<1> QED
  BY <1>0, <1>1, <1>5, <1>6 DEF FeedsInv, FeedTypes

(* The answer, or none: nothing waits any more, and the verdict goes out.   *)
LEMMA VerdictKeeps ==
  ASSUME FeedsInv, NEW j \in judging, judging' = judging \ {j}, inFlightNow' = FALSE, Publish(j.obs, j.n), UNCHANGED arrivals
  PROVE  FeedsInv'
<1>1. judging = {j} /\ judging' = {} /\ Awaited(j)
  BY DEF FeedsInv, AskedAlone
<1>2. j.n \in 1..received /\ j.n \in Nat /\ j.obs.camera = cameraOf[j.n]
  BY <1>1 DEF Awaited, FeedsInv, FeedTypes
<1>3. j.n \notin Topic
  BY <1>1, <1>2 DEF FeedsInv, PublishedSoFar
<1>4. /\ \A i, k \in DOMAIN published' : published'[i] = published'[k] => i = k
      /\ \A m : m \in Topic' <=> m \in Topic \/ (m = j.n /\ j.obs.camera = LIVE_CAMERA)
  BY <1>2, <1>3, PublishedNext DEF FeedsInv, FeedTypes, PublishedSoFar
<1>5. published' \in Seq(Nat)
  BY <1>2, TopicGrows DEF FeedsInv, FeedTypes
<1>6. UNCHANGED <<received, contexts, cameraOf>>
  BY DEF arrivals
<1>7. PublishedSoFar'
  <2>1. \A m : m \in Topic => m \in 1..received
    BY DEF FeedsInv, PublishedSoFar, Topic
  <2>2. ASSUME NEW i \in DOMAIN published' PROVE published'[i] \in 1..received'
    <3>1. published'[i] \in Topic'
      BY DEF Topic
    <3> QED
      BY <1>2, <1>4, <1>6, <2>1, <3>1
  <2>3. ASSUME NEW n \in 1..received PROVE n \in Topic' <=> cameraOf[n] = LIVE_CAMERA
    <3>1. CASE n = j.n
      BY <1>2, <1>3, <1>4, <3>1
    <3>2. CASE n # j.n
      BY <1>1, <1>4, <3>2 DEF FeedsInv, PublishedSoFar
    <3> QED
      BY <3>1, <3>2
  <2> QED
    BY <1>1, <1>4, <1>6, <2>2, <2>3 DEF PublishedSoFar
<1>8. AskedAlone' /\ WindowsKept'
  BY <1>1, <1>6 DEF FeedsInv, AskedAlone, WindowsKept
<1> QED
  BY <1>5, <1>6, <1>7, <1>8 DEF FeedsInv, FeedTypes

-----------------------------------------------------------------------------
(* Quiet observations: the incidents of the camera age, the old ones close. *)
LEMMA QuietKeeps ==
  ASSUME IncidentsInv, NEW o, Nominal(o)
  PROVE  IncidentsInv'
<1> DEFINE f == Counted(o)
<1>1. /\ openIncidents' = [k \in Uncleared(f) |-> f[k]] /\ UNCHANGED <<intentCount, routes, openings>>
      /\ quietSince' = [k \in KeysOf |-> IF Of(o, k) /\ quietSince[k] # Unjudged THEN quietSince[k] + 1 ELSE quietSince[k]]
  BY DEF Nominal
<1>2. /\ IncidentTypes /\ clearAfterQuiet \in Nat \ {0} /\ Unjudged = -1
      /\ \A k \in DOMAIN openIncidents : k \in KeysOf /\ openIncidents[k].quietStreak \in Nat
  BY JudgeAssumption DEF IncidentsInv, IncidentTypes, Unjudged
<1>3. DOMAIN f = DOMAIN openIncidents
  BY DEF Counted
<1>4. \A k \in DOMAIN f :
        /\ f[k].intent = openIncidents[k].intent /\ f[k] \in [intent : Nat, occurrences : Nat, quietStreak : Nat]
        /\ f[k].quietStreak = IF Of(o, k) THEN openIncidents[k].quietStreak + 1 ELSE openIncidents[k].quietStreak
  <2> SUFFICES ASSUME NEW k \in DOMAIN openIncidents
               PROVE  /\ f[k].intent = openIncidents[k].intent /\ f[k] \in [intent : Nat, occurrences : Nat, quietStreak : Nat]
                      /\ f[k].quietStreak = IF Of(o, k) THEN openIncidents[k].quietStreak + 1 ELSE openIncidents[k].quietStreak
    BY <1>3
  <2>1. openIncidents[k] \in [intent : Nat, occurrences : Nat, quietStreak : Nat]
    BY <1>2 DEF IncidentTypes
  <2>2. f[k] = IF Of(o, k) THEN [openIncidents[k] EXCEPT !.quietStreak = @ + 1] ELSE openIncidents[k]
    BY DEF Counted
  <2> HIDE DEF f
  <2> QED
    BY <2>1, <2>2
<1> HIDE DEF f
<1>5. /\ DOMAIN openIncidents' = {k \in DOMAIN openIncidents : f[k].quietStreak < clearAfterQuiet}
      /\ \A k \in DOMAIN openIncidents' : openIncidents'[k] = f[k]
  BY <1>1, <1>3 DEF Uncleared
<1>6. StreaksAreTrue'
  <2> SUFFICES ASSUME NEW k \in KeysOf
               PROVE  IF k \in DOMAIN openIncidents' THEN openIncidents'[k].quietStreak = quietSince'[k]
                      ELSE quietSince'[k] = Unjudged \/ quietSince'[k] >= clearAfterQuiet
    BY DEF StreaksAreTrue
  <2>1. quietSince[k] \in Int /\ quietSince'[k] = IF Of(o, k) /\ quietSince[k] # Unjudged THEN quietSince[k] + 1 ELSE quietSince[k]
    BY <1>1, <1>2 DEF IncidentTypes
  <2>2. CASE k \in DOMAIN openIncidents
    <3>1. openIncidents[k].quietStreak = quietSince[k] /\ quietSince[k] \in Nat
      BY <1>2, <2>2 DEF IncidentsInv, StreaksAreTrue
    <3>2. f[k].quietStreak = quietSince'[k] /\ quietSince'[k] \in Nat
      BY <1>2, <1>3, <1>4, <2>1, <2>2, <3>1
    <3> QED
      BY <1>2, <1>5, <2>2, <3>2
  <2>3. CASE k \notin DOMAIN openIncidents
    <3>1. quietSince[k] = Unjudged \/ quietSince[k] >= clearAfterQuiet
      BY <2>3 DEF IncidentsInv, StreaksAreTrue
    <3>2. k \notin DOMAIN openIncidents'
      BY <1>5, <2>3
    <3> QED
      BY <1>2, <2>1, <3>1, <3>2
  <2> QED
    BY <2>2, <2>3
<1>7. quietSince' \in [KeysOf -> Int]
  <2> SUFFICES ASSUME NEW k \in KeysOf PROVE (IF Of(o, k) /\ quietSince[k] # Unjudged THEN quietSince[k] + 1 ELSE quietSince[k]) \in Int
    BY <1>1
  <2> QED
    BY <1>2 DEF IncidentTypes
<1>8. IncidentTypes'
  BY <1>1, <1>2, <1>3, <1>4, <1>5, <1>7 DEF IncidentTypes
<1>9. IntentsAreCounted' /\ OneIntentPerIncident' /\ OwnersAreTold'
  BY <1>1, <1>3, <1>4, <1>5 DEF IncidentsInv, IntentsAreCounted, OneIntentPerIncident, OwnersAreTold
<1> QED
  BY <1>6, <1>8, <1>9 DEF IncidentsInv

(* A verdict: the incident that is open goes on, or a new one is opened     *)
(* with an intent of its own, and its owner is told.                        *)
LEMMA SettleKeeps ==
  ASSUME IncidentsInv, NEW o, o.camera \in Cameras, NEW t \in INCIDENT_TYPES \cup {"none"}, Settle(o, t)
  PROVE  IncidentsInv'
<1> DEFINE k == <<o.camera, t>>
<1>0. /\ IncidentTypes /\ StreaksAreTrue /\ IntentsAreCounted /\ OneIntentPerIncident /\ OwnersAreTold /\ intentCount \in Nat
      /\ clearAfterQuiet \in Nat \ {0} /\ Unjudged = -1
  BY JudgeAssumption DEF IncidentsInv, IncidentTypes, Unjudged
<1>1. CASE t = "none"
  <2>1. UNCHANGED <<openIncidents, intentCount, routes, quietSince, openings>>
    BY <1>1 DEF Settle
  <2> QED
    BY <2>1 DEF IncidentsInv, IncidentTypes, StreaksAreTrue, IntentsAreCounted, OneIntentPerIncident, OwnersAreTold
<1>2. CASE t # "none"
  <2>k. k \in KeysOf /\ k[2] = t
    BY <1>2 DEF KeysOf
  <2>q. quietSince' = [quietSince EXCEPT ![k] = 0]
    BY <1>2 DEF Settle
  <2> HIDE DEF k
  <2>t. quietSince' \in [KeysOf -> Int] /\ quietSince'[k] = 0 /\ \A j \in KeysOf : j # k => quietSince'[j] = quietSince[j]
    BY <1>0, <2>k, <2>q DEF IncidentTypes
  <2>1. CASE k \in DOMAIN openIncidents
    <3>1. /\ openIncidents' = [openIncidents EXCEPT ![k].occurrences = @ + 1, ![k].quietStreak = 0]
          /\ routes \subseteq routes' /\ UNCHANGED <<intentCount, openings>>
      BY <1>2, <2>1 DEF Settle, k
    <3>2. openIncidents[k] \in [intent : Nat, occurrences : Nat, quietStreak : Nat]
      BY <1>0, <2>1 DEF IncidentTypes
    <3>3. /\ DOMAIN openIncidents' = DOMAIN openIncidents
          /\ \A j \in DOMAIN openIncidents : j # k => openIncidents'[j] = openIncidents[j]
          /\ openIncidents'[k] \in [intent : Nat, occurrences : Nat, quietStreak : Nat]
          /\ openIncidents'[k].intent = openIncidents[k].intent /\ openIncidents'[k].quietStreak = 0
      <4> DEFINE g == [openIncidents EXCEPT ![k].occurrences = @ + 1]
      <4>1. openIncidents' = [g EXCEPT ![k].quietStreak = 0]
        BY <3>1
      <4>2. /\ DOMAIN g = DOMAIN openIncidents
            /\ \A j \in DOMAIN openIncidents : j # k => g[j] = openIncidents[j]
            /\ g[k] = [openIncidents[k] EXCEPT !.occurrences = @ + 1]
        BY <2>1
      <4>3. g[k] \in [intent : Nat, occurrences : Nat, quietStreak : Nat] /\ g[k].intent = openIncidents[k].intent
        BY <3>2, <4>2
      <4> HIDE DEF g
      <4>4. /\ DOMAIN openIncidents' = DOMAIN g
            /\ \A j \in DOMAIN g : j # k => openIncidents'[j] = g[j]
            /\ openIncidents'[k] = [g[k] EXCEPT !.quietStreak = 0]
        BY <2>1, <4>1, <4>2
      <4>5. /\ openIncidents'[k] \in [intent : Nat, occurrences : Nat, quietStreak : Nat]
            /\ openIncidents'[k].intent = g[k].intent /\ openIncidents'[k].quietStreak = 0
        BY <4>3, <4>4
      <4> QED
        BY <4>2, <4>3, <4>4, <4>5
    <3>4. IncidentTypes'
      BY <1>0, <2>t, <3>1, <3>3 DEF IncidentTypes
    <3>5. StreaksAreTrue'
      BY <1>0, <2>1, <2>t, <3>3 DEF StreaksAreTrue
    <3>6. IntentsAreCounted' /\ OneIntentPerIncident'
      BY <1>0, <3>1, <3>3 DEF IntentsAreCounted, OneIntentPerIncident
    <3>7. OwnersAreTold'
      BY <1>0, <3>1, <3>3 DEF OwnersAreTold
    <3> QED
      BY <3>4, <3>5, <3>6, <3>7 DEF IncidentsInv
  <2>2. CASE k \notin DOMAIN openIncidents
    <3>1. /\ intentCount' = intentCount + 1 /\ openings' = Append(openings, [key |-> k, quiet |-> quietSince[k]])
          /\ openIncidents' = [j \in DOMAIN openIncidents \cup {k} |->
               IF j = k THEN [intent |-> intentCount', occurrences |-> 1, quietStreak |-> 0] ELSE openIncidents[j]]
          /\ routes' = routes \cup {<<intentCount', Owner(o, t)>>}
      BY <1>2, <2>2 DEF Settle, k
    <3>2. /\ DOMAIN openIncidents' = DOMAIN openIncidents \cup {k}
          /\ openIncidents'[k] = [intent |-> intentCount', occurrences |-> 1, quietStreak |-> 0]
          /\ \A j \in DOMAIN openIncidents : openIncidents'[j] = openIncidents[j]
      BY <2>2, <3>1
    <3>3. intentCount' \in Nat /\ intentCount < intentCount'
      BY <1>0, <3>1
    <3>4. /\ openIncidents'[k] \in [intent : Nat, occurrences : Nat, quietStreak : Nat]
          /\ openIncidents'[k].intent = intentCount' /\ openIncidents'[k].quietStreak = 0
      BY <3>2, <3>3
    <3>5. openings' \in Seq([key : KeysOf, quiet : Int]) /\ OneIntentPerIncident'
      <4> DEFINE new == [key |-> k, quiet |-> quietSince[k]]
      <4>1. new \in [key : KeysOf, quiet : Int] /\ new.quiet = quietSince[k]
        BY <1>0, <2>k DEF IncidentTypes
      <4>2. openings \in Seq([key : KeysOf, quiet : Int]) /\ openings' = Append(openings, new)
        BY <1>0, <3>1 DEF IncidentTypes
      <4> HIDE DEF new
      <4>3. /\ openings' \in Seq([key : KeysOf, quiet : Int]) /\ Len(openings) \in Nat /\ DOMAIN openings = 1..Len(openings)
            /\ DOMAIN openings' = 1..(Len(openings) + 1) /\ openings'[Len(openings) + 1] = new
            /\ \A i \in 1..Len(openings) : openings'[i] = openings[i]
        BY <4>1, <4>2, AppendProperties, LenProperties
      <4>4. new.quiet = Unjudged \/ new.quiet >= clearAfterQuiet
        BY <1>0, <2>2, <2>k, <4>1 DEF StreaksAreTrue
      <4>5. ASSUME NEW n \in DOMAIN openings' PROVE openings'[n].quiet = Unjudged \/ openings'[n].quiet >= clearAfterQuiet
        <5>1. CASE n = Len(openings) + 1
          BY <4>3, <4>4, <5>1
        <5>2. CASE n \in DOMAIN openings
          BY <1>0, <4>3, <5>2 DEF OneIntentPerIncident
        <5> QED
          BY <4>3, <5>1, <5>2
      <4> QED
        BY <4>3, <4>5 DEF OneIntentPerIncident
    <3>6. IncidentTypes'
      BY <1>0, <2>k, <2>t, <3>2, <3>3, <3>4, <3>5 DEF IncidentTypes
    <3>7. StreaksAreTrue'
      BY <1>0, <2>k, <2>t, <3>2, <3>4 DEF StreaksAreTrue
    <3>8. \A j \in DOMAIN openIncidents : openIncidents'[j].intent <= intentCount /\ openIncidents'[j].intent \in Nat
      BY <1>0, <3>2 DEF IncidentTypes, IntentsAreCounted
    <3>9. IntentsAreCounted'
      BY <1>0, <3>2, <3>3, <3>4, <3>8 DEF IntentsAreCounted
    <3>10. OwnersAreTold'
      <4>1. \A j \in DOMAIN openIncidents : openIncidents'[j].intent # intentCount'
        BY <1>0, <3>3, <3>8
      <4>2. <<intentCount', L1_BY_INCIDENT[k[2]]>> \in routes'
        BY <2>k, <3>1 DEF Owner
      <4>3. routes \subseteq routes'
        BY <3>1
      <4> QED
        BY <1>0, <3>2, <3>4, <4>1, <4>2, <4>3 DEF OwnersAreTold
    <3> QED
      BY <3>5, <3>6, <3>7, <3>9, <3>10 DEF IncidentsInv
  <2> QED
    BY <2>1, <2>2
<1> QED
  BY <1>1, <1>2

LEMMA JudgeStep ==
  ASSUME FeedsInv, IncidentsInv, JudgeNext
  PROVE  FeedsInv' /\ IncidentsInv'
<1>t. JudgedTypes \subseteq INCIDENT_TYPES
  BY JudgeAssumption
<1>d. \A o : degradedVerdict(o) \in INCIDENT_TYPES \cup {"none"}
  BY DEF degradedVerdict, INCIDENT_TYPES
<1>s. \A o \in Sightings : o.camera \in Cameras /\ o.hit \in INCIDENT_TYPES \cup {"none"}
  BY JudgeAssumption DEF Sighting
<1>1. ASSUME NEW j \in judging, NEW t \in INCIDENT_TYPES \cup {"none"}, judging' = judging \ {j}, inFlightNow' = FALSE,
             Settle(j.obs, t), Publish(j.obs, j.n), UNCHANGED arrivals
      PROVE  FeedsInv' /\ IncidentsInv'
  <2>1. j.obs.camera \in Cameras
    BY <1>s DEF FeedsInv, AskedAlone, Awaited
  <2> QED
    BY <1>1, <2>1, VerdictKeeps, SettleKeeps
<1>2. CASE Answer
  <2>1. CASE InferenceFails
    BY <1>1, <1>d, <2>1 DEF InferenceFails, Release
  <2>2. ASSUME NEW t \in JudgedTypes \cup {"none"}, Judged(t) PROVE FeedsInv' /\ IncidentsInv'
    BY <1>1, <1>t, <2>2 DEF Judged, Release
  <2> QED
    BY <1>2, <2>1, <2>2 DEF Answer
<1>3. ASSUME NEW o \in Sightings, Observe(o) PROVE FeedsInv' /\ IncidentsInv'
  <2>1. CASE Nominal(o)
    <3>1. FeedsInv'
      BY <2>1, SettledAtOnce DEF Nominal
    <3> QED
      BY <2>1, <3>1, QuietKeeps
  <2>2. CASE SkippedBusy(o)
    <3>1. FeedsInv'
      BY <2>2, SettledAtOnce DEF SkippedBusy
    <3>2. UNCHANGED <<openIncidents, intentCount, routes, quietSince, openings>>
      BY <2>2 DEF SkippedBusy
    <3> QED
      BY <3>1, <3>2 DEF IncidentsInv, IncidentTypes, StreaksAreTrue, IntentsAreCounted, OneIntentPerIncident, OwnersAreTold
  <2>3. CASE TriggerMatched(o)
    <3>1. FeedsInv'
      BY <2>3, SettledAtOnce DEF TriggerMatched
    <3> QED
      BY <1>s, <2>3, <3>1, SettleKeeps DEF TriggerMatched
  <2>4. CASE Degraded(o)
    <3>1. FeedsInv'
      BY <2>4, SettledAtOnce DEF Degraded
    <3> QED
      BY <1>s, <1>d, <2>4, <3>1, SettleKeeps DEF Degraded
  <2>5. CASE Begin(o)
    <3>1. FeedsInv'
      BY <2>5, AskingKeeps
    <3>2. UNCHANGED <<openIncidents, intentCount, routes, quietSince, openings>>
      BY <2>5 DEF Begin
    <3> QED
      BY <3>1, <3>2 DEF IncidentsInv, IncidentTypes, StreaksAreTrue, IntentsAreCounted, OneIntentPerIncident, OwnersAreTold
  <2> QED
    BY <1>3, <2>1, <2>2, <2>3, <2>4, <2>5 DEF Observe
<1> QED
  BY <1>2, <1>3 DEF JudgeNext

(* The windows of the invariant are the windows of the property.            *)
LEMMA WindowGiven == ASSUME FeedsInv PROVE WindowIsOfItsCamera
<1> SUFFICES ASSUME NEW j \in judging
             PROVE  LET mine == {n \in 1..j.n : cameraOf[n] = j.obs.camera}
                        later(n) == {m \in mine : m > n} IN
                      /\ {j.shown[i] : i \in DOMAIN j.shown} =
                           {n \in mine : Cardinality(later(n)) < contextSize /\ Cardinality(later(n)) < DIGESTED}
                      /\ \A i, k \in DOMAIN j.shown : i < k => j.shown[i] < j.shown[k]
  BY DEF WindowIsOfItsCamera
<1> DEFINE mine == {n \in 1..j.n : cameraOf[n] = j.obs.camera}
           later(n) == {m \in mine : m > n}
           size == MostDigested
<1>1. Awaited(j) /\ received \in Nat /\ contextSize \in Nat /\ DIGESTED = 6
  BY JudgeAssumption DEF FeedsInv, FeedTypes, AskedAlone, DIGESTED
<1>2. IsWindow(j.shown, cameraOf, j.obs.camera, j.n, size) /\ j.n \in Nat /\ mine = Mine(cameraOf, j.obs.camera, j.n)
  BY <1>1 DEF Awaited, Mine
<1>3. size \in Nat /\ \A x \in Nat : x < size <=> x < contextSize /\ x < DIGESTED
  BY <1>1 DEF MostDigested
<1>4. j.shown \in Seq(Nat) /\ DOMAIN j.shown = 1..Len(j.shown)
  BY <1>2, LenProperties DEF IsWindow
<1> HIDE DEF mine, size
<1>5. ASSUME NEW x \in mine
      PROVE  (\E i \in 1..Len(j.shown) : j.shown[i] = x) <=> Cardinality(later(x)) < contextSize /\ Cardinality(later(x)) < DIGESTED
  <2>1. PICK l : l = later(x)
    OBVIOUS
  <2> DEFINE w == j.shown
             camera == j.obs.camera
             n == j.n
  <2>a. IsWindow(w, cameraOf, camera, n, size) /\ n \in Nat /\ size \in Nat
    BY <1>2, <1>3
  <2>b. x \in Mine(cameraOf, camera, n) /\ l = {m \in Mine(cameraOf, camera, n) : m > x}
    BY <1>2, <2>1
  <2> HIDE DEF w, camera, n
  <2>c. Cardinality(l) \in Nat /\ ((\E i \in 1..Len(w) : w[i] = x) <=> Cardinality(l) < size)
    BY <2>a, <2>b, WindowMeans
  <2>2. Cardinality(l) \in Nat /\ ((\E i \in 1..Len(j.shown) : j.shown[i] = x) <=> Cardinality(l) < size)
    BY <2>c DEF w
  <2> QED
    BY <1>3, <2>1, <2>2
<1>6. \A i \in 1..Len(j.shown) : j.shown[i] \in mine
  BY <1>2 DEF IsWindow
<1>7. \A i, k \in 1..Len(j.shown) : i < k => j.shown[i] < j.shown[k]
  BY <1>2 DEF IsWindow
<1> HIDE DEF later
<1>8. {j.shown[i] : i \in 1..Len(j.shown)} = {n \in mine : Cardinality(later(n)) < contextSize /\ Cardinality(later(n)) < DIGESTED}
  BY <1>5, <1>6
<1> QED
  BY <1>4, <1>7, <1>8 DEF mine, later

(* The limits within the types of the judge: what waits for the model has   *)
(* neither an intent nor a place in the topic yet, and an incident that is  *)
(* open has not been quiet for long enough.                                 *)
Out == IF inFlightNow THEN 1 ELSE 0
StreakHolds(f, k) == f[k].intent >= 1 /\ f[k].quietStreak < clearAfterQuiet
JudgeLimits ==
  /\ received <= MaxObservations /\ intentCount + Out <= received /\ Len(published) + Out <= received
  /\ \A k \in DOMAIN openIncidents : StreakHolds(openIncidents, k)

(* A sequence is one of whatever set its elements are in.                   *)
LEMMA InSmaller ==
  ASSUME NEW S, NEW T, NEW w \in Seq(S), \A i \in 1..Len(w) : w[i] \in T
  PROVE  w \in Seq(T)
<1>1. Len(w) \in Nat /\ w = [i \in 1..Len(w) |-> w[i]]
  OBVIOUS
<1> QED
  BY <1>1

LEMMA LimitsStart == JudgeInit => JudgeLimits
<1> SUFFICES ASSUME JudgeInit PROVE JudgeLimits
  OBVIOUS
<1>1. Len(published) = 0 /\ Out = 0 /\ received = 0 /\ intentCount = 0 /\ MaxObservations \in Nat
  BY EmptySeq, JudgeAssumption DEF JudgeInit, Out
<1>2. DOMAIN openIncidents = {}
  BY DEF JudgeInit
<1> QED
  BY <1>1, <1>2 DEF JudgeLimits

(* One observation is one entry of the topic, at most.                      *)
LEMMA TopicByOne ==
  ASSUME published \in Seq(Nat), NEW o, NEW n \in Nat, Publish(o, n)
  PROVE  Len(published) \in Nat /\ Len(published') \in Nat /\ Len(published') <= Len(published) + 1
<1>1. Len(published) \in Nat
  BY LenProperties
<1>2. CASE published' = Append(published, n)
  <2>1. Len(published') = Len(published) + 1
    BY <1>2, AppendProperties
  <2> QED
    BY <1>1, <2>1
<1>3. CASE published' = published
  BY <1>1, <1>3
<1> QED
  BY <1>2, <1>3 DEF Publish

(* One verdict is one intent, at most, and its incident is not quiet.       *)
LEMMA SettlesByOne ==
  ASSUME IncidentsInv, NEW o, NEW t, Settle(o, t),
         \A k \in DOMAIN openIncidents : StreakHolds(openIncidents, k)
  PROVE  /\ intentCount \in Nat /\ intentCount' \in Nat /\ intentCount' <= intentCount + 1
         /\ \A k \in DOMAIN openIncidents' : StreakHolds(openIncidents', k)
<1> DEFINE k == <<o.camera, t>>
<1>0. intentCount \in Nat /\ clearAfterQuiet \in Nat /\ clearAfterQuiet > 0
  BY JudgeAssumption DEF IncidentsInv, IncidentTypes
<1>1. CASE t = "none"
  BY <1>0, <1>1 DEF Settle, StreakHolds
<1>2. CASE t # "none" /\ k \in DOMAIN openIncidents
  <2>1. openIncidents' = [openIncidents EXCEPT ![k].occurrences = @ + 1, ![k].quietStreak = 0] /\ intentCount' = intentCount
    BY <1>2 DEF Settle
  <2>2. openIncidents[k] \in [intent : Nat, occurrences : Nat, quietStreak : Nat]
    BY <1>2 DEF IncidentsInv, IncidentTypes
  <2> DEFINE g == [openIncidents EXCEPT ![k].occurrences = @ + 1]
  <2> HIDE DEF k
  <2>3. openIncidents' = [g EXCEPT ![k].quietStreak = 0]
    BY <2>1
  <2>4. /\ DOMAIN g = DOMAIN openIncidents
        /\ \A j \in DOMAIN openIncidents : j # k => g[j] = openIncidents[j]
        /\ g[k] = [openIncidents[k] EXCEPT !.occurrences = @ + 1]
    BY <1>2
  <2>5. g[k] \in [intent : Nat, occurrences : Nat, quietStreak : Nat] /\ g[k].intent = openIncidents[k].intent
    BY <2>2, <2>4
  <2> HIDE DEF g
  <2>6. /\ DOMAIN openIncidents' = DOMAIN openIncidents
        /\ \A j \in DOMAIN openIncidents : j # k => openIncidents'[j] = openIncidents[j]
        /\ openIncidents'[k] = [g[k] EXCEPT !.quietStreak = 0]
    BY <1>2, <2>3, <2>4
  <2>7. openIncidents'[k].intent = openIncidents[k].intent /\ openIncidents'[k].quietStreak = 0
    BY <2>5, <2>6
  <2>8. StreakHolds(openIncidents, k)
    BY <1>2
  <2>9. StreakHolds(openIncidents', k)
    BY <1>0, <2>7, <2>8 DEF StreakHolds
  <2>10. ASSUME NEW j \in DOMAIN openIncidents, j # k PROVE StreakHolds(openIncidents', j)
    BY <2>6, <2>10 DEF StreakHolds
  <2>11. \A j \in DOMAIN openIncidents' : StreakHolds(openIncidents', j)
    BY <2>6, <2>9, <2>10
  <2>12. intentCount' \in Nat /\ intentCount' <= intentCount + 1
    BY <1>0, <2>1
  <2> QED
    BY <1>0, <2>11, <2>12
<1>3. CASE t # "none" /\ k \notin DOMAIN openIncidents
  <2>1. /\ intentCount' = intentCount + 1
        /\ openIncidents' = [j \in DOMAIN openIncidents \cup {k} |->
             IF j = k THEN [intent |-> intentCount', occurrences |-> 1, quietStreak |-> 0] ELSE openIncidents[j]]
    BY <1>3 DEF Settle
  <2> HIDE DEF k
  <2>2. /\ DOMAIN openIncidents' = DOMAIN openIncidents \cup {k}
        /\ openIncidents'[k] = [intent |-> intentCount', occurrences |-> 1, quietStreak |-> 0]
        /\ \A j \in DOMAIN openIncidents : openIncidents'[j] = openIncidents[j]
    BY <1>3, <2>1
  <2>3. openIncidents'[k].intent = intentCount' /\ openIncidents'[k].quietStreak = 0
    BY <2>2
  <2>4. StreakHolds(openIncidents', k)
    BY <1>0, <2>1, <2>3 DEF StreakHolds
  <2>5. ASSUME NEW j \in DOMAIN openIncidents PROVE StreakHolds(openIncidents', j)
    BY <2>2 DEF StreakHolds
  <2> QED
    BY <1>0, <2>1, <2>2, <2>4, <2>5
<1> QED
  BY <1>1, <1>2, <1>3

(* A quiet observation closes what has been quiet for long enough.          *)
LEMMA QuietCloses ==
  ASSUME IncidentsInv, NEW o, Nominal(o),
         \A k \in DOMAIN openIncidents : StreakHolds(openIncidents, k)
  PROVE  \A k \in DOMAIN openIncidents' : StreakHolds(openIncidents', k)
<1> DEFINE f == Counted(o)
<1>1. openIncidents' = [k \in Uncleared(f) |-> f[k]]
  BY DEF Nominal
<1>2. DOMAIN f = DOMAIN openIncidents
  BY DEF Counted
<1>3. ASSUME NEW k \in DOMAIN openIncidents PROVE f[k].intent = openIncidents[k].intent
  <2>1. openIncidents[k] \in [intent : Nat, occurrences : Nat, quietStreak : Nat]
    BY DEF IncidentsInv, IncidentTypes
  <2>2. f[k] = IF Of(o, k) THEN [openIncidents[k] EXCEPT !.quietStreak = @ + 1] ELSE openIncidents[k]
    BY DEF Counted
  <2> HIDE DEF f
  <2> QED
    BY <2>1, <2>2
<1> HIDE DEF f
<1>4. ASSUME NEW k \in DOMAIN openIncidents' PROVE StreakHolds(openIncidents', k)
  <2>1. k \in DOMAIN openIncidents /\ f[k].quietStreak < clearAfterQuiet /\ openIncidents'[k] = f[k]
    BY <1>1, <1>2, <1>4 DEF Uncleared
  <2> QED
    BY <1>3, <2>1 DEF StreakHolds
<1> QED
  BY <1>4

LEMMA LimitsKept ==
  ASSUME FeedsInv, IncidentsInv, JudgeLimits, JudgeNext
  PROVE  JudgeLimits'
<1>0. /\ received \in Nat /\ inFlightNow \in BOOLEAN /\ published \in Seq(Nat) /\ intentCount \in Nat
      /\ Len(published) \in Nat /\ MaxObservations \in Nat
  BY LenProperties, JudgeAssumption DEF FeedsInv, FeedTypes, IncidentsInv, IncidentTypes
<1>1. received <= MaxObservations /\ intentCount + Out <= received /\ Len(published) + Out <= received
  BY DEF JudgeLimits
<1>5. \A k \in DOMAIN openIncidents : StreakHolds(openIncidents, k)
  BY DEF JudgeLimits
<1>6. ASSUME NEW q \in Nat, NEW q1 \in Nat, NEW r1 \in Nat, NEW d \in Nat, NEW d1 \in Nat,
             q + d <= received, q1 <= q + 1, (d = 1 /\ d1 = 0 /\ r1 = received) \/ (d1 = d /\ r1 = received + 1)
      PROVE  q1 + d1 <= r1
  BY <1>0, <1>6
<1>2. ASSUME NEW j \in judging, NEW t, inFlightNow' = FALSE, Settle(j.obs, t), Publish(j.obs, j.n), UNCHANGED arrivals
      PROVE  JudgeLimits'
  <2>1. Out = 1 /\ Out' = 0
    BY <1>2 DEF FeedsInv, AskedAlone, Out
  <2>2. j.n \in Nat /\ received' = received
    BY <1>0, <1>2 DEF FeedsInv, AskedAlone, Awaited, arrivals
  <2>3. Len(published') \in Nat /\ Len(published') <= Len(published) + 1
    BY <1>0, <1>2, <2>2, TopicByOne
  <2>4. /\ intentCount' \in Nat /\ intentCount' <= intentCount + 1
        /\ \A k \in DOMAIN openIncidents' : StreakHolds(openIncidents', k)
    BY <1>2, <1>5, SettlesByOne
  <2>5. received' <= MaxObservations /\ Out \in Nat /\ Out' \in Nat
    BY <1>1, <2>1, <2>2
  <2>6. intentCount' + Out' <= received'
    BY <1>0, <1>1, <1>6, <2>1, <2>2, <2>4, <2>5
  <2>7. Len(published') + Out' <= received'
    BY <1>0, <1>1, <1>6, <2>1, <2>2, <2>3, <2>5
  <2> QED
    BY <2>4, <2>5, <2>6, <2>7 DEF JudgeLimits
<1>3. CASE Answer
  BY <1>2, <1>3 DEF Answer, InferenceFails, Judged, Release
<1>4. ASSUME NEW o \in Sightings, Observe(o) PROVE JudgeLimits'
  <2>1. received' = received + 1 /\ received' \in Nat /\ received' <= MaxObservations
    BY <1>0, <1>4 DEF Observe, Nominal, SkippedBusy, TriggerMatched, Degraded, Begin, Arrives
  <2>2. ASSUME UNCHANGED inFlightNow, Publish(o, received'), intentCount' \in Nat, intentCount' <= intentCount + 1,
               \A k \in DOMAIN openIncidents' : StreakHolds(openIncidents', k)
        PROVE  JudgeLimits'
    <3>1. Out' = Out /\ Out \in Nat /\ Out' \in Nat
      BY <2>2 DEF Out
    <3>2. Len(published') \in Nat /\ Len(published') <= Len(published) + 1
      BY <1>0, <2>1, <2>2, TopicByOne
    <3>3. intentCount' + Out' <= received'
      BY <1>0, <1>1, <1>6, <2>1, <2>2, <3>1
    <3>4. Len(published') + Out' <= received'
      BY <1>0, <1>1, <1>6, <2>1, <3>1, <3>2
    <3> QED
      BY <2>1, <2>2, <3>3, <3>4 DEF JudgeLimits
  <2>3. CASE Nominal(o)
    <3>1. UNCHANGED inFlightNow /\ Publish(o, received') /\ intentCount' = intentCount
      BY <2>3 DEF Nominal
    <3>2. \A k \in DOMAIN openIncidents' : StreakHolds(openIncidents', k)
      BY <1>5, <2>3, QuietCloses
    <3> QED
      BY <1>0, <2>2, <3>1, <3>2
  <2>4. CASE SkippedBusy(o)
    <3>1. UNCHANGED <<inFlightNow, intentCount, openIncidents>> /\ Publish(o, received')
      BY <2>4 DEF SkippedBusy
    <3>2. \A k \in DOMAIN openIncidents' : StreakHolds(openIncidents', k)
      BY <1>5, <3>1
    <3> QED
      BY <1>0, <2>2, <3>1, <3>2
  <2>5. CASE TriggerMatched(o) \/ Degraded(o)
    <3>1. PICK t : Settle(o, t) /\ Publish(o, received') /\ UNCHANGED inFlightNow
      BY <2>5 DEF TriggerMatched, Degraded
    <3>2. /\ intentCount' \in Nat /\ intentCount' <= intentCount + 1
          /\ \A k \in DOMAIN openIncidents' : StreakHolds(openIncidents', k)
      BY <1>5, <3>1, SettlesByOne
    <3> QED
      BY <2>2, <3>1, <3>2
  <2>6. CASE Begin(o)
    <3>1. ~inFlightNow /\ inFlightNow' = TRUE /\ UNCHANGED <<intentCount, openIncidents, published>>
      BY <2>6 DEF Begin, Ask
    <3>2. Out = 0 /\ Out' = 1
      BY <3>1 DEF Out
    <3>3. intentCount' + Out' <= received' /\ Len(published') + Out' <= received'
      BY <1>0, <1>1, <2>1, <3>1, <3>2
    <3>4. \A k \in DOMAIN openIncidents' : StreakHolds(openIncidents', k)
      BY <1>5, <3>1
    <3> QED
      BY <2>1, <3>3, <3>4 DEF JudgeLimits
  <2> QED
    BY <1>4, <2>3, <2>4, <2>5, <2>6 DEF Observe
<1> QED
  BY <1>3, <1>4 DEF JudgeNext

LEMMA LimitsAreTypes == FeedsInv /\ IncidentsInv /\ JudgeLimits => JudgeTypeOK
<1> SUFFICES ASSUME FeedsInv, IncidentsInv, JudgeLimits PROVE JudgeTypeOK
  OBVIOUS
<1>0. /\ received \in Nat /\ intentCount \in Nat /\ MaxObservations \in Nat /\ clearAfterQuiet \in Nat
      /\ contexts \in [Cameras -> Seq(Nat)] /\ published \in Seq(Nat) /\ Len(published) \in Nat /\ Out \in {0, 1}
  BY LenProperties, JudgeAssumption DEF FeedsInv, FeedTypes, IncidentsInv, IncidentTypes, Out
<1>1. /\ received \in 0..MaxObservations /\ inFlightNow \in BOOLEAN /\ intentCount \in 0..MaxObservations
      /\ intentCount <= MaxObservations /\ Len(published) <= received /\ received <= MaxObservations
  <2>1. received <= MaxObservations /\ intentCount + Out <= received /\ Len(published) + Out <= received
    BY DEF JudgeLimits
  <2>2. inFlightNow \in BOOLEAN
    BY DEF FeedsInv, FeedTypes
  <2> QED
    BY <1>0, <2>1, <2>2
<1>2. \A j \in judging : j.n \in 1..received /\ j.obs \in Sightings
  BY DEF FeedsInv, AskedAlone, Awaited
<1>3. \A n : n \in 1..received => n \in 1..MaxObservations
  BY <1>0, <1>1
<1>4. ASSUME NEW c \in Cameras PROVE contexts[c] \in Seq(1..MaxObservations) /\ Len(contexts[c]) <= contextSize
  <2> DEFINE w == contexts[c]
  <2>1. IsWindow(w, cameraOf, c, received, contextSize)
    BY DEF FeedsInv, WindowsKept
  <2>2. w \in Seq(Nat) /\ Len(w) <= contextSize /\ \A i \in 1..Len(w) : w[i] \in 1..received
    BY <2>1 DEF IsWindow, Mine
  <2>3. \A i \in 1..Len(w) : w[i] \in 1..MaxObservations
    BY <1>3, <2>2
  <2> HIDE DEF w
  <2>4. w \in Seq(1..MaxObservations)
    BY <2>2, <2>3, InSmaller
  <2> QED
    BY <2>2, <2>4 DEF w
<1>5. contexts \in [Cameras -> Seq(1..MaxObservations)]
  BY <1>0, <1>4
<1>6. published \in Seq(1..MaxObservations)
  <2>1. DOMAIN published = 1..Len(published)
    BY <1>0, LenProperties
  <2>2. \A i \in 1..Len(published) : published[i] \in 1..MaxObservations
    BY <1>3, <2>1 DEF FeedsInv, PublishedSoFar
  <2> QED
    BY <1>0, <2>2, InSmaller
<1>7. ASSUME NEW k \in DOMAIN openIncidents
      PROVE  openIncidents[k] \in [intent : 1..MaxObservations, occurrences : Nat, quietStreak : 0..(clearAfterQuiet - 1)]
  <2>1. openIncidents[k] \in [intent : Nat, occurrences : Nat, quietStreak : Nat] /\ openIncidents[k].intent <= intentCount
    BY DEF IncidentsInv, IncidentTypes, IntentsAreCounted
  <2>2. openIncidents[k].intent >= 1 /\ openIncidents[k].quietStreak < clearAfterQuiet
    BY DEF JudgeLimits, StreakHolds
  <2>3. openIncidents[k].intent \in 1..MaxObservations /\ openIncidents[k].quietStreak \in 0..(clearAfterQuiet - 1)
    BY <1>0, <1>1, <2>1, <2>2
  <2> QED
    BY <2>1, <2>3
<1>8. cameraOf \in Seq(Cameras) /\ Len(cameraOf) = received /\ DOMAIN openIncidents \subseteq KeysOf
  BY DEF FeedsInv, FeedTypes, IncidentsInv, IncidentTypes
<1> QED
  BY <1>1, <1>2, <1>4, <1>5, <1>6, <1>7, <1>8 DEF JudgeTypeOK

(* The judge keeps to its types and to the limits within them.  One         *)
(* judgement at a time, shown the window of its camera; every live          *)
(* observation published once, when it is judged; one intent for an         *)
(* incident, until it has been quiet for long enough, known to its owner:   *)
(* for any feeds, windows and answers, in whatever order they come.         *)
THEOREM JudgeTheorem ==
  JudgeSpec => [](JudgeTypeOK /\ OneJudgement /\ WindowIsOfItsCamera /\ PublishedOnce /\ OneIntentPerIncident /\ OwnersAreTold)
<1> DEFINE IInv == FeedsInv /\ IncidentsInv
<1>1. IInv /\ [JudgeNext]_judgeVars => IInv'
  <2> SUFFICES ASSUME FeedsInv, IncidentsInv, [JudgeNext]_judgeVars PROVE FeedsInv' /\ IncidentsInv'
    OBVIOUS
  <2>1. CASE UNCHANGED judgeVars
    <3>1. FeedsInv'
      BY <2>1 DEF FeedsInv, FeedTypes, AskedAlone, Awaited, WindowsKept, PublishedSoFar, Topic, judgeVars
    <3>2. IncidentsInv'
      BY <2>1 DEF IncidentsInv, IncidentTypes, StreaksAreTrue, IntentsAreCounted, OneIntentPerIncident, OwnersAreTold, judgeVars
    <3> QED
      BY <3>1, <3>2
  <2> QED
    BY <2>1, JudgeStep
<1>2. IInv => OneJudgement /\ WindowIsOfItsCamera /\ PublishedOnce /\ OneIntentPerIncident /\ OwnersAreTold
  <2> SUFFICES ASSUME FeedsInv, IncidentsInv
               PROVE  OneJudgement /\ WindowIsOfItsCamera /\ PublishedOnce /\ OneIntentPerIncident /\ OwnersAreTold
    OBVIOUS
  <2>1. OneJudgement
    <3>1. Cardinality({}) = 0 /\ \A j : Cardinality({j}) = 1
      BY FS_EmptySet, FS_Singleton
    <3> QED
      BY <3>1 DEF FeedsInv, AskedAlone, OneJudgement
  <2>2. PublishedOnce
    <3>1. \A n : n \in Topic => n \in 1..received
      BY DEF FeedsInv, PublishedSoFar, Topic
    <3>2. Topic = {n \in 1..received : cameraOf[n] = LIVE_CAMERA} \ {j.n : j \in judging}
      BY <3>1 DEF FeedsInv, PublishedSoFar
    <3> QED
      BY <3>2 DEF FeedsInv, PublishedSoFar, PublishedOnce, Topic
  <2> QED
    BY <2>1, <2>2, WindowGiven DEF IncidentsInv
<1>3. JudgeInit => IInv
  BY JudgeStarts
<1>4. IInv /\ JudgeLimits /\ [JudgeNext]_judgeVars => JudgeLimits'
  <2> SUFFICES ASSUME FeedsInv, IncidentsInv, JudgeLimits, [JudgeNext]_judgeVars PROVE JudgeLimits'
    OBVIOUS
  <2>1. CASE UNCHANGED judgeVars
    BY <2>1 DEF JudgeLimits, Out, StreakHolds, judgeVars
  <2> QED
    BY <2>1, LimitsKept
<1> QED
  BY <1>1, <1>2, <1>3, <1>4, LimitsStart, LimitsAreTypes, PTL DEF JudgeSpec

-----------------------------------------------------------------------------
(* L0's routing.  Nothing is planned, asked or written before there is an   *)
(* answer; then there is one tool, and a question only about a gated one.   *)
Unplanned(i) == planned[i] = {} /\ asked[i] = 0
PlannedFor(i, t) ==
  /\ planned[i] = {t} /\ asked[i] \in {0, 1} /\ (asked[i] = 1 => t \in Gated)
  /\ rows[i] \cap {"error", "no-tool", "refused"} = {} /\ (i \in DemoIntents \/ "routed" \in rows[i])

RoutingTells(i) ==
  /\ stage[i] \in {"absent", "retrieving", "planning"} => Unplanned(i) /\ rows[i] = {}
  /\ stage[i] = "escalating" => asked[i] = 0 /\ \E t \in Gated : PlannedFor(i, t)
  /\ stage[i] = "done" => Unplanned(i) \/ \E t \in Tools : PlannedFor(i, t)
  /\ i \in Sensitive => endpoint[i] # "hosted"

L0Inv == L0TypeOK /\ \A i \in Intents : RoutingTells(i)

(* What one routing does is no other's.                                     *)
OnlyOf(i) ==
  \A j \in Intents \ {i} :
    /\ stage'[j] = stage[j] /\ endpoint'[j] = endpoint[j] /\ planned'[j] = planned[j]
    /\ asked'[j] = asked[j] /\ rows'[j] = rows[j]

LEMMA L0Starts == L0Init => L0Inv
<1> SUFFICES ASSUME L0Init PROVE L0Inv
  OBVIOUS
<1>1. L0TypeOK
  BY DEF L0Init, L0TypeOK
<1>2. \A i \in Intents : RoutingTells(i)
  BY DEF L0Init, RoutingTells, Unplanned
<1> QED
  BY <1>1, <1>2 DEF L0Inv

LEMMA RoutingKeeps ==
  ASSUME L0Inv, NEW i \in Intents, Proposed(i) \/ L0Work(i) \/ \E t \in Tools : DemoTrigger(i, t)
  PROVE  L0Inv'
<1>0. L0TypeOK /\ RoutingTells(i) /\ Gated \subseteq Tools
  BY OrchestratorAssumption DEF L0Inv
<1>1. CASE Proposed(i)
  <2>1. L0TypeOK' /\ OnlyOf(i)
    BY <1>0, <1>1 DEF Proposed, L0TypeOK, OnlyOf, To, Enters
  <2>2. RoutingTells(i)'
    BY <1>0, <1>1 DEF Proposed, Fresh, L0TypeOK, RoutingTells, Unplanned, To, Enters
  <2> QED
    BY <2>1, <2>2 DEF L0Inv, OnlyOf, RoutingTells, Unplanned, PlannedFor
<1>2. ASSUME NEW t \in Tools, DemoTrigger(i, t) PROVE L0Inv'
  <2>1. L0TypeOK' /\ OnlyOf(i)
    BY <1>0, <1>2 DEF DemoTrigger, L0TypeOK, OnlyOf, To, Enters, Attach
  <2>2. stage'[i] = "done" /\ endpoint'[i] = endpoint[i] /\ rows'[i] = {} /\ planned'[i] = {t} /\ asked'[i] \in {0, 1}
    BY <1>0, <1>2 DEF DemoTrigger, Fresh, L0TypeOK, RoutingTells, Unplanned, To, Enters, Attach
  <2>3. RoutingTells(i)'
    BY <1>0, <1>2, <2>2 DEF DemoTrigger, RoutingTells, PlannedFor
  <2> QED
    BY <2>1, <2>3 DEF L0Inv, OnlyOf, RoutingTells, Unplanned, PlannedFor
<1>3. CASE Plan(i)
  <2>1. L0TypeOK' /\ OnlyOf(i)
    BY <1>0, <1>3 DEF Plan, route, L0TypeOK, OnlyOf, To, RowFor
  <2>2. planned' = planned /\ asked' = asked /\ stage[i] = "retrieving"
    BY <1>3 DEF Plan
  <2>3. \/ stage'[i] = "done" /\ endpoint' = endpoint
        \/ stage'[i] = "planning" /\ rows' = rows /\ (i \in Sensitive => endpoint'[i] # "hosted")
    BY <1>0, <1>3 DEF Plan, route, L0TypeOK, To
  <2>4. RoutingTells(i)'
    BY <1>0, <2>2, <2>3 DEF RoutingTells, Unplanned
  <2> QED
    BY <2>1, <2>4 DEF L0Inv, OnlyOf, RoutingTells, Unplanned, PlannedFor
<1>4. ASSUME InferenceError(i) \/ \E a \in Names \cup {NoTool} : NoPlan(i, a) PROVE L0Inv'
  <2>1. L0TypeOK' /\ OnlyOf(i)
    BY <1>0, <1>4 DEF InferenceError, NoPlan, L0TypeOK, OnlyOf, To, RowFor
  <2>2. UNCHANGED <<endpoint, planned, asked>> /\ stage[i] = "planning" /\ stage'[i] = "done"
    BY <1>0, <1>4 DEF InferenceError, NoPlan, L0TypeOK, To
  <2>3. RoutingTells(i)'
    BY <1>0, <2>2 DEF RoutingTells, Unplanned
  <2> QED
    BY <2>1, <2>3 DEF L0Inv, OnlyOf, RoutingTells, Unplanned, PlannedFor
<1>5. ASSUME NEW a, Routed(i, a) PROVE L0Inv'
  <2>1. L0TypeOK' /\ OnlyOf(i)
    BY <1>0, <1>5 DEF Routed, Accepts, L0TypeOK, OnlyOf, To, RowFor, Attach
  <2>2. a \in Tools /\ Unplanned(i) /\ rows[i] = {} /\ UNCHANGED <<endpoint, asked>>
    BY <1>0, <1>5 DEF Routed, Accepts, RoutingTells
  <2>3. /\ stage'[i] = IF a \in Gated THEN "escalating" ELSE "done"
        /\ planned'[i] = {a} /\ rows'[i] = {"routed"}
    BY <1>0, <1>5, <2>2 DEF Routed, L0TypeOK, To, RowFor, Attach, Unplanned
  <2>4. RoutingTells(i)'
    BY <1>0, <2>2, <2>3 DEF RoutingTells, Unplanned, PlannedFor
  <2> QED
    BY <2>1, <2>4 DEF L0Inv, OnlyOf, RoutingTells, Unplanned, PlannedFor
<1>6. CASE Escalated(i)
  <2>1. L0TypeOK' /\ OnlyOf(i)
    BY <1>0, <1>6 DEF Escalated, L0TypeOK, OnlyOf, To, RowFor
  <2>2. PICK t \in Gated : PlannedFor(i, t) /\ asked[i] = 0
    BY <1>0, <1>6 DEF Escalated, RoutingTells
  <2>3. stage'[i] = "done" /\ asked'[i] \in {0, 1} /\ UNCHANGED <<endpoint, planned>>
        /\ \E o \in {"escalated", "escalation-failed"} : rows'[i] = rows[i] \cup {o}
    BY <1>0, <1>6, <2>2 DEF Escalated, L0TypeOK, To, RowFor
  <2>4. PlannedFor(i, t)'
    BY <2>2, <2>3 DEF PlannedFor
  <2>5. RoutingTells(i)'
    BY <1>0, <2>2, <2>3, <2>4 DEF RoutingTells
  <2> QED
    BY <2>1, <2>5 DEF L0Inv, OnlyOf, RoutingTells, Unplanned, PlannedFor
<1> QED
  BY <1>1, <1>2, <1>3, <1>4, <1>5, <1>6 DEF L0Work

(* One action and one question for an intent, about a gated tool and with   *)
(* its row, and no text that must stay goes to the hosted model, however    *)
(* the routings interleave and whichever models are up.                     *)
THEOREM L0Theorem == L0Spec => [](L0TypeOK /\ AskedOnce /\ QuestionsHaveRows /\ SensitiveStaysLocal)
<1>1. L0Inv /\ [L0Next]_l0Vars => L0Inv'
  <2> SUFFICES ASSUME L0Inv, [L0Next]_l0Vars PROVE L0Inv'
    OBVIOUS
  <2>1. CASE UNCHANGED l0Vars
    BY <2>1 DEF L0Inv, L0TypeOK, RoutingTells, Unplanned, PlannedFor, l0Vars
  <2>2. CASE L0Next
    BY <2>2, RoutingKeeps DEF L0Next
  <2> QED
    BY <2>1, <2>2
<1>2. L0Inv => L0TypeOK /\ AskedOnce /\ QuestionsHaveRows /\ SensitiveStaysLocal
  <2> SUFFICES ASSUME L0Inv PROVE L0TypeOK /\ AskedOnce /\ QuestionsHaveRows /\ SensitiveStaysLocal
    OBVIOUS
  <2>1. \A i \in Intents : (Unplanned(i) \/ \E t \in Tools : PlannedFor(i, t)) /\ RoutingTells(i)
    BY OrchestratorAssumption DEF L0Inv, L0TypeOK, RoutingTells
  <2>2. Cardinality({}) = 0 /\ \A t : Cardinality({t}) = 1
    BY FS_EmptySet, FS_Singleton
  <2>3. ASSUME NEW i \in Intents PROVE asked[i] <= 1 /\ Cardinality(planned[i]) <= 1
    <3>1. CASE Unplanned(i)
      BY <2>2, <3>1 DEF Unplanned
    <3>2. ASSUME NEW t \in Tools, PlannedFor(i, t) PROVE asked[i] <= 1 /\ Cardinality(planned[i]) <= 1
      <4>1. asked[i] <= 1 /\ planned[i] = {t}
        BY <3>2 DEF PlannedFor
      <4>2. Cardinality(planned[i]) = 1
        BY <2>2, <4>1, Zenon
      <4> QED
        BY <4>1, <4>2
    <3> QED
      BY <2>1, <3>1, <3>2
  <2>4. QuestionsHaveRows
    BY <2>1 DEF QuestionsHaveRows, Unplanned, PlannedFor
  <2>5. SensitiveStaysLocal
    BY <2>1, OrchestratorAssumption DEF SensitiveStaysLocal, RoutingTells
  <2> QED
    BY <2>3, <2>4, <2>5 DEF AskedOnce, L0Inv
<1> QED
  BY <1>1, <1>2, L0Starts, PTL DEF L0Spec
=============================================================================
