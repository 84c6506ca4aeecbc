------------------------------ MODULE SeeProofs ------------------------------
(***************************************************************************)
(* What See promises.                                                      *)
(* A world is built once, for any sockets and clips, whatever fails and    *)
(* however often the process goes down: the build lock makes the second    *)
(* look, the look at the file and the build one operation.  And See's live *)
(* loop keeps what it promises: its raw feed stays locked until somebody   *)
(* unlocks it, its workers wake for their frames, its boxes come in order. *)
(* And its point cloud, for any frames, commands, sockets and queue: what  *)
(* is said once comes once, the backlog is bounded, the view is the truth. *)
(***************************************************************************)
EXTENDS SceneCache, LiveLoop, CloudSession, SequenceTheorems, FiniteSetTheorems, WellFoundedInduction, TLAPS

STEP == {"closed", "wants-build", "wants-gpu", "looks", "builds", "stores", "done", "streams", "window"}
Building == {"wants-gpu", "looks", "builds", "stores", "done"}
Undecided == {"wants-gpu", "looks", "builds"}

(* A socket between the second look and the end of the build has the lock;  *)
(* it found no world, and nobody else makes one or writes its file.         *)
SceneInv ==
  /\ step \in [Sockets -> STEP] /\ files \in [Clips -> {"absent", "torn", "whole"}]
  /\ \A s \in Sockets : step[s] \in Building => buildLock = s
  /\ \A s \in Sockets : step[s] \in Undecided => ClipOf[s] \notin scenes
  /\ \A s \in Sockets : step[s] = "builds" => files[ClipOf[s]] # "whole"

(* At first no socket is open.                                              *)
LEMMA SceneStarts == SceneInit => SceneInv
  BY DEF SceneInit, SceneInv, STEP, Building, Undecided

(* Where the other sockets are does not change when one of them moves.      *)
LEMMA StepMoves ==
  ASSUME SceneInv, NEW s \in Sockets, NEW from, NEW to \in STEP, Step(s, from, to)
  PROVE  /\ step[s] = from /\ step'[s] = to /\ step' \in [Sockets -> STEP]
         /\ \A r \in Sockets : r # s => step'[r] = step[r]
  BY DEF SceneInv, Step

(* Only the holder of the build lock is building.                           *)
LEMMA OneBuilder ==
  ASSUME SceneInv, NEW s \in Sockets, step[s] \in Building
  PROVE  \A r \in Sockets : r # s => step[r] \notin Building
  BY DEF SceneInv

(* One lemma for each step of ensure_scene() and of the stream.             *)
LEMMA EnsureKeeps == ASSUME SceneInv, NEW s \in Sockets, Ensure(s) PROVE SceneInv'
<1>1. PICK to \in {"streams", "wants-build"} : Step(s, "closed", to)
  BY DEF Ensure
<1>2. to \in STEP /\ to \notin Building /\ to \notin Undecided /\ to # "builds"
  BY DEF STEP, Building, Undecided
<1>3. UNCHANGED <<buildLock, gpuLock, scenes, files, sceneFaults>>
  BY DEF Ensure
<1> QED
  BY <1>1, <1>2, <1>3, StepMoves DEF SceneInv

LEMMA TakeBuildLockKeeps == ASSUME SceneInv, NEW s \in Sockets, TakeBuildLock(s) PROVE SceneInv'
<1>1. \A r \in Sockets : step[r] \notin Building
  BY SceneAssumption DEF TakeBuildLock, SceneInv
<1>2. CASE ClipOf[s] \notin scenes
  <2>1. /\ Step(s, "wants-build", "wants-gpu") /\ buildLock' = s
        /\ UNCHANGED <<gpuLock, scenes, files, sceneFaults>>
    BY <1>2 DEF TakeBuildLock, StillMissing
  <2>2. "wants-gpu" \in STEP
    BY DEF STEP
  <2> QED
    BY <1>1, <1>2, <2>1, <2>2, StepMoves DEF SceneInv, Building, Undecided
<1>3. CASE ClipOf[s] \in scenes
  <2>1. /\ Step(s, "wants-build", "streams")
        /\ UNCHANGED <<buildLock, gpuLock, scenes, files, sceneFaults>>
    BY <1>3 DEF TakeBuildLock, StillMissing
  <2>2. "streams" \in STEP /\ "streams" \notin Building /\ "streams" \notin Undecided
    BY DEF STEP, Building, Undecided
  <2> QED
    BY <2>1, <2>2, StepMoves DEF SceneInv
<1> QED
  BY <1>2, <1>3

LEMMA TakeGpuLockKeeps == ASSUME SceneInv, NEW s \in Sockets, TakeGpuLock(s) PROVE SceneInv'
<1>1. UNCHANGED <<buildLock, scenes, files, sceneFaults>>
  BY DEF TakeGpuLock
<1>2. CASE Step(s, "wants-gpu", "looks")
  <2>1. "looks" \in STEP
    BY DEF STEP
  <2> QED
    BY <1>1, <1>2, <2>1, StepMoves DEF SceneInv, Building, Undecided
<1>3. CASE Step(s, "streams", "window")
  <2>1. "window" \in STEP
    BY DEF STEP
  <2> QED
    BY <1>1, <1>3, <2>1, StepMoves DEF SceneInv, Building, Undecided
<1> QED
  BY <1>2, <1>3 DEF TakeGpuLock

LEMMA LookKeeps == ASSUME SceneInv, NEW s \in Sockets, Look(s) PROVE SceneInv'
<1>1. step[s] = "looks" /\ \A r \in Sockets : r # s => step[r] \notin Building
  BY OneBuilder DEF Look, Step, Building
<1>2. CASE Restorable(ClipOf[s])
  <2>1. /\ Step(s, "looks", "done") /\ scenes' = scenes \cup {ClipOf[s]}
        /\ UNCHANGED <<buildLock, gpuLock, files, sceneFaults>>
    BY <1>2 DEF Look
  <2>2. "done" \in STEP
    BY DEF STEP
  <2> QED
    BY <1>1, <2>1, <2>2, StepMoves DEF SceneInv, Building, Undecided
<1>3. CASE ~Restorable(ClipOf[s])
  <2>1. /\ Step(s, "looks", "builds") /\ UNCHANGED <<buildLock, gpuLock, scenes, files, sceneFaults>>
    BY <1>3 DEF Look
  <2>2. "builds" \in STEP
    BY DEF STEP
  <2> QED
    BY <1>1, <1>3, <2>1, <2>2, StepMoves DEF SceneInv, Building, Undecided, Restorable
<1> QED
  BY <1>2, <1>3

LEMMA BuildKeeps == ASSUME SceneInv, NEW s \in Sockets, Build(s) PROVE SceneInv'
<1>1. step[s] = "builds" /\ \A r \in Sockets : r # s => step[r] \notin Building
  BY OneBuilder DEF Build, Step, Building
<1>2. PICK to \in {"stores", "done"} : Step(s, "builds", to)
  BY DEF Build
<1>3. scenes' \subseteq scenes \cup {ClipOf[s]} /\ UNCHANGED <<buildLock, gpuLock, files>>
  BY DEF Build
<1>4. to \in STEP /\ to \in Building /\ to \notin Undecided
  BY DEF STEP, Building, Undecided
<1> QED
  BY <1>1, <1>2, <1>3, <1>4, StepMoves DEF SceneInv, Building, Undecided

LEMMA StoreKeeps == ASSUME SceneInv, NEW s \in Sockets, Store(s) PROVE SceneInv'
<1>1. step[s] = "stores" /\ \A r \in Sockets : r # s => step[r] \notin Building
  BY OneBuilder DEF Store, Step, Building
<1>2. Step(s, "stores", "done") /\ "done" \in STEP
  BY DEF Store, STEP
<1>3. UNCHANGED <<buildLock, gpuLock, scenes>>
  BY DEF Store
<1>4. files' \in [Clips -> {"absent", "torn", "whole"}]
  BY DEF Store, SceneInv
<1> QED
  BY <1>1, <1>2, <1>3, <1>4, StepMoves DEF SceneInv, Building, Undecided

LEMMA ReleaseKeeps == ASSUME SceneInv, NEW s \in Sockets, ReleaseLocks(s) PROVE SceneInv'
<1>1. UNCHANGED <<scenes, files, sceneFaults>> /\ "streams" \in STEP
  BY DEF ReleaseLocks, STEP
<1>2. CASE Step(s, "done", "streams")
  <2>1. \A r \in Sockets : r # s => step[r] \notin Building
    BY <1>2, OneBuilder DEF Step, Building
  <2> QED
    BY <1>1, <1>2, <2>1, StepMoves DEF SceneInv, Building, Undecided
<1>3. CASE Step(s, "window", "streams") /\ UNCHANGED buildLock
  BY <1>1, <1>3, StepMoves DEF SceneInv, Building, Undecided
<1> QED
  BY <1>2, <1>3 DEF ReleaseLocks

LEMMA CloseKeeps == ASSUME SceneInv, NEW s \in Sockets, Close(s) PROVE SceneInv'
<1>1. /\ Step(s, "streams", "closed") /\ "closed" \in STEP
      /\ UNCHANGED <<buildLock, gpuLock, scenes, files, sceneFaults>>
  BY DEF Close, STEP
<1> QED
  BY <1>1, StepMoves DEF SceneInv, Building, Undecided

LEMMA CrashKeeps == ASSUME SceneInv, CrashBackend PROVE SceneInv'
  BY DEF SceneInv, CrashBackend, STEP, Building, Undecided

(* Together: every step keeps the invariant.                                *)
LEMMA SceneSteps == SceneInv /\ [SceneNext]_sceneVars => SceneInv'
<1> SUFFICES ASSUME SceneInv, [SceneNext]_sceneVars PROVE SceneInv'
  OBVIOUS
<1>1. CASE UNCHANGED sceneVars
  BY <1>1 DEF sceneVars, SceneInv
<1>2. CASE SceneNext
  BY <1>2, EnsureKeeps, TakeBuildLockKeeps, TakeGpuLockKeeps, LookKeeps, BuildKeeps,
     StoreKeeps, ReleaseKeeps, CloseKeeps, CrashKeeps DEF SceneNext
<1> QED
  BY <1>1, <1>2

(* No socket builds a world that is in memory or on disk, for any sockets,  *)
(* clips and failures.                                                      *)
THEOREM SceneTheorem == SceneSpec => []NeverRebuilt
<1>1. SceneSpec => []SceneInv
  BY SceneStarts, SceneSteps, PTL DEF SceneSpec
<1>2. SceneInv => NeverRebuilt
  BY DEF SceneInv, NeverRebuilt, Undecided
<1> QED
  BY <1>1, <1>2, PTL

-----------------------------------------------------------------------------
(* The live loop: what its variables hold.  The frame the rgb thread has in *)
(* hand is of a clip no newer than the one chosen last.                     *)
Messages == [stream : Streams, raw : BOOLEAN, frame : Frame]
WorkerState == [at : {"check", "asleep", "work"}, last : Nat, frame : Frame \cup {NoFrame}]
LiveTypes ==
  /\ generation \in Nat /\ hazard \in Int /\ revealed \in BOOLEAN /\ unlockedAt \in Int /\ shown \in Nat
  /\ rgb \in [at : {"turn", "publish", "emit"}, frame : Frame \cup {NoFrame}, seq : Nat]
  /\ rgb.at # "turn" => rgb.frame \in Frame /\ rgb.frame.seq = rgb.seq /\ rgb.frame.clip <= generation
  /\ latest \in Frame \cup {NoFrame}
  /\ worker \in [Workers -> WorkerState]
  /\ \A w \in Workers : worker[w].at = "work" => worker[w].frame \in Frame
  /\ posted \in Seq(Messages) /\ sending \in [Streams -> SUBSET Messages]
  /\ describing \subseteq [clip : Nat, gen : Nat]

(* Whatever opens the raw feed was done for the clip chosen last.           *)
Cleared(m) == m.raw => unlockedAt >= m.frame.clip
LockInv ==
  /\ Unlocked => unlockedAt >= generation
  /\ \A i \in DOMAIN posted : Cleared(posted[i])
  /\ \A s \in Streams : \A m \in sending[s] : Cleared(m)

(* Boxes are made, posted, sent and shown in the order of their frames.     *)
Newest == IF latest = NoFrame THEN 0 ELSE latest.seq
Boxes(m) == m.stream = "detection"
OrderInv ==
  /\ Newest <= rgb.seq
  /\ worker["detection"].last <= Newest /\ shown <= worker["detection"].last
  /\ worker["detection"].at = "work" => worker["detection"].frame.seq = worker["detection"].last
  /\ \A s \in Streams : \A m \in sending[s] : m.stream = s
  /\ \A m, n \in sending["detection"] : m = n
  /\ \A m \in sending["detection"] : shown <= m.frame.seq /\ m.frame.seq <= worker["detection"].last
  /\ \A i \in DOMAIN posted : Boxes(posted[i]) =>
       /\ shown <= posted[i].frame.seq /\ posted[i].frame.seq <= worker["detection"].last
       /\ \A m \in sending["detection"] : m.frame.seq <= posted[i].frame.seq
       /\ \A j \in DOMAIN posted : i < j /\ Boxes(posted[j]) => posted[i].frame.seq <= posted[j].frame.seq

LiveInv == LiveTypes /\ LockInv /\ OrderInv /\ NobodyOversleeps

(* A message added at the end is the only one that is new.                  *)
LEMMA PostAdds ==
  ASSUME posted \in Seq(Messages), NEW m \in Messages, posted' = Append(posted, m)
  PROVE  /\ posted' \in Seq(Messages) /\ DOMAIN posted = 1..Len(posted) /\ DOMAIN posted' = 1..(Len(posted) + 1)
         /\ \A i \in DOMAIN posted : posted'[i] = posted[i]
         /\ posted'[Len(posted) + 1] = m /\ Len(posted) \in Nat
OBVIOUS

(* And one taken from the front leaves the others as they were.             *)
LEMMA DispatchTakes ==
  ASSUME posted \in Seq(Messages), posted # <<>>, posted' = Tail(posted)
  PROVE  /\ posted' \in Seq(Messages) /\ Head(posted) \in Messages /\ Head(posted) = posted[1] /\ 1 \in DOMAIN posted
         /\ DOMAIN posted = 1..Len(posted) /\ Len(posted) \in Nat
         /\ \A i \in DOMAIN posted' : i \in Nat /\ i + 1 \in DOMAIN posted /\ posted'[i] = posted[i + 1]
OBVIOUS

(* A worker posts what it made, or nothing.                                 *)
LEMMA WorkPosts ==
  ASSUME LiveTypes, NEW w \in Workers, Work(w)
  PROVE  \/ posted' = posted
         \/ \E m \in Messages : /\ posted' = Append(posted, m)
                               /\ m.raw = FALSE /\ m.stream = StreamOf[w] /\ m.frame = worker[w].frame
<1> DEFINE m == Message(StreamOf[w], FALSE, worker[w].frame)
<1>1. m \in Messages /\ m.raw = FALSE /\ m.stream = StreamOf[w] /\ m.frame = worker[w].frame
  BY DEF LiveTypes, Work, Message, Messages, Streams, StreamOf, Workers
<1>2. posted' = posted \o <<m>> \/ posted' = posted \o <<>>
  BY DEF Work, Results
<1> HIDE DEF m
<1>3. posted \o <<m>> = Append(posted, m) /\ posted \o <<>> = posted
  BY <1>1 DEF LiveTypes
<1> QED
  BY <1>1, <1>2, <1>3

(* Waking the workers changes nothing else of them.                         *)
LEMMA NotifyWakes ==
  ASSUME LiveTypes, Notify
  PROVE  /\ worker' \in [Workers -> WorkerState]
         /\ \A w \in Workers : /\ worker'[w].at # "asleep" /\ worker'[w].last = worker[w].last /\ worker'[w].frame = worker[w].frame
                               /\ worker'[w].at = "work" <=> worker[w].at = "work"
<1>1. ASSUME NEW w \in Workers
      PROVE  /\ worker'[w] \in WorkerState
             /\ worker'[w].at # "asleep" /\ worker'[w].last = worker[w].last /\ worker'[w].frame = worker[w].frame
             /\ worker'[w].at = "work" <=> worker[w].at = "work"
  <2>1. worker[w] \in WorkerState
    BY DEF LiveTypes
  <2>2. worker'[w] = [worker[w] EXCEPT !.at = IF @ = "asleep" THEN "check" ELSE @]
    BY DEF Notify
  <2> QED
    BY <2>1, <2>2 DEF WorkerState
<1>2. DOMAIN worker' = Workers /\ worker' = [w \in Workers |-> worker'[w]]
  BY DEF Notify
<1> QED
  BY <1>1, <1>2

(* Every step leaves the variables with what they hold.                     *)
LEMMA LiveTyped ==
  ASSUME LiveTypes, [LiveNext]_liveVars
  PROVE  LiveTypes'
<1> USE DEF LiveTypes
<1>1. CASE Decode
  <2>1. FrameOf(generation, rgb.seq + 1) \in Frame /\ FrameOf(generation, rgb.seq + 1).seq = rgb.seq + 1
        /\ FrameOf(generation, rgb.seq + 1).clip = generation
    BY DEF FrameOf, Frame
  <2>2. /\ rgb' \in [at : {"turn", "publish", "emit"}, frame : Frame \cup {NoFrame}, seq : Nat]
        /\ rgb'.frame \in Frame /\ rgb'.frame.seq = rgb'.seq /\ rgb'.frame.clip <= generation
    BY <1>1, <2>1 DEF Decode
  <2> QED
    BY <1>1, <2>2 DEF Decode, gate, sends
<1>2. CASE PublishFrame
  <2>1. /\ rgb' \in [at : {"turn", "publish", "emit"}, frame : Frame \cup {NoFrame}, seq : Nat]
        /\ rgb'.frame = rgb.frame /\ rgb'.seq = rgb.seq /\ rgb.at # "turn" /\ latest' \in Frame
    BY <1>2 DEF PublishFrame
  <2>2. worker' \in [Workers -> WorkerState] /\ \A w \in Workers : worker'[w].at = "work" => worker'[w].frame \in Frame
    BY <1>2, NotifyWakes DEF PublishFrame
  <2> QED
    BY <1>2, <2>1, <2>2 DEF PublishFrame, gate, sends
<1>3. CASE EmitRaw
  <2>1. rgb' \in [at : {"turn", "publish", "emit"}, frame : Frame \cup {NoFrame}, seq : Nat] /\ rgb'.at = "turn"
    BY <1>3 DEF EmitRaw, Turn
  <2>2. posted' \in Seq(Messages)
    <3>1. Message("rgb", TRUE, rgb.frame) \in Messages
      BY <1>3 DEF EmitRaw, Message, Messages, Streams
    <3> QED
      BY <1>3, <3>1, PostAdds DEF EmitRaw, Post
  <2> QED
    BY <1>3, <2>1, <2>2 DEF EmitRaw, gate
<1>4. CASE Dispatch
  <2>1. posted' \in Seq(Messages) /\ Head(posted) \in Messages
    BY <1>4, DispatchTakes DEF Dispatch
  <2>2. Head(posted).stream \in Streams
    BY <2>1 DEF Messages
  <2>3. sending' \in [Streams -> SUBSET Messages]
    BY <1>4, <2>1, <2>2 DEF Dispatch
  <2> QED
    BY <1>4, <2>1, <2>3 DEF Dispatch, gate
<1>5. ASSUME NEW w \in Workers, Check(w) PROVE LiveTypes'
  <2>1. worker[w] \in WorkerState
    OBVIOUS
  <2>2. CASE Ready(w)
    <3> DEFINE new == [at |-> "work", last |-> latest.seq, frame |-> latest]
    <3>1. latest \in Frame
      BY <2>2 DEF Ready
    <3>2. new \in WorkerState /\ new.frame \in Frame
      BY <3>1 DEF WorkerState, Frame
    <3>3. worker' = [worker EXCEPT ![w] = new]
      BY <1>5, <2>2 DEF Check
    <3> HIDE DEF new
    <3>4. worker' \in [Workers -> WorkerState] /\ \A v \in Workers : worker'[v].at = "work" => worker'[v].frame \in Frame
      BY <3>2, <3>3
    <3> QED
      BY <1>5, <3>4 DEF Check, gate, sends
  <2>3. CASE ~Ready(w)
    <3> DEFINE new == [worker[w] EXCEPT !.at = "asleep"]
    <3>1. new \in WorkerState /\ new.at = "asleep"
      BY <2>1 DEF WorkerState
    <3>2. worker' = [worker EXCEPT ![w] = new]
      BY <1>5, <2>3 DEF Check
    <3> HIDE DEF new
    <3>3. worker' \in [Workers -> WorkerState] /\ \A v \in Workers : worker'[v].at = "work" => worker'[v].frame \in Frame
      BY <3>1, <3>2
    <3> QED
      BY <1>5, <3>3 DEF Check, gate, sends
  <2> QED
    BY <2>2, <2>3
<1>6. ASSUME NEW w \in Workers, Work(w) PROVE LiveTypes'
  <2> DEFINE new == [worker[w] EXCEPT !.at = "check", !.frame = NoFrame]
  <2>1. new \in WorkerState /\ new.at = "check"
    <3>1. worker[w] \in WorkerState
      OBVIOUS
    <3> QED
      BY <3>1 DEF WorkerState
  <2>2. worker' = [worker EXCEPT ![w] = new]
    BY <1>6 DEF Work
  <2> HIDE DEF new
  <2>3. worker' \in [Workers -> WorkerState] /\ \A v \in Workers : worker'[v].at = "work" => worker'[v].frame \in Frame
    BY <2>1, <2>2
  <2>4. posted' \in Seq(Messages)
    BY <1>6, WorkPosts, PostAdds
  <2> QED
    BY <1>6, <2>3, <2>4 DEF Work, gate
<1>7. ASSUME NEW s \in Streams, Sent(s) PROVE LiveTypes'
  <2>1. PICK m \in sending[s] : sending' = [sending EXCEPT ![s] = @ \ {m}] /\ shown' = IF s = "detection" THEN m.frame.seq ELSE shown
    BY <1>7 DEF Sent
  <2>2. m \in Messages
    OBVIOUS
  <2>3. m.frame.seq \in Nat
    BY <2>2 DEF Messages, Frame
  <2>4. sending' \in [Streams -> SUBSET Messages] /\ shown' \in Nat
    BY <2>1, <2>3
  <2> QED
    BY <1>7, <2>4 DEF Sent, gate
<1>8. ASSUME NEW s \in Streams, Join(s) PROVE LiveTypes'
  <2>1. worker' \in [Workers -> WorkerState] /\ \A w \in Workers : worker'[w].at = "work" => worker'[w].frame \in Frame
    BY <1>8, NotifyWakes DEF Join, OnJoin
  <2> QED
    BY <1>8, <2>1 DEF Join, gate
<1>9. ASSUME NEW s \in Streams, Leave(s) PROVE LiveTypes'
  BY <1>9 DEF Leave, gate
<1>10. CASE SetSource
  <2>1. worker' \in [Workers -> WorkerState] /\ \A w \in Workers : worker'[w].at = "work" => worker'[w].frame \in Frame
    BY <1>10, NotifyWakes DEF SetSource
  <2>2. generation' \in Nat /\ (rgb.at # "turn" => rgb.frame.clip <= generation')
    BY <1>10 DEF SetSource, Frame
  <2>3. hazard' \in Int /\ revealed' \in BOOLEAN
    <3>1. hazard' = -1 /\ ~revealed' /\ revealed' = FALSE
      BY <1>10 DEF SetSource
    <3>2. -1 \in Int
      OBVIOUS
    <3>3. hazard' \in Int
      BY <3>1, <3>2
    <3>4. revealed' \in BOOLEAN
      BY <3>1
    <3> QED
      BY <3>3, <3>4
  <2>4. UNCHANGED <<rgb, latest, posted, sending, shown, describing, unlockedAt>>
    BY <1>10 DEF SetSource, sends
  <2>5. (rgb.at # "turn" => rgb.frame \in Frame /\ rgb.frame.seq = rgb.seq /\ rgb.frame.clip <= generation)'
    BY <2>2, <2>4
  <2> QED
    BY <2>1, <2>2, <2>3, <2>4, <2>5
<1>11. CASE PauseOrResume \/ Lapse
  BY <1>11 DEF PauseOrResume, Lapse, sends
<1>12. CASE Reveal
  <2>1. worker' \in [Workers -> WorkerState] /\ \A w \in Workers : worker'[w].at = "work" => worker'[w].frame \in Frame
    BY <1>12, NotifyWakes DEF Reveal
  <2> QED
    BY <1>12, <2>1 DEF Reveal, Unlock, sends
<1>13. CASE Describe
  <2>1. [clip |-> latest.clip, gen |-> generation] \in [clip : Nat, gen : Nat]
    BY <1>13 DEF Describe, Frame
  <2> QED
    BY <1>13, <2>1 DEF Describe, gate, sends
<1>14. ASSUME NEW q \in describing, NEW found \in BOOLEAN, Described(q, found) PROVE LiveTypes'
  <2>1. q.clip \in Nat /\ q.gen \in Nat
    OBVIOUS
  <2>2. worker' \in [Workers -> WorkerState] /\ \A w \in Workers : worker'[w].at = "work" => worker'[w].frame \in Frame
    BY <1>14, NotifyWakes DEF Described
  <2>3. hazard' \in Int /\ unlockedAt' \in Int
    BY <1>14, <2>1 DEF Described, Unlock
  <2> QED
    BY <1>14, <2>2, <2>3 DEF Described, sends
<1>15. CASE UNCHANGED liveVars
  BY <1>15 DEF liveVars, gate, sends
<1> QED
  BY <1>1, <1>2, <1>3, <1>4, <1>5, <1>6, <1>7, <1>8, <1>9, <1>10, <1>11, <1>12, <1>13, <1>14, <1>15 DEF LiveNext

(* What waits for the viewers stays cleared while it waits: an unlock is    *)
(* never taken back.                                                        *)
LEMMA StaysCleared ==
  ASSUME LiveTypes, LockInv, unlockedAt' \in Int, unlockedAt' >= unlockedAt, UNCHANGED <<posted, sending>>
  PROVE  /\ \A i \in DOMAIN posted' : Cleared(posted[i])'
         /\ \A s \in Streams : \A m \in sending'[s] : m.raw => unlockedAt' >= m.frame.clip
<1>1. ASSUME NEW m \in Messages, Cleared(m) PROVE m.raw => unlockedAt' >= m.frame.clip
  BY <1>1 DEF Cleared, Messages, Frame, LiveTypes
<1>2. \A i \in DOMAIN posted : posted[i] \in Messages /\ Cleared(posted[i])
  BY DEF LiveTypes, LockInv
<1>3. \A s \in Streams : \A m \in sending[s] : m \in Messages /\ Cleared(m)
  BY DEF LiveTypes, LockInv
<1> QED
  BY <1>1, <1>2, <1>3 DEF Cleared

(* What opens the raw feed was done for the clip chosen last, and what is   *)
(* raw on the way to a viewer was cleared.                                  *)
LEMMA LockHeld ==
  ASSUME LiveTypes, LockInv, [LiveNext]_liveVars
  PROVE  LockInv'
<1> USE DEF Cleared
<1>t. LiveTypes'
  BY LiveTyped
<1>n. generation \in Nat /\ unlockedAt \in Int /\ hazard \in Int /\ unlockedAt' \in Int /\ generation' \in Nat
  BY <1>t DEF LiveTypes
<1>q. ASSUME UNCHANGED <<posted, sending>>, unlockedAt' >= unlockedAt, Unlocked' => unlockedAt' >= generation'
      PROVE  LockInv'
  BY <1>q, <1>n, StaysCleared DEF LockInv
<1>u. ASSUME NEW g \in Int, Unlock(g) PROVE unlockedAt' >= unlockedAt /\ unlockedAt' >= g
  BY <1>u, <1>n DEF Unlock
<1>g. ASSUME UNCHANGED <<gate, unlockedAt>> PROVE unlockedAt' >= unlockedAt /\ (Unlocked' => unlockedAt' >= generation')
  BY <1>g, <1>n DEF gate, Unlocked, LockInv
<1>1. CASE Decode \/ PublishFrame \/ Describe \/ \E w \in Workers : Check(w)
  BY <1>1, <1>q, <1>g DEF Decode, PublishFrame, Describe, Check, sends
<1>2. CASE EmitRaw
  <2>1. UNCHANGED <<gate, unlockedAt, sending>>
    BY <1>2 DEF EmitRaw
  <2>2. CASE UNCHANGED posted
    BY <2>1, <2>2, <1>q, <1>g
  <2>3. CASE Unlocked /\ Post(Message("rgb", TRUE, rgb.frame))
    <3> DEFINE m == Message("rgb", TRUE, rgb.frame)
    <3>1. m \in Messages /\ m.frame = rgb.frame /\ rgb.frame \in Frame /\ rgb.frame.clip <= generation
      BY <1>2 DEF EmitRaw, Message, Messages, Streams, LiveTypes
    <3>2. unlockedAt >= generation
      BY <2>3 DEF LockInv
    <3>4. posted' = Append(posted, m)
      BY <2>3 DEF Post
    <3> HIDE DEF m
    <3>3. m.raw => unlockedAt' >= m.frame.clip
      <4>1. rgb.frame.clip \in Nat /\ unlockedAt' = unlockedAt
        BY <3>1, <2>1 DEF Frame
      <4> QED
        BY <4>1, <3>1, <3>2, <1>n
    <3>5. \A i \in DOMAIN posted' : posted'[i].raw => unlockedAt' >= posted'[i].frame.clip
      <4>1. \A i \in DOMAIN posted : posted[i].raw => unlockedAt' >= posted[i].frame.clip
        BY <2>1 DEF LockInv
      <4>2. \A i \in DOMAIN posted' : i \in DOMAIN posted \/ i = Len(posted) + 1
        BY <3>1, <3>4, PostAdds DEF LiveTypes
      <4> QED
        BY <4>1, <4>2, <3>1, <3>3, <3>4, PostAdds DEF LiveTypes
    <3>6. \A s \in Streams : \A n \in sending'[s] : n.raw => unlockedAt' >= n.frame.clip
      BY <2>1 DEF LockInv
    <3> QED
      BY <3>5, <3>6, <2>1, <1>g DEF LockInv
  <2> QED
    BY <1>2, <2>2, <2>3 DEF EmitRaw
<1>3. CASE Dispatch
  <2>1. UNCHANGED <<gate, unlockedAt>>
    BY <1>3 DEF Dispatch
  <2>2. \A i \in DOMAIN posted' : posted'[i].raw => unlockedAt' >= posted'[i].frame.clip
    BY <1>3, <2>1, DispatchTakes DEF Dispatch, LockInv, LiveTypes
  <2>3. Head(posted).raw => unlockedAt' >= Head(posted).frame.clip
    BY <1>3, <2>1, DispatchTakes DEF Dispatch, LockInv, LiveTypes
  <2>4. \A s \in Streams : \A m \in sending'[s] : m \in sending[s] \/ m = Head(posted)
    BY <1>3 DEF Dispatch, LiveTypes
  <2>5. \A s \in Streams : \A m \in sending'[s] : m.raw => unlockedAt' >= m.frame.clip
    BY <2>1, <2>3, <2>4 DEF LockInv
  <2> QED
    BY <2>1, <2>2, <2>5, <1>g DEF LockInv
<1>4. ASSUME NEW w \in Workers, Work(w) PROVE LockInv'
  <2>1. UNCHANGED <<gate, unlockedAt, sending>>
    BY <1>4 DEF Work
  <2>2. CASE posted' = posted
    BY <2>1, <2>2, <1>q, <1>g
  <2>3. CASE \E m \in Messages : posted' = Append(posted, m) /\ m.raw = FALSE
    <3>1. PICK m \in Messages : posted' = Append(posted, m) /\ m.raw = FALSE
      BY <2>3
    <3>2. \A i \in DOMAIN posted' : posted'[i].raw => unlockedAt' >= posted'[i].frame.clip
      <4>1. \A i \in DOMAIN posted : posted[i].raw => unlockedAt' >= posted[i].frame.clip
        BY <2>1 DEF LockInv
      <4>2. \A i \in DOMAIN posted' : i \in DOMAIN posted \/ i = Len(posted) + 1
        BY <3>1, PostAdds DEF LiveTypes
      <4> QED
        BY <4>1, <4>2, <3>1, PostAdds DEF LiveTypes
    <3>3. \A s \in Streams : \A n \in sending'[s] : n.raw => unlockedAt' >= n.frame.clip
      BY <2>1 DEF LockInv
    <3> QED
      BY <3>2, <3>3, <2>1, <1>g DEF LockInv
  <2> QED
    BY <1>4, <2>2, <2>3, WorkPosts
<1>5. ASSUME NEW s \in Streams, Sent(s) \/ Leave(s) PROVE LockInv'
  <2>1. UNCHANGED <<gate, unlockedAt, posted>>
    BY <1>5 DEF Sent, Leave
  <2>2. \A t \in Streams : sending'[t] \subseteq sending[t]
    BY <1>5 DEF Sent, Leave, LiveTypes
  <2>3. \A t \in Streams : \A m \in sending'[t] : m.raw => unlockedAt' >= m.frame.clip
    BY <2>1, <2>2 DEF LockInv
  <2> QED
    BY <2>1, <2>3, <1>g DEF LockInv
<1>6. ASSUME NEW s \in Streams, Join(s) PROVE LockInv'
  BY <1>6, <1>q, <1>g DEF Join
<1>7. CASE SetSource
  <2>1. ~Unlocked'
    BY <1>7 DEF SetSource, Unlocked
  <2> QED
    BY <1>7, <2>1, <1>q, <1>n DEF SetSource, sends
<1>8. CASE PauseOrResume \/ Lapse
  <2>1. Unlocked' => Unlocked
    BY <1>8 DEF PauseOrResume, Lapse, Unlocked
  <2> QED
    BY <1>8, <2>1, <1>q, <1>n DEF PauseOrResume, Lapse, sends, LockInv
<1>9. CASE Reveal
  BY <1>9, <1>q, <1>n, <1>u DEF Reveal, sends
<1>10. ASSUME NEW q \in describing, NEW found \in BOOLEAN, Described(q, found) PROVE LockInv'
  <2>1. q.gen \in Int
    BY DEF LiveTypes
  <2>2. unlockedAt' >= unlockedAt /\ (found => unlockedAt' >= q.gen)
    BY <1>10, <2>1, <1>u, <1>n DEF Described
  <2>3. Unlocked' => unlockedAt' >= generation'
    <3>1. generation' = generation /\ revealed' = revealed
      BY <1>10 DEF Described
    <3>2. CASE IsCurrent(q) /\ found
      BY <2>2, <3>1, <3>2 DEF IsCurrent
    <3>3. CASE IsCurrent(q) /\ ~found
      <4>1. hazard' = -1
        BY <1>10, <3>3 DEF Described
      <4>2. Unlocked' => Unlocked
        BY <4>1, <3>1 DEF Unlocked
      <4> QED
        BY <4>2, <2>2, <3>1, <1>n DEF LockInv
    <3>4. CASE ~IsCurrent(q)
      <4>1. Unlocked' => Unlocked
        BY <1>10, <3>1, <3>4 DEF Described, Unlocked
      <4> QED
        BY <4>1, <2>2, <3>1, <1>n DEF LockInv
    <3> QED
      BY <3>2, <3>3, <3>4
  <2> QED
    BY <1>10, <2>2, <2>3, <1>q DEF Described, sends
<1>11. CASE UNCHANGED liveVars
  BY <1>11, <1>q, <1>g DEF liveVars, sends
<1> QED
  BY <1>1, <1>2, <1>3, <1>4, <1>5, <1>6, <1>7, <1>8, <1>9, <1>10, <1>11 DEF LiveNext

(* Whoever sleeps has nothing to do: the steps that give him something      *)
(* notify, and a reveal that runs out leaves its mark.                      *)
LEMMA NobodyOversleepsHeld ==
  ASSUME LiveTypes, NobodyOversleeps, [LiveNext]_liveVars
  PROVE  NobodyOversleeps'
<1>n. ASSUME Notify PROVE NobodyOversleeps'
  BY <1>n, NotifyWakes DEF NobodyOversleeps
<1>c. ASSUME NEW w \in Workers, worker'[w] = worker[w], UNCHANGED <<latest, watching>>,
             w # "privacy" \/ (Unlocked' <=> Unlocked)
      PROVE  Ready(w)' => Ready(w)
  BY <1>c DEF Ready, Wanted
<1>s. ASSUME UNCHANGED <<latest, watching, hazard, revealed, lapsed, worker>> PROVE NobodyOversleeps'
  <2>1. Unlocked' <=> Unlocked
    BY <1>s DEF Unlocked
  <2>2. \A w \in Workers : Ready(w)' => Ready(w)
    BY <1>s, <2>1, <1>c
  <2> QED
    BY <1>s, <2>2 DEF NobodyOversleeps
<1>1. CASE Decode \/ EmitRaw \/ Dispatch \/ PauseOrResume \/ Describe \/ \E s \in Streams : Sent(s)
  BY <1>1, <1>s DEF Decode, EmitRaw, Dispatch, PauseOrResume, Describe, Sent, gate, sends
<1>2. CASE PublishFrame \/ SetSource \/ Reveal \/ \E s \in Streams : Join(s)
  BY <1>2, <1>n DEF PublishFrame, SetSource, Reveal, Join, OnJoin
<1>3. ASSUME NEW w \in Workers, Check(w) PROVE NobodyOversleeps'
  <2>1. Unlocked' <=> Unlocked
    BY <1>3 DEF Check, gate, Unlocked
  <2>2. UNCHANGED <<latest, watching, lapsed>>
    BY <1>3 DEF Check, sends
  <2>3. ASSUME NEW v \in Workers, v # w, worker'[v].at = "asleep", Ready(v)' PROVE v = "privacy" /\ lapsed'
    <3>1. worker'[v] = worker[v]
      BY <1>3, <2>3 DEF Check, LiveTypes
    <3> QED
      BY <2>1, <2>2, <2>3, <3>1, <1>c DEF NobodyOversleeps
  <2>4. worker'[w].at = "asleep" => ~Ready(w)'
    <3>0. worker[w] \in WorkerState
      BY DEF LiveTypes
    <3>1. CASE Ready(w)
      BY <1>3, <3>1 DEF Check, LiveTypes
    <3>2. CASE ~Ready(w)
      <4>1. worker'[w] = [worker[w] EXCEPT !.at = "asleep"]
        BY <1>3, <3>2 DEF Check, LiveTypes
      <4>2. worker'[w].last = worker[w].last
        BY <4>1, <3>0 DEF WorkerState
      <4> QED
        BY <4>2, <3>2, <2>1, <2>2 DEF Ready, Wanted
    <3> QED
      BY <3>1, <3>2
  <2> QED
    BY <2>3, <2>4 DEF NobodyOversleeps
<1>4. ASSUME NEW w \in Workers, Work(w) PROVE NobodyOversleeps'
  <2>1. Unlocked' <=> Unlocked
    BY <1>4 DEF Work, gate, Unlocked
  <2>2. UNCHANGED <<latest, watching, lapsed>>
    BY <1>4 DEF Work
  <2>3. ASSUME NEW v \in Workers, v # w, worker'[v].at = "asleep", Ready(v)' PROVE v = "privacy" /\ lapsed'
    <3>1. worker'[v] = worker[v]
      BY <1>4, <2>3 DEF Work, LiveTypes
    <3> QED
      BY <2>1, <2>2, <2>3, <3>1, <1>c DEF NobodyOversleeps
  <2>4. worker'[w].at # "asleep"
    <3>1. worker[w] \in WorkerState
      BY DEF LiveTypes
    <3>2. worker'[w] = [worker[w] EXCEPT !.at = "check", !.frame = NoFrame]
      BY <1>4 DEF Work, LiveTypes
    <3> QED
      BY <3>1, <3>2 DEF WorkerState
  <2> QED
    BY <2>3, <2>4 DEF NobodyOversleeps
<1>5. ASSUME NEW s \in Streams, Leave(s) PROVE NobodyOversleeps'
  <2>1. Unlocked' <=> Unlocked
    BY <1>5 DEF Leave, gate, Unlocked
  <2>2. UNCHANGED <<latest, worker, lapsed>> /\ watching' \subseteq watching
    BY <1>5 DEF Leave
  <2>3. \A w \in Workers : Ready(w)' => Ready(w)
    BY <2>1, <2>2 DEF Ready, Wanted
  <2> QED
    BY <2>2, <2>3 DEF NobodyOversleeps
<1>6. CASE Lapse
  <2>1. UNCHANGED <<latest, watching, worker>> /\ lapsed'
    BY <1>6 DEF Lapse, sends
  <2>2. ASSUME NEW w \in Workers, worker'[w].at = "asleep", Ready(w)' PROVE w = "privacy"
    BY <2>1, <2>2, <1>c DEF NobodyOversleeps
  <2> QED
    BY <2>1, <2>2 DEF NobodyOversleeps
<1>7. ASSUME NEW q \in describing, NEW found \in BOOLEAN, Described(q, found) PROVE NobodyOversleeps'
  <2>1. CASE IsCurrent(q)
    BY <1>7, <2>1, <1>n DEF Described
  <2>2. CASE ~IsCurrent(q)
    BY <1>7, <2>2, <1>s DEF Described, sends
  <2> QED
    BY <2>1, <2>2
<1>8. CASE UNCHANGED liveVars
  BY <1>8, <1>s DEF liveVars, gate, sends
<1> QED
  BY <1>1, <1>2, <1>3, <1>4, <1>5, <1>6, <1>7, <1>8 DEF LiveNext

(* The numbers the order of the boxes compares are numbers.                 *)
LEMMA OrderTyped ==
  ASSUME LiveTypes
  PROVE  /\ Newest \in Nat /\ rgb.seq \in Nat /\ shown \in Nat /\ worker["detection"].last \in Nat
         /\ worker["detection"] \in WorkerState
         /\ \A m \in Messages : m.frame.seq \in Nat
         /\ \A i \in DOMAIN posted : posted[i] \in Messages
         /\ \A s \in Streams : \A m \in sending[s] : m \in Messages
         /\ "detection" \in Workers /\ "detection" \in Streams
<1>1. "detection" \in Workers /\ "detection" \in Streams
  BY DEF Workers, Streams
<1>2. worker["detection"] \in WorkerState /\ worker["detection"].last \in Nat
  BY <1>1 DEF LiveTypes, WorkerState
<1>3. Newest \in Nat
  BY DEF LiveTypes, Newest, Frame
<1>4. \A m \in Messages : m.frame.seq \in Nat
  BY DEF Messages, Frame
<1> QED
  BY <1>1, <1>2, <1>3, <1>4 DEF LiveTypes

(* A message posted last keeps the order if it is of another stream, or     *)
(* shows the frame the detector took last.                                  *)
LEMMA OrderPosted ==
  ASSUME LiveTypes, OrderInv, NEW m \in Messages, posted' = Append(posted, m), UNCHANGED <<sending, shown, latest>>,
         rgb'.seq = rgb.seq, worker'["detection"].last = worker["detection"].last,
         worker'["detection"].at = "work" => worker'["detection"].frame.seq = worker["detection"].last,
         Boxes(m) => m.frame.seq = worker["detection"].last
  PROVE  OrderInv'
<1> DEFINE last == worker["detection"].last
           new == Len(posted) + 1
<1>t. /\ DOMAIN posted = 1..Len(posted) /\ DOMAIN posted' = 1..new /\ posted'[new] = m /\ Len(posted) \in Nat
      /\ \A i \in DOMAIN posted : posted'[i] = posted[i]
  BY PostAdds DEF LiveTypes
<1>n. Newest' = Newest
  BY DEF Newest
<1>1. ASSUME NEW i \in DOMAIN posted', Boxes(posted'[i])
      PROVE  /\ shown <= posted'[i].frame.seq /\ posted'[i].frame.seq <= last
             /\ \A n \in sending["detection"] : n.frame.seq <= posted'[i].frame.seq
  <2>1. CASE i \in DOMAIN posted
    BY <1>1, <1>t, <2>1 DEF OrderInv
  <2>2. CASE i = new
    BY <1>1, <1>t, <2>2, OrderTyped DEF OrderInv
  <2> QED
    BY <1>t, <2>1, <2>2
<1>2. ASSUME NEW i \in DOMAIN posted', NEW j \in DOMAIN posted', Boxes(posted'[i]), i < j, Boxes(posted'[j])
      PROVE  posted'[i].frame.seq <= posted'[j].frame.seq
  <2>1. i \in DOMAIN posted
    BY <1>2, <1>t
  <2>2. CASE j \in DOMAIN posted
    BY <1>2, <1>t, <2>1, <2>2 DEF OrderInv
  <2>3. CASE j = new
    BY <1>1, <1>2, <1>t, <2>3
  <2> QED
    BY <1>t, <2>2, <2>3
<1> QED
  BY <1>1, <1>2, <1>n DEF OrderInv, Boxes

(* Boxes come in the order of their frames, and what the viewer has been    *)
(* shown only gets newer.                                                   *)
LEMMA OrderHeld ==
  ASSUME LiveTypes, OrderInv, [LiveNext]_liveVars
  PROVE  OrderInv' /\ shown' >= shown
<1> DEFINE d == worker["detection"]
<1>t. LiveTypes'
  BY LiveTyped
<1>y. Newest \in Nat /\ Newest' \in Nat /\ rgb.seq \in Nat /\ rgb'.seq \in Nat /\ shown \in Nat /\ d.last \in Nat /\ (d.last)' \in Nat
      /\ d \in WorkerState
  <2>1. worker'["detection"] \in WorkerState /\ latest' \in Frame \cup {NoFrame} /\ rgb'.seq \in Nat
    BY <1>t, OrderTyped DEF LiveTypes
  <2>2. Newest' \in Nat
    BY <2>1 DEF Newest, Frame
  <2>3. (d.last)' \in Nat
    BY <2>1 DEF WorkerState
  <2> QED
    BY <2>1, <2>2, <2>3, OrderTyped
<1>q. ASSUME UNCHANGED <<posted, sending, shown>>, Newest' <= rgb'.seq, (d.last)' <= Newest', d.last <= (d.last)',
             (d.at = "work" => d.frame.seq = d.last)'
      PROVE  OrderInv' /\ shown' >= shown
  <2>1. \A s \in Streams : \A m \in sending[s] : m.frame.seq \in Nat
    BY OrderTyped
  <2>2. \A i \in DOMAIN posted : posted[i].frame.seq \in Nat
    BY OrderTyped
  <2>3. shown <= (d.last)'
    BY <1>q, <1>y DEF OrderInv
  <2>4. \A m \in sending["detection"] : shown <= m.frame.seq /\ m.frame.seq <= (d.last)'
    BY <1>q, <1>y, <2>1, OrderTyped DEF OrderInv
  <2>5. \A i \in DOMAIN posted : Boxes(posted[i]) => shown <= posted[i].frame.seq /\ posted[i].frame.seq <= (d.last)'
    BY <1>q, <1>y, <2>2 DEF OrderInv
  <2> QED
    BY <1>q, <1>y, <2>3, <2>4, <2>5 DEF OrderInv, Boxes
<1>n. ASSUME Notify PROVE (d.last)' = d.last /\ (d.frame)' = d.frame /\ ((d.at)' = "work" <=> d.at = "work")
  BY <1>n, NotifyWakes, OrderTyped
<1>s. ASSUME UNCHANGED <<posted, sending, shown, latest>>, rgb'.seq >= rgb.seq, (d.last)' = d.last, (d.frame)' = d.frame, (d.at)' = "work" <=> d.at = "work"
      PROVE  OrderInv' /\ shown' >= shown
  <2>1. Newest' = Newest
    BY <1>s DEF Newest
  <2>2. Newest <= rgb.seq /\ d.last <= Newest /\ (d.at = "work" => d.frame.seq = d.last)
    BY DEF OrderInv
  <2> QED
    BY <1>s, <1>y, <1>q, <2>1, <2>2
<1>1. CASE Decode
  <2>1. rgb'.seq = rgb.seq + 1
    BY <1>1 DEF Decode
  <2> QED
    BY <1>1, <2>1, <1>y, <1>s DEF Decode, sends
<1>2. CASE PublishFrame
  <2>1. latest' = rgb.frame /\ rgb'.seq = rgb.seq /\ Notify /\ UNCHANGED <<posted, sending, shown>>
    BY <1>2 DEF PublishFrame, LiveTypes, sends
  <2>2. rgb.frame \in Frame /\ rgb.frame.seq = rgb.seq /\ rgb.frame # NoFrame
    BY <1>2, LiveAssumption DEF PublishFrame, LiveTypes
  <2>3. Newest' = rgb.seq
    BY <2>1, <2>2 DEF Newest
  <2>4. Newest <= rgb.seq /\ d.last <= Newest /\ (d.at = "work" => d.frame.seq = d.last)
    BY DEF OrderInv
  <2> QED
    BY <2>1, <2>3, <2>4, <1>n, <1>q, <1>y
<1>3. CASE EmitRaw
  <2> DEFINE m == Message("rgb", TRUE, rgb.frame)
  <2>1. UNCHANGED <<latest, worker, sending, shown>> /\ rgb'.seq = rgb.seq
    BY <1>3 DEF EmitRaw, Turn
  <2>2. CASE UNCHANGED posted
    BY <2>1, <2>2, <1>y, <1>s
  <2>3. CASE posted' = Append(posted, m)
    <3>1. m \in Messages /\ ~Boxes(m)
      BY <1>3 DEF EmitRaw, Message, Messages, Streams, LiveTypes, Boxes
    <3>2. d.at = "work" => d.frame.seq = d.last
      BY DEF OrderInv
    <3> HIDE DEF m
    <3> QED
      BY <2>1, <2>3, <3>1, <3>2, OrderPosted, <1>y
  <2> QED
    BY <1>3, <2>2, <2>3 DEF EmitRaw, Post
<1>4. CASE Dispatch
  <2> DEFINE m == Head(posted)
  <2>1. UNCHANGED <<latest, worker, shown, rgb>>
    BY <1>4 DEF Dispatch
  <2>2. Newest' = Newest
    BY <2>1 DEF Newest
  <2>3. m \in Messages /\ m = posted[1] /\ 1 \in DOMAIN posted /\ m.stream \in Streams
        /\ \A i \in DOMAIN posted' : i \in Nat /\ i + 1 \in DOMAIN posted /\ posted'[i] = posted[i + 1] /\ i >= 1
    <3>1. \A i \in DOMAIN posted' : i >= 1
      BY <1>t DEF LiveTypes
    <3> QED
      BY <1>4, <3>1, DispatchTakes DEF Dispatch, LiveTypes, Messages
  <2>4. \/ sending' = sending
        \/ sending[m.stream] = {} /\ sending' = [sending EXCEPT ![m.stream] = @ \cup {m}]
    BY <1>4 DEF Dispatch, MaySend
  <2> HIDE DEF m
  <2>5. \A s \in Streams : \A n \in sending'[s] : n \in sending[s] \/ (n = m /\ s = m.stream /\ sending[s] = {})
    BY <2>3, <2>4 DEF LiveTypes
  <2>6. \A s \in Streams : \A n \in sending'[s] : n.stream = s
    BY <2>5 DEF OrderInv
  <2>7. \A n1, n2 \in sending'["detection"] : n1 = n2
    BY <2>5, OrderTyped DEF OrderInv
  <2>8. Boxes(m) => /\ shown <= m.frame.seq /\ m.frame.seq <= d.last
                    /\ \A i \in DOMAIN posted' : Boxes(posted'[i]) => m.frame.seq <= posted'[i].frame.seq
    <3>1. \A i \in DOMAIN posted' : 1 < i + 1
      BY <2>3
    <3> QED
      BY <2>3, <3>1 DEF OrderInv
  <2>9. \A n \in sending'["detection"] : shown <= n.frame.seq /\ n.frame.seq <= d.last
    BY <2>5, <2>8, OrderTyped DEF OrderInv, Boxes
  <2>10. ASSUME NEW i \in DOMAIN posted', Boxes(posted'[i])
         PROVE  /\ shown <= posted'[i].frame.seq /\ posted'[i].frame.seq <= d.last
                /\ \A n \in sending'["detection"] : n.frame.seq <= posted'[i].frame.seq
                /\ \A j \in DOMAIN posted' : i < j /\ Boxes(posted'[j]) => posted'[i].frame.seq <= posted'[j].frame.seq
    <3>1. shown <= posted'[i].frame.seq /\ posted'[i].frame.seq <= d.last
      BY <2>3, <2>10 DEF OrderInv
    <3>2. \A n \in sending["detection"] : n.frame.seq <= posted'[i].frame.seq
      BY <2>3, <2>10 DEF OrderInv
    <3>3. \A n \in sending'["detection"] : n.frame.seq <= posted'[i].frame.seq
      BY <2>5, <2>8, <2>10, <3>2, OrderTyped DEF Boxes
    <3>4. ASSUME NEW j \in DOMAIN posted', i < j, Boxes(posted'[j]) PROVE posted'[i].frame.seq <= posted'[j].frame.seq
      <4>1. i + 1 < j + 1
        BY <2>3, <3>4
      <4> QED
        BY <2>3, <2>10, <3>4, <4>1 DEF OrderInv
    <3> QED
      BY <3>1, <3>3, <3>4
  <2>11. Newest <= rgb.seq /\ d.last <= Newest /\ shown <= d.last /\ (d.at = "work" => d.frame.seq = d.last)
    BY DEF OrderInv
  <2> QED
    BY <2>1, <2>2, <2>6, <2>7, <2>9, <2>10, <2>11, <1>y DEF OrderInv, Boxes
<1>5. ASSUME NEW w \in Workers, Check(w) PROVE OrderInv' /\ shown' >= shown
  <2>1. UNCHANGED <<latest, rgb, posted, sending, shown>>
    BY <1>5 DEF Check, sends
  <2>2. Newest' = Newest
    BY <2>1 DEF Newest
  <2>3. Newest <= rgb.seq /\ d.last <= Newest /\ (d.at = "work" => d.frame.seq = d.last)
    BY DEF OrderInv
  <2>4. CASE w # "detection"
    <3>1. worker'["detection"] = worker["detection"]
      BY <1>5, <2>4 DEF Check, LiveTypes
    <3> QED
      BY <2>1, <3>1, <1>s, <1>y
  <2>5. CASE w = "detection" /\ Ready(w)
    <3>1. worker'["detection"] = [at |-> "work", last |-> latest.seq, frame |-> latest]
      BY <1>5, <2>5 DEF Check, LiveTypes
    <3>2. Newest = latest.seq
      BY <2>5 DEF Ready, Newest
    <3> QED
      BY <2>1, <2>2, <2>3, <3>1, <3>2, <1>q, <1>y
  <2>6. CASE w = "detection" /\ ~Ready(w)
    <3>1. worker'["detection"] = [worker["detection"] EXCEPT !.at = "asleep"]
      BY <1>5, <2>6 DEF Check, LiveTypes
    <3>2. (d.last)' = d.last /\ (d.at)' = "asleep"
      BY <3>1, <1>y DEF WorkerState
    <3> QED
      BY <2>1, <2>2, <2>3, <3>2, <1>q, <1>y
  <2> QED
    BY <2>4, <2>5, <2>6
<1>6. ASSUME NEW w \in Workers, Work(w) PROVE OrderInv' /\ shown' >= shown
  <2>1. UNCHANGED <<latest, rgb, sending, shown>>
    BY <1>6 DEF Work
  <2>2. worker[w].at = "work" /\ worker' = [worker EXCEPT ![w] = [@ EXCEPT !.at = "check", !.frame = NoFrame]]
    BY <1>6 DEF Work
  <2>3. d.at = "work" => d.frame.seq = d.last
    BY DEF OrderInv
  <2>4. (d.last)' = d.last /\ ((d.at)' = "work" => (d.frame)' = d.frame /\ d.at = "work")
    <3>1. CASE w # "detection"
      BY <2>2, <3>1, OrderTyped DEF LiveTypes
    <3>2. CASE w = "detection"
      <4>1. worker'["detection"] = [worker["detection"] EXCEPT !.at = "check", !.frame = NoFrame]
        BY <2>2, <3>2 DEF LiveTypes
      <4> QED
        BY <4>1, <1>y DEF WorkerState
    <3> QED
      BY <3>1, <3>2
  <2>5. CASE posted' = posted
    <3>1. Newest' = Newest
      BY <2>1 DEF Newest
    <3>2. Newest <= rgb.seq /\ d.last <= Newest
      BY DEF OrderInv
    <3> QED
      BY <2>1, <2>3, <2>4, <2>5, <3>1, <3>2, <1>q, <1>y
  <2>6. CASE \E m \in Messages : posted' = Append(posted, m) /\ m.stream = StreamOf[w] /\ m.frame = worker[w].frame
    <3>1. PICK m \in Messages : posted' = Append(posted, m) /\ m.stream = StreamOf[w] /\ m.frame = worker[w].frame
      BY <2>6
    <3>2. Boxes(m) => m.frame.seq = d.last
      BY <3>1, <2>2, <2>3 DEF Boxes, StreamOf, Workers
    <3> QED
      BY <2>1, <2>3, <2>4, <3>1, <3>2, <1>y, OrderPosted
  <2> QED
    BY <1>6, <2>5, <2>6, WorkPosts
<1>7. ASSUME NEW s \in Streams, Sent(s) PROVE OrderInv' /\ shown' >= shown
  <2>1. PICK m \in sending[s] : sending' = [sending EXCEPT ![s] = @ \ {m}] /\ shown' = IF s = "detection" THEN m.frame.seq ELSE shown
    BY <1>7 DEF Sent
  <2>2. UNCHANGED <<latest, rgb, worker, posted>>
    BY <1>7 DEF Sent
  <2>3. Newest' = Newest
    BY <2>2 DEF Newest
  <2>4. \A t \in Streams : sending'[t] \subseteq sending[t]
    BY <2>1 DEF LiveTypes
  <2>5. Newest <= rgb.seq /\ d.last <= Newest /\ shown <= d.last /\ (d.at = "work" => d.frame.seq = d.last)
    BY DEF OrderInv
  <2>6. \A t \in Streams : \A n \in sending'[t] : n.stream = t
    BY <2>4 DEF OrderInv
  <2>7. CASE s = "detection"
    <3>1. shown' = m.frame.seq /\ shown <= m.frame.seq /\ m.frame.seq <= d.last /\ m.frame.seq \in Nat
      BY <2>1, <2>7, OrderTyped DEF OrderInv
    <3>2. sending'["detection"] = {}
      BY <2>1, <2>7 DEF OrderInv, LiveTypes
    <3>3. \A i \in DOMAIN posted : Boxes(posted[i]) =>
            /\ m.frame.seq <= posted[i].frame.seq /\ posted[i].frame.seq <= d.last
            /\ \A j \in DOMAIN posted : i < j /\ Boxes(posted[j]) => posted[i].frame.seq <= posted[j].frame.seq
      BY <2>1, <2>7 DEF OrderInv
    <3> QED
      BY <2>2, <2>3, <2>5, <2>6, <3>1, <3>2, <3>3, <1>y DEF OrderInv, Boxes
  <2>8. CASE s # "detection"
    <3>1. shown' = shown /\ sending'["detection"] = sending["detection"]
      BY <2>1, <2>8 DEF LiveTypes
    <3> QED
      BY <2>2, <2>3, <2>6, <3>1, <1>y DEF OrderInv, Boxes
  <2> QED
    BY <2>7, <2>8
<1>8. ASSUME NEW s \in Streams, Leave(s) PROVE OrderInv' /\ shown' >= shown
  <2>1. UNCHANGED <<latest, rgb, worker, posted, shown>> /\ sending' = [sending EXCEPT ![s] = {}]
    BY <1>8 DEF Leave
  <2>2. Newest' = Newest
    BY <2>1 DEF Newest
  <2>3. \A t \in Streams : sending'[t] \subseteq sending[t]
    BY <2>1 DEF LiveTypes
  <2>4. sending'["detection"] \subseteq sending["detection"]
    BY <2>3, OrderTyped
  <2> QED
    BY <2>1, <2>2, <2>3, <2>4, <1>y DEF OrderInv, Boxes
<1>9. CASE SetSource \/ Reveal \/ \E s \in Streams : Join(s)
  <2>1. Notify /\ UNCHANGED <<latest, rgb, posted, sending, shown>>
    BY <1>9 DEF SetSource, Reveal, Join, OnJoin, sends
  <2> QED
    BY <2>1, <1>n, <1>s, <1>y
<1>10. CASE PauseOrResume \/ Lapse \/ Describe
  BY <1>10, <1>s, <1>y DEF PauseOrResume, Lapse, Describe, sends
<1>11. ASSUME NEW q \in describing, NEW found \in BOOLEAN, Described(q, found) PROVE OrderInv' /\ shown' >= shown
  <2>1. UNCHANGED <<latest, rgb, posted, sending, shown>> /\ (Notify \/ UNCHANGED worker)
    BY <1>11 DEF Described, sends
  <2> QED
    BY <2>1, <1>n, <1>s, <1>y
<1>12. CASE UNCHANGED liveVars
  BY <1>12, <1>s, <1>y DEF liveVars, sends
<1> QED
  BY <1>1, <1>2, <1>3, <1>4, <1>5, <1>6, <1>7, <1>8, <1>9, <1>10, <1>11, <1>12 DEF LiveNext

(* It all holds before anything has happened, and every step keeps it.      *)
LEMMA LiveInductive == LiveSpec => [](LiveInv) /\ BoxesInOrder
<1>1. LiveInit => LiveInv
  <2> SUFFICES ASSUME LiveInit PROVE LiveInv
    OBVIOUS
  <2>1. LiveTypes
    <3>1. -1 \in Int
      OBVIOUS
    <3>2. worker \in [Workers -> WorkerState] /\ \A w \in Workers : worker[w].at = "check"
      BY DEF LiveInit, WorkerState
    <3>3. rgb \in [at : {"turn", "publish", "emit"}, frame : Frame \cup {NoFrame}, seq : Nat] /\ rgb.at = "turn"
      BY DEF LiveInit, Turn
    <3>4. posted \in Seq(Messages) /\ sending \in [Streams -> SUBSET Messages] /\ describing \subseteq [clip : Nat, gen : Nat]
      BY DEF LiveInit
    <3>5. generation \in Nat /\ revealed \in BOOLEAN /\ shown \in Nat /\ latest \in Frame \cup {NoFrame}
      BY DEF LiveInit
    <3>6. hazard \in Int /\ unlockedAt \in Int
      BY <3>1 DEF LiveInit
    <3> QED
      BY <3>2, <3>3, <3>4, <3>5, <3>6 DEF LiveTypes
  <2>2. LockInv
    BY DEF LiveInit, LockInv, Unlocked
  <2>3. OrderInv
    BY DEF LiveInit, OrderInv, Newest, Turn, Workers, Streams
  <2>4. NobodyOversleeps
    BY DEF LiveInit, NobodyOversleeps
  <2> QED
    BY <2>1, <2>2, <2>3, <2>4 DEF LiveInv
<1>2. LiveInv /\ [LiveNext]_liveVars => LiveInv'
  BY LiveTyped, LockHeld, OrderHeld, NobodyOversleepsHeld DEF LiveInv
<1>3. LiveInv /\ [LiveNext]_liveVars => [shown' >= shown]_shown
  BY OrderHeld DEF LiveInv
<1> QED
  BY <1>1, <1>2, <1>3, PTL DEF LiveSpec, BoxesInOrder

(* The raw feed opens by an unlock only: no raw frame is on the way to a    *)
(* viewer of a clip that nobody has unlocked since it was chosen.  No       *)
(* worker sleeps on what it waits for, and boxes come in order.             *)
THEOREM LiveTheorem == LiveSpec => LivePromise
<1>1. LiveInv => RawWasUnlocked /\ NobodyOversleeps
  <2> SUFFICES ASSUME LiveInv, NEW m \in OnTheWay, m.raw PROVE unlockedAt >= m.frame.clip
    BY DEF LiveInv, RawWasUnlocked
  <2>1. CASE \E i \in DOMAIN posted : m = posted[i]
    BY <2>1 DEF LiveInv, LockInv, Cleared
  <2>2. CASE \E s \in Streams : m \in sending[s]
    BY <2>2 DEF LiveInv, LockInv, Cleared
  <2> QED
    BY <2>1, <2>2 DEF OnTheWay
<1> QED
  BY <1>1, LiveInductive, PTL DEF LivePromise
-----------------------------------------------------------------------------
(* Whatever a frame carries: decodeFrame() reads every field at the place   *)
(* and in the width pack_frame() laid it, to the last byte, and takes no    *)
(* frame that was cut short (live.py:94-145, useLiveCloudStream.ts:116-186).*)
THEOREM FrameTheorem ==
  ASSUME NEW n \in Nat, NEW b \in Nat
  PROVE  FrameIsRead(n, b)
<1>1. ReadsAsLaid(HEADER_STRUCT, HeaderReads, HEADER_BYTES)
  BY DEF ReadsAsLaid, HEADER_STRUCT, HeaderReads, HEADER_BYTES, Field, Span
<1>2. ReadsAsLaid(BLOB_STRUCT, BlobReads, BLOB_BYTES)
  BY DEF ReadsAsLaid, BLOB_STRUCT, BlobReads, BLOB_BYTES, Field, Span
<1>3. ReadsAsLaid(pack_frame(n, b), BodyReads(n, b), FrameLength(n, b))
  BY DEF ReadsAsLaid, pack_frame, BodyReads, FrameLength, body, HEADER_BYTES, BLOB_BYTES, Field, Span
<1>4. HEADER_BYTES % 2 = 0
  BY DEF HEADER_BYTES
<1>5. FrameLength(n, b) = body(n) + b * BLOB_BYTES /\ body(n) \in Nat /\ b * BLOB_BYTES \in Nat /\ body(n) >= HEADER_BYTES
  BY DEF FrameLength, body, HEADER_BYTES, BLOB_BYTES
<1>6. QED
  BY <1>1, <1>2, <1>3, <1>4, <1>5 DEF FrameIsRead, decodeFrame, HEADER_BYTES

-----------------------------------------------------------------------------
(* The point cloud.  A path of messages is what is under way, in order: of  *)
(* the frames above lo and up to hi, of what was said all from h + 1 to s.  *)
CloudMessages == [kind : KINDS, index : Nat]
OnPath(m, lo, hi, h, s) == IF IsFrame(m) THEN lo < m.index /\ m.index <= hi ELSE h < m.index /\ m.index <= s
SameSort(m, n) == IsFrame(m) <=> IsFrame(n)
Path(u, lo, hi, h, s) ==
  /\ u \in Seq(CloudMessages)
  /\ \A i \in 1..Len(u) : OnPath(u[i], lo, hi, h, s)
  /\ \A i, j \in 1..Len(u) : i < j /\ SameSort(u[i], u[j]) => u[i].index < u[j].index
  /\ \A n \in (h + 1)..s : \E i \in 1..Len(u) : Control(u[i]) /\ u[i].index = n

(* What the browser will show once it has all of u, if it shows v now.      *)
IsGround(m) == m.kind \in {"levelled", "unlevelled"}
Shows(u, v, b) ==
  \/ v = b /\ \A i \in 1..Len(u) : ~IsGround(u[i])
  \/ \E i \in 1..Len(u) : u[i].kind = Ground(b) /\ \A j \in (i + 1)..Len(u) : ~IsGround(u[j])

(* What is said first is the hello, or a refusal.                           *)
Greeting(m) == m.kind \in {"hello", "failure"}

LEMMA MessageIsTyped ==
  ASSUME NEW m \in CloudMessages
  PROVE  m.kind \in KINDS /\ m.index \in Nat /\ (Control(m) <=> ~IsFrame(m))
  BY DEF CloudMessages, Control

LEMMA PathIs ==
  ASSUME NEW u, NEW lo, NEW hi, NEW h, NEW s, Path(u, lo, hi, h, s)
  PROVE  /\ u \in Seq(CloudMessages) /\ Len(u) \in Nat /\ DOMAIN u = 1..Len(u)
         /\ \A i \in 1..Len(u) : u[i] \in CloudMessages /\ u[i].index \in Nat
<1>1. u \in Seq(CloudMessages)
  BY DEF Path
<1>2. \A i \in 1..Len(u) : u[i] \in CloudMessages
  BY <1>1, ElementOfSeq
<1> QED
  BY <1>1, <1>2, LenProperties, MessageIsTyped

LEMMA NextFrame ==
  ASSUME NEW u, NEW lo \in Int, NEW hi \in Nat, NEW h \in Nat, NEW s \in Nat, Path(u, lo, hi, h, s), lo <= hi,
         NEW m \in CloudMessages, IsFrame(m), m.index = hi + 1
  PROVE  Path(Append(u, m), lo, hi + 1, h, s)
<1> DEFINE w == Append(u, m)
<1>1. /\ u \in Seq(CloudMessages) /\ Len(u) \in Nat /\ \A i \in 1..Len(u) : u[i] \in CloudMessages /\ u[i].index \in Nat
  BY PathIs
<1>2. w \in Seq(CloudMessages) /\ Len(w) = Len(u) + 1 /\ w[Len(u) + 1] = m /\ \A i \in 1..Len(u) : w[i] = u[i]
  BY <1>1, AppendProperties
<1> HIDE DEF w
<1>3. \A i \in 1..Len(u) : OnPath(u[i], lo, hi, h, s)
  BY DEF Path
<1>4. \A i \in 1..Len(w) : OnPath(w[i], lo, hi + 1, h, s)
  BY <1>1, <1>2, <1>3 DEF OnPath
<1>5. \A i, j \in 1..Len(w) : i < j /\ SameSort(w[i], w[j]) => w[i].index < w[j].index
  <2> SUFFICES ASSUME NEW i \in 1..Len(w), NEW j \in 1..Len(w), i < j, SameSort(w[i], w[j]) PROVE w[i].index < w[j].index
    OBVIOUS
  <2>1. i \in 1..Len(u) /\ w[i] = u[i]
    BY <1>1, <1>2
  <2>2. CASE j = Len(u) + 1
    <3>1. w[j] = m
      BY <1>2, <2>2
    <3>2. OnPath(u[i], lo, hi, h, s) /\ u[i].index \in Nat
      BY <1>1, <1>3, <2>1
    <3> QED
      BY <2>1, <3>1, <3>2 DEF SameSort, OnPath
  <2>3. CASE j # Len(u) + 1
    <3>1. j \in 1..Len(u) /\ w[j] = u[j]
      BY <1>1, <1>2, <2>3
    <3> QED
      BY <2>1, <3>1 DEF Path
  <2> QED
    BY <2>2, <2>3
<1>6. \A n \in (h + 1)..s : \E i \in 1..Len(w) : Control(w[i]) /\ w[i].index = n
  <2> SUFFICES ASSUME NEW n \in (h + 1)..s PROVE \E i \in 1..Len(w) : Control(w[i]) /\ w[i].index = n
    OBVIOUS
  <2>1. PICK i \in 1..Len(u) : Control(u[i]) /\ u[i].index = n
    BY DEF Path
  <2>2. i \in 1..Len(w) /\ w[i] = u[i]
    BY <1>1, <1>2
  <2> QED
    BY <2>1, <2>2
<1> QED
  BY <1>2, <1>4, <1>5, <1>6 DEF Path, w

LEMMA NextSaid ==
  ASSUME NEW u, NEW lo \in Int, NEW hi \in Nat, NEW h \in Nat, NEW s \in Nat, Path(u, lo, hi, h, s), h <= s,
         NEW m \in CloudMessages, Control(m), m.index = s + 1
  PROVE  Path(Append(u, m), lo, hi, h, s + 1)
<1> DEFINE w == Append(u, m)
<1>1. /\ u \in Seq(CloudMessages) /\ Len(u) \in Nat /\ \A i \in 1..Len(u) : u[i] \in CloudMessages /\ u[i].index \in Nat
  BY PathIs
<1>2. w \in Seq(CloudMessages) /\ Len(w) = Len(u) + 1 /\ w[Len(u) + 1] = m /\ \A i \in 1..Len(u) : w[i] = u[i]
  BY <1>1, AppendProperties
<1> HIDE DEF w
<1>3. \A i \in 1..Len(u) : OnPath(u[i], lo, hi, h, s)
  BY DEF Path
<1>4. \A i \in 1..Len(w) : OnPath(w[i], lo, hi, h, s + 1)
  BY <1>1, <1>2, <1>3 DEF OnPath, Control
<1>5. \A i, j \in 1..Len(w) : i < j /\ SameSort(w[i], w[j]) => w[i].index < w[j].index
  <2> SUFFICES ASSUME NEW i \in 1..Len(w), NEW j \in 1..Len(w), i < j, SameSort(w[i], w[j]) PROVE w[i].index < w[j].index
    OBVIOUS
  <2>1. i \in 1..Len(u) /\ w[i] = u[i]
    BY <1>1, <1>2
  <2>2. CASE j = Len(u) + 1
    <3>1. w[j] = m
      BY <1>2, <2>2
    <3>2. OnPath(u[i], lo, hi, h, s) /\ u[i].index \in Nat
      BY <1>1, <1>3, <2>1
    <3> QED
      BY <2>1, <3>1, <3>2 DEF SameSort, OnPath, Control
  <2>3. CASE j # Len(u) + 1
    <3>1. j \in 1..Len(u) /\ w[j] = u[j]
      BY <1>1, <1>2, <2>3
    <3> QED
      BY <2>1, <3>1 DEF Path
  <2> QED
    BY <2>2, <2>3
<1>6. \A n \in (h + 1)..(s + 1) : \E i \in 1..Len(w) : Control(w[i]) /\ w[i].index = n
  <2> SUFFICES ASSUME NEW n \in (h + 1)..(s + 1) PROVE \E i \in 1..Len(w) : Control(w[i]) /\ w[i].index = n
    OBVIOUS
  <2>1. CASE n = s + 1
    BY <1>1, <1>2, <2>1
  <2>2. CASE n # s + 1
    <3>1. n \in (h + 1)..s
      BY <2>2
    <3>2. PICK i \in 1..Len(u) : Control(u[i]) /\ u[i].index = n
      BY <3>1 DEF Path
    <3>3. i \in 1..Len(w) /\ w[i] = u[i]
      BY <1>1, <1>2
    <3> QED
      BY <3>2, <3>3
  <2> QED
    BY <2>1, <2>2
<1> QED
  BY <1>2, <1>4, <1>5, <1>6 DEF Path, w

(* The first message is the next frame, or what was said next.              *)
LEMMA FirstFrame ==
  ASSUME NEW u, NEW lo \in Int, NEW hi \in Nat, NEW h \in Nat, NEW s \in Nat, Path(u, lo, hi, h, s), u # <<>>, IsFrame(u[1])
  PROVE  lo < u[1].index /\ u[1].index <= hi /\ Path(Tail(u), u[1].index, hi, h, s)
<1> DEFINE w == Tail(u)
<1>1. /\ u \in Seq(CloudMessages) /\ Len(u) \in Nat /\ \A i \in 1..Len(u) : u[i] \in CloudMessages /\ u[i].index \in Nat
  BY PathIs
<1>2. w \in Seq(CloudMessages) /\ Len(w) = Len(u) - 1 /\ Len(u) >= 1 /\ \A i \in 1..Len(w) : w[i] = u[i + 1]
  BY <1>1, HeadTailProperties, EmptySeq
<1> HIDE DEF w
<1>3. \A i \in 1..Len(u) : OnPath(u[i], lo, hi, h, s)
  BY DEF Path
<1>4. 1 \in 1..Len(u) /\ lo < u[1].index /\ u[1].index <= hi
  BY <1>1, <1>2, <1>3 DEF OnPath
<1>5. \A i, j \in 1..Len(u) : i < j /\ SameSort(u[i], u[j]) => u[i].index < u[j].index
  BY DEF Path
<1>6. \A i \in 1..Len(w) : OnPath(w[i], u[1].index, hi, h, s)
  <2> SUFFICES ASSUME NEW i \in 1..Len(w) PROVE OnPath(w[i], u[1].index, hi, h, s)
    OBVIOUS
  <2>1. i + 1 \in 1..Len(u) /\ 1 < i + 1 /\ w[i] = u[i + 1]
    BY <1>1, <1>2
  <2>2. SameSort(u[1], u[i + 1]) => u[1].index < u[i + 1].index
    BY <1>4, <1>5, <2>1
  <2> QED
    BY <1>3, <2>1, <2>2 DEF OnPath, SameSort
<1>7. \A i, j \in 1..Len(w) : i < j /\ SameSort(w[i], w[j]) => w[i].index < w[j].index
  <2> SUFFICES ASSUME NEW i \in 1..Len(w), NEW j \in 1..Len(w), i < j, SameSort(w[i], w[j]) PROVE w[i].index < w[j].index
    OBVIOUS
  <2>1. /\ i + 1 \in 1..Len(u) /\ j + 1 \in 1..Len(u) /\ i + 1 < j + 1
        /\ w[i] = u[i + 1] /\ w[j] = u[j + 1]
    BY <1>1, <1>2
  <2> QED
    BY <1>5, <2>1
<1>8. \A n \in (h + 1)..s : \E i \in 1..Len(w) : Control(w[i]) /\ w[i].index = n
  <2> SUFFICES ASSUME NEW n \in (h + 1)..s PROVE \E i \in 1..Len(w) : Control(w[i]) /\ w[i].index = n
    OBVIOUS
  <2>1. PICK i \in 1..Len(u) : Control(u[i]) /\ u[i].index = n
    BY DEF Path
  <2>2. i # 1
    BY <2>1 DEF Control
  <2>3. i - 1 \in 1..Len(w) /\ w[i - 1] = u[i]
    BY <1>1, <1>2, <2>2
  <2> QED
    BY <2>1, <2>3
<1> QED
  BY <1>2, <1>4, <1>6, <1>7, <1>8 DEF Path, w

LEMMA FirstSaid ==
  ASSUME NEW u, NEW lo \in Int, NEW hi \in Nat, NEW h \in Nat, NEW s \in Nat, Path(u, lo, hi, h, s), u # <<>>, Control(u[1])
  PROVE  u[1].index = h + 1 /\ h + 1 <= s /\ Path(Tail(u), lo, hi, h + 1, s)
<1> DEFINE w == Tail(u)
<1>1. /\ u \in Seq(CloudMessages) /\ Len(u) \in Nat /\ \A i \in 1..Len(u) : u[i] \in CloudMessages /\ u[i].index \in Nat
  BY PathIs
<1>2. w \in Seq(CloudMessages) /\ Len(w) = Len(u) - 1 /\ Len(u) >= 1 /\ \A i \in 1..Len(w) : w[i] = u[i + 1]
  BY <1>1, HeadTailProperties, EmptySeq
<1> HIDE DEF w
<1>3. \A i \in 1..Len(u) : OnPath(u[i], lo, hi, h, s)
  BY DEF Path
<1>4. 1 \in 1..Len(u) /\ h < u[1].index /\ u[1].index <= s
  BY <1>1, <1>2, <1>3 DEF OnPath, Control
<1>5. \A i, j \in 1..Len(u) : i < j /\ SameSort(u[i], u[j]) => u[i].index < u[j].index
  BY DEF Path
<1>6. u[1].index = h + 1
  <2>1. h + 1 \in (h + 1)..s
    BY <1>1, <1>4
  <2>2. PICK i \in 1..Len(u) : Control(u[i]) /\ u[i].index = h + 1
    BY <2>1 DEF Path
  <2>3. CASE i = 1
    BY <2>2, <2>3
  <2>4. CASE i # 1
    <3>1. u[1].index < u[i].index
      BY <1>4, <1>5, <2>2, <2>4 DEF SameSort, Control
    <3> QED
      BY <1>1, <1>4, <2>2, <3>1
  <2> QED
    BY <2>3, <2>4
<1>7. \A i \in 1..Len(w) : OnPath(w[i], lo, hi, h + 1, s)
  <2> SUFFICES ASSUME NEW i \in 1..Len(w) PROVE OnPath(w[i], lo, hi, h + 1, s)
    OBVIOUS
  <2>1. i + 1 \in 1..Len(u) /\ 1 < i + 1 /\ w[i] = u[i + 1]
    BY <1>1, <1>2
  <2>2. SameSort(u[1], u[i + 1]) => u[1].index < u[i + 1].index
    BY <1>4, <1>5, <2>1
  <2> QED
    BY <1>3, <1>6, <2>1, <2>2 DEF OnPath, SameSort, Control
<1>8. \A i, j \in 1..Len(w) : i < j /\ SameSort(w[i], w[j]) => w[i].index < w[j].index
  <2> SUFFICES ASSUME NEW i \in 1..Len(w), NEW j \in 1..Len(w), i < j, SameSort(w[i], w[j]) PROVE w[i].index < w[j].index
    OBVIOUS
  <2>1. /\ i + 1 \in 1..Len(u) /\ j + 1 \in 1..Len(u) /\ i + 1 < j + 1
        /\ w[i] = u[i + 1] /\ w[j] = u[j + 1]
    BY <1>1, <1>2
  <2> QED
    BY <1>5, <2>1
<1>9. \A n \in (h + 1 + 1)..s : \E i \in 1..Len(w) : Control(w[i]) /\ w[i].index = n
  <2> SUFFICES ASSUME NEW n \in (h + 1 + 1)..s PROVE \E i \in 1..Len(w) : Control(w[i]) /\ w[i].index = n
    OBVIOUS
  <2>1. n \in (h + 1)..s
    BY <1>4
  <2>2. PICK i \in 1..Len(u) : Control(u[i]) /\ u[i].index = n
    BY <2>1 DEF Path
  <2>3. i # 1
    BY <1>6, <2>2
  <2>4. i - 1 \in 1..Len(w) /\ i = (i - 1) + 1
    BY <1>1, <1>2, <2>3
  <2>5. w[i - 1] = u[i]
    BY <1>2, <2>4
  <2> QED
    BY <2>2, <2>4, <2>5
<1> QED
  BY <1>2, <1>4, <1>6, <1>7, <1>8, <1>9 DEF Path, w

LEMMA WithoutIs ==
  ASSUME NEW u \in Seq(CloudMessages), NEW k \in 1..Len(u)
  PROVE  /\ Without(u, k) \in Seq(CloudMessages) /\ Len(Without(u, k)) = Len(u) - 1 /\ Len(u) \in Nat
         /\ \A i \in 1..(Len(u) - 1) : Without(u, k)[i] = IF i < k THEN u[i] ELSE u[i + 1]
<1> DEFINE e(i) == IF i < k THEN u[i] ELSE u[i + 1]
           w == Without(u, k)
<1>1. Len(u) \in Nat /\ \A i \in 1..Len(u) : u[i] \in CloudMessages
  BY LenProperties, ElementOfSeq
<1>2. Len(u) - 1 \in Nat /\ \A i \in 1..(Len(u) - 1) : e(i) \in CloudMessages
  BY <1>1
<1>3. w = [i \in 1..(Len(u) - 1) |-> e(i)]
  BY DEF Without
<1> HIDE DEF e, w
<1>4. w \in Seq(CloudMessages)
  BY <1>2, <1>3, IsASeq
<1>5. Len(w) = Len(u) - 1
  BY <1>2, <1>3, <1>4, LenProperties
<1> USE DEF e
<1> QED
  BY <1>1, <1>3, <1>4, <1>5 DEF w

(* A frame that is taken out leaves a path.                                 *)
LEMMA FrameDropped ==
  ASSUME NEW u, NEW lo \in Int, NEW hi \in Nat, NEW h \in Nat, NEW s \in Nat, Path(u, lo, hi, h, s),
         NEW k \in 1..Len(u), IsFrame(u[k])
  PROVE  Path(Without(u, k), lo, hi, h, s)
<1> DEFINE w == Without(u, k)
           at(i) == IF i < k THEN i ELSE i + 1
<1>1. /\ u \in Seq(CloudMessages) /\ Len(u) \in Nat /\ \A i \in 1..Len(u) : u[i] \in CloudMessages /\ u[i].index \in Nat
  BY PathIs
<1>2. /\ w \in Seq(CloudMessages) /\ Len(w) = Len(u) - 1
      /\ \A i \in 1..(Len(u) - 1) : w[i] = IF i < k THEN u[i] ELSE u[i + 1]
  BY <1>1, WithoutIs
<1> HIDE DEF w
<1>3. ASSUME NEW i \in 1..Len(w) PROVE at(i) \in 1..Len(u) /\ w[i] = u[at(i)]
  <2>1. i \in 1..(Len(u) - 1) /\ i \in 1..Len(u) /\ i + 1 \in 1..Len(u)
    BY <1>1, <1>2
  <2>2. CASE i < k
    BY <1>2, <2>1, <2>2
  <2>3. CASE ~(i < k)
    BY <1>2, <2>1, <2>3
  <2> QED
    BY <2>2, <2>3
<1>4. \A i \in 1..Len(w) : OnPath(w[i], lo, hi, h, s)
  BY <1>3 DEF Path
<1>5. \A i, j \in 1..Len(w) : i < j /\ SameSort(w[i], w[j]) => w[i].index < w[j].index
  <2> SUFFICES ASSUME NEW i \in 1..Len(w), NEW j \in 1..Len(w), i < j, SameSort(w[i], w[j]) PROVE w[i].index < w[j].index
    OBVIOUS
  <2>1. at(i) < at(j)
    BY <1>1, <1>2
  <2>2. at(i) \in 1..Len(u) /\ at(j) \in 1..Len(u) /\ w[i] = u[at(i)] /\ w[j] = u[at(j)]
    BY <1>3
  <2> HIDE DEF at
  <2> QED
    BY <2>1, <2>2 DEF Path
<1>6. \A n \in (h + 1)..s : \E i \in 1..Len(w) : Control(w[i]) /\ w[i].index = n
  <2> SUFFICES ASSUME NEW n \in (h + 1)..s PROVE \E i \in 1..Len(w) : Control(w[i]) /\ w[i].index = n
    OBVIOUS
  <2>1. PICK i \in 1..Len(u) : Control(u[i]) /\ u[i].index = n
    BY DEF Path
  <2>2. i # k
    BY <2>1 DEF Control
  <2>3. CASE i < k
    <3>1. i \in 1..Len(w) /\ i \in 1..(Len(u) - 1)
      BY <1>1, <1>2, <2>3
    <3>2. w[i] = u[i]
      BY <1>2, <2>3, <3>1
    <3> QED
      BY <2>1, <3>1, <3>2
  <2>4. CASE i > k
    <3>1. i - 1 \in 1..Len(w) /\ i - 1 \in 1..(Len(u) - 1) /\ ~(i - 1 < k) /\ (i - 1) + 1 = i
      BY <1>1, <1>2, <2>4
    <3>2. w[i - 1] = u[i]
      BY <1>2, <3>1
    <3> QED
      BY <2>1, <3>1, <3>2
  <2> QED
    BY <1>1, <2>2, <2>3, <2>4
<1> QED
  BY <1>2, <1>4, <1>5, <1>6 DEF Path, w

LEMMA HeadFirst ==
  ASSUME NEW q \in Seq(CloudMessages), q # <<>>
  PROVE  /\ Head(q) \in CloudMessages /\ Tail(q) \in Seq(CloudMessages) /\ Head(q) = q[1] /\ Len(q) \in Nat /\ 1 \in 1..Len(q)
         /\ Len(Tail(q)) = Len(q) - 1 /\ \A i \in 1..Len(Tail(q)) : Tail(q)[i] = q[i + 1]
         /\ q = <<Head(q)>> \o Tail(q)
<1>1. /\ Head(q) \in CloudMessages /\ Tail(q) \in Seq(CloudMessages) /\ Len(Tail(q)) = Len(q) - 1
      /\ \A i \in 1..Len(Tail(q)) : Tail(q)[i] = q[i + 1]
  BY HeadTailProperties
<1>2. Len(q) \in Nat /\ 1 \in 1..Len(q) /\ Head(q) = q[1]
  BY EmptySeq
<1> DEFINE w == <<Head(q)>> \o Tail(q)
<1>3. <<Head(q)>> \in Seq(CloudMessages) /\ Len(<<Head(q)>>) = 1 /\ <<Head(q)>>[1] = Head(q)
  BY <1>1
<1>4. /\ w \in Seq(CloudMessages) /\ Len(w) = 1 + (Len(q) - 1)
      /\ \A i \in 1..(1 + (Len(q) - 1)) : w[i] = IF i <= 1 THEN <<Head(q)>>[i] ELSE Tail(q)[i - 1]
  BY <1>1, <1>3, ConcatProperties
<1> HIDE DEF w
<1>5. \A i \in 1..Len(q) : w[i] = q[i]
  <2> SUFFICES ASSUME NEW i \in 1..Len(q) PROVE w[i] = q[i]
    OBVIOUS
  <2>1. CASE i = 1
    BY <1>2, <1>3, <1>4, <2>1
  <2>2. CASE i # 1
    <3>1. i - 1 \in 1..Len(Tail(q)) /\ (i - 1) + 1 = i
      BY <1>1, <1>2, <2>2
    <3> QED
      BY <1>1, <1>2, <1>4, <2>2, <3>1
  <2> QED
    BY <2>1, <2>2
<1>6. w = q
  BY <1>2, <1>4, <1>5, SeqEqual
<1> QED
  BY <1>1, <1>2, <1>6 DEF w

LEMMA PassedOn ==
  ASSUME NEW p \in Seq(CloudMessages), NEW q \in Seq(CloudMessages), q # <<>>
  PROVE  Append(p, Head(q)) \o Tail(q) = p \o q
<1>1. Head(q) \in CloudMessages /\ Tail(q) \in Seq(CloudMessages) /\ q = <<Head(q)>> \o Tail(q)
  BY HeadFirst
<1>2. <<Head(q)>> \in Seq(CloudMessages)
  BY <1>1
<1>3. Append(p, Head(q)) = p \o <<Head(q)>>
  BY <1>1, AppendIsConcat
<1>4. (p \o <<Head(q)>>) \o Tail(q) = p \o (<<Head(q)>> \o Tail(q))
  BY <1>1, <1>2, ConcatAssociative
<1> QED
  BY <1>1, <1>3, <1>4

LEMMA MessageBehind ==
  ASSUME NEW q \in Seq(CloudMessages), NEW m \in CloudMessages
  PROVE  /\ Append(q, m) \in Seq(CloudMessages) /\ Len(Append(q, m)) = Len(q) + 1 /\ Append(q, m)[Len(q) + 1] = m
         /\ \A i \in 1..Len(q) : Append(q, m)[i] = q[i]
  BY AppendProperties

LEMMA PutBehind ==
  ASSUME NEW p \in Seq(CloudMessages), NEW q \in Seq(CloudMessages), NEW m \in CloudMessages
  PROVE  p \o Append(q, m) = Append(p \o q, m)
<1>1. <<m>> \in Seq(CloudMessages) /\ Append(q, m) = q \o <<m>>
  BY AppendIsConcat
<1>2. p \o q \in Seq(CloudMessages)
  BY ConcatProperties
<1>3. Append(p \o q, m) = (p \o q) \o <<m>>
  BY <1>2, AppendIsConcat
<1> QED
  BY <1>1, <1>3, ConcatAssociative

LEMMA TakenOff ==
  ASSUME NEW p \in Seq(CloudMessages), NEW q \in Seq(CloudMessages), p # <<>>
  PROVE  Tail(p) \o q = Tail(p \o q) /\ p \o q # <<>> /\ (p \o q)[1] = p[1]
<1> DEFINE a == Tail(p) \o q
           b == p \o q
           c == Tail(b)
<1>1. /\ Tail(p) \in Seq(CloudMessages) /\ Len(p) \in Nat /\ 1 \in 1..Len(p) /\ Len(Tail(p)) = Len(p) - 1
      /\ \A i \in 1..Len(Tail(p)) : Tail(p)[i] = p[i + 1]
  BY HeadFirst
<1>2. Len(q) \in Nat
  BY LenProperties
<1>3. /\ b \in Seq(CloudMessages) /\ Len(b) = Len(p) + Len(q)
      /\ \A i \in 1..(Len(p) + Len(q)) : b[i] = IF i <= Len(p) THEN p[i] ELSE q[i - Len(p)]
  BY ConcatProperties
<1>4. /\ a \in Seq(CloudMessages) /\ Len(a) = (Len(p) - 1) + Len(q)
      /\ \A i \in 1..((Len(p) - 1) + Len(q)) : a[i] = IF i <= Len(p) - 1 THEN Tail(p)[i] ELSE q[i - (Len(p) - 1)]
  BY <1>1, ConcatProperties
<1> HIDE DEF a, b
<1>5. b # <<>>
  BY <1>1, <1>2, <1>3, EmptySeq
<1>6. /\ c \in Seq(CloudMessages) /\ Len(c) = Len(b) - 1 /\ \A i \in 1..Len(c) : c[i] = b[i + 1]
  BY <1>3, <1>5, HeadFirst
<1> HIDE DEF c
<1>7. \A i \in 1..Len(a) : a[i] = c[i]
  <2> SUFFICES ASSUME NEW i \in 1..Len(a) PROVE a[i] = c[i]
    OBVIOUS
  <2>1. i \in 1..Len(c) /\ i + 1 \in 1..(Len(p) + Len(q)) /\ c[i] = b[i + 1]
    <3>1. /\ Len(p) \in Nat /\ Len(q) \in Nat /\ Len(a) = (Len(p) - 1) + Len(q)
          /\ Len(c) = (Len(p) + Len(q)) - 1 /\ i \in 1..Len(a)
      BY <1>1, <1>2, <1>3, <1>4, <1>6
    <3>2. i \in 1..Len(c) /\ i + 1 \in 1..(Len(p) + Len(q))
      BY <3>1
    <3> QED
      BY <1>6, <3>2
  <2>2. CASE i <= Len(p) - 1
    <3>1. a[i] = Tail(p)[i] /\ i \in 1..Len(Tail(p)) /\ i + 1 <= Len(p)
      BY <1>1, <1>2, <1>4, <2>2
    <3> QED
      BY <1>1, <1>3, <2>1, <3>1
  <2>3. CASE i > Len(p) - 1
    <3>1. a[i] = q[i - (Len(p) - 1)] /\ b[i + 1] = q[(i + 1) - Len(p)]
      BY <1>1, <1>2, <1>3, <1>4, <2>1, <2>3
    <3>2. i - (Len(p) - 1) = (i + 1) - Len(p)
      BY <1>1
    <3> QED
      BY <2>1, <3>1, <3>2
  <2> QED
    BY <1>1, <2>2, <2>3
<1>8. a = c
  <2>1. Len(a) = Len(c) /\ a \in Seq(CloudMessages) /\ c \in Seq(CloudMessages)
    BY <1>1, <1>2, <1>3, <1>4, <1>6
  <2> QED
    BY <1>7, <2>1, SeqEqual, Zenon
<1>9. b[1] = p[1]
  BY <1>1, <1>2, <1>3
<1> QED
  BY <1>5, <1>8, <1>9, Zenon DEF a, b, c

LEMMA WithoutBehind ==
  ASSUME NEW p \in Seq(CloudMessages), NEW q \in Seq(CloudMessages), NEW k \in 1..Len(q)
  PROVE  p \o Without(q, k) = Without(p \o q, Len(p) + k) /\ Len(p) + k \in 1..Len(p \o q)
<1> DEFINE a == p \o Without(q, k)
           b == p \o q
           c == Without(b, Len(p) + k)
<1>1. Len(p) \in Nat
  BY LenProperties
<1>2. /\ Without(q, k) \in Seq(CloudMessages) /\ Len(Without(q, k)) = Len(q) - 1 /\ Len(q) \in Nat
      /\ \A i \in 1..(Len(q) - 1) : Without(q, k)[i] = IF i < k THEN q[i] ELSE q[i + 1]
  BY WithoutIs
<1>3. /\ b \in Seq(CloudMessages) /\ Len(b) = Len(p) + Len(q)
      /\ \A i \in 1..(Len(p) + Len(q)) : b[i] = IF i <= Len(p) THEN p[i] ELSE q[i - Len(p)]
  BY ConcatProperties
<1>4. /\ a \in Seq(CloudMessages) /\ Len(a) = Len(p) + (Len(q) - 1)
      /\ \A i \in 1..(Len(p) + (Len(q) - 1)) : a[i] = IF i <= Len(p) THEN p[i] ELSE Without(q, k)[i - Len(p)]
  <2> DEFINE v == Without(q, k)
  <2>1. v \in Seq(CloudMessages) /\ Len(v) = Len(q) - 1
    BY <1>2
  <2> HIDE DEF v
  <2>2. /\ p \o v \in Seq(CloudMessages) /\ Len(p \o v) = Len(p) + Len(v)
        /\ \A i \in 1..(Len(p) + Len(v)) : (p \o v)[i] = IF i <= Len(p) THEN p[i] ELSE v[i - Len(p)]
    BY <2>1, ConcatProperties
  <2> QED
    BY <2>1, <2>2, Zenon DEF v
<1> HIDE DEF a, b
<1>5. Len(p) + k \in 1..Len(b)
  BY <1>1, <1>2, <1>3
<1>6. /\ c \in Seq(CloudMessages) /\ Len(c) = Len(b) - 1
      /\ \A i \in 1..(Len(b) - 1) : c[i] = IF i < Len(p) + k THEN b[i] ELSE b[i + 1]
  BY <1>3, <1>5, WithoutIs
<1> HIDE DEF c
<1>7. \A i \in 1..Len(a) : a[i] = c[i]
  <2> SUFFICES ASSUME NEW i \in 1..Len(a) PROVE a[i] = c[i]
    OBVIOUS
  <2>1. i \in 1..(Len(b) - 1) /\ i \in 1..(Len(p) + Len(q)) /\ i + 1 \in 1..(Len(p) + Len(q))
    BY <1>1, <1>2, <1>3, <1>4
  <2>2. CASE i <= Len(p)
    <3>1. i < Len(p) + k /\ i \in 1..(Len(p) + (Len(q) - 1))
      BY <1>1, <1>2, <1>4, <2>2
    <3>2. a[i] = p[i]
      BY <1>4, <2>2, <3>1
    <3>3. c[i] = b[i]
      BY <1>6, <2>1, <3>1
    <3>4. b[i] = p[i]
      BY <1>3, <2>1, <2>2
    <3> QED
      BY <3>2, <3>3, <3>4
  <2>3. CASE i > Len(p) /\ i < Len(p) + k
    <3>1. i - Len(p) \in 1..(Len(q) - 1) /\ i - Len(p) < k /\ ~(i <= Len(p))
      BY <1>1, <1>2, <1>4, <2>3
    <3>2. a[i] = q[i - Len(p)]
      BY <1>2, <1>4, <3>1
    <3>3. c[i] = q[i - Len(p)]
      BY <1>3, <1>6, <2>1, <2>3, <3>1
    <3> QED
      BY <3>2, <3>3
  <2>4. CASE i >= Len(p) + k
    <3>1. /\ i - Len(p) \in 1..(Len(q) - 1) /\ ~(i - Len(p) < k) /\ ~(i <= Len(p)) /\ ~(i < Len(p) + k)
          /\ ~(i + 1 <= Len(p)) /\ (i + 1) - Len(p) = (i - Len(p)) + 1
      BY <1>1, <1>2, <1>4, <2>4
    <3>2. a[i] = q[(i - Len(p)) + 1]
      BY <1>2, <1>4, <3>1
    <3>3. c[i] = b[i + 1]
      BY <1>6, <2>1, <3>1
    <3>4. b[i + 1] = q[(i + 1) - Len(p)]
      BY <1>3, <2>1, <3>1
    <3> QED
      BY <3>1, <3>2, <3>3, <3>4
  <2> QED
    BY <1>1, <2>2, <2>3, <2>4
<1>8. a = c
  <2>1. Len(a) = Len(c) /\ a \in Seq(CloudMessages) /\ c \in Seq(CloudMessages)
    BY <1>1, <1>2, <1>3, <1>4, <1>6
  <2> QED
    BY <1>7, <2>1, SeqEqual, Zenon
<1> QED
  BY <1>5, <1>8, Zenon DEF a, b, c

LEMMA WithoutBefore ==
  ASSUME NEW p \in Seq(CloudMessages), NEW q \in Seq(CloudMessages), NEW k \in 1..Len(p)
  PROVE  Without(p, k) \o q = Without(p \o q, k) /\ k \in 1..Len(p \o q) /\ (p \o q)[k] = p[k]
<1> DEFINE a == Without(p, k) \o q
           b == p \o q
           c == Without(b, k)
<1>1. Len(q) \in Nat
  BY LenProperties
<1>2. /\ Without(p, k) \in Seq(CloudMessages) /\ Len(Without(p, k)) = Len(p) - 1 /\ Len(p) \in Nat
      /\ \A i \in 1..(Len(p) - 1) : Without(p, k)[i] = IF i < k THEN p[i] ELSE p[i + 1]
  BY WithoutIs
<1>3. /\ b \in Seq(CloudMessages) /\ Len(b) = Len(p) + Len(q)
      /\ \A i \in 1..(Len(p) + Len(q)) : b[i] = IF i <= Len(p) THEN p[i] ELSE q[i - Len(p)]
  BY ConcatProperties
<1>4. /\ a \in Seq(CloudMessages) /\ Len(a) = (Len(p) - 1) + Len(q)
      /\ \A i \in 1..((Len(p) - 1) + Len(q)) : a[i] = IF i <= Len(p) - 1 THEN Without(p, k)[i] ELSE q[i - (Len(p) - 1)]
  <2> DEFINE v == Without(p, k)
  <2>1. v \in Seq(CloudMessages) /\ Len(v) = Len(p) - 1
    BY <1>2
  <2> HIDE DEF v
  <2>2. /\ v \o q \in Seq(CloudMessages) /\ Len(v \o q) = Len(v) + Len(q)
        /\ \A i \in 1..(Len(v) + Len(q)) : (v \o q)[i] = IF i <= Len(v) THEN v[i] ELSE q[i - Len(v)]
    BY <2>1, ConcatProperties
  <2> QED
    BY <2>1, <2>2, Zenon DEF v
<1> HIDE DEF a, b
<1>5. k \in 1..Len(b) /\ b[k] = p[k]
  BY <1>1, <1>2, <1>3
<1>6. /\ c \in Seq(CloudMessages) /\ Len(c) = Len(b) - 1
      /\ \A i \in 1..(Len(b) - 1) : c[i] = IF i < k THEN b[i] ELSE b[i + 1]
  BY <1>3, <1>5, WithoutIs
<1> HIDE DEF c
<1>7. \A i \in 1..Len(a) : a[i] = c[i]
  <2> SUFFICES ASSUME NEW i \in 1..Len(a) PROVE a[i] = c[i]
    OBVIOUS
  <2>1. i \in 1..(Len(b) - 1) /\ i \in 1..(Len(p) + Len(q)) /\ i + 1 \in 1..(Len(p) + Len(q))
    BY <1>1, <1>2, <1>3, <1>4
  <2>2. CASE i <= Len(p) - 1
    <3>1. i \in 1..((Len(p) - 1) + Len(q)) /\ i \in 1..(Len(p) - 1) /\ i <= Len(p) /\ i + 1 <= Len(p)
      BY <1>1, <1>2, <1>4, <2>2
    <3>2. a[i] = Without(p, k)[i]
      BY <1>4, <2>2, <3>1
    <3>3. a[i] = IF i < k THEN p[i] ELSE p[i + 1]
      BY <1>2, <3>1, <3>2
    <3>4. c[i] = IF i < k THEN b[i] ELSE b[i + 1]
      BY <1>6, <2>1
    <3>5. b[i] = p[i] /\ b[i + 1] = p[i + 1]
      BY <1>3, <2>1, <3>1
    <3> QED
      BY <3>3, <3>4, <3>5
  <2>3. CASE ~(i <= Len(p) - 1)
    <3>1. i \in 1..((Len(p) - 1) + Len(q)) /\ ~(i < k) /\ ~(i + 1 <= Len(p)) /\ (i + 1) - Len(p) = i - (Len(p) - 1)
      BY <1>1, <1>2, <1>4, <2>3
    <3>2. a[i] = q[i - (Len(p) - 1)]
      BY <1>4, <2>3, <3>1
    <3>3. c[i] = b[i + 1]
      BY <1>6, <2>1, <3>1
    <3>4. b[i + 1] = q[(i + 1) - Len(p)]
      BY <1>3, <2>1, <3>1
    <3> QED
      BY <3>1, <3>2, <3>3, <3>4
  <2> QED
    BY <2>2, <2>3
<1>8. a = c
  <2>1. Len(a) = Len(c) /\ a \in Seq(CloudMessages) /\ c \in Seq(CloudMessages)
    BY <1>1, <1>2, <1>3, <1>4, <1>6
  <2> QED
    BY <1>7, <2>1, SeqEqual, Zenon
<1> QED
  BY <1>5, <1>8, Zenon DEF a, b, c

(* What is under way, after each step of the pipe: a message sent, one      *)
(* handed to the queue, one thrown out of it, one received, one more said.  *)
LEMMA PipeSends ==
  ASSUME NEW p \in Seq(CloudMessages), NEW q \in Seq(CloudMessages), NEW r \in Seq(CloudMessages), q # <<>>
  PROVE  Append(p, Head(q)) \o Tail(q) \o r = p \o q \o r
  BY PassedOn

LEMMA PipeHands ==
  ASSUME NEW p \in Seq(CloudMessages), NEW q \in Seq(CloudMessages), NEW r \in Seq(CloudMessages), r # <<>>
  PROVE  p \o Append(q, Head(r)) \o Tail(r) = p \o q \o r
<1>1. p \o q \in Seq(CloudMessages) /\ p \o q \o r \in Seq(CloudMessages) /\ Len(p \o q) = Len(p) + Len(q)
  BY ConcatProperties
<1>2. Head(r) \in CloudMessages
  BY HeadFirst
<1>3. p \o Append(q, Head(r)) = Append(p \o q, Head(r))
  BY <1>2, PutBehind
<1> QED
  BY <1>1, <1>3, PassedOn

LEMMA PipeDrops ==
  ASSUME NEW p \in Seq(CloudMessages), NEW q \in Seq(CloudMessages), NEW r \in Seq(CloudMessages), NEW k \in 1..Len(q)
  PROVE  /\ p \o Without(q, k) \o r = Without(p \o q \o r, Len(p) + k)
         /\ Len(p) + k \in 1..Len(p \o q \o r) /\ (p \o q \o r)[Len(p) + k] = q[k]
<1>1. p \o q \in Seq(CloudMessages) /\ p \o q \o r \in Seq(CloudMessages) /\ Len(p \o q) = Len(p) + Len(q)
  BY ConcatProperties
<1>2. p \o Without(q, k) = Without(p \o q, Len(p) + k) /\ Len(p) + k \in 1..Len(p \o q)
  BY WithoutBehind
<1>3. /\ Without(p \o q, Len(p) + k) \o r = Without(p \o q \o r, Len(p) + k)
      /\ Len(p) + k \in 1..Len(p \o q \o r) /\ (p \o q \o r)[Len(p) + k] = (p \o q)[Len(p) + k]
  BY <1>1, <1>2, WithoutBefore
<1>4. (p \o q)[Len(p) + k] = q[k]
  <2>1. Len(p) \in Nat /\ Len(q) \in Nat
    BY LenProperties
  <2>2. Len(p) + k \in 1..(Len(p) + Len(q)) /\ ~(Len(p) + k <= Len(p)) /\ (Len(p) + k) - Len(p) = k
    BY <2>1
  <2> QED
    BY <2>2, ConcatProperties
<1> QED
  BY <1>2, <1>3, <1>4

LEMMA QueuedIsUnderWay ==
  ASSUME onWire \in Seq(CloudMessages), queue \in Seq(CloudMessages), calls \in Seq(CloudMessages),
         NEW k \in 1..Len(queue)
  PROVE  Len(onWire) + k \in 1..Len(underWay) /\ underWay[Len(onWire) + k] = queue[k]
<1>1. /\ Len(onWire) + k \in 1..Len(onWire \o queue \o calls)
      /\ (onWire \o queue \o calls)[Len(onWire) + k] = queue[k]
  BY PipeDrops
<1> QED
  BY <1>1, Zenon DEF underWay

LEMMA PipeReceives ==
  ASSUME NEW p \in Seq(CloudMessages), NEW q \in Seq(CloudMessages), NEW r \in Seq(CloudMessages), p # <<>>
  PROVE  Tail(p) \o q \o r = Tail(p \o q \o r) /\ p \o q \o r # <<>> /\ (p \o q \o r)[1] = Head(p)
<1>1. p \o q \in Seq(CloudMessages) /\ p \o q \o r \in Seq(CloudMessages) /\ Len(p \o q) = Len(p) + Len(q)
  BY ConcatProperties
<1>2. Tail(p) \o q = Tail(p \o q) /\ p \o q # <<>> /\ (p \o q)[1] = p[1] /\ Head(p) = p[1]
  BY TakenOff, HeadFirst
<1>3. Tail(p \o q) \o r = Tail(p \o q \o r) /\ p \o q \o r # <<>> /\ (p \o q \o r)[1] = (p \o q)[1]
  BY <1>1, <1>2, TakenOff
<1> QED
  BY <1>2, <1>3

LEMMA PipeSays ==
  ASSUME NEW p \in Seq(CloudMessages), NEW q \in Seq(CloudMessages), NEW r \in Seq(CloudMessages), NEW m \in CloudMessages
  PROVE  p \o q \o Append(r, m) = Append(p \o q \o r, m)
<1>1. p \o q \in Seq(CloudMessages) /\ p \o q \o r \in Seq(CloudMessages) /\ Len(p \o q) = Len(p) + Len(q)
  BY ConcatProperties
<1> QED
  BY <1>1, PutBehind

(* Of indexes, one is the first.                                            *)
LEMMA FirstOfSome ==
  ASSUME NEW S, S \subseteq Nat, S # {}
  PROVE  \E m \in S : \A n \in S : m <= n
<1> DEFINE R == OpToRel(<, Nat)
<1>1. IsWellFoundedOn(R, Nat)
  BY NatLessThanWellFounded
<1>2. \A n, m \in Nat : n < m => <<n, m>> \in R
  BY DEF OpToRel
<1> HIDE DEF R
<1>3. \E m \in S : \A n \in S : ~(<<n, m>> \in R)
  BY <1>1, WFMin, Zenon
<1>4. PICK m \in S : \A n \in S : ~(<<n, m>> \in R)
  BY <1>3
<1>5. \A n \in S : n \in Nat /\ m \in Nat /\ ~(n < m)
  BY <1>2, <1>4
<1>6. \A n \in S : m <= n
  BY <1>5
<1> QED
  BY <1>4, <1>6

(* The frames of a queue, by their indexes.                                 *)
Frames(q) == {q[i].index : i \in {k \in DOMAIN q : IsFrame(q[k])}}

LEMMA FramesAre ==
  ASSUME NEW q \in Seq(CloudMessages)
  PROVE  /\ IsFiniteSet(Frames(q)) /\ FramesIn(q) = Cardinality(Frames(q)) /\ FramesIn(q) \in Nat /\ FramesIn(q) <= Len(q)
         /\ \A n : n \in Frames(q) <=> \E i \in 1..Len(q) : IsFrame(q[i]) /\ q[i].index = n
<1>1. Len(q) \in Nat /\ DOMAIN q = 1..Len(q)
  BY LenProperties
<1> DEFINE at == {k \in 1..Len(q) : IsFrame(q[k])}
           f == [i \in at |-> q[i].index]
<1>2. IsFiniteSet(1..Len(q)) /\ Cardinality(1..Len(q)) = Len(q)
  <2>1. Cardinality(1..Len(q)) = IF 1 > Len(q) THEN 0 ELSE Len(q) - 1 + 1
    BY <1>1, FS_Interval
  <2> QED
    BY <1>1, <2>1, FS_Interval
<1>3. at \in SUBSET (1..Len(q))
  OBVIOUS
<1>4. IsFiniteSet(at) /\ Cardinality(at) <= Len(q)
  BY <1>2, <1>3, FS_Subset
<1>5. Frames(q) = {q[i].index : i \in at}
  BY <1>1 DEF Frames
<1>6. f \in Surjection(at, Frames(q))
  BY <1>5 DEF Surjection
<1>7. IsFiniteSet(Frames(q)) /\ Cardinality(Frames(q)) <= Cardinality(at)
  BY <1>4, <1>6, FS_Surjection
<1>8. Cardinality(Frames(q)) \in Nat /\ Cardinality(at) \in Nat
  BY <1>4, <1>7, FS_CardinalityType
<1>9. FramesIn(q) = Cardinality(Frames(q))
  BY DEF FramesIn, Frames
<1>10. \A n : n \in Frames(q) <=> \E i \in 1..Len(q) : IsFrame(q[i]) /\ q[i].index = n
  BY <1>5
<1> QED
  BY <1>1, <1>4, <1>7, <1>8, <1>9, <1>10

LEMMA FewerFrames ==
  ASSUME NEW q \in Seq(CloudMessages), q # <<>>
  PROVE  FramesIn(Tail(q)) <= FramesIn(q)
<1>1. /\ Tail(q) \in Seq(CloudMessages) /\ Len(q) \in Nat /\ Len(Tail(q)) = Len(q) - 1
      /\ \A i \in 1..Len(Tail(q)) : Tail(q)[i] = q[i + 1]
  BY HeadFirst
<1>2. \A i \in 1..Len(Tail(q)) : i + 1 \in 1..Len(q)
  BY <1>1
<1>3. ASSUME NEW n \in Frames(Tail(q)) PROVE n \in Frames(q)
  <2>1. PICK i \in 1..Len(Tail(q)) : IsFrame(Tail(q)[i]) /\ Tail(q)[i].index = n
    BY <1>1, FramesAre, Zenon
  <2>2. i + 1 \in 1..Len(q) /\ IsFrame(q[i + 1]) /\ q[i + 1].index = n
    BY <1>1, <1>2, <2>1
  <2> QED
    BY <2>2, FramesAre, Zenon
<1>4. Frames(Tail(q)) \in SUBSET Frames(q)
  BY <1>3
<1>5. Cardinality(Frames(Tail(q))) <= Cardinality(Frames(q))
  <2>1. IsFiniteSet(Frames(q))
    BY FramesAre
  <2> QED
    BY <1>4, <2>1, FS_Subset
<1> QED
  BY <1>1, <1>5, FramesAre, Zenon

LEMMA OldestIs ==
  ASSUME NEW q \in Seq(CloudMessages), FramesIn(q) > 0
  PROVE  Oldest(q) \in 1..Len(q) /\ IsFrame(q[Oldest(q)])
<1>1. Len(q) \in Nat /\ DOMAIN q = 1..Len(q)
  BY LenProperties
<1> DEFINE at == {k \in 1..Len(q) : IsFrame(q[k])}
<1>2. at # {}
  <2>1. Frames(q) # {}
    BY FramesAre, FS_EmptySet
  <2> QED
    BY <2>1, FramesAre
<1>3. at \subseteq Nat
  BY <1>1
<1>4. PICK i \in at : \A k \in at : i <= k
  BY <1>2, <1>3, FirstOfSome
<1>5. i \in DOMAIN q /\ IsFrame(q[i]) /\ \A k \in 1..(i - 1) : Control(q[k])
  BY <1>1, <1>4 DEF Control
<1>6. \E j \in DOMAIN q : IsFrame(q[j]) /\ \A k \in 1..(j - 1) : Control(q[k])
  BY <1>5
<1> DEFINE o == Oldest(q)
<1>7. o \in DOMAIN q /\ IsFrame(q[o])
  BY <1>6, Zenon DEF Oldest
<1> QED
  BY <1>1, <1>7

LEMMA OneFrameLess ==
  ASSUME NEW q \in Seq(CloudMessages), NEW k \in 1..Len(q), IsFrame(q[k]),
         \A i, j \in 1..Len(q) : i < j /\ SameSort(q[i], q[j]) => q[i].index < q[j].index
  PROVE  FramesIn(Without(q, k)) <= FramesIn(q) - 1
<1> DEFINE w == Without(q, k)
           x == q[k].index
<1>1. /\ w \in Seq(CloudMessages) /\ Len(w) = Len(q) - 1 /\ Len(q) \in Nat
      /\ \A i \in 1..(Len(q) - 1) : w[i] = IF i < k THEN q[i] ELSE q[i + 1]
  BY WithoutIs
<1> HIDE DEF w
<1>2. \A i \in 1..Len(q) : q[i].index \in Nat
  BY ElementOfSeq, MessageIsTyped
<1>3. ASSUME NEW n \in Frames(w) PROVE n \in Frames(q) /\ n # x
  <2>1. PICK i \in 1..Len(w) : IsFrame(w[i]) /\ w[i].index = n
    BY <1>1, FramesAre
  <2>2. PICK j \in 1..Len(q) : j # k /\ w[i] = q[j]
    <3>1. CASE i < k
      BY <1>1, <3>1
    <3>2. CASE ~(i < k)
      <4>1. i + 1 \in 1..Len(q) /\ i + 1 # k /\ w[i] = q[i + 1]
        BY <1>1, <3>2
      <4> QED
        BY <4>1
    <3> QED
      BY <3>1, <3>2
  <2>3. SameSort(q[j], q[k]) /\ SameSort(q[k], q[j])
    BY <2>1, <2>2 DEF SameSort
  <2>4. q[j].index < q[k].index \/ q[k].index < q[j].index
    <3>1. j < k \/ k < j
      BY <1>1, <2>2
    <3> QED
      BY <2>3, <3>1
  <2>5. n # x
    BY <1>2, <2>1, <2>2, <2>4
  <2> QED
    BY <2>1, <2>2, <2>5, FramesAre
<1>4. Frames(w) \in SUBSET (Frames(q) \ {x}) /\ x \in Frames(q)
  BY <1>3, FramesAre
<1>5. IsFiniteSet(Frames(q) \ {x}) /\ Cardinality(Frames(q) \ {x}) = FramesIn(q) - 1
  BY <1>4, FramesAre, FS_RemoveElement
<1>6. Cardinality(Frames(w)) <= FramesIn(q) - 1
  BY <1>4, <1>5, FS_Subset
<1> QED
  BY <1>1, <1>6, FramesAre DEF w

LEMMA OneFrameMore ==
  ASSUME NEW q \in Seq(CloudMessages), NEW m \in CloudMessages
  PROVE  FramesIn(Append(q, m)) <= IF IsFrame(m) THEN FramesIn(q) + 1 ELSE FramesIn(q)
<1> DEFINE w == Append(q, m)
<1>1. w \in Seq(CloudMessages) /\ Len(w) = Len(q) + 1 /\ w[Len(q) + 1] = m /\ \A i \in 1..Len(q) : w[i] = q[i]
  BY AppendProperties
<1>2. Len(q) \in Nat
  BY LenProperties
<1> HIDE DEF w
<1>3. ASSUME NEW n \in Frames(w) PROVE n \in Frames(q) \/ (IsFrame(m) /\ n = m.index)
  <2>1. PICK i \in 1..Len(w) : IsFrame(w[i]) /\ w[i].index = n
    BY <1>1, FramesAre
  <2>2. i \in 1..Len(q) \/ i = Len(q) + 1
    BY <1>1, <1>2
  <2>3. CASE i \in 1..Len(q)
    BY <1>1, <2>1, <2>3, FramesAre
  <2>4. CASE i = Len(q) + 1
    BY <1>1, <2>1, <2>4
  <2> QED
    BY <2>2, <2>3, <2>4
<1>4. /\ IsFiniteSet(Frames(q)) /\ Cardinality(Frames(q)) = FramesIn(q) /\ FramesIn(q) \in Nat
      /\ Cardinality(Frames(w)) = FramesIn(w) /\ FramesIn(w) \in Nat
  BY <1>1, FramesAre
<1>5. CASE IsFrame(m)
  <2>1. Frames(w) \in SUBSET (Frames(q) \cup {m.index})
    BY <1>3
  <2>2. IsFiniteSet(Frames(q) \cup {m.index}) /\ Cardinality(Frames(q) \cup {m.index}) <= FramesIn(q) + 1
    <3>1. /\ IsFiniteSet(Frames(q) \cup {m.index})
          /\ Cardinality(Frames(q) \cup {m.index}) = IF m.index \in Frames(q) THEN Cardinality(Frames(q)) ELSE Cardinality(Frames(q)) + 1
      BY <1>4, FS_AddElement, Zenon
    <3> HIDE DEF w
    <3> QED
      BY <1>4, <3>1
  <2>3. Cardinality(Frames(w)) <= Cardinality(Frames(q) \cup {m.index})
    BY <2>1, <2>2, FS_Subset
  <2> DEFINE c == Cardinality(Frames(q) \cup {m.index})
  <2>4. c \in Nat
    BY <2>2, FS_CardinalityType
  <2>5. c <= FramesIn(q) + 1 /\ FramesIn(w) <= c
    BY <1>4, <2>2, <2>3
  <2> HIDE DEF c
  <2> QED
    BY <1>4, <1>5, <2>4, <2>5 DEF w
<1>6. CASE ~IsFrame(m)
  <2>1. Frames(w) \in SUBSET Frames(q)
    BY <1>3, <1>6
  <2>2. Cardinality(Frames(w)) <= Cardinality(Frames(q))
    BY <1>4, <2>1, FS_Subset
  <2> QED
    BY <1>4, <1>6, <2>2 DEF w
<1> QED
  BY <1>5, <1>6

(* deliver() keeps the frames of the queue within its depth, and takes      *)
(* nothing but a frame out of it.                                           *)
LEMMA QueueStaysShort ==
  ASSUME NEW q \in Seq(CloudMessages), NEW m \in CloudMessages, NEW D \in Nat \ {0}, FramesIn(q) <= D,
         \A i, j \in 1..Len(q) : i < j /\ SameSort(q[i], q[j]) => q[i].index < q[j].index,
         NEW crowded \in BOOLEAN, crowded <=> IsFrame(m) /\ Len(q) >= D /\ FramesIn(q) > D - 1
  PROVE  /\ FramesIn(Append(IF crowded THEN Without(q, Oldest(q)) ELSE q, m)) <= D
         /\ crowded => Oldest(q) \in 1..Len(q) /\ IsFrame(q[Oldest(q)])
<1>1. FramesIn(q) \in Nat /\ FramesIn(q) <= Len(q) /\ Len(q) \in Nat
  BY FramesAre, LenProperties
<1>2. CASE crowded
  <2> DEFINE o == Oldest(q)
             w == Without(q, o)
  <2>1. o \in 1..Len(q) /\ IsFrame(q[o])
    BY <1>1, <1>2, OldestIs
  <2> HIDE DEF o
  <2>2. w \in Seq(CloudMessages) /\ FramesIn(w) <= FramesIn(q) - 1 /\ FramesIn(w) \in Nat
    <3>1. w \in Seq(CloudMessages)
      BY <2>1, WithoutIs
    <3>2. FramesIn(w) <= FramesIn(q) - 1
      BY <2>1, OneFrameLess
    <3> QED
      BY <3>1, <3>2, FramesAre
  <2>3. Append(w, m) \in Seq(CloudMessages)
    BY <2>2, AppendProperties
  <2>4. FramesIn(Append(w, m)) <= FramesIn(w) + 1 /\ FramesIn(Append(w, m)) \in Nat
    <3>1. FramesIn(Append(w, m)) \in Nat
      BY <2>3, FramesAre
    <3>2. FramesIn(Append(w, m)) <= IF IsFrame(m) THEN FramesIn(w) + 1 ELSE FramesIn(w)
      BY <2>2, OneFrameMore
    <3> QED
      BY <2>2, <3>1, <3>2
  <2>5. FramesIn(Append(w, m)) <= D
    BY <1>1, <2>2, <2>4
  <2> QED
    BY <1>2, <2>1, <2>5 DEF o
<1>3. CASE ~crowded
  <2>1. Append(q, m) \in Seq(CloudMessages) /\ Len(Append(q, m)) = Len(q) + 1
    BY AppendProperties
  <2>2. FramesIn(Append(q, m)) \in Nat /\ FramesIn(Append(q, m)) <= Len(q) + 1
    BY <2>1, FramesAre
  <2>3. FramesIn(Append(q, m)) <= IF IsFrame(m) THEN FramesIn(q) + 1 ELSE FramesIn(q)
    BY OneFrameMore
  <2>4. FramesIn(Append(q, m)) <= D
    BY <1>1, <1>3, <2>2, <2>3
  <2> QED
    BY <1>3, <2>4
<1> QED
  BY <1>2, <1>3

LEMMA ShowsNothing ==
  ASSUME NEW v, NEW b
  PROVE  Shows(<<>>, v, b) <=> v = b
<1>1. Len(<<>>) = 0 /\ 1..0 = {}
  BY EmptySeq
<1> QED
  BY <1>1 DEF Shows

LEMMA ShowsMore ==
  ASSUME NEW u \in Seq(CloudMessages), NEW m \in CloudMessages, NEW v, NEW b
  PROVE  /\ m.kind = Ground(b) => Shows(Append(u, m), v, b)
         /\ ~IsGround(m) /\ Shows(u, v, b) => Shows(Append(u, m), v, b)
<1> DEFINE w == Append(u, m)
<1>1. w \in Seq(CloudMessages) /\ Len(w) = Len(u) + 1 /\ w[Len(u) + 1] = m /\ Len(u) \in Nat /\ \A i \in 1..Len(u) : w[i] = u[i]
  BY AppendProperties, LenProperties
<1> HIDE DEF w
<1>2. ASSUME m.kind = Ground(b) PROVE Shows(w, v, b)
  <2>1. Len(u) + 1 \in 1..Len(w) /\ w[Len(u) + 1].kind = Ground(b)
    BY <1>1, <1>2
  <2>2. \A j \in ((Len(u) + 1) + 1)..Len(w) : ~IsGround(w[j])
    BY <1>1
  <2> QED
    BY <2>1, <2>2 DEF Shows
<1>3. ASSUME ~IsGround(m), v = b, \A i \in 1..Len(u) : ~IsGround(u[i]) PROVE Shows(w, v, b)
  <2>1. \A i \in 1..Len(w) : i \in 1..Len(u) \/ i = Len(u) + 1
    BY <1>1
  <2>2. \A i \in 1..Len(w) : ~IsGround(w[i])
    BY <1>1, <1>3, <2>1
  <2> QED
    BY <1>3, <2>2 DEF Shows
<1>4. ASSUME ~IsGround(m), NEW i \in 1..Len(u), u[i].kind = Ground(b), \A j \in (i + 1)..Len(u) : ~IsGround(u[j])
      PROVE  Shows(w, v, b)
  <2>1. i \in 1..Len(w) /\ w[i].kind = Ground(b)
    BY <1>1, <1>4
  <2>2. \A j \in (i + 1)..Len(w) : (j \in (i + 1)..Len(u) /\ j \in 1..Len(u)) \/ j = Len(u) + 1
    BY <1>1
  <2>3. \A j \in (i + 1)..Len(w) : ~IsGround(w[j])
    BY <1>1, <1>4, <2>2
  <2> QED
    BY <2>1, <2>3 DEF Shows
<1> QED
  BY <1>2, <1>3, <1>4 DEF w, Shows

LEMMA ShowsLess ==
  ASSUME NEW u \in Seq(CloudMessages), NEW k \in 1..Len(u), IsFrame(u[k]), NEW v, NEW b \in BOOLEAN, Shows(u, v, b)
  PROVE  Shows(Without(u, k), v, b)
<1> DEFINE w == Without(u, k)
<1>1. /\ Len(w) = Len(u) - 1 /\ Len(u) \in Nat
      /\ \A i \in 1..(Len(u) - 1) : w[i] = IF i < k THEN u[i] ELSE u[i + 1]
  BY WithoutIs
<1> HIDE DEF w
<1>2. CASE v = b /\ \A i \in 1..Len(u) : ~IsGround(u[i])
  <2>1. \A i \in 1..Len(w) : i \in 1..Len(u) /\ i + 1 \in 1..Len(u) /\ (w[i] = u[i] \/ w[i] = u[i + 1])
    BY <1>1
  <2>2. \A i \in 1..Len(w) : ~IsGround(w[i])
    BY <1>2, <2>1
  <2> QED
    BY <1>2, <2>2 DEF Shows, w
<1>3. ASSUME NEW i \in 1..Len(u), u[i].kind = Ground(b), \A j \in (i + 1)..Len(u) : ~IsGround(u[j]) PROVE Shows(w, v, b)
  <2>1. i # k
    BY <1>3 DEF Ground, IsFrame
  <2>2. CASE i < k
    <3>1. i \in 1..Len(w) /\ w[i].kind = Ground(b)
      BY <1>1, <1>3, <2>2
    <3>2. \A j \in (i + 1)..Len(w) : /\ j \in (i + 1)..Len(u) /\ j + 1 \in (i + 1)..Len(u)
                                     /\ (w[j] = u[j] \/ w[j] = u[j + 1])
      BY <1>1
    <3>3. \A j \in (i + 1)..Len(w) : ~IsGround(w[j])
      BY <1>3, <3>2
    <3> QED
      BY <3>1, <3>3 DEF Shows
  <2>3. CASE i > k
    <3>1. i - 1 \in 1..Len(w) /\ w[i - 1] = u[i]
      <4>1. i - 1 \in 1..(Len(u) - 1) /\ ~(i - 1 < k) /\ (i - 1) + 1 = i
        BY <1>1, <2>3
      <4> QED
        BY <1>1, <4>1
    <3>2. \A j \in ((i - 1) + 1)..Len(w) : j \in 1..(Len(u) - 1) /\ ~(j < k) /\ j + 1 \in (i + 1)..Len(u)
      BY <1>1, <2>3
    <3>3. \A j \in ((i - 1) + 1)..Len(w) : ~IsGround(w[j])
      BY <1>1, <1>3, <3>2
    <3>4. w[i - 1].kind = Ground(b)
      BY <1>3, <3>1
    <3> QED
      BY <3>1, <3>3, <3>4 DEF Shows
  <2> QED
    BY <1>1, <2>1, <2>2, <2>3
<1> QED
  BY <1>2, <1>3 DEF Shows, w

LEMMA ShowsNext ==
  ASSUME NEW u \in Seq(CloudMessages), u # <<>>, NEW v \in BOOLEAN, NEW b \in BOOLEAN, Shows(u, v, b),
         NEW v2 \in BOOLEAN, u[1].kind = "levelled" => v2 = TRUE, u[1].kind = "unlevelled" => v2 = FALSE, ~IsGround(u[1]) => v2 = v
  PROVE  Shows(Tail(u), v2, b)
<1> DEFINE w == Tail(u)
<1>1. Len(w) = Len(u) - 1 /\ Len(u) \in Nat /\ 1 \in 1..Len(u) /\ \A i \in 1..Len(w) : w[i] = u[i + 1]
  BY HeadFirst
<1> HIDE DEF w
<1>2. CASE v = b /\ \A i \in 1..Len(u) : ~IsGround(u[i])
  <2>1. \A i \in 1..Len(w) : i + 1 \in 1..Len(u)
    BY <1>1
  <2>2. \A i \in 1..Len(w) : ~IsGround(w[i])
    BY <1>1, <1>2, <2>1
  <2>3. v2 = b
    BY <1>1, <1>2
  <2> QED
    BY <2>2, <2>3 DEF Shows, w
<1>3. ASSUME NEW i \in 1..Len(u), u[i].kind = Ground(b), \A j \in (i + 1)..Len(u) : ~IsGround(u[j]) PROVE Shows(w, v2, b)
  <2>1. CASE i = 1
    <3>1. v2 = b
      BY <1>3, <2>1 DEF Ground
    <3>2. \A j \in 1..Len(w) : j + 1 \in (i + 1)..Len(u)
      BY <1>1, <2>1
    <3>3. \A j \in 1..Len(w) : ~IsGround(w[j])
      BY <1>1, <1>3, <3>2
    <3> QED
      BY <3>1, <3>3 DEF Shows
  <2>2. CASE i # 1
    <3>1. i - 1 \in 1..Len(w) /\ (i - 1) + 1 = i
      BY <1>1, <2>2
    <3>2. w[i - 1].kind = Ground(b)
      BY <1>1, <1>3, <3>1
    <3>3. \A j \in ((i - 1) + 1)..Len(w) : j \in 1..Len(w) /\ j + 1 \in (i + 1)..Len(u)
      BY <1>1
    <3>4. \A j \in ((i - 1) + 1)..Len(w) : ~IsGround(w[j])
      BY <1>1, <1>3, <3>3
    <3> QED
      BY <3>1, <3>2, <3>4 DEF Shows
  <2> QED
    BY <2>1, <2>2
<1> QED
  BY <1>2, <1>3 DEF Shows, w

(* A viewer who clears the ground sees what is under way, or nothing.       *)
LEMMA ShowsCleared ==
  ASSUME NEW u, NEW v, NEW b, Shows(u, v, b)
  PROVE  Shows(u, FALSE, b) \/ Shows(u, FALSE, FALSE)
  BY DEF Shows

CloudTypes ==
  /\ producer \in {"none", "runs", "ended"} /\ index \in 0..MaxPairs /\ wanted \in BOOLEAN /\ refusal \in BOOLEAN
  /\ planes \in Nat \ {0} /\ plane \in 0..planes /\ seen \in [plane : 0..planes, refusal : BOOLEAN]
  /\ onWire \in Seq(CloudMessages) /\ queue \in Seq(CloudMessages) /\ calls \in Seq(CloudMessages)
  /\ said \in Nat /\ heard \in Seq(Nat)
  /\ commands \in Seq({"calibrate", "clear-ground"}) /\ sent \in 0..MaxCommands
  /\ cloudSocket \in {"none", "opening", "open", "gone"} /\ visits \in 0..MaxVisits
  /\ view \in [levelled : BOOLEAN, calibrating : BOOLEAN, frame : -1..MaxPairs,
                status : {"idle", "connecting", "streaming", "error", "closed"}]

(* What is under way is a path from what the browser has to what was made.  *)
OnItsWay == Path(underWay, view.frame, index, Len(heard), said)
HeardAll == Len(heard) <= said /\ \A i \in 1..Len(heard) : heard[i] = i
Unbegun ==
  producer = "none" => /\ onWire = <<>> /\ queue = <<>> /\ calls = <<>> /\ heard = <<>>
                       /\ said = 0 /\ index = 0 /\ seen.plane = 0
Begun == producer # "none" => view.frame <= index /\ said > 0 /\ cloudSocket \in {"open", "gone"}
Greeted == heard = <<>> /\ underWay # <<>> => Greeting(underWay[1])

(* The view follows what was told last; or it was cleared here, and the     *)
(* request is under way, or was read and not yet told of.                   *)
Owed == plane # seen.plane \/ \E i \in 1..Len(commands) : commands[i] = "clear-ground"
Follows ==
  cloudSocket \in {"opening", "open"} =>
    Shows(underWay, view.levelled, seen.plane # 0) \/ (Shows(underWay, view.levelled, FALSE) /\ Owed)

CloudInv ==
  /\ CloudTypes /\ OnItsWay /\ HeardAll /\ FramesIn(queue) <= QUEUE_DEPTH
  /\ Unbegun /\ Begun /\ Greeted /\ StatusIsOfTheSocket /\ Follows

LEMMA MessageIs ==
  ASSUME NEW k \in KINDS, NEW n \in Nat
  PROVE  CloudMessage(k, n) \in CloudMessages /\ CloudMessage(k, n).kind = k /\ CloudMessage(k, n).index = n
  BY DEF CloudMessage, CloudMessages

LEMMA Bounds == /\ QUEUE_DEPTH \in Nat \ {0} /\ MaxPairs \in Nat /\ MaxCommands \in Nat /\ MaxVisits \in Nat
                /\ MaxPoints \in Nat /\ MaxBlobs \in Nat
  BY CloudAssumption

LEMMA NothingHere ==
  /\ <<>> \in Seq(CloudMessages) /\ Len(<<>>) = 0 /\ <<>> \o <<>> \o <<>> = <<>> /\ FramesIn(<<>>) = 0
  /\ \A lo, hi, h : h \in Nat => Path(<<>>, lo, hi, h, h)
<1>1. <<>> \in Seq(CloudMessages) /\ Len(<<>>) = 0 /\ 1..0 = {}
  BY EmptySeq
<1>2. <<>> \o <<>> = <<>>
  BY <1>1, ConcatEmptySeq
<1>3. FramesIn(<<>>) = 0
  <2>1. FramesIn(<<>>) \in Nat /\ FramesIn(<<>>) <= Len(<<>>)
    BY <1>1, FramesAre, Zenon
  <2> QED
    BY <1>1, <2>1
<1>4. \A lo, hi, h : h \in Nat => Path(<<>>, lo, hi, h, h)
  BY <1>1 DEF Path
<1> QED
  BY <1>1, <1>2, <1>3, <1>4

(* A scene that is left, or a socket that is lost: nothing is left of it.   *)
LEMMA Reset ==
  ASSUME CloudInv, NoSession,
         \/ /\ cloudSocket' = "opening" /\ visits' \in 0..MaxVisits
            /\ view' = [levelled |-> FALSE, calibrating |-> TRUE, frame |-> -1, status |-> "connecting"]
         \/ cloudSocket' = "none" /\ visits' = visits /\ view' = [view EXCEPT !.status = "idle"]
         \/ cloudSocket' = "gone" /\ visits' = visits /\ \E end \in {"error", "closed"} : view' = [view EXCEPT !.status = end]
  PROVE  CloudInv'
<1> USE DEF CloudInv
<1>1. underWay' = <<>> /\ heard' = <<>> /\ Len(heard') = 0 /\ said' = 0 /\ FramesIn(queue') = 0
  BY NothingHere DEF underWay, NoSession
<1>2. CloudTypes'
  <2>1. CloudTypes
    OBVIOUS
  <2>2. commands' = <<>> /\ commands' \in Seq({"calibrate", "clear-ground"}) /\ heard' \in Seq(Nat)
    BY EmptySeq DEF NoSession
  <2>3. seen' \in [plane : 0..planes', refusal : BOOLEAN] /\ plane' \in 0..planes' /\ planes' \in Nat \ {0} /\ index' \in 0..MaxPairs
    BY Bounds DEF NoSession
  <2>4. /\ view' \in [levelled : BOOLEAN, calibrating : BOOLEAN, frame : -1..MaxPairs,
                       status : {"idle", "connecting", "streaming", "error", "closed"}]
        /\ cloudSocket' \in {"none", "opening", "open", "gone"} /\ visits' \in 0..MaxVisits
    <3> DEFINE V == [levelled : BOOLEAN, calibrating : BOOLEAN, frame : -1..MaxPairs,
                     status : {"idle", "connecting", "streaming", "error", "closed"}]
    <3>1. view \in V /\ visits \in 0..MaxVisits
      BY <2>1 DEF CloudTypes
    <3>2. [levelled |-> FALSE, calibrating |-> TRUE, frame |-> -1, status |-> "connecting"] \in V
      BY Bounds
    <3>3. \A s \in {"idle", "error", "closed"} : [view EXCEPT !.status = s] \in V
      BY <3>1
    <3> QED
      BY <3>1, <3>2, <3>3
  <2> QED
    BY <2>1, <2>2, <2>3, <2>4, NothingHere DEF CloudTypes, NoSession
<1>3. OnItsWay'
  BY <1>1, NothingHere DEF OnItsWay
<1>4. HeardAll' /\ Unbegun' /\ Begun' /\ Greeted'
  BY <1>1 DEF HeardAll, Unbegun, Begun, Greeted, NoSession
<1>5. StatusIsOfTheSocket'
  BY <1>1 DEF StatusIsOfTheSocket, CloudTypes
<1>6. Follows'
  <2>1. cloudSocket' \in {"opening", "open"} => view'.levelled = FALSE /\ (seen'.plane # 0) = FALSE
    BY DEF NoSession
  <2>2. cloudSocket' \in {"opening", "open"} => Shows(<<>>, view'.levelled, seen'.plane # 0)
    BY <2>1, ShowsNothing
  <2> QED
    BY <1>1, <2>2 DEF Follows
<1>7. (FramesIn(queue) <= QUEUE_DEPTH)'
  BY <1>1, Bounds
<1> QED
  BY <1>2, <1>3, <1>4, <1>5, <1>6, <1>7

(* The first word: the hello, or why there will be none.                    *)
LEMMA FirstWord ==
  ASSUME CloudInv, cloudSocket = "open", producer = "none", producer' \in {"runs", "ended"},
         NEW k \in {"hello", "failure"}, Say(k, onWire), plane' \in 0..planes, wanted' \in BOOLEAN,
         UNCHANGED <<index, refusal, planes, seen, calls, queue, heard, commands, sent, cloudLink, view>>
  PROVE  CloudInv'
<1> USE DEF CloudInv
<1> DEFINE m == CloudMessage(k, 1)
<1>1. /\ onWire = <<>> /\ queue = <<>> /\ calls = <<>> /\ heard = <<>> /\ said = 0 /\ index = 0 /\ seen.plane = 0
      /\ underWay = <<>> /\ onWire' = Append(<<>>, m) /\ said' = 1
  BY NothingHere DEF Unbegun, Say, underWay
<1>2. m \in CloudMessages /\ m.kind = k /\ m.index = 1 /\ Control(m) /\ ~IsGround(m) /\ Greeting(m)
  BY MessageIs DEF KINDS, Control, IsFrame, IsGround, Greeting
<1> HIDE DEF m
<1>3. underWay' = Append(<<>>, m) /\ underWay' \in Seq(CloudMessages) /\ underWay'[1] = m
  <2>1. Append(<<>>, m) \in Seq(CloudMessages) /\ Append(<<>>, m)[1] = m
    BY <1>2, NothingHere, AppendProperties
  <2>2. underWay' = Append(<<>>, m) \o <<>> \o <<>>
    BY <1>1 DEF underWay
  <2> QED
    BY <2>1, <2>2, ConcatEmptySeq
<1>4. CloudTypes'
  BY <1>1, <1>3, ConcatEmptySeq, <1>2, NothingHere, AppendProperties DEF CloudTypes, cloudLink
<1>5. OnItsWay'
  <2>1. view.frame \in Int /\ Len(heard) = 0
    BY <1>1, NothingHere, Bounds DEF CloudTypes
  <2>2. view.frame = -1
    BY <1>1 DEF StatusIsOfTheSocket, CloudTypes
  <2>3. Path(<<>>, -1, 0, 0, 0)
    BY NothingHere
  <2>4. Path(Append(<<>>, m), -1, 0, 0, 0 + 1)
    <3>1. -1 \in Int /\ 0 \in Nat /\ 0 <= 0 /\ m.index = 0 + 1
      BY <1>2
    <3> QED
      BY <1>2, <2>3, <3>1, NextSaid, Zenon
  <2> QED
    BY <1>1, <1>3, <2>1, <2>2, <2>4 DEF OnItsWay
<1>6. HeardAll'
  BY <1>1, NothingHere DEF HeardAll
<1>7. Unbegun' /\ Begun' /\ Greeted'
  BY <1>1, <1>2, <1>3 DEF Unbegun, Begun, Greeted, StatusIsOfTheSocket, cloudLink, CloudTypes
<1>8. StatusIsOfTheSocket'
  BY DEF StatusIsOfTheSocket, cloudLink
<1>9. Follows'
  <2>1. Shows(underWay, view.levelled, FALSE)
    BY <1>1 DEF Follows
  <2>2. Shows(underWay', view.levelled, FALSE)
    BY <1>1, <1>2, <1>3, <2>1, NothingHere, ShowsMore
  <2> QED
    BY <1>1, <2>2 DEF Follows
<1> QED
  BY <1>4, <1>5, <1>6, <1>7, <1>8, <1>9

(* Steps that leave the pipe as it is.                                      *)
LEMMA PipeRests ==
  ASSUME CloudInv, UNCHANGED <<pipe, index, seen, producer>>, view'.frame = view.frame,
         CloudTypes', Begun', StatusIsOfTheSocket', Follows'
  PROVE  CloudInv'
<1> USE DEF CloudInv
<1>1. underWay' = underWay
  BY DEF pipe, underWay
<1>2. OnItsWay' /\ HeardAll' /\ (FramesIn(queue) <= QUEUE_DEPTH)' /\ Unbegun' /\ Greeted'
  BY <1>1 DEF OnItsWay, HeardAll, Unbegun, Greeted, pipe
<1> QED
  BY <1>2

LEMMA AcceptedStep == CloudInv /\ Accepted => CloudInv'
<1> SUFFICES ASSUME CloudInv, Accepted PROVE CloudInv'
  OBVIOUS
<1> USE DEF CloudInv, Accepted
<1>1. UNCHANGED <<pipe, index, seen, producer>> /\ view' = view
  BY DEF session
<1>2. CloudTypes'
  BY DEF CloudTypes, session, pipe
<1>3. producer = "none" /\ heard = <<>>
  BY DEF Begun, Unbegun, CloudTypes
<1>4. Begun' /\ StatusIsOfTheSocket'
  BY <1>1, <1>3 DEF Begun, StatusIsOfTheSocket, pipe, CloudTypes
<1>5. Follows'
  BY <1>1 DEF Follows, Owed, underWay, pipe, session
<1> QED
  BY <1>1, <1>2, <1>4, <1>5, PipeRests

(* What moves nothing disturbs nothing.                                     *)
LEMMA AllRests ==
  ASSUME CloudInv, UNCHANGED <<session, pipe, commands, sent, cloudLink, view>>
  PROVE  CloudTypes' /\ Begun' /\ StatusIsOfTheSocket' /\ Follows'
<1>1. CloudTypes'
  BY DEF CloudInv, CloudTypes, session, pipe, cloudLink
<1>2. Begun' /\ StatusIsOfTheSocket'
  BY DEF CloudInv, Begun, StatusIsOfTheSocket, session, pipe, cloudLink
<1>3. underWay' = underWay
  BY DEF underWay, pipe
<1>4. Owed' <=> Owed
  BY DEF Owed, session
<1>5. UNCHANGED <<cloudSocket, view, seen>>
  BY DEF session, cloudLink
<1>6. Follows'
  BY <1>3, <1>4, <1>5 DEF CloudInv, Follows
<1> QED
  BY <1>1, <1>2, <1>6

LEMMA LateStep == CloudInv /\ LateMessage => CloudInv'
<1> SUFFICES ASSUME CloudInv, LateMessage PROVE CloudInv'
  OBVIOUS
<1> USE DEF CloudInv
<1>1. view' = view /\ UNCHANGED <<session, pipe, commands, sent, cloudLink>>
  BY DEF LateMessage, Unhandled
<1>2. CloudTypes' /\ Begun' /\ StatusIsOfTheSocket' /\ Follows'
  BY <1>1, AllRests
<1>3. UNCHANGED <<pipe, index, seen, producer>> /\ view'.frame = view.frame
  BY <1>1 DEF session
<1> QED
  BY <1>2, <1>3, PipeRests

LEMMA SendIs ==
  ASSUME CloudTypes, NEW c \in {"calibrate", "clear-ground"}, Send(c)
  PROVE  /\ commands' \in Seq({"calibrate", "clear-ground"}) /\ sent' \in 0..MaxCommands
         /\ Len(commands) \in Nat /\ Len(commands') = Len(commands) + 1 /\ commands'[Len(commands) + 1] = c
         /\ \A i \in 1..Len(commands) : i \in 1..Len(commands') /\ commands'[i] = commands[i]
<1>1. commands \in Seq({"calibrate", "clear-ground"}) /\ commands' = Append(commands, c)
  BY DEF CloudTypes, Send
<1>2. sent' \in 0..MaxCommands
  BY Bounds DEF CloudTypes, Send
<1>3. /\ commands' \in Seq({"calibrate", "clear-ground"}) /\ Len(commands') = Len(commands) + 1
      /\ commands'[Len(commands) + 1] = c /\ \A i \in 1..Len(commands) : commands'[i] = commands[i]
  BY <1>1, AppendProperties
<1>4. Len(commands) \in Nat
  BY <1>1, LenProperties
<1> QED
  BY <1>2, <1>3, <1>4

LEMMA CalibrateStep == CloudInv /\ Calibrate => CloudInv'
<1> SUFFICES ASSUME CloudInv, Calibrate PROVE CloudInv'
  OBVIOUS
<1> USE DEF CloudInv
<1>1. /\ UNCHANGED <<session, pipe, cloudLink>> /\ Send("calibrate") /\ view' = [view EXCEPT !.calibrating = TRUE]
      /\ view'.frame = view.frame /\ view'.levelled = view.levelled /\ view'.status = view.status
  BY DEF Calibrate, CloudTypes
<1>2. CloudTypes'
  BY <1>1, SendIs DEF CloudTypes, session, pipe, cloudLink
<1>3. Begun' /\ StatusIsOfTheSocket'
  BY <1>1 DEF Begun, StatusIsOfTheSocket, session, pipe, cloudLink
<1>4. Owed => Owed'
  BY <1>1, SendIs DEF Owed, session
<1>5. Follows'
  BY <1>1, <1>4 DEF Follows, underWay, session, pipe, cloudLink
<1>6. UNCHANGED <<pipe, index, seen, producer>>
  BY <1>1 DEF session
<1> QED
  BY <1>1, <1>2, <1>3, <1>5, <1>6, PipeRests

LEMMA ClearStep == CloudInv /\ ClearGround => CloudInv'
<1> SUFFICES ASSUME CloudInv, ClearGround PROVE CloudInv'
  OBVIOUS
<1> USE DEF CloudInv
<1>1. /\ UNCHANGED <<session, pipe, cloudLink>> /\ view' = [view EXCEPT !.levelled = FALSE]
      /\ view'.frame = view.frame /\ view'.levelled = FALSE /\ view'.status = view.status
  BY DEF ClearGround, CloudTypes
<1>2. CASE cloudSocket = "open"
  <2>1. Send("clear-ground")
    BY <1>2 DEF ClearGround
  <2>2. CloudTypes'
    BY <1>1, <2>1, SendIs DEF CloudTypes, session, pipe, cloudLink
  <2>3. Owed'
    <3>1. Len(commands) + 1 \in 1..Len(commands') /\ commands'[Len(commands) + 1] = "clear-ground"
      BY <2>1, SendIs
    <3> QED
      BY <3>1 DEF Owed
  <2>4. Shows(underWay, FALSE, seen.plane # 0) \/ Shows(underWay, FALSE, FALSE)
    BY <1>2, ShowsCleared DEF Follows
  <2>5. Follows'
    BY <1>1, <2>3, <2>4 DEF Follows, underWay, session, pipe
  <2> QED
    BY <1>1, <2>2, <2>5, PipeRests DEF Begun, StatusIsOfTheSocket, session, pipe, cloudLink
<1>3. CASE cloudSocket # "open"
  <2>1. view.levelled = TRUE /\ UNCHANGED <<commands, sent>>
    BY <1>3 DEF ClearGround, CloudTypes
  <2>2. CloudTypes'
    BY <1>1, <2>1 DEF CloudTypes, session, pipe, cloudLink
  <2>3. cloudSocket # "opening"
    <3> SUFFICES ASSUME cloudSocket = "opening" PROVE FALSE
      OBVIOUS
    <3>1. underWay = <<>> /\ (seen.plane # 0) = FALSE
      BY NothingHere DEF Begun, Unbegun, underWay
    <3>2. Shows(underWay, view.levelled, FALSE)
      <4>1. Follows
        OBVIOUS
      <4> HIDE DEF CloudInv
      <4> QED
        BY <3>1, <4>1 DEF Follows
    <3>3. Shows(<<>>, view.levelled, FALSE)
      BY <3>1, <3>2, Zenon
    <3>4. view.levelled = FALSE
      BY <3>3, ShowsNothing, Zenon
    <3> QED
      BY <2>1, <3>4
  <2>4. Follows'
    BY <1>1, <1>3, <2>3 DEF Follows, cloudLink
  <2> QED
    BY <1>1, <2>2, <2>4, PipeRests DEF Begun, StatusIsOfTheSocket, session, pipe, cloudLink
<1> QED
  BY <1>2, <1>3

LEMMA CommandStep == CloudInv /\ ReadCommand => CloudInv'
<1> SUFFICES ASSUME CloudInv, ReadCommand PROVE CloudInv'
  OBVIOUS
<1> USE DEF CloudInv
<1>1. /\ UNCHANGED <<producer, index, planes, seen, pipe, sent, cloudLink, view>>
      /\ commands # <<>> /\ commands' = Tail(commands) /\ commands \in Seq({"calibrate", "clear-ground"})
  BY DEF ReadCommand, CloudTypes
<1>2. /\ commands' \in Seq({"calibrate", "clear-ground"}) /\ Len(commands) \in Nat /\ Len(commands') = Len(commands) - 1
      /\ \A i \in 1..Len(commands') : commands'[i] = commands[i + 1]
  BY <1>1, HeadTailProperties, LenProperties
<1>3. \/ Head(commands) = "calibrate" /\ wanted' = TRUE /\ UNCHANGED <<plane, refusal>>
      \/ Head(commands) # "calibrate" /\ plane' = 0 /\ refusal' = FALSE /\ UNCHANGED wanted
  BY DEF ReadCommand
<1>4. CloudTypes'
  <2>1. plane' \in 0..planes' /\ refusal' \in BOOLEAN /\ wanted' \in BOOLEAN
    <3>1. CloudTypes
      OBVIOUS
    <3> HIDE DEF CloudInv
    <3>2. plane \in 0..planes /\ planes \in Nat /\ planes' = planes /\ refusal \in BOOLEAN /\ wanted \in BOOLEAN
      BY <1>1, <3>1 DEF CloudTypes
    <3>3. CASE wanted' = TRUE /\ UNCHANGED <<plane, refusal>>
      BY <3>2, <3>3
    <3>4. CASE plane' = 0 /\ refusal' = FALSE /\ UNCHANGED wanted
      <4>1. plane' \in 0..planes'
        BY <3>2, <3>4
      <4> QED
        BY <3>2, <3>4, <4>1, Zenon
    <3> QED
      BY <1>3, <3>3, <3>4
  <2> QED
    BY <1>1, <1>2, <2>1 DEF CloudTypes, pipe, cloudLink
<1>5. Begun' /\ StatusIsOfTheSocket'
  BY <1>1 DEF Begun, StatusIsOfTheSocket, pipe, cloudLink
<1>6. Owed => Owed' \/ seen.plane = 0
  <2> SUFFICES ASSUME Owed, seen.plane # 0 PROVE Owed'
    OBVIOUS
  <2>1. CASE plane' = 0
    BY <1>1, <2>1 DEF Owed
  <2>2. CASE plane' # 0
    <3>1. Head(commands) = "calibrate" /\ plane' = plane
      BY <1>3, <2>2
    <3>2. CASE plane # seen.plane
      BY <1>1, <3>1, <3>2 DEF Owed
    <3>3. ASSUME NEW i \in 1..Len(commands), commands[i] = "clear-ground" PROVE Owed'
      <4>1. i # 1
        BY <1>1, <3>1, <3>3
      <4>2. i - 1 \in 1..Len(commands') /\ (i - 1) + 1 = i
        BY <1>2, <4>1
      <4>3. commands'[i - 1] = "clear-ground"
        BY <1>2, <3>3, <4>2
      <4> QED
        BY <4>2, <4>3 DEF Owed
    <3> QED
      BY <3>2, <3>3 DEF Owed
  <2> QED
    BY <2>1, <2>2
<1>7. Follows'
  <2>1. underWay' = underWay /\ view' = view /\ seen' = seen /\ cloudSocket' = cloudSocket
    BY <1>1 DEF underWay, pipe, cloudLink
  <2>2. seen.plane = 0 => (seen.plane # 0) = FALSE
    OBVIOUS
  <2> HIDE DEF CloudInv
  <2>3. CASE seen.plane = 0
    <3>1. cloudSocket \in {"opening", "open"} => Shows(underWay, view.levelled, FALSE)
      BY <2>2, <2>3 DEF Follows, CloudInv
    <3> QED
      BY <2>1, <2>2, <2>3, <3>1 DEF Follows
  <2>4. CASE seen.plane # 0
    BY <1>6, <2>1, <2>4 DEF Follows, CloudInv
  <2> QED
    BY <2>3, <2>4
<1> QED
  BY <1>1, <1>4, <1>5, <1>7, PipeRests

LEMMA TwoBehind ==
  ASSUME NEW r \in Seq(CloudMessages), NEW a \in CloudMessages, NEW b \in CloudMessages
  PROVE  r \o <<a, b>> = Append(Append(r, a), b)
<1>1. <<a>> \in Seq(CloudMessages) /\ <<b>> \in Seq(CloudMessages)
  OBVIOUS
<1>2. Append(r, a) = r \o <<a>> /\ r \o <<a>> \in Seq(CloudMessages)
  BY <1>1, AppendIsConcat, ConcatProperties
<1>3. Append(r \o <<a>>, b) = (r \o <<a>>) \o <<b>>
  BY <1>2, AppendIsConcat
<1>4. (r \o <<a>>) \o <<b>> = r \o (<<a>> \o <<b>>)
  BY <1>1, ConcatAssociative
<1>5. <<a>> \o <<b>> = <<a, b>>
  <2>1. Append(<<a>>, b) = <<a>> \o <<b>>
    BY <1>1, AppendIsConcat
  <2> DEFINE v == Append(<<a>>, b)
  <2>2. <<a, b>> \in Seq(CloudMessages) /\ Len(<<a, b>>) = 2 /\ <<a, b>>[1] = a /\ <<a, b>>[2] = b
    OBVIOUS
  <2>3. v \in Seq(CloudMessages) /\ Len(v) = 2 /\ v[1] = a /\ v[2] = b
    <3>1. Len(<<a>>) = 1 /\ <<a>>[1] = a /\ 1 \in 1..1
      OBVIOUS
    <3> DEFINE w == <<a>>
    <3>2. w \in Seq(CloudMessages) /\ Len(w) = 1 /\ w[1] = a
      BY <1>1, <3>1
    <3> HIDE DEF w
    <3>3. /\ Append(w, b) \in Seq(CloudMessages) /\ Len(Append(w, b)) = Len(w) + 1 /\ Append(w, b)[Len(w) + 1] = b
          /\ \A i \in 1..Len(w) : Append(w, b)[i] = w[i]
      BY <3>2, MessageBehind
    <3>4. Append(w, b) \in Seq(CloudMessages) /\ Len(Append(w, b)) = 2 /\ Append(w, b)[1] = a /\ Append(w, b)[2] = b
      BY <3>1, <3>2, <3>3
    <3> QED
      BY <3>4, Zenon DEF w
  <2> HIDE DEF v
  <2>4. v = <<a, b>>
    <3>1. \A i \in 1..Len(v) : i = 1 \/ i = 2
      BY <2>3
    <3> QED
      BY <2>2, <2>3, <3>1, SeqEqual
  <2> QED
    BY <2>1, <2>4, Zenon DEF v
<1> QED
  BY <1>2, <1>3, <1>4, <1>5

(* A producer that runs has said something, and what it says next comes     *)
(* behind that.                                                             *)
LEMMA SomethingFirst ==
  ASSUME NEW u, NEW lo, NEW hi, NEW h \in Nat, NEW s \in Nat, Path(u, lo, hi, h, s), h < s, NEW m \in CloudMessages
  PROVE  u # <<>> /\ Append(u, m)[1] = u[1]
<1>1. u \in Seq(CloudMessages) /\ Len(u) \in Nat
  BY PathIs
<1>2. h + 1 \in (h + 1)..s
  OBVIOUS
<1>3. PICK i \in 1..Len(u) : Control(u[i]) /\ u[i].index = h + 1
  BY <1>2 DEF Path
<1>4. 1 \in 1..Len(u)
  BY <1>1
<1> QED
  BY <1>1, <1>4, EmptySeq, AppendProperties

LEMMA ReconstructTypes == CloudInv /\ Reconstruct => CloudTypes'
<1> SUFFICES ASSUME CloudInv, Reconstruct PROVE CloudTypes'
  OBVIOUS
<1>1. CloudTypes
  BY DEF CloudInv
<1>2. /\ UNCHANGED <<queue, onWire, heard, commands, sent, cloudLink, view, producer>> /\ index' = index + 1 /\ index < MaxPairs
      /\ seen' = [plane |-> plane', refusal |-> refusal'] /\ Fit
  BY DEF Reconstruct, Unsaid
<1>3. index \in Nat /\ index' \in Nat /\ index' \in 0..MaxPairs /\ said \in Nat /\ said + 1 \in Nat
  BY <1>1, <1>2, Bounds DEF CloudTypes
<1>4. plane' \in 0..planes' /\ planes' \in Nat \ {0}
  <2>1. plane \in 0..planes /\ planes \in Nat \ {0}
    BY <1>1 DEF CloudTypes
  <2>2. \/ plane' = plane /\ planes' = planes
        \/ plane' = planes + 1 /\ planes' = planes + 1
    BY <1>2 DEF Fit
  <2> QED
    BY <2>1, <2>2
<1>5. wanted' \in BOOLEAN /\ refusal' \in BOOLEAN
  BY <1>1, <1>2, Zenon DEF CloudTypes, Fit
<1>6. seen' \in [plane : 0..planes', refusal : BOOLEAN]
  BY <1>2, <1>4, <1>5
<1>7. Pair(index') \in CloudMessages /\ CloudMessage(Ground(plane' # 0), said + 1) \in CloudMessages
  BY <1>3, MessageIs DEF Pair, Ground, KINDS
<1>8. calls' \in Seq(CloudMessages) /\ said' \in Nat
  <2>1. calls \in Seq(CloudMessages)
    BY <1>1 DEF CloudTypes
  <2>2. CASE calls' = Append(calls, Pair(index')) /\ UNCHANGED said
    BY <1>3, <1>7, <2>1, <2>2, AppendProperties
  <2>3. CASE said' = said + 1 /\ calls' = calls \o <<CloudMessage(Ground(plane' # 0), said'), Pair(index')>>
    BY <1>3, <1>7, <2>1, <2>3, AppendProperties, TwoBehind
  <2> QED
    BY <2>2, <2>3 DEF Reconstruct
<1> QED
  BY <1>1, <1>2, <1>3, <1>4, <1>5, <1>6, <1>8 DEF CloudTypes, cloudLink

LEMMA ReconstructStep == CloudInv /\ Reconstruct => CloudInv'
<1> SUFFICES ASSUME CloudInv, Reconstruct PROVE CloudInv'
  OBVIOUS
<1>1. /\ UNCHANGED <<queue, onWire, heard, commands, sent, cloudLink, view, producer>> /\ index' = index + 1 /\ producer = "runs"
      /\ seen' = [plane |-> plane', refusal |-> refusal'] /\ Fit /\ index \in Nat /\ said \in Nat /\ Len(heard) \in Nat
      /\ view.frame \in Int /\ view.frame <= index /\ said > 0 /\ Len(heard) <= said
  BY LenProperties, Bounds DEF CloudInv, CloudTypes, Reconstruct, Unsaid, Begun, HeardAll
<1> DEFINE g == CloudMessage(Ground(plane' # 0), said + 1)
           m == Pair(index + 1)
           U == underWay
<1>2. /\ g \in CloudMessages /\ m \in CloudMessages /\ g.kind = Ground(plane' # 0) /\ g.index = said + 1 /\ m.kind = "frame" /\ m.index = index + 1
      /\ Control(g) /\ ~IsFrame(g) /\ IsFrame(m) /\ ~IsGround(m)
  BY <1>1, MessageIs DEF Pair, Ground, KINDS, Control, IsFrame, IsGround
<1> HIDE DEF g, m
<1>3. /\ onWire \in Seq(CloudMessages) /\ queue \in Seq(CloudMessages) /\ calls \in Seq(CloudMessages) /\ U \in Seq(CloudMessages)
      /\ Path(U, view.frame, index, Len(heard), said)
  BY PathIs DEF CloudInv, CloudTypes, OnItsWay
<1>4. \/ News /\ said' = said + 1 /\ calls' = Append(Append(calls, g), m)
      \/ ~News /\ said' = said /\ calls' = Append(calls, m)
  <2>1. CASE ~News /\ calls' = Append(calls, Pair(index')) /\ UNCHANGED said
    BY <1>1, <2>1 DEF m
  <2>2. CASE News /\ said' = said + 1 /\ calls' = calls \o <<CloudMessage(Ground(plane' # 0), said'), Pair(index')>>
    <3>1. calls' = calls \o <<g, m>>
      BY <1>1, <2>2 DEF g, m
    <3> QED
      BY <1>2, <1>3, <2>2, <3>1, TwoBehind
  <2> QED
    BY <2>1, <2>2 DEF Reconstruct
<1>5. \/ News /\ said' = said + 1 /\ underWay' = Append(Append(U, g), m)
      \/ ~News /\ said' = said /\ underWay' = Append(U, m)
  <2>1. \A c \in Seq(CloudMessages), n \in CloudMessages : onWire \o queue \o Append(c, n) = Append(onWire \o queue \o c, n)
    BY <1>3, PipeSays
  <2>2. Append(calls, g) \in Seq(CloudMessages)
    BY <1>2, <1>3, AppendProperties
  <2>3. CASE News /\ said' = said + 1 /\ calls' = Append(Append(calls, g), m)
    <3>1. onWire \o queue \o Append(calls, g) = Append(U, g)
      BY <1>2, <1>3, <2>1 DEF underWay
    <3>2. onWire \o queue \o Append(Append(calls, g), m) = Append(onWire \o queue \o Append(calls, g), m)
      BY <1>2, <2>1, <2>2
    <3> QED
      BY <1>1, <2>3, <3>1, <3>2 DEF underWay
  <2>4. CASE ~News /\ said' = said /\ calls' = Append(calls, m)
    BY <1>1, <1>2, <1>3, <2>1, <2>4 DEF underWay
  <2> QED
    BY <1>4, <2>3, <2>4
<1>6. Path(Append(U, g), view.frame, index, Len(heard), said + 1) /\ Append(U, g) \in Seq(CloudMessages)
  BY <1>1, <1>2, <1>3, NextSaid, AppendProperties
<1>7. CloudTypes'
  BY ReconstructTypes
<1>8. OnItsWay'
  <2>1. CASE News /\ said' = said + 1 /\ underWay' = Append(Append(U, g), m)
    <3>1. Path(Append(Append(U, g), m), view.frame, index + 1, Len(heard), said + 1)
      BY <1>1, <1>2, <1>6, NextFrame
    <3> QED
      BY <1>1, <2>1, <3>1 DEF OnItsWay
  <2>2. CASE ~News /\ said' = said /\ underWay' = Append(U, m)
    <3>1. Path(Append(U, m), view.frame, index + 1, Len(heard), said)
      BY <1>1, <1>2, <1>3, NextFrame
    <3> QED
      BY <1>1, <2>2, <3>1 DEF OnItsWay
  <2> QED
    BY <1>5, <2>1, <2>2
<1>9. HeardAll' /\ (FramesIn(queue) <= QUEUE_DEPTH)' /\ Unbegun' /\ Begun'
  BY <1>1, <1>5 DEF CloudInv, HeardAll, Unbegun, Begun, cloudLink
<1>10. Greeted'
  <2> SUFFICES ASSUME heard = <<>> PROVE Greeting(underWay'[1])
    BY <1>1 DEF Greeted
  <2>1. Len(heard) < said
    BY <1>1
  <2>2. U # <<>> /\ Append(U, g)[1] = U[1] /\ Append(U, m)[1] = U[1]
    BY <1>1, <1>2, <1>3, <2>1, SomethingFirst
  <2>3. Append(Append(U, g), m)[1] = U[1]
    BY <1>1, <1>2, <1>6, <2>1, <2>2, SomethingFirst
  <2>4. Greeting(U[1])
    BY <2>2 DEF CloudInv, Greeted
  <2> QED
    BY <1>5, <2>2, <2>3, <2>4
<1>11. StatusIsOfTheSocket'
  BY <1>1 DEF CloudInv, StatusIsOfTheSocket, cloudLink
<1>12. Follows'
  <2> SUFFICES ASSUME cloudSocket \in {"opening", "open"}
      PROVE \/ Shows(underWay', view.levelled, seen'.plane # 0)
            \/ Shows(underWay', view.levelled, FALSE) /\ Owed'
    BY <1>1 DEF Follows, cloudLink
  <2>1. seen'.plane = plane'
    BY <1>1
  <2>2. CASE News /\ said' = said + 1 /\ underWay' = Append(Append(U, g), m)
    <3>1. Shows(Append(U, g), view.levelled, plane' # 0)
      BY <1>2, <1>3, ShowsMore
    <3>2. Shows(Append(Append(U, g), m), view.levelled, plane' # 0)
      BY <1>2, <1>6, <3>1, ShowsMore
    <3> QED
      BY <2>1, <2>2, <3>2
  <2>3. CASE ~News /\ said' = said /\ underWay' = Append(U, m)
    <3>1. plane' = seen.plane /\ seen'.plane = seen.plane
      BY <2>1, <2>3 DEF News
    <3>2. \A b : Shows(U, view.levelled, b) => Shows(Append(U, m), view.levelled, b)
      BY <1>2, <1>3, ShowsMore
    <3>3. plane' = plane \/ (plane' = planes + 1 /\ seen.plane <= planes /\ planes \in Nat)
      BY <1>1 DEF Fit, CloudInv, CloudTypes
    <3>4. plane = seen.plane
      BY <3>1, <3>3
    <3>5. Owed => Owed'
      BY <1>1, <3>1, <3>4 DEF Owed
    <3> QED
      BY <2>3, <3>1, <3>2, <3>5 DEF CloudInv, Follows
  <2> QED
    BY <1>5, <2>2, <2>3
<1> QED
  BY <1>7, <1>8, <1>9, <1>10, <1>11, <1>12 DEF CloudInv

LEMMA EndStep == CloudInv /\ EndSession => CloudInv'
<1> SUFFICES ASSUME CloudInv, EndSession PROVE CloudInv'
  OBVIOUS
<1>1. /\ UNCHANGED <<index, plane, refusal, wanted, planes, seen, queue, onWire, heard, commands, sent, cloudLink, view>>
      /\ producer = "runs" /\ producer' = "ended" /\ index \in Nat /\ said \in Nat /\ Len(heard) \in Nat
      /\ view.frame \in Int /\ view.frame <= index /\ said > 0 /\ Len(heard) <= said
  BY LenProperties, Bounds DEF CloudInv, CloudTypes, EndSession, Unsaid, Begun, HeardAll
<1> DEFINE f == CloudMessage("failure", said + 1)
           e(n) == CloudMessage("end", n)
           U == underWay
<1>2. /\ f \in CloudMessages /\ f.index = said + 1 /\ Control(f) /\ ~IsGround(f)
      /\ \A n \in Nat : e(n) \in CloudMessages /\ e(n).index = n /\ Control(e(n)) /\ ~IsGround(e(n))
  BY <1>1, MessageIs DEF KINDS, Control, IsFrame, IsGround
<1>3. /\ onWire \in Seq(CloudMessages) /\ queue \in Seq(CloudMessages) /\ calls \in Seq(CloudMessages) /\ U \in Seq(CloudMessages)
      /\ Path(U, view.frame, index, Len(heard), said)
  BY PathIs DEF CloudInv, CloudTypes, OnItsWay
<1>4. PICK s \in {said, said + 1} :
        /\ said' = s + 1
        /\ \/ s = said /\ calls' = Append(calls, e(s + 1))
           \/ s = said + 1 /\ calls' = Append(Append(calls, f), e(s + 1))
  <2>1. CASE Say("end", calls)
    BY <1>1, <2>1 DEF Say
  <2>2. CASE said' = said + 2 /\ calls' = calls \o <<CloudMessage("failure", said + 1), CloudMessage("end", said')>>
    <3>1. (said + 1) + 1 = said + 2 /\ said + 2 \in Nat
      BY <1>1
    <3>2. calls' = calls \o <<f, e(said + 2)>>
      BY <2>2
    <3> HIDE DEF f, e
    <3>3. calls' = Append(Append(calls, f), e(said + 2))
      BY <1>2, <1>3, <3>1, <3>2, TwoBehind
    <3> QED
      BY <2>2, <3>1, <3>3
  <2> QED
    BY <2>1, <2>2 DEF EndSession
<1> DEFINE last == e(s + 1)
<1>5. s \in Nat /\ s + 1 \in Nat /\ last \in CloudMessages /\ last.index = s + 1 /\ Control(last) /\ ~IsGround(last)
  BY <1>1, <1>2
<1> HIDE DEF f, e, last
<1>6. PICK V \in Seq(CloudMessages), c \in Seq(CloudMessages) :
        /\ calls' = Append(c, last) /\ onWire \o queue \o c = V /\ Path(V, view.frame, index, Len(heard), s)
        /\ \A b : Shows(U, view.levelled, b) => Shows(V, view.levelled, b)
        /\ heard = <<>> => V # <<>> /\ V[1] = U[1]
  <2>1. CASE s = said /\ calls' = Append(calls, e(s + 1))
    <3>1. heard = <<>> => U # <<>>
      <4> SUFFICES ASSUME heard = <<>> PROVE U # <<>>
        OBVIOUS
      <4>1. Len(heard) < said
        BY <1>1
      <4> QED
        BY <1>1, <1>2, <1>3, <4>1, SomethingFirst
    <3>2. onWire \o queue \o calls = U
      BY DEF underWay
    <3> HIDE DEF U
    <3> QED
      BY <1>3, <2>1, <3>1, <3>2 DEF last
  <2>2. CASE s = said + 1 /\ calls' = Append(Append(calls, f), e(s + 1))
    <3>1. Path(Append(U, f), view.frame, index, Len(heard), s)
      BY <1>1, <1>2, <1>3, <2>2, NextSaid
    <3>2. onWire \o queue \o Append(calls, f) = Append(U, f)
      BY <1>2, <1>3, PipeSays DEF underWay
    <3>3. \A b : Shows(U, view.levelled, b) => Shows(Append(U, f), view.levelled, b)
      BY <1>2, <1>3, ShowsMore
    <3>4. Append(calls, f) \in Seq(CloudMessages) /\ Append(U, f) \in Seq(CloudMessages) /\ Append(U, f) # <<>>
      BY <1>2, <1>3, AppendProperties
    <3>5. heard = <<>> => Append(U, f)[1] = U[1]
      <4> SUFFICES ASSUME heard = <<>> PROVE Append(U, f)[1] = U[1]
        OBVIOUS
      <4>1. Len(heard) < said
        BY <1>1
      <4> QED
        BY <1>1, <1>2, <1>3, <4>1, SomethingFirst
    <3> HIDE DEF U
    <3> QED
      BY <2>2, <3>1, <3>2, <3>3, <3>4, <3>5 DEF last
  <2> QED
    BY <1>4, <2>1, <2>2
<1>7. underWay' = Append(V, last)
  <2>1. \A r \in Seq(CloudMessages), x \in CloudMessages : onWire \o queue \o Append(r, x) = Append(onWire \o queue \o r, x)
    BY <1>3, PipeSays
  <2> QED
    <3>1. onWire \o queue \o Append(c, last) = Append(V, last)
      BY <1>5, <1>6, <2>1
    <3> QED
      BY <1>1, <1>6, <3>1 DEF underWay
<1>8. CloudTypes'
  <2>1. calls' \in Seq(CloudMessages)
    BY <1>5, <1>6, AppendProperties
  <2>2. said' \in Nat
    BY <1>4, <1>5
  <2>3. CloudTypes
    BY DEF CloudInv
  <2> QED
    BY <1>1, <2>1, <2>2, <2>3 DEF CloudTypes, cloudLink
<1>9. OnItsWay'
  <2>1. Len(heard) <= s
    BY <1>1, <1>4
  <2>2. Path(Append(V, last), view.frame, index, Len(heard), s + 1)
    BY <1>1, <1>5, <1>6, <2>1, NextSaid
  <2> QED
    BY <1>1, <1>4, <1>7, <2>2 DEF OnItsWay
<1>10. HeardAll' /\ (FramesIn(queue) <= QUEUE_DEPTH)' /\ Unbegun' /\ Begun'
  BY <1>1, <1>4 DEF CloudInv, HeardAll, Unbegun, Begun, cloudLink
<1>11. Greeted'
  <2> SUFFICES ASSUME heard = <<>> PROVE Greeting(underWay'[1])
    BY <1>1 DEF Greeted
  <2>1. V # <<>> /\ V[1] = U[1]
    BY <1>6
  <2>2. 1 \in 1..Len(V)
    BY <2>1, EmptySeq
  <2>3. underWay'[1] = U[1]
    BY <1>5, <1>7, <2>1, <2>2, AppendProperties
  <2>4. U # <<>>
    <3>1. Len(heard) < said
      BY <1>1
    <3> QED
      BY <1>1, <1>2, <1>3, <3>1, SomethingFirst
  <2> QED
    BY <2>3, <2>4 DEF CloudInv, Greeted
<1>12. StatusIsOfTheSocket'
  BY <1>1 DEF CloudInv, StatusIsOfTheSocket, cloudLink
<1>13. Follows'
  <2>1. \A b : Shows(U, view.levelled, b) => Shows(underWay', view.levelled, b)
    BY <1>5, <1>6, <1>7, ShowsMore
  <2>2. Owed' <=> Owed
    BY <1>1 DEF Owed
  <2> QED
    BY <1>1, <2>1, <2>2 DEF CloudInv, Follows, cloudLink
<1> QED
  BY <1>8, <1>9, <1>10, <1>11, <1>12, <1>13 DEF CloudInv

LEMMA ForwardStep == CloudInv /\ Forward => CloudInv'
<1> SUFFICES ASSUME CloudInv, Forward PROVE CloudInv'
  OBVIOUS
<1>1. /\ UNCHANGED <<session, calls, said, heard, commands, sent, cloudLink, view>>
      /\ queue # <<>> /\ queue' = Tail(queue) /\ onWire' = Append(onWire, Head(queue))
      /\ onWire \in Seq(CloudMessages) /\ queue \in Seq(CloudMessages) /\ calls \in Seq(CloudMessages)
  BY DEF CloudInv, CloudTypes, Forward
<1>2. underWay' = underWay
  BY <1>1, PipeSends DEF underWay
<1>3. queue' \in Seq(CloudMessages) /\ onWire' \in Seq(CloudMessages)
  BY <1>1, HeadFirst, AppendProperties
<1>4. CloudTypes'
  BY <1>1, <1>3 DEF CloudInv, CloudTypes, session, cloudLink
<1>5. (FramesIn(queue) <= QUEUE_DEPTH)'
  <2>1. FramesIn(queue') <= FramesIn(queue) /\ FramesIn(queue') \in Nat /\ FramesIn(queue) \in Nat
    BY <1>1, <1>3, FewerFrames, FramesAre
  <2> QED
    BY <2>1, Bounds DEF CloudInv
<1>6. producer # "none"
  BY <1>1 DEF CloudInv, Unbegun
<1>7. Unbegun' /\ Begun' /\ HeardAll' /\ OnItsWay' /\ Greeted'
  BY <1>1, <1>2, <1>6 DEF CloudInv, Unbegun, Begun, HeardAll, OnItsWay, Greeted, session, cloudLink
<1>8. StatusIsOfTheSocket' /\ Follows'
  BY <1>1, <1>2 DEF CloudInv, StatusIsOfTheSocket, Follows, Owed, session, cloudLink
<1> QED
  BY <1>4, <1>5, <1>7, <1>8 DEF CloudInv

LEMMA DeliverStep == CloudInv /\ Deliver => CloudInv'
<1> SUFFICES ASSUME CloudInv, Deliver PROVE CloudInv'
  OBVIOUS
<1> DEFINE m == Head(calls)
           kept == IF Crowded(m) THEN Without(queue, Oldest(queue)) ELSE queue
           U == underWay
<1>1. /\ UNCHANGED <<session, onWire, said, heard, commands, sent, cloudLink, view>>
      /\ calls # <<>> /\ calls' = Tail(calls) /\ queue' = Append(kept, m)
      /\ onWire \in Seq(CloudMessages) /\ queue \in Seq(CloudMessages) /\ calls \in Seq(CloudMessages)
  BY DEF CloudInv, CloudTypes, Deliver
<1>2. /\ index \in Nat /\ said \in Nat /\ Len(heard) \in Nat /\ view.frame \in Int
      /\ FramesIn(queue) <= QUEUE_DEPTH /\ Path(U, view.frame, index, Len(heard), said)
  BY LenProperties, Bounds DEF CloudInv, CloudTypes, OnItsWay
<1>3. m \in CloudMessages /\ calls' \in Seq(CloudMessages)
  BY <1>1, HeadFirst
<1>4. \A i, j \in 1..Len(queue) : i < j /\ SameSort(queue[i], queue[j]) => queue[i].index < queue[j].index
  <2> SUFFICES ASSUME NEW i \in 1..Len(queue), NEW j \in 1..Len(queue), i < j, SameSort(queue[i], queue[j])
               PROVE  queue[i].index < queue[j].index
    OBVIOUS
  <2>1. \A k \in 1..Len(queue) : Len(onWire) + k \in 1..Len(U) /\ U[Len(onWire) + k] = queue[k]
    BY <1>1, QueuedIsUnderWay
  <2>2. Len(onWire) + i < Len(onWire) + j
    BY <1>1, LenProperties
  <2> HIDE DEF U
  <2>3. \A a, b \in 1..Len(U) : a < b /\ SameSort(U[a], U[b]) => U[a].index < U[b].index
    BY <1>2 DEF Path
  <2> QED
    BY <2>1, <2>2, <2>3
<1> DEFINE crowded == Crowded(m)
<1>5. crowded <=> IsFrame(m) /\ Len(queue) >= QUEUE_DEPTH /\ FramesIn(queue) > QUEUE_DEPTH - 1
  BY DEF Crowded
<1>6. crowded \in BOOLEAN
  BY DEF Crowded, IsFrame
<1> HIDE DEF crowded, m
<1>7. /\ FramesIn(Append(IF crowded THEN Without(queue, Oldest(queue)) ELSE queue, m)) <= QUEUE_DEPTH
      /\ crowded => Oldest(queue) \in 1..Len(queue) /\ IsFrame(queue[Oldest(queue)])
  BY <1>1, <1>2, <1>3, <1>4, <1>5, <1>6, Bounds, QueueStaysShort
<1>8. (FramesIn(queue) <= QUEUE_DEPTH)'
  BY <1>1, <1>7 DEF crowded
<1>9. kept \in Seq(CloudMessages)
  BY <1>1, <1>7, WithoutIs DEF crowded
<1>10. CloudTypes'
  <2>1. queue' \in Seq(CloudMessages)
    BY <1>1, <1>3, <1>9, AppendProperties
  <2> QED
    BY <1>1, <1>3, <2>1 DEF CloudInv, CloudTypes, session, cloudLink
<1>11. \/ underWay' = U
       \/ \E k \in 1..Len(U) : IsFrame(U[k]) /\ underWay' = Without(U, k)
  <2>1. onWire \o Append(kept, m) \o Tail(calls) = onWire \o kept \o calls
    BY <1>1, <1>9, PipeHands DEF m
  <2>2. underWay' = onWire \o kept \o calls
    BY <1>1, <2>1 DEF underWay
  <2>3. CASE crowded
    <3> DEFINE o == Oldest(queue)
    <3>1. o \in 1..Len(queue) /\ IsFrame(queue[o]) /\ kept = Without(queue, o)
      BY <1>7, <2>3 DEF crowded
    <3> HIDE DEF o, kept
    <3>2. /\ onWire \o Without(queue, o) \o calls = Without(U, Len(onWire) + o)
          /\ Len(onWire) + o \in 1..Len(U) /\ U[Len(onWire) + o] = queue[o]
      <4>1. \A k \in 1..Len(queue) :
               /\ onWire \o Without(queue, k) \o calls = Without(onWire \o queue \o calls, Len(onWire) + k)
               /\ Len(onWire) + k \in 1..Len(onWire \o queue \o calls) /\ (onWire \o queue \o calls)[Len(onWire) + k] = queue[k]
        BY <1>1, PipeDrops, Zenon
      <4>2. /\ onWire \o Without(queue, o) \o calls = Without(onWire \o queue \o calls, Len(onWire) + o)
            /\ Len(onWire) + o \in 1..Len(onWire \o queue \o calls)
            /\ (onWire \o queue \o calls)[Len(onWire) + o] = queue[o]
        BY <3>1, <4>1, Zenon
      <4> QED
        BY <4>2, Zenon DEF underWay
    <3> QED
      BY <2>2, <3>1, <3>2
  <2>4. CASE ~crowded
    BY <2>2, <2>4 DEF crowded, underWay
  <2> QED
    BY <2>3, <2>4
<1> HIDE DEF kept
<1>12. U \in Seq(CloudMessages)
  BY <1>2, PathIs
<1>13. OnItsWay'
  <2>1. Path(underWay', view.frame, index, Len(heard), said)
    BY <1>2, <1>11, FrameDropped
  <2> QED
    BY <1>1, <2>1 DEF OnItsWay, session
<1>14. Greeted'
  <2> SUFFICES ASSUME heard = <<>>, underWay' # <<>> PROVE Greeting(underWay'[1])
    BY <1>1 DEF Greeted
  <2>1. CASE underWay' = U
    BY <2>1 DEF CloudInv, Greeted
  <2>2. ASSUME NEW k \in 1..Len(U), IsFrame(U[k]), underWay' = Without(U, k) PROVE Greeting(underWay'[1])
    <3>1. /\ Without(U, k) \in Seq(CloudMessages) /\ Len(Without(U, k)) = Len(U) - 1 /\ Len(U) \in Nat
          /\ \A i \in 1..(Len(U) - 1) : Without(U, k)[i] = IF i < k THEN U[i] ELSE U[i + 1]
      BY <1>12, WithoutIs
    <3>2. Len(Without(U, k)) # 0
      BY <2>2, <3>1, EmptySeq
    <3>3. U # <<>>
      BY <3>1, EmptySeq
    <3>4. Greeting(U[1])
      BY <3>3 DEF CloudInv, Greeted
    <3>5. k # 1
      BY <2>2, <3>4 DEF Greeting, IsFrame
    <3>6. 1 \in 1..(Len(U) - 1) /\ 1 < k
      BY <3>1, <3>2, <3>5
    <3> QED
      BY <2>2, <3>1, <3>4, <3>6
  <2> QED
    BY <1>11, <2>1, <2>2
<1>15. producer # "none"
  BY <1>1 DEF CloudInv, Unbegun
<1>16. Unbegun' /\ Begun' /\ HeardAll' /\ StatusIsOfTheSocket'
  BY <1>1, <1>15 DEF CloudInv, Unbegun, Begun, HeardAll, StatusIsOfTheSocket, session, cloudLink
<1>17. Follows'
  <2>1. \A b \in BOOLEAN : Shows(U, view.levelled, b) => Shows(underWay', view.levelled, b)
    BY <1>11, <1>12, ShowsLess
  <2>2. Owed' <=> Owed
    BY <1>1 DEF Owed, session
  <2>3. (seen.plane # 0) \in BOOLEAN
    OBVIOUS
  <2> QED
    BY <1>1, <2>1, <2>2, <2>3 DEF CloudInv, Follows, session, cloudLink
<1> QED
  BY <1>8, <1>10, <1>13, <1>14, <1>16, <1>17 DEF CloudInv

(* What the browser takes in.                                               *)
LEMMA ReceiveStep == CloudInv /\ Receive => CloudInv'
<1> SUFFICES ASSUME CloudInv, Receive PROVE CloudInv'
  OBVIOUS
<1> DEFINE m == Head(onWire)
           U == underWay
<1>1. /\ UNCHANGED <<session, calls, queue, said, commands, sent, visits>>
      /\ cloudSocket = "open" /\ onWire # <<>> /\ onWire' = Tail(onWire) /\ view' = Received(m)
      /\ heard' = (IF Control(m) THEN Append(heard, m.index) ELSE heard)
      /\ cloudSocket' = (IF Closing(m) THEN "gone" ELSE cloudSocket)
      /\ onWire \in Seq(CloudMessages) /\ queue \in Seq(CloudMessages) /\ calls \in Seq(CloudMessages)
  BY DEF CloudInv, CloudTypes, Receive
<1>2. /\ index \in Nat /\ index \in 0..MaxPairs /\ said \in Nat /\ heard \in Seq(Nat) /\ Len(heard) \in Nat /\ view.frame \in Int
      /\ FramesIn(queue) <= QUEUE_DEPTH /\ Path(U, view.frame, index, Len(heard), said) /\ U \in Seq(CloudMessages)
      /\ view \in [levelled : BOOLEAN, calibrating : BOOLEAN, frame : -1..MaxPairs,
                    status : {"idle", "connecting", "streaming", "error", "closed"}]
  BY LenProperties, Bounds, PathIs DEF CloudInv, CloudTypes, OnItsWay
<1>3. underWay' = Tail(U) /\ U # <<>> /\ U[1] = m /\ m \in CloudMessages /\ m.kind \in KINDS /\ m.index \in Nat /\ onWire' \in Seq(CloudMessages)
  <2>1. m \in CloudMessages /\ onWire' \in Seq(CloudMessages)
    BY <1>1, HeadFirst
  <2>2. m.kind \in KINDS /\ m.index \in Nat
    BY <2>1, MessageIsTyped
  <2>3. /\ Tail(onWire) \o queue \o calls = Tail(onWire \o queue \o calls)
        /\ onWire \o queue \o calls # <<>> /\ (onWire \o queue \o calls)[1] = m
    BY <1>1, PipeReceives
  <2> HIDE DEF m
  <2>4. underWay' = Tail(U) /\ U # <<>> /\ U[1] = m
    BY <1>1, <2>3, Zenon DEF underWay
  <2> QED
    BY <2>1, <2>2, <2>4
<1> HIDE DEF m, U
<1>4. CASE IsFrame(m)
  <2>1. view' = [view EXCEPT !.frame = m.index] /\ heard' = heard /\ cloudSocket' = cloudSocket /\ ~IsGround(m)
    BY <1>1, <1>4 DEF IsFrame, Received, Control, Closing, IsGround
  <2>2. view.frame < m.index /\ m.index <= index /\ Path(Tail(U), m.index, index, Len(heard), said)
    BY <1>2, <1>3, <1>4, FirstFrame
  <2>3. m.index \in -1..MaxPairs
    BY <1>2, <1>3, <2>2, Bounds
  <2>4. /\ view' \in [levelled : BOOLEAN, calibrating : BOOLEAN, frame : -1..MaxPairs,
                    status : {"idle", "connecting", "streaming", "error", "closed"}]
        /\ view'.frame = m.index /\ view'.levelled = view.levelled /\ view'.status = view.status
    BY <1>2, <2>1, <2>3
  <2>5. CloudTypes'
    BY <1>1, <1>3, <2>1, <2>4 DEF CloudInv, CloudTypes, session
  <2>6. OnItsWay'
    BY <1>1, <1>3, <2>1, <2>2, <2>4 DEF OnItsWay, session
  <2>7. HeardAll' /\ (FramesIn(queue) <= QUEUE_DEPTH)' /\ Unbegun' /\ Begun'
    BY <1>1, <1>2, <2>1, <2>2, <2>4 DEF CloudInv, HeardAll, Unbegun, Begun, session
  <2>8. heard # <<>>
    BY <1>3, <1>4 DEF CloudInv, Greeted, Greeting, IsFrame, U
  <2>9. Greeted' /\ StatusIsOfTheSocket'
    BY <1>1, <2>1, <2>4, <2>8 DEF CloudInv, Greeted, StatusIsOfTheSocket
  <2>10. Follows'
    <3>1. \A b \in BOOLEAN : Shows(U, view.levelled, b) => Shows(Tail(U), view.levelled, b)
      BY <1>2, <1>3, <2>1, ShowsNext DEF IsGround
    <3>2. (seen.plane # 0) \in BOOLEAN /\ (Owed' <=> Owed)
      BY <1>1 DEF Owed, session
    <3> QED
      BY <1>1, <1>3, <2>1, <2>4, <3>1, <3>2 DEF CloudInv, Follows, session, U
  <2> QED
    BY <2>5, <2>6, <2>7, <2>9, <2>10 DEF CloudInv
<1>5. CASE Control(m)
  <2>1. heard' = Append(heard, m.index) /\ ~IsFrame(m) /\ m.kind \in {"levelled", "unlevelled", "hello", "failure", "end"}
    BY <1>1, <1>3, <1>5 DEF Control, IsFrame, KINDS
  <2>2. m.index = Len(heard) + 1 /\ Len(heard) + 1 <= said /\ Path(Tail(U), view.frame, index, Len(heard) + 1, said)
    BY <1>2, <1>3, <1>5, FirstSaid
  <2>3. /\ heard' \in Seq(Nat) /\ Len(heard') = Len(heard) + 1 /\ heard' # <<>> /\ heard'[Len(heard) + 1] = m.index
        /\ \A i \in 1..Len(heard) : heard'[i] = heard[i]
    BY <1>2, <1>3, <2>1, AppendProperties
  <2>4. /\ view' \in [levelled : BOOLEAN, calibrating : BOOLEAN, frame : -1..MaxPairs,
                    status : {"idle", "connecting", "streaming", "error", "closed"}]
        /\ view'.frame = view.frame
        /\ m.kind = "levelled" => view'.levelled = TRUE
        /\ m.kind = "unlevelled" => view'.levelled = FALSE
        /\ ~IsGround(m) => view'.levelled = view.levelled
        /\ m.kind = "hello" => view'.status = "streaming"
        /\ m.kind = "failure" => view'.status = "error"
        /\ m.kind = "end" => view'.status = "closed"
        /\ IsGround(m) => view'.status = view.status
    BY <1>1, <1>2, <2>1 DEF Received, IsGround
  <2>5. cloudSocket' = IF m.kind \in {"end", "failure"} THEN "gone" ELSE "open"
    BY <1>1 DEF Closing
  <2>6. CloudTypes'
    BY <1>1, <1>3, <2>3, <2>4, <2>5 DEF CloudInv, CloudTypes, session
  <2>7. OnItsWay'
    BY <1>1, <1>3, <2>2, <2>3, <2>4 DEF OnItsWay, session
  <2>8. HeardAll'
    <3>1. \A i \in 1..(Len(heard) + 1) : i \in 1..Len(heard) \/ i = Len(heard) + 1
      BY <1>2
    <3> QED
      BY <1>1, <2>2, <2>3, <3>1 DEF CloudInv, HeardAll
  <2>9. producer # "none"
    BY <1>1 DEF CloudInv, Unbegun
  <2>10. (FramesIn(queue) <= QUEUE_DEPTH)' /\ Unbegun' /\ Begun' /\ Greeted'
    BY <1>1, <1>2, <2>3, <2>4, <2>5, <2>9 DEF CloudInv, Unbegun, Begun, Greeted, session
  <2>11. heard = <<>> => m.kind \in {"hello", "failure"}
    BY <1>3 DEF CloudInv, Greeted, Greeting, U
  <2>12. StatusIsOfTheSocket'
    <3>1. CASE m.kind \in {"end", "failure"}
      BY <2>3, <2>4, <2>5, <3>1 DEF StatusIsOfTheSocket
    <3>2. CASE m.kind = "hello"
      BY <2>3, <2>4, <2>5, <3>2 DEF StatusIsOfTheSocket
    <3>3. CASE IsGround(m)
      <4>1. view'.status = "streaming" /\ cloudSocket' = "open"
        BY <1>1, <2>4, <2>5, <2>11, <3>3 DEF CloudInv, StatusIsOfTheSocket, IsGround
      <4> QED
        BY <2>3, <4>1 DEF StatusIsOfTheSocket
    <3> QED
      BY <2>1, <3>1, <3>2, <3>3 DEF IsGround
  <2>13. Follows'
    <3>1. \A b \in BOOLEAN : Shows(U, view.levelled, b) => Shows(Tail(U), view'.levelled, b)
      BY <1>2, <1>3, <2>4, ShowsNext
    <3>2. (seen.plane # 0) \in BOOLEAN /\ (Owed' <=> Owed)
      BY <1>1 DEF Owed, session
    <3> QED
      BY <1>1, <1>3, <3>1, <3>2 DEF CloudInv, Follows, session, U
  <2> QED
    BY <2>6, <2>7, <2>8, <2>10, <2>12, <2>13 DEF CloudInv
<1> QED
  BY <1>4, <1>5 DEF Control

LEMMA CloudStart == CloudInit => CloudInv
<1> SUFFICES ASSUME CloudInit PROVE CloudInv
  OBVIOUS
<1> USE DEF CloudInit
<1>1. underWay = <<>> /\ Len(heard) = 0 /\ FramesIn(queue) = 0
  BY NothingHere DEF underWay
<1>2. CloudTypes
  <2>1. commands \in Seq({"calibrate", "clear-ground"}) /\ heard \in Seq(Nat)
    BY EmptySeq
  <2>2. view \in [levelled : BOOLEAN, calibrating : BOOLEAN, frame : -1..MaxPairs,
                   status : {"idle", "connecting", "streaming", "error", "closed"}]
    BY Bounds
  <2>3. index \in 0..MaxPairs /\ sent \in 0..MaxCommands /\ visits \in 0..MaxVisits /\ plane \in 0..planes /\ planes \in Nat \ {0}
    BY Bounds
  <2>4. seen \in [plane : 0..planes, refusal : BOOLEAN]
    OBVIOUS
  <2> QED
    BY <2>1, <2>2, <2>3, <2>4, NothingHere DEF CloudTypes
<1>3. OnItsWay
  BY <1>1, NothingHere DEF OnItsWay
<1>4. HeardAll /\ Unbegun /\ Begun /\ Greeted /\ StatusIsOfTheSocket /\ Follows
  BY <1>1 DEF HeardAll, Unbegun, Begun, Greeted, StatusIsOfTheSocket, Follows
<1>5. FramesIn(queue) <= QUEUE_DEPTH
  BY <1>1, Bounds
<1> QED
  BY <1>2, <1>3, <1>4, <1>5 DEF CloudInv

LEMMA CloudStep == CloudInv /\ [CloudNext]_cloudVars => CloudInv'
<1> SUFFICES ASSUME CloudInv, [CloudNext]_cloudVars PROVE CloudInv'
  OBVIOUS
<1>1. CASE Connect
  <2>1. visits' \in 0..MaxVisits
    BY <1>1, Bounds DEF Connect, CloudInv, CloudTypes
  <2> QED
    BY <1>1, <2>1, Reset DEF Connect
<1>2. CASE LeaveCloud
  BY <1>2, Reset DEF LeaveCloud
<1>3. CASE ConnectionFails
  BY <1>3, Reset DEF ConnectionFails
<1>4. CASE Refused
  <2>1. plane' \in 0..planes /\ wanted' \in BOOLEAN
    BY <1>4 DEF Refused, CloudInv, CloudTypes
  <2> QED
    BY <1>4, <2>1, FirstWord DEF Refused
<1>5. CASE Greet
  <2>1. plane' \in 0..planes /\ wanted' \in BOOLEAN
    <3>1. 0 \in 0..planes /\ 1 \in 0..planes
      BY DEF CloudInv, CloudTypes
    <3>2. (plane' = 0 \/ plane' = 1) /\ (wanted' = TRUE \/ wanted' = FALSE)
      BY <1>5 DEF Greet
    <3> QED
      BY <3>1, <3>2, Zenon
  <2> QED
    BY <1>5, <2>1, FirstWord DEF Greet
<1>6. CASE UNCHANGED cloudVars
  <2>1. UNCHANGED <<session, pipe, commands, sent, cloudLink, view>>
    BY <1>6 DEF cloudVars, session, pipe, cloudLink
  <2>2. CloudTypes' /\ Begun' /\ StatusIsOfTheSocket' /\ Follows'
    BY <2>1, AllRests
  <2>3. UNCHANGED <<pipe, index, seen, producer>> /\ view'.frame = view.frame
    BY <2>1 DEF session
  <2> QED
    BY <2>2, <2>3, PipeRests
<1>7. CASE Reconstruct \/ EndSession \/ Deliver \/ Forward \/ Receive \/ ReadCommand
  BY <1>7, ReconstructStep, EndStep, DeliverStep, ForwardStep, ReceiveStep, CommandStep
<1>8. CASE Accepted \/ LateMessage \/ Calibrate \/ ClearGround
  BY <1>8, AcceptedStep, LateStep, CalibrateStep, ClearStep
<1> QED
  BY <1>1, <1>2, <1>3, <1>4, <1>5, <1>6, <1>7, <1>8 DEF CloudNext

LEMMA CloudMeans == CloudInv => CloudTypeOK /\ CloudPromise
<1> SUFFICES ASSUME CloudInv PROVE CloudTypeOK /\ CloudPromise
  OBVIOUS
<1>1. underWay \in Seq(CloudMessages) /\ DOMAIN underWay = 1..Len(underWay) /\ Path(underWay, view.frame, index, Len(heard), said)
  BY PathIs DEF CloudInv, OnItsWay
<1>2. CloudTypeOK
  <2>1. underWay \in Seq([kind : KINDS, index : Nat]) /\ planes \in Nat
    BY <1>1 DEF CloudMessages, CloudInv, CloudTypes
  <2> QED
    BY <2>1 DEF CloudInv, CloudTypes, CloudTypeOK
<1>3. SaidOnceIsKept
  <2>1. DOMAIN heard = 1..Len(heard)
    BY LenProperties DEF CloudInv, CloudTypes
  <2>2. \A i, j \in DOMAIN underWay :
          i < j /\ Control(underWay[i]) /\ Control(underWay[j]) => underWay[i].index < underWay[j].index
    BY <1>1 DEF Path, SameSort, Control
  <2>3. \A n \in (Len(heard) + 1)..said : \E i \in DOMAIN underWay : Control(underWay[i]) /\ underWay[i].index = n
    BY <1>1 DEF Path
  <2> QED
    BY <2>1, <2>2, <2>3 DEF SaidOnceIsKept, CloudInv, HeardAll
<1>4. BacklogIsBounded
  <2>1. \A i \in DOMAIN underWay : IsFrame(underWay[i]) => view.frame < underWay[i].index
    BY <1>1 DEF Path, OnPath
  <2>2. \A i, j \in DOMAIN underWay : IsFrame(underWay[i]) /\ i < j /\ IsFrame(underWay[j]) => underWay[i].index < underWay[j].index
    BY <1>1 DEF Path, SameSort
  <2> QED
    BY <2>1, <2>2 DEF BacklogIsBounded, CloudInv
<1>5. ViewAgrees
  <2> SUFFICES ASSUME commands = <<>>, underWay = <<>>, view.status = "streaming", seen = [plane |-> plane, refusal |-> refusal]
               PROVE  view.levelled <=> plane # 0
    BY DEF ViewAgrees, NothingUnderWay
  <2>1. cloudSocket = "open" /\ view.levelled \in BOOLEAN
    BY DEF CloudInv, StatusIsOfTheSocket, CloudTypes
  <2>2. seen.plane = plane /\ ~Owed
    BY EmptySeq DEF Owed
  <2>3. Shows(underWay, view.levelled, plane # 0)
    BY <2>1, <2>2 DEF CloudInv, Follows
  <2>4. view.levelled = (plane # 0)
    BY <2>3, ShowsNothing, Zenon
  <2> QED
    BY <2>1, <2>4
<1>6. FramesAreRead
  <2>1. \A n \in 0..MaxPoints, b \in 0..MaxBlobs : n \in Nat /\ b \in Nat
    BY Bounds
  <2> QED
    BY <2>1, FrameTheorem DEF FramesAreRead
<1> QED
  BY <1>2, <1>3, <1>4, <1>5, <1>6 DEF CloudPromise, CloudInv

(* However far the browser is behind, and whatever is asked, refused, lost  *)
(* or left in between: what is said once comes once, in order; the frames   *)
(* that wait are bounded; and the browser shows the ground and the status   *)
(* of the socket in use (live.py, useLiveCloudStream.ts).                   *)
THEOREM CloudTheorem == CloudSpec => [](CloudTypeOK /\ CloudPromise)
<1>1. CloudInit => CloudInv
  BY CloudStart
<1>2. CloudInv /\ [CloudNext]_cloudVars => CloudInv'
  BY CloudStep
<1>3. CloudInv => CloudTypeOK /\ CloudPromise
  BY CloudMeans
<1> QED
  BY <1>1, <1>2, <1>3, PTL DEF CloudSpec
=============================================================================
