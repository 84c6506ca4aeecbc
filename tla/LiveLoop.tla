------------------------------- MODULE LiveLoop -------------------------------
(***************************************************************************)
(* See's live loop (see/webapp/backend/pipeline/live.py) with the routes   *)
(* of app.py that drive it: the rgb thread decodes and publishes frames,   *)
(* the detection and privacy threads each sleep on one condition variable  *)
(* until there is a fresh frame they want, and the event loop runs the     *)
(* requests and sends to the viewers.  A clip is named by the generation   *)
(* that chose it: the rgb thread takes the pending clip before it reads,   *)
(* so what it reads is of the newest.  Left out: pixels, boxes, which      *)
(* privacy model draws the view, and where in the clip it is.  One viewer  *)
(* of each stream, who may come and go.                                    *)
(***************************************************************************)
EXTENDS Integers, Sequences

CONSTANTS NoFrame,       \* nothing decoded, nothing in hand
          MaxFrames,     \* bound: frames decoded
          MaxSwitches,   \* bound: set_source() calls
          Audiences      \* bound: the sets of streams that are ever watched together

Frame == [clip : Nat, seq : Nat]
ASSUME LiveAssumption == NoFrame \notin Frame

VARIABLES generation, \* _generation: the clip chosen last
          hazard,     \* _hazard: the clip of the frame it was found on, -1 if it is not set
          revealed,   \* now < _reveal_until
          playing,    \* _running
          rgb,        \* the rgb thread: its step and the frame in hand
          latest,     \* _latest_frame, whose jpeg is _last_rgb
          worker,     \* the detection and privacy threads
          audience,   \* streams that have a viewer now and then
          watching,   \* streams that have their viewer
          posted,     \* call_soon_threadsafe: dispatches to come
          sending,    \* sends under way, by stream
          shown,      \* sequence number of the boxes last delivered
          describing, \* the /describe request under way: frame's clip, generation
          unlockedAt, \* the last generation somebody unlocked, by a reveal or a hazard
          lapsed      \* a reveal ended and nobody has notified since

gate == <<generation, hazard, revealed, playing>>
sends == <<posted, sending, shown, watching, audience>>
liveVars == <<gate, rgb, latest, sends, describing, unlockedAt, worker, lapsed>>

Workers == {"detection", "privacy"}
Streams == {"detection", "rgb"}
StreamOf == [w \in Workers |-> IF w = "privacy" THEN "rgb" ELSE w]
FrameOf(c, s) == [clip |-> c, seq |-> s]
Turn(n) == [at |-> "turn", frame |-> NoFrame, seq |-> n]

LiveInit ==
  /\ generation = 0 /\ hazard = -1 /\ revealed = FALSE /\ playing = TRUE
  /\ rgb = Turn(0) /\ latest = NoFrame
  /\ worker = [w \in Workers |-> [at |-> "check", last |-> 0, frame |-> NoFrame]]
  /\ audience \in Audiences /\ watching = {} /\ posted = <<>> /\ sending = [s \in Streams |-> {}] /\ shown = 0
  /\ describing = {} /\ unlockedAt = -1 /\ lapsed = FALSE

Unlocked == hazard >= 0 \/ revealed
Unlock(g) == unlockedAt' = IF g > unlockedAt THEN g ELSE unlockedAt

(* _cv.notify_all(): whoever sleeps looks again.                            *)
Notify ==
  /\ worker' = [w \in Workers |->
                 [worker[w] EXCEPT !.at = IF @ = "asleep" THEN "check" ELSE @]]
  /\ lapsed' = FALSE

(* The rgb thread: a turn that finds it playing and a frame to read; the    *)
(* frame published; the raw feed served when it is watched and unlocked.    *)
Decode ==
  /\ rgb.at = "turn" /\ playing /\ rgb.seq < MaxFrames
  /\ rgb' = [at |-> "publish", frame |-> FrameOf(generation, rgb.seq + 1), seq |-> rgb.seq + 1]
  /\ UNCHANGED <<gate, latest, sends, describing, unlockedAt, worker, lapsed>>

PublishFrame ==
  /\ rgb.at = "publish"
  /\ rgb' = [rgb EXCEPT !.at = "emit"] /\ latest' = rgb.frame /\ Notify
  /\ UNCHANGED <<gate, sends, describing, unlockedAt>>

Message(stream, raw, frame) == [stream |-> stream, raw |-> raw, frame |-> frame]
Post(m) == posted' = Append(posted, m)

EmitRaw ==
  /\ rgb.at = "emit" /\ rgb' = Turn(rgb.seq)
  /\ IF "rgb" \in watching /\ Unlocked THEN Post(Message("rgb", TRUE, rgb.frame))
                                       ELSE UNCHANGED posted
  /\ UNCHANGED <<gate, latest, describing, unlockedAt, worker, lapsed, watching, audience, sending, shown>>

(* _next_frame(): under the condition variable, take a fresh frame that is  *)
(* wanted, or sleep.                                                        *)
Wanted(w) == StreamOf[w] \in watching /\ (w = "privacy" => ~Unlocked)
Ready(w) == Wanted(w) /\ latest # NoFrame /\ latest.seq # worker[w].last

Check(w) ==
  /\ worker[w].at = "check"
  /\ worker' = [worker EXCEPT ![w] =
       IF Ready(w) THEN [at |-> "work", last |-> latest.seq, frame |-> latest]
                   ELSE [@ EXCEPT !.at = "asleep"]]
  /\ UNCHANGED <<gate, rgb, latest, sends, describing, unlockedAt, lapsed>>

(* The model ran: its result is posted.  It raised: nothing is.             *)
Results(w) == {<<Message(StreamOf[w], FALSE, worker[w].frame)>>, <<>>}

Work(w) ==
  /\ worker[w].at = "work"
  /\ worker' = [worker EXCEPT ![w] = [@ EXCEPT !.at = "check", !.frame = NoFrame]]
  /\ \E out \in Results(w) : posted' = posted \o out
  /\ UNCHANGED <<gate, rgb, latest, describing, unlockedAt, lapsed, watching, audience, sending, shown>>

(* The event loop.  _dispatch(): to the viewer, unless a send to him is     *)
(* still under way.                                                         *)
(* Mutated: a busy viewer is sent to as well.                               *)
MaySendAlways(s) == s \in watching
MaySend(s) == s \in watching /\ sending[s] = {}

Dispatch ==
  /\ posted # <<>> /\ posted' = Tail(posted)
  /\ LET m == Head(posted) IN
       sending' = IF MaySend(m.stream) THEN [sending EXCEPT ![m.stream] = @ \cup {m}] ELSE sending
  /\ UNCHANGED <<gate, rgb, latest, describing, unlockedAt, worker, lapsed, watching, audience, shown>>

Sent(s) ==
  /\ \E m \in sending[s] : /\ sending' = [sending EXCEPT ![s] = @ \ {m}]
                           /\ shown' = IF s = "detection" THEN m.frame.seq ELSE shown
  /\ UNCHANGED <<gate, rgb, latest, describing, unlockedAt, worker, lapsed, watching, audience, posted>>

(* _serve(): a viewer comes; he leaves, or a send to him fails.             *)
OnJoin == Notify

Join(s) ==
  /\ s \in audience \ watching /\ watching' = watching \cup {s} /\ OnJoin
  /\ UNCHANGED <<gate, rgb, latest, describing, unlockedAt, audience, posted, sending, shown>>

Leave(s) ==
  /\ s \in watching /\ watching' = watching \ {s}
  /\ sending' = [sending EXCEPT ![s] = {}]
  /\ UNCHANGED <<gate, rgb, latest, describing, unlockedAt, worker, lapsed, audience, posted, shown>>

(* POST /live/source, /live/next-default: set_source() and resume().        *)
SetSource ==
  /\ generation < MaxSwitches /\ generation' = generation + 1
  /\ hazard' = -1 /\ revealed' = FALSE /\ playing' = TRUE /\ Notify
  /\ UNCHANGED <<rgb, latest, sends, describing, unlockedAt>>

(* POST /live/pause, /live/resume.                                          *)
PauseOrResume ==
  /\ playing' = ~playing
  /\ UNCHANGED <<generation, hazard, revealed, rgb, latest, sends, describing, unlockedAt, worker, lapsed>>

(* POST /reveal, and the deadline passing, which notifies nobody.           *)
Reveal ==
  /\ ~revealed /\ revealed' = TRUE /\ Unlock(generation) /\ Notify
  /\ UNCHANGED <<generation, hazard, playing, rgb, latest, sends, describing>>

Lapse ==
  /\ revealed /\ revealed' = FALSE /\ lapsed' = TRUE
  /\ UNCHANGED <<generation, hazard, playing, rgb, latest, sends, describing, unlockedAt, worker>>

(* GET /describe: the frame and the generation are read, the VLM runs in    *)
(* the thread pool, and a boolean answer sets the flag, of this clip only.  *)
Describe ==
  /\ latest # NoFrame /\ describing = {}
  /\ describing' = {[clip |-> latest.clip, gen |-> generation]}
  /\ UNCHANGED <<gate, rgb, latest, sends, unlockedAt, worker, lapsed>>

IsCurrent(q) == q.gen = generation

Described(q, found) ==
  /\ describing' = describing \ {q}
  /\ IF found THEN Unlock(q.gen) ELSE UNCHANGED unlockedAt
  /\ IF IsCurrent(q) THEN hazard' = (IF found THEN q.clip ELSE -1) /\ Notify
                     ELSE UNCHANGED <<hazard, worker, lapsed>>
  /\ UNCHANGED <<generation, revealed, playing, rgb, latest, sends>>

LiveNext ==
  \/ Decode \/ PublishFrame \/ EmitRaw \/ Dispatch
  \/ \E w \in Workers : Check(w) \/ Work(w)
  \/ \E s \in Streams : Sent(s) \/ Join(s) \/ Leave(s)
  \/ SetSource \/ PauseOrResume \/ Reveal \/ Lapse \/ Describe
  \/ \E q \in describing, found \in BOOLEAN : Described(q, found)
LiveSpec == LiveInit /\ [][LiveNext]_liveVars

(* A clip's raw pixels are on their way to a viewer only if somebody has    *)
(* unlocked the feed since that clip was chosen: a switch locks it again,   *)
(* an answer about the clip before does not open it, a view that fails is   *)
(* not replaced by the frame (set_source(), set_hazard(), _privacy_run()).  *)
OnTheWay == {posted[i] : i \in DOMAIN posted} \cup UNION {sending[s] : s \in Streams}
RawWasUnlocked == \A m \in OnTheWay : m.raw => unlockedAt >= m.frame.clip

(* A worker sleeps only while it has nothing to do: every change that gives *)
(* it something wakes it, except a reveal that runs out, which it notices   *)
(* with the next frame (_next_frame(), _cv).                                *)
NobodyOversleeps ==
  \A w \in Workers : worker[w].at = "asleep" /\ Ready(w) => w = "privacy" /\ lapsed

(* A viewer is never shown boxes older than the ones he has (_dispatch(),   *)
(* _send()).                                                                *)
BoxesInOrder == [][shown' >= shown]_shown

(* The raw feed opens by an unlock only, no worker sleeps on what it waits  *)
(* for, and boxes come in order.                                            *)
LivePromise == [](RawWasUnlocked /\ NobodyOversleeps) /\ BoxesInOrder

(* The flag in force was found on a frame of the clip it unlocks: what      *)
(* app.py says of the generation it passes.                                 *)
HazardIsOfItsClip == hazard >= 0 => hazard = generation
=============================================================================
