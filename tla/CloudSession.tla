----------------------------- MODULE CloudSession -----------------------------
(***************************************************************************)
(* The point cloud of See from end to end: the producer thread             *)
(* (LiveStreamSession._produce() in d4rt_backend/live.py) hands frames and *)
(* what it says about the ground to the event loop, which keeps a short    *)
(* queue and drops old frames (deliver()), the socket's send loop and its  *)
(* command reader (app.py, d4rt_backend/api.py), and the browser's side    *)
(* (useLiveCloudStream.ts), which closes a socket and opens another as its *)
(* url changes.  Points and boxes are left out of a frame; how a frame is  *)
(* laid out in bytes is PairFrame.  The server's end of a socket that the  *)
(* browser has left goes on for a while and is not followed: it has its    *)
(* own reconstructor, and nothing it sends is read.                        *)
(* What the reconstructor makes of a request to level is external: a new   *)
(* plane, or a refusal.                                                    *)
(*                                                                         *)
(* A frame has the index of its pair.  What is said other than frames has  *)
(* none in the code; here each has the number of things said up to it, by  *)
(* which its fate can be told.                                             *)
(***************************************************************************)
EXTENDS PairFrame, Integers, Sequences, FiniteSets

CONSTANTS QUEUE_DEPTH,   \* _QUEUE_DEPTH
          MaxPairs,      \* bound: frames reconstructed
          MaxCommands,   \* bound: commands the viewer sends
          MaxVisits,     \* bound: sockets the viewer opens
          MaxPoints, MaxBlobs \* bounds: what a frame carries

ASSUME CloudAssumption ==
  /\ QUEUE_DEPTH \in Nat \ {0}
  /\ {MaxPairs, MaxCommands, MaxVisits, MaxPoints, MaxBlobs} \subseteq Nat

VARIABLES producer,  \* "none" before the hello, "runs" or "ended"
          index,     \* frames produced
          plane,     \* reconstructor: the plane, 0 when there is none
          refusal,   \* reconstructor: whether the last fit was refused
          wanted,    \* reconstructor: a fit was requested
          planes,    \* planes fitted so far
          seen,      \* the plane and refusal the producer last told of
          calls,     \* call_soon_threadsafe: deliveries to come
          queue,     \* the asyncio queue
          onWire,    \* sent and not yet received by the browser
          said,      \* how much was said other than frames
          heard,     \* what of it the browser has received, in order
          commands,  \* sent by the browser and not yet read
          sent,      \* how many it sent, on any socket
          cloudSocket, \* the browser's: "none", "opening", "open" or "gone"
          visits,    \* sockets opened so far
          view       \* the browser: levelled, calibrating, the last frame, status

session == <<producer, index, plane, refusal, wanted, planes, seen>>
pipe == <<calls, queue, onWire, said, heard>>
cloudLink == <<cloudSocket, visits>>
cloudVars == <<session, pipe, commands, sent, cloudLink, view>>

CloudMessage(k, n) == [kind |-> k, index |-> n]
Pair(n) == CloudMessage("frame", n)
Ground(levelled) == IF levelled THEN "levelled" ELSE "unlevelled"
IsFrame(m) == m.kind = "frame"
Control(m) == ~IsFrame(m)

(* What is said once is put behind what is there.                           *)
Say(k, q) == said' = said + 1 /\ q' = Append(q, CloudMessage(k, said'))

CloudInit ==
  /\ producer = "none" /\ index = 0 /\ plane = 0 /\ wanted = FALSE
  /\ refusal = FALSE /\ planes = 1 /\ seen = [plane |-> 0, refusal |-> FALSE]
  /\ calls = <<>> /\ queue = <<>> /\ onWire = <<>> /\ said = 0 /\ heard = <<>>
  /\ commands = <<>> /\ sent = 0 /\ cloudSocket = "none" /\ visits = 0
  /\ view = [levelled |-> FALSE, calibrating |-> FALSE, frame |-> -1, status |-> "idle"]

NoSession ==
  /\ producer' = "none" /\ index' = 0 /\ plane' = 0 /\ wanted' = FALSE
  /\ refusal' = FALSE /\ planes' = 1 /\ seen' = [plane |-> 0, refusal |-> FALSE]
  /\ calls' = <<>> /\ queue' = <<>> /\ onWire' = <<>> /\ said' = 0 /\ heard' = <<>>
  /\ commands' = <<>> /\ UNCHANGED <<sent>>

-----------------------------------------------------------------------------
(* The url has a value, or another one: what was shown is of another scene, *)
(* and the server will level the first pair unasked.                        *)
Connect ==
  /\ visits < MaxVisits /\ visits' = visits + 1
  /\ cloudSocket' = "opening" /\ NoSession
  /\ view' = [levelled |-> FALSE, calibrating |-> TRUE, frame |-> -1, status |-> "connecting"]

(* The url is null: what was shown stays.                                   *)
LeaveCloud ==
  /\ cloudSocket # "none"
  /\ cloudSocket' = "none" /\ NoSession
  /\ view' = [view EXCEPT !.status = "idle"] /\ UNCHANGED visits

Accepted ==
  /\ cloudSocket = "opening" /\ cloudSocket' = "open"
  /\ UNCHANGED <<session, pipe, commands, sent, visits, view>>

(* The model is not there, or the parameters are wrong: closed with a code  *)
(* above 4000 and a reason.                                                 *)
Refused ==
  /\ cloudSocket = "open" /\ producer = "none" /\ producer' = "ended"
  /\ Say("failure", onWire)
  /\ UNCHANGED <<index, plane, refusal, wanted, planes, seen, calls, queue, heard, commands, sent, cloudLink, view>>

(* build_reconstructor(): adopts the world's plane, or asks for a fit; then *)
(* hello(), which goes out before the producer starts.                      *)
Greet ==
  /\ cloudSocket = "open" /\ producer = "none" /\ producer' = "runs"
  /\ \/ plane' = 1 /\ wanted' = FALSE
     \/ plane' = 0 /\ wanted' = TRUE
  /\ Say("hello", onWire)
  /\ UNCHANGED <<index, refusal, planes, seen, calls, queue, heard, commands, sent, cloudLink, view>>

(* onerror, and the close event after it, which leaves the error standing;  *)
(* or the close event alone.  What was under way is lost.                   *)
ConnectionFails ==
  /\ cloudSocket \in {"opening", "open"} /\ cloudSocket' = "gone" /\ NoSession
  /\ \E end \in {"error", "closed"} : view' = [view EXCEPT !.status = end]
  /\ UNCHANGED visits

-----------------------------------------------------------------------------
Unsaid == UNCHANGED <<queue, onWire, heard, commands, sent, cloudLink, view>>

(* A pair is reconstructed; a fit that was requested succeeds or is refused.*)
Fit ==
  \/ ~wanted /\ UNCHANGED <<plane, refusal, planes, wanted>>
  \/ wanted /\ wanted' = FALSE /\ plane' = planes + 1 /\ planes' = planes + 1 /\ refusal' = FALSE
  \/ wanted /\ wanted' = FALSE /\ refusal' = TRUE /\ UNCHANGED <<plane, planes>>

(* What differs from what was told last is told, before the frame.          *)
News == plane' # seen.plane \/ refusal' # seen.refusal

Reconstruct ==
  /\ producer = "runs" /\ index < MaxPairs
  /\ Fit
  /\ index' = index + 1
  /\ \/ ~News /\ calls' = Append(calls, Pair(index')) /\ UNCHANGED said
     \/ News /\ said' = said + 1 /\ calls' = calls \o <<CloudMessage(Ground(plane' # 0), said'), Pair(index')>>
  /\ seen' = [plane |-> plane', refusal |-> refusal']
  /\ UNCHANGED producer /\ Unsaid

(* The feeder ends or the session was stopped; or something raises, which   *)
(* is passed on before the end.                                             *)
EndSession ==
  /\ producer = "runs" /\ producer' = "ended"
  /\ \/ Say("end", calls)
     \/ said' = said + 2 /\ calls' = calls \o <<CloudMessage("failure", said + 1), CloudMessage("end", said')>>
  /\ UNCHANGED <<index, plane, refusal, wanted, planes, seen>> /\ Unsaid

(* deliver(): a frame that finds the queue full has the oldest frames       *)
(* dropped, as many as there are beyond one less than the depth: one or     *)
(* none, since there are never more than the depth (BacklogIsBounded);      *)
(* nothing else is ever dropped.                                            *)
FramesIn(q) == Cardinality({q[i].index : i \in {k \in DOMAIN q : IsFrame(q[k])}})

(* Mutated: the oldest entry, whatever it is.                               *)
OldestAny(q) == 1
Oldest(q) == CHOOSE i \in DOMAIN q : IsFrame(q[i]) /\ \A k \in 1..(i - 1) : Control(q[k])
Without(q, i) == [k \in 1..(Len(q) - 1) |-> IF k < i THEN q[k] ELSE q[k + 1]]

Crowded(m) == IsFrame(m) /\ Len(queue) >= QUEUE_DEPTH /\ FramesIn(queue) > QUEUE_DEPTH - 1

Deliver ==
  /\ calls # <<>> /\ calls' = Tail(calls)
  /\ queue' = Append(IF Crowded(Head(calls)) THEN Without(queue, Oldest(queue)) ELSE queue, Head(calls))
  /\ UNCHANGED <<session, onWire, said, heard, commands, sent, cloudLink, view>>

(* The send loop: an error closes the socket with its reason, the end just  *)
(* closes it; nothing after either is sent.                                 *)
Closing(m) == m.kind \in {"end", "failure"}
Forward ==
  /\ cloudSocket = "open" /\ queue # <<>> /\ queue' = Tail(queue)
  /\ ~\E i \in DOMAIN onWire : Closing(onWire[i])
  /\ onWire' = Append(onWire, Head(queue))
  /\ UNCHANGED <<session, calls, said, heard, commands, sent, cloudLink, view>>

(* The browser's onMessage() and onclose.                                   *)
Received(m) ==
  CASE m.kind = "frame"      -> [view EXCEPT !.frame = m.index]
    [] m.kind = "levelled"   -> [view EXCEPT !.levelled = TRUE, !.calibrating = FALSE]
    [] m.kind = "unlevelled" -> [view EXCEPT !.levelled = FALSE, !.calibrating = FALSE]
    [] m.kind = "hello"      -> [view EXCEPT !.status = "streaming"]
    [] m.kind = "failure"    -> [view EXCEPT !.status = "error"]
    [] m.kind = "end"        -> [view EXCEPT !.status = "closed"]

Receive ==
  /\ cloudSocket = "open" /\ onWire # <<>> /\ onWire' = Tail(onWire)
  /\ view' = Received(Head(onWire))
  /\ heard' = IF Control(Head(onWire)) THEN Append(heard, Head(onWire).index) ELSE heard
  /\ cloudSocket' = IF Closing(Head(onWire)) THEN "gone" ELSE cloudSocket
  /\ UNCHANGED <<session, calls, queue, said, commands, sent, visits>>

(* Mutated: close() leaves the handlers on.                                 *)
Handled(m) == Received(m)
(* close() takes the handlers off a socket before it closes it.             *)
Unhandled(m) == view

(* What was under way to a socket that was closed still comes.              *)
KINDS == {"frame", "levelled", "unlevelled", "hello", "failure", "end"}
Leftover == {CloudMessage(k, n) : k \in KINDS, n \in 1..MaxPairs}
LateMessage ==
  /\ visits > (IF cloudSocket = "none" THEN 0 ELSE 1)
  /\ \E m \in Leftover : view' = Unhandled(m)
  /\ UNCHANGED <<session, pipe, commands, sent, cloudLink>>

(* calibrate() and clearGround(), the second of which changes the view      *)
(* whether or not there is a socket to send on.                             *)
Send(c) == sent < MaxCommands /\ sent' = sent + 1 /\ commands' = Append(commands, c)

Calibrate ==
  /\ cloudSocket = "open" /\ Send("calibrate") /\ view' = [view EXCEPT !.calibrating = TRUE]
  /\ UNCHANGED <<session, pipe, cloudLink>>

ClearGround ==
  /\ view' = [view EXCEPT !.levelled = FALSE]
  /\ IF cloudSocket = "open" THEN Send("clear-ground") ELSE view.levelled /\ UNCHANGED <<commands, sent>>
  /\ UNCHANGED <<session, pipe, cloudLink>>

ReadCommand ==
  /\ producer # "none" /\ commands # <<>> /\ commands' = Tail(commands)
  /\ IF Head(commands) = "calibrate"
     THEN wanted' = TRUE /\ UNCHANGED <<plane, refusal>>
     ELSE plane' = 0 /\ refusal' = FALSE /\ UNCHANGED wanted
  /\ UNCHANGED <<producer, index, planes, seen, pipe, sent, cloudLink, view>>

CloudNext ==
  \/ Reconstruct \/ EndSession \/ Deliver \/ Forward \/ Receive \/ ReadCommand
  \/ Connect \/ LeaveCloud \/ Accepted \/ Refused \/ Greet \/ ConnectionFails \/ LateMessage
  \/ Calibrate \/ ClearGround
CloudSpec == CloudInit /\ [][CloudNext]_cloudVars

underWay == onWire \o queue \o calls

(* The types.                                                               *)
CloudTypeOK ==
  /\ producer \in {"none", "runs", "ended"} /\ index \in 0..MaxPairs /\ wanted \in BOOLEAN /\ refusal \in BOOLEAN
  /\ planes \in Nat /\ plane \in 0..planes /\ seen \in [plane : 0..planes, refusal : BOOLEAN]
  /\ underWay \in Seq([kind : KINDS, index : Nat]) /\ said \in Nat /\ heard \in Seq(Nat)
  /\ commands \in Seq({"calibrate", "clear-ground"}) /\ sent \in 0..MaxCommands
  /\ cloudSocket \in {"none", "opening", "open", "gone"} /\ visits \in 0..MaxVisits
  /\ view \in [levelled : BOOLEAN, calibrating : BOOLEAN, frame : -1..MaxPairs,
                status : {"idle", "connecting", "streaming", "error", "closed"}]

(* What is said once is not lost and not overtaken: however far the browser *)
(* is behind, the ground's news, a failure and the end reach it in the      *)
(* order they were said, each once, and what has not reached it is still on *)
(* its way (deliver()).                                                     *)
SaidOnceIsKept ==
  /\ \A i \in DOMAIN heard : heard[i] = i
  /\ \A n \in (Len(heard) + 1)..said : \E i \in DOMAIN underWay : Control(underWay[i]) /\ underWay[i].index = n
  /\ \A i, j \in DOMAIN underWay :
       i < j /\ Control(underWay[i]) /\ Control(underWay[j]) => underWay[i].index < underWay[j].index

(* However far the browser is behind, no more than a queue of frames waits  *)
(* for it, and they come in order (_QUEUE_DEPTH).                           *)
BacklogIsBounded ==
  /\ FramesIn(queue) <= QUEUE_DEPTH
  /\ \A i \in DOMAIN underWay : IsFrame(underWay[i]) =>
       /\ view.frame < underWay[i].index
       /\ \A j \in DOMAIN underWay : i < j /\ IsFrame(underWay[j]) => underWay[i].index < underWay[j].index

(* When nothing is under way either side, the browser shows the ground as   *)
(* levelled just when it is, whatever was asked in between.                 *)
NothingUnderWay == commands = <<>> /\ underWay = <<>>
ViewAgrees ==
  NothingUnderWay /\ view.status = "streaming" /\ index > 0 /\ seen = [plane |-> plane, refusal |-> refusal]
    => (view.levelled <=> plane # 0)

(* The status is that of the socket in use, whatever still happens to those *)
(* before it: it streams from the hello on, and an error stands             *)
(* (useLiveCloudStream.ts:206-214, :276-290).                               *)
StatusIsOfTheSocket ==
  /\ view.status = "idle" <=> cloudSocket = "none"
  /\ view.status \in {"connecting", "streaming"} <=> cloudSocket \in {"opening", "open"}
  /\ view.status = "streaming" <=> cloudSocket = "open" /\ heard # <<>>
  /\ view.frame # -1 => view.status # "connecting"

(* What the packer writes the browser reads, whatever a frame carries, and  *)
(* a frame that is cut short is not shown (PairFrame).                      *)
FramesAreRead == \A n \in 0..MaxPoints, b \in 0..MaxBlobs : FrameIsRead(n, b)

(* What the browser is told, what it waits for and what it shows.           *)
CloudPromise == SaidOnceIsKept /\ BacklogIsBounded /\ ViewAgrees /\ StatusIsOfTheSocket /\ FramesAreRead
=============================================================================
