------------------------------ MODULE FeedClient ------------------------------
(***************************************************************************)
(* What the browser keeps of See's feeds (see/webapp/frontend/src/         *)
(* composables): a JSON websocket that reconnects for as long as it is     *)
(* enabled (useWsJson.ts), the boxes laid over the frame that is painted   *)
(* (useLiveStream.ts), and the scene description polled over HTTP and      *)
(* dropped when the clip changes (useSceneDescription.ts).  The feed is    *)
(* numbered by the server; payloads are left out.                          *)
(***************************************************************************)
EXTENDS Integers, Sequences, SequencesExt, FiniteSets

CONSTANTS BUFFER,        \* BUFFER: detection messages kept
          MaxSockets,    \* bound: sockets opened
          MaxDetections, \* bound: detection messages
          MaxResets,     \* bound: clip changes
          Nothing        \* no socket, no timer, no request

ASSUME FeedAssumption ==
  /\ BUFFER \in Nat \ {0} /\ {MaxSockets, MaxDetections, MaxResets} \subseteq Nat
  /\ Nothing \notin Nat

VARIABLES enabled,    \* the caller's switch
          mounted,    \* the component is there
          closedByUs,
          socket,     \* the socket in hand
          alive,      \* sockets opened and not closed
          connected,
          retry,      \* a reconnect timer is set
          socketsOpened, \* how many so far
          detBySeq,   \* the buffer, in the order it was filled
          detections, \* history: the seqs received
          displayed,  \* seq of the painted frame
          polled,     \* the poll under way: the clip it was made for, or none
          clip,       \* clip changes so far
          text        \* the clip the description shown was asked for, or none

link == <<enabled, mounted, closedByUs, socket, alive, connected, retry, socketsOpened>>
overlay == <<detBySeq, detections, displayed>>
scene == <<polled, clip, text>>
feedVars == <<link, overlay, scene>>

FeedInit ==
  /\ enabled = FALSE /\ mounted = TRUE /\ closedByUs = TRUE
  /\ socket = Nothing /\ alive = {} /\ connected = FALSE /\ retry = FALSE /\ socketsOpened = 0
  /\ detBySeq = <<>> /\ detections = {} /\ displayed = 0
  /\ polled = Nothing /\ clip = 0 /\ text = Nothing

(* connect(): a socket there is is kept; opening one may throw, which sets  *)
(* the timer.                                                               *)
HasNoSocket == socket = Nothing

openSocket ==
  /\ closedByUs' = FALSE
  /\ \/ /\ HasNoSocket /\ socketsOpened < MaxSockets
        /\ socketsOpened' = socketsOpened + 1 /\ socket' = socketsOpened' /\ alive' = alive \cup {socketsOpened'}
        /\ retry' = FALSE
     \/ HasNoSocket /\ retry' = TRUE /\ UNCHANGED <<socketsOpened, socket, alive>>
     \/ ~HasNoSocket /\ retry' = FALSE /\ UNCHANGED <<socketsOpened, socket, alive>>

disconnect ==
  /\ closedByUs' = TRUE /\ retry' = FALSE /\ connected' = FALSE
  /\ alive' = alive \ {socket} /\ socket' = Nothing

Enable ==
  /\ mounted /\ ~enabled /\ enabled' = TRUE /\ openSocket
  /\ UNCHANGED <<mounted, connected, overlay, scene>>

Disable ==
  /\ mounted /\ enabled /\ enabled' = FALSE /\ disconnect
  /\ UNCHANGED <<mounted, socketsOpened, overlay, scene>>

Opened ==
  /\ socket # Nothing /\ ~connected /\ connected' = TRUE
  /\ UNCHANGED <<enabled, mounted, closedByUs, socket, alive, retry, socketsOpened, overlay, scene>>

(* onclose of the socket in hand: scheduleReconnect() unless it was us.     *)
Retries == ~closedByUs

Closed ==
  /\ socket # Nothing
  /\ alive' = alive \ {socket} /\ socket' = Nothing /\ connected' = FALSE
  /\ retry' = (retry \/ Retries)
  /\ UNCHANGED <<enabled, mounted, closedByUs, socketsOpened, overlay, scene>>

TimerFires ==
  /\ retry /\ openSocket
  /\ UNCHANGED <<enabled, mounted, connected, overlay, scene>>

(* Unmounted: the feed, and the poll with it.                               *)
Unmount ==
  /\ mounted /\ mounted' = FALSE /\ disconnect
  /\ polled' = Nothing
  /\ UNCHANGED <<enabled, socketsOpened, overlay, clip, text>>

(* onMessage(): bufferBySeq() keeps the last BUFFER as they come.   *)
Evict(q) == IF Len(q) > BUFFER THEN Tail(q) ELSE q

Detection ==
  /\ connected
  /\ \E n \in 1..MaxDetections :
       /\ \A m \in detections : m < n
       /\ detections' = detections \cup {n} /\ detBySeq' = Evict(Append(detBySeq, n))
  /\ UNCHANGED <<displayed, link, scene>>

(* commitDisplayedFrame(): the rgb feed paints the frames in order.         *)
Paint ==
  /\ \E n \in displayed + 1 .. MaxDetections : displayed' = n
  /\ UNCHANGED <<detBySeq, detections, link, scene>>

(* displayedBoxes: the newest kept at or before the painted frame, 0 if     *)
(* there is none.                                                           *)
displayedBoxes ==
  LET at == {n \in Range(detBySeq) : n <= displayed} IN IF at = {} THEN 0 ELSE Max(at)

(* poll(): one request at a time; its answer is shown unless the component  *)
(* is gone; a failure or an abort shows nothing.                            *)
PollScene ==
  /\ mounted /\ polled = Nothing /\ polled' = clip
  /\ UNCHANGED <<clip, text, link, overlay>>

PollAnswered ==
  /\ polled # Nothing /\ polled' = Nothing
  /\ text' \in {polled, text}
  /\ UNCHANGED <<clip, link, overlay>>

(* reset() on a clip change: the description goes, a request under way is   *)
(* aborted.                                                                 *)
(* Mutated: the request is left to answer.                                  *)
AbortedNot == polled
Aborted == Nothing

ResetScene ==
  /\ mounted /\ clip < MaxResets /\ clip' = clip + 1
  /\ text' = Nothing /\ polled' = Aborted
  /\ UNCHANGED <<link, overlay>>

FeedNext == Enable \/ Disable \/ Opened \/ Closed \/ TimerFires \/ Unmount
            \/ Detection \/ Paint \/ PollScene \/ PollAnswered \/ ResetScene
FeedSpec == FeedInit /\ [][FeedNext]_feedVars

(* An enabled feed has its one socket, or a timer that will open one; a     *)
(* feed switched off or unmounted has neither, whatever closed when         *)
(* (useWsJson(): connect(), onclose, disconnect()).                         *)
OneSocketOrTimer ==
  IF enabled /\ mounted
  THEN Cardinality(alive) <= 1 /\ (alive = {socket} \/ retry)
  ELSE alive = {} /\ ~retry /\ ~connected

(* The boxes over a frame are the newest detections received for it or an   *)
(* earlier one, unless a buffer full of newer ones has come since           *)
(* (bufferBySeq(), atOrBefore()).                                           *)
BoxesAreTheClosest ==
  \A n \in detections :
    displayedBoxes < n /\ n <= displayed
      => Cardinality({m \in detections : m > n}) >= BUFFER

(* A description shown was asked for since the clip last changed            *)
(* (useSceneDescription(): reset()).                                        *)
TextIsOfTheClip == text # Nothing => text = clip

(* The browser's link, its overlay and its description each stay with their *)
(* source.                                                                  *)
FeedPromise == OneSocketOrTimer /\ BoxesAreTheClosest /\ TextIsOfTheClip
=============================================================================
