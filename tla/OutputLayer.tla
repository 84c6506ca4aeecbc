---------------------------- MODULE OutputLayer ----------------------------
(***************************************************************************)
(* The event bus (src/bus.js) and its subscribers: the viewers' sockets    *)
(* (src/api/outputs.js, attached in src/api/stream.js), which drop what    *)
(* does not fit, and the training recorder (src/training/recorder.js),     *)
(* which writes a labelled row per observation.  publish() calls every     *)
(* subscriber before it returns.                                           *)
(***************************************************************************)
EXTENDS Integers, FiniteSets

CONSTANTS
  Viewers, TopicOf,  \* sockets that may connect, viewer -> its topic
  Topics,
  MayRead,           \* viewers whose token has the read scope
  openOutputs,       \* outputs.open
  sizeOf, maxBuffered, \* topic -> size of its events; ceiling of a socket's buffer
  Labels,            \* labels of observations
  MaxPublished, MaxStarts \* bounds: events; recordings

ASSUME OutputAssumption ==
  /\ TopicOf \in [Viewers -> Topics] /\ MayRead \subseteq Viewers /\ openOutputs \in BOOLEAN
  /\ sizeOf \in [Topics -> Nat \ {0}] /\ maxBuffered \in [Topics -> Nat] /\ "observation" \in Topics
  /\ {MaxPublished, MaxStarts} \subseteq Nat

VARIABLES
  socket,    \* viewer -> "none", "open", "closing", "closed"
  buffered,  \* viewer -> bytes its socket has not sent on
  sent, dropped, \* viewer -> events
  due,       \* history: viewer -> events published while it was open
  recording, \* the recorder's subscription
  tally, rowsIn, \* label -> counted; history: rows in all files
  eventCount, starts \* bounds

outputVars == <<socket, buffered, sent, dropped, due, recording, tally, rowsIn, eventCount, starts>>

OutputInit ==
  /\ socket = [v \in Viewers |-> "none"] /\ recording = FALSE /\ eventCount = 0 /\ starts = 0
  /\ buffered = [v \in Viewers |-> 0] /\ sent = buffered /\ dropped = buffered /\ due = buffered
  /\ tally = [x \in Labels |-> 0] /\ rowsIn = tally

Recorder == <<recording, tally, rowsIn, eventCount, starts>>
Sockets == <<socket, buffered, sent, dropped, due>>

(* acceptViewer(), asked only when the outputs are not open; then bridged.  *)
Connect(v) ==
  /\ socket[v] = "none" /\ (openOutputs \/ v \in MayRead)
  /\ socket' = [socket EXCEPT ![v] = "open"] /\ UNCHANGED <<buffered, sent, dropped, due, Recorder>>

(* The peer goes; the close event, which unsubscribes, comes later.         *)
Leaving(v, from, to) ==
  /\ socket[v] = from /\ socket' = [socket EXCEPT ![v] = to]
  /\ buffered' = [buffered EXCEPT ![v] = 0] /\ UNCHANGED <<sent, dropped, due, Recorder>>
Disconnect(v) == Leaving(v, "open", "closing") \/ Leaving(v, "closing", "closed")

Drain(v) ==
  /\ buffered[v] > 0 /\ buffered' = [buffered EXCEPT ![v] = @ - 1]
  /\ UNCHANGED <<socket, sent, dropped, due, Recorder>>

Fits(v) == buffered[v] <= maxBuffered[TopicOf[v]]

Listening(t) == {v \in Viewers : TopicOf[v] = t /\ socket[v] = "open"}
(* Every open subscriber is called, whatever the one before it did.         *)
Reached(t) == Listening(t)

(* send() may throw: neither sent nor dropped, close will follow.           *)
Bridged(t) ==
  \E T \in SUBSET {v \in Reached(t) : Fits(v)} :
    LET S == {v \in Reached(t) : Fits(v)} \ T  D == {v \in Reached(t) : ~Fits(v)} IN
    /\ buffered' = [v \in Viewers |-> IF v \in S THEN buffered[v] + sizeOf[t] ELSE IF v \in T THEN 0 ELSE buffered[v]]
    /\ sent' = [v \in Viewers |-> IF v \in S THEN sent[v] + 1 ELSE sent[v]]
    /\ dropped' = [v \in Viewers |-> IF v \in D THEN dropped[v] + 1 ELSE dropped[v]]
    /\ socket' = [v \in Viewers |-> IF v \in T THEN "closing" ELSE socket[v]]
    /\ due' = [v \in Viewers |-> IF v \in Listening(t) \ T THEN due[v] + 1 ELSE due[v]]

(* Mutated: counted before the row is written.                              *)
CountedFirst(x, written) == tally' = [tally EXCEPT ![x] = @ + 1] /\ rowsIn' = IF written THEN [rowsIn EXCEPT ![x] = @ + 1] ELSE rowsIn
Counts(x, written) ==
  IF written THEN tally' = [tally EXCEPT ![x] = @ + 1] /\ rowsIn' = [rowsIn EXCEPT ![x] = @ + 1]
  ELSE UNCHANGED <<tally, rowsIn>>

publish(t) ==
  /\ eventCount < MaxPublished /\ eventCount' = eventCount + 1 /\ Bridged(t)
  /\ IF t = "observation" /\ recording THEN \E x \in Labels, ok \in BOOLEAN : Counts(x, ok) ELSE UNCHANGED <<tally, rowsIn>>
  /\ UNCHANGED <<recording, starts>>

(* Idempotent; a new file, the tally goes on.                               *)
StartRecording ==
  /\ ~recording /\ starts < MaxStarts /\ recording' = TRUE /\ starts' = starts + 1
  /\ UNCHANGED <<Sockets, tally, rowsIn, eventCount>>
StopRecording == recording /\ recording' = FALSE /\ UNCHANGED <<Sockets, tally, rowsIn, eventCount, starts>>

OutputNext ==
  \/ StartRecording \/ StopRecording \/ \E t \in Topics : publish(t)
  \/ \E v \in Viewers : Connect(v) \/ Disconnect(v) \/ Drain(v)
OutputSpec == OutputInit /\ [][OutputNext]_outputVars

-----------------------------------------------------------------------------
(* A viewer's buffer never holds more than the ceiling and one event: how   *)
(* far behind the slowest viewer can watch (outputs.js:37-50).              *)
OutputTypeOK ==
  /\ socket \in [Viewers -> {"none", "open", "closing", "closed"}] /\ recording \in BOOLEAN
  /\ \A v \in Viewers : buffered[v] \in 0..(maxBuffered[TopicOf[v]] + sizeOf[TopicOf[v]])
  /\ {sent, dropped, due} \subseteq [Viewers -> 0..MaxPublished] /\ eventCount \in 0..MaxPublished
  /\ {tally, rowsIn} \subseteq [Labels -> 0..MaxPublished] /\ starts \in 0..MaxStarts

(* A slow, closing or broken viewer costs no other viewer an event: each    *)
(* gets or drops everything published on its topic while it was open        *)
(* (bus.js:25-33, outputs.js:72-84).                                        *)
ViewersAreIsolated == \A v \in Viewers : sent[v] + dropped[v] = due[v]

(* The recorder's counts are the rows that are in its files, over all       *)
(* recordings, whatever writes failed (recorder.js:42-49).                  *)
TallyCountsRows == tally = rowsIn

(* Nobody's events depend on another viewer, and the recorder counts what   *)
(* it wrote.                                                                *)
OutputPromise == ViewersAreIsolated /\ TallyCountsRows
=============================================================================
