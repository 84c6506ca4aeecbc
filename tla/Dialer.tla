------------------------------- MODULE Dialer -------------------------------
(***************************************************************************)
(* The sockets the service dials itself and keeps up: the partner stream   *)
(* (src/api/stream.js, createUpstreamDialer) and the two COCO feeds        *)
(* (src/coco/live.js, dial).  Every dial is the same: connect, and after a *)
(* close wait for a delay that doubles, until the dialer is stopped.       *)
(* boot.js starts a dialer once and stops it once; a second start() would  *)
(* dial beside the first, and is not modelled.                             *)
(***************************************************************************)
EXTENDS Integers, FiniteSets

CONSTANTS
  Feeds,          \* the dials of one dialer, which share running
  reconnectMs, maxReconnectMs,
  MaxCloses       \* bound: closes of a feed's sockets

ASSUME DialerAssumption == /\ {reconnectMs, maxReconnectMs, MaxCloses} \subseteq Nat
                           /\ reconnectMs > 0 /\ reconnectMs <= maxReconnectMs

VARIABLES
  running,
  sockets,   \* feed -> [dialing, open, closing]: how many of its sockets are in each state
  timers,    \* feed -> delays of its timers that have not fired
  backoff,
  started,   \* history: start() was called
  closes     \* bound

dialerVars == <<running, sockets, timers, backoff, started, closes>>
None == [dialing |-> 0, open |-> 0, closing |-> 0]

DialerInit ==
  /\ running = FALSE /\ started = FALSE
  /\ sockets = [f \in Feeds |-> None] /\ timers = [f \in Feeds |-> {}]
  /\ backoff = [f \in Feeds |-> reconnectMs] /\ closes = [f \in Feeds |-> 0]

connect(f) == [sockets[f] EXCEPT !.dialing = @ + 1]

start ==
  /\ ~started /\ started' = TRUE /\ running' = TRUE
  /\ sockets' = [f \in Feeds |-> connect(f)]
  /\ UNCHANGED <<timers, backoff, closes>>

(* The timer goes, the socket's close event is still to come.               *)
stop ==
  /\ running /\ running' = FALSE /\ timers' = [f \in Feeds |-> {}]
  /\ sockets' = [f \in Feeds |->
       [dialing |-> 0, open |-> 0, closing |-> sockets[f].closing + sockets[f].open + sockets[f].dialing]]
  /\ UNCHANGED <<backoff, started, closes>>

Opens(f) ==
  /\ sockets[f].dialing > 0
  /\ sockets' = [sockets EXCEPT ![f].dialing = @ - 1, ![f].open = @ + 1]
  /\ backoff' = [backoff EXCEPT ![f] = reconnectMs]
  /\ UNCHANGED <<running, timers, started, closes>>

Doubled(b) == IF 2 * b < maxReconnectMs THEN 2 * b ELSE maxReconnectMs

Redial(f) ==
  IF running
  THEN /\ timers' = [timers EXCEPT ![f] = @ \cup {backoff[f]}]
       /\ backoff' = [backoff EXCEPT ![f] = Doubled(@)]
  ELSE UNCHANGED <<timers, backoff>>

(* The close handler: a refused dial, a lost connection, or one we closed.  *)
Closes(f, s) ==
  /\ s \in {"dialing", "open", "closing"} /\ sockets[f][s] > 0 /\ closes[f] < MaxCloses
  /\ sockets' = [sockets EXCEPT ![f][s] = @ - 1]
  /\ closes' = [closes EXCEPT ![f] = @ + 1] /\ Redial(f)
  /\ UNCHANGED <<running, started>>

(* Mutated: no further attempt when the delay has reached its limit.        *)
DueUntilLimit(f) == {d \in timers[f] : d < maxReconnectMs}
Due(f) == timers[f]

(* The timer: connect, if the dialer still runs.                            *)
Fires(f) ==
  /\ \E d \in Due(f) : timers' = [timers EXCEPT ![f] = @ \ {d}]
  /\ sockets' = IF running THEN [sockets EXCEPT ![f] = connect(f)] ELSE sockets
  /\ UNCHANGED <<running, backoff, started, closes>>

DialerNext == start \/ stop \/ \E f \in Feeds :
  Opens(f) \/ Fires(f) \/ \E s \in {"dialing", "open", "closing"} : Closes(f, s)

(* Timers fire, and a peer that is dialled again and again answers.         *)
DialerFair == \A f \in Feeds : WF_dialerVars(Fires(f)) /\ SF_dialerVars(Opens(f))
DialerSpec == DialerInit /\ [][DialerNext]_dialerVars /\ DialerFair

-----------------------------------------------------------------------------
(* The delay stays between its two limits (stream.js:230, live.js:158).     *)
DialerTypeOK ==
  /\ {running, started} \subseteq BOOLEAN /\ sockets \in [Feeds -> [DOMAIN None -> Nat]]
  /\ backoff \in [Feeds -> reconnectMs..maxReconnectMs]
  /\ timers \in [Feeds -> SUBSET (reconnectMs..maxReconnectMs)] /\ closes \in [Feeds -> 0..MaxCloses]

(* A feed has one connection or one timer that will make it: closes and     *)
(* timers in any order leave neither two sockets, each delivering every     *)
(* message, nor none while the dialer runs; once it is stopped there is     *)
(* neither, whatever close events are still to come (stream.js:221-237).    *)
OneConnectionPerFeed ==
  \A f \in Feeds : sockets[f].dialing + sockets[f].open + Cardinality(timers[f]) = IF running THEN 1 ELSE 0

(* While it runs, a feed that was lost is connected again.                  *)
KeepsConnecting == \A f \in Feeds : running ~> (sockets[f].open > 0 \/ ~running)

(* One connection or one timer for each feed at any time, and the           *)
(* connection in the end.                                                   *)
DialerPromise == []OneConnectionPerFeed /\ KeepsConnecting
=============================================================================
