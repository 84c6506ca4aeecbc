--------------------------- MODULE GatewayClient ---------------------------
(***************************************************************************)
(* The client of the OpenClaw gateway (src/gateway/openclaw.js,            *)
(* createGatewayClient): one socket, the gateway's challenge, and requests *)
(* that wait for a frame with their id or for their timeout.  Answers come *)
(* in any order, late, twice or not at all.                                *)
(***************************************************************************)
EXTENDS Integers, FiniteSets

CONSTANTS Calls,     \* the requests that may be made, by their random ids
          MaxCopies  \* bound: answers the gateway sends to one request

ASSUME GatewayAssumption == MaxCopies \in Nat \ {0}

VARIABLES
  ws,         \* "none", "dialing", "open", "closed"
  opening,    \* the promise of open()
  challenge,  \* the promise of the nonce
  outcome,    \* request -> its promise
  pending,    \* ids the client would take an answer for
  wire,       \* ids the gateway has got
  copies,     \* history: request -> answers sent
  timeouts    \* history: requests given up

gatewayVars == <<ws, opening, challenge, outcome, pending, wire, copies, timeouts>>
PROMISE == {"none", "waiting", "resolved", "rejected"}

GatewayInit ==
  /\ ws = "none" /\ opening = "none" /\ challenge = "waiting"
  /\ outcome = [r \in Calls |-> "none"] /\ pending = {} /\ wire = {}
  /\ copies = [r \in Calls |-> 0] /\ timeouts = {}

(* Mutated: the last word counts.                                           *)
SettleAgain(p, v) == v
(* A promise that is settled stays as it is.                                *)
SettleP(p, v) == IF p = "waiting" THEN v ELSE p
SettleAll(S, v) == outcome' = [r \in Calls |-> IF r \in S THEN SettleP(outcome[r], v) ELSE outcome[r]]

OpenSocket ==
  /\ ws = "none" /\ ws' = "dialing" /\ opening' = "waiting"
  /\ UNCHANGED <<challenge, outcome, pending, wire, copies, timeouts>>

SocketOpens ==
  /\ ws = "dialing" /\ ws' = "open" /\ opening' = SettleP(opening, "resolved")
  /\ UNCHANGED <<challenge, outcome, pending, wire, copies, timeouts>>

(* It gives up on the socket, which may still open.                         *)
OpenTimeout ==
  /\ opening = "waiting" /\ opening' = "rejected"
  /\ UNCHANGED <<ws, challenge, outcome, pending, wire, copies, timeouts>>

failAll == SettleAll(pending, "rejected") /\ pending' = {}

(* The gateway hangs up, or close() is called; what was sent is lost.       *)
SocketCloses ==
  /\ ws \in {"dialing", "open"} /\ ws' = "closed" /\ failAll
  /\ opening' = SettleP(opening, "rejected") /\ challenge' = SettleP(challenge, "rejected")
  /\ wire' = {} /\ UNCHANGED <<copies, timeouts>>

Challenged ==
  /\ ws = "open" /\ challenge = "waiting" /\ challenge' = "resolved"
  /\ UNCHANGED <<ws, opening, outcome, pending, wire, copies, timeouts>>

(* send() throws while the socket dials, and drops when it is closed.  The  *)
(* entry is made before.                                                    *)
request(r) ==
  /\ ws # "none" /\ outcome[r] = "none" /\ pending' = pending \cup {r}
  /\ outcome' = [outcome EXCEPT ![r] = IF ws = "dialing" THEN "rejected" ELSE "waiting"]
  /\ wire' = IF ws = "open" THEN wire \cup {r} ELSE wire
  /\ UNCHANGED <<ws, opening, challenge, copies, timeouts>>

(* The entries left when a frame has answered one.                          *)
Left(r) == pending \ {r}

(* A frame with the id; one nobody waits for is dropped.                    *)
Response(r) ==
  /\ ws = "open" /\ r \in wire /\ copies[r] < MaxCopies /\ copies' = [copies EXCEPT ![r] = @ + 1]
  /\ IF r \in pending
     THEN pending' = Left(r) /\ \E v \in {"resolved", "rejected"} : SettleAll({r}, v)
     ELSE UNCHANGED <<pending, outcome>>
  /\ UNCHANGED <<ws, opening, challenge, wire, timeouts>>

GivesUp(r) == outcome[r] = "waiting"

(* The timer rejects the promise; the entry in pending stays.               *)
RequestTimeout(r) ==
  /\ GivesUp(r) /\ outcome' = [outcome EXCEPT ![r] = "rejected"] /\ timeouts' = timeouts \cup {r}
  /\ UNCHANGED <<ws, opening, challenge, pending, wire, copies>>

GatewayNext == OpenSocket \/ SocketOpens \/ OpenTimeout \/ SocketCloses \/ Challenged
               \/ \E r \in Calls : request(r) \/ Response(r) \/ RequestTimeout(r)

(* The timers fire.                                                         *)
GatewayFair == WF_gatewayVars(OpenTimeout) /\ \A r \in Calls : WF_gatewayVars(RequestTimeout(r))
GatewaySpec == GatewayInit /\ [][GatewayNext]_gatewayVars /\ GatewayFair

-----------------------------------------------------------------------------
(* A request nobody answered is one an answer can still reach, as long as   *)
(* the socket is there; and whatever is kept beyond that was given up or    *)
(* never sent, and goes with the socket (openclaw.js:200-218, :250-253).    *)
GatewayTypeOK ==
  /\ ws \in {"none", "dialing", "open", "closed"} /\ {opening, challenge} \subseteq PROMISE
  /\ outcome \in [Calls -> PROMISE] /\ pending \cup wire \cup timeouts \subseteq Calls
  /\ ws = "open" => \A r \in wire : outcome[r] = "waiting" => r \in pending
  /\ \A r \in pending : outcome[r] = "waiting" \/ outcome[r] = "rejected"

(* What a caller was told does not change: not by an answer that comes      *)
(* after the timeout, by a second one, or by the socket's end.              *)
AnswersAreFinal ==
  [][\A r \in Calls : outcome[r] \in {"resolved", "rejected"} => outcome'[r] = outcome[r]]_gatewayVars

(* Every request is answered to its caller in the end, though the socket    *)
(* closed before it was sent or while it was out (openclaw.js:250-253).     *)
RequestsEnd == \A r \in Calls : outcome[r] = "waiting" ~> outcome[r] # "waiting"

(* Every request gets one answer, and gets it.                              *)
GatewayPromise == AnswersAreFinal /\ RequestsEnd
=============================================================================
