---------------------------- MODULE Orchestrator ----------------------------
(***************************************************************************)
(* L0 routes every intent that is proposed (src/orchestrator.js, onIntent):*)
(* it retrieves context, asks a model for a tool (src/models/plan.js,      *)
(* router.js, client.js), attaches the action and asks the operator when   *)
(* the tool is gated.  Each routing runs on its own, from one await to the *)
(* next, beside the others; the store calls it once, for a new intent      *)
(* (src/api/intents.js, onPropose).                                        *)
(*                                                                         *)
(* The intent of the dashboard's demo is escalated by boot.js itself.      *)
(***************************************************************************)
EXTENDS Integers, FiniteSets

CONSTANTS
  Intents, DemoIntents, \* the second a subset of the first
  Sensitive,     \* intents whose requested outcome must not leave the box
  Tools,         \* declared tools
  Gated,         \* the ones that need consent
  Names,         \* what a model may answer: tools, other names
  NoTool         \* "null", or nothing that parses

ASSUME OrchestratorAssumption ==
  DemoIntents \cup Sensitive \subseteq Intents /\ Gated \subseteq Tools /\ Tools \subseteq Names /\ NoTool \notin Names

VARIABLES
  stage,     \* intent -> where its routing is
  endpoint,  \* intent -> where its prompt goes
  planned,   \* intent -> the tools of its actions, in order
  asked,     \* intent -> messages to the operator that arrived
  rows       \* intent -> outcomes of its l0 rows

l0Vars == <<stage, endpoint, planned, asked, rows>>

L0Init ==
  /\ stage = [i \in Intents |-> "absent"] /\ endpoint = [i \in Intents |-> "none"]
  /\ planned = [i \in Intents |-> {}] /\ asked = [i \in Intents |-> 0] /\ rows = [i \in Intents |-> {}]

To(i, s) == stage' = [stage EXCEPT ![i] = s]
(* Mutated: an inference that fails leaves no row.                          *)
RowForAnswers(i, o) == rows' = [rows EXCEPT ![i] = IF o = "error" THEN @ ELSE @ \cup {o}]
RowFor(i, o) == rows' = [rows EXCEPT ![i] = @ \cup {o}]
Attach(i, t) == planned' = [planned EXCEPT ![i] = @ \cup {t}]

-----------------------------------------------------------------------------
(* The head of onIntent, in the same step as propose().                     *)
Enters(i) == IF i \in DemoIntents THEN "done" ELSE "retrieving"

Fresh(i) == stage[i] = "absent"

Proposed(i) ==
  /\ Fresh(i) /\ i \notin DemoIntents /\ To(i, Enters(i))
  /\ UNCHANGED <<endpoint, planned, asked, rows>>

(* demo.trigger(): proposes, attaches a gated tool, and asks.               *)
DemoTrigger(i, t) ==
  /\ Fresh(i) /\ i \in DemoIntents /\ t \in Gated
  /\ To(i, Enters(i)) /\ Attach(i, t)
  /\ \E delivered \in {0, 1} : asked' = [asked EXCEPT ![i] = @ + delivered]
  /\ UNCHANGED <<endpoint, rows>>

(* route() for a plan: sensitive text is local or refused, the rest prefers *)
(* the hosted planner.  l and h: the two are up.                            *)
route(s, l, h) ==
  IF s THEN (IF l THEN "local" ELSE "refused")
  ELSE IF h THEN "hosted" ELSE IF l THEN "local" ELSE "refused"

(* Retrieval answers or fails, and the prompt is sent.                      *)
Plan(i) ==
  /\ stage[i] = "retrieving"
  /\ \E l, h \in BOOLEAN : LET r == route(i \in Sensitive, l, h) IN
       IF r = "refused" THEN To(i, "done") /\ RowFor(i, "error") /\ UNCHANGED endpoint
       ELSE To(i, "planning") /\ endpoint' = [endpoint EXCEPT ![i] = r] /\ UNCHANGED rows
  /\ UNCHANGED <<planned, asked>>

(* HTTP error, timeout or unreachable: there is no second choice.           *)
InferenceError(i) ==
  /\ stage[i] = "planning" /\ To(i, "done") /\ RowFor(i, "error")
  /\ UNCHANGED <<endpoint, planned, asked>>

Accepts(a) == a \in Tools

NoPlan(i, a) ==
  /\ stage[i] = "planning" /\ a \in Names \cup {NoTool} /\ ~Accepts(a)
  /\ To(i, "done") /\ RowFor(i, IF a = NoTool THEN "no-tool" ELSE "refused")
  /\ UNCHANGED <<endpoint, planned, asked>>

(* The action is attached and the row written before the operator is asked. *)
Routed(i, a) ==
  /\ stage[i] = "planning" /\ Accepts(a) /\ Attach(i, a) /\ RowFor(i, "routed")
  /\ To(i, IF a \in Gated THEN "escalating" ELSE "done")
  /\ UNCHANGED <<endpoint, asked>>

(* The message arrives, or the send fails, with or without an effect.       *)
Escalated(i) ==
  /\ stage[i] = "escalating" /\ To(i, "done")
  /\ \/ RowFor(i, "escalated") /\ asked' = [asked EXCEPT ![i] = @ + 1]
     \/ RowFor(i, "escalation-failed") /\ \E n \in {0, 1} : asked' = [asked EXCEPT ![i] = @ + n]
  /\ UNCHANGED <<endpoint, planned>>

L0Work(i) == Plan(i) \/ InferenceError(i) \/ Escalated(i) \/ \E a \in Names \cup {NoTool} : NoPlan(i, a) \/ Routed(i, a)
L0Next == \E i \in Intents : Proposed(i) \/ L0Work(i) \/ \E t \in Tools : DemoTrigger(i, t)

(* Retrieval, inference and the send each end, well or not.                 *)
L0Fair == \A i \in Intents : WF_l0Vars(L0Work(i))
L0Spec == L0Init /\ [][L0Next]_l0Vars /\ L0Fair

-----------------------------------------------------------------------------
(* The routing keeps to its stages, and plans declared tools only.           *)
L0TypeOK ==
  /\ stage \in [Intents -> {"absent", "retrieving", "planning", "escalating", "done"}]
  /\ endpoint \in [Intents -> {"none", "local", "hosted"}] /\ planned \in [Intents -> SUBSET Tools]
  /\ asked \in [Intents -> Nat]
  /\ rows \in [Intents -> SUBSET {"error", "no-tool", "refused", "routed", "escalated", "escalation-failed"}]

(* However often an intent is proposed, and however its routing interleaves *)
(* with others, it gets one action, and the operator one question           *)
(* (orchestrator.js:64-75).                                                 *)
AskedOnce == \A i \in Intents : asked[i] <= 1 /\ Cardinality(planned[i]) <= 1

(* The operator is asked about declared, gated tools, and the trail has the *)
(* row that says so before the question; an intent that was not routed has  *)
(* no action (orchestrator.js:105-145).                                     *)
QuestionsHaveRows ==
  \A i \in Intents :
    /\ planned[i] # {} => i \in DemoIntents \/ "routed" \in rows[i]
    /\ asked[i] > 0 => planned[i] \cap Gated # {}
    /\ rows[i] \cap {"error", "no-tool", "refused"} # {} => planned[i] = {} /\ asked[i] = 0

(* A request that must stay on the box is planned there or not at all,      *)
(* whichever model is up when its turn comes (router.js:70-78).             *)
SensitiveStaysLocal == \A i \in Sensitive : endpoint[i] # "hosted"

(* Every routing ends with a row that says how.                             *)
RoutingEnds == \A i \in Intents \ DemoIntents : (stage[i] # "absent") ~> (stage[i] = "done" /\ rows[i] # {})

(* One question for an intent, with its rows; nothing sensitive leaves;     *)
(* every routing ends.                                                      *)
L0Promise == [](AskedOnce /\ QuestionsHaveRows /\ SensitiveStaysLocal) /\ RoutingEnds
=============================================================================
