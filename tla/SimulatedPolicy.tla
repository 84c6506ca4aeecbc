-------------------------- MODULE SimulatedPolicy --------------------------
(***************************************************************************)
(* The policy port of a box without a sandbox (src/policy/envelope.js,     *)
(* createSimulatedPolicy): the compiled envelope with deltas pushed onto   *)
(* its rules and taken off by id.  The broker applies an action's delta    *)
(* and reverts it (src/broker/authorize.js); an action may run again later.*)
(***************************************************************************)
EXTENDS Integers, FiniteSets

CONSTANTS
  SimActions,   \* actions with a request, by actionId
  RuleOf,       \* action -> <<host, method, path>> of its request
  Standing,     \* the rules of the compiled fragment
  MaxDeltas     \* bound: deltas made

ASSUME SimAssumption ==
  /\ Standing \cup {RuleOf[a] : a \in SimActions} \subseteq STRING \X STRING \X STRING /\ MaxDeltas \in Nat

VARIABLES
  extra,    \* rules pushed: [id, rule]
  applied,  \* action -> id of its delta, 0 for none
  counter,  \* deltas made
  within    \* actions whose call is between applyDelta and revertDelta

simVars == <<extra, applied, counter, within>>
KnownHost(h) == \E r \in Standing : r[1] = h

SimInit == extra = {} /\ counter = 0 /\ within = {} /\ applied = [a \in SimActions |-> 0]

(* check(): a rule of the host, standing or pushed.                         *)
AllowedBy(rule) == rule \in Standing \/ \E x \in extra : x.rule = rule

(* A host nobody declared is not widened: the id is noted all the same.     *)
ApplyDelta(a) ==
  /\ a \notin within /\ counter < MaxDeltas /\ counter' = counter + 1
  /\ applied' = [applied EXCEPT ![a] = counter']
  /\ IF KnownHost(RuleOf[a][1])
     THEN extra' = extra \cup {[id |-> counter', rule |-> RuleOf[a]]} /\ within' = within \cup {a}
     ELSE UNCHANGED <<extra, within>>

(* Mutated: the delta that was made last.                                   *)
DeltaOfLast(a) == counter
DeltaOf(a) == IF applied[a] # 0 THEN applied[a] ELSE counter

RevertDelta(a) ==
  /\ a \in within /\ within' = within \ {a}
  /\ extra' = {x \in extra : x.id # DeltaOf(a)}
  /\ applied' = [applied EXCEPT ![a] = 0] /\ UNCHANGED counter

SimNext == \E a \in SimActions : ApplyDelta(a) \/ RevertDelta(a)
SimSpec == SimInit /\ [][SimNext]_simVars

-----------------------------------------------------------------------------
(* Every rule pushed is some action's that is under way, by the id it keeps.*)
SimTypeOK ==
  /\ counter \in 0..MaxDeltas /\ within \subseteq SimActions /\ applied \in [SimActions -> 0..MaxDeltas]
  /\ extra \subseteq [id : 1..MaxDeltas, rule : {RuleOf[a] : a \in SimActions}]
  /\ \A x \in extra : \E a \in within : applied[a] = x.id /\ RuleOf[a] = x.rule

(* What is open is what the actions under way need, no more and no less:    *)
(* also when two of them opened the same method on the same path, or one    *)
(* that failed on an unknown host was tried between (envelope.js:66-111).   *)
OpenIsNeeded ==
  /\ {x.rule : x \in extra} = {RuleOf[a] : a \in within}
  /\ \A a \in within : AllowedBy(RuleOf[a])
=============================================================================
