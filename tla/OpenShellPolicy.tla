--------------------------- MODULE OpenShellPolicy ---------------------------
(***************************************************************************)
(* The policy port (src/policy/openshell.js): it opens a capability by     *)
(* adding one rule to the sandbox's live policy, and closes it by removing *)
(* that rule and reading the policy back.                                  *)
(*                                                                         *)
(* The live policy belongs to the sandbox and is replaced as a whole, so   *)
(* each operation reads it, edits the copy, and writes the copy back, with *)
(* an await before every one of these.  The steps below say how one caller *)
(* goes through an operation; the Broker says who calls.                   *)
(***************************************************************************)
EXTENDS ActionTaxonomy

CONSTANTS
  Callers,      \* who may have an operation in progress
  NoAction,     \* what an idle caller works on
  Requests,     \* the {host, method, path} an action may ask for
  NoRequest,    \* the request of an action that carries none
  RequestOf,    \* the request of each action
  Widenable,    \* requests whose host is declared with protocol rest
  BaseGrants,   \* requests the compiled policy grants without any delta
  MaxLateSets   \* bound: writes that were reported failed and took effect

ASSUME PolicyAssumption ==
  /\ NoAction \notin Actions
  /\ NoRequest \notin Requests
  /\ RequestOf \in [Actions -> Requests \cup {NoRequest}]
  /\ Widenable \subseteq Requests
  /\ BaseGrants \subseteq Requests
  /\ MaxLateSets \in Nat

STEP == {"idle", "apply-read", "apply-set", "revert-read", "revert-set",
         "verify", "done", "failed"}

VARIABLES
  doc,       \* the deltas in the live policy, by the action that owns them
  open,      \* the map open of the process, by action
  port,      \* where each caller is in its operation
  lateSets

policyVars == <<doc, open, port, lateSets>>

PolicyTypeOK ==
  /\ doc \subseteq Actions
  /\ open \subseteq Actions
  /\ port \in [Callers -> [at : STEP, action : Actions \cup {NoAction}, copy : SUBSET Actions]]
  /\ lateSets \in 0..MaxLateSets

Idle == [at |-> "idle", action |-> NoAction, copy |-> {}]

PolicyInit ==
  /\ doc = {} /\ open = {} /\ lateSets = 0
  /\ port = [c \in Callers |-> Idle]

(* createEnvelope(doc).check(): granted by the compiled policy or by the    *)
(* delta of any action that asked for the same request.                     *)
Grants(req) == req \in BaseGrants \/ \E a \in doc : RequestOf[a] = req

At(c, step) == port[c].at = step

(* The copy is not looked at after the operation, and is dropped with it.   *)
Finish(c, step) == port' = [port EXCEPT ![c] = [@ EXCEPT !.at = step, !.copy = {}]]
Working(c) == ~At(c, "idle") /\ ~At(c, "done") /\ ~At(c, "failed")

-----------------------------------------------------------------------------
(* applyDelta(): an action without a complete request throws at once.       *)
EnterApply(c, a) ==
  port' = [port EXCEPT ![c] =
    [at |-> IF RequestOf[a] = NoRequest THEN "failed" ELSE "apply-read",
     action |-> a, copy |-> {}]]

(* revertDelta(): a delta that is not in the map is nothing to revert.      *)
EnterRevert(c, a) ==
  port' = [port EXCEPT ![c] =
    [at |-> IF a \in open THEN "revert-read" ELSE "done", action |-> a, copy |-> {}]]

(* readPolicy() answers.  Widening a host that is not declared, or that is  *)
(* not inspected, is refused.                                               *)
Read(c) ==
  /\ \/ /\ At(c, "apply-read") /\ RequestOf[port[c].action] \in Widenable
        /\ port' = [port EXCEPT ![c] = [@ EXCEPT !.at = "apply-set", !.copy = doc]]
     \/ /\ At(c, "apply-read") /\ RequestOf[port[c].action] \notin Widenable
        /\ Finish(c, "failed")
     \/ /\ At(c, "revert-read")
        /\ port' = [port EXCEPT ![c] = [@ EXCEPT !.at = "revert-set", !.copy = doc]]
  /\ UNCHANGED <<doc, open, lateSets>>

(* The policy a caller is about to write: the copy it read, edited.         *)
Edited(c) ==
  IF At(c, "apply-set") THEN port[c].copy \cup {port[c].action}
  ELSE port[c].copy \ {port[c].action}

(* writePolicy() answers, and the map follows.                              *)
SetApply(c) ==
  /\ At(c, "apply-set")
  /\ doc' = Edited(c)
  /\ open' = open \cup {port[c].action}
  /\ Finish(c, "done")
  /\ UNCHANGED lateSets

(* Mutated: the map is not told of the revert.                              *)
SetRevertUntold(c) ==
  /\ At(c, "revert-set")
  /\ doc' = Edited(c)
  /\ Finish(c, "verify")
  /\ UNCHANGED <<open, lateSets>>

SetRevert(c) ==
  /\ At(c, "revert-set")
  /\ doc' = Edited(c)
  /\ open' = open \ {port[c].action}
  /\ Finish(c, "verify")
  /\ UNCHANGED lateSets

(* The revert reads the policy back and fails when it still grants.         *)
Verify(c) ==
  /\ At(c, "verify")
  /\ Finish(c, IF Grants(RequestOf[port[c].action]) THEN "failed" ELSE "done")
  /\ UNCHANGED <<doc, open, lateSets>>

(* The command exits with an error, or its output does not parse.           *)
CommandFails(c) ==
  /\ Working(c)
  /\ Finish(c, "failed")
  /\ UNCHANGED <<doc, open, lateSets>>

(* policy set --wait gives up waiting for a policy that is installed after  *)
(* all: the caller sees an error.                                           *)
SetLate(c) ==
  /\ At(c, "apply-set") \/ At(c, "revert-set")
  /\ lateSets < MaxLateSets /\ lateSets' = lateSets + 1
  /\ doc' = Edited(c)
  /\ Finish(c, "failed")
  /\ UNCHANGED open

PolicyStep(c) ==
  Read(c) \/ SetApply(c) \/ SetRevert(c) \/ Verify(c) \/ CommandFails(c) \/ SetLate(c)

(* The process dies.  The map is memory; the live policy is not.  A write   *)
(* that was on its way is installed or is not.                              *)
PolicyLost ==
  /\ open' = {}
  /\ port' = [c \in Callers |-> Idle]
  /\ \/ UNCHANGED doc
     \/ \E c \in Callers : /\ At(c, "apply-set") \/ At(c, "revert-set")
                           /\ doc' = Edited(c)
  /\ UNCHANGED lateSets
=============================================================================
