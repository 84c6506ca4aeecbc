------------------------------- MODULE Broker -------------------------------
(***************************************************************************)
(* authorize() (src/broker/authorize.js), the one function every action    *)
(* passes through, over the policy port.  A call is one step from its      *)
(* entry to its first await, and one step per await from then on.          *)
(*                                                                         *)
(* The ledger is what append() returned, in order (module Ledger says what *)
(* becomes of it on disk).  The service behind execute() is external: it   *)
(* may do what it is asked without its answer ever being seen.             *)
(***************************************************************************)
EXTENDS OpenShellPolicy, Sequences

CONSTANTS
  Decisions,    \* the decisions a call can carry
  NoDecision,   \* a call without one
  Serialised,   \* one call at a time: boot.js calls from the Telegram loop only
  MaxCalls,     \* bound: calls to authorize()
  MaxLogErrors, \* bound: ledger appends that threw
  MaxCrashes    \* bound: deaths of the process

ASSUME BrokerAssumption ==
  /\ NoDecision \notin Decisions
  /\ Serialised \in BOOLEAN
  /\ MaxCalls \in Nat /\ MaxLogErrors \in Nat /\ MaxCrashes \in Nat

VARIABLES
  call,      \* the call each caller is in: action, decision, admitted row
  rows,      \* the ledger
  runs,      \* what reached the service, in order
  undoable,  \* undo.register() was called for these admitted rows
  halted,    \* actions whose revert failed: authorize() threw HALT for them
  calls, logErrors, crashes

brokerVars == <<call, rows, runs, undoable, halted, calls, logErrors, crashes>>

OUTCOME == {"admitted", "executed", "refused", "revert-failed"}
STAGE == {"none", "applying", "calling", "answered", "failing", "reverting"}

NoCall == [stage |-> "none", action |-> NoAction, decision |-> NoDecision,
           seq |-> 0, threw |-> FALSE]

BrokerTypeOK ==
  /\ PolicyTypeOK
  /\ \A c \in Callers :
       /\ call[c].stage \in STAGE
       /\ call[c].action \in Actions \cup {NoAction}
       /\ call[c].decision \in Decisions \cup {NoDecision}
       /\ call[c].seq \in 0..Len(rows)
       /\ call[c].threw \in BOOLEAN
  /\ rows \in Seq([action : Actions, outcome : OUTCOME, of : Nat])
  /\ runs \in Seq([action : Actions, decision : Decisions \cup {NoDecision}, of : Nat])
  /\ undoable \subseteq DOMAIN rows
  /\ halted \subseteq Actions
  /\ calls \in 0..MaxCalls /\ logErrors \in 0..MaxLogErrors /\ crashes \in 0..MaxCrashes

BrokerInit ==
  /\ PolicyInit
  /\ call = [c \in Callers |-> NoCall]
  /\ rows = <<>> /\ runs = <<>> /\ undoable = {} /\ halted = {}
  /\ calls = 0 /\ logErrors = 0 /\ crashes = 0

-----------------------------------------------------------------------------
(* Mutated: an approval short of its quorum is as good as any.              *)
verifyDecisionPartial(d, a, expired) ==
  d.verdict = "approve" /\ d.action = a /\ ~expired /\ d.decidedBy # d.proposedBy

(* verifyDecision(): nothing ever sets a decision's spent, so the test for  *)
(* it never refuses.  The caller says whether the decision has expired.     *)
verifyDecision(d, a, expired) ==
  /\ d.verdict = "approve"
  /\ d.action = a
  /\ d.settled
  /\ ~expired
  /\ d.decidedBy # d.proposedBy

HasWayBack(a) == requiresInverse(VerbOf[a]) => a \in Invertible

Row(a, outcome, of) == [action |-> a, outcome |-> outcome, of |-> of]

(* record(): the row, or nothing when append() throws.                      *)
Record(row) ==
  \/ rows' = Append(rows, row) /\ UNCHANGED logErrors
  \/ /\ logErrors < MaxLogErrors /\ logErrors' = logErrors + 1
     /\ UNCHANGED rows

(* Mutated: the admission is recorded as the other rows are.                *)
AdmittedBestEffort(a) == Record(Row(a, "admitted", 0))

(* append() for the admission: when it throws the call is refused.          *)
Admitted(a) == rows' = Append(rows, Row(a, "admitted", 0)) /\ UNCHANGED logErrors
NotAdmitted ==
  /\ logErrors < MaxLogErrors /\ logErrors' = logErrors + 1
  /\ UNCHANGED rows

InCall(c) == call[c].stage # "none"

(* A new call.                                                              *)
Entering(c) ==
  /\ ~InCall(c)
  /\ Serialised => \A e \in Callers : ~InCall(e)
  /\ calls < MaxCalls /\ calls' = calls + 1

(* Mutated: the row counted from one too far.                               *)
BeginOff(c, a, d, stage) ==
  call' = [call EXCEPT ![c] = [stage |-> stage, action |-> a, decision |-> d,
                               seq |-> Len(rows') + 1, threw |-> FALSE]]

Begin(c, a, d, stage) ==
  call' = [call EXCEPT ![c] = [stage |-> stage, action |-> a, decision |-> d,
                               seq |-> Len(rows'), threw |-> FALSE]]

(* Prohibited, then undeclared: refused before anything is admitted.        *)
Refuse(c, a) ==
  /\ Entering(c)
  /\ TierOf(a) \in {"prohibited", "undeclared"}
  /\ Record(Row(a, "refused", 0))
  /\ UNCHANGED <<call, runs, undoable, halted, crashes, policyVars>>

RefuseUnlogged(c, a) ==
  /\ Entering(c)
  /\ TierOf(a) \notin {"prohibited", "undeclared"}
  /\ NotAdmitted
  /\ UNCHANGED <<call, runs, undoable, halted, crashes, policyVars>>

(* Admitted, and refused or escalated in the same step: a contained write   *)
(* without a way back, or a consequential one whose decision is missing,    *)
(* does not verify, or approves a write without a way back.  Only a         *)
(* decision that does not verify is recorded.                               *)
AdmitOnly(c, a, d, expired) ==
  /\ Entering(c)
  /\ \/ /\ TierOf(a) = "contained" /\ ~HasWayBack(a)
        /\ Admitted(a)
     \/ /\ TierOf(a) = "consequential" /\ d = NoDecision
        /\ Admitted(a)
     \/ /\ TierOf(a) = "consequential" /\ d # NoDecision
        /\ ~verifyDecision(d, a, expired)
        /\ \/ /\ rows' = rows \o <<Row(a, "admitted", 0), Row(a, "refused", 0)>>
              /\ UNCHANGED logErrors
           \/ /\ logErrors < MaxLogErrors /\ logErrors' = logErrors + 1
              /\ rows' = Append(rows, Row(a, "admitted", 0))
     \/ /\ TierOf(a) = "consequential" /\ d # NoDecision
        /\ verifyDecision(d, a, expired) /\ ~HasWayBack(a)
        /\ Admitted(a)
  /\ UNCHANGED <<call, runs, undoable, halted, crashes, policyVars>>

(* A read or a contained write: admitted, and execute() is called.          *)
AdmitContained(c, a) ==
  /\ Entering(c)
  /\ TierOf(a) \in {"safe", "contained"}
  /\ TierOf(a) = "contained" => HasWayBack(a)
  /\ Admitted(a)
  /\ Begin(c, a, NoDecision, "calling")
  /\ UNCHANGED <<runs, undoable, halted, crashes, policyVars>>

(* A consequential write with a decision that holds: policy.applyDelta().   *)
AdmitConsequential(c, a, d, expired) ==
  /\ Entering(c)
  /\ TierOf(a) = "consequential" /\ d # NoDecision
  /\ verifyDecision(d, a, expired) /\ HasWayBack(a)
  /\ Admitted(a)
  /\ Begin(c, a, d, "applying")
  /\ EnterApply(c, a)
  /\ UNCHANGED <<doc, open, lateSets, runs, undoable, halted, crashes>>

-----------------------------------------------------------------------------
Stage(c, s) == call[c].stage = s
Windowed(c) == TierOf(call[c].action) = "consequential"
Return(c) == call' = [call EXCEPT ![c] = NoCall]
Move(c, s) == call' = [call EXCEPT ![c].stage = s]

(* Mutated: a delta that failed does not stop the call.                     *)
AppliedAnyway(c) ==
  /\ Stage(c, "applying") /\ (At(c, "done") \/ At(c, "failed"))
  /\ Move(c, "calling")
  /\ port' = [port EXCEPT ![c] = Idle]
  /\ UNCHANGED <<doc, open, lateSets, rows, runs, undoable, halted, calls,
                 logErrors, crashes>>

(* applyDelta() returned a delta: execute() is called.  Or it threw: there  *)
(* is nothing to revert, and authorize() throws.                            *)
Applied(c) ==
  /\ Stage(c, "applying")
  /\ \/ At(c, "done") /\ Move(c, "calling")
     \/ At(c, "failed") /\ Return(c)
  /\ port' = [port EXCEPT ![c] = Idle]
  /\ UNCHANGED <<doc, open, lateSets, rows, runs, undoable, halted, calls,
                 logErrors, crashes>>

(* The service does what it was asked to.                                   *)
Serve(c) ==
  /\ Stage(c, "calling")
  /\ runs' = Append(runs, [action |-> call[c].action, decision |-> call[c].decision,
                           of |-> call[c].seq])
  /\ Move(c, "answered")
  /\ UNCHANGED <<rows, undoable, halted, calls, logErrors, crashes, policyVars>>

(* Or it does not, which its answer says.                                   *)
Decline(c) ==
  /\ Stage(c, "calling")
  /\ Move(c, "answered")
  /\ UNCHANGED <<rows, runs, undoable, halted, calls, logErrors, crashes, policyVars>>

(* execute() throws, whether the service acted or not.                      *)
ExecuteThrows(c) ==
  /\ Stage(c, "calling") \/ Stage(c, "answered")
  /\ Move(c, "failing")
  /\ UNCHANGED <<rows, runs, undoable, halted, calls, logErrors, crashes, policyVars>>

(* Mutated: the revert follows the call, and is not in a finally.           *)
LeaveNoFinally(c, threw) ==
  IF Windowed(c) /\ ~threw
  THEN /\ call' = [call EXCEPT ![c] = [@ EXCEPT !.stage = "reverting", !.threw = threw]]
       /\ EnterRevert(c, call[c].action)
  ELSE Return(c) /\ UNCHANGED port

(* After execute(): a windowed call goes on to revertDelta(), any other     *)
(* returns or throws.                                                       *)
Leave(c, threw) ==
  IF Windowed(c)
  THEN /\ call' = [call EXCEPT ![c] = [@ EXCEPT !.stage = "reverting", !.threw = threw]]
       /\ EnterRevert(c, call[c].action)
  ELSE Return(c) /\ UNCHANGED port

(* execute() returned: the row says executed whatever the answer was, and   *)
(* the way back is registered.                                              *)
Executed(c) ==
  /\ Stage(c, "answered")
  /\ Record(Row(call[c].action, "executed", call[c].seq))
  /\ undoable' = IF call[c].action \in Invertible /\ TierOf(call[c].action) # "safe"
                 THEN undoable \cup {call[c].seq} ELSE undoable
  /\ Leave(c, FALSE)
  /\ UNCHANGED <<doc, open, lateSets, runs, halted, calls, crashes>>

ExecuteFailed(c) ==
  /\ Stage(c, "failing")
  /\ Leave(c, TRUE)
  /\ UNCHANGED <<doc, open, lateSets, rows, runs, undoable, halted, calls,
                 logErrors, crashes>>

(* revertDelta() returned.                                                  *)
Reverted(c) ==
  /\ Stage(c, "reverting") /\ At(c, "done")
  /\ Return(c)
  /\ port' = [port EXCEPT ![c] = Idle]
  /\ UNCHANGED <<doc, open, lateSets, rows, runs, undoable, halted, calls,
                 logErrors, crashes>>

(* revertDelta() threw: an incident, and authorize() throws HALT.           *)
RevertFailed(c) ==
  /\ Stage(c, "reverting") /\ At(c, "failed")
  /\ Record(Row(call[c].action, "revert-failed", 0))
  /\ halted' = halted \cup {call[c].action}
  /\ Return(c)
  /\ port' = [port EXCEPT ![c] = Idle]
  /\ UNCHANGED <<doc, open, lateSets, runs, undoable, calls, crashes>>

Port(c) ==
  /\ InCall(c)
  /\ PolicyStep(c)
  /\ UNCHANGED brokerVars

Continue(c) ==
  \/ Applied(c) \/ Serve(c) \/ Decline(c) \/ ExecuteThrows(c) \/ Executed(c)
  \/ ExecuteFailed(c) \/ Reverted(c) \/ RevertFailed(c)

(* Everything but the live policy, the ledger and the service is memory.    *)
Crash ==
  /\ crashes < MaxCrashes /\ crashes' = crashes + 1
  /\ PolicyLost
  /\ call' = [c \in Callers |-> NoCall]
  /\ undoable' = {}
  /\ UNCHANGED <<rows, runs, halted, calls, logErrors>>

Enter(c) ==
  \E a \in Actions :
    \/ Refuse(c, a) \/ RefuseUnlogged(c, a) \/ AdmitContained(c, a)
    \/ \E d \in Decisions \cup {NoDecision}, expired \in BOOLEAN :
         AdmitOnly(c, a, d, expired) \/ AdmitConsequential(c, a, d, expired)

BrokerNext ==
  \/ \E c \in Callers : Enter(c) \/ Port(c) \/ Continue(c)
  \/ Crash

allVars == <<brokerVars, policyVars>>

BrokerSpec == BrokerInit /\ [][BrokerNext]_allVars

(* The sandbox's commands and the service answer in the end.                *)
FairBrokerSpec ==
  BrokerSpec /\ \A c \in Callers : WF_allVars(Port(c)) /\ WF_allVars(Continue(c))

-----------------------------------------------------------------------------
(* What reaches the service was allowed to: nothing prohibited or undeclared *)
(* whatever decision came with it, no update or delete without a way back,  *)
(* and a consequential write only on a settled approval of that very        *)
(* action by somebody who did not propose it.                               *)
RunIsAllowed(r) ==
  /\ TierOf(r.action) \in {"safe", "contained", "consequential"}
  /\ HasWayBack(r.action)
  /\ TierOf(r.action) = "consequential" =>
       /\ r.decision # NoDecision
       /\ r.decision.verdict = "approve" /\ r.decision.settled
       /\ r.decision.action = r.action
       /\ r.decision.decidedBy # r.decision.proposedBy

RunsAreAllowed == \A k \in DOMAIN runs : RunIsAllowed(runs[k])

(* Everything that reached the service has a row of its own in the ledger   *)
(* that was written before, through crashes and failed appends.             *)
RunsHaveEvidence ==
  \A k \in DOMAIN runs :
    /\ runs[k].of \in DOMAIN rows
    /\ rows[runs[k].of] = Row(runs[k].action, "admitted", 0)
    /\ \A j \in DOMAIN runs : runs[j].of = runs[k].of => j = k

(* A consequential write reaches the service only while its capability is   *)
(* in the live policy, as long as one call is made at a time.               *)
RunsInWindow ==
  [][\A k \in DOMAIN runs' \ DOMAIN runs :
       Serialised /\ TierOf(runs'[k].action) = "consequential" => runs'[k].action \in doc
    ]_allVars

Undisturbed == Serialised /\ lateSets = 0 /\ crashes = 0

(* A capability that is in the live policy belongs to a call that will      *)
(* close it, or its revert failed and the caller was told.                  *)
NoSilentLeak ==
  Undisturbed =>
    \A a \in doc : a \in halted \/ \E c \in Callers : InCall(c) /\ call[c].action = a

(* What is open in the live policy is known to the process, so that HALT    *)
(* finds it; and what the process takes for open is.                        *)
OpenMatchesPolicy == Undisturbed => open = doc

(* A capability does not stay: it is closed, or its revert failed and HALT  *)
(* was thrown; unless the process died or a command took effect late.       *)
WindowCloses ==
  \A a \in Actions : a \in doc ~> (a \notin doc \/ a \in halted \/ ~Undisturbed)

(* openshell.js:76-79: a crash cannot leave a capability open indefinitely. *)
CrashDoesNotLeak ==
  \A a \in Actions : crashes > 0 /\ a \in doc ~> a \notin doc
=============================================================================
