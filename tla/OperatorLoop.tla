---------------------------- MODULE OperatorLoop ----------------------------
(***************************************************************************)
(* Consent, end to end: the intent store, the Broker and the operator loop *)
(* (src/channels/telegram-loop.js) as src/boot.js puts them together.      *)
(*                                                                         *)
(* The loop handles one update at a time and awaits every message it       *)
(* sends, so it is the only caller of the Broker.  Beside it, and between  *)
(* its steps, intents are proposed and planned and decisions arrive        *)
(* through the Action API and the web UI.  A crash loses everything but    *)
(* the ledger, the live policy and what the chat shows; taps that were not *)
(* confirmed are delivered again.                                          *)
(***************************************************************************)
EXTENDS IntentStore, Broker

CONSTANTS
  Loop,       \* the loop, the one caller of authorize()
  Operator,   \* the one identity that decides, in every channel
  Phones,     \* the Telegram ids in the allowlist
  Door,       \* decisions also arrive through the Action API or the UI
  MaxLostRows \* bound: rows of the loop and the planner the ledger refused

ASSUME LoopAssumption ==
  /\ Callers = {Loop} /\ Serialised
  /\ Operator \in People
  /\ Door \in BOOLEAN /\ MaxLostRows \in Nat
  /\ SingleOperator = (Cardinality(Phones) <= 1)
  /\ Decisions = Decision

VARIABLES
  loop,     \* where the loop is in the update it handles
  shown,    \* what the chat shows for each action that was escalated
  halt,     \* the loop's halted, which nothing reads
  trail,    \* the ledger rows of decisions and of executions that threw
  minted,   \* history: every intent and action id that was ever given out
  asked,    \* the actions whose escalation was attempted
  settled,  \* history: how each action was settled, over all lives
  opened,   \* history: the actions whose delta was ever in the live policy
  tapped,   \* history: who tapped Approve for which action
  lostRows

loopVars == <<loop, shown, halt, trail, minted, asked, settled, opened, tapped,
              lostRows>>
allLoopVars == <<storeVars, allVars, loopVars>>

OutOfUpdate == [at |-> "idle", action |-> NoAction, verdict |-> "approve",
                ok |-> FALSE, final |-> FALSE, todo |-> {}]

LoopTypeOK ==
  /\ StoreTypeOK /\ BrokerTypeOK
  /\ loop.at \in {"idle", "acknowledging", "settling", "calling", "halting"}
  /\ loop.action \in Actions \cup {NoAction}
  /\ loop.verdict \in {"approve", "deny"}
  /\ loop.ok \in BOOLEAN /\ loop.final \in BOOLEAN
  /\ loop.todo \subseteq Actions
  /\ shown \in [Actions -> {"nothing", "buttons", "bare", "approved", "denied"}]
  /\ halt \in BOOLEAN
  /\ trail \subseteq Actions \X {"approved", "approved-partial", "denied", "refused",
                                 "execute-failed", "escalated", "escalation-failed"}
  /\ minted \subseteq Intents \cup Actions /\ asked \subseteq Actions
  /\ settled \in [Actions -> {"undecided", "approved", "denied"}]
  /\ opened \subseteq Actions
  /\ tapped \subseteq Phones \X Actions
  /\ lostRows \in 0..MaxLostRows

LoopInit ==
  /\ StoreInit /\ BrokerInit
  /\ loop = OutOfUpdate
  /\ shown = [a \in Actions |-> "nothing"]
  /\ halt = FALSE
  /\ trail = {} /\ minted = {} /\ asked = {} /\ opened = {} /\ tapped = {}
  /\ settled = [a \in Actions |-> "undecided"]
  /\ lostRows = 0

-----------------------------------------------------------------------------
(* A row, best effort: an append that throws is swallowed.                  *)
Write(row) ==
  \/ trail' = trail \cup {row} /\ UNCHANGED lostRows
  \/ /\ lostRows < MaxLostRows /\ lostRows' = lostRows + 1
     /\ UNCHANGED trail

(* A new intent; ids are random, so none comes back after a crash.          *)
ProposeIntent(i, p) ==
  /\ i \notin minted /\ p # Operator
  /\ Propose(i, p, NoKey)
  /\ minted' = minted \cup {i}
  /\ UNCHANGED <<allVars, loop, shown, halt, trail, asked, settled, opened,
                 tapped, lostRows>>

(* The planner, or the demo panel, puts an action up for consent.           *)
PlanAction(i, a) ==
  /\ a \notin minted /\ a \in Declared
  /\ AwaitConsent(i, a)
  /\ minted' = minted \cup {a}
  /\ UNCHANGED <<allVars, loop, shown, halt, trail, asked, settled, opened,
                 tapped, lostRows>>

(* escalateToOperator(): the message with the buttons arrives; or the send  *)
(* throws; or Telegram answers that it did not take it, which nothing looks *)
(* at.  The row about it is written if the ledger takes it, and there is no *)
(* second attempt.                                                          *)
Escalate(a) ==
  /\ a \in registered /\ KindOf(a) # "none" /\ a \notin asked
  /\ asked' = asked \cup {a}
  /\ \/ shown' = [shown EXCEPT ![a] = "buttons"] /\ Write(<<a, "escalated">>)
     \/ UNCHANGED shown /\ (Write(<<a, "escalated">>) \/ Write(<<a, "escalation-failed">>))
  /\ UNCHANGED <<storeVars, allVars, loop, halt, minted, settled, opened, tapped>>

(* Mutated: the verdict in place of the outcome.                            *)
SettlingVerdict(i, a) ==
  settled' = IF Settled(i, a)' /\ ~Settled(i, a)
             THEN [settled EXCEPT ![a] = IF Approved(i, a)' THEN "approve" ELSE "deny"]
             ELSE settled

(* decide() settled the action, or not.                                     *)
Settling(i, a) ==
  settled' = IF Settled(i, a)' /\ ~Settled(i, a)
             THEN [settled EXCEPT ![a] = IF Approved(i, a)' THEN "approved" ELSE "denied"]
             ELSE settled

(* Through the Action API or the UI: recorded, and nothing follows.         *)
DecideAtDoor(i, a) ==
  /\ Door
  /\ Approve(i, a, Operator) \/ Deny(i, a, Operator)
  /\ Settling(i, a)
  /\ UNCHANGED <<allVars, loop, shown, halt, trail, minted, asked, opened,
                 tapped, lostRows>>

-----------------------------------------------------------------------------
(* A tap arrives, on time or late, for the first time or again: decide(),   *)
(* and the answer to the tap is on its way.                                 *)
Tap(a, v, t) ==
  LET i == IntentOf[a]
      take == IF v = "approve" THEN Approve(i, a, Operator) ELSE Deny(i, a, Operator)
      may == IF v = "approve" THEN MayApprove(i, a, Operator) ELSE MayDecide(i, a, Operator)
  IN
  /\ loop.at = "idle" /\ shown[a] # "nothing"
  /\ \/ may /\ take /\ Settling(i, a)
     \/ ~may /\ UNCHANGED <<storeVars, settled>>
  /\ loop' = [OutOfUpdate EXCEPT !.at = "acknowledging", !.action = a, !.verdict = v,
                                 !.ok = may, !.final = may /\ Settled(i, a)']
  /\ tapped' = IF v = "approve" THEN tapped \cup {<<t, a>>} ELSE tapped
  /\ UNCHANGED <<allVars, shown, halt, trail, minted, asked, opened, lostRows>>

Acknowledged ==
  /\ loop.at = "acknowledging"
  /\ loop' = [loop EXCEPT !.at = "settling"]
  /\ UNCHANGED <<storeVars, allVars, shown, halt, trail, minted, asked, settled,
                 opened, tapped, lostRows>>

(* A message to Telegram fails: the update is given up where it is, and the *)
(* offset is past it already.                                               *)
SendFails ==
  /\ loop.at \in {"acknowledging", "settling"}
  /\ loop' = OutOfUpdate
  /\ \/ UNCHANGED shown
     \/ /\ loop.at = "settling"   \* the buttons went, the text did not
        /\ shown' = [shown EXCEPT ![loop.action] = IF @ = "buttons" THEN "bare" ELSE @]
  /\ UNCHANGED <<storeVars, allVars, halt, trail, minted, asked, settled, opened,
                 tapped, lostRows>>

(* Mutated: the row says what was tapped.                                   *)
DecisionRowTapped ==
  <<loop.action, IF loop.verdict = "approve" THEN "approved" ELSE "denied">>

DecisionRow ==
  <<loop.action, CASE ~loop.ok -> "refused"
                   [] loop.ok /\ loop.verdict = "deny" -> "denied"
                   [] loop.ok /\ loop.verdict = "approve" /\ ~loop.final -> "approved-partial"
                   [] OTHER -> "approved">>

(* The decision decide() returned to this update.                           *)
Returned(d) ==
  /\ d \in decisions /\ d.action = loop.action /\ d.verdict = loop.verdict
  /\ d.settled = loop.final /\ d.decidedBy = Operator

(* The chat shows the outcome, unless Telegram does not take the edit,     *)
(* which nothing looks at; the decision's row is written, if the ledger     *)
(* takes it; and an approval that settled goes to the Broker at once.  No   *)
(* action with buttons is a read or a contained write.                      *)
Shown ==
  /\ loop.at = "settling"
  /\ shown' \in {shown, [shown EXCEPT ![loop.action] =
                           IF loop.verdict = "approve" THEN "approved" ELSE "denied"]}
  /\ Write(DecisionRow)
  /\ IF loop.ok /\ loop.verdict = "approve" /\ loop.final /\ loop.action \in registered
     THEN \E d \in Decision, expired \in BOOLEAN :
            /\ Returned(d)
            /\ \/ Refuse(Loop, loop.action)
               \/ RefuseUnlogged(Loop, loop.action)
               \/ AdmitOnly(Loop, loop.action, d, expired)
               \/ AdmitConsequential(Loop, loop.action, d, expired)
     ELSE UNCHANGED allVars
  /\ loop' = IF call'[Loop].stage # "none" THEN [loop EXCEPT !.at = "calling"]
             ELSE OutOfUpdate
  /\ UNCHANGED <<storeVars, halt, minted, asked, settled, opened, tapped>>

(* The Broker's call goes on; when it throws, onApproved() writes a row if  *)
(* the ledger takes it, and the loop is ready for the next update.          *)
Throws ==
  \/ Stage(Loop, "applying") /\ At(Loop, "failed")
  \/ Stage(Loop, "reverting") /\ (At(Loop, "failed") \/ call[Loop].threw)

Call ==
  /\ loop.at = "calling"
  /\ Port(Loop) \/ Continue(Loop)
  /\ opened' = opened \cup doc'
  /\ loop' = IF call'[Loop].stage = "none" THEN OutOfUpdate ELSE loop
  /\ IF call'[Loop].stage = "none" /\ Throws THEN Write(<<loop.action, "execute-failed">>)
     ELSE UNCHANGED <<trail, lostRows>>
  /\ UNCHANGED <<storeVars, shown, halt, minted, asked, settled, tapped>>

-----------------------------------------------------------------------------
(* HALT: revertAll() closes what the map holds, one after the other, and    *)
(* stops at the first that fails.                                           *)
Halt ==
  /\ loop.at = "idle"
  /\ halt' = TRUE
  /\ loop' = [OutOfUpdate EXCEPT !.at = "halting", !.todo = open]
  /\ UNCHANGED <<storeVars, allVars, shown, trail, minted, asked, settled, opened,
                 tapped, lostRows>>

(* Mutated: a revert that failed is passed over; or is tried again.         *)
HaltStepSkips ==
  /\ loop.at = "halting"
  /\ \/ \E a \in loop.todo : At(Loop, "idle") /\ EnterRevert(Loop, a) /\ UNCHANGED loop
     \/ /\ At(Loop, "done") \/ At(Loop, "failed")
        /\ port' = [port EXCEPT ![Loop] = Idle]
        /\ loop' = [loop EXCEPT !.todo = @ \ {port[Loop].action}]
  /\ UNCHANGED <<storeVars, brokerVars, doc, open, lateSets, shown, halt,
                 trail, minted, asked, settled, opened, tapped, lostRows>>

HaltStepRetries ==
  /\ loop.at = "halting"
  /\ \/ \E a \in loop.todo : At(Loop, "idle") /\ EnterRevert(Loop, a) /\ UNCHANGED loop
     \/ /\ At(Loop, "done")
        /\ port' = [port EXCEPT ![Loop] = Idle]
        /\ loop' = [loop EXCEPT !.todo = @ \ {port[Loop].action}]
     \/ /\ At(Loop, "failed")
        /\ port' = [port EXCEPT ![Loop] = Idle] /\ UNCHANGED loop
  /\ UNCHANGED <<storeVars, brokerVars, doc, open, lateSets, shown, halt,
                 trail, minted, asked, settled, opened, tapped, lostRows>>

HaltStep ==
  /\ loop.at = "halting"
  /\ \/ \E a \in loop.todo : At(Loop, "idle") /\ EnterRevert(Loop, a) /\ UNCHANGED loop
     \/ /\ At(Loop, "done")
        /\ port' = [port EXCEPT ![Loop] = Idle]
        /\ loop' = [loop EXCEPT !.todo = @ \ {port[Loop].action}]
     \/ /\ At(Loop, "failed")
        /\ port' = [port EXCEPT ![Loop] = Idle]
        /\ loop' = OutOfUpdate
  /\ UNCHANGED <<storeVars, brokerVars, doc, open, lateSets, shown, halt,
                 trail, minted, asked, settled, opened,
                 tapped, lostRows>>

HaltCommand ==
  /\ loop.at = "halting" /\ PolicyStep(Loop)
  /\ UNCHANGED <<storeVars, brokerVars, loopVars>>

(* The reply says Halted.                                                   *)
HaltDone ==
  /\ loop.at = "halting" /\ At(Loop, "idle") /\ loop.todo = {}
  /\ loop' = OutOfUpdate
  /\ UNCHANGED <<storeVars, allVars, shown, halt, trail, minted, asked, settled,
                 opened, tapped, lostRows>>

Resume ==
  /\ loop.at = "idle" /\ halt /\ halt' = FALSE
  /\ UNCHANGED <<storeVars, allVars, loop, shown, trail, minted, asked, settled,
                 opened, tapped, lostRows>>

LoopCrash ==
  /\ Crash
  /\ loop' = OutOfUpdate /\ halt' = FALSE
  /\ opened' = opened \cup doc'
  /\ state' = [i \in Intents |-> "absent"]
  /\ proposedBy' = [i \in Intents |-> NoOne]
  /\ byIdemKey' = [k \in IdemKeys |-> NoOne]
  /\ registered' = {} /\ finalActions' = {} /\ decisions' = {}
  /\ approversByAction' = [k \in Key |-> {}]
  /\ updates' = [i \in Intents |-> 0]
  /\ UNCHANGED <<shown, trail, minted, asked, settled, tapped, lostRows>>

Work == Acknowledged \/ Shown \/ Call \/ HaltStep \/ HaltCommand \/ HaltDone

LoopNext ==
  \/ \E i \in Intents, p \in People : ProposeIntent(i, p)
  \/ \E i \in Intents, a \in Actions : PlanAction(i, a) \/ DecideAtDoor(i, a)
  \/ \E a \in Actions : Escalate(a)
  \/ \E a \in Actions, v \in {"approve", "deny"}, t \in Phones : Tap(a, v, t)
  \/ Halt \/ Resume \/ SendFails \/ Work \/ LoopCrash

LoopSpec == LoopInit /\ [][LoopNext]_allLoopVars

(* Telegram, the sandbox's commands and the service answer in the end.      *)
FairLoopSpec == LoopSpec /\ WF_allLoopVars(Work)

-----------------------------------------------------------------------------
(* The whole keeps the promise of ConsentGate for the gated actions: what   *)
(* was decided is never decided otherwise, the write method is in the live  *)
(* policy during one window after the approval, and the action runs at most *)
(* once and inside it, through redelivered taps, crashes and late writes.   *)
Ran(a) == \E k \in DOMAIN runs : runs[k].action = a

(* An id nothing ever registers is decided about and never acted on: it     *)
(* stands for any number of ids, and is not one gated action.               *)
Gated == {a \in Actions \ Unminted : KindOf(a) # "none"}

Gate == INSTANCE ConsentGate WITH
  Gated <- Gated,
  outcome <- [a \in Gated |-> settled[a]],
  window <- [a \in Gated |->
               IF a \in doc THEN "open" ELSE IF a \in opened THEN "shut" ELSE "absent"],
  ran <- [a \in Gated |-> Ran(a)]

KeepsTheGate == Gate!GateSpec

(* What reached the service had the consent its kind asks for: of two       *)
(* different people for a two-person action, in this very process.          *)
RunsHadQuorum ==
  crashes = 0 =>
    \A k \in DOMAIN runs :
      LET a == runs[k].action IN
      KindOf(a) # "none" =>
        /\ Approved(IntentOf[a], a)
        /\ Cardinality(Backers(IntentOf[a], a)) >= quorumFor(KindOf(a))

(* A row that says approved or denied is about an action that was settled   *)
(* that way, in this life of the process or an earlier one, and one that    *)
(* says an execution failed is about an action that was approved.           *)
TrailIsTrue ==
  \A a \in Actions :
    /\ <<a, "approved">> \in trail => settled[a] = "approved"
    /\ <<a, "denied">> \in trail => settled[a] = "denied"
    /\ <<a, "execute-failed">> \in trail => settled[a] = "approved"

(* When HALT has answered, no capability is left in the live policy, those  *)
(* whose revert had failed before included.                                 *)
HaltCloses == [][HaltDone /\ Undisturbed => doc = {}]_allLoopVars

(* The loop gets back to the next update, whatever the sandbox answers.     *)
LoopReturns == loop.at # "idle" ~> loop.at = "idle"

(* ARCHITECTURE.md:225: the trail records the whole arc of a gated action.  *)
(* An approved action is at least admitted.                                 *)
ApprovedIsAdmitted ==
  \A a \in Actions :
    settled[a] = "approved" ~> \E k \in DOMAIN rows : rows[k].action = a

(* ARCHITECTURE.md:236-238: a two-person action executes when a second,     *)
(* distinct operator settles it.  When two operators have tapped Approve    *)
(* and the loop is through with both, the action is settled.                *)
SecondOperatorSettles ==
  loop.at = "idle" =>
    \A a \in Actions :
      Cardinality({t \in Phones : <<t, a>> \in tapped}) >= 2 => settled[a] # "undecided"

(* OMODA-PRD.md:256: after HALT no new action is admitted before RESUME.    *)
HaltAdmitsNothing ==
  [][halt /\ halt' => ~\E k \in DOMAIN rows' \ DOMAIN rows : rows'[k].outcome = "admitted"
    ]_allLoopVars
=============================================================================
