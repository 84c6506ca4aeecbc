----------------------------- MODULE LoopProofs -----------------------------
(***************************************************************************)
(* Consent end to end, for every set of intents, actions and people, every *)
(* policy, and however many taps, crashes, failed commands and late writes: *)
(* the operator loop over the intent store and the Broker keeps the promise *)
(* of ConsentGate, runs nothing without its quorum or outside its window,   *)
(* leaves no capability behind unnoticed, and keeps a true trail.           *)
(*                                                                         *)
(* LoopInv is the inductive invariant.  Its parts say which phase of the    *)
(* loop goes with which state of the Broker's call and of the policy port,  *)
(* what of the record survives a crash, and why an action that is about to  *)
(* be opened was never open before: its approval is the one this update     *)
(* settled.                                                                 *)
(***************************************************************************)
EXTENDS OperatorLoop, IntentStoreProofs, BrokerProofs

P == port[Loop]
C == call[Loop]

LoopType == [at : {"idle", "acknowledging", "settling", "calling", "halting"},
             action : Actions \cup {NoAction}, verdict : {"approve", "deny"},
             ok : BOOLEAN, final : BOOLEAN, todo : SUBSET Actions]

Typed == LoopTypeOK /\ loop \in LoopType

(* Which state of the call and of the port goes with which phase.           *)
Closing == {"revert-read", "revert-set", "verify", "done", "failed"}

Phases ==
  /\ loop.at = "calling" <=> InCall(Loop)
  /\ loop.at \in {"idle", "acknowledging", "settling"} => P.at = "idle"
  /\ loop.at = "halting" => P.at \in Closing \cup {"idle"}
  /\ InCall(Loop) => C.action = loop.action /\ TierOf(C.action) = "consequential"
  /\ Stage(Loop, "applying") => P.at \in {"apply-read", "apply-set", "done", "failed"}
  /\ Stage(Loop, "reverting") => P.at \in Closing
  /\ Stage(Loop, "applying") \/ Stage(Loop, "reverting") => P.action = C.action
  /\ \A s \in {"calling", "answered", "failing"} : Stage(Loop, s) => P.at = "idle"
  /\ P.at \in {"apply-set", "revert-set"} => P.copy = doc

(* What settled says is what the store holds, as long as the store lives;   *)
(* no id is given out twice, and none that nothing registers is shown.      *)
Consent ==
  /\ registered \subseteq minted \ Unminted
  /\ \A a \in registered :
       /\ settled[a] = "undecided" <=> ~Settled(IntentOf[a], a)
       /\ settled[a] = "approved" <=> Approved(IntentOf[a], a)
  /\ \A a \in Actions \ Unminted :
       settled[a] # "undecided" => a \in minted /\ (crashes = 0 => a \in registered)
  /\ \A a \in Actions : shown[a] # "nothing" => a \notin Unminted

(* What the update in hand rests on.                                        *)
Answering == loop.at \in {"acknowledging", "settling"}
InHand ==
  /\ Answering \/ InCall(Loop) => loop.action \in Actions \ Unminted
  /\ loop.final => loop.ok
  /\ loop.at = "halting" => ~loop.ok
  /\ loop.ok /\ loop.verdict = "deny" => loop.final
  /\ Answering /\ loop.ok /\ loop.final =>
       settled[loop.action] = IF loop.verdict = "approve" THEN "approved" ELSE "denied"
  /\ InCall(Loop) => settled[C.action] = "approved"
  /\ \A row \in trail : row[1] \notin Unminted

(* An action's window opens once, on an approval, and it runs inside it.    *)
Unused(a) == a \notin opened /\ ~Ran(a)

Once ==
  /\ doc \subseteq opened
  /\ \A a \in Actions :
       a \in opened \/ Ran(a) => settled[a] = "approved" /\ a \notin Unminted
  /\ Answering /\ loop.final /\ loop.verdict = "approve" => Unused(loop.action)
  /\ Stage(Loop, "applying") /\ P.at \in {"apply-read", "apply-set"} => Unused(C.action)
  /\ \/ Stage(Loop, "applying") /\ P.at = "done"
     \/ Stage(Loop, "calling")
     => C.action \in doc /\ ~Ran(C.action)

(* Nobody is left behind while no write comes late and no process dies.     *)
Tidy ==
  Undisturbed =>
    /\ open = doc
    /\ \A a \in doc : a \in halted \/ (InCall(Loop) /\ C.action = a)
    /\ Stage(Loop, "applying") /\ P.at = "failed" => C.action \notin doc
    /\ Stage(Loop, "reverting") \/ loop.at = "halting" =>
         (P.at \in {"verify", "done"} => P.action \notin doc)
    /\ loop.at = "halting" => doc \subseteq loop.todo

LoopInv ==
  /\ Typed /\ StoreIInv /\ BrokerIInv
  /\ Phases /\ Consent /\ InHand /\ Once /\ Tidy /\ TrailIsTrue

-----------------------------------------------------------------------------
USE ActionAssumption, StoreAssumption, PolicyAssumption, BrokerAssumption, LoopAssumption

LEMMA PortTyped ==
  ASSUME Typed
  PROVE  /\ P \in [at : STEP, action : Actions \cup {NoAction}, copy : SUBSET Actions]
         /\ doc \subseteq Actions /\ open \subseteq Actions /\ lateSets \in Nat
  BY DEF Typed, LoopTypeOK, BrokerTypeOK, PolicyTypeOK, P

(* One step of the port: where it goes and what becomes of the live policy. *)
Opens == doc' = doc \cup {P.action} /\ P.at = "apply-set"
Closes == doc' = doc \ {P.action} /\ P.at = "revert-set"
Stays == UNCHANGED <<doc, open, lateSets>>

PortMoves ==
  /\ P'.action = P.action
  /\ \/ /\ Stays
        /\ \/ P.at = "apply-read" /\ P'.at = "apply-set" /\ P'.copy = doc
           \/ P.at = "revert-read" /\ P'.at = "revert-set" /\ P'.copy = doc
           \/ P.at = "verify" /\ P'.at = "done"
           \/ Working(Loop) /\ P'.at = "failed"
     \/ Opens /\ open' = open \cup {P.action} /\ P'.at = "done" /\ UNCHANGED lateSets
     \/ Closes /\ open' = open \ {P.action} /\ P'.at = "verify" /\ UNCHANGED lateSets
     \/ (Opens \/ Closes) /\ UNCHANGED open /\ P'.at = "failed" /\ lateSets' # 0

LEMMA PolicyStepMoves ==
  ASSUME Typed, Phases, PolicyStep(Loop)
  PROVE  PortMoves
<1> DEFINE PortRec == [at : STEP, action : Actions \cup {NoAction}, copy : SUBSET Actions]
<1>1. P \in PortRec /\ port \in [Callers -> PortRec] /\ Loop \in Callers /\ lateSets \in Nat
  BY PortTyped DEF Typed, LoopTypeOK, BrokerTypeOK, PolicyTypeOK
<1>2. ASSUME NEW s, NEW w, port' = [port EXCEPT ![Loop] = [@ EXCEPT !.at = s, !.copy = w]]
      PROVE  P'.at = s /\ P'.copy = w /\ P'.action = P.action
  BY <1>1, <1>2 DEF P
<1>3. ASSUME NEW s, Finish(Loop, s) PROVE P'.at = s /\ P'.action = P.action
  BY <1>2, <1>3 DEF Finish
<1>4. P.at \in {"apply-set", "revert-set"} => P.copy = doc
  BY DEF Phases
<1>5. Working(Loop) <=> P.at \notin {"idle", "done", "failed"}
  BY DEF Working, At, P
<1>6. CASE Read(Loop)
  BY <1>2, <1>3, <1>5, <1>6 DEF Read, At, P, PortMoves, Stays
<1>7. CASE SetApply(Loop)
  BY <1>3, <1>4, <1>7 DEF SetApply, Edited, At, P, PortMoves, Opens
<1>8. CASE SetRevert(Loop)
  BY <1>3, <1>4, <1>8 DEF SetRevert, Edited, At, P, PortMoves, Closes
<1>9. CASE Verify(Loop)
  BY <1>3, <1>5, <1>9 DEF Verify, At, P, PortMoves, Stays
<1>10. CASE CommandFails(Loop)
  BY <1>3, <1>10 DEF CommandFails, PortMoves, Stays
<1>11. CASE SetLate(Loop)
  <2>1. lateSets' # 0
    BY <1>1, <1>11 DEF SetLate
  <2>2. QED BY <1>3, <1>4, <1>11, <2>1 DEF SetLate, Edited, At, P, PortMoves, Opens, Closes
<1>12. QED BY <1>6, <1>7, <1>8, <1>9, <1>10, <1>11 DEF PolicyStep

(* One step of the call between two awaits.                                 *)
Ended == C'.stage = "none" /\ P'.at = "idle"
SameCall == C'.action = C.action

CallMoves ==
  \/ /\ Stage(Loop, "applying") /\ P.at = "done" /\ UNCHANGED <<runs, halted>>
     /\ C'.stage = "calling" /\ SameCall /\ P'.at = "idle"
  \/ Stage(Loop, "applying") /\ P.at = "failed" /\ Ended /\ UNCHANGED <<runs, halted>>
  \/ /\ Stage(Loop, "calling") /\ C'.stage = "answered" /\ SameCall
     /\ runs' = Append(runs, [action |-> C.action, decision |-> C.decision, of |-> C.seq])
     /\ UNCHANGED <<halted, port>>
  \/ /\ Stage(Loop, "calling") \/ Stage(Loop, "answered")
     /\ C'.stage \in {"answered", "failing"} /\ SameCall /\ UNCHANGED <<runs, halted, port>>
  \/ /\ Stage(Loop, "answered") \/ Stage(Loop, "failing")
     /\ C'.stage = "reverting" /\ SameCall /\ UNCHANGED <<runs, halted>>
     /\ P'.action = C.action
     /\ P'.at = IF C.action \in open THEN "revert-read" ELSE "done"
  \/ Stage(Loop, "reverting") /\ P.at = "done" /\ Ended /\ UNCHANGED <<runs, halted>>
  \/ /\ Stage(Loop, "reverting") /\ P.at = "failed" /\ Ended /\ UNCHANGED runs
     /\ halted' = halted \cup {C.action}

LEMMA ContinueMoves ==
  ASSUME Typed, BrokerIInv, Phases, InCall(Loop), Continue(Loop)
  PROVE  CallMoves /\ Stays /\ UNCHANGED crashes
<1>1. call \in [Callers -> CallType] /\ C \in CallType /\ Loop \in Callers
  BY DEF BrokerIInv, BrokerTyped, CallsTyped, C
<1>2. port \in [Callers -> [at : STEP, action : Actions \cup {NoAction}, copy : SUBSET Actions]]
  BY DEF Typed, LoopTypeOK, BrokerTypeOK, PolicyTypeOK
<1>3. ASSUME NEW s, Move(Loop, s) PROVE C'.stage = s /\ SameCall
  BY <1>1, <1>3 DEF Move, C, SameCall, CallType
<1>4. Return(Loop) => C'.stage = "none"
  BY <1>1, NoCallType DEF Return, C
<1>5. port' = [port EXCEPT ![Loop] = Idle] => P'.at = "idle"
  BY <1>2 DEF P, Idle
<1>6. ASSUME NEW t, Leave(Loop, t)
      PROVE  /\ C'.stage = "reverting" /\ SameCall /\ P'.action = C.action
             /\ P'.at = IF C.action \in open THEN "revert-read" ELSE "done"
  <2>1. Windowed(Loop)
    BY DEF Windowed, Phases, C
  <2>2. call' = [call EXCEPT ![Loop] = [@ EXCEPT !.stage = "reverting", !.threw = t]]
        /\ EnterRevert(Loop, C.action)
    BY <1>6, <2>1 DEF Leave, C
  <2>3. C'.stage = "reverting" /\ SameCall
    BY <1>1, <2>2 DEF C, SameCall, CallType
  <2>4. P'.action = C.action /\ P'.at = IF C.action \in open THEN "revert-read" ELSE "done"
    BY <1>2, <2>2 DEF EnterRevert, P
  <2>5. QED BY <2>3, <2>4
<1>7. CASE Applied(Loop)
  BY <1>3, <1>4, <1>5, <1>7 DEF Applied, CallMoves, At, P, Ended, Stays
<1>8. CASE Serve(Loop)
  BY <1>3, <1>8 DEF Serve, CallMoves, C, Stays, policyVars
<1>9. CASE Decline(Loop) \/ ExecuteThrows(Loop)
  BY <1>3, <1>9 DEF Decline, ExecuteThrows, CallMoves, Stays, policyVars
<1>10. CASE Executed(Loop) \/ ExecuteFailed(Loop)
  BY <1>6, <1>10 DEF Executed, ExecuteFailed, CallMoves, Stays
<1>11. CASE Reverted(Loop)
  BY <1>4, <1>5, <1>11 DEF Reverted, CallMoves, At, P, Ended, Stays
<1>12. CASE RevertFailed(Loop)
  BY <1>4, <1>5, <1>12 DEF RevertFailed, CallMoves, At, P, C, Ended, Stays
<1>13. QED BY <1>7, <1>8, <1>9, <1>10, <1>11, <1>12 DEF Continue

-----------------------------------------------------------------------------
(* What a decision does to the record of an action that can be registered:  *)
(* the action was undecided, and settled follows what the store says of it. *)
Decides(i, a) == (Approve(i, a, Operator) \/ Deny(i, a, Operator)) /\ Settling(i, a)

(* A settled action stays as it is.                                         *)
SettledStays ==
  \A a \in Actions \ Unminted : settled[a] # "undecided" => settled'[a] = settled[a]

LEMMA DecisionAdded ==
  ASSUME StoreIInv, NEW i \in Intents, NEW a \in Actions,
         Approve(i, a, Operator) \/ Deny(i, a, Operator)
  PROVE  \E n \in Decision :
           /\ decisions' = decisions \cup {n} /\ n.intent = i /\ n.action = a
           /\ UNCHANGED registered /\ ~Settled(i, a)
           /\ Knows(i, a) \/ a \in Unminted
           /\ n.verdict = "deny" <=> Deny(i, a, Operator)
           /\ n.verdict = "deny" => n.settled
<1>1. CASE Deny(i, a, Operator)
  <2> DEFINE n == mkDecision(i, a, "deny", Operator, TRUE)
  <2>1. MayDecide(i, a, Operator)
    BY <1>1 DEF Deny
  <2>2. n \in Decision
    BY <2>1 DEF StoreIInv, StoreTypeOK, MayDecide, mkDecision, Decision, Exists
  <2>3. n.intent = i /\ n.action = a /\ n.verdict = "deny" /\ n.settled
    BY DEF mkDecision
  <2>4. decisions' = decisions \cup {n} /\ UNCHANGED registered
    BY <1>1, Zenon DEF Deny
  <2>5. ~Settled(i, a) /\ (Knows(i, a) \/ a \in Unminted)
    BY <2>1 DEF MayDecide, StoreIInv, FinalIsSettled
  <2> HIDE DEF n
  <2>6. QED BY <1>1, <2>2, <2>3, <2>4, <2>5
<1>2. CASE Approve(i, a, Operator) /\ ~Deny(i, a, Operator)
  <2> DEFINE n == mkDecision(i, a, "approve", Operator, Settles(i, a, Operator))
  <2>1. MayDecide(i, a, Operator)
    BY <1>2 DEF Approve, MayApprove
  <2>2. n \in Decision
    BY <2>1 DEF StoreIInv, StoreTypeOK, MayDecide, mkDecision, Decision, Exists, Settles
  <2>3. n.intent = i /\ n.action = a /\ n.verdict = "approve"
    BY DEF mkDecision
  <2>4. decisions' = decisions \cup {n} /\ UNCHANGED registered
    BY <1>2, Zenon DEF Approve
  <2>5. ~Settled(i, a) /\ (Knows(i, a) \/ a \in Unminted)
    BY <2>1 DEF MayDecide, StoreIInv, FinalIsSettled
  <2> HIDE DEF n
  <2>6. QED BY <1>2, <2>2, <2>3, <2>4, <2>5
<1>3. QED BY <1>1, <1>2

LEMMA DecisionKeepsConsent ==
  ASSUME Typed, StoreIInv, Consent, NEW i \in Intents, NEW a \in Actions,
         Decides(i, a), UNCHANGED <<minted, shown, crashes>>
  PROVE  /\ Consent' /\ SettledStays
         /\ \A b \in Actions : b # a => settled'[b] = settled[b]
         /\ a \notin Unminted =>
              /\ settled[a] = "undecided"
              /\ settled'[a] = IF ~Settled(i, a)' THEN "undecided"
                               ELSE IF Approved(i, a)' THEN "approved" ELSE "denied"
<1>1. PICK n \in Decision :
        /\ decisions' = decisions \cup {n} /\ n.intent = i /\ n.action = a
        /\ UNCHANGED registered /\ ~Settled(i, a)
        /\ Knows(i, a) \/ a \in Unminted
  BY DecisionAdded DEF Decides
<1>2. settled \in [Actions -> {"undecided", "approved", "denied"}]
  BY DEF Typed, LoopTypeOK
<1>3. settled' = IF Settled(i, a)'
                 THEN [settled EXCEPT ![a] = IF Approved(i, a)' THEN "approved" ELSE "denied"]
                 ELSE settled
  BY <1>1 DEF Decides, Settling
<1>4. \A b \in Actions : b # a => settled'[b] = settled[b]
  BY <1>2, <1>3
<1>5. a \notin Unminted => a \in registered /\ IntentOf[a] = i /\ settled[a] = "undecided"
  BY <1>1 DEF Knows, Consent
<1>6. settled'[a] = IF ~Settled(i, a)' THEN settled[a]
                    ELSE IF Approved(i, a)' THEN "approved" ELSE "denied"
  BY <1>2, <1>3
<1>7. SettledStays
  BY <1>4, <1>5 DEF SettledStays
<1>8. ASSUME NEW b \in registered
      PROVE  /\ settled'[b] = "undecided" <=> ~Settled(IntentOf[b], b)'
             /\ settled'[b] = "approved" <=> Approved(IntentOf[b], b)'
  <2>1. b \in Actions \ Unminted /\ IntentOf[b] \in Intents
    BY DEF Consent, Typed, LoopTypeOK, StoreTypeOK
  <2>2. CASE b # a
    <3>1. /\ Settled(IntentOf[b], b)' <=> Settled(IntentOf[b], b)
          /\ Approved(IntentOf[b], b)' <=> Approved(IntentOf[b], b)
      BY <1>1, <2>1, <2>2, AddDecision
    <3>2. QED BY <1>4, <2>1, <2>2, <3>1 DEF Consent
  <2>3. CASE b = a
    <3>1. Approved(i, a)' => Settled(i, a)'
      BY DEF Approved, Settled
    <3>2. QED BY <1>5, <1>6, <2>1, <2>3, <3>1
  <2>4. QED BY <2>2, <2>3
<1>9. Consent'
  BY <1>1, <1>4, <1>5, <1>8 DEF Consent
<1>10. QED BY <1>4, <1>5, <1>6, <1>7, <1>9

LEMMA ConsentSame ==
  ASSUME Consent, UNCHANGED <<decisions, registered, minted, settled, crashes>>,
         \A a \in Actions : shown'[a] # "nothing" => a \notin Unminted
  PROVE  Consent' /\ SettledStays
  BY SameRecord DEF Consent, SettledStays, Settled, Approved, DecisionsOn

(* A new id has no decision, and was never settled.                         *)
LEMMA PlanKeepsConsent ==
  ASSUME StoreIInv, Consent, NEW i \in Intents, NEW a \in Actions, PlanAction(i, a)
  PROVE  Consent' /\ SettledStays
<1>1. /\ a \notin minted /\ a \notin Unminted /\ a \notin registered
      /\ registered' = registered \cup {a} /\ minted' = minted \cup {a}
      /\ UNCHANGED <<decisions, settled, shown>>
  BY DEF PlanAction, AwaitConsent
<1>2. UNCHANGED crashes
  BY DEF PlanAction, allVars, brokerVars
<1>3. ~Settled(IntentOf[a], a) /\ ~Approved(IntentOf[a], a) /\ settled[a] = "undecided"
  BY <1>1 DEF StoreIInv, DecisionsWellPlaced, Knows, Settled, Approved, DecisionsOn, Consent
<1>4. \A b \in registered' :
        /\ settled[b] = "undecided" <=> ~Settled(IntentOf[b], b)
        /\ settled[b] = "approved" <=> Approved(IntentOf[b], b)
  BY <1>1, <1>3 DEF Consent
<1>5. QED BY <1>1, <1>2, <1>4 DEF Consent, SettledStays, Settled, Approved, DecisionsOn

-----------------------------------------------------------------------------
(* The store and the Broker within the loop take the steps they take on     *)
(* their own, so their invariants hold.                                     *)
LEMMA BrokerSame ==
  ASSUME UNCHANGED allVars
  PROVE  /\ UNCHANGED <<call, rows, runs, undoable, halted, calls, logErrors, crashes>>
         /\ UNCHANGED <<doc, open, port, lateSets>>
  BY DEF allVars, brokerVars, policyVars

LEMMA BrokerKept == ASSUME BrokerIInv, UNCHANGED allVars PROVE BrokerIInv'
  BY BrokerStepIInv

LEMMA StoreKept == ASSUME StoreIInv, UNCHANGED storeVars PROVE StoreIInv'
  BY StoreStepIInv

LEMMA DecidesKeepsStore ==
  ASSUME StoreIInv, NEW i \in Intents, NEW a \in Actions,
         Approve(i, a, Operator) \/ Deny(i, a, Operator)
  PROVE  StoreIInv'
  BY StoreStepIInv DEF StoreNext

LEMMA TypedFrom ==
  ASSUME Typed, StoreIInv', BrokerIInv', loop' \in LoopType,
         shown' \in [Actions -> {"nothing", "buttons", "bare", "approved", "denied"}],
         halt' \in BOOLEAN,
         trail' \subseteq Actions \X {"approved", "approved-partial", "denied", "refused",
                                   "execute-failed", "escalated", "escalation-failed"},
         minted' \subseteq Intents \cup Actions, asked' \subseteq Actions,
         settled' \in [Actions -> {"undecided", "approved", "denied"}],
         opened' \subseteq Actions, tapped' \subseteq Phones \X Actions,
         lostRows' \in 0..MaxLostRows
  PROVE  Typed'
  BY DEF Typed, LoopTypeOK, LoopType, StoreIInv, BrokerIInv, BrokerTyped

LEMMA SettlingTyped ==
  ASSUME Typed, NEW i \in Intents, NEW a \in Actions, Settling(i, a)
  PROVE  settled' \in [Actions -> {"undecided", "approved", "denied"}]
  BY DEF Typed, LoopTypeOK, Settling

(* A row may be written or lost.                                            *)
LEMMA WriteTyped ==
  ASSUME Typed, NEW row, Write(row),
         row \in Actions \X {"approved", "approved-partial", "denied", "refused",
                             "execute-failed", "escalated", "escalation-failed"}
  PROVE  /\ trail' \subseteq Actions \X {"approved", "approved-partial", "denied", "refused",
                                   "execute-failed", "escalated", "escalation-failed"}
         /\ lostRows' \in 0..MaxLostRows
         /\ trail' \subseteq trail \cup {row}
  BY DEF Typed, LoopTypeOK, Write

(* A step beside the loop: neither it nor the Broker moves.                 *)
LEMMA BesideKeeps ==
  ASSUME Typed, Phases, InHand, Once, Tidy, TrailIsTrue, SettledStays,
         UNCHANGED <<allVars, loop, opened>>,
         \A row \in trail' : \/ row \in trail
                             \/ row[1] \notin Unminted
                                /\ row[2] \in {"escalated", "escalation-failed"}
  PROVE  Phases' /\ InHand' /\ Once' /\ Tidy' /\ TrailIsTrue'
<1>1. /\ UNCHANGED <<call, runs, halted, crashes, doc, open, port, lateSets, loop, opened>>
      /\ C' = C /\ P' = P /\ \A a : Ran(a)' = Ran(a)
  BY BrokerSame DEF C, P, Ran
<1>2. Phases'
  BY <1>1 DEF Phases, InCall, Stage
<1>3. Tidy'
  BY <1>1 DEF Tidy, Undisturbed, InCall, Stage
<1>4. InHand'
  BY <1>1 DEF InHand, SettledStays, Answering, InCall, Phases
<1>5. Once'
  BY <1>1 DEF Once, SettledStays, Answering, Stage, Unused
<1>6. TrailIsTrue'
  <2>1. \A a, o : <<a, o>> \in trail /\ a \in Actions => a \in Actions \ Unminted
    BY DEF InHand
  <2>2. \A a, o : <<a, o>> \in trail' =>
          <<a, o>> \in trail \/ o \in {"escalated", "escalation-failed"}
    OBVIOUS
  <2>3. ASSUME NEW a \in Actions, NEW o \in {"approved", "denied", "execute-failed"},
               <<a, o>> \in trail'
        PROVE  <<a, o>> \in trail /\ (settled[a] # "undecided" => settled'[a] = settled[a])
    <3>1. <<a, o>> \in trail
      BY <2>2, <2>3
    <3>2. a \in Actions \ Unminted
      BY <2>1, <3>1
    <3>3. QED BY <3>1, <3>2 DEF SettledStays
  <2>4. QED BY <2>3 DEF TrailIsTrue
<1>7. QED BY <1>2, <1>3, <1>4, <1>5, <1>6

LEMMA ProposeIntentKeeps ==
  ASSUME LoopInv, NEW i \in Intents, NEW p \in People, ProposeIntent(i, p)
  PROVE  LoopInv'
<1>1. Propose(i, p, NoKey) /\ minted' = minted \cup {i}
      /\ UNCHANGED <<allVars, loop, shown, halt, trail, asked, settled, opened, tapped, lostRows>>
  BY DEF ProposeIntent
<1>2. StoreIInv'
  BY <1>1, StoreStepIInv DEF LoopInv, StoreNext
<1>3. BrokerIInv'
  BY <1>1, BrokerKept DEF LoopInv
<1>4. Typed'
  BY <1>1, <1>2, <1>3, TypedFrom DEF LoopInv, Typed, LoopTypeOK
<1>5. Consent' /\ SettledStays
  BY <1>1, BrokerSame
     DEF LoopInv, Consent, SettledStays, Propose, Settled, Approved, DecisionsOn
<1>6. QED BY <1>1, <1>2, <1>3, <1>4, <1>5, BesideKeeps DEF LoopInv

LEMMA PlanActionKeeps ==
  ASSUME LoopInv, NEW i \in Intents, NEW a \in Actions, PlanAction(i, a)
  PROVE  LoopInv'
<1>1. AwaitConsent(i, a) /\ minted' = minted \cup {a}
      /\ UNCHANGED <<allVars, loop, shown, halt, trail, asked, settled, opened, tapped, lostRows>>
  BY DEF PlanAction
<1>2. StoreIInv'
  <2>1. StoreNext
    <3>1. Operator \in People
      OBVIOUS
    <3>2. QED BY <1>1, <3>1 DEF StoreNext
  <2>2. QED BY <2>1, StoreStepIInv DEF LoopInv
<1>3. BrokerIInv'
  BY <1>1, BrokerKept DEF LoopInv
<1>4. Typed'
  BY <1>1, <1>2, <1>3, TypedFrom DEF LoopInv, Typed, LoopTypeOK
<1>5. Consent' /\ SettledStays
  BY PlanKeepsConsent DEF LoopInv
<1>6. QED BY <1>1, <1>2, <1>3, <1>4, <1>5, BesideKeeps DEF LoopInv

LEMMA EscalateKeeps == ASSUME LoopInv, NEW a \in Actions, Escalate(a) PROVE LoopInv'
<1>1. /\ a \in registered /\ asked' = asked \cup {a}
      /\ UNCHANGED <<storeVars, allVars, loop, halt, minted, settled, opened, tapped>>
      /\ shown' = shown \/ shown' = [shown EXCEPT ![a] = "buttons"]
  BY DEF Escalate
<1>2. StoreIInv' /\ BrokerIInv'
  BY <1>1, BrokerKept, StoreKept DEF LoopInv
<1>3. PICK o \in {"escalated", "escalation-failed"} : Write(<<a, o>>)
  BY DEF Escalate
<1>4. /\ trail' \subseteq Actions \X {"approved", "approved-partial", "denied", "refused",
                                   "execute-failed", "escalated", "escalation-failed"}
      /\ lostRows' \in 0..MaxLostRows /\ trail' \subseteq trail \cup {<<a, o>>}
  BY <1>3, WriteTyped DEF LoopInv
<1>5. shown' \in [Actions -> {"nothing", "buttons", "bare", "approved", "denied"}]
  BY <1>1 DEF LoopInv, Typed, LoopTypeOK
<1>6. Typed'
  BY <1>1, <1>2, <1>4, <1>5, TypedFrom DEF LoopInv, Typed, LoopTypeOK
<1>7. a \notin Unminted
  BY <1>1 DEF LoopInv, Consent
<1>8. \A b \in Actions : shown'[b] # "nothing" => b \notin Unminted
  BY <1>1, <1>7 DEF LoopInv, Consent, Typed, LoopTypeOK
<1>9. Consent' /\ SettledStays
  BY <1>1, <1>8, BrokerSame, ConsentSame DEF LoopInv, storeVars
<1>10. QED BY <1>1, <1>2, <1>4, <1>6, <1>7, <1>9, BesideKeeps DEF LoopInv

LEMMA DecideAtDoorKeeps ==
  ASSUME LoopInv, NEW i \in Intents, NEW a \in Actions, DecideAtDoor(i, a)
  PROVE  LoopInv'
<1>1. /\ Decides(i, a)
      /\ UNCHANGED <<allVars, loop, shown, halt, trail, minted, asked, opened, tapped, lostRows>>
  BY DEF DecideAtDoor, Decides
<1>2. StoreIInv' /\ BrokerIInv'
  BY <1>1, DecidesKeepsStore, BrokerKept DEF LoopInv, Decides
<1>3. Typed'
  BY <1>1, <1>2, SettlingTyped, TypedFrom DEF LoopInv, Typed, LoopTypeOK, Decides
<1>4. Consent' /\ SettledStays
  BY <1>1, BrokerSame, DecisionKeepsConsent DEF LoopInv
<1>5. QED BY <1>1, <1>2, <1>3, <1>4, BesideKeeps DEF LoopInv

LEMMA ResumeKeeps ==
  ASSUME LoopInv, Resume \/ UNCHANGED allLoopVars
  PROVE  LoopInv'
<1>1. UNCHANGED <<storeVars, allVars, loop, shown, trail, minted, asked, settled, opened,
                  tapped, lostRows>> /\ halt' \in BOOLEAN
  BY DEF Resume, allLoopVars, loopVars, LoopInv, Typed, LoopTypeOK
<1>2. StoreIInv' /\ BrokerIInv'
  BY <1>1, BrokerKept, StoreKept DEF LoopInv
<1>3. Typed'
  BY <1>1, <1>2, TypedFrom DEF LoopInv, Typed, LoopTypeOK
<1>4. Consent' /\ SettledStays
  BY <1>1, BrokerSame, ConsentSame DEF LoopInv, storeVars, Consent
<1>5. QED BY <1>1, <1>2, <1>3, <1>4, BesideKeeps DEF LoopInv

-----------------------------------------------------------------------------
(* The loop moves, outside a call and outside a HALT; the Broker does not.  *)
LEMMA HandlingKeeps ==
  ASSUME Typed, Phases, InHand, Once, Tidy, TrailIsTrue, SettledStays,
         UNCHANGED <<allVars, opened, trail>>, loop' \in LoopType,
         loop.at \in {"idle", "acknowledging", "settling"},
         loop'.at \in {"idle", "acknowledging", "settling"},
         Answering' /\ loop'.final /\ loop'.verdict = "approve" => Unused(loop'.action)
  PROVE  Phases' /\ Once' /\ Tidy' /\ TrailIsTrue' /\ ~InCall(Loop)'
<1>1. /\ UNCHANGED <<call, runs, halted, crashes, doc, open, port, lateSets, opened, trail>>
      /\ C' = C /\ P' = P /\ \A a : Ran(a)' = Ran(a)
  BY BrokerSame DEF C, P, Ran
<1>2. ~InCall(Loop) /\ P.at = "idle" /\ C.stage = "none" /\ loop.at # "halting"
  BY DEF Phases, InCall, C
<1>3. Phases'
  BY <1>1, <1>2 DEF Phases, InCall, Stage, C
<1>4. Tidy'
  BY <1>1, <1>2 DEF Tidy, Undisturbed, InCall, Stage, C
<1>5. Once'
  BY <1>1, <1>2 DEF Once, SettledStays, Answering, Stage, Unused, C
<1>6. TrailIsTrue'
  BY DEF TrailIsTrue, SettledStays, InHand
<1>7. QED BY <1>1, <1>2, <1>3, <1>4, <1>5, <1>6 DEF InCall, C

(* The tap that settles an action finds it undecided, so never opened.      *)
LEMMA TapKeeps ==
  ASSUME LoopInv, NEW a \in Actions, NEW v \in {"approve", "deny"}, NEW t \in Phones,
         Tap(a, v, t)
  PROVE  LoopInv'
<1> DEFINE i == IntentOf[a]
           may == IF v = "approve" THEN MayApprove(i, a, Operator)
                  ELSE MayDecide(i, a, Operator)
           take == IF v = "approve" THEN Approve(i, a, Operator) ELSE Deny(i, a, Operator)
           final == may /\ Settled(i, a)'
<1>1. /\ loop.at = "idle" /\ shown[a] # "nothing"
      /\ (may /\ take /\ Settling(i, a)) \/ (~may /\ UNCHANGED <<storeVars, settled>>)
      /\ loop' = [OutOfUpdate EXCEPT !.at = "acknowledging", !.action = a, !.verdict = v,
                                     !.ok = may, !.final = final]
      /\ tapped' = IF v = "approve" THEN tapped \cup {<<t, a>>} ELSE tapped
      /\ UNCHANGED <<allVars, shown, halt, trail, minted, asked, opened, lostRows>>
  BY DEF Tap
<1>2. i \in Intents /\ a \notin Unminted
  BY <1>1 DEF LoopInv, Consent
<1>3. /\ loop'.at = "acknowledging" /\ loop'.action = a /\ loop'.verdict = v
      /\ loop'.ok = may /\ loop'.final = final /\ loop'.todo = {}
      /\ loop' \in LoopType
  <2>1. may \in BOOLEAN /\ final \in BOOLEAN
    BY DEF MayApprove, MayDecide, Exists, Knows, Kind
  <2> HIDE DEF may, final
  <2>2. QED BY <1>1, <2>1 DEF OutOfUpdate, LoopType
<1>4. may => Decides(i, a)
  BY <1>1 DEF Decides
<1>5. StoreIInv' /\ BrokerIInv'
  BY <1>1, <1>2, <1>4, DecidesKeepsStore, StoreKept, BrokerKept DEF LoopInv, Decides
<1>6. settled' \in [Actions -> {"undecided", "approved", "denied"}]
  BY <1>1, <1>2, SettlingTyped DEF LoopInv, Typed, LoopTypeOK
<1>7. Typed'
  BY <1>1, <1>3, <1>5, <1>6, TypedFrom DEF LoopInv, Typed, LoopTypeOK
<1>8. /\ Consent' /\ SettledStays
      /\ may => /\ settled[a] = "undecided"
                /\ settled'[a] = IF ~Settled(i, a)' THEN "undecided"
                                 ELSE IF Approved(i, a)' THEN "approved" ELSE "denied"
  <2> HIDE DEF i, may, take, final
  <2>1. CASE may
    BY <1>1, <1>2, <1>4, <2>1, BrokerSame, DecisionKeepsConsent DEF LoopInv
  <2>2. CASE ~may
    BY <1>1, <2>2, BrokerSame, ConsentSame DEF LoopInv, storeVars, Consent
  <2>3. QED BY <2>1, <2>2
<1>9. may => /\ v = "deny" => Settled(i, a)' /\ ~Approved(i, a)'
             /\ v = "approve" /\ Settled(i, a)' => Approved(i, a)'
  <2> SUFFICES ASSUME may
               PROVE  /\ v = "deny" => Settled(i, a)' /\ ~Approved(i, a)'
                      /\ v = "approve" /\ Settled(i, a)' => Approved(i, a)'
    OBVIOUS
  <2>1. ~Settled(i, a) /\ ~Approved(i, a)
    BY <1>2, <1>4, DecisionAdded DEF LoopInv, Decides, Approved, Settled
  <2>2. CASE v = "approve"
    <3> DEFINE n == mkDecision(i, a, "approve", Operator, Settles(i, a, Operator))
    <3>1. MayDecide(i, a, Operator) /\ decisions' = decisions \cup {n}
      BY <1>1, <2>2, Zenon DEF Approve, MayApprove
    <3>2. n \in Decision
      BY <1>2, <3>1 DEF LoopInv, StoreIInv, StoreTypeOK, MayDecide, mkDecision, Decision,
                        Exists, Settles
    <3>3. n.intent = i /\ n.action = a /\ n.verdict = "approve"
      BY DEF mkDecision
    <3> HIDE DEF n, i, may
    <3>4. QED BY <1>2, <2>1, <2>2, <3>1, <3>2, <3>3, AddDecision
  <2>3. CASE v = "deny"
    <3> DEFINE n == mkDecision(i, a, "deny", Operator, TRUE)
    <3>1. MayDecide(i, a, Operator) /\ decisions' = decisions \cup {n}
      BY <1>1, <2>3, Zenon DEF Deny
    <3>2. n \in Decision
      BY <1>2, <3>1 DEF LoopInv, StoreIInv, StoreTypeOK, MayDecide, mkDecision, Decision,
                        Exists
    <3>3. n.intent = i /\ n.action = a /\ n.verdict = "deny" /\ n.settled
      BY DEF mkDecision
    <3> HIDE DEF n, i, may
    <3>4. QED BY <1>2, <2>1, <2>3, <3>1, <3>2, <3>3, AddDecision
  <2>4. QED BY <2>2, <2>3
<1> HIDE DEF i, may, take, final
<1>10. final <=> may /\ Settled(i, a)'
  BY DEF final
<1>11. loop'.final /\ loop'.verdict = "approve" => Unused(a)
  BY <1>3, <1>8, <1>10 DEF LoopInv, Once, Unused
<1>12. Phases' /\ Once' /\ Tidy' /\ TrailIsTrue' /\ ~InCall(Loop)'
  BY <1>1, <1>3, <1>8, <1>11, HandlingKeeps DEF LoopInv
<1>13. InHand'
  BY <1>1, <1>2, <1>3, <1>8, <1>9, <1>10, <1>12 DEF LoopInv, InHand, Answering
<1>14. QED BY <1>5, <1>7, <1>8, <1>12, <1>13 DEF LoopInv

LEMMA AcknowledgedKeeps == ASSUME LoopInv, Acknowledged PROVE LoopInv'
<1>1. /\ loop.at = "acknowledging" /\ loop' = [loop EXCEPT !.at = "settling"]
      /\ UNCHANGED <<storeVars, allVars, shown, halt, trail, minted, asked, settled,
                     opened, tapped, lostRows>>
  BY DEF Acknowledged
<1>2. /\ loop' \in LoopType /\ loop'.at = "settling" /\ loop'.action = loop.action
      /\ loop'.verdict = loop.verdict /\ loop'.ok = loop.ok /\ loop'.final = loop.final
  BY <1>1 DEF LoopInv, Typed, LoopType
<1>3. StoreIInv' /\ BrokerIInv'
  BY <1>1, BrokerKept, StoreKept DEF LoopInv
<1>4. Typed'
  BY <1>1, <1>2, <1>3, TypedFrom DEF LoopInv, Typed, LoopTypeOK
<1>5. Consent' /\ SettledStays
  BY <1>1, BrokerSame, ConsentSame DEF LoopInv, storeVars, Consent
<1>6. Phases' /\ Once' /\ Tidy' /\ TrailIsTrue' /\ ~InCall(Loop)'
  BY <1>1, <1>2, <1>5, HandlingKeeps DEF LoopInv, Once, Answering
<1>7. InHand'
  BY <1>1, <1>2, <1>6 DEF LoopInv, InHand, Answering
<1>8. QED BY <1>3, <1>4, <1>5, <1>6, <1>7 DEF LoopInv

LEMMA SendFailsKeeps == ASSUME LoopInv, SendFails PROVE LoopInv'
<1>1. /\ loop.at \in {"acknowledging", "settling"} /\ loop' = OutOfUpdate
      /\ \/ UNCHANGED shown
         \/ shown' = [shown EXCEPT ![loop.action] = IF @ = "buttons" THEN "bare" ELSE @]
      /\ UNCHANGED <<storeVars, allVars, halt, trail, minted, asked, settled,
                     opened, tapped, lostRows>>
  BY DEF SendFails
<1>2. loop' \in LoopType /\ loop'.at = "idle" /\ ~loop'.ok /\ ~loop'.final
  BY <1>1 DEF OutOfUpdate, LoopType
<1>3. StoreIInv' /\ BrokerIInv'
  BY <1>1, BrokerKept, StoreKept DEF LoopInv
<1>4. /\ shown' \in [Actions -> {"nothing", "buttons", "bare", "approved", "denied"}]
      /\ \A a \in Actions : shown'[a] # "nothing" => a \notin Unminted
  BY <1>1 DEF LoopInv, Typed, LoopTypeOK, Consent
<1>5. Typed'
  BY <1>1, <1>2, <1>3, <1>4, TypedFrom DEF LoopInv, Typed, LoopTypeOK
<1>6. Consent' /\ SettledStays
  BY <1>1, <1>4, BrokerSame, ConsentSame DEF LoopInv, storeVars
<1>7. Phases' /\ Once' /\ Tidy' /\ TrailIsTrue' /\ ~InCall(Loop)'
  BY <1>1, <1>2, <1>6, HandlingKeeps DEF LoopInv, Answering
<1>8. InHand'
  BY <1>1, <1>2, <1>7 DEF LoopInv, InHand, Answering
<1>9. QED BY <1>3, <1>5, <1>6, <1>7, <1>8 DEF LoopInv

-----------------------------------------------------------------------------
(* A policy command answers, in a call or in a HALT.                        *)
LEMMA CommandKeeps ==
  ASSUME LoopInv, PolicyStep(Loop), opened' = opened \cup doc',
         UNCHANGED <<brokerVars, loop, settled>>
  PROVE  Phases' /\ Once' /\ Tidy'
<1>1. PortMoves
  BY PolicyStepMoves DEF LoopInv
<1>2. /\ UNCHANGED <<call, runs, halted, crashes>> /\ C' = C /\ \A a : Ran(a)' = Ran(a)
  BY DEF brokerVars, C, Ran
<1>3. C.stage \in {"none", "applying", "calling", "answered", "failing", "reverting"}
  BY DEF LoopInv, Typed, LoopTypeOK, BrokerTypeOK, STAGE, C
<1>4. P.at \notin {"idle", "done", "failed"}
  BY <1>1 DEF PortMoves, Opens, Closes, Working, At, P
<1>5. \/ loop.at = "calling" /\ C.stage = "applying" /\ P.action = C.action
         /\ P.at \in {"apply-read", "apply-set"}
      \/ loop.at = "calling" /\ C.stage = "reverting" /\ P.action = C.action
         /\ P.at \in {"revert-read", "revert-set", "verify"}
      \/ loop.at = "halting" /\ C.stage = "none"
         /\ P.at \in {"revert-read", "revert-set", "verify"}
  BY <1>3, <1>4 DEF LoopInv, Typed, LoopType, Phases, Closing, InCall, Stage, C
<1>6. Phases'
  BY <1>1, <1>2, <1>5 DEF LoopInv, Phases, PortMoves, Opens, Closes, Stays, Closing, InCall,
                          Stage, C
<1>7. P.at = "apply-set" =>
        /\ C.action \in Actions \ Unminted /\ settled[C.action] = "approved"
        /\ ~Ran(C.action) /\ C.action \notin opened
  BY <1>5 DEF LoopInv, InHand, Once, Unused, Phases, InCall, Stage, C
<1>8. Once'
  BY <1>1, <1>2, <1>5, <1>7 DEF LoopInv, Once, PortMoves, Opens, Closes, Stays, Answering,
                                Unused, Stage, C
<1>9. Tidy'
  <2> SUFFICES ASSUME Undisturbed'
               PROVE  /\ open' = doc'
                      /\ \A a \in doc' : a \in halted \/ (InCall(Loop) /\ C.action = a)
                      /\ Stage(Loop, "applying") /\ P'.at = "failed" => C.action \notin doc'
                      /\ Stage(Loop, "reverting") \/ loop.at = "halting" =>
                           (P'.at \in {"verify", "done"} => P'.action \notin doc')
                      /\ loop.at = "halting" => doc' \subseteq loop.todo
    BY <1>2 DEF Tidy, InCall, Stage
  <2>1. Undisturbed /\ lateSets' = 0
    BY <1>1, <1>2 DEF Undisturbed, PortMoves, Stays
  <2>2. /\ open = doc
        /\ \A a \in doc : a \in halted \/ (InCall(Loop) /\ C.action = a)
        /\ loop.at = "halting" => doc \subseteq loop.todo
        /\ C.stage = "reverting" \/ loop.at = "halting" =>
             (P.at = "verify" => P.action \notin doc)
    BY <2>1 DEF LoopInv, Tidy, Stage, C
  <2>3. C.stage = "applying" => C.action \notin doc
    BY <1>5 DEF LoopInv, Once, Unused, Stage, C
  <2>4. Stage(Loop, "applying") = (C.stage = "applying")
        /\ Stage(Loop, "reverting") = (C.stage = "reverting")
        /\ InCall(Loop) = (C.stage # "none")
    BY DEF Stage, InCall, C
  <2>5. QED
    BY <1>1, <1>5, <2>1, <2>2, <2>3, <2>4 DEF PortMoves, Opens, Closes, Stays
<1>10. QED BY <1>6, <1>8, <1>9

(* The call goes on between two awaits.                                     *)
LEMMA ServedRan ==
  ASSUME Typed, BrokerIInv, NEW b, NEW d, NEW n,
         runs' = Append(runs, [action |-> b, decision |-> d, of |-> n]),
         [action |-> b, decision |-> d, of |-> n] \in RunType
  PROVE  /\ \A a : Ran(a)' <=> Ran(a) \/ a = b
         /\ DOMAIN runs' = DOMAIN runs \cup {Len(runs) + 1}
         /\ runs'[Len(runs) + 1].action = b
<1> DEFINE r == [action |-> b, decision |-> d, of |-> n]
<1>1. runs \in Seq(RunType) /\ Len(runs) \in Nat /\ DOMAIN runs = 1..Len(runs)
  BY LenProperties DEF BrokerIInv, BrokerTyped, BrokerTypeOK, RunType
<1>2. /\ DOMAIN runs' = 1..Len(runs) + 1 /\ runs'[Len(runs) + 1] = r
      /\ \A k \in DOMAIN runs : runs'[k] = runs[k]
  BY <1>1, AppendProperties
<1>3. r.action = b
  OBVIOUS
<1> HIDE DEF r
<1>4. DOMAIN runs' = DOMAIN runs \cup {Len(runs) + 1}
  BY <1>1, <1>2
<1>5. QED BY <1>2, <1>3, <1>4 DEF Ran

LEMMA ContinueKeeps ==
  ASSUME LoopInv, loop.at = "calling", Continue(Loop), opened' = opened \cup doc',
         loop' = IF call'[Loop].stage = "none" THEN OutOfUpdate ELSE loop,
         UNCHANGED settled
  PROVE  Phases' /\ Once' /\ Tidy'
<1>1. InCall(Loop)
  BY DEF LoopInv, Phases
<1>2. CallMoves /\ Stays /\ UNCHANGED crashes
  BY <1>1, ContinueMoves DEF LoopInv
<1>3. opened' = opened /\ doc' = doc /\ open' = open
  BY <1>2 DEF Stays, LoopInv, Once
<1>4. /\ C.stage \in {"applying", "calling", "answered", "failing", "reverting"}
      /\ C.action = loop.action /\ C.action \in Actions \ Unminted
      /\ settled[C.action] = "approved" /\ TierOf(C.action) = "consequential"
  BY <1>1 DEF LoopInv, Typed, LoopTypeOK, BrokerTypeOK, STAGE, C, InCall, Phases, InHand
<1>5. \A s : Stage(Loop, s) <=> C.stage = s
  BY DEF Stage, C
<1>6. (\A s : Stage(Loop, s)' <=> C'.stage = s) /\ (InCall(Loop)' <=> C'.stage # "none")
  BY DEF Stage, InCall, C
<1>7. loop' = IF C'.stage = "none" THEN OutOfUpdate ELSE loop
  BY DEF C
<1>9. /\ C'.stage = "none" => loop'.at = "idle" /\ ~loop'.ok /\ ~loop'.final
      /\ C'.stage # "none" => loop' = loop /\ SameCall
  BY <1>2, <1>5, <1>7 DEF CallMoves, Ended, OutOfUpdate
<1>10. UNCHANGED port => P' = P
  BY DEF P
<1>11. Phases'
  BY <1>2, <1>3, <1>4, <1>5, <1>6, <1>9, <1>10
     DEF LoopInv, Phases, CallMoves, Ended, SameCall, Closing
<1>12. /\ \A a : Ran(a)' => Ran(a) \/ (a = C.action /\ C.stage = "calling")
       /\ C'.stage # "answered" => \A a : Ran(a)' = Ran(a)
  <2>1. CASE UNCHANGED runs
    BY <2>1 DEF Ran
  <2>2. CASE /\ Stage(Loop, "calling") /\ C'.stage = "answered"
             /\ runs' = Append(runs, [action |-> C.action, decision |-> C.decision, of |-> C.seq])
    <3>1. C \in CallType
      BY DEF LoopInv, BrokerIInv, BrokerTyped, CallsTyped, C
    <3>2. [action |-> C.action, decision |-> C.decision, of |-> C.seq] \in RunType
      BY <1>4, <3>1 DEF CallType, RunType
    <3>3. QED BY <1>5, <2>2, <3>2, ServedRan DEF LoopInv
  <2>3. QED BY <1>2, <2>1, <2>2 DEF CallMoves
<1>13. Once'
  BY <1>2, <1>3, <1>4, <1>5, <1>6, <1>9, <1>12
     DEF LoopInv, Once, CallMoves, Ended, SameCall, Answering, Unused
<1>14. Tidy'
  <2> SUFFICES ASSUME Undisturbed'
               PROVE  /\ open' = doc'
                      /\ \A a \in doc' : a \in halted' \/ (C'.stage # "none" /\ C'.action = a)
                      /\ C'.stage = "applying" /\ P'.at = "failed" => C'.action \notin doc'
                      /\ C'.stage = "reverting" \/ loop'.at = "halting" =>
                           (P'.at \in {"verify", "done"} => P'.action \notin doc')
                      /\ loop'.at = "halting" => doc' \subseteq loop'.todo
    BY <1>6 DEF Tidy
  <2>1. Undisturbed
    BY <1>2 DEF Undisturbed, Stays
  <2>2. /\ open = doc /\ (P.action = C.action \/ C.stage \notin {"applying", "reverting"})
        /\ \A a \in doc : a \in halted \/ C.action = a
        /\ C.stage = "applying" /\ P.at = "failed" => C.action \notin doc
        /\ C.stage = "reverting" => (P.at \in {"verify", "done"} => P.action \notin doc)
    BY <2>1, <1>5 DEF LoopInv, Tidy, Phases
  <2>3. loop'.at # "halting"
    BY <1>9
  <2>4. open = doc
    BY <2>1 DEF LoopInv, Tidy
  <2>5. QED
    BY <1>2, <1>3, <1>5, <1>9, <2>2, <2>3, <2>4 DEF CallMoves, Ended, SameCall
<1>15. QED BY <1>11, <1>13, <1>14

-----------------------------------------------------------------------------
(* Whatever the Broker does in the loop is a step of its own, or one of the *)
(* port while it stands still.                                              *)
LEMMA PortAloneKept ==
  ASSUME BrokerIInv, UNCHANGED brokerVars, PolicyTypeOK', PortHasAction'
  PROVE  BrokerIInv'
<1>1. UNCHANGED <<call, rows, runs, undoable, halted, calls, logErrors, crashes>>
  BY DEF brokerVars
<1>2. BrokerTyped'
  BY <1>1 DEF BrokerIInv, BrokerTyped, BrokerTypeOK, CallsTyped
<1>3. Evidence'
  BY <1>1 DEF BrokerIInv, Evidence, CallIsAdmitted, CallsDistinct, NotYetRun, InCall,
              Before, Stage, RunsAreAllowed, RunIsAllowed, RunsHaveEvidence, Row
<1>4. QED BY <1>2, <1>3 DEF BrokerIInv

Rows == Actions \X {"approved", "approved-partial", "denied", "refused",
                    "execute-failed", "escalated", "escalation-failed"}

(* The end of an update: the Broker is called, or nothing more happens.      *)
Enters(d, expired) ==
  \/ Refuse(Loop, loop.action)
  \/ RefuseUnlogged(Loop, loop.action)
  \/ AdmitOnly(Loop, loop.action, d, expired)
  \/ AdmitConsequential(Loop, loop.action, d, expired)

LEMMA ShownBranches ==
  ASSUME Shown
  PROVE  \/ /\ loop.final /\ loop.verdict = "approve"
            /\ \E d \in Decision, expired \in BOOLEAN : Enters(d, expired)
         \/ UNCHANGED allVars
<1>1. IF loop.ok /\ loop.verdict = "approve" /\ loop.final /\ loop.action \in registered
      THEN \E d \in Decision, expired \in BOOLEAN :
             Returned(d) /\ Enters(d, expired)
      ELSE UNCHANGED allVars
  BY DEF Shown, Enters
<1>2. QED BY <1>1

LEMMA ShownKeeps == ASSUME LoopInv, Shown PROVE LoopInv'
<1> DEFINE a == loop.action
<1>1. /\ loop.at = "settling" /\ Write(DecisionRow)
      /\ shown' \in {shown, [shown EXCEPT ![loop.action] =
                           IF loop.verdict = "approve" THEN "approved" ELSE "denied"]}
      /\ loop' = IF C'.stage # "none" THEN [loop EXCEPT !.at = "calling"] ELSE OutOfUpdate
      /\ UNCHANGED <<storeVars, halt, minted, asked, settled, opened, tapped>>
  BY DEF Shown, C
<1>2. a \in Actions \ Unminted /\ ~InCall(Loop) /\ P.at = "idle" /\ C.stage = "none"
  BY <1>1 DEF LoopInv, InHand, Answering, Phases, InCall, C
<1>3. loop \in LoopType
  BY DEF LoopInv, Typed
<1>4. /\ DecisionRow \in Rows /\ DecisionRow[1] = a
      /\ DecisionRow[2] = "approved" => settled[a] = "approved"
      /\ DecisionRow[2] = "denied" => settled[a] = "denied"
      /\ DecisionRow[2] # "execute-failed"
  <2> DEFINE what == CASE ~loop.ok -> "refused"
                       [] loop.ok /\ loop.verdict = "deny" -> "denied"
                       [] loop.ok /\ loop.verdict = "approve" /\ ~loop.final -> "approved-partial"
                       [] OTHER -> "approved"
  <2>1. DecisionRow = <<a, what>>
    BY DEF DecisionRow
  <2>2. what \in {"approved", "approved-partial", "denied", "refused"}
    OBVIOUS
  <2>3. what = "approved" => loop.ok /\ loop.verdict = "approve" /\ loop.final
    BY <1>3 DEF LoopType
  <2>4. what = "denied" => loop.ok /\ loop.verdict = "deny"
    OBVIOUS
  <2>5. /\ what = "approved" => settled[a] = "approved"
        /\ what = "denied" => settled[a] = "denied"
    BY <1>1, <2>3, <2>4 DEF LoopInv, InHand, Answering
  <2> HIDE DEF what
  <2>6. QED BY <1>2, <2>1, <2>2, <2>5 DEF Rows
<1>5. /\ trail' \subseteq Rows /\ trail' \subseteq trail \cup {DecisionRow}
      /\ lostRows' \in 0..MaxLostRows
  BY <1>1, <1>4, WriteTyped DEF LoopInv, Rows
<1>6. /\ shown' \in [Actions -> {"nothing", "buttons", "bare", "approved", "denied"}]
      /\ \A b \in Actions : shown'[b] # "nothing" => b \notin Unminted
  BY <1>1, <1>2 DEF LoopInv, Typed, LoopTypeOK, Consent
<1>7. Enter(Loop) \/ UNCHANGED allVars
  BY <1>2, ShownBranches DEF Enter, Enters
<1>8. StoreIInv' /\ BrokerIInv'
  <2>1. StoreIInv'
    BY <1>1, StoreKept DEF LoopInv
  <2>2. CASE Enter(Loop)
    BY <2>1, <2>2, BrokerStepIInv DEF LoopInv, BrokerNext
  <2>3. CASE UNCHANGED allVars
    BY <2>1, <2>3, BrokerKept DEF LoopInv
  <2>4. QED BY <1>7, <2>2, <2>3
<1>9. \/ /\ loop.final /\ loop.verdict = "approve" /\ TierOf(a) = "consequential"
         /\ C'.stage = "applying" /\ C'.action = a
         /\ P'.action = a /\ P'.at \in {"failed", "apply-read"}
      \/ C'.stage = "none" /\ P'.at = "idle"
  <2>1. CASE UNCHANGED <<call, port>>
    BY <1>2, <2>1 DEF C, P
  <2>2. CASE /\ loop.final /\ loop.verdict = "approve"
             /\ \E d \in Decision, expired \in BOOLEAN : AdmitConsequential(Loop, a, d, expired)
    <3>1. PICK d \in Decision, expired \in BOOLEAN : AdmitConsequential(Loop, a, d, expired)
      BY <2>2
    <3>2. /\ TierOf(a) = "consequential"
          /\ call' = [call EXCEPT ![Loop] = [stage |-> "applying", action |-> a, decision |-> d,
                                             seq |-> Len(rows'), threw |-> FALSE]]
          /\ port' = [port EXCEPT ![Loop] =
               [at |-> IF RequestOf[a] = NoRequest THEN "failed" ELSE "apply-read",
                action |-> a, copy |-> {}]]
      BY <3>1, Zenon DEF AdmitConsequential, Begin, EnterApply
    <3>3. /\ Loop \in Callers /\ call \in [Callers -> CallType]
          /\ port \in [Callers -> [at : STEP, action : Actions \cup {NoAction},
                                   copy : SUBSET Actions]]
      BY DEF LoopInv, BrokerIInv, BrokerTyped, CallsTyped, BrokerTypeOK, PolicyTypeOK
    <3>4. QED BY <2>2, <3>2, <3>3 DEF C, P
  <2>3. CASE \E d \in Decision, expired \in BOOLEAN :
               \/ Refuse(Loop, a) \/ RefuseUnlogged(Loop, a) \/ AdmitOnly(Loop, a, d, expired)
    BY <2>1, <2>3 DEF Refuse, RefuseUnlogged, AdmitOnly, policyVars
  <2>4. CASE UNCHANGED allVars
    BY <2>1, <2>4, BrokerSame
  <2>5. QED BY <2>2, <2>3, <2>4, ShownBranches DEF Enters
<1>10. UNCHANGED <<runs, halted, crashes, doc, open, lateSets>>
  <2>1. CASE UNCHANGED allVars
    BY <2>1, BrokerSame
  <2>2. CASE \E d \in Decision, expired \in BOOLEAN : Enters(d, expired)
    BY <2>2 DEF Enters, Refuse, RefuseUnlogged, AdmitOnly, AdmitConsequential, policyVars
  <2>3. QED BY <2>1, <2>2, ShownBranches
<1>11. /\ C'.stage # "none" => /\ loop'.at = "calling" /\ loop'.action = a
                               /\ loop'.final = loop.final /\ loop'.ok = loop.ok
                               /\ loop'.verdict = loop.verdict
       /\ C'.stage = "none" => loop'.at = "idle" /\ ~loop'.ok /\ ~loop'.final
       /\ loop' \in LoopType
  BY <1>1, <1>3 DEF LoopType, OutOfUpdate
<1>12. Typed'
  BY <1>1, <1>5, <1>6, <1>8, <1>11, TypedFrom DEF LoopInv, Typed, LoopTypeOK, Rows
<1>13. Consent' /\ SettledStays
  BY <1>1, <1>6, <1>10, ConsentSame DEF LoopInv, storeVars
<1>14. /\ \A s : Stage(Loop, s)' <=> C'.stage = s
       /\ InCall(Loop)' <=> C'.stage # "none"
       /\ \A b : Ran(b)' = Ran(b)
  BY <1>10 DEF Stage, InCall, C, Ran
<1> HIDE DEF a
<1>15. Phases'
  BY <1>9, <1>11, <1>14 DEF Phases
<1>16. Unused(a) \/ ~(loop.final /\ loop.verdict = "approve")
  BY <1>1 DEF LoopInv, Once, Answering, a
<1>17. loop.final /\ loop.verdict = "approve" => settled[a] = "approved"
  BY <1>1 DEF LoopInv, InHand, Answering, a
<1>18. InHand'
  <2>1. \A row \in trail' : row[1] \notin Unminted
    BY <1>2, <1>4, <1>5 DEF LoopInv, InHand
  <2>2. UNCHANGED settled
    BY <1>1
  <2>3. loop.final => loop.ok
    BY DEF LoopInv, InHand
  <2>4. QED BY <1>2, <1>9, <1>11, <1>14, <1>17, <2>1, <2>2, <2>3 DEF LoopInv, InHand, Answering
<1>19. Once'
  BY <1>1, <1>9, <1>10, <1>11, <1>14, <1>16 DEF LoopInv, Once, Answering, Unused
<1>20. Tidy'
  <2> SUFFICES ASSUME Undisturbed'
               PROVE  /\ open = doc
                      /\ \A b \in doc : b \in halted
                      /\ C'.stage = "applying" => C'.action \notin doc
                      /\ C'.stage # "reverting" /\ loop'.at # "halting"
    BY <1>10, <1>14 DEF Tidy
  <2>1. Undisturbed
    BY <1>10 DEF Undisturbed
  <2>2. a \notin opened => a \notin doc
    BY DEF LoopInv, Once
  <2>3. open = doc /\ \A b \in doc : b \in halted
    BY <1>2, <2>1 DEF LoopInv, Tidy
  <2>4. C'.stage = "applying" => C'.action \notin doc
    BY <1>9, <1>16, <2>2 DEF Unused
  <2>5. QED BY <1>9, <1>11, <2>3, <2>4
<1>21. TrailIsTrue'
  <2>1. \A b, o : <<b, o>> \in trail' => <<b, o>> \in trail \/ (b = a /\ o = DecisionRow[2])
    BY <1>4, <1>5
  <2>2. UNCHANGED settled
    BY <1>1
  <2>3. QED BY <1>4, <2>1, <2>2 DEF LoopInv, TrailIsTrue
<1>22. QED BY <1>8, <1>12, <1>13, <1>15, <1>18, <1>19, <1>20, <1>21 DEF LoopInv

LEMMA CallKeeps == ASSUME LoopInv, Call PROVE LoopInv'
<1>1. /\ loop.at = "calling"
      /\ Port(Loop) \/ Continue(Loop)
      /\ opened' = opened \cup doc'
      /\ loop' = IF C'.stage = "none" THEN OutOfUpdate ELSE loop
      /\ Write(<<loop.action, "execute-failed">>) \/ UNCHANGED <<trail, lostRows>>
      /\ UNCHANGED <<storeVars, shown, halt, minted, asked, settled, tapped>>
  BY DEF Call, C
<1>2. InCall(Loop) /\ loop.action = C.action /\ Loop \in Callers
  BY <1>1 DEF LoopInv, Phases
<1>3. loop.action \in Actions \ Unminted /\ settled[loop.action] = "approved"
  BY <1>2 DEF LoopInv, InHand
<1>4. StoreIInv' /\ BrokerIInv'
  BY <1>1, <1>2, StoreKept, BrokerStepIInv DEF LoopInv, BrokerNext
<1>5. loop' \in LoopType
  BY <1>1 DEF LoopInv, Typed, LoopType, OutOfUpdate
<1>6. UNCHANGED crashes
  BY <1>1, <1>2, ContinueMoves DEF LoopInv, Port, brokerVars
<1>7. Phases' /\ Once' /\ Tidy'
  <2>1. CASE Continue(Loop)
    BY <1>1, <2>1, ContinueKeeps DEF C
  <2>2. CASE Port(Loop)
    <3>1. PolicyStep(Loop) /\ UNCHANGED brokerVars
      BY <2>2 DEF Port
    <3>2. C' = C /\ C.stage # "none"
      BY <1>2, <3>1 DEF brokerVars, C, InCall
    <3>3. QED BY <1>1, <3>1, <3>2, CommandKeeps
  <2>3. QED BY <1>1, <2>1, <2>2
<1>8. /\ trail' \subseteq Rows /\ lostRows' \in 0..MaxLostRows
      /\ trail' \subseteq trail \cup {<<loop.action, "execute-failed">>}
  <2>1. <<loop.action, "execute-failed">> \in Rows
    BY <1>3 DEF Rows
  <2>2. QED BY <1>1, <2>1, WriteTyped DEF LoopInv, Typed, LoopTypeOK, Rows
<1>9. opened' \subseteq Actions
  BY <1>1, <1>4 DEF BrokerIInv, BrokerTyped, BrokerTypeOK, PolicyTypeOK, LoopInv, Typed, LoopTypeOK
<1>10. Typed'
  BY <1>1, <1>4, <1>5, <1>8, <1>9, TypedFrom DEF LoopInv, Typed, LoopTypeOK, Rows
<1>11. Consent' /\ SettledStays
  BY <1>1, <1>6, ConsentSame DEF LoopInv, storeVars, Consent
<1>12. InHand'
  <2>1. \A row \in trail' : row[1] \notin Unminted
    BY <1>3, <1>8 DEF LoopInv, InHand
  <2>2. CASE C'.stage = "none"
    <3>1. loop'.at = "idle" /\ ~loop'.ok /\ ~loop'.final /\ ~InCall(Loop)'
      BY <1>1, <2>2 DEF OutOfUpdate, InCall, C
    <3>2. QED BY <2>1, <3>1 DEF InHand, Answering
  <2>3. CASE C'.stage # "none"
    <3>1. loop' = loop /\ InCall(Loop)'
      BY <1>1, <2>3 DEF InCall, C
    <3>2. C'.action = loop.action
      BY <1>7, <3>1 DEF Phases
    <3>3. UNCHANGED settled /\ loop.at = "calling"
      BY <1>1
    <3>4. QED BY <1>2, <1>3, <2>1, <3>1, <3>2, <3>3 DEF LoopInv, InHand, Answering
  <2>4. QED BY <2>2, <2>3
<1>13. TrailIsTrue'
  <2>1. \A b, o : <<b, o>> \in trail' => <<b, o>> \in trail \/ (b = loop.action /\ o = "execute-failed")
    BY <1>8
  <2>2. UNCHANGED settled
    BY <1>1
  <2>3. QED BY <1>3, <2>1, <2>2 DEF LoopInv, TrailIsTrue
<1>14. QED BY <1>4, <1>7, <1>10, <1>11, <1>12, <1>13 DEF LoopInv

-----------------------------------------------------------------------------
(* HALT takes over what the map holds, which is what is in the live policy.  *)
LEMMA HaltingKeeps ==
  ASSUME LoopInv, StoreIInv', BrokerIInv', loop' \in LoopType,
         UNCHANGED <<storeVars, brokerVars, doc, open, lateSets, shown, trail, minted,
                     asked, settled, opened, tapped, lostRows>>,
         halt' \in BOOLEAN, ~InCall(Loop),
         loop'.at \in {"idle", "halting"}, ~loop'.final, ~loop'.ok,
         P'.at \in Closing \cup {"idle"}, loop'.at = "idle" => P'.at = "idle",
         P'.at = "revert-set" => P'.copy = doc,
         Undisturbed /\ loop'.at = "halting" =>
           /\ doc \subseteq loop'.todo
           /\ P'.at \in {"verify", "done"} => P'.action \notin doc
  PROVE  LoopInv'
<1>1. UNCHANGED <<call, runs, halted, crashes>> /\ C' = C /\ \A a : Ran(a)' = Ran(a)
  BY DEF brokerVars, C, Ran
<1>2. C.stage = "none"
  BY DEF InCall, C
<1>3. Typed'
  BY TypedFrom DEF LoopInv, Typed, LoopTypeOK
<1>4. Consent'
  BY <1>1, ConsentSame DEF LoopInv, storeVars, Consent
<1>5. \A s : s # "none" => ~Stage(Loop, s)'
  BY <1>1, <1>2 DEF Stage, C
<1>6. ~InCall(Loop)'
  BY <1>1, <1>2 DEF InCall, C
<1>7. Phases'
  BY <1>5, <1>6 DEF Phases, Closing
<1>8. InHand' /\ Once' /\ TrailIsTrue'
  BY <1>1, <1>5, <1>6 DEF LoopInv, InHand, Once, Answering, Unused, TrailIsTrue
<1>9. Tidy'
  BY <1>1, <1>5, <1>6 DEF LoopInv, Tidy, Undisturbed
<1>10. QED BY <1>3, <1>4, <1>7, <1>8, <1>9 DEF LoopInv

LEMMA HaltKeeps == ASSUME LoopInv, Halt \/ HaltDone PROVE LoopInv'
<1>1. StoreIInv' /\ BrokerIInv'
  BY StoreKept, BrokerKept DEF LoopInv, Halt, HaltDone
<1>2. /\ UNCHANGED <<storeVars, brokerVars, doc, open, lateSets, port, shown, trail, minted,
                     asked, settled, opened, tapped, lostRows>>
      /\ halt' \in BOOLEAN /\ P' = P
  BY DEF Halt, HaltDone, allVars, policyVars, LoopInv, Typed, LoopTypeOK, P
<1>3. ~InCall(Loop) /\ P.at = "idle"
  BY DEF Halt, HaltDone, LoopInv, Phases, At, P
<1>4. open \in SUBSET Actions
  BY PortTyped DEF LoopInv
<1>5. CASE Halt
  <2>1. /\ loop' \in LoopType /\ loop'.at = "halting" /\ ~loop'.final /\ ~loop'.ok
        /\ loop'.todo = open
    BY <1>4, <1>5 DEF Halt, OutOfUpdate, LoopType
  <2>2. Undisturbed => doc \subseteq open
    BY DEF LoopInv, Tidy
  <2>3. QED BY <1>1, <1>2, <1>3, <2>1, <2>2, HaltingKeeps
<1>6. CASE HaltDone
  <2>1. loop' \in LoopType /\ loop'.at = "idle" /\ ~loop'.final /\ ~loop'.ok
    BY <1>6 DEF HaltDone, OutOfUpdate, LoopType
  <2>2. QED BY <1>1, <1>2, <1>3, <2>1, HaltingKeeps
<1>7. QED BY <1>5, <1>6

LEMMA HaltStepKeeps == ASSUME LoopInv, HaltStep PROVE LoopInv'
<1>1. /\ loop.at = "halting"
      /\ UNCHANGED <<storeVars, brokerVars, doc, open, lateSets, shown, halt,
                     trail, minted, asked, settled, opened, tapped, lostRows>>
  BY DEF HaltStep
<1>2. ~InCall(Loop) /\ Loop \in Callers
  BY <1>1 DEF LoopInv, Phases
<1>3. port \in [Callers -> [at : STEP, action : Actions \cup {NoAction}, copy : SUBSET Actions]]
      /\ loop \in LoopType
  BY DEF LoopInv, Typed, LoopTypeOK, BrokerTypeOK, PolicyTypeOK
<1>4. ~loop.ok /\ ~loop.final
  BY <1>1 DEF LoopInv, InHand
<1>5. Undisturbed => open = doc /\ doc \subseteq loop.todo
                     /\ (P.at = "done" => P.action \notin doc)
  BY <1>1 DEF LoopInv, Tidy
<1>6. StoreIInv' /\ PolicyTypeOK /\ PortHasAction
  BY <1>1, StoreKept DEF LoopInv, BrokerIInv, BrokerTyped, BrokerTypeOK
<1>7. ASSUME NEW a \in loop.todo, At(Loop, "idle"), EnterRevert(Loop, a), UNCHANGED loop
      PROVE  LoopInv'
  <2>1. a \in Actions
    BY <1>3 DEF LoopType
  <2>2. BrokerIInv'
    BY <1>1, <1>2, <1>6, <1>7, <2>1, EnterTyped, PortAloneKept DEF LoopInv
  <2>3. P'.action = a /\ P'.at = IF a \in open THEN "revert-read" ELSE "done"
    BY <1>2, <1>3, <1>7 DEF EnterRevert, P
  <2>4. QED
    BY <1>1, <1>2, <1>3, <1>4, <1>5, <1>6, <1>7, <2>2, <2>3, HaltingKeeps
       DEF LoopInv, Typed, LoopTypeOK, Closing
<1>8. CASE port' = [port EXCEPT ![Loop] = Idle]
  <2>1. P'.at = "idle"
    BY <1>2, <1>3, <1>8 DEF P, Idle
  <2>2. BrokerIInv'
    BY <1>1, <1>2, <1>6, <1>8, IdleTyped, PortAloneKept DEF LoopInv
  <2>3. CASE At(Loop, "done") /\ loop' = [loop EXCEPT !.todo = @ \ {port[Loop].action}]
    <3>1. /\ loop' \in LoopType /\ loop'.at = "halting" /\ ~loop'.final /\ ~loop'.ok
          /\ loop'.todo = loop.todo \ {P.action}
      BY <1>1, <1>3, <1>4, <2>3 DEF LoopType, P
    <3>2. P.at = "done"
      BY <2>3 DEF At, P
    <3>3. QED
      BY <1>1, <1>2, <1>5, <1>6, <2>1, <2>2, <3>1, <3>2, HaltingKeeps
         DEF LoopInv, Typed, LoopTypeOK
  <2>4. CASE loop' = OutOfUpdate
    <3>1. loop' \in LoopType /\ loop'.at = "idle" /\ ~loop'.final /\ ~loop'.ok
      BY <2>4 DEF OutOfUpdate, LoopType
    <3>2. QED
      BY <1>1, <1>2, <1>6, <2>1, <2>2, <3>1, HaltingKeeps DEF LoopInv, Typed, LoopTypeOK
  <2>5. CASE \E a \in loop.todo : At(Loop, "idle") /\ EnterRevert(Loop, a) /\ UNCHANGED loop
    BY <1>7, <2>5
  <2>6. QED BY <2>3, <2>4, <2>5 DEF HaltStep
<1>9. QED BY <1>7, <1>8 DEF HaltStep

LEMMA HaltCommandKeeps == ASSUME LoopInv, HaltCommand PROVE LoopInv'
<1>1. /\ loop.at = "halting" /\ PolicyStep(Loop)
      /\ UNCHANGED <<storeVars, brokerVars, loop, shown, halt, trail, minted, asked, settled,
                     opened, tapped, lostRows>>
  BY DEF HaltCommand, loopVars
<1>2. PortMoves /\ P.at # "apply-set"
  BY <1>1, PolicyStepMoves DEF LoopInv, Phases, Closing
<1>3. opened' = opened \cup doc'
  BY <1>1, <1>2 DEF PortMoves, Opens, Closes, Stays, LoopInv, Once
<1>4. Phases' /\ Once' /\ Tidy'
  BY <1>1, <1>3, CommandKeeps
<1>5. PolicyTypeOK' /\ PortHasAction'
  BY <1>1, PolicyStepTyped DEF LoopInv, BrokerIInv, BrokerTyped, BrokerTypeOK
<1>6. StoreIInv' /\ BrokerIInv'
  BY <1>1, <1>5, StoreKept, PortAloneKept DEF LoopInv
<1>7. Typed'
  BY <1>1, <1>6, TypedFrom DEF LoopInv, Typed, LoopTypeOK
<1>8. UNCHANGED <<call, crashes>>
  BY <1>1 DEF brokerVars
<1>9. Consent'
  BY <1>1, <1>8, ConsentSame DEF LoopInv, storeVars, Consent
<1>10. InHand' /\ TrailIsTrue'
  BY <1>1, <1>8 DEF LoopInv, InHand, Answering, InCall, C, TrailIsTrue
<1>11. QED BY <1>4, <1>6, <1>7, <1>9, <1>10 DEF LoopInv

(* The process dies: the record is gone, and what was settled stays so.     *)
LEMMA LoopCrashKeeps == ASSUME LoopInv, LoopCrash PROVE LoopInv'
<1>1. /\ loop' = OutOfUpdate /\ halt' = FALSE /\ opened' = opened \cup doc'
      /\ registered' = {} /\ crashes' = crashes + 1
      /\ UNCHANGED <<shown, trail, minted, asked, settled, tapped, lostRows, runs, halted>>
      /\ call' = [c \in Callers |-> NoCall] /\ port' = [c \in Callers |-> Idle]
  BY DEF LoopCrash, Crash, PolicyLost
<1>2. StoreInit'
  BY DEF LoopCrash, StoreInit
<1>3. StoreIInv'
  BY <1>2, StoreInitIInv, PTL
<1>4. BrokerIInv'
  BY BrokerStepIInv DEF LoopCrash, LoopInv, BrokerNext
<1>5. doc' \subseteq doc \cup (IF P.at = "apply-set" THEN {P.action} ELSE {})
  <2>1. \/ UNCHANGED doc
        \/ P.at \in {"apply-set", "revert-set"} /\ doc' = Edited(Loop)
    BY DEF LoopCrash, Crash, PolicyLost, At, P
  <2>2. P.at \in {"apply-set", "revert-set"} => P.copy = doc
    BY DEF LoopInv, Phases
  <2>3. QED BY <2>1, <2>2 DEF Edited, At, P
<1>6. P.at = "apply-set" => /\ P.action \in Actions \ Unminted
                            /\ settled[P.action] = "approved"
  <2> SUFFICES ASSUME P.at = "apply-set"
               PROVE  P.action \in Actions \ Unminted /\ settled[P.action] = "approved"
    OBVIOUS
  <2>1. InCall(Loop)
    BY DEF LoopInv, Phases, Closing, Typed, LoopType
  <2>2. C.stage \in {"applying", "calling", "answered", "failing", "reverting"}
    BY <2>1 DEF LoopInv, Typed, LoopTypeOK, BrokerTypeOK, STAGE, C, InCall
  <2>3. C.stage = "applying"
    BY <2>2 DEF LoopInv, Phases, Closing, Stage, C
  <2>4. P.action = C.action /\ C.action = loop.action
    BY <2>1, <2>3 DEF LoopInv, Phases, Stage, C
  <2>5. QED BY <2>1, <2>4 DEF LoopInv, InHand
<1>7. opened' \subseteq Actions
  BY <1>1, <1>4 DEF BrokerIInv, BrokerTyped, BrokerTypeOK, PolicyTypeOK, LoopInv, Typed, LoopTypeOK
<1>8. /\ loop' \in LoopType /\ loop'.at = "idle" /\ ~loop'.ok /\ ~loop'.final
  BY <1>1 DEF OutOfUpdate, LoopType
<1>9. Typed'
  BY <1>1, <1>3, <1>4, <1>7, <1>8, TypedFrom DEF LoopInv, Typed, LoopTypeOK
<1>10. /\ \A s : s # "none" => ~Stage(Loop, s)'
       /\ ~InCall(Loop)' /\ P'.at = "idle" /\ \A a : Ran(a)' = Ran(a)
  <2>1. call'[Loop].stage = "none" /\ P'.at = "idle"
    BY <1>1, NoCallType DEF P, Idle
  <2>2. QED BY <1>1, <2>1 DEF Stage, InCall, Ran
<1>11. Phases'
  BY <1>8, <1>10 DEF Phases
<1>12. crashes' # 0
  BY <1>1 DEF LoopInv, Typed, LoopTypeOK, BrokerTypeOK
<1>13. Consent'
  BY <1>1, <1>12 DEF LoopInv, Consent
<1>14. InHand' /\ TrailIsTrue'
  BY <1>1, <1>8, <1>10 DEF LoopInv, InHand, Answering, TrailIsTrue
<1>15. Once'
  BY <1>1, <1>5, <1>6, <1>8, <1>10 DEF LoopInv, Once, Answering
<1>16. Tidy'
  BY <1>12 DEF Tidy, Undisturbed
<1>17. QED BY <1>3, <1>4, <1>9, <1>11, <1>13, <1>14, <1>15, <1>16 DEF LoopInv

-----------------------------------------------------------------------------
LEMMA LoopInitInv == LoopInit => LoopInv
<1> SUFFICES ASSUME LoopInit PROVE LoopInv
  OBVIOUS
<1>1. StoreIInv /\ BrokerIInv
  BY StoreInitIInv, BrokerInitIInv DEF LoopInit
<1>2. Typed
  <2>1. loop \in LoopType
    BY DEF LoopInit, OutOfUpdate, LoopType
  <2>2. StoreTypeOK /\ BrokerTypeOK
    BY <1>1 DEF StoreIInv, BrokerIInv, BrokerTyped
  <2>3. lostRows \in 0..MaxLostRows
    BY DEF LoopInit
  <2>4. /\ shown \in [Actions -> {"nothing", "buttons", "bare", "approved", "denied"}]
        /\ settled \in [Actions -> {"undecided", "approved", "denied"}]
        /\ halt \in BOOLEAN /\ trail = {} /\ minted = {} /\ asked = {}
        /\ opened = {} /\ tapped = {}
    BY DEF LoopInit
  <2>5. QED BY <2>1, <2>2, <2>3, <2>4 DEF Typed, LoopTypeOK, LoopType
<1>3. /\ loop.at = "idle" /\ ~loop.ok /\ ~loop.final
      /\ call[Loop].stage = "none" /\ P.at = "idle" /\ doc = {} /\ open = {} /\ runs = <<>>
  BY NoCallType DEF LoopInit, OutOfUpdate, BrokerInit, PolicyInit, P, Idle
<1>4. Phases /\ InHand
  BY <1>3 DEF Phases, InHand, Answering, InCall, Stage, LoopInit
<1>5. Consent /\ TrailIsTrue
  BY DEF LoopInit, StoreInit, Consent, TrailIsTrue
<1>6. Once
  BY <1>3 DEF LoopInit, Once, Answering, Stage, Ran
<1>7. Tidy
  BY <1>3 DEF Tidy, Stage
<1>8. QED BY <1>1, <1>2, <1>4, <1>5, <1>6, <1>7 DEF LoopInv

LEMMA LoopStepInv == LoopInv /\ [LoopNext]_allLoopVars => LoopInv'
  BY ProposeIntentKeeps, PlanActionKeeps, DecideAtDoorKeeps, EscalateKeeps, TapKeeps,
     HaltKeeps, ResumeKeeps, SendFailsKeeps, AcknowledgedKeeps, ShownKeeps, CallKeeps,
     HaltStepKeeps, HaltCommandKeeps, LoopCrashKeeps
     DEF LoopNext, Work

THEOREM LoopInductive == LoopSpec => []LoopInv
  BY LoopInitInv, LoopStepInv, PTL DEF LoopSpec

-----------------------------------------------------------------------------
(* The state of the loop, the store, the Broker and the port is well typed. *)
THEOREM LoopTypeCorrect == LoopSpec => []LoopTypeOK
<1>1. LoopInv => LoopTypeOK
  BY DEF LoopInv, Typed
<1>2. QED BY <1>1, LoopInductive, PTL

(* onDecision(), onApproved(): no row of the trail claims a decision that   *)
(* was not taken, or an execution that was not approved.                    *)
THEOREM TrailTheorem == LoopSpec => []TrailIsTrue
<1>1. LoopInv => TrailIsTrue
  BY DEF LoopInv
<1>2. QED BY <1>1, LoopInductive, PTL

(* authorize() and revertAll(): a capability that stays open is one the     *)
(* caller was told of, or that a call is about to close.                    *)
THEOREM NoLeakTheorem == LoopSpec => []NoSilentLeak
<1>1. LoopInv => NoSilentLeak
  BY DEF LoopInv, Tidy, NoSilentLeak, C
<1>2. QED BY <1>1, LoopInductive, PTL

(* openshell.js: the map open is what the live policy grants.               *)
THEOREM OpenMatchesTheorem == LoopSpec => []OpenMatchesPolicy
<1>1. LoopInv => OpenMatchesPolicy
  BY DEF LoopInv, Tidy, OpenMatchesPolicy
<1>2. QED BY <1>1, LoopInductive, PTL

(* intents.js decide() to authorize(): in the life of a process nothing     *)
(* gated reaches the service without the approvals its kind asks for, of    *)
(* that many different people.                                              *)
THEOREM LoopQuorumTheorem == LoopSpec => []RunsHadQuorum
<1>1. LoopInv => RunsHadQuorum
  <2> SUFFICES ASSUME LoopInv, crashes = 0, NEW k \in DOMAIN runs,
                      KindOf(runs[k].action) # "none"
               PROVE  /\ Approved(IntentOf[runs[k].action], runs[k].action)
                      /\ Cardinality(Backers(IntentOf[runs[k].action], runs[k].action))
                           >= quorumFor(KindOf(runs[k].action))
    BY DEF RunsHadQuorum
  <2> DEFINE a == runs[k].action
             i == IntentOf[a]
  <2>1. Ran(a) /\ a \in Actions
    <3>1. runs \in Seq(RunType)
      BY DEF LoopInv, Typed, LoopTypeOK, BrokerTypeOK, RunType
    <3>2. runs[k] \in RunType
      BY <3>1, LenProperties, ElementOfSeq
    <3>3. QED BY <3>2 DEF Ran, RunType
  <2>2. settled[a] = "approved" /\ a \in Actions \ Unminted
    BY <2>1 DEF LoopInv, Once
  <2>3. a \in registered
    BY <2>2 DEF LoopInv, Consent
  <2>4. Approved(i, a) /\ i \in Intents
    BY <2>2, <2>3 DEF LoopInv, Consent
  <2>5. Needed(i, a) = quorumFor(KindOf(a))
    BY <2>3 DEF Needed, Kind, Knows
  <2>6. Cardinality(Backers(i, a)) >= Needed(i, a)
    BY <2>1, <2>4 DEF LoopInv, StoreIInv, ApproversAreBackers, ApprovedHasQuorum
  <2>7. QED BY <2>4, <2>5, <2>6
<1>2. QED BY <1>1, LoopInductive, PTL

-----------------------------------------------------------------------------
(* What a step of the whole does to what was settled, to the live policy    *)
(* and to what reached the service: nothing, or one thing about one action. *)
SettlesOne(b) ==
  /\ \A a \in Actions : a # b => settled'[a] = settled[a]
  /\ b \notin Unminted => settled[b] = "undecided" /\ settled'[b] \in {"approved", "denied"}
  /\ UNCHANGED <<doc, opened, runs>>

OpensOne(b) ==
  /\ settled[b] = "approved" /\ b \notin opened
  /\ doc' = doc \cup {b} /\ opened' = opened \cup {b} /\ UNCHANGED <<settled, runs>>

ClosesOne(b) == doc' = doc \ {b} /\ UNCHANGED <<settled, opened, runs>>

RunsOne(b) ==
  /\ b \in doc /\ ~Ran(b)
  /\ \A a : Ran(a)' <=> Ran(a) \/ a = b
  /\ \E n : DOMAIN runs' = DOMAIN runs \cup {n} /\ runs'[n].action = b
  /\ UNCHANGED <<settled, doc, opened>>

NothingMoves == UNCHANGED <<settled, doc, opened, runs>>

OneThingMoves ==
  NothingMoves \/ \E b \in Actions : SettlesOne(b) \/ OpensOne(b) \/ ClosesOne(b) \/ RunsOne(b)

LEMMA DecidesOne ==
  ASSUME LoopInv, NEW i \in Intents, NEW a \in Actions, Decides(i, a),
         UNCHANGED <<minted, shown, crashes, doc, opened, runs>>
  PROVE  OneThingMoves
<1>1. /\ \A b \in Actions : b # a => settled'[b] = settled[b]
      /\ a \notin Unminted =>
           /\ settled[a] = "undecided"
           /\ settled'[a] = IF ~Settled(i, a)' THEN "undecided"
                            ELSE IF Approved(i, a)' THEN "approved" ELSE "denied"
  BY DecisionKeepsConsent DEF LoopInv
<1>2. CASE ~Settled(i, a)'
  BY <1>2 DEF Decides, Settling, OneThingMoves, NothingMoves
<1>3. CASE Settled(i, a)'
  BY <1>1, <1>3 DEF OneThingMoves, SettlesOne
<1>4. QED BY <1>2, <1>3

LEMMA CommandOne ==
  ASSUME LoopInv, PolicyStep(Loop), opened' = opened \cup doc', UNCHANGED <<settled, runs>>
  PROVE  OneThingMoves
<1>1. PortMoves
  BY PolicyStepMoves DEF LoopInv
<1>2. doc \subseteq opened /\ P.at \in STEP
  BY PortTyped DEF LoopInv, Once
<1>3. CASE Stays
  BY <1>2, <1>3 DEF Stays, OneThingMoves, NothingMoves
<1>4. CASE Opens
  <2>1. Stage(Loop, "applying")
    <3>1. C.stage \in STAGE /\ (C.stage = "none" <=> ~InCall(Loop))
      BY DEF LoopInv, Typed, LoopTypeOK, BrokerTypeOK, C, InCall
    <3>2. loop.at \in {"idle", "acknowledging", "settling", "calling", "halting"}
      BY DEF LoopInv, Typed, LoopTypeOK
    <3>3. QED BY <1>4, <3>1, <3>2 DEF Opens, LoopInv, Phases, Closing, Stage, STAGE, C
  <2>2. InCall(Loop) /\ P.action = C.action
    BY <2>1 DEF Stage, InCall, LoopInv, Phases
  <2>3. /\ settled[P.action] = "approved" /\ P.action \notin opened /\ P.action \in Actions
    BY <1>4, <2>1, <2>2 DEF Opens, LoopInv, InHand, Once, Unused, Phases
  <2>4. QED BY <1>2, <1>4, <2>3 DEF Opens, OneThingMoves, OpensOne
<1>5. CASE Closes
  <2>1. P.action \in Actions
    BY <1>5 DEF Closes, LoopInv, BrokerIInv, BrokerTyped, PortHasAction, Working, At, P
  <2>2. opened' = opened
    BY <1>2, <1>5 DEF Closes
  <2>3. QED BY <1>5, <2>1, <2>2 DEF Closes, OneThingMoves, ClosesOne
<1>6. QED BY <1>1, <1>3, <1>4, <1>5 DEF PortMoves

LEMMA CallOne == ASSUME LoopInv, Call PROVE OneThingMoves
<1>1. /\ loop.at = "calling" /\ InCall(Loop) /\ opened' = opened \cup doc'
      /\ UNCHANGED settled
  BY DEF Call, LoopInv, Phases
<1>2. CASE Port(Loop)
  BY <1>1, <1>2, CommandOne DEF Port, brokerVars
<1>3. CASE Continue(Loop)
  <2>1. CallMoves /\ Stays
    BY <1>1, <1>3, ContinueMoves DEF LoopInv
  <2>2. UNCHANGED <<settled, doc, opened>>
    BY <1>1, <2>1 DEF Stays, LoopInv, Once
  <2>3. CASE UNCHANGED runs
    BY <2>2, <2>3 DEF OneThingMoves, NothingMoves
  <2>4. CASE /\ Stage(Loop, "calling")
             /\ runs' = Append(runs, [action |-> C.action, decision |-> C.decision, of |-> C.seq])
    <3>1. C \in CallType /\ C.action \in Actions
      BY <1>1 DEF LoopInv, BrokerIInv, BrokerTyped, CallsTyped, C, Phases, InHand
    <3>2. [action |-> C.action, decision |-> C.decision, of |-> C.seq] \in RunType
      BY <3>1 DEF CallType, RunType
    <3>3. /\ \A a : Ran(a)' <=> Ran(a) \/ a = C.action
          /\ DOMAIN runs' = DOMAIN runs \cup {Len(runs) + 1}
          /\ runs'[Len(runs) + 1].action = C.action
      BY <2>4, <3>2, ServedRan DEF LoopInv
    <3>4. C.action \in doc /\ ~Ran(C.action)
      BY <2>4 DEF LoopInv, Once
    <3>5. QED BY <2>2, <3>1, <3>3, <3>4 DEF OneThingMoves, RunsOne
  <2>5. QED BY <2>1, <2>3, <2>4 DEF CallMoves
<1>4. QED BY <1>2, <1>3 DEF Call

LEMMA CrashOne == ASSUME LoopInv, LoopCrash PROVE OneThingMoves
<1>1. UNCHANGED <<settled, runs>> /\ opened' = opened \cup doc'
  BY DEF LoopCrash, Crash
<1>2. doc \subseteq opened
  BY DEF LoopInv, Once
<1>3. CASE UNCHANGED doc
  BY <1>1, <1>2, <1>3 DEF OneThingMoves, NothingMoves
<1>4. CASE At(Loop, "apply-set") /\ doc' = Edited(Loop)
  <2>1. P.copy = doc /\ P.at = "apply-set"
    BY <1>4 DEF LoopInv, Phases, At, P
  <2>2. doc' = doc \cup {P.action}
    BY <1>4, <2>1 DEF Edited, At, P
  <2>3. Stage(Loop, "applying")
    <3>1. C.stage \in STAGE /\ (C.stage = "none" <=> ~InCall(Loop))
      BY DEF LoopInv, Typed, LoopTypeOK, BrokerTypeOK, C, InCall
    <3>2. loop.at \in {"idle", "acknowledging", "settling", "calling", "halting"}
      BY DEF LoopInv, Typed, LoopTypeOK
    <3>3. QED BY <2>1, <3>1, <3>2 DEF LoopInv, Phases, Closing, Stage, STAGE, C
  <2>4. InCall(Loop) /\ P.action = C.action
    BY <2>3 DEF Stage, InCall, LoopInv, Phases
  <2>5. settled[P.action] = "approved" /\ P.action \notin opened /\ P.action \in Actions
    BY <2>1, <2>3, <2>4 DEF LoopInv, InHand, Once, Unused, Phases
  <2>6. QED BY <1>1, <1>2, <2>2, <2>5 DEF OneThingMoves, OpensOne
<1>5. CASE At(Loop, "revert-set") /\ doc' = Edited(Loop)
  <2>1. P.copy = doc /\ P.at = "revert-set"
    BY <1>5 DEF LoopInv, Phases, At, P
  <2>2. doc' = doc \ {P.action}
    BY <1>5, <2>1 DEF Edited, At, P
  <2>3. P.action \in Actions
    BY <2>1 DEF LoopInv, BrokerIInv, BrokerTyped, PortHasAction, Working, At, P
  <2>4. opened' = opened
    BY <1>1, <1>2, <2>2
  <2>5. QED BY <1>1, <2>2, <2>3, <2>4 DEF OneThingMoves, ClosesOne
<1>6. QED BY <1>3, <1>4, <1>5 DEF LoopCrash, Crash, PolicyLost

LEMMA StepOne == LoopInv /\ [LoopNext]_allLoopVars => OneThingMoves
<1> SUFFICES ASSUME LoopInv, [LoopNext]_allLoopVars PROVE OneThingMoves
  OBVIOUS
<1>1. UNCHANGED allVars => UNCHANGED <<runs, doc, crashes>>
  BY BrokerSame
<1>2. ASSUME NEW i \in Intents, NEW a \in Actions, DecideAtDoor(i, a) PROVE OneThingMoves
  BY <1>1, <1>2, DecidesOne DEF DecideAtDoor, Decides
<1>3. ASSUME NEW a \in Actions, NEW v \in {"approve", "deny"}, NEW t \in Phones, Tap(a, v, t)
      PROVE  OneThingMoves
  <2>1. UNCHANGED <<minted, shown, crashes, doc, opened, runs>>
    BY <1>1, <1>3 DEF Tap
  <2>2. Decides(IntentOf[a], a) \/ UNCHANGED settled
    BY <1>3 DEF Tap, Decides
  <2>3. QED BY <2>1, <2>2, DecidesOne DEF OneThingMoves, NothingMoves
<1>4. CASE HaltCommand
  <2>1. PortMoves /\ P.at # "apply-set"
    BY <1>4, PolicyStepMoves DEF LoopInv, Phases, Closing, HaltCommand
  <2>2. opened' = opened /\ doc \subseteq opened
    BY <1>4 DEF HaltCommand, loopVars, LoopInv, Once
  <2>3. opened' = opened \cup doc'
    BY <2>1, <2>2 DEF PortMoves, Opens, Closes, Stays
  <2>4. QED BY <1>4, <2>3, CommandOne DEF HaltCommand, loopVars, brokerVars
<1>5. CASE Shown
  <2>1. UNCHANGED <<settled, opened>>
    BY <1>5 DEF Shown
  <2>2. CASE \E d \in Decision, expired \in BOOLEAN : Enters(d, expired)
    BY <2>1, <2>2 DEF Enters, Refuse, RefuseUnlogged, AdmitOnly, AdmitConsequential, policyVars,
                      OneThingMoves, NothingMoves
  <2>3. QED BY <1>1, <1>5, <2>1, <2>2, ShownBranches DEF OneThingMoves, NothingMoves
<1>6. ASSUME NEW i \in Intents, NEW p \in People, ProposeIntent(i, p) PROVE OneThingMoves
  BY <1>1, <1>6 DEF ProposeIntent, OneThingMoves, NothingMoves
<1>7. ASSUME NEW i \in Intents, NEW a \in Actions, PlanAction(i, a) PROVE OneThingMoves
  BY <1>1, <1>7 DEF PlanAction, OneThingMoves, NothingMoves
<1>8. ASSUME NEW a \in Actions, Escalate(a) PROVE OneThingMoves
  BY <1>1, <1>8 DEF Escalate, OneThingMoves, NothingMoves
<1>9. CASE Halt \/ Resume \/ SendFails \/ Acknowledged \/ HaltDone
  BY <1>1, <1>9 DEF Halt, Resume, SendFails, Acknowledged, HaltDone, OneThingMoves, NothingMoves
<1>10. CASE HaltStep
  BY <1>10 DEF HaltStep, brokerVars, OneThingMoves, NothingMoves
<1>11. CASE UNCHANGED allLoopVars
  BY <1>1, <1>11 DEF allLoopVars, loopVars, OneThingMoves, NothingMoves
<1>12. QED
  BY <1>2, <1>3, <1>4, <1>5, <1>6, <1>7, <1>8, <1>9, <1>10, <1>11, CallOne, CrashOne
     DEF LoopNext, Work

-----------------------------------------------------------------------------
(* authorize.js: a gated action reaches the service only while its          *)
(* capability is in the live policy.                                        *)
THEOREM LoopWindowTheorem == LoopSpec => RunsInWindow
<1> DEFINE InWindow ==
      \A k \in DOMAIN runs' \ DOMAIN runs :
        Serialised /\ TierOf(runs'[k].action) = "consequential" => runs'[k].action \in doc
<1>1. OneThingMoves => InWindow
  BY DEF OneThingMoves, NothingMoves, SettlesOne, OpensOne, ClosesOne, RunsOne
<1>2. LoopInv /\ [LoopNext]_allLoopVars => [InWindow]_allVars
  BY <1>1, StepOne
<1>3. QED BY <1>2, LoopInductive, PTL DEF LoopSpec, RunsInWindow

(* revertAll(): a HALT that has answered leaves nothing open.               *)
THEOREM HaltTheorem == LoopSpec => HaltCloses
<1>1. LoopInv => (HaltDone /\ Undisturbed => doc = {})
  BY DEF HaltDone, LoopInv, Tidy
<1>2. LoopInv /\ [LoopNext]_allLoopVars
        => [HaltDone /\ Undisturbed => doc = {}]_allLoopVars
  BY <1>1
<1>3. QED BY <1>2, LoopInductive, PTL DEF LoopSpec, HaltCloses

-----------------------------------------------------------------------------
(* The whole, step by step, against what it promises.                       *)
LEMMA GateStep == LoopInv /\ [LoopNext]_allLoopVars => [Gate!GateNext]_(Gate!gateVars)
<1> SUFFICES ASSUME LoopInv, OneThingMoves PROVE [Gate!GateNext]_(Gate!gateVars)
  BY StepOne
<1> DEFINE outcome == [a \in Gated |-> settled[a]]
           window == [a \in Gated |->
                        IF a \in doc THEN "open" ELSE IF a \in opened THEN "shut" ELSE "absent"]
           ran == [a \in Gated |-> Ran(a)]
<1>1. Gated \subseteq Actions /\ Gated \cap Unminted = {}
  BY DEF Gated
<1>2. UNCHANGED runs => ran' = ran
  BY DEF Ran
<1>3. doc \subseteq opened
  BY DEF LoopInv, Once
<1>4. CASE NothingMoves
  BY <1>2, <1>4 DEF NothingMoves, Gate!gateVars
<1>5. ASSUME NEW b \in Actions, SettlesOne(b) PROVE [Gate!GateNext]_(Gate!gateVars)
  <2>1. window' = window /\ ran' = ran
    BY <1>2, <1>5 DEF SettlesOne
  <2>2. CASE b \in Gated
    <3>1. outcome' = [outcome EXCEPT ![b] = settled'[b]]
      BY <1>1, <1>5 DEF SettlesOne
    <3>2. outcome[b] = "undecided" /\ settled'[b] \in {"approved", "denied"}
      BY <1>1, <1>5, <2>2 DEF SettlesOne
    <3>3. QED BY <2>1, <2>2, <3>1, <3>2 DEF Gate!GateNext, Gate!Decide
  <2>3. CASE b \notin Gated
    <3>1. outcome' = outcome
      BY <1>1, <1>5, <2>3 DEF SettlesOne
    <3>2. QED BY <2>1, <3>1 DEF Gate!gateVars
  <2>4. QED BY <2>2, <2>3
<1>6. ASSUME NEW b \in Actions, OpensOne(b) PROVE [Gate!GateNext]_(Gate!gateVars)
  <2>1. outcome' = outcome /\ ran' = ran
    BY <1>2, <1>6 DEF OpensOne
  <2>2. CASE b \in Gated
    <3>1. window' = [window EXCEPT ![b] = "open"]
      BY <1>6 DEF OpensOne
    <3>2. outcome[b] = "approved" /\ window[b] = "absent"
      BY <1>3, <1>6, <2>2 DEF OpensOne
    <3>3. QED BY <2>1, <2>2, <3>1, <3>2 DEF Gate!GateNext, Gate!OpenWindow
  <2>3. CASE b \notin Gated
    <3>1. window' = window
      BY <1>6, <2>3 DEF OpensOne
    <3>2. QED BY <2>1, <3>1 DEF Gate!gateVars
  <2>4. QED BY <2>2, <2>3
<1>7. ASSUME NEW b \in Actions, ClosesOne(b) PROVE [Gate!GateNext]_(Gate!gateVars)
  <2>1. outcome' = outcome /\ ran' = ran
    BY <1>2, <1>7 DEF ClosesOne
  <2>2. CASE b \in Gated /\ b \in doc
    <3>1. window' = [window EXCEPT ![b] = "shut"]
      BY <1>3, <1>7, <2>2 DEF ClosesOne
    <3>2. window[b] = "open"
      BY <2>2
    <3>3. QED BY <2>1, <2>2, <3>1, <3>2 DEF Gate!GateNext, Gate!ShutWindow
  <2>3. CASE b \notin Gated \/ b \notin doc
    <3>1. window' = window
      BY <1>7, <2>3 DEF ClosesOne
    <3>2. QED BY <2>1, <3>1 DEF Gate!gateVars
  <2>4. QED BY <2>2, <2>3
<1>8. ASSUME NEW b \in Actions, RunsOne(b) PROVE [Gate!GateNext]_(Gate!gateVars)
  <2>1. outcome' = outcome /\ window' = window
    BY <1>8 DEF RunsOne
  <2>2. \A a : Ran(a)' <=> Ran(a) \/ a = b
    BY <1>8 DEF RunsOne
  <2>3. CASE b \in Gated
    <3>1. ran' = [ran EXCEPT ![b] = TRUE]
      BY <2>2 DEF Ran
    <3>2. window[b] = "open" /\ ~ran[b]
      BY <1>8, <2>3 DEF RunsOne
    <3>3. QED BY <2>1, <2>3, <3>1, <3>2 DEF Gate!GateNext, Gate!Run
  <2>4. CASE b \notin Gated
    <3>1. ran' = ran
      BY <2>2, <2>4 DEF Ran
    <3>2. QED BY <2>1, <3>1 DEF Gate!gateVars
  <2>5. QED BY <2>3, <2>4
<1>9. QED BY <1>4, <1>5, <1>6, <1>7, <1>8 DEF OneThingMoves

LEMMA GateStart == LoopInit => Gate!GateInit
<1> SUFFICES ASSUME LoopInit PROVE Gate!GateInit
  OBVIOUS
<1>1. doc = {} /\ opened = {} /\ runs = <<>> /\ settled = [a \in Actions |-> "undecided"]
  BY DEF LoopInit, BrokerInit, PolicyInit
<1>2. \A a : Ran(a) = FALSE
  BY <1>1 DEF Ran
<1>3. Gated \subseteq Actions
  BY DEF Gated
<1>4. QED BY <1>1, <1>2, <1>3 DEF Gate!GateInit

(* The loop, the store, the Broker and the port together implement the gate: *)
(* every gated action is decided once, its window opens after an approval    *)
(* and only once, and it runs at most once and inside the window, whatever   *)
(* is tapped again, lost, late or cut short by a crash.                      *)
THEOREM GateTheorem == LoopSpec => KeepsTheGate
  BY GateStart, GateStep, LoopInductive, PTL DEF LoopSpec, KeepsTheGate, Gate!GateSpec
=============================================================================
