---------------------------- MODULE BrokerProofs ----------------------------
(***************************************************************************)
(* What the Broker guarantees for any number of callers that call it at    *)
(* the same time, any actions and decisions, and however many commands,    *)
(* appends and processes fail: only what is allowed reaches the service,   *)
(* and everything that reaches it was admitted on the record before.       *)
(***************************************************************************)
EXTENDS Broker, SequenceTheorems, TLAPS

CallType == [stage : STAGE, action : Actions \cup {NoAction},
             decision : Decisions \cup {NoDecision}, seq : Nat, threw : BOOLEAN]
RowType == [action : Actions, outcome : OUTCOME, of : Nat]
RunType == [action : Actions, decision : Decisions \cup {NoDecision}, of : Nat]

CallsTyped == call \in [Callers -> CallType]

(* An operation of the port that is under way is about an action.          *)
PortHasAction == \A c \in Callers : Working(c) => port[c].action \in Actions

(* A call that is under way may run its action, and was admitted.          *)
CallIsAdmitted(c) ==
  InCall(c) =>
    /\ call[c].action \in Actions
    /\ RunIsAllowed(call[c])
    /\ call[c].seq \in DOMAIN rows
    /\ rows[call[c].seq] = Row(call[c].action, "admitted", 0)

(* Two calls never stand on one row.                                       *)
CallsDistinct ==
  \A c, e \in Callers : InCall(c) /\ InCall(e) /\ call[c].seq = call[e].seq => c = e

(* The service is called once in a call.                                   *)
Before(c) == Stage(c, "applying") \/ Stage(c, "calling")
NotYetRun == \A c \in Callers, k \in DOMAIN runs : Before(c) => runs[k].of # call[c].seq

Evidence ==
  /\ \A c \in Callers : CallIsAdmitted(c)
  /\ CallsDistinct
  /\ NotYetRun
  /\ RunsAreAllowed
  /\ RunsHaveEvidence

BrokerTyped == BrokerTypeOK /\ CallsTyped /\ PortHasAction

BrokerIInv == BrokerTyped /\ Evidence

-----------------------------------------------------------------------------
USE ActionAssumption, PolicyAssumption, BrokerAssumption

(* The ledger only grows.                                                  *)
Grown ==
  /\ rows' \in Seq(RowType)
  /\ Len(rows') \in Nat /\ Len(rows') >= Len(rows)
  /\ \A k \in 1..Len(rows) : rows'[k] = rows[k]

LEMMA RowInType ==
  ASSUME NEW a \in Actions, NEW o \in OUTCOME, NEW n \in Nat
  PROVE  Row(a, o, n) \in RowType
  BY DEF Row, RowType

LEMMA RowsTyped == BrokerTypeOK => rows \in Seq(RowType) /\ Len(rows) \in Nat
  BY LenProperties DEF BrokerTypeOK, RowType

LEMMA OneRow ==
  ASSUME BrokerTypeOK, NEW r \in RowType, rows' = Append(rows, r)
  PROVE  Grown /\ Len(rows') = Len(rows) + 1 /\ rows'[Len(rows) + 1] = r
  BY RowsTyped, AppendProperties DEF Grown

LEMMA RowsSame == ASSUME BrokerTypeOK, UNCHANGED rows PROVE Grown
  BY RowsTyped DEF Grown

LEMMA RecordGrows ==
  ASSUME BrokerTypeOK, NEW r \in RowType, Record(r)
  PROVE  Grown /\ logErrors' \in 0..MaxLogErrors
<1>1. logErrors \in 0..MaxLogErrors
  BY DEF BrokerTypeOK
<1>2. QED BY <1>1, OneRow, RowsSame DEF Record

LEMMA TwoRows ==
  ASSUME BrokerTypeOK, NEW r \in RowType, NEW s \in RowType, rows' = rows \o <<r, s>>
  PROVE  Grown
<1>1. rows \in Seq(RowType) /\ Len(rows) \in Nat
  BY RowsTyped
<1>2. <<r, s>> \in Seq(RowType) /\ Len(<<r, s>>) = 2
  OBVIOUS
<1>3. rows' \in Seq(RowType) /\ Len(rows') = Len(rows) + 2
  BY <1>1, <1>2, ConcatProperties
<1>4. \A k \in 1..Len(rows) : rows'[k] = rows[k]
  BY <1>1, <1>2, ConcatProperties
<1>5. QED BY <1>1, <1>3, <1>4 DEF Grown

-----------------------------------------------------------------------------
(* The port on its own.                                                    *)
LEMMA GotoTyped ==
  ASSUME PolicyTypeOK, PortHasAction, NEW c \in Callers, Working(c),
         NEW s \in STEP, NEW w \in SUBSET Actions,
         port' = [port EXCEPT ![c] = [@ EXCEPT !.at = s, !.copy = w]]
  PROVE  /\ port' \in [Callers -> [at : STEP, action : Actions \cup {NoAction},
                                   copy : SUBSET Actions]]
         /\ PortHasAction'
<1>1. port[c] \in [at : STEP, action : Actions \cup {NoAction}, copy : SUBSET Actions]
  BY DEF PolicyTypeOK
<1>2. port[c].action \in Actions
  BY DEF PortHasAction
<1> DEFINE p == [port[c] EXCEPT !.at = s, !.copy = w]
<1>3. p \in [at : STEP, action : Actions \cup {NoAction}, copy : SUBSET Actions]
  BY <1>1, <1>2
<1>4. p.action \in Actions
  BY <1>1, <1>2
<1>5. port' = [port EXCEPT ![c] = p]
  OBVIOUS
<1> HIDE DEF p
<1>6. QED BY <1>3, <1>4, <1>5 DEF PolicyTypeOK, PortHasAction, Working, At

LEMMA FinishTyped ==
  ASSUME PolicyTypeOK, PortHasAction, NEW c \in Callers, Working(c),
         NEW s \in STEP, Finish(c, s)
  PROVE  /\ port' \in [Callers -> [at : STEP, action : Actions \cup {NoAction},
                                   copy : SUBSET Actions]]
         /\ PortHasAction'
  BY GotoTyped, {} \in SUBSET Actions DEF Finish

LEMMA PolicyStepTyped ==
  ASSUME PolicyTypeOK, PortHasAction, NEW c \in Callers, PolicyStep(c)
  PROVE  PolicyTypeOK' /\ PortHasAction'
<1>1. Working(c)
  BY DEF PolicyStep, Read, SetApply, SetRevert, Verify, CommandFails, SetLate, Working, At
<1>2. port[c].action \in Actions /\ port[c].copy \in SUBSET Actions
  BY <1>1 DEF PortHasAction, PolicyTypeOK
<1>3. doc \in SUBSET Actions /\ open \in SUBSET Actions /\ lateSets \in 0..MaxLateSets
  BY DEF PolicyTypeOK
<1>4. Edited(c) \in SUBSET Actions
  BY <1>2 DEF Edited
<1>5. /\ "apply-set" \in STEP /\ "revert-set" \in STEP /\ "verify" \in STEP
      /\ "done" \in STEP /\ "failed" \in STEP
  BY DEF STEP
<1>6. CASE Read(c)
  BY <1>1, <1>3, <1>5, <1>6, GotoTyped, FinishTyped DEF Read, PolicyTypeOK
<1>7. CASE SetApply(c)
  BY <1>1, <1>2, <1>3, <1>4, <1>5, <1>7, FinishTyped DEF SetApply, PolicyTypeOK
<1>8. CASE SetRevert(c)
  BY <1>1, <1>3, <1>4, <1>5, <1>8, FinishTyped DEF SetRevert, PolicyTypeOK
<1>9. CASE Verify(c)
  <2>1. (IF Grants(RequestOf[port[c].action]) THEN "failed" ELSE "done") \in STEP
    BY <1>5
  <2>2. QED BY <1>1, <1>3, <1>9, <2>1, FinishTyped DEF Verify, PolicyTypeOK
<1>10. CASE CommandFails(c)
  BY <1>1, <1>3, <1>5, <1>10, FinishTyped DEF CommandFails, PolicyTypeOK
<1>11. CASE SetLate(c)
  BY <1>1, <1>3, <1>4, <1>5, <1>11, FinishTyped DEF SetLate, PolicyTypeOK
<1>12. QED BY <1>6, <1>7, <1>8, <1>9, <1>10, <1>11 DEF PolicyStep

LEMMA EnterTyped ==
  ASSUME PolicyTypeOK, PortHasAction, NEW c \in Callers, NEW a \in Actions,
         EnterApply(c, a) \/ EnterRevert(c, a), UNCHANGED <<doc, open, lateSets>>
  PROVE  PolicyTypeOK' /\ PortHasAction'
  BY DEF PolicyTypeOK, PortHasAction, Working, At, STEP, EnterApply, EnterRevert

LEMMA IdleTyped ==
  ASSUME PolicyTypeOK, PortHasAction, NEW c \in Callers,
         port' = [port EXCEPT ![c] = Idle], UNCHANGED <<doc, open, lateSets>>
  PROVE  PolicyTypeOK' /\ PortHasAction'
  BY DEF PolicyTypeOK, PortHasAction, Working, At, STEP, Idle

LEMMA PolicyLostTyped ==
  ASSUME PolicyTypeOK, PortHasAction, PolicyLost
  PROVE  PolicyTypeOK' /\ PortHasAction'
  BY DEF PolicyTypeOK, PortHasAction, Working, At, STEP, Idle, PolicyLost, Edited

LEMMA PolicySame ==
  ASSUME PolicyTypeOK, PortHasAction, UNCHANGED policyVars
  PROVE  PolicyTypeOK' /\ PortHasAction'
  BY DEF PolicyTypeOK, PortHasAction, Working, At, policyVars

-----------------------------------------------------------------------------
(* What a step may do to a call: leave it, end it, take it further, or      *)
(* start it on a row that is not on the record yet.                         *)
Moves(c) ==
  \/ call'[c].stage = "none"
  \/ /\ InCall(c)
     /\ call'[c].action = call[c].action
     /\ call'[c].decision = call[c].decision
     /\ call'[c].seq = call[c].seq
     /\ Before(c)' => Before(c)

Begins(c) ==
  /\ call'[c].action \in Actions
  /\ RunIsAllowed(call'[c])
  /\ call'[c].seq = Len(rows) + 1
  /\ Len(rows') = Len(rows) + 1
  /\ rows'[Len(rows) + 1] = Row(call'[c].action, "admitted", 0)

LEMMA CallsKeepEvidence ==
  ASSUME BrokerTypeOK, Evidence, Grown, UNCHANGED runs, NEW b \in Callers,
         \A c \in Callers : c # b => Moves(c),
         Moves(b) \/ Begins(b)
  PROVE  Evidence'
<1>1. Len(rows) \in Nat /\ DOMAIN rows = 1..Len(rows) /\ DOMAIN rows' = 1..Len(rows')
  BY RowsTyped, LenProperties DEF Grown
<1>2. DOMAIN rows \subseteq DOMAIN rows' /\ \A k \in DOMAIN rows : rows'[k] = rows[k]
  BY <1>1 DEF Grown
<1>3. \A c \in Callers : Moves(c) /\ InCall(c)' =>
        /\ InCall(c) /\ call'[c].action = call[c].action
        /\ call'[c].decision = call[c].decision /\ call'[c].seq = call[c].seq
        /\ call[c].seq \in DOMAIN rows
  BY DEF Moves, InCall, Evidence, CallIsAdmitted
<1>4. \A c \in Callers : Moves(c) => CallIsAdmitted(c)'
  <2> SUFFICES ASSUME NEW c \in Callers, Moves(c), InCall(c)'
               PROVE  /\ call'[c].action \in Actions
                      /\ RunIsAllowed(call'[c])
                      /\ call'[c].seq \in DOMAIN rows'
                      /\ rows'[call'[c].seq] = Row(call'[c].action, "admitted", 0)
    BY DEF CallIsAdmitted
  <2>1. CallIsAdmitted(c) /\ InCall(c)
    BY <1>3 DEF Evidence
  <2>2. QED BY <1>2, <1>3, <2>1 DEF CallIsAdmitted, RunIsAllowed
<1>5. Begins(b) => CallIsAdmitted(b)'
  BY <1>1 DEF Begins, CallIsAdmitted
<1>6. CallsDistinct'
  <2>1. SUFFICES ASSUME NEW c \in Callers, NEW e \in Callers, InCall(c)', InCall(e)',
                        call'[c].seq = call'[e].seq, c # e
                 PROVE  FALSE
    BY DEF CallsDistinct
  <2>2. CASE Moves(c) /\ Moves(e)
    BY <1>3, <2>1, <2>2 DEF Evidence, CallsDistinct
  <2>3. CASE Begins(b) /\ c = b /\ Moves(e)
    BY <1>1, <1>3, <2>1, <2>3 DEF Begins
  <2>4. CASE Begins(b) /\ e = b /\ Moves(c)
    BY <1>1, <1>3, <2>1, <2>4 DEF Begins
  <2>5. QED BY <2>1, <2>2, <2>3, <2>4
<1>7. NotYetRun'
  <2>1. SUFFICES ASSUME NEW c \in Callers, NEW k \in DOMAIN runs, Before(c)'
                 PROVE  runs[k].of # call'[c].seq
    BY DEF NotYetRun
  <2>2. InCall(c)'
    BY <2>1 DEF Before, Stage, InCall
  <2>3. CASE Moves(c)
    BY <1>3, <2>1, <2>2, <2>3 DEF Evidence, NotYetRun, Moves, InCall
  <2>4. CASE Begins(b) /\ c = b
    <3>1. runs[k].of \in DOMAIN rows
      BY DEF Evidence, RunsHaveEvidence
    <3>2. QED BY <1>1, <2>4, <3>1 DEF Begins
  <2>5. QED BY <2>3, <2>4
<1>8. RunsAreAllowed'
  BY DEF Evidence, RunsAreAllowed, RunIsAllowed
<1>9. RunsHaveEvidence'
  BY <1>2 DEF Evidence, RunsHaveEvidence, Row
<1>10. QED BY <1>4, <1>5, <1>6, <1>7, <1>8, <1>9 DEF Evidence

(* The service acts: the run takes the row of its call with it.             *)
LEMMA ServeKeepsEvidence ==
  ASSUME BrokerTyped, Evidence, NEW c \in Callers, Serve(c)
  PROVE  Evidence'
<1> DEFINE r == [action |-> call[c].action, decision |-> call[c].decision,
                 of |-> call[c].seq]
<1>1. runs' = Append(runs, r) /\ UNCHANGED rows
  BY DEF Serve
<1>2. runs \in Seq(RunType) /\ Len(runs) \in Nat /\ DOMAIN runs = 1..Len(runs)
  BY LenProperties DEF BrokerTyped, BrokerTypeOK, RunType
<1>3. call \in [Callers -> CallType]
  BY DEF BrokerTyped, CallsTyped
<1>4. InCall(c) /\ Before(c)
  BY DEF Serve, Stage, InCall, Before
<1>5. CallIsAdmitted(c)
  BY DEF Evidence
<1>6. call[c].action \in Actions /\ RunIsAllowed(call[c]) /\ call[c].seq \in DOMAIN rows
      /\ rows[call[c].seq] = Row(call[c].action, "admitted", 0)
  BY <1>4, <1>5 DEF CallIsAdmitted
<1>7. r \in RunType
  BY <1>3, <1>6 DEF RunType, CallType
<1>8. /\ DOMAIN runs' = 1..Len(runs) + 1 /\ runs'[Len(runs) + 1] = r
      /\ \A k \in DOMAIN runs : runs'[k] = runs[k]
  BY <1>1, <1>2, <1>7, AppendProperties
<1>9. r.action = call[c].action /\ r.decision = call[c].decision /\ r.of = call[c].seq
  OBVIOUS
<1>10. call' = [call EXCEPT ![c].stage = "answered"]
  BY DEF Serve, Move
<1>11. \A e \in Callers :
         /\ call'[e].action = call[e].action /\ call'[e].decision = call[e].decision
         /\ call'[e].seq = call[e].seq
         /\ InCall(e)' => InCall(e)
         /\ Before(e)' => Before(e) /\ e # c
  BY <1>3, <1>4, <1>10 DEF CallType, InCall, Before, Stage
<1> HIDE DEF r
<1>12. \A e \in Callers : CallIsAdmitted(e)'
  BY <1>1, <1>11 DEF Evidence, CallIsAdmitted, RunIsAllowed
<1>13. CallsDistinct'
  BY <1>11 DEF Evidence, CallsDistinct
<1>14. \A k \in DOMAIN runs : runs[k].of # call[c].seq
  BY <1>4 DEF Evidence, NotYetRun
<1>15. NotYetRun'
  <2>1. SUFFICES ASSUME NEW e \in Callers, NEW k \in DOMAIN runs', Before(e)'
                 PROVE  runs'[k].of # call'[e].seq
    BY DEF NotYetRun
  <2>2. CASE k \in DOMAIN runs
    BY <1>8, <1>11, <2>1, <2>2 DEF Evidence, NotYetRun
  <2>3. CASE k = Len(runs) + 1
    <3>1. InCall(e) /\ e # c /\ call'[e].seq = call[e].seq
      BY <1>11, <2>1 DEF Before, Stage, InCall
    <3>2. call[e].seq # call[c].seq
      BY <1>4, <3>1 DEF Evidence, CallsDistinct
    <3>3. QED BY <1>8, <1>9, <2>3, <3>1, <3>2
  <2>4. QED BY <1>2, <1>8, <2>1, <2>2, <2>3
<1>16. RunIsAllowed(r)
  BY <1>6, <1>9 DEF RunIsAllowed
<1>17. RunsAreAllowed'
  <2>1. SUFFICES ASSUME NEW k \in DOMAIN runs' PROVE RunIsAllowed(runs'[k])
    BY DEF RunsAreAllowed, RunIsAllowed
  <2>2. CASE k \in DOMAIN runs
    BY <1>8, <2>2 DEF Evidence, RunsAreAllowed
  <2>3. CASE k = Len(runs) + 1
    BY <1>8, <1>16, <2>3
  <2>4. QED BY <1>2, <1>8, <2>1, <2>2, <2>3
<1>18. RunsHaveEvidence'
  <2>1. SUFFICES ASSUME NEW k \in DOMAIN runs'
                 PROVE  /\ runs'[k].of \in DOMAIN rows
                        /\ rows[runs'[k].of] = Row(runs'[k].action, "admitted", 0)
                        /\ \A j \in DOMAIN runs' : runs'[j].of = runs'[k].of => j = k
    BY <1>1 DEF RunsHaveEvidence, Row
  <2>2. \A j \in DOMAIN runs' : j \in DOMAIN runs \/ j = Len(runs) + 1
    BY <1>2, <1>8
  <2>3. CASE k \in DOMAIN runs
    BY <1>8, <1>9, <1>14, <2>2, <2>3 DEF Evidence, RunsHaveEvidence
  <2>4. CASE k = Len(runs) + 1
    BY <1>6, <1>8, <1>9, <1>14, <2>2, <2>4
  <2>5. QED BY <2>1, <2>2, <2>3, <2>4
<1>19. QED BY <1>12, <1>13, <1>15, <1>17, <1>18 DEF Evidence

-----------------------------------------------------------------------------
(* The types after a step that touches one call at most.                    *)
Counted ==
  /\ halted' \subseteq Actions
  /\ calls' \in 0..MaxCalls /\ logErrors' \in 0..MaxLogErrors /\ crashes' \in 0..MaxCrashes

LEMMA OneCallTyped ==
  ASSUME BrokerTyped, Grown, PolicyTypeOK', PortHasAction', Counted,
         runs' \in Seq(RunType), undoable' \subseteq DOMAIN rows',
         NEW b \in Callers, NEW x \in CallType, x.seq <= Len(rows'),
         call' = [call EXCEPT ![b] = x] \/ UNCHANGED call
  PROVE  BrokerTyped'
<1>1. call \in [Callers -> CallType] /\ Len(rows) \in Nat
  BY RowsTyped DEF BrokerTyped, CallsTyped
<1>2. \A c \in Callers : call[c].seq <= Len(rows)
  BY <1>1 DEF BrokerTyped, BrokerTypeOK
<1>3. call' \in [Callers -> CallType]
  BY <1>1
<1>4. \A c \in Callers : call'[c] = call[c] \/ call'[c] = x
  BY <1>1
<1>5. \A c \in Callers : call'[c].seq <= Len(rows')
  <2>1. SUFFICES ASSUME NEW c \in Callers PROVE call'[c].seq <= Len(rows')
    OBVIOUS
  <2>2. call[c].seq \in Nat /\ call[c].seq <= Len(rows) /\ Len(rows) <= Len(rows') /\ Len(rows') \in Nat
    BY <1>1, <1>2 DEF CallType, Grown
  <2>3. QED BY <1>4, <2>2
<1>6. \A c \in Callers :
        /\ call'[c].stage \in STAGE
        /\ call'[c].action \in Actions \cup {NoAction}
        /\ call'[c].decision \in Decisions \cup {NoDecision}
        /\ call'[c].threw \in BOOLEAN
        /\ call'[c].seq \in Nat
  BY <1>3 DEF CallType
<1>7. \A c \in Callers : call'[c].seq \in 0..Len(rows')
  BY <1>5, <1>6 DEF Grown
<1>8. BrokerTypeOK'
  BY <1>6, <1>7 DEF BrokerTypeOK, Grown, Counted, RowType, RunType
<1>9. QED BY <1>3, <1>8 DEF BrokerTyped, CallsTyped

LEMMA NoCallType == NoCall \in CallType /\ NoCall.seq = 0 /\ NoCall.stage = "none"
  BY DEF NoCall, CallType, STAGE

(* What most steps leave alone.                                             *)
LEMMA QuietTypes ==
  ASSUME BrokerTyped, Grown
  PROVE  /\ UNCHANGED runs => runs' \in Seq(RunType)
         /\ UNCHANGED undoable => undoable' \subseteq DOMAIN rows'
         /\ UNCHANGED <<halted, calls, logErrors, crashes>> => Counted
<1>1. DOMAIN rows = 1..Len(rows) /\ DOMAIN rows' = 1..Len(rows') /\ Len(rows) \in Nat
  BY RowsTyped, LenProperties DEF Grown, BrokerTyped
<1>2. DOMAIN rows \subseteq DOMAIN rows'
  BY <1>1 DEF Grown
<1>3. QED BY <1>2 DEF BrokerTyped, BrokerTypeOK, RunType, Counted

-----------------------------------------------------------------------------
(* One lemma per kind of step.  The entry of a call that goes no further.   *)
LEMMA EntryCounted ==
  ASSUME BrokerTyped, NEW c \in Callers, Entering(c), UNCHANGED <<halted, crashes>>,
         logErrors' \in 0..MaxLogErrors
  PROVE  Counted
  BY DEF BrokerTyped, BrokerTypeOK, Entering, Counted

LEMMA NoCallKeeps ==
  ASSUME BrokerIInv, Grown, NEW c \in Callers, Counted,
         UNCHANGED <<call, runs, undoable, policyVars>>
  PROVE  BrokerIInv'
<1>1. BrokerTyped'
  <2>1. PolicyTypeOK' /\ PortHasAction'
    BY PolicySame DEF BrokerIInv, BrokerTyped, BrokerTypeOK
  <2>2. NoCall \in CallType /\ NoCall.seq <= Len(rows')
    BY NoCallType DEF Grown
  <2>3. QED BY <2>1, <2>2, QuietTypes, OneCallTyped DEF BrokerIInv
<1>2. \A e \in Callers : Moves(e)
  BY DEF Moves, InCall, Before, Stage, BrokerIInv, BrokerTyped, BrokerTypeOK, STAGE
<1>3. Evidence'
  BY <1>2, CallsKeepEvidence DEF BrokerIInv, BrokerTyped
<1>4. QED BY <1>1, <1>3 DEF BrokerIInv

LEMMA RefuseKeeps ==
  ASSUME BrokerIInv, NEW c \in Callers, NEW a \in Actions, Refuse(c, a)
  PROVE  BrokerIInv'
<1>1. Row(a, "refused", 0) \in RowType
  BY RowInType DEF OUTCOME
<1>2. Grown /\ logErrors' \in 0..MaxLogErrors
  BY <1>1, RecordGrows DEF Refuse, BrokerIInv, BrokerTyped
<1>3. QED BY <1>2, EntryCounted, NoCallKeeps DEF Refuse, BrokerIInv

LEMMA RefuseUnloggedKeeps ==
  ASSUME BrokerIInv, NEW c \in Callers, NEW a \in Actions, RefuseUnlogged(c, a)
  PROVE  BrokerIInv'
<1>1. Grown
  BY RowsSame DEF RefuseUnlogged, NotAdmitted, BrokerIInv, BrokerTyped
<1>2. logErrors' \in 0..MaxLogErrors
  BY DEF RefuseUnlogged, NotAdmitted, BrokerIInv, BrokerTyped, BrokerTypeOK
<1>3. QED BY <1>1, <1>2, EntryCounted, NoCallKeeps DEF RefuseUnlogged, BrokerIInv

LEMMA AdmittedGrows ==
  ASSUME BrokerTyped, NEW a \in Actions, Admitted(a)
  PROVE  /\ Grown /\ logErrors' \in 0..MaxLogErrors
         /\ Len(rows') = Len(rows) + 1
         /\ rows'[Len(rows) + 1] = Row(a, "admitted", 0)
<1>1. Row(a, "admitted", 0) \in RowType
  BY RowInType DEF OUTCOME
<1>2. QED BY <1>1, OneRow DEF Admitted, BrokerTyped, BrokerTypeOK

LEMMA AdmitOnlyKeeps ==
  ASSUME BrokerIInv, NEW c \in Callers, NEW a \in Actions,
         NEW d \in Decisions \cup {NoDecision}, NEW expired \in BOOLEAN,
         AdmitOnly(c, a, d, expired)
  PROVE  BrokerIInv'
<1>1. Row(a, "refused", 0) \in RowType /\ Row(a, "admitted", 0) \in RowType
  BY RowInType DEF OUTCOME
<1>2. logErrors \in 0..MaxLogErrors /\ BrokerTypeOK
  BY DEF BrokerIInv, BrokerTyped, BrokerTypeOK
<1>3. Grown /\ logErrors' \in 0..MaxLogErrors
  BY <1>1, <1>2, OneRow, TwoRows, AdmittedGrows DEF AdmitOnly, BrokerIInv
<1>4. QED BY <1>3, EntryCounted, NoCallKeeps DEF AdmitOnly, BrokerIInv

(* The entry of a call that goes on.                                        *)
LEMMA BeginKeeps ==
  ASSUME BrokerIInv, NEW c \in Callers, NEW a \in Actions,
         NEW d \in Decisions \cup {NoDecision}, NEW s \in STAGE,
         Entering(c), Admitted(a), Begin(c, a, d, s),
         RunIsAllowed([stage |-> s, action |-> a, decision |-> d,
                       seq |-> Len(rows'), threw |-> FALSE]),
         PolicyTypeOK', PortHasAction', UNCHANGED <<runs, undoable, halted, crashes>>
  PROVE  BrokerIInv'
<1> DEFINE x == [stage |-> s, action |-> a, decision |-> d,
                 seq |-> Len(rows'), threw |-> FALSE]
<1>1. Grown /\ logErrors' \in 0..MaxLogErrors /\ Len(rows') = Len(rows) + 1
      /\ rows'[Len(rows) + 1] = Row(a, "admitted", 0)
  BY AdmittedGrows DEF BrokerIInv
<1>2. x \in CallType /\ x.seq = Len(rows')
  BY <1>1 DEF CallType, Grown
<1>3. x.seq <= Len(rows')
  BY <1>1, <1>2 DEF Grown
<1>4. call' = [call EXCEPT ![c] = x]
  BY DEF Begin
<1>5. x.action = a
  OBVIOUS
<1>6. RunIsAllowed(x)
  OBVIOUS
<1> HIDE DEF x
<1>7. BrokerTyped'
  BY <1>1, <1>2, <1>3, <1>4, QuietTypes, EntryCounted, OneCallTyped DEF BrokerIInv
<1>8. call \in [Callers -> CallType]
  BY DEF BrokerIInv, BrokerTyped, CallsTyped
<1>9. \A e \in Callers : e # c => Moves(e)
  BY <1>4, <1>8 DEF Moves, InCall, Before, Stage, CallType, STAGE
<1>10. Begins(c)
  BY <1>1, <1>2, <1>4, <1>5, <1>6, <1>8 DEF Begins, RunIsAllowed
<1>11. Evidence'
  BY <1>1, <1>9, <1>10, CallsKeepEvidence DEF BrokerIInv, BrokerTyped
<1>12. QED BY <1>7, <1>11 DEF BrokerIInv

(* A read is safe and needs no way back; a contained write has one.         *)
LEMMA AdmitContainedKeeps ==
  ASSUME BrokerIInv, NEW c \in Callers, NEW a \in Actions, AdmitContained(c, a)
  PROVE  BrokerIInv'
<1> DEFINE x == [stage |-> "calling", action |-> a, decision |-> NoDecision,
                 seq |-> Len(rows'), threw |-> FALSE]
<1>1. TierOf(a) \in {"safe", "contained"} /\ (TierOf(a) = "contained" => HasWayBack(a))
  BY DEF AdmitContained
<1>2. TierOf(a) = "safe" => HasWayBack(a)
  BY DEF TierOf, classify, isWrite, HasWayBack, requiresInverse
<1>3. HasWayBack(a) /\ TierOf(a) # "consequential"
  BY <1>1, <1>2
<1>4. RunIsAllowed(x)
  BY <1>1, <1>3 DEF RunIsAllowed
<1>5. PolicyTypeOK' /\ PortHasAction'
  BY PolicySame DEF AdmitContained, BrokerIInv, BrokerTyped, BrokerTypeOK
<1>6. "calling" \in STAGE
  BY DEF STAGE
<1>7. QED BY <1>4, <1>5, <1>6, BeginKeeps DEF AdmitContained

LEMMA AdmitConsequentialKeeps ==
  ASSUME BrokerIInv, NEW c \in Callers, NEW a \in Actions,
         NEW d \in Decisions \cup {NoDecision}, NEW expired \in BOOLEAN,
         AdmitConsequential(c, a, d, expired)
  PROVE  BrokerIInv'
<1> DEFINE x == [stage |-> "applying", action |-> a, decision |-> d,
                 seq |-> Len(rows'), threw |-> FALSE]
<1>1. RunIsAllowed(x)
  BY DEF AdmitConsequential, verifyDecision, RunIsAllowed
<1>2. PolicyTypeOK' /\ PortHasAction'
  BY EnterTyped DEF AdmitConsequential, BrokerIInv, BrokerTyped, BrokerTypeOK
<1>3. "applying" \in STAGE
  BY DEF STAGE
<1>4. QED BY <1>1, <1>2, <1>3, BeginKeeps DEF AdmitConsequential

-----------------------------------------------------------------------------
(* A call that goes on, or ends.                                            *)
LEMMA MoveKeeps ==
  ASSUME BrokerIInv, Grown, Counted, PolicyTypeOK', PortHasAction',
         UNCHANGED runs, undoable' \subseteq DOMAIN rows',
         NEW c \in Callers, InCall(c), NEW x \in CallType,
         call' = [call EXCEPT ![c] = x],
         \/ x = NoCall
         \/ /\ x.action = call[c].action /\ x.decision = call[c].decision
            /\ x.seq = call[c].seq
            /\ x.stage \in {"applying", "calling"} => Before(c)
  PROVE  BrokerIInv'
<1>1. call \in [Callers -> CallType]
  BY DEF BrokerIInv, BrokerTyped, CallsTyped
<1>2. Moves(c)
  BY <1>1, NoCallType DEF Moves, Before, Stage
<1>3. \A e \in Callers : e # c => Moves(e)
  BY <1>1 DEF Moves, InCall, Before, Stage
<1>4. Evidence'
  BY <1>2, <1>3, CallsKeepEvidence DEF BrokerIInv, BrokerTyped
<1>5. call[c].seq <= Len(rows') /\ 0 <= Len(rows')
  <2>1. call[c].seq \in Nat /\ call[c].seq <= Len(rows) /\ Len(rows) \in Nat
    BY <1>1, RowsTyped DEF BrokerIInv, BrokerTyped, BrokerTypeOK, CallType
  <2>2. QED BY <2>1 DEF Grown
<1>6. x.seq <= Len(rows')
  BY <1>5, NoCallType
<1>7. BrokerTyped'
  BY <1>6, QuietTypes, OneCallTyped DEF BrokerIInv
<1>8. QED BY <1>4, <1>7 DEF BrokerIInv

(* The record a call leaves behind when it moves on.                        *)
LEMMA MoveRecord ==
  ASSUME BrokerIInv, NEW c \in Callers, NEW s \in STAGE, Move(c, s)
  PROVE  \E x \in CallType :
           /\ call' = [call EXCEPT ![c] = x]
           /\ x.action = call[c].action /\ x.decision = call[c].decision
           /\ x.seq = call[c].seq /\ x.stage = s
<1> DEFINE x == [call[c] EXCEPT !.stage = s]
<1>1. call[c] \in CallType
  BY DEF BrokerIInv, BrokerTyped, CallsTyped
<1>2. /\ x \in CallType /\ x.action = call[c].action /\ x.decision = call[c].decision
      /\ x.seq = call[c].seq /\ x.stage = s
  BY <1>1 DEF CallType
<1>3. call' = [call EXCEPT ![c] = x]
  BY DEF Move
<1> HIDE DEF x
<1>4. QED BY <1>2, <1>3

LEMMA RevertingRecord ==
  ASSUME BrokerIInv, NEW c \in Callers, NEW t \in BOOLEAN,
         call' = [call EXCEPT ![c] = [@ EXCEPT !.stage = "reverting", !.threw = t]]
  PROVE  \E x \in CallType :
           /\ call' = [call EXCEPT ![c] = x]
           /\ x.action = call[c].action /\ x.decision = call[c].decision
           /\ x.seq = call[c].seq /\ x.stage = "reverting"
<1> DEFINE x == [call[c] EXCEPT !.stage = "reverting", !.threw = t]
<1>1. call[c] \in CallType
  BY DEF BrokerIInv, BrokerTyped, CallsTyped
<1>2. /\ x \in CallType /\ x.action = call[c].action /\ x.decision = call[c].decision
      /\ x.seq = call[c].seq /\ x.stage = "reverting"
  BY <1>1 DEF CallType, STAGE
<1>3. call' = [call EXCEPT ![c] = x]
  OBVIOUS
<1> HIDE DEF x
<1>4. QED BY <1>2, <1>3

LEMMA InCallHasAction ==
  ASSUME BrokerIInv, NEW c \in Callers, InCall(c) PROVE call[c].action \in Actions
  BY DEF BrokerIInv, Evidence, CallIsAdmitted

LEMMA StagesInCall ==
  ASSUME NEW c \in Callers, NEW s \in STAGE \ {"none"}, Stage(c, s) PROVE InCall(c)
  BY DEF Stage, InCall

LEMMA PortKeeps == ASSUME BrokerIInv, NEW c \in Callers, Port(c) PROVE BrokerIInv'
<1>1. PolicyTypeOK' /\ PortHasAction'
  BY PolicyStepTyped DEF Port, BrokerIInv, BrokerTyped, BrokerTypeOK
<1>2. UNCHANGED <<call, rows, runs, undoable, halted, calls, logErrors, crashes>>
  BY DEF Port, brokerVars
<1>3. Grown
  BY <1>2, RowsSame DEF BrokerIInv, BrokerTyped
<1>4. \A e \in Callers : Moves(e)
  BY <1>2 DEF Moves, InCall, Before, Stage
<1>5. Evidence'
  BY <1>2, <1>3, <1>4, CallsKeepEvidence DEF BrokerIInv, BrokerTyped
<1>6. NoCall \in CallType /\ NoCall.seq <= Len(rows')
  BY <1>3, NoCallType DEF Grown
<1>7. BrokerTyped'
  BY <1>1, <1>2, <1>3, <1>6, QuietTypes, OneCallTyped DEF BrokerIInv
<1>8. QED BY <1>5, <1>7 DEF BrokerIInv

(* The steps of a call that leave the ledger, and at most set its port idle. *)
LEMMA QuietMoveKeeps ==
  ASSUME BrokerIInv, NEW c \in Callers, InCall(c),
         UNCHANGED <<rows, runs, undoable, halted, calls, logErrors, crashes>>,
         PolicyTypeOK', PortHasAction', NEW x \in CallType,
         call' = [call EXCEPT ![c] = x],
         \/ x = NoCall
         \/ /\ x.action = call[c].action /\ x.decision = call[c].decision
            /\ x.seq = call[c].seq
            /\ x.stage \in {"applying", "calling"} => Before(c)
  PROVE  BrokerIInv'
<1>1. Grown
  BY RowsSame DEF BrokerIInv, BrokerTyped
<1>2. Counted /\ undoable' \subseteq DOMAIN rows'
  BY <1>1, QuietTypes DEF BrokerIInv
<1>3. QED BY <1>1, <1>2, MoveKeeps

LEMMA AppliedKeeps == ASSUME BrokerIInv, NEW c \in Callers, Applied(c) PROVE BrokerIInv'
<1>1. InCall(c) /\ Before(c)
  BY DEF Applied, Stage, InCall, Before
<1>2. PolicyTypeOK' /\ PortHasAction'
  BY IdleTyped DEF Applied, BrokerIInv, BrokerTyped, BrokerTypeOK
<1>3. CASE Move(c, "calling")
  <2>1. "calling" \in STAGE
    BY DEF STAGE
  <2>2. QED BY <1>1, <1>2, <1>3, <2>1, MoveRecord, QuietMoveKeeps DEF Applied
<1>4. CASE Return(c)
  BY <1>1, <1>2, <1>4, NoCallType, QuietMoveKeeps DEF Applied, Return
<1>5. QED BY <1>3, <1>4 DEF Applied

LEMMA AnswerKeeps ==
  ASSUME BrokerIInv, NEW c \in Callers, Decline(c) \/ ExecuteThrows(c)
  PROVE  BrokerIInv'
<1>1. InCall(c)
  BY DEF Decline, ExecuteThrows, Stage, InCall
<1>2. PolicyTypeOK' /\ PortHasAction'
  BY PolicySame DEF Decline, ExecuteThrows, BrokerIInv, BrokerTyped, BrokerTypeOK
<1>3. "answered" \in STAGE /\ "failing" \in STAGE
  BY DEF STAGE
<1>4. CASE Decline(c)
  BY <1>1, <1>2, <1>3, <1>4, MoveRecord, QuietMoveKeeps DEF Decline
<1>5. CASE ExecuteThrows(c)
  BY <1>1, <1>2, <1>3, <1>5, MoveRecord, QuietMoveKeeps DEF ExecuteThrows
<1>6. QED BY <1>4, <1>5

LEMMA LeaveRecord ==
  ASSUME BrokerIInv, NEW c \in Callers, InCall(c), NEW t \in BOOLEAN, Leave(c, t),
         UNCHANGED <<doc, open, lateSets>>
  PROVE  /\ PolicyTypeOK' /\ PortHasAction'
         /\ \E x \in CallType :
              /\ call' = [call EXCEPT ![c] = x]
              /\ \/ x = NoCall
                 \/ /\ x.action = call[c].action /\ x.decision = call[c].decision
                    /\ x.seq = call[c].seq /\ x.stage = "reverting"
<1>1. CASE Windowed(c)
  <2>1. EnterRevert(c, call[c].action) /\ call[c].action \in Actions
    BY <1>1, InCallHasAction DEF Leave
  <2>2. PolicyTypeOK' /\ PortHasAction'
    BY <2>1, EnterTyped DEF BrokerIInv, BrokerTyped, BrokerTypeOK
  <2>3. call' = [call EXCEPT ![c] = [@ EXCEPT !.stage = "reverting", !.threw = t]]
    BY <1>1 DEF Leave
  <2>4. QED BY <2>2, <2>3, RevertingRecord
<1>2. CASE ~Windowed(c)
  <2>1. UNCHANGED policyVars /\ call' = [call EXCEPT ![c] = NoCall]
    BY <1>2 DEF Leave, Return, policyVars
  <2>2. PolicyTypeOK' /\ PortHasAction'
    BY <2>1, PolicySame DEF BrokerIInv, BrokerTyped, BrokerTypeOK
  <2>3. QED BY <2>1, <2>2, NoCallType
<1>3. QED BY <1>1, <1>2

LEMMA ExecutedKeeps == ASSUME BrokerIInv, NEW c \in Callers, Executed(c) PROVE BrokerIInv'
<1>1. InCall(c)
  BY DEF Executed, Stage, InCall
<1>2. call[c].action \in Actions /\ call[c].seq \in DOMAIN rows /\ call[c].seq \in Nat
  BY <1>1 DEF BrokerIInv, Evidence, CallIsAdmitted, BrokerTyped, CallsTyped, CallType
<1>3. Row(call[c].action, "executed", call[c].seq) \in RowType
  BY <1>2, RowInType DEF OUTCOME
<1>4. Grown /\ logErrors' \in 0..MaxLogErrors
  BY <1>3, RecordGrows DEF Executed, BrokerIInv, BrokerTyped
<1>5. DOMAIN rows \subseteq DOMAIN rows'
  <2>1. Len(rows) \in Nat /\ DOMAIN rows = 1..Len(rows) /\ DOMAIN rows' = 1..Len(rows')
    BY <1>4, RowsTyped, LenProperties DEF Grown, BrokerIInv, BrokerTyped
  <2>2. QED BY <1>4, <2>1 DEF Grown
<1>6. undoable \subseteq DOMAIN rows /\ Counted
  BY <1>4 DEF Executed, BrokerIInv, BrokerTyped, BrokerTypeOK, Counted
<1>7. undoable' \subseteq DOMAIN rows'
  BY <1>2, <1>5, <1>6 DEF Executed
<1>8. /\ PolicyTypeOK' /\ PortHasAction'
      /\ \E x \in CallType :
           /\ call' = [call EXCEPT ![c] = x]
           /\ \/ x = NoCall
              \/ /\ x.action = call[c].action /\ x.decision = call[c].decision
                 /\ x.seq = call[c].seq /\ x.stage = "reverting"
  BY <1>1, LeaveRecord DEF Executed
<1>9. QED BY <1>1, <1>4, <1>6, <1>7, <1>8, MoveKeeps DEF Executed

LEMMA ExecuteFailedKeeps ==
  ASSUME BrokerIInv, NEW c \in Callers, ExecuteFailed(c) PROVE BrokerIInv'
<1>1. InCall(c)
  BY DEF ExecuteFailed, Stage, InCall
<1>2. /\ PolicyTypeOK' /\ PortHasAction'
      /\ \E x \in CallType :
           /\ call' = [call EXCEPT ![c] = x]
           /\ \/ x = NoCall
              \/ /\ x.action = call[c].action /\ x.decision = call[c].decision
                 /\ x.seq = call[c].seq /\ x.stage = "reverting"
  BY <1>1, LeaveRecord DEF ExecuteFailed
<1>3. QED BY <1>1, <1>2, QuietMoveKeeps DEF ExecuteFailed

LEMMA RevertedKeeps == ASSUME BrokerIInv, NEW c \in Callers, Reverted(c) PROVE BrokerIInv'
<1>1. InCall(c)
  BY DEF Reverted, Stage, InCall
<1>2. PolicyTypeOK' /\ PortHasAction'
  BY IdleTyped DEF Reverted, BrokerIInv, BrokerTyped, BrokerTypeOK
<1>3. QED BY <1>1, <1>2, NoCallType, QuietMoveKeeps DEF Reverted, Return

LEMMA RevertFailedKeeps ==
  ASSUME BrokerIInv, NEW c \in Callers, RevertFailed(c) PROVE BrokerIInv'
<1>1. InCall(c)
  BY DEF RevertFailed, Stage, InCall
<1>2. call[c].action \in Actions
  BY <1>1, InCallHasAction
<1>3. PolicyTypeOK' /\ PortHasAction'
  BY IdleTyped DEF RevertFailed, BrokerIInv, BrokerTyped, BrokerTypeOK
<1>4. Row(call[c].action, "revert-failed", 0) \in RowType
  BY <1>2, RowInType DEF OUTCOME
<1>5. Grown /\ logErrors' \in 0..MaxLogErrors
  BY <1>4, RecordGrows DEF RevertFailed, BrokerIInv, BrokerTyped
<1>6. Counted
  BY <1>2, <1>5 DEF RevertFailed, BrokerIInv, BrokerTyped, BrokerTypeOK, Counted
<1>7. undoable' \subseteq DOMAIN rows'
  BY <1>5, QuietTypes DEF RevertFailed, BrokerIInv
<1>8. QED BY <1>1, <1>3, <1>5, <1>6, <1>7, NoCallType, MoveKeeps DEF RevertFailed, Return

(* The process dies: every call is forgotten, and no run is.                *)
LEMMA CrashKeeps == ASSUME BrokerIInv, Crash PROVE BrokerIInv'
<1>1. PolicyTypeOK' /\ PortHasAction'
  BY PolicyLostTyped DEF Crash, BrokerIInv, BrokerTyped, BrokerTypeOK
<1>2. UNCHANGED <<rows, runs>> /\ Len(rows) \in Nat
  BY RowsTyped DEF Crash, BrokerIInv, BrokerTyped
<1>3. call' = [c \in Callers |-> NoCall]
  BY DEF Crash
<1>4. \A c \in Callers : call'[c] = NoCall /\ ~InCall(c)' /\ ~Before(c)'
  BY <1>3, NoCallType DEF InCall, Before, Stage
<1>5. /\ halted' \subseteq Actions /\ undoable' \subseteq DOMAIN rows'
      /\ calls' \in 0..MaxCalls /\ logErrors' \in 0..MaxLogErrors /\ crashes' \in 0..MaxCrashes
  BY DEF Crash, BrokerIInv, BrokerTyped, BrokerTypeOK
<1>6. BrokerTypeOK'
  BY <1>1, <1>2, <1>4, <1>5, NoCallType DEF BrokerIInv, BrokerTyped, BrokerTypeOK, CallType
<1>7. CallsTyped'
  BY <1>3, NoCallType DEF CallsTyped
<1>8. Evidence'
  BY <1>2, <1>4 DEF BrokerIInv, Evidence, CallIsAdmitted, CallsDistinct, NotYetRun,
                    RunsAreAllowed, RunIsAllowed, RunsHaveEvidence, Row
<1>9. QED BY <1>1, <1>6, <1>7, <1>8 DEF BrokerIInv, BrokerTyped

LEMMA ServeKeeps == ASSUME BrokerIInv, NEW c \in Callers, Serve(c) PROVE BrokerIInv'
<1>1. Evidence'
  BY ServeKeepsEvidence DEF BrokerIInv
<1>2. PolicyTypeOK' /\ PortHasAction'
  BY PolicySame DEF Serve, BrokerIInv, BrokerTyped, BrokerTypeOK
<1>3. Grown /\ "answered" \in STAGE
  BY RowsSame DEF Serve, BrokerIInv, BrokerTyped, STAGE
<1>4. PICK x \in CallType : call' = [call EXCEPT ![c] = x] /\ x.seq = call[c].seq
  BY <1>3, MoveRecord DEF Serve
<1>5. call[c].seq <= Len(rows')
  BY RowsTyped DEF Serve, BrokerIInv, BrokerTyped, BrokerTypeOK
<1>6. Counted /\ undoable' \subseteq DOMAIN rows'
  BY <1>3, QuietTypes DEF Serve, BrokerIInv
<1>7. call[c] \in CallType /\ InCall(c)
  BY DEF Serve, Stage, InCall, BrokerIInv, BrokerTyped, CallsTyped
<1>8. [action |-> call[c].action, decision |-> call[c].decision, of |-> call[c].seq] \in RunType
  BY <1>7, InCallHasAction DEF RunType, CallType
<1>9. runs \in Seq(RunType)
  BY DEF BrokerIInv, BrokerTyped, BrokerTypeOK, RunType
<1>10. runs' \in Seq(RunType)
  BY <1>8, <1>9, AppendProperties DEF Serve
<1>11. BrokerTyped'
  BY <1>2, <1>3, <1>4, <1>5, <1>6, <1>10, OneCallTyped DEF BrokerIInv
<1>12. QED BY <1>1, <1>11 DEF BrokerIInv

-----------------------------------------------------------------------------
LEMMA BrokerInitIInv == BrokerInit => BrokerIInv
<1> SUFFICES ASSUME BrokerInit PROVE BrokerIInv
  OBVIOUS
<1>1. PolicyTypeOK /\ PortHasAction
  BY DEF BrokerInit, PolicyInit, PolicyTypeOK, PortHasAction, Idle, STEP, Working, At
<1>2. CallsTyped /\ \A c \in Callers : call[c] = NoCall /\ ~InCall(c) /\ ~Before(c)
  BY NoCallType DEF BrokerInit, CallsTyped, InCall, Before, Stage
<1>3. BrokerTypeOK
  BY <1>1, <1>2, NoCallType DEF BrokerInit, BrokerTypeOK, CallType
<1>4. Evidence
  BY <1>2 DEF BrokerInit, Evidence, CallIsAdmitted, CallsDistinct, NotYetRun,
              RunsAreAllowed, RunsHaveEvidence
<1>5. QED BY <1>1, <1>2, <1>3, <1>4 DEF BrokerIInv, BrokerTyped

LEMMA BrokerStepIInv == BrokerIInv /\ [BrokerNext]_allVars => BrokerIInv'
<1> SUFFICES ASSUME BrokerIInv, [BrokerNext]_allVars PROVE BrokerIInv'
  OBVIOUS
<1>1. ASSUME NEW c \in Callers, Enter(c) PROVE BrokerIInv'
  BY <1>1, RefuseKeeps, RefuseUnloggedKeeps, AdmitContainedKeeps, AdmitOnlyKeeps,
     AdmitConsequentialKeeps DEF Enter
<1>2. ASSUME NEW c \in Callers, Continue(c) PROVE BrokerIInv'
  BY <1>2, AppliedKeeps, ServeKeeps, AnswerKeeps, ExecutedKeeps, ExecuteFailedKeeps,
     RevertedKeeps, RevertFailedKeeps DEF Continue
<1>3. CASE UNCHANGED allVars
  <2>1. UNCHANGED <<brokerVars, policyVars>>
    BY <1>3 DEF allVars
  <2>2. UNCHANGED <<call, rows, runs, undoable, halted, calls, logErrors, crashes>>
    BY <2>1 DEF brokerVars
  <2>3. UNCHANGED <<doc, open, port, lateSets>>
    BY <2>1 DEF policyVars
  <2>4. BrokerTyped'
    BY <2>2, <2>3 DEF BrokerIInv, BrokerTyped, BrokerTypeOK, PolicyTypeOK, CallsTyped,
                      PortHasAction, Working, At
  <2>5. Evidence'
    BY <2>2 DEF BrokerIInv, Evidence, CallIsAdmitted, CallsDistinct, NotYetRun, InCall,
                Before, Stage, RunsAreAllowed, RunIsAllowed, RunsHaveEvidence, Row
  <2>6. QED BY <2>4, <2>5 DEF BrokerIInv
<1>4. QED
  BY <1>1, <1>2, <1>3, PortKeeps, CrashKeeps DEF BrokerNext

THEOREM BrokerInductive == BrokerSpec => []BrokerIInv
  BY BrokerInitIInv, BrokerStepIInv, PTL DEF BrokerSpec

(* Type correctness of the Broker's state, for every instance.              *)
THEOREM BrokerTypeCorrect == BrokerSpec => []BrokerTypeOK
<1>1. BrokerIInv => BrokerTypeOK
  BY DEF BrokerIInv, BrokerTyped
<1>2. QED BY <1>1, BrokerInductive, PTL

(* authorize(): whatever calls overlap and whatever fails, what reaches the *)
(* service is neither prohibited nor undeclared, has the way back its verb  *)
(* asks for, and if it is consequential, a settled approval of its own.     *)
THEOREM RunsAllowedTheorem == BrokerSpec => []RunsAreAllowed
<1>1. BrokerIInv => RunsAreAllowed
  BY DEF BrokerIInv, Evidence
<1>2. QED BY <1>1, BrokerInductive, PTL

(* authorize.js:93-99: nothing reaches the service without an admitted row  *)
(* of its own, written before.                                              *)
THEOREM EvidenceTheorem == BrokerSpec => []RunsHaveEvidence
<1>1. BrokerIInv => RunsHaveEvidence
  BY DEF BrokerIInv, Evidence
<1>2. QED BY <1>1, BrokerInductive, PTL
=============================================================================
