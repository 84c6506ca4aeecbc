-------------------------- MODULE IntentStoreProofs --------------------------
(***************************************************************************)
(* What the intent store guarantees for every set of intents, actions and  *)
(* people: quorum of distinct people, one outcome, and no record about a   *)
(* settled action.                                                         *)
(***************************************************************************)
EXTENDS IntentStore, FiniteSetTheorems, TLAPS

(* A final key is exactly one with a settled decision on the record.       *)
FinalIsSettled ==
  \A i \in Intents, a \in Actions : <<i, a>> \in finalActions <=> Settled(i, a)

(* The approver sets are what the record says, and finite.                 *)
ApproversAreBackers ==
  \A i \in Intents, a \in Actions :
    /\ approversByAction[<<i, a>>] = Backers(i, a)
    /\ IsFiniteSet(approversByAction[<<i, a>>])

ApprovedHasQuorum ==
  \A i \in Intents, a \in Actions :
    Approved(i, a) => Cardinality(approversByAction[<<i, a>>]) >= Needed(i, a)

(* A decision is about an intent that exists, by someone else than its     *)
(* proposer, on an action it holds or on one nobody will ever register: so  *)
(* registering an action changes the need of no key that has decisions.    *)
DecisionsWellPlaced ==
  \A d \in decisions :
    /\ Exists(d.intent)
    /\ d.decidedBy # proposedBy[d.intent]
    /\ Knows(d.intent, d.action) \/ d.action \in Unminted

StoreIInv ==
  /\ StoreTypeOK
  /\ FinalIsSettled
  /\ ApproversAreBackers
  /\ ApprovedHasQuorum
  /\ DecisionsWellPlaced
  /\ OneOutcome
  /\ AwaitingIsOpen

-----------------------------------------------------------------------------
USE ActionAssumption, StoreAssumption

LEMMA NeededRange == \A i \in Intents, a \in Actions : Needed(i, a) \in {1, 2}
  BY DEF Needed, quorumFor

(* Type correctness of the store's state, for every instance.              *)
LEMMA StoreInitTypeOK == StoreInit => StoreTypeOK
  BY DEF StoreInit, StoreTypeOK, INTENT_STATE, Key, Decision

LEMMA StoreStepTypeOK == StoreTypeOK /\ [StoreNext]_storeVars => StoreTypeOK'
<1> SUFFICES ASSUME StoreTypeOK, [StoreNext]_storeVars PROVE StoreTypeOK'
  OBVIOUS
<1> USE DEF StoreTypeOK, INTENT_STATE, Key
<1>1. ASSUME NEW i \in Intents, NEW p \in People, NEW k \in IdemKeys \cup {NoKey},
             Propose(i, p, k)
      PROVE  StoreTypeOK'
  BY <1>1 DEF Propose
<1>2. ASSUME NEW i \in Intents, NEW p \in People, Update(i, p) PROVE StoreTypeOK'
  BY <1>2 DEF Update
<1>3. ASSUME NEW i \in Intents, NEW a \in Actions, AwaitConsent(i, a) PROVE StoreTypeOK'
  BY <1>3 DEF AwaitConsent, Exists
<1>4. ASSUME NEW i \in Intents, NEW a \in Actions, NEW p \in People, Deny(i, a, p)
      PROVE  StoreTypeOK'
  <2>1. mkDecision(i, a, "deny", p, TRUE) \in Decision
    BY <1>4 DEF Deny, MayDecide, mkDecision, Decision, Exists
  <2>2. decisions' \subseteq Decision
    BY <1>4, <2>1, Zenon DEF Deny
  <2>3. finalActions' \subseteq Intents \X Actions
    BY <1>4 DEF Deny
  <2>4. state' = [state EXCEPT ![i] = "denied"] /\ state[i] # "absent"
    BY <1>4 DEF Deny, MayDecide, Exists
  <2>5. UNCHANGED <<proposedBy, byIdemKey, registered, approversByAction, updates>>
    BY <1>4 DEF Deny
  <2>6. QED BY <2>2, <2>3, <2>4, <2>5
<1>5. ASSUME NEW i \in Intents, NEW a \in Actions, NEW p \in People, Approve(i, a, p)
      PROVE  StoreTypeOK'
  <2>1. mkDecision(i, a, "approve", p, Settles(i, a, p)) \in Decision
    BY <1>5 DEF Approve, MayApprove, MayDecide, mkDecision, Decision, Exists, Settles
  <2>2. QED BY <1>5, <2>1 DEF Approve, MayApprove, MayDecide, Exists
<1>6. CASE UNCHANGED storeVars
  BY <1>6 DEF storeVars
<1>7. QED BY <1>1, <1>2, <1>3, <1>4, <1>5, <1>6 DEF StoreNext

(* The state of the store is well typed in every behaviour.                *)
THEOREM StoreTypeCorrect == StoreSpec => []StoreTypeOK
  BY StoreInitTypeOK, StoreStepTypeOK, PTL DEF StoreSpec

-----------------------------------------------------------------------------
(* What one more decision changes of the record.                           *)
LEMMA AddDecision ==
  ASSUME NEW n \in Decision, decisions' = decisions \cup {n}
  PROVE  \A i \in Intents, a \in Actions :
           LET here == n.intent = i /\ n.action = a IN
           /\ Settled(i, a)' <=> Settled(i, a) \/ (here /\ n.settled)
           /\ Approved(i, a)' <=> Approved(i, a)
                                   \/ (here /\ n.settled /\ n.verdict = "approve")
           /\ Backers(i, a)' = IF here /\ n.verdict = "approve"
                               THEN Backers(i, a) \cup {n.decidedBy}
                               ELSE Backers(i, a)
           /\ ~here => DecisionsOn(i, a)' = DecisionsOn(i, a)
  BY DEF Settled, Approved, Backers, DecisionsOn

LEMMA SameRecord ==
  ASSUME UNCHANGED decisions
  PROVE  \A i \in Intents, a \in Actions :
           /\ Settled(i, a)' = Settled(i, a)
           /\ Approved(i, a)' = Approved(i, a)
           /\ Backers(i, a)' = Backers(i, a)
           /\ DecisionsOn(i, a)' = DecisionsOn(i, a)
  BY DEF Settled, Approved, Backers, DecisionsOn

LEMMA StoreInitIInv == StoreInit => StoreIInv
<1> SUFFICES ASSUME StoreInit PROVE StoreIInv
  OBVIOUS
<1>1. StoreTypeOK
  BY StoreInitTypeOK
<1>2. \A i \in Intents, a \in Actions :
        /\ ~Settled(i, a) /\ ~Approved(i, a) /\ Backers(i, a) = {}
        /\ approversByAction[<<i, a>>] = {}
  BY DEF StoreInit, Settled, Approved, Backers, DecisionsOn, Key
<1>3. FinalIsSettled /\ ApproversAreBackers /\ ApprovedHasQuorum
  BY <1>2, FS_EmptySet DEF FinalIsSettled, ApproversAreBackers, ApprovedHasQuorum, StoreInit
<1>4. DecisionsWellPlaced /\ OneOutcome /\ AwaitingIsOpen
  BY DEF StoreInit, DecisionsWellPlaced, OneOutcome, AwaitingIsOpen
<1>5. QED BY <1>1, <1>3, <1>4 DEF StoreIInv

-----------------------------------------------------------------------------
(* One lemma per operation that touches the record.                        *)
LEMMA DenyKeepsIInv ==
  ASSUME StoreIInv, StoreTypeOK',
         NEW i \in Intents, NEW a \in Actions, NEW p \in People, Deny(i, a, p)
  PROVE  StoreIInv'
<1> DEFINE n == mkDecision(i, a, "deny", p, TRUE)
<1>1. /\ n \in Decision /\ decisions' = decisions \cup {n}
      /\ n.intent = i /\ n.action = a /\ n.verdict = "deny" /\ n.settled
      /\ n.decidedBy = p
  <2>1. n \in Decision
    BY DEF StoreIInv, StoreTypeOK, Deny, MayDecide, mkDecision, Decision, Exists
  <2>2. decisions' = decisions \cup {n}
    BY Zenon DEF Deny
  <2>3. QED BY <2>1, <2>2 DEF mkDecision
<1> HIDE DEF n
<1>2. <<i, a>> \notin finalActions /\ ~Settled(i, a)
  BY DEF StoreIInv, FinalIsSettled, Deny, MayDecide
<1>3. FinalIsSettled'
  BY <1>1, AddDecision DEF FinalIsSettled, StoreIInv, Deny
<1>4. approversByAction' = approversByAction
  BY DEF Deny
<1>5. \A j \in Intents, b \in Actions :
        Backers(j, b)' = Backers(j, b) /\ (Approved(j, b)' <=> Approved(j, b))
  <2>1. n.verdict # "approve"
    BY <1>1
  <2>2. \A j \in Intents, b \in Actions :
          /\ Approved(j, b)' <=> Approved(j, b) \/ (n.intent = j /\ n.action = b /\ n.settled /\ n.verdict = "approve")
          /\ Backers(j, b)' = IF n.intent = j /\ n.action = b /\ n.verdict = "approve"
                               THEN Backers(j, b) \cup {n.decidedBy} ELSE Backers(j, b)
    BY <1>1, AddDecision
  <2>3. QED BY <2>1, <2>2, Zenon
<1>6. ApproversAreBackers'
  BY <1>4, <1>5 DEF ApproversAreBackers, StoreIInv
<1>7. ApprovedHasQuorum'
  <2>1. \A j \in Intents, b \in Actions : Needed(j, b)' = Needed(j, b)
    BY DEF Deny, Needed, Kind, Knows
  <2>2. QED BY <2>1, <1>4, <1>5 DEF ApprovedHasQuorum, StoreIInv
<1>8. DecisionsWellPlaced'
  <2>1. Exists(i) /\ p # proposedBy[i] /\ (Knows(i, a) \/ a \in Unminted)
    BY DEF Deny, MayDecide
  <2>2. \A j \in Intents : Exists(j) => Exists(j)'
    BY DEF Deny, Exists, StoreIInv, StoreTypeOK
  <2>3. \A d \in decisions : d.intent \in Intents
    BY DEF StoreIInv, StoreTypeOK, Decision
  <2>4. QED BY <1>1, <2>1, <2>2, <2>3 DEF DecisionsWellPlaced, StoreIInv, Deny, Knows
<1>9. OneOutcome'
  BY <1>1, <1>2 DEF OneOutcome, StoreIInv, Settled, DecisionsOn
<1>10. AwaitingIsOpen'
  <2> SUFFICES ASSUME NEW j \in Intents, state'[j] = "awaiting_consent"
               PROVE  \E b \in registered' : IntentOf[b] = j /\ <<j, b>> \notin finalActions'
    BY DEF AwaitingIsOpen
  <2>1. j # i /\ state[j] = "awaiting_consent"
    BY DEF Deny, StoreIInv, StoreTypeOK
  <2>2. QED BY <2>1 DEF AwaitingIsOpen, StoreIInv, Deny
<1>11. QED BY <1>3, <1>6, <1>7, <1>8, <1>9, <1>10 DEF StoreIInv

LEMMA ApproveKeepsIInv ==
  ASSUME StoreIInv, StoreTypeOK',
         NEW i \in Intents, NEW a \in Actions, NEW p \in People, Approve(i, a, p)
  PROVE  StoreIInv'
<1> DEFINE s == Settles(i, a, p)
           n == mkDecision(i, a, "approve", p, s)
           B == approversByAction[<<i, a>>] \cup {p}
<1>1. /\ n \in Decision /\ decisions' = decisions \cup {n}
      /\ n.intent = i /\ n.action = a /\ n.verdict = "approve" /\ n.settled = s
      /\ n.decidedBy = p
  <2>1. n \in Decision
    BY DEF StoreIInv, StoreTypeOK, Approve, MayApprove, MayDecide, mkDecision,
           Decision, Exists, Settles
  <2>2. decisions' = decisions \cup {n}
    BY Zenon DEF Approve
  <2>3. QED BY <2>1, <2>2 DEF mkDecision
<1>2. /\ <<i, a>> \notin finalActions /\ ~Settled(i, a)
      /\ p # proposedBy[i] /\ Exists(i)
      /\ Knows(i, a) \/ a \in Unminted
  BY DEF StoreIInv, FinalIsSettled, Approve, MayApprove, MayDecide
<1>3. s <=> Cardinality(B) >= Needed(i, a)
  BY DEF Settles
<1>4. /\ approversByAction' = [approversByAction EXCEPT ![<<i, a>>] = B]
      /\ finalActions' = IF s THEN finalActions \cup {<<i, a>>} ELSE finalActions
      /\ state' = [state EXCEPT ![i] = IF s THEN "proposed" ELSE "awaiting_consent"]
      /\ UNCHANGED <<proposedBy, registered>>
  BY DEF Approve
<1> HIDE DEF n, s
<1>5. FinalIsSettled'
  BY <1>1, <1>4, AddDecision DEF FinalIsSettled, StoreIInv
<1>6. ApproversAreBackers'
  <2> SUFFICES ASSUME NEW j \in Intents, NEW b \in Actions
               PROVE  /\ approversByAction'[<<j, b>>] = Backers(j, b)'
                      /\ IsFiniteSet(approversByAction'[<<j, b>>])
    BY DEF ApproversAreBackers
  <2>1. /\ approversByAction[<<j, b>>] = Backers(j, b)
        /\ IsFiniteSet(approversByAction[<<j, b>>])
    BY DEF StoreIInv, ApproversAreBackers
  <2>2. CASE <<j, b>> = <<i, a>>
    <3>1. approversByAction'[<<j, b>>] = B
      BY <2>2, <1>4 DEF StoreIInv, StoreTypeOK, Key
    <3>2. Backers(j, b)' = Backers(j, b) \cup {p}
      BY <2>2, <1>1, AddDecision
    <3>3. QED BY <2>1, <2>2, <3>1, <3>2, FS_AddElement
  <2>3. CASE <<j, b>> # <<i, a>>
    <3>1. approversByAction'[<<j, b>>] = approversByAction[<<j, b>>]
      BY <2>3, <1>4 DEF StoreIInv, StoreTypeOK, Key
    <3>2. Backers(j, b)' = Backers(j, b)
      BY <2>3, <1>1, AddDecision
    <3>3. QED BY <2>1, <3>1, <3>2
  <2>4. QED BY <2>2, <2>3
<1>7. \A j \in Intents, b \in Actions : Needed(j, b)' = Needed(j, b)
  BY <1>4 DEF Needed, Kind, Knows
<1>8. ApprovedHasQuorum'
  <2> SUFFICES ASSUME NEW j \in Intents, NEW b \in Actions, Approved(j, b)'
               PROVE  Cardinality(approversByAction'[<<j, b>>]) >= Needed(j, b)
    BY <1>7 DEF ApprovedHasQuorum
  <2>1. CASE <<j, b>> = <<i, a>>
    <3>1. ~Approved(j, b)
      BY <2>1, <1>2 DEF Approved, Settled
    <3>2. s
      BY <3>1, <1>1, AddDecision
    <3>3. approversByAction'[<<j, b>>] = B
      BY <2>1, <1>4 DEF StoreIInv, StoreTypeOK, Key
    <3>4. QED BY <2>1, <3>2, <3>3, <1>3
  <2>2. CASE <<j, b>> # <<i, a>>
    <3>1. approversByAction'[<<j, b>>] = approversByAction[<<j, b>>]
      BY <2>2, <1>4 DEF StoreIInv, StoreTypeOK, Key
    <3>2. Approved(j, b)
      BY <2>2, <1>1, AddDecision
    <3>3. QED BY <3>1, <3>2 DEF StoreIInv, ApprovedHasQuorum
  <2>3. QED BY <2>1, <2>2
<1>9. DecisionsWellPlaced'
  <2>1. \A j \in Intents : Exists(j) => Exists(j)'
    BY <1>4 DEF Exists, StoreIInv, StoreTypeOK
  <2>2. \A d \in decisions : d.intent \in Intents
    BY DEF StoreIInv, StoreTypeOK, Decision
  <2>3. QED BY <1>1, <1>2, <1>4, <2>1, <2>2 DEF DecisionsWellPlaced, StoreIInv, Knows
<1>10. OneOutcome'
  BY <1>1, <1>2 DEF OneOutcome, StoreIInv, Settled, DecisionsOn
<1>11. AwaitingIsOpen'
  <2> SUFFICES ASSUME NEW j \in Intents, state'[j] = "awaiting_consent"
               PROVE  \E b \in registered : IntentOf[b] = j /\ <<j, b>> \notin finalActions'
    BY <1>4 DEF AwaitingIsOpen
  <2>1. CASE j # i
    <3>1. state[j] = "awaiting_consent"
      BY <2>1, <1>4 DEF StoreIInv, StoreTypeOK
    <3>2. QED BY <2>1, <3>1, <1>4 DEF AwaitingIsOpen, StoreIInv
  <2>2. CASE j = i
    <3>1. ~s
      BY <2>2, <1>4 DEF StoreIInv, StoreTypeOK
    <3>2. Needed(i, a) # 1
      <4>1. IsFiniteSet(approversByAction[<<i, a>>])
        BY DEF StoreIInv, ApproversAreBackers
      <4>2. IsFiniteSet(B) /\ B # {}
        BY <4>1, FS_AddElement
      <4>3. Cardinality(B) \in Nat /\ Cardinality(B) # 0
        BY <4>2, FS_CardinalityType, FS_EmptySet
      <4>4. QED BY <4>3, <3>1, <1>3
    <3>3. Knows(i, a)
      BY <3>2 DEF Needed, Kind, quorumFor
    <3>4. <<i, a>> \notin finalActions'
      BY <3>1, <1>2, <1>4
    <3>5. QED BY <2>2, <3>3, <3>4 DEF Knows
  <2>3. QED BY <2>1, <2>2
<1>12. QED BY <1>5, <1>6, <1>8, <1>9, <1>10, <1>11 DEF StoreIInv

(* Registering an action moves the need of its key, which has no decision. *)
LEMMA AwaitConsentKeepsIInv ==
  ASSUME StoreIInv, StoreTypeOK',
         NEW i \in Intents, NEW a \in Actions, AwaitConsent(i, a)
  PROVE  StoreIInv'
<1>1. /\ state' = [state EXCEPT ![i] = "awaiting_consent"]
      /\ registered' = registered \cup {a}
      /\ UNCHANGED <<proposedBy, finalActions, approversByAction, decisions>>
      /\ a \notin registered /\ a \notin Unminted /\ IntentOf[a] = i
  BY DEF AwaitConsent
<1>2. \A d \in decisions : d.action # a
  BY <1>1 DEF StoreIInv, DecisionsWellPlaced, Knows
<1>3. FinalIsSettled' /\ ApproversAreBackers' /\ OneOutcome'
  BY <1>1, SameRecord DEF FinalIsSettled, ApproversAreBackers, OneOutcome, StoreIInv
<1>4. ApprovedHasQuorum'
  <2> SUFFICES ASSUME NEW j \in Intents, NEW b \in Actions, Approved(j, b)
               PROVE  Cardinality(approversByAction[<<j, b>>]) >= Needed(j, b)'
    BY <1>1, SameRecord DEF ApprovedHasQuorum
  <2>1. b # a
    BY <1>2 DEF Approved, DecisionsOn
  <2>2. Needed(j, b)' = Needed(j, b)
    BY <2>1, <1>1 DEF Needed, Kind, Knows
  <2>3. QED BY <2>2 DEF StoreIInv, ApprovedHasQuorum
<1>5. DecisionsWellPlaced'
  <2>1. \A d \in decisions : d.intent \in Intents
    BY DEF StoreIInv, StoreTypeOK, Decision
  <2>2. QED BY <1>1, <2>1 DEF DecisionsWellPlaced, StoreIInv, StoreTypeOK, Exists, Knows
<1>6. AwaitingIsOpen'
  <2>1. <<i, a>> \notin finalActions
    BY <1>2 DEF StoreIInv, FinalIsSettled, Settled, DecisionsOn
  <2>2. QED BY <1>1, <2>1 DEF AwaitingIsOpen, StoreIInv, StoreTypeOK
<1>7. QED BY <1>3, <1>4, <1>5, <1>6 DEF StoreIInv

(* Proposing and updating leave the record alone.                          *)
LEMMA ProposeKeepsIInv ==
  ASSUME StoreIInv, StoreTypeOK', NEW i \in Intents, NEW p \in People,
         NEW k \in IdemKeys \cup {NoKey}, Propose(i, p, k)
  PROVE  StoreIInv'
<1>1. /\ state' = [state EXCEPT ![i] = "proposed"] /\ state[i] = "absent"
      /\ proposedBy' = [proposedBy EXCEPT ![i] = p]
      /\ UNCHANGED <<registered, finalActions, approversByAction, decisions>>
  BY DEF Propose, Exists
<1>2. \A j \in Intents, b \in Actions : Needed(j, b)' = Needed(j, b)
  BY <1>1 DEF Needed, Kind, Knows
<1>3. FinalIsSettled' /\ ApproversAreBackers' /\ ApprovedHasQuorum' /\ OneOutcome'
  BY <1>1, <1>2, SameRecord
     DEF FinalIsSettled, ApproversAreBackers, ApprovedHasQuorum, OneOutcome, StoreIInv
<1>4. DecisionsWellPlaced'
  <2>1. \A d \in decisions : d.intent \in Intents /\ d.intent # i
    BY <1>1 DEF StoreIInv, StoreTypeOK, Decision, DecisionsWellPlaced, Exists
  <2>2. QED BY <1>1, <2>1 DEF DecisionsWellPlaced, StoreIInv, StoreTypeOK, Exists, Knows
<1>5. AwaitingIsOpen'
  BY <1>1 DEF AwaitingIsOpen, StoreIInv, StoreTypeOK
<1>6. QED BY <1>3, <1>4, <1>5 DEF StoreIInv

LEMMA QuietKeepsIInv ==
  ASSUME StoreIInv, StoreTypeOK',
         UNCHANGED <<state, proposedBy, registered, finalActions,
                     approversByAction, decisions>>
  PROVE  StoreIInv'
<1>1. \A j \in Intents, b \in Actions : Needed(j, b)' = Needed(j, b)
  BY DEF Needed, Kind, Knows
<1>2. FinalIsSettled' /\ ApproversAreBackers' /\ ApprovedHasQuorum'
  BY <1>1, SameRecord DEF FinalIsSettled, ApproversAreBackers, ApprovedHasQuorum, StoreIInv
<1>3. DecisionsWellPlaced' /\ OneOutcome' /\ AwaitingIsOpen'
  BY DEF DecisionsWellPlaced, OneOutcome, AwaitingIsOpen, StoreIInv, Exists, Knows
<1>4. QED BY <1>2, <1>3 DEF StoreIInv

LEMMA StoreStepIInv == StoreIInv /\ [StoreNext]_storeVars => StoreIInv'
<1> SUFFICES ASSUME StoreIInv, [StoreNext]_storeVars PROVE StoreIInv'
  OBVIOUS
<1>1. StoreTypeOK'
  BY StoreStepTypeOK DEF StoreIInv
<1>2. ASSUME NEW i \in Intents, NEW p \in People, Update(i, p) PROVE StoreIInv'
  BY <1>1, <1>2, QuietKeepsIInv DEF Update
<1>3. CASE UNCHANGED storeVars
  BY <1>1, <1>3, QuietKeepsIInv DEF storeVars
<1>4. QED
  BY <1>1, <1>2, <1>3, ProposeKeepsIInv, AwaitConsentKeepsIInv, DenyKeepsIInv,
     ApproveKeepsIInv DEF StoreNext

THEOREM StoreInductive == StoreSpec => []StoreIInv
  BY StoreInitIInv, StoreStepIInv, PTL DEF StoreSpec

-----------------------------------------------------------------------------
(* Whoever settles an approval did not do it alone when the action takes   *)
(* two people, and never includes the proposer: intents.js decide().       *)
THEOREM QuorumTheorem == StoreSpec => []SettledHasQuorum
<1>1. StoreIInv => SettledHasQuorum
  <2> SUFFICES ASSUME StoreIInv, NEW i \in Intents, NEW a \in Actions, Approved(i, a)
               PROVE  /\ Cardinality(Backers(i, a)) >= Needed(i, a)
                      /\ proposedBy[i] \notin Backers(i, a)
    BY DEF SettledHasQuorum
  <2>1. Cardinality(Backers(i, a)) >= Needed(i, a)
    BY DEF StoreIInv, ApproversAreBackers, ApprovedHasQuorum
  <2>2. proposedBy[i] \notin Backers(i, a)
    BY DEF StoreIInv, DecisionsWellPlaced, Backers, DecisionsOn
  <2>3. QED BY <2>1, <2>2
<1>2. QED BY <1>1, StoreInductive, PTL

(* No action is ever both approved and denied, or settled twice.           *)
THEOREM OneOutcomeTheorem == StoreSpec => []OneOutcome
<1>1. StoreIInv => OneOutcome
  BY DEF StoreIInv
<1>2. QED BY <1>1, StoreInductive, PTL

(* An intent awaiting consent has an action that can still be decided.     *)
THEOREM AwaitingTheorem == StoreSpec => []AwaitingIsOpen
<1>1. StoreIInv => AwaitingIsOpen
  BY DEF StoreIInv
<1>2. QED BY <1>1, StoreInductive, PTL

(* Nothing is recorded about a settled action any more.                    *)
THEOREM FrozenTheorem == StoreSpec => SettledIsFrozen
<1> DEFINE Frozen == \A i \in Intents, a \in Actions :
                       Settled(i, a) => /\ DecisionsOn(i, a)' = DecisionsOn(i, a)
                                        /\ proposedBy'[i] = proposedBy[i]
<1>1. ASSUME StoreIInv, StoreNext PROVE Frozen
  <2> SUFFICES ASSUME NEW j \in Intents, NEW b \in Actions, Settled(j, b)
               PROVE  DecisionsOn(j, b)' = DecisionsOn(j, b) /\ proposedBy'[j] = proposedBy[j]
    OBVIOUS
  <2>1. Exists(j) /\ <<j, b>> \in finalActions
    BY <1>1 DEF StoreIInv, DecisionsWellPlaced, FinalIsSettled, Settled, DecisionsOn
  <2>2. ASSUME NEW i \in Intents, NEW p \in People, NEW k \in IdemKeys \cup {NoKey},
               Propose(i, p, k)
        PROVE  DecisionsOn(j, b)' = DecisionsOn(j, b) /\ proposedBy'[j] = proposedBy[j]
    BY <1>1, <2>1, <2>2, SameRecord DEF Propose, StoreIInv, StoreTypeOK
  <2>3. ASSUME NEW i \in Intents, NEW p \in People, Update(i, p)
        PROVE  DecisionsOn(j, b)' = DecisionsOn(j, b) /\ proposedBy'[j] = proposedBy[j]
    BY <2>3, SameRecord DEF Update
  <2>4. ASSUME NEW i \in Intents, NEW a \in Actions, AwaitConsent(i, a)
        PROVE  DecisionsOn(j, b)' = DecisionsOn(j, b) /\ proposedBy'[j] = proposedBy[j]
    BY <2>4, SameRecord DEF AwaitConsent
  <2>5. ASSUME NEW i \in Intents, NEW a \in Actions, NEW p \in People, Deny(i, a, p)
        PROVE  DecisionsOn(j, b)' = DecisionsOn(j, b) /\ proposedBy'[j] = proposedBy[j]
    BY <2>1, <2>5 DEF Deny, MayDecide, DecisionsOn, mkDecision
  <2>6. ASSUME NEW i \in Intents, NEW a \in Actions, NEW p \in People, Approve(i, a, p)
        PROVE  DecisionsOn(j, b)' = DecisionsOn(j, b) /\ proposedBy'[j] = proposedBy[j]
    BY <2>1, <2>6 DEF Approve, MayApprove, MayDecide, DecisionsOn, mkDecision
  <2>7. QED BY <1>1, <2>2, <2>3, <2>4, <2>5, <2>6 DEF StoreNext
<1>2. StoreIInv /\ [StoreNext]_storeVars => [Frozen]_storeVars
  BY <1>1
<1>3. QED BY <1>2, StoreInductive, PTL DEF StoreSpec, SettledIsFrozen
=============================================================================
