----------------------------- MODULE IntentStore -----------------------------
(***************************************************************************)
(* The intent store (src/api/intents.js): a request for work, the actions  *)
(* planned for it, and the decisions people record about those actions.    *)
(*                                                                         *)
(* Every operation is synchronous JavaScript, so each is one step.  The    *)
(* callers are concurrent: the HTTP handlers, the web UI, the stream, the  *)
(* Telegram loop, and the planner that registers an action seconds after   *)
(* its intent was proposed.                                                *)
(***************************************************************************)
EXTENDS ActionTaxonomy

CONSTANTS
  Intents,         \* the intent ids a behaviour may mint
  People,          \* caller identities, proposing or deciding
  NoOne,           \* the proposer of an intent that does not exist yet
  IdemKeys,        \* Idempotency-Key values
  NoKey,           \* a propose without one
  IntentOf,        \* the intent an action id is minted for
  Unminted,        \* action ids a caller can name but nothing ever registers
  SingleOperator,  \* the deployment has one operator identity (boot.js)
  MaxUpdates       \* bound: accepted updates per intent

INTENT_STATE == {"absent", "proposed", "awaiting_consent", "executed",
                 "refused", "denied"}

Key == Intents \X Actions

ASSUME StoreAssumption ==
  /\ NoOne \notin People
  /\ NoKey \notin IdemKeys
  /\ IntentOf \in [Actions -> Intents]
  /\ Unminted \subseteq Actions
  /\ SingleOperator \in BOOLEAN
  /\ MaxUpdates \in Nat

VARIABLES
  state,            \* intent.state, "absent" before propose
  proposedBy,       \* intent.proposedBy
  byIdemKey,        \* the idempotency keys already used, with their intent
  registered,       \* the actions in some intent.actions
  finalActions,     \* keys that take no further decision
  approversByAction,\* who approved, per key
  decisions,        \* every decision recorded, over all intents
  updates           \* intent.updates.length

storeVars == <<state, proposedBy, byIdemKey, registered, finalActions,
               approversByAction, decisions, updates>>

(* What verifyDecision reads of a decision; its expiry is set afresh at     *)
(* every decision and is looked at where the decision is used (Broker).     *)
Decision == [intent : Intents, action : Actions,
             verdict : {"approve", "deny"}, decidedBy : People,
             proposedBy : People, settled : BOOLEAN]

StoreTypeOK ==
  /\ state \in [Intents -> INTENT_STATE]
  /\ proposedBy \in [Intents -> People \cup {NoOne}]
  /\ byIdemKey \in [IdemKeys -> Intents \cup {NoOne}]
  /\ registered \subseteq Actions
  /\ finalActions \subseteq Key
  /\ approversByAction \in [Key -> SUBSET People]
  /\ decisions \subseteq Decision
  /\ updates \in [Intents -> 0..MaxUpdates]
  /\ \A i \in Intents : proposedBy[i] = NoOne <=> state[i] = "absent"

StoreInit ==
  /\ state = [i \in Intents |-> "absent"]
  /\ proposedBy = [i \in Intents |-> NoOne]
  /\ byIdemKey = [k \in IdemKeys |-> NoOne]
  /\ registered = {}
  /\ finalActions = {}
  /\ approversByAction = [k \in Key |-> {}]
  /\ decisions = {}
  /\ updates = [i \in Intents |-> 0]

Exists(i) == state[i] # "absent"

(* Registered under this intent: what actions.find() sees.                 *)
Knows(i, a) == a \in registered /\ IntentOf[a] = i

(* How much consent the key needs.  An action the intent does not hold is   *)
(* treated as an ordinary approval.                                        *)
Kind(i, a) == IF Knows(i, a) /\ KindOf(a) # "none" THEN KindOf(a) ELSE "approval"
Needed(i, a) == quorumFor(Kind(i, a))

-----------------------------------------------------------------------------
(* propose(): a known idempotency key returns the stored intent and changes *)
(* nothing, so only the first use of a key is a step.                       *)
Propose(i, p, k) ==
  /\ ~Exists(i)
  /\ k # NoKey => byIdemKey[k] = NoOne
  /\ state' = [state EXCEPT ![i] = "proposed"]
  /\ proposedBy' = [proposedBy EXCEPT ![i] = p]
  /\ byIdemKey' = IF k = NoKey THEN byIdemKey ELSE [byIdemKey EXCEPT ![k] = i]
  /\ UNCHANGED <<registered, finalActions, approversByAction, decisions, updates>>

(* update(): only the proposer, and only while the state is not a settled   *)
(* one.  The content of the patch is data; that it changed is what counts.  *)
Update(i, p) ==
  /\ Exists(i) /\ p = proposedBy[i]
  /\ state[i] \notin {"executed", "denied", "refused"}
  /\ updates[i] < MaxUpdates
  /\ updates' = [updates EXCEPT ![i] = @ + 1]
  /\ UNCHANGED <<state, proposedBy, byIdemKey, registered, finalActions,
                 approversByAction, decisions>>

(* awaitConsent(): the state becomes awaiting_consent whatever it was.      *)
(* Action ids are fresh (a timestamp in each), so none is pushed twice.     *)
AwaitConsent(i, a) ==
  /\ Exists(i) /\ IntentOf[a] = i
  /\ a \notin registered /\ a \notin Unminted
  /\ state' = [state EXCEPT ![i] = "awaiting_consent"]
  /\ registered' = registered \cup {a}
  /\ UNCHANGED <<proposedBy, byIdemKey, finalActions, approversByAction,
                 decisions, updates>>

(* Mutated: a settled action takes further decisions.                       *)
MayDecideAgain(i, a, p) ==
  Exists(i) /\ (Knows(i, a) \/ a \in Unminted) /\ p # proposedBy[i]

(* The refusals decide() answers before it looks at the verdict (404, 403,  *)
(* 409).  The missing reason (422) changes nothing and is left out: every   *)
(* caller modelled sends one.  A caller names an action of the intent, or    *)
(* an id the intent does not hold: one that nothing registers stands for    *)
(* every such id, those of other intents included.                          *)
MayDecide(i, a, p) ==
  /\ Exists(i)
  /\ Knows(i, a) \/ a \in Unminted
  /\ p # proposedBy[i]
  /\ <<i, a>> \notin finalActions

(* Mutated: the decision forgets who proposed.                              *)
mkDecisionOrphan(i, a, v, p, settled) ==
  [intent |-> i, action |-> a, verdict |-> v, decidedBy |-> p,
   proposedBy |-> NoOne, settled |-> settled]

mkDecision(i, a, v, p, settled) ==
  [intent |-> i, action |-> a, verdict |-> v, decidedBy |-> p,
   proposedBy |-> proposedBy[i], settled |-> settled]

(* A deny is final at once, whatever the quorum.                            *)
Deny(i, a, p) ==
  /\ MayDecide(i, a, p)
  /\ finalActions' = finalActions \cup {<<i, a>>}
  /\ decisions' = decisions \cup {mkDecision(i, a, "deny", p, TRUE)}
  /\ state' = [state EXCEPT ![i] = "denied"]
  /\ UNCHANGED <<proposedBy, byIdemKey, registered, approversByAction, updates>>

MayApprove(i, a, p) ==
  /\ MayDecide(i, a, p)
  /\ ~(Kind(i, a) = "two-person" /\ SingleOperator)
  /\ p \notin approversByAction[<<i, a>>]

(* Mutated: have > needed - 2, an approval early.                           *)
SettlesEarly(i, a, p) ==
  Cardinality(approversByAction[<<i, a>>] \cup {p}) + 1 >= Needed(i, a)

Settles(i, a, p) ==
  Cardinality(approversByAction[<<i, a>>] \cup {p}) >= Needed(i, a)

Approve(i, a, p) ==
  /\ MayApprove(i, a, p)
  /\ approversByAction' = [approversByAction EXCEPT ![<<i, a>>] = @ \cup {p}]
  /\ decisions' = decisions \cup {mkDecision(i, a, "approve", p, Settles(i, a, p))}
  /\ IF Settles(i, a, p)
     THEN /\ finalActions' = finalActions \cup {<<i, a>>}
          /\ state' = [state EXCEPT ![i] = "proposed"]
     ELSE /\ state' = [state EXCEPT ![i] = "awaiting_consent"]
          /\ UNCHANGED finalActions
  /\ UNCHANGED <<proposedBy, byIdemKey, registered, updates>>

StoreNext ==
  \E i \in Intents, p \in People :
    \/ \E k \in IdemKeys \cup {NoKey} : Propose(i, p, k)
    \/ Update(i, p)
    \/ \E a \in Actions :
         \/ AwaitConsent(i, a)
         \/ Deny(i, a, p)
         \/ Approve(i, a, p)

StoreSpec == StoreInit /\ [][StoreNext]_storeVars

-----------------------------------------------------------------------------
DecisionsOn(i, a) == {d \in decisions : d.intent = i /\ d.action = a}
Backers(i, a) == {d.decidedBy : d \in {e \in DecisionsOn(i, a) : e.verdict = "approve"}}
Settled(i, a) == \E d \in DecisionsOn(i, a) : d.settled
Approved(i, a) == \E d \in DecisionsOn(i, a) : d.settled /\ d.verdict = "approve"

(* A settled approval rests on recorded approvals of as many different      *)
(* people as the action's kind asks for, none of them the proposer.         *)
SettledHasQuorum ==
  \A i \in Intents, a \in Actions :
    Approved(i, a) => /\ Cardinality(Backers(i, a)) >= Needed(i, a)
                      /\ proposedBy[i] \notin Backers(i, a)

(* An action is settled at most once, and one way: the record never holds   *)
(* two settled decisions for it, an approval and a denial least of all.     *)
OneOutcome ==
  \A d, e \in decisions :
    d.settled /\ e.settled /\ d.intent = e.intent /\ d.action = e.action => d = e

(* An intent shown as awaiting consent has an action somebody can still     *)
(* decide: it is never stuck on a question that was already answered.       *)
AwaitingIsOpen ==
  \A i \in Intents :
    state[i] = "awaiting_consent" =>
      \E a \in registered : IntentOf[a] = i /\ <<i, a>> \notin finalActions

(* Once an action is settled, nothing is recorded about it any more, a late *)
(* partial approval included, and its proposer cannot change.               *)
SettledIsFrozen ==
  [][\A i \in Intents, a \in Actions :
       Settled(i, a) => /\ DecisionsOn(i, a)' = DecisionsOn(i, a)
                        /\ proposedBy'[i] = proposedBy[i]]_storeVars

(* intents.js:90-94 and :103: an update never reopens a settled engagement. *)
(* Once every action of an intent is settled, it takes no further update.   *)
EngagementSettled(i) ==
  /\ \E a \in registered : IntentOf[a] = i
  /\ \A a \in registered : IntentOf[a] = i => Settled(i, a)

UpdateLeavesSettledAlone ==
  [][\A i \in Intents : EngagementSettled(i) => updates'[i] = updates[i]]_storeVars
=============================================================================
