--------------------------- MODULE ActionTaxonomy ---------------------------
(***************************************************************************)
(* The danger taxonomy every other component asks (src/domain/taxonomy.js) *)
(* and the fixed attributes of the actions a behaviour is about.           *)
(*                                                                         *)
(* An action is minted with a verb and a declared impact, and neither ever *)
(* changes: they are constant functions of the action id.                  *)
(***************************************************************************)
EXTENDS Naturals, FiniteSets

CONSTANTS
  Actions,     \* the action ids a behaviour may mint
  VerbOf,      \* the CRUD verb of each action
  ImpactOf,    \* the declared impact of each action (may hold unknown words)
  Declared,    \* the actions whose tool a skill manifest declares
  Prohibited,  \* the actions a prohibited rule matches
  Invertible   \* the actions that carry an inverse

VERB == {"read", "create", "update", "delete"}
IMPACT == {"financial", "legal", "reputational"}

(* Verbs and impact words outside the vocabulary are legal inputs: a       *)
(* manifest can be wrong, and classify() answers for it.                   *)
ASSUME ActionAssumption ==
  /\ VerbOf \in [Actions -> STRING]
  /\ ImpactOf \in [Actions -> SUBSET STRING]
  /\ Declared \subseteq Actions
  /\ Prohibited \subseteq Actions
  /\ Invertible \subseteq Actions

isWrite(verb) == verb # "read"

requiresInverse(verb) == verb \in {"update", "delete"}

normalizeImpact(impact) == impact \cap IMPACT

requiresConsent(verb, impact) == isWrite(verb) /\ normalizeImpact(impact) # {}

severe(impact) == normalizeImpact(impact) \cap {"financial", "legal"} # {}

(* "none" is the source's null.                                            *)
consentKind(verb, impact) ==
  IF ~requiresConsent(verb, impact) THEN "none"
  ELSE IF ~severe(impact) THEN "review"
  ELSE IF verb = "delete" THEN "two-person" ELSE "approval"

classify(verb, impact, declared, prohibited) ==
  IF prohibited THEN "prohibited"
  ELSE IF ~declared \/ verb \notin VERB THEN "undeclared"
  ELSE IF ~isWrite(verb) THEN "safe"
  ELSE IF requiresConsent(verb, impact) THEN "consequential"
  ELSE "contained"

TierOf(a) == classify(VerbOf[a], ImpactOf[a], a \in Declared, a \in Prohibited)
KindOf(a) == consentKind(VerbOf[a], ImpactOf[a])

(* intents.js: quorumFor() *)
quorumFor(kind) == IF kind = "two-person" THEN 2 ELSE 1
=============================================================================
