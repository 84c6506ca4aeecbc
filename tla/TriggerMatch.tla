---------------------------- MODULE TriggerMatch ----------------------------
(***************************************************************************)
(* The lookup that decides, without a model, whether a description names   *)
(* an incident (src/transport/triggers.js, match): the first rule with a   *)
(* phrase that occurs un-negated.  A text is a sequence of words set apart *)
(* by single blanks, and a phrase a sequence of words; of a word only its  *)
(* length matters, since the guard reads the 16 characters before a hit.   *)
(* The texts are built word by word, so that every one up to a length is   *)
(* looked at.                                                              *)
(***************************************************************************)
EXTENDS Integers, Sequences, FiniteSets

CONSTANTS
  Words,       \* the words of texts
  Negations, Qualifiers, \* no, not, without ...; visible, apparent, other
  LengthOf,    \* word -> characters
  ruleList,    \* the rules in order: each a sequence of phrases
  MaxWords     \* bound: the length of texts

ASSUME MatchAssumption ==
  /\ LengthOf \in [Words -> Nat] /\ Negations \cup Qualifiers \subseteq Words /\ MaxWords \in Nat
  /\ ruleList \in Seq(Seq(Seq(Words) \ {<<>>}))

VARIABLE text

OccursAt(p, i) == i + Len(p) - 1 <= Len(text) /\ \A k \in DOMAIN p : text[i + k - 1] = p[k]
Occurrences(p, from) == {i \in from..Len(text) : OccursAt(p, i)}
First(S) == CHOOSE i \in S : \A j \in S : i <= j

(* The negation, and the qualifier if there is one, with a blank after      *)
(* each, are within the 16 characters before the hit.                       *)
GUARD == 16
(* Mutated: a qualifier is not looked past.                                 *)
NegatedDirectly(i) == i > 1 /\ text[i - 1] \in Negations
Negated(i) ==
  \/ i > 1 /\ text[i - 1] \in Negations /\ LengthOf[text[i - 1]] + 1 <= GUARD
  \/ /\ i > 2 /\ text[i - 2] \in Negations /\ text[i - 1] \in Qualifiers
     /\ LengthOf[text[i - 2]] + LengthOf[text[i - 1]] + 2 <= GUARD

(* Of what the expression knows, all fits but "without apparent", which     *)
(* with its blanks is 17 characters long.                                   *)
TooLong(n, q) == n = "without" /\ q = "apparent"
ASSUME GuardAssumption ==
  \A n \in Negations :
    /\ LengthOf[n] + 1 <= GUARD
    /\ \A q \in Qualifiers : ~TooLong(n, q) => LengthOf[n] + LengthOf[q] + 2 <= GUARD

(* indexOf, again from the end of each occurrence that is negated.          *)
Scan(p) ==
  LET scan[from \in 1..(Len(text) + Len(p) + 1)] ==
        LET S == Occurrences(p, from) IN
        S # {} /\ (~Negated(First(S)) \/ scan[First(S) + Len(p)])
  IN scan
Hits(p) == Scan(p)[1]

RulesHit == {r \in DOMAIN ruleList : \E p \in DOMAIN ruleList[r] : Hits(ruleList[r][p])}
match == IF RulesHit = {} THEN 0 ELSE First(RulesHit)

MatchInit == text = <<>>
Say(w) == Len(text) < MaxWords /\ text' = Append(text, w)
MatchSpec == MatchInit /\ [][\E w \in Words : Say(w)]_text

-----------------------------------------------------------------------------
Phrases(r) == {ruleList[r][k] : k \in DOMAIN ruleList[r]}
Denied(i) == (i > 1 /\ text[i - 1] \in Negations)
             \/ (i > 2 /\ text[i - 1] \in Qualifiers /\ text[i - 2] \in Negations)
(* No earlier occurrence reaches into this one ("fire fire" is twice in     *)
(* "no fire fire fire", and the scan goes on after the first).              *)
Apart(p, i) == \A j \in 1..(i - 1) : OccursAt(p, j) => j + Len(p) <= i

(* A phrase that is said without a negation is found, however often it was  *)
(* denied before, and by the first rule that has one (triggers.js:68-82).   *)
SaidIsFound ==
  /\ text \in Seq(Words)
  /\ \A r \in DOMAIN ruleList, i \in DOMAIN text : \A p \in Phrases(r) :
       OccursAt(p, i) /\ Apart(p, i) /\ ~Denied(i) => match \in 1..r

(* A text in which every phrase is denied raises nothing (triggers.js:57-60)*)
(* but for a denial that the guard cuts off.                                *)
DeniedIsSilent ==
  (\A r \in DOMAIN ruleList, i \in DOMAIN text : \A p \in Phrases(r) :
     OccursAt(p, i) => Denied(i) /\ (i > 2 => ~TooLong(text[i - 2], text[i - 1])))
  => match = 0

(* match() finds what is said and only that.                                *)
MatchPromise == SaidIsFound /\ DeniedIsSilent
=============================================================================
