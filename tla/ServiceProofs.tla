---------------------------- MODULE ServiceProofs ----------------------------
(***************************************************************************)
(* What services that others call promise: the undo registry, for any      *)
(* tokens, any number of UNDO commands under way at once, and any number   *)
(* of replays that fail having had their effect; the simulated policy      *)
(* port, for any actions and rules; the output layer, for any viewers,     *)
(* topics and sizes; the pairing script, for any devices and crashes; the  *)
(* skills, for any manifests, hosts and failures; the lookup of triggers,  *)
(* for any words, rules and texts; and the Action API, for any callers,    *)
(* limits, windows and clocks.  At the end, what follows for all of them,  *)
(* the intent store and the ledger in the instance of MCServices.          *)
(***************************************************************************)
EXTENDS MCServices, IntentStoreProofs, LedgerProofs, FiniteSetTheorems, SequenceTheorems, WellFoundedInduction, TLAPS

-----------------------------------------------------------------------------
(* The undo registry.                                                      *)

UndoTypes ==
  /\ byToken \in [Tokens -> {"absent", "ready", "spent"}]
  /\ undoing \in [UndoCalls -> [token : Tokens, stage : UNDOSTAGE]]
  /\ reversals \in [Tokens -> Nat]
  /\ effects \in [Tokens -> Nat]
  /\ undoRows \in [Tokens -> SUBSET {"undone", "undo-failed"}]
  /\ told \subseteq UndoCalls
  /\ late \in 0..MaxLate

IsReplaying(c, t) == undoing[c].token = t /\ undoing[c].stage = "replaying"

(* The mark on a token is a lock: nobody replays it while it is ready, and  *)
(* while it is spent one command does, or the reversal is done.             *)
Held ==
  \A t \in Tokens :
    \/ byToken[t] # "spent" /\ reversals[t] = 0 /\ \A c \in UndoCalls : ~IsReplaying(c, t)
    \/ /\ byToken[t] = "spent" /\ reversals[t] = 0
       /\ \E c \in UndoCalls : IsReplaying(c, t) /\ \A d \in UndoCalls : IsReplaying(d, t) => d = c
    \/ byToken[t] = "spent" /\ reversals[t] = 1 /\ \A c \in UndoCalls : ~IsReplaying(c, t)

(* Every effect is a reversal's, or a replay's that failed.                 *)
Bounded == \A t \in Tokens : effects[t] <= reversals[t] + late

(* A command that is about to answer "Reversed", or has, knows it.          *)
Recalls ==
  \A c \in UndoCalls :
    /\ c \in told => undoing[c].stage = "answered"
    /\ undoing[c].stage = "reversed" \/ c \in told
         => reversals[undoing[c].token] = 1 /\ "undone" \in undoRows[undoing[c].token]

UndoInv == UndoTypes /\ Held /\ Bounded /\ Recalls

(* The registry is empty at first, and no command is under way.             *)
LEMMA UndoStarts == UndoInit => UndoInv
<1> SUFFICES ASSUME UndoInit PROVE UndoInv
  OBVIOUS
<1>1. (CHOOSE t \in Tokens : TRUE) \in Tokens
  BY UndoAssumption
<1>2. UndoTypes
  BY <1>1, UndoAssumption DEF UndoInit, UndoTypes, UNDOSTAGE
<1>3. \A c \in UndoCalls : undoing[c].stage = "idle"
  BY DEF UndoInit
<1>4. Held
  BY <1>3 DEF UndoInit, Held, IsReplaying
<1>5. Bounded
  BY DEF UndoInit, Bounded
<1>6. Recalls
  BY <1>3 DEF UndoInit, Recalls
<1> QED
  BY <1>2, <1>4, <1>5, <1>6 DEF UndoInv

(* A token registered is ready, and was never replayed.                     *)
LEMMA RegisterKeeps == ASSUME UndoInv, NEW t \in Tokens, register(t) PROVE UndoInv'
<1> USE DEF UndoInv, register
<1>1. UndoTypes'
  BY DEF UndoTypes
<1>2. Held'
  BY DEF Held, UndoTypes, IsReplaying
<1>3. Bounded' /\ Recalls'
  BY DEF Bounded, Recalls, UndoTypes
<1> QED
  BY <1>1, <1>2, <1>3

(* UNDO takes a ready token, which nobody else does until it fails.         *)
LEMMA RunKeeps == ASSUME UndoInv, NEW c \in UndoCalls, NEW t \in Tokens, UndoRun(c, t) PROVE UndoInv'
<1> USE DEF UndoInv, UndoRun, Mark
<1>1. UndoTypes'
  BY DEF UndoTypes, UNDOSTAGE
<1>2. Held'
  <2>1. CASE byToken[t] = "ready"
    <3>1. IsReplaying(c, t)' /\ byToken'[t] = "spent"
      BY <2>1 DEF UndoTypes, IsReplaying
    <3>2. \A d \in UndoCalls, u \in Tokens : IsReplaying(d, u)' => (d = c /\ u = t) \/ IsReplaying(d, u)
      BY <2>1 DEF UndoTypes, IsReplaying
    <3>3. \A d \in UndoCalls, u \in Tokens : u # t /\ IsReplaying(d, u) => IsReplaying(d, u)'
      BY <2>1 DEF UndoTypes, IsReplaying
    <3>4. \A u \in Tokens : u # t => byToken'[u] = byToken[u]
      BY <2>1 DEF UndoTypes
    <3> QED
      BY <2>1, <3>1, <3>2, <3>3, <3>4 DEF Held
  <2>2. CASE byToken[t] # "ready"
    <3>1. \A d \in UndoCalls, u \in Tokens : IsReplaying(d, u)' <=> IsReplaying(d, u)
      BY <2>2 DEF UndoTypes, IsReplaying
    <3> QED
      BY <2>2, <3>1 DEF Held
  <2> QED
    BY <2>1, <2>2
<1>3. Bounded' /\ Recalls'
  BY DEF Bounded, Recalls, UndoTypes
<1> QED
  BY <1>1, <1>2, <1>3

(* The replay returns: its command lets go of the token for good.           *)
LEMMA ReversedKeeps == ASSUME UndoInv, NEW c \in UndoCalls, Reversed(c) PROVE UndoInv'
<1> DEFINE t == undoing[c].token
<1> USE DEF UndoInv, Reversed, Stage, Logged
<1>1. t \in Tokens /\ undoing[c].stage = "replaying" /\ IsReplaying(c, t)
  BY DEF UndoTypes, IsReplaying
<1>2. byToken[t] = "spent" /\ reversals[t] = 0 /\ \A d \in UndoCalls : IsReplaying(d, t) => d = c
  BY <1>1 DEF Held
<1>3. UndoTypes'
  BY <1>1 DEF UndoTypes, UNDOSTAGE
<1>4. undoing' \in [UndoCalls -> [token : Tokens, stage : UNDOSTAGE]]
  BY <1>3 DEF UndoTypes
<1>5. /\ undoing'[c].token = t /\ undoing'[c].stage \in {"reversed", "failed"}
      /\ \A d \in UndoCalls : d # c => undoing'[d] = undoing[d]
  BY DEF UndoTypes
<1>6. reversals'[t] = 1 /\ \A u \in Tokens : u # t => reversals'[u] = reversals[u]
  BY <1>1, <1>2 DEF UndoTypes
<1>7. Held'
  <2>1. \A d \in UndoCalls, u \in Tokens : IsReplaying(d, u)' <=> d # c /\ IsReplaying(d, u)
    BY <1>5 DEF IsReplaying
  <2>2. \A u \in Tokens : u # t => ~IsReplaying(c, u)
    BY DEF IsReplaying
  <2> QED
    BY <1>1, <1>2, <1>6, <2>1, <2>2 DEF Held
<1>8. Bounded'
  BY <1>1, <1>3, <1>6 DEF Bounded, UndoTypes
<1>9. Recalls'
  <2>1. undoing'[c].stage = "reversed" => "undone" \in undoRows'[t]
    BY <1>1, <1>5 DEF UndoTypes
  <2>2. \A u \in Tokens : undoRows[u] \subseteq undoRows'[u]
    BY <1>1 DEF UndoTypes
  <2>3. c \notin told
    BY <1>1 DEF Recalls
  <2>4. \A d \in UndoCalls : d # c /\ (undoing[d].stage = "reversed" \/ d \in told) => undoing[d].token # t
    BY <1>2 DEF Recalls
  <2>5. \A d \in UndoCalls : undoing[d].token \in Tokens
    BY DEF UndoTypes
  <2> QED
    BY <1>5, <1>6, <2>1, <2>2, <2>3, <2>4, <2>5 DEF Recalls
<1> QED
  BY <1>3, <1>7, <1>8, <1>9

(* The replay fails, perhaps having had its effect: the token is ready.     *)
LEMMA FailKeeps == ASSUME UndoInv, NEW c \in UndoCalls, ReplayFails(c) PROVE UndoInv'
<1> DEFINE t == undoing[c].token
<1> USE DEF UndoInv, ReplayFails, Stage
<1>1. t \in Tokens /\ undoing[c].stage = "replaying" /\ IsReplaying(c, t)
  BY DEF UndoTypes, IsReplaying
<1>2. reversals[t] = 0 /\ \A d \in UndoCalls : IsReplaying(d, t) => d = c
  BY <1>1 DEF Held
<1>3. UndoTypes'
  BY <1>1, UndoAssumption DEF UndoTypes, UNDOSTAGE
<1>4. /\ undoing'[c].token = t /\ undoing'[c].stage = "failed"
      /\ \A d \in UndoCalls : d # c => undoing'[d] = undoing[d]
  BY DEF UndoTypes
<1>5. byToken'[t] = "ready" /\ \A u \in Tokens : u # t => byToken'[u] = byToken[u]
  BY <1>1 DEF UndoTypes
<1>6. Held'
  <2>1. \A d \in UndoCalls, u \in Tokens : IsReplaying(d, u)' <=> d # c /\ IsReplaying(d, u)
    BY <1>4 DEF IsReplaying
  <2>2. \A u \in Tokens : u # t => ~IsReplaying(c, u)
    BY DEF IsReplaying
  <2> QED
    BY <1>1, <1>2, <1>5, <2>1, <2>2 DEF Held
<1>7. Bounded'
  BY <1>1, <1>3 DEF Bounded, UndoTypes
<1>8. Recalls'
  <2>1. \A u \in Tokens : undoRows[u] \subseteq undoRows'[u]
    BY <1>1 DEF UndoTypes
  <2>2. c \notin told
    BY <1>1 DEF Recalls
  <2>3. \A d \in UndoCalls : undoing[d].token \in Tokens
    BY DEF UndoTypes
  <2> QED
    BY <1>4, <2>1, <2>2, <2>3 DEF Recalls
<1> QED
  BY <1>3, <1>6, <1>7, <1>8

(* The answer changes what the operator knows, and nothing else.            *)
LEMMA AnswerKeeps == ASSUME UndoInv, NEW c \in UndoCalls, UndoAnswer(c) PROVE UndoInv'
<1> USE DEF UndoInv, UndoAnswer, Stage
<1>1. UndoTypes'
  BY DEF UndoTypes, UNDOSTAGE
<1>2. /\ undoing'[c].token = undoing[c].token /\ undoing'[c].stage = "answered"
      /\ \A d \in UndoCalls : d # c => undoing'[d] = undoing[d]
  BY DEF UndoTypes
<1>3. undoing[c].stage # "replaying"
  OBVIOUS
<1>4. Held'
  <2>1. \A d \in UndoCalls, u \in Tokens : IsReplaying(d, u)' <=> IsReplaying(d, u)
    BY <1>2, <1>3 DEF IsReplaying
  <2> QED
    BY <2>1 DEF Held
<1>5. Bounded'
  BY DEF Bounded
<1>6. Recalls'
  <2>1. \A d \in told' : d \in told \/ (d = c /\ undoing[c].stage = "reversed")
    OBVIOUS
  <2> QED
    BY <1>2, <2>1 DEF Recalls
<1> QED
  BY <1>1, <1>4, <1>5, <1>6

(* Together: every step keeps the invariant.                                *)
LEMMA UndoSteps == UndoInv /\ [UndoNext]_undoVars => UndoInv'
<1> SUFFICES ASSUME UndoInv, [UndoNext]_undoVars PROVE UndoInv'
  OBVIOUS
<1>1. CASE UNCHANGED undoVars
  BY <1>1 DEF undoVars, UndoInv, UndoTypes, Held, IsReplaying, Bounded, Recalls
<1>2. CASE UndoNext
  BY <1>2, RegisterKeeps, RunKeeps, ReversedKeeps, FailKeeps, AnswerKeeps DEF UndoNext
<1> QED
  BY <1>1, <1>2

(* What the mark says, counted: one holder for a spent token.               *)
LEMMA InvGivesPromise == UndoInv => UndoPromise
<1> SUFFICES ASSUME UndoInv PROVE UndoPromise
  OBVIOUS
<1> USE DEF UndoInv
<1>1. ReversedOnce
  <2> SUFFICES ASSUME NEW t \in Tokens PROVE reversals[t] <= 1 /\ effects[t] <= 1 + late
    BY DEF ReversedOnce
  <2>1. reversals[t] \in Nat /\ effects[t] \in Nat /\ late \in Nat
    BY UndoAssumption DEF UndoTypes
  <2>2. reversals[t] = 0 \/ reversals[t] = 1
    BY DEF Held
  <2>3. effects[t] <= reversals[t] + late
    BY DEF Bounded
  <2> QED
    BY <2>1, <2>2, <2>3
<1>2. TokenHasOneHolder
  <2> SUFFICES ASSUME NEW t \in Tokens
               PROVE  /\ byToken[t] # "spent" => Replaying(t) = {} /\ reversals[t] = 0
                      /\ byToken[t] = "spent" => Cardinality(Replaying(t)) + reversals[t] = 1
    BY DEF TokenHasOneHolder
  <2>1. Replaying(t) = {c \in UndoCalls : IsReplaying(c, t)}
    BY DEF Replaying, IsReplaying
  <2>2. CASE byToken[t] # "spent"
    BY <2>1, <2>2 DEF Held
  <2>3. CASE byToken[t] = "spent" /\ reversals[t] = 0
    <3>1. PICK c \in UndoCalls : IsReplaying(c, t) /\ \A d \in UndoCalls : IsReplaying(d, t) => d = c
      BY <2>3 DEF Held
    <3>2. Replaying(t) = {c}
      BY <2>1, <3>1
    <3>3. Cardinality({c}) = 1
      BY FS_Singleton, Zenon
    <3> QED
      BY <2>3, <3>2, <3>3
  <2>4. CASE byToken[t] = "spent" /\ reversals[t] = 1
    <3>1. Replaying(t) = {}
      BY <2>1, <2>4 DEF Held
    <3> QED
      BY <2>4, <3>1, FS_EmptySet
  <2> QED
    BY <2>2, <2>3, <2>4 DEF Held
<1>3. ToldIsTrue
  BY DEF Recalls, UndoTypes, ToldIsTrue
<1> QED
  BY <1>1, <1>2, <1>3 DEF UndoPromise

(* A token is reversed at most once, by one command at a time, and what the *)
(* operator is told of it is so, for any tokens, commands and failures.     *)
THEOREM UndoTheorem == UndoSpec => [](UndoTypeOK /\ UndoPromise)
<1>1. UndoSpec => []UndoInv
  BY UndoStarts, UndoSteps, PTL DEF UndoSpec
<1>2. UndoInv => UndoTypeOK
  BY DEF UndoInv, UndoTypes, UndoTypeOK
<1> QED
  BY <1>1, <1>2, InvGivesPromise, PTL

-----------------------------------------------------------------------------
(* The simulated policy port.                                              *)

Pushed(a) == [id |-> applied[a], rule |-> RuleOf[a]]

(* The actions under way have ids of their own, made so far, and what was   *)
(* pushed is one rule of each of them.                                      *)
SimIInv ==
  /\ counter \in 0..MaxDeltas /\ within \subseteq SimActions /\ applied \in [SimActions -> 0..MaxDeltas]
  /\ \A a \in within : applied[a] \in 1..counter
  /\ \A a, b \in within : applied[a] = applied[b] => a = b
  /\ extra = {Pushed(a) : a \in within}

LEMMA SimStarts == SimInit => SimIInv
BY SimAssumption DEF SimInit, SimIInv, Pushed

(* A delta gets an id that nobody has, and leaves the others theirs.        *)
LEMMA ApplyKeeps == ASSUME SimIInv, NEW a \in SimActions, ApplyDelta(a) PROVE SimIInv'
<1> USE DEF SimIInv, ApplyDelta
<1>1. /\ counter' = counter + 1 /\ counter' \in 1..MaxDeltas /\ applied' \in [SimActions -> 0..MaxDeltas]
      /\ applied'[a] = counter' /\ \A b \in SimActions : b # a => applied'[b] = applied[b]
  BY SimAssumption
<1>2. \A b \in within : b # a /\ Pushed(b)' = Pushed(b)
  BY <1>1 DEF Pushed
<1>3. CASE KnownHost(RuleOf[a][1])
  <2>1. within' = within \cup {a} /\ extra' = extra \cup {Pushed(a)'}
    BY <1>1, <1>3 DEF Pushed
  <2>2. extra' = {Pushed(b)' : b \in within'}
    BY <1>2, <2>1
  <2>3. \A b \in within' : applied'[b] \in 1..counter'
    BY <1>1, <1>2, <2>1
  <2>4. \A b, c \in within' : applied'[b] = applied'[c] => b = c
    BY <1>1, <1>2, <2>1
  <2> QED
    BY <1>1, <2>1, <2>2, <2>3, <2>4
<1>4. CASE ~KnownHost(RuleOf[a][1])
  <2>1. within' = within /\ extra' = extra
    BY <1>4
  <2>2. extra' = {Pushed(b)' : b \in within'}
    BY <1>2, <2>1
  <2>3. \A b \in within' : applied'[b] \in 1..counter'
    BY <1>1, <1>2, <2>1
  <2> QED
    BY <1>1, <1>2, <2>1, <2>2, <2>3
<1> QED
  BY <1>3, <1>4

(* A revert takes off the one rule that has the action's id.                *)
LEMMA RevertKeeps == ASSUME SimIInv, NEW a \in SimActions, RevertDelta(a) PROVE SimIInv'
<1> USE DEF SimIInv, RevertDelta
<1>1. DeltaOf(a) = applied[a]
  BY DEF DeltaOf
<1>2. \A b \in within' : b \in within /\ b # a /\ applied'[b] = applied[b] /\ Pushed(b)' = Pushed(b)
  BY DEF Pushed
<1>3. \A b \in within : Pushed(b).id # DeltaOf(a) <=> b # a
  BY <1>1 DEF Pushed
<1>4. extra' = {Pushed(b)' : b \in within'}
  BY <1>2, <1>3
<1>5. counter' = counter /\ applied' \in [SimActions -> 0..MaxDeltas] /\ within' \subseteq SimActions
  BY SimAssumption
<1> QED
  BY <1>2, <1>4, <1>5

LEMMA SimSteps == SimIInv /\ [SimNext]_simVars => SimIInv'
<1> SUFFICES ASSUME SimIInv, [SimNext]_simVars PROVE SimIInv'
  OBVIOUS
<1>1. CASE UNCHANGED simVars
  BY <1>1 DEF simVars, SimIInv, Pushed
<1>2. CASE SimNext
  BY <1>2, ApplyKeeps, RevertKeeps DEF SimNext
<1> QED
  BY <1>1, <1>2

(* What is open is what the actions under way need, for any actions, rules  *)
(* and any number of deltas.                                                *)
THEOREM NeededTheorem == SimSpec => [](SimTypeOK /\ OpenIsNeeded)
<1>1. SimSpec => []SimIInv
  BY SimStarts, SimSteps, PTL DEF SimSpec
<1>2. SimIInv => OpenIsNeeded
  <2> SUFFICES ASSUME SimIInv PROVE OpenIsNeeded
    OBVIOUS
  <2>1. \A a \in within : Pushed(a) \in extra /\ Pushed(a).rule = RuleOf[a]
    BY DEF SimIInv, Pushed
  <2>2. \A x \in extra : \E a \in within : x.rule = RuleOf[a]
    BY DEF SimIInv, Pushed
  <2> QED
    BY <2>1, <2>2 DEF OpenIsNeeded, AllowedBy
<1>3. SimIInv => SimTypeOK
  <2> SUFFICES ASSUME SimIInv PROVE SimTypeOK
    OBVIOUS
  <2>1. \A a \in within : a \in SimActions /\ applied[a] \in 1..MaxDeltas
    BY SimAssumption DEF SimIInv
  <2>2. \A x \in extra : \E a \in within : x = [id |-> applied[a], rule |-> RuleOf[a]]
    BY DEF SimIInv, Pushed
  <2>3. \A x \in extra : /\ x \in [id : 1..MaxDeltas, rule : {RuleOf[a] : a \in SimActions}]
                         /\ \E a \in within : applied[a] = x.id /\ RuleOf[a] = x.rule
    BY <2>1, <2>2
  <2> QED
    BY <2>3 DEF SimIInv, SimTypeOK
<1> QED
  BY <1>1, <1>2, <1>3, PTL

-----------------------------------------------------------------------------
(* The output layer.                                                       *)

Ceiling(v) == maxBuffered[TopicOf[v]] + sizeOf[TopicOf[v]]

(* A viewer got or lost what was published while it was open, and no more   *)
(* was published than there were events.                                    *)
Account(v) == sent[v] + dropped[v] = due[v] /\ due[v] <= eventCount

OutputTypes ==
  /\ socket \in [Viewers -> {"none", "open", "closing", "closed"}] /\ recording \in BOOLEAN
  /\ buffered \in [Viewers -> Nat] /\ {sent, dropped, due} \subseteq [Viewers -> Nat]
  /\ {tally, rowsIn} \subseteq [Labels -> Nat] /\ eventCount \in 0..MaxPublished /\ starts \in 0..MaxStarts

OutputIInv ==
  /\ OutputTypes
  /\ \A v \in Viewers : buffered[v] <= Ceiling(v) /\ Account(v)
  /\ tally = rowsIn /\ \A x \in Labels : tally[x] <= eventCount

LEMMA SizesAreNat ==
  \A v \in Viewers : /\ maxBuffered[TopicOf[v]] \in Nat /\ sizeOf[TopicOf[v]] \in Nat \ {0}
                     /\ Ceiling(v) \in Nat
BY OutputAssumption DEF Ceiling

LEMMA OutputStarts == OutputInit => OutputIInv
<1> SUFFICES ASSUME OutputInit PROVE OutputIInv
  OBVIOUS
<1>1. OutputTypes
  <2>1. socket \in [Viewers -> {"none", "open", "closing", "closed"}] /\ recording \in BOOLEAN
    BY DEF OutputInit
  <2>2. buffered \in [Viewers -> Nat] /\ sent = buffered /\ dropped = buffered /\ due = buffered
    BY DEF OutputInit
  <2>3. tally \in [Labels -> Nat] /\ rowsIn = tally
    BY DEF OutputInit
  <2>4. eventCount \in 0..MaxPublished /\ starts \in 0..MaxStarts
    BY OutputAssumption DEF OutputInit
  <2> QED
    BY <2>1, <2>2, <2>3, <2>4 DEF OutputTypes
<1>2. \A v \in Viewers : buffered[v] = 0 /\ sent[v] = 0 /\ dropped[v] = 0 /\ due[v] = 0
  BY DEF OutputInit
<1>3. \A v \in Viewers : buffered[v] <= Ceiling(v) /\ Account(v)
  BY <1>2, SizesAreNat DEF Account, OutputInit
<1>4. tally = rowsIn /\ \A x \in Labels : tally[x] <= eventCount
  BY DEF OutputInit
<1> QED
  BY <1>1, <1>3, <1>4 DEF OutputIInv

(* A viewer connects, leaves, or its socket sends on what it holds: its     *)
(* buffer does not grow and its account is not touched.                     *)
LEMMA ViewerKeeps ==
  ASSUME OutputIInv, NEW v \in Viewers, Connect(v) \/ Disconnect(v) \/ Drain(v) PROVE OutputIInv'
<1>1. UNCHANGED <<sent, dropped, due, Recorder>>
  BY DEF Connect, Disconnect, Leaving, Drain
<1>2. /\ socket' \in [Viewers -> {"none", "open", "closing", "closed"}] /\ buffered' \in [Viewers -> Nat]
      /\ \A u \in Viewers : buffered'[u] <= buffered[u]
  BY DEF Connect, Disconnect, Leaving, Drain, OutputIInv, OutputTypes
<1>3. OutputTypes'
  BY <1>1, <1>2 DEF OutputIInv, OutputTypes, Recorder
<1>4. \A u \in Viewers : buffered'[u] <= Ceiling(u)
  BY <1>2, SizesAreNat DEF OutputIInv, OutputTypes
<1> QED
  BY <1>1, <1>3, <1>4 DEF OutputIInv, Account, Recorder, Ceiling

(* An event does one of four things to a viewer: it is none of its topic,   *)
(* it is sent, it is dropped, or sending it breaks the socket; the first    *)
(* and the last leave the account alone, the others add one on both sides.  *)
LEMMA BridgedToEach ==
  ASSUME OutputIInv, NEW t \in Topics, Bridged(t), NEW v \in Viewers
  PROVE  /\ buffered'[v] \in Nat /\ buffered'[v] <= Ceiling(v)
         /\ sent'[v] \in Nat /\ dropped'[v] \in Nat /\ due'[v] \in Nat
         /\ sent'[v] + dropped'[v] = due'[v] /\ due'[v] <= due[v] + 1
<1> DEFINE Fitting == {u \in Reached(t) : Fits(u)}
           Full == {u \in Reached(t) : ~Fits(u)}
<1>1. PICK T \in SUBSET Fitting :
        /\ buffered' = [u \in Viewers |-> IF u \in Fitting \ T THEN buffered[u] + sizeOf[t] ELSE IF u \in T THEN 0 ELSE buffered[u]]
        /\ sent' = [u \in Viewers |-> IF u \in Fitting \ T THEN sent[u] + 1 ELSE sent[u]]
        /\ dropped' = [u \in Viewers |-> IF u \in Full THEN dropped[u] + 1 ELSE dropped[u]]
        /\ due' = [u \in Viewers |-> IF u \in Listening(t) \ T THEN due[u] + 1 ELSE due[u]]
  BY DEF Bridged
<1>2. v \in Listening(t) <=> v \in Fitting \/ v \in Full
  BY DEF Reached
<1>3. ~(v \in Fitting /\ v \in Full)
  OBVIOUS
<1>4. v \in Fitting => buffered[v] <= maxBuffered[TopicOf[v]] /\ t = TopicOf[v]
  BY DEF Reached, Listening, Fits
<1>5. /\ buffered[v] \in Nat /\ sent[v] \in Nat /\ dropped[v] \in Nat /\ due[v] \in Nat
      /\ buffered[v] <= Ceiling(v) /\ sent[v] + dropped[v] = due[v]
  BY DEF OutputIInv, OutputTypes, Account
<1> HIDE DEF Fitting, Full
<1>6. CASE v \in Fitting \ T
  <2>1. buffered'[v] = buffered[v] + sizeOf[t] /\ sent'[v] = sent[v] + 1 /\ dropped'[v] = dropped[v] /\ due'[v] = due[v] + 1
    BY <1>1, <1>2, <1>3, <1>6
  <2> QED
    BY <1>4, <1>5, <1>6, <2>1, SizesAreNat DEF Ceiling
<1>7. CASE v \in T
  <2>1. buffered'[v] = 0 /\ sent'[v] = sent[v] /\ dropped'[v] = dropped[v] /\ due'[v] = due[v]
    BY <1>1, <1>2, <1>3, <1>7
  <2> QED
    BY <1>5, <2>1, SizesAreNat
<1>8. CASE v \in Full
  <2>1. buffered'[v] = buffered[v] /\ sent'[v] = sent[v] /\ dropped'[v] = dropped[v] + 1 /\ due'[v] = due[v] + 1
    BY <1>1, <1>2, <1>3, <1>8
  <2> QED
    BY <1>5, <2>1
<1>9. CASE v \notin Fitting /\ v \notin Full
  <2>1. buffered'[v] = buffered[v] /\ sent'[v] = sent[v] /\ dropped'[v] = dropped[v] /\ due'[v] = due[v]
    BY <1>1, <1>2, <1>9
  <2> QED
    BY <1>5, <2>1
<1> QED
  BY <1>6, <1>7, <1>8, <1>9

(* The recorder counts a row when it is written and not otherwise.          *)
LEMMA CountsKeeps ==
  ASSUME OutputIInv, NEW x \in Labels, NEW ok \in BOOLEAN, Counts(x, ok)
  PROVE  /\ tally' = rowsIn' /\ tally' \in [Labels -> Nat] /\ \A y \in Labels : tally'[y] <= eventCount + 1
BY DEF OutputIInv, OutputTypes, Counts

LEMMA PublishKeeps == ASSUME OutputIInv, NEW t \in Topics, publish(t) PROVE OutputIInv'
<1>1. eventCount' = eventCount + 1 /\ eventCount' \in 0..MaxPublished /\ UNCHANGED <<recording, starts>> /\ Bridged(t)
  BY OutputAssumption DEF publish, OutputIInv, OutputTypes
<1>2. tally' = rowsIn' /\ tally' \in [Labels -> Nat] /\ \A y \in Labels : tally'[y] <= eventCount'
  <2>1. CASE t = "observation" /\ recording
    BY <2>1, <1>1, CountsKeeps DEF publish
  <2>2. CASE ~(t = "observation" /\ recording)
    BY <2>2, <1>1 DEF publish, OutputIInv, OutputTypes
  <2> QED
    BY <2>1, <2>2
<1>3. socket' \in [Viewers -> {"none", "open", "closing", "closed"}]
  BY <1>1 DEF Bridged, OutputIInv, OutputTypes
<1>4. /\ buffered' = [v \in Viewers |-> buffered'[v]] /\ sent' = [v \in Viewers |-> sent'[v]]
      /\ dropped' = [v \in Viewers |-> dropped'[v]] /\ due' = [v \in Viewers |-> due'[v]]
  BY <1>1 DEF Bridged
<1>5. buffered' \in [Viewers -> Nat] /\ sent' \in [Viewers -> Nat] /\ dropped' \in [Viewers -> Nat] /\ due' \in [Viewers -> Nat]
  BY <1>1, <1>4, BridgedToEach
<1>6. OutputTypes'
  BY <1>1, <1>2, <1>3, <1>5 DEF OutputTypes, OutputIInv
<1>7. \A v \in Viewers : buffered'[v] <= Ceiling(v) /\ Account(v)'
  BY <1>1, BridgedToEach DEF Account, OutputIInv, OutputTypes
<1> QED
  BY <1>2, <1>6, <1>7 DEF OutputIInv, Ceiling

LEMMA OutputSteps == OutputIInv /\ [OutputNext]_outputVars => OutputIInv'
<1> SUFFICES ASSUME OutputIInv, [OutputNext]_outputVars PROVE OutputIInv'
  OBVIOUS
<1>1. CASE UNCHANGED outputVars
  BY <1>1 DEF outputVars, OutputIInv, OutputTypes, Account, Ceiling
<1>2. CASE StartRecording \/ StopRecording
  <2>1. UNCHANGED <<socket, buffered, sent, dropped, due, tally, rowsIn, eventCount>>
    BY <1>2 DEF StartRecording, StopRecording, Sockets
  <2>2. recording' \in BOOLEAN /\ starts' \in 0..MaxStarts
    <3>1. CASE StartRecording
      BY <3>1, OutputAssumption DEF StartRecording, OutputIInv, OutputTypes
    <3>2. CASE StopRecording
      BY <3>2 DEF StopRecording, OutputIInv, OutputTypes
    <3> QED
      BY <1>2, <3>1, <3>2
  <2>3. OutputTypes'
    BY <2>1, <2>2 DEF OutputIInv, OutputTypes
  <2> QED
    BY <2>1, <2>3 DEF OutputIInv, Account, Ceiling
<1>3. CASE \E t \in Topics : publish(t)
  BY <1>3, PublishKeeps
<1>4. CASE \E v \in Viewers : Connect(v) \/ Disconnect(v) \/ Drain(v)
  BY <1>4, ViewerKeeps
<1> QED
  BY <1>1, <1>2, <1>3, <1>4 DEF OutputNext

LEMMA OutputInductive == OutputSpec => []OutputIInv
BY OutputStarts, OutputSteps, PTL DEF OutputSpec

(* The buffer of a socket never holds more than the ceiling and one event,  *)
(* for any sizes and ceilings.                                              *)
THEOREM OutputTypeCorrect == OutputSpec => []OutputTypeOK
<1>1. OutputIInv => OutputTypeOK
  <2> SUFFICES ASSUME OutputIInv PROVE OutputTypeOK
    OBVIOUS
  <2>1. \A v \in Viewers : buffered[v] \in 0..Ceiling(v)
    BY SizesAreNat DEF OutputIInv, OutputTypes
  <2>2. \A v \in Viewers : sent[v] \in 0..MaxPublished /\ dropped[v] \in 0..MaxPublished /\ due[v] \in 0..MaxPublished
    BY OutputAssumption DEF OutputIInv, OutputTypes, Account
  <2>3. {sent, dropped, due} \subseteq [Viewers -> 0..MaxPublished]
    BY <2>2 DEF OutputIInv, OutputTypes
  <2>4. \A x \in Labels : tally[x] \in 0..MaxPublished
    BY OutputAssumption DEF OutputIInv, OutputTypes
  <2>5. {tally, rowsIn} \subseteq [Labels -> 0..MaxPublished]
    BY <2>4 DEF OutputIInv, OutputTypes
  <2> QED
    BY <2>1, <2>3, <2>5 DEF OutputIInv, OutputTypes, OutputTypeOK, Ceiling
<1> QED
  BY <1>1, OutputInductive, PTL

(* No viewer costs another an event, and the recorder's counts are the rows *)
(* in its files, for any viewers that come, go, fill up and break.          *)
THEOREM OutputTheorem == OutputSpec => []OutputPromise
<1>1. OutputIInv => OutputPromise
  BY DEF OutputIInv, Account, OutputPromise, ViewersAreIsolated, TallyCountsRows
<1> QED
  BY <1>1, OutputInductive, PTL
-----------------------------------------------------------------------------
(* The pairing script and its gateway: where a run is, and what holds there.*)
Places == {"off", "writing", "connecting", "unpaired", "listing", "approving", "approved", "verifying"}
Requests == [request : Nat, device : Int]
Scripts == [at : Places, approve : BOOLEAN, secret : BOOLEAN, device : Nat, request : Nat]
Known == {"unpaired", "listing", "approving", "approved", "verifying"}
Told == {"listing", "approving", "approved", "verifying"}

PairingTypes ==
  /\ keyFile \in [is : {"none", "empty", "torn", "key"}, key : Nat] /\ keys \in Nat /\ filings \in Nat /\ runCount \in Nat
  /\ script \in Scripts
  /\ filed \in Seq(Requests)

(* A key is on the file before anything is done with it.                    *)
KeyInv ==
  /\ \A d \in seenAs : keyFile = KeyFile(d)
  /\ script.at = "writing" => keyFile.is # "key"
  /\ script.at \in Known \cup {"connecting"} => keyFile = KeyFile(script.device)
  /\ script.at \in Known => script.device \in seenAs
  /\ script.at \in Told => script.approve

(* A number is given once.                                                  *)
Numbered(q) ==
  /\ \A i \in 1..Len(q) : q[i].request <= filings
  /\ \A i, j \in 1..Len(q) : q[i].request = q[j].request => q[i].device = q[j].device
Picked(q) == \A i \in 1..Len(q) : q[i].request = script.request => q[i].device = script.device
QueueInv ==
  /\ Numbered(filed)
  /\ script.at = "approving" => script.request <= filings /\ Picked(filed)

IsRow(r, a) == r.run = a.run /\ r.device = a.device /\ r.outcome \in {"approved", "error"}
IsApproval(a, r) == a.run = r.run /\ a.device = r.device
Answering(a) == script.at = "approved" /\ a.run = runCount /\ a.device = script.device
RowsInv ==
  /\ \A a \in approvals : a.device \in seenAs /\ a.told = TRUE
  /\ \A a \in approvals : a.run \in brokenRuns \/ Answering(a) \/ \E r \in pairingRows : IsRow(r, a)
  /\ script.at = "approved" => \E a \in approvals : Answering(a)
  /\ \A r \in pairingRows : r.outcome = "approved" => \E a \in approvals : IsApproval(a, r)
  /\ \A r \in pairingRows : r.outcome \in {"connected", "verified"} => r.device \in everPaired
  /\ paired \subseteq everPaired

PairingInv == PairingTypes /\ KeyInv /\ QueueInv /\ RowsInv

(* What is left when one request is taken out of the queue.                 *)
LEMMA DroppedIsLess ==
  ASSUME filed \in Seq(Requests), NEW i \in 1..Len(filed)
  PROVE  /\ Dropped(i) \in Seq(Requests)
         /\ \A j \in 1..Len(Dropped(i)) : \E k \in 1..Len(filed) : Dropped(i)[j] = filed[k]
<1> DEFINE head == SubSeq(filed, 1, i - 1)
           after == SubSeq(filed, i + 1, Len(filed))
<1>1. head \in Seq(Requests) /\ Len(head) = i - 1 /\ \A j \in 1..Len(head) : head[j] = filed[j]
  OBVIOUS
<1>2. after \in Seq(Requests) /\ Len(after) = Len(filed) - i /\ \A j \in 1..Len(after) : after[j] = filed[i + j]
  OBVIOUS
<1> HIDE DEF head, after
<1>3. Dropped(i) = head \o after
  BY DEF Dropped, head, after
<1>l. Len(filed) \in Nat /\ i \in Nat
  BY LenProperties
<1>c. /\ Dropped(i) \in Seq(Requests) /\ Len(Dropped(i)) = Len(head) + Len(after)
      /\ \A j \in 1..(Len(head) + Len(after)) :
           Dropped(i)[j] = IF j <= Len(head) THEN head[j] ELSE after[j - Len(head)]
  <2>1. head \in Seq(Requests) /\ after \in Seq(Requests)
    BY <1>1, <1>2
  <2>2. /\ head \o after \in Seq(Requests) /\ Len(head \o after) = Len(head) + Len(after)
        /\ \A j \in 1..(Len(head) + Len(after)) :
             (head \o after)[j] = IF j <= Len(head) THEN head[j] ELSE after[j - Len(head)]
    BY <2>1, ConcatProperties
  <2> QED
    BY <1>3, <2>2
<1>4. Dropped(i) \in Seq(Requests) /\ Len(Dropped(i)) = Len(filed) - 1
  BY <1>1, <1>2, <1>c, <1>l
<1>5. ASSUME NEW j \in 1..Len(Dropped(i)) PROVE \E k \in 1..Len(filed) : Dropped(i)[j] = filed[k]
  <2>0. j \in Nat /\ j \in 1..(Len(head) + Len(after)) /\ Len(head) = i - 1
    BY <1>1, <1>c, <1>l, <1>4, <1>5
  <2>1. CASE j <= i - 1
    <3>0. j \in 1..Len(filed) /\ j \in 1..Len(head)
      BY <1>l, <2>0, <2>1
    <3>1. Dropped(i)[j] = head[j] /\ head[j] = filed[j]
      BY <1>1, <1>c, <2>0, <2>1, <3>0
    <3> QED
      BY <3>0, <3>1
  <2>2. CASE j > i - 1
    <3>1. Dropped(i)[j] = after[j - (i - 1)]
      BY <1>c, <1>l, <2>0, <2>2
    <3>2. j - (i - 1) \in 1..Len(after) /\ i + (j - (i - 1)) \in 1..Len(filed)
      BY <1>2, <1>l, <1>4, <1>5, <2>0, <2>2
    <3>3. after[j - (i - 1)] = filed[i + (j - (i - 1))]
      BY <1>2, <3>2
    <3> QED
      BY <3>1, <3>2, <3>3
  <2> QED
    BY <2>1, <2>2, <1>4
<1> QED
  BY <1>4, <1>5

(* Taking one out keeps the numbering, and filing one gives it a new one.   *)
LEMMA QueueKept ==
  ASSUME PairingTypes, QueueInv,
         \/ \E i \in 1..Len(filed) : filed' = Dropped(i) /\ UNCHANGED filings
         \/ \E d \in Int : File(d)
         \/ UNCHANGED <<filed, filings>>
  PROVE  /\ filed' \in Seq(Requests) /\ filings' \in Nat /\ filings <= filings' /\ Numbered(filed)'
         /\ script.at = "approving" => \A i \in 1..Len(filed') :
              filed'[i].request = script.request => filed'[i].device = script.device
<1>0. filed \in Seq(Requests) /\ filings \in Nat
  BY DEF PairingTypes
<1>1. ASSUME NEW i \in 1..Len(filed), filed' = Dropped(i), UNCHANGED filings
      PROVE  /\ filed' \in Seq(Requests) /\ filings' \in Nat /\ filings <= filings' /\ Numbered(filed)'
             /\ script.at = "approving" => \A j \in 1..Len(filed') :
                  filed'[j].request = script.request => filed'[j].device = script.device
  <2>1. filed' \in Seq(Requests) /\ \A j \in 1..Len(filed') : \E k \in 1..Len(filed) : filed'[j] = filed[k]
    BY <1>0, <1>1, DroppedIsLess
  <2>2. \A j \in 1..Len(filed') : filed'[j].request <= filings'
    BY <2>1, <1>1 DEF QueueInv, Numbered
  <2>3. ASSUME NEW j \in 1..Len(filed'), NEW k \in 1..Len(filed'), filed'[j].request = filed'[k].request
        PROVE  filed'[j].device = filed'[k].device
    <3>1. PICK jj \in 1..Len(filed) : filed'[j] = filed[jj]
      BY <2>1
    <3>2. PICK kk \in 1..Len(filed) : filed'[k] = filed[kk]
      BY <2>1
    <3> QED
      BY <2>3, <3>1, <3>2 DEF QueueInv, Numbered
  <2>4. ASSUME script.at = "approving", NEW j \in 1..Len(filed'), filed'[j].request = script.request
        PROVE  filed'[j].device = script.device
    <3>1. PICK jj \in 1..Len(filed) : filed'[j] = filed[jj]
      BY <2>1
    <3> QED
      BY <2>4, <3>1 DEF QueueInv, Picked
  <2>5. Numbered(filed)'
    BY <2>2, <2>3 DEF Numbered
  <2> QED
    BY <1>0, <1>1, <2>1, <2>4, <2>5
<1>2. ASSUME NEW d \in Int, File(d)
      PROVE  /\ filed' \in Seq(Requests) /\ filings' \in Nat /\ filings <= filings' /\ Numbered(filed)'
             /\ script.at = "approving" => \A j \in 1..Len(filed') :
                  filed'[j].request = script.request => filed'[j].device = script.device
  <2>1. CASE UNCHANGED <<filed, filings>>
    BY <1>0, <2>1 DEF QueueInv, Numbered, Picked
  <2>2. CASE filings' = filings + 1 /\ filed' = Append(filed, [request |-> filings', device |-> d])
    <3>1. [request |-> filings', device |-> d] \in Requests
      BY <1>0, <2>2 DEF Requests
    <3>2. filed' \in Seq(Requests) /\ Len(filed') = Len(filed) + 1 /\ filed'[Len(filed) + 1] = [request |-> filings', device |-> d]
          /\ \A j \in 1..Len(filed) : filed'[j] = filed[j]
      BY <1>0, <2>2, <3>1
    <3>3. \A j \in 1..Len(filed) : filed[j].request \in Nat /\ filed[j].request <= filings
      <4> SUFFICES ASSUME NEW j \in 1..Len(filed) PROVE filed[j].request \in Nat /\ filed[j].request <= filings
        OBVIOUS
      <4>1. filed[j] \in Requests
        BY <1>0
      <4> QED
        BY <4>1 DEF QueueInv, Numbered, Requests
    <3>4. \A j \in 1..Len(filed') : j \in 1..Len(filed) \/ j = Len(filed) + 1
      BY <1>0, <3>2
    <3>5. Numbered(filed)'
      <4>1. \A j \in 1..Len(filed') : filed'[j].request <= filings'
        BY <1>0, <2>2, <3>2, <3>3, <3>4
      <4>2. ASSUME NEW j \in 1..Len(filed'), NEW k \in 1..Len(filed'), filed'[j].request = filed'[k].request
            PROVE  filed'[j].device = filed'[k].device
        <5>1. CASE j \in 1..Len(filed) /\ k \in 1..Len(filed)
          BY <4>2, <5>1, <3>2 DEF QueueInv, Numbered
        <5>2. CASE j = Len(filed) + 1 /\ k = Len(filed) + 1
          BY <5>2
        <5>3. CASE j \in 1..Len(filed) /\ k = Len(filed) + 1
          BY <1>0, <2>2, <3>2, <3>3, <4>2, <5>3
        <5>4. CASE k \in 1..Len(filed) /\ j = Len(filed) + 1
          BY <1>0, <2>2, <3>2, <3>3, <4>2, <5>4
        <5> QED
          BY <5>1, <5>2, <5>3, <5>4, <3>4
      <4> QED
        BY <4>1, <4>2 DEF Numbered
    <3>6. script.at = "approving" => \A j \in 1..Len(filed') : filed'[j].request = script.request => filed'[j].device = script.device
      <4> SUFFICES ASSUME script.at = "approving", NEW j \in 1..Len(filed'), filed'[j].request = script.request
                   PROVE  filed'[j].device = script.device
        OBVIOUS
      <4>1. script.request <= filings /\ script.request \in Nat
        BY DEF QueueInv, PairingTypes, Scripts
      <4>2. j # Len(filed) + 1
        BY <1>0, <2>2, <3>2, <4>1
      <4> QED
        BY <3>2, <3>4, <4>2 DEF QueueInv, Picked
    <3> QED
      BY <1>0, <2>2, <3>2, <3>5, <3>6
  <2> QED
    BY <1>2, <2>1, <2>2 DEF File
<1>3. CASE UNCHANGED <<filed, filings>>
  BY <1>0, <1>3 DEF QueueInv, Numbered, Picked
<1> QED
  BY <1>1, <1>2, <1>3

-----------------------------------------------------------------------------
(* What every step does to the queue.                                       *)
LEMMA QueueMoves ==
  ASSUME PairingTypes, [PairingNext]_pairingVars
  PROVE  \/ \E i \in 1..Len(filed) : filed' = Dropped(i) /\ UNCHANGED filings
         \/ \E d \in Int : File(d)
         \/ UNCHANGED <<filed, filings>>
<1>0. script.device \in Int /\ DOMAIN filed = 1..Len(filed)
  BY DEF PairingTypes, Scripts
<1>1. ASSUME NEW approve \in BOOLEAN, NEW secret \in BOOLEAN, Start(approve, secret) PROVE UNCHANGED <<filed, filings>>
  BY <1>1 DEF Start, gatewaySide
<1>2. CASE WriteKey \/ ScriptDies \/ ApprovingSession \/ ListPending \/ ApprovalAnswered
  BY <1>2 DEF WriteKey, ScriptDies, ApprovingSession, ListPending, ApprovalAnswered, gatewaySide
<1>3. CASE ConnectAsOurselves \/ VerifyPaired
  BY <1>0, <1>3 DEF ConnectAsOurselves, VerifyPaired, SessionAs, gatewaySide
<1>4. CASE ApproveRequest
  BY <1>0, <1>4 DEF ApproveRequest
<1>5. CASE OthersAct
  BY <1>0, <1>5, PairingAssumption DEF OthersAct
<1>6. CASE UNCHANGED pairingVars
  BY <1>6 DEF pairingVars, gatewaySide
<1> QED
  BY <1>1, <1>2, <1>3, <1>4, <1>5, <1>6 DEF PairingNext

GoesTo(l) ==
  /\ script'.at = l /\ script'.approve = script.approve
  /\ script'.device = script.device /\ script'.request = script.request

(* A run that goes on keeps what it was told, its device and its request.    *)
LEMMA GotoGoes ==
  ASSUME PairingTypes, NEW l \in Places, Goto(l)
  PROVE  script' \in Scripts /\ GoesTo(l)
BY DEF PairingTypes, Goto, Scripts, GoesTo

(* A run that ends is off.                                                  *)
LEMMA EndsRun ==
  ASSUME Ends PROVE script' \in Scripts /\ script'.at = "off"
BY DEF Ends, Off, Scripts, Places

(* The request picked from the list is ours, and on it.                     *)
LEMMA PickedIsOurs ==
  ASSUME PairingTypes, ListPending
  PROVE  \/ Ends
         \/ script' \in Scripts /\ script'.at = "approving" /\ script'.approve = script.approve /\ script'.device = script.device
            /\ \E i \in 1..Len(filed) : script'.request = filed[i].request /\ filed[i].device = script.device
<1> DEFINE i == IF Pending(script.device) # {} THEN CHOOSE j \in Pending(script.device) : TRUE ELSE Len(filed)
<1>1. Ends \/ (filed # <<>> /\ IsOurs(filed[i]) /\ script' = [script EXCEPT !.at = "approving", !.request = filed[i].request])
  BY DEF ListPending
<1>2. ASSUME filed # <<>> PROVE i \in 1..Len(filed)
  <2>1. filed \in Seq(Requests)
    BY DEF PairingTypes
  <2>2. Len(filed) \in 1..Len(filed)
    BY <2>1, <1>2
  <2>3. Pending(script.device) \subseteq 1..Len(filed)
    BY <2>1 DEF Pending
  <2> QED
    BY <2>2, <2>3
<1> HIDE DEF i
<1>3. ASSUME filed # <<>> PROVE filed[i].request \in Nat
  <2>1. filed[i] \in Requests
    BY <1>2, <1>3 DEF PairingTypes
  <2> QED
    BY <2>1 DEF Requests
<1>4. CASE filed # <<>> /\ IsOurs(filed[i]) /\ script' = [script EXCEPT !.at = "approving", !.request = filed[i].request]
  <2>1. script' \in Scripts /\ script'.at = "approving" /\ script'.approve = script.approve /\ script'.device = script.device
        /\ script'.request = filed[i].request
    BY <1>3, <1>4 DEF PairingTypes, Scripts, Places
  <2> QED
    BY <1>2, <1>4, <2>1 DEF IsOurs
<1> QED
  BY <1>1, <1>4

(* Every step keeps the types.                                               *)
LEMMA PairingTyped ==
  ASSUME PairingInv, [PairingNext]_pairingVars
  PROVE  PairingTypes'
<1>0. filed' \in Seq(Requests) /\ filings' \in Nat
  BY QueueMoves, QueueKept DEF PairingInv
<1>1. keyFile' \in [is : {"none", "empty", "torn", "key"}, key : Nat] /\ keys' \in Nat /\ runCount' \in Nat /\ script' \in Scripts
  <2>0. PairingTypes /\ keyFile \in [is : {"none", "empty", "torn", "key"}, key : Nat] /\ keys \in Nat /\ runCount \in Nat
        /\ script \in Scripts /\ {"writing", "connecting", "unpaired", "listing", "approved", "verifying"} \subseteq Places
    BY DEF PairingInv, PairingTypes, Scripts, Places
  <2>1. ASSUME NEW approve \in BOOLEAN, NEW secret \in BOOLEAN, Start(approve, secret)
        PROVE  UNCHANGED keyFile /\ keys' \in Nat /\ runCount' \in Nat /\ script' \in Scripts
    <3>1. UNCHANGED keyFile /\ runCount' \in Nat
      BY <2>0, <2>1 DEF Start
    <3>2. CASE keyFile.is = "torn" /\ Ends /\ UNCHANGED keys
      BY <2>0, <3>1, <3>2, EndsRun
    <3>3. CASE /\ keyFile.is \in {"none", "empty"} /\ keys' = keys + 1
               /\ script' = [at |-> "writing", approve |-> approve, secret |-> secret, device |-> keys', request |-> 0]
      BY <2>0, <3>1, <3>3 DEF Scripts
    <3>4. CASE /\ keyFile.is = "key" /\ UNCHANGED keys
               /\ script' = [at |-> "connecting", approve |-> approve, secret |-> secret, device |-> keyFile.key, request |-> 0]
      BY <2>0, <3>1, <3>4 DEF Scripts
    <3> QED
      BY <2>1, <3>2, <3>3, <3>4 DEF Start
  <2>2. CASE WriteKey
    BY <2>0, <2>2, GotoGoes DEF WriteKey, KeepKey, KeyFile, Scripts
  <2>3. CASE ScriptDies
    BY <2>0, <2>3, EndsRun DEF ScriptDies, KeyFile, Keyless, Scripts
  <2>4. CASE ConnectAsOurselves
    BY <2>0, <2>4, GotoGoes, EndsRun DEF ConnectAsOurselves, SessionAs
  <2>5. CASE ApprovingSession
    BY <2>0, <2>5, GotoGoes, EndsRun DEF ApprovingSession
  <2>6. CASE ListPending
    <3>1. UNCHANGED <<keyFile, keys, runCount>>
      BY <2>6 DEF ListPending
    <3> QED
      BY <2>0, <2>6, <3>1, PickedIsOurs, EndsRun
  <2>7. CASE ApproveRequest
    BY <2>0, <2>7, GotoGoes, EndsRun DEF ApproveRequest
  <2>8. CASE ApprovalAnswered
    BY <2>0, <2>8, GotoGoes, EndsRun DEF ApprovalAnswered
  <2>9. CASE VerifyPaired
    BY <2>0, <2>9, EndsRun DEF VerifyPaired, SessionAs
  <2>10. CASE OthersAct \/ UNCHANGED pairingVars
    BY <2>0, <2>10 DEF OthersAct, pairingVars
  <2> QED
    BY <2>0, <2>1, <2>2, <2>3, <2>4, <2>5, <2>6, <2>7, <2>8, <2>9, <2>10 DEF PairingNext
<1> QED
  BY <1>0, <1>1 DEF PairingTypes, Scripts

(* Every step keeps the key on file before its use.                          *)
LEMMA PairingKeyStep ==
  ASSUME PairingInv, [PairingNext]_pairingVars
  PROVE  KeyInv'
<1>0. /\ PairingTypes /\ KeyInv /\ script \in Scripts
      /\ {"writing", "connecting", "unpaired", "listing", "approved", "verifying"} \subseteq Places
      /\ keyFile \in [is : {"none", "empty", "torn", "key"}, key : Nat]
  BY DEF PairingInv, PairingTypes, Places
<1>1. ASSUME NEW approve \in BOOLEAN, NEW secret \in BOOLEAN, Start(approve, secret) PROVE KeyInv'
  <2>1. UNCHANGED <<keyFile, seenAs>>
    BY <1>1 DEF Start
  <2>2. CASE Ends
    BY <1>0, <2>1, <2>2, EndsRun DEF KeyInv, Known, Told
  <2>3. CASE /\ keyFile.is \in {"none", "empty"}
             /\ script' = [at |-> "writing", approve |-> approve, secret |-> secret, device |-> keys', request |-> 0]
    BY <1>0, <2>1, <2>3 DEF KeyInv, Known, Told
  <2>4. CASE /\ keyFile.is = "key"
             /\ script' = [at |-> "connecting", approve |-> approve, secret |-> secret, device |-> keyFile.key, request |-> 0]
    <3>1. keyFile = KeyFile(keyFile.key)
      BY <1>0, <2>4 DEF KeyFile
    <3> QED
      BY <1>0, <2>1, <2>4, <3>1 DEF KeyInv, Known, Told
  <2> QED
    BY <1>1, <2>2, <2>3, <2>4 DEF Start
<1>2. ASSUME script.at = "writing" PROVE seenAs = {}
  BY <1>0, <1>2 DEF KeyInv, KeyFile
<1>3. CASE WriteKey
  <2>1. script.at = "writing" /\ UNCHANGED seenAs /\ keyFile' = KeyFile(script.device) /\ GoesTo("connecting")
    BY <1>0, <1>3, GotoGoes DEF WriteKey, KeepKey
  <2> QED
    BY <1>2, <2>1 DEF KeyInv, GoesTo, Known, Told
<1>4. CASE ScriptDies
  <2>1. script'.at = "off" /\ UNCHANGED seenAs /\ (script.at = "writing" \/ UNCHANGED keyFile)
    BY <1>4, EndsRun DEF ScriptDies
  <2> QED
    BY <1>0, <1>2, <2>1 DEF KeyInv, Known, Told
<1>5. CASE ConnectAsOurselves \/ VerifyPaired
  <2>1. /\ UNCHANGED keyFile /\ seenAs' = seenAs \cup {script.device} /\ keyFile = KeyFile(script.device)
        /\ Ends \/ Goto("unpaired")
    BY <1>0, <1>5 DEF ConnectAsOurselves, VerifyPaired, SessionAs, KeyInv, Known
  <2>2. CASE Ends
    BY <1>0, <2>1, <2>2, EndsRun DEF KeyInv, Known, Told
  <2>3. CASE Goto("unpaired")
    <3>1. GoesTo("unpaired")
      BY <1>0, <2>3, GotoGoes
    <3> QED
      BY <1>0, <2>1, <3>1 DEF KeyInv, GoesTo, Known, Told
  <2> QED
    BY <2>1, <2>2, <2>3
<1>6. ASSUME UNCHANGED <<keyFile, seenAs>>, script.at \in Known, Ends \/ script'.at \in Told, 
             Ends \/ (script'.approve = script.approve /\ script'.device = script.device),
             Ends \/ script.approve
      PROVE  KeyInv'
  <2>1. CASE Ends
    BY <1>0, <1>6, <2>1, EndsRun DEF KeyInv, Known, Told
  <2>2. CASE script'.at \in Told /\ script'.approve = script.approve /\ script'.device = script.device /\ script.approve
    BY <1>0, <1>6, <2>2 DEF KeyInv, Known, Told
  <2> QED
    BY <1>6, <2>1, <2>2
<1>7. CASE ApprovingSession
  <2>1. /\ UNCHANGED <<keyFile, seenAs>> /\ script.at = "unpaired"
        /\ Ends \/ (script.approve /\ Goto("listing"))
    BY <1>7 DEF ApprovingSession, ToldToApprove
  <2>2. Ends \/ (script.approve /\ GoesTo("listing"))
    BY <1>0, <2>1, GotoGoes
  <2> QED
    BY <1>6, <2>1, <2>2 DEF GoesTo, Known, Told
<1>8. CASE ListPending
  <2>1. UNCHANGED <<keyFile, seenAs>> /\ script.at = "listing"
    BY <1>8 DEF ListPending
  <2> QED
    BY <1>0, <1>6, <1>8, <2>1, PickedIsOurs DEF KeyInv, Known, Told
<1>9. CASE ApproveRequest
  <2>1. UNCHANGED <<keyFile, seenAs>> /\ script.at = "approving" /\ (Ends \/ Goto("approved"))
    BY <1>9 DEF ApproveRequest
  <2>2. Ends \/ GoesTo("approved")
    BY <1>0, <2>1, GotoGoes
  <2> QED
    BY <1>0, <1>6, <2>1, <2>2 DEF GoesTo, KeyInv, Known, Told
<1>10. CASE ApprovalAnswered
  <2>1. UNCHANGED <<keyFile, seenAs>> /\ script.at = "approved" /\ (Ends \/ Goto("verifying"))
    BY <1>10 DEF ApprovalAnswered
  <2>2. Ends \/ GoesTo("verifying")
    BY <1>0, <2>1, GotoGoes
  <2> QED
    BY <1>0, <1>6, <2>1, <2>2 DEF GoesTo, KeyInv, Known, Told
<1>11. CASE OthersAct \/ UNCHANGED pairingVars
  <2>1. UNCHANGED <<keyFile, seenAs, script>>
    BY <1>11 DEF OthersAct, pairingVars
  <2> QED
    BY <1>0, <2>1 DEF KeyInv
<1> QED
  BY <1>1, <1>3, <1>4, <1>5, <1>7, <1>8, <1>9, <1>10, <1>11 DEF PairingNext

(* Every step keeps the request that was picked ours.                       *)
LEMMA PairingQueueStep ==
  ASSUME PairingInv, [PairingNext]_pairingVars
  PROVE  QueueInv'
<1>0. PairingTypes /\ QueueInv /\ filed \in Seq(Requests) /\ filings \in Nat /\ script \in Scripts
  BY DEF PairingInv, PairingTypes
<1>1. /\ filed' \in Seq(Requests) /\ filings' \in Nat /\ filings <= filings' /\ Numbered(filed)'
      /\ script.at = "approving" => \A i \in 1..Len(filed') : filed'[i].request = script.request => filed'[i].device = script.device
  BY <1>0, QueueMoves, QueueKept
<1>2. CASE script'.at # "approving"
  BY <1>1, <1>2 DEF QueueInv
<1>3. CASE script' = script
  <2>1. script.request \in Nat
    BY <1>0 DEF Scripts
  <2> QED
    BY <1>0, <1>1, <1>3, <2>1 DEF QueueInv, Picked
<1>4. CASE ListPending /\ script'.at = "approving"
  <2>1. UNCHANGED <<filed, filings>>
    BY <1>4 DEF ListPending, gatewaySide
  <2>2. PICK i \in 1..Len(filed) : script'.request = filed[i].request /\ filed[i].device = script.device /\ script'.device = script.device
    BY <1>0, <1>4, PickedIsOurs, EndsRun
  <2>3. script'.request <= filings'
    BY <1>0, <2>1, <2>2 DEF QueueInv, Numbered
  <2>4. ASSUME NEW j \in 1..Len(filed'), filed'[j].request = script'.request PROVE filed'[j].device = script'.device
    BY <1>0, <2>1, <2>2, <2>4 DEF QueueInv, Numbered
  <2> QED
    BY <1>1, <2>3, <2>4 DEF QueueInv, Picked
<1>5. script'.at # "approving" \/ script' = script \/ (ListPending /\ script'.at = "approving")
  <2>0. {"connecting", "unpaired", "listing", "approved", "verifying"} \subseteq Places
    BY DEF Places
  <2>1. ASSUME NEW approve \in BOOLEAN, NEW secret \in BOOLEAN, Start(approve, secret) PROVE script'.at # "approving"
    BY <2>1, EndsRun DEF Start
  <2>2. CASE WriteKey
    BY <1>0, <2>0, <2>2, GotoGoes DEF WriteKey, GoesTo
  <2>3. CASE ScriptDies \/ VerifyPaired
    BY <2>3, EndsRun DEF ScriptDies, VerifyPaired, SessionAs
  <2>4. CASE ConnectAsOurselves
    BY <1>0, <2>0, <2>4, GotoGoes, EndsRun DEF ConnectAsOurselves, SessionAs, GoesTo
  <2>5. CASE ApprovingSession
    BY <1>0, <2>0, <2>5, GotoGoes, EndsRun DEF ApprovingSession, GoesTo
  <2>6. CASE ListPending
    BY <1>0, <2>6, PickedIsOurs, EndsRun
  <2>7. CASE ApproveRequest \/ ApprovalAnswered
    BY <1>0, <2>0, <2>7, GotoGoes, EndsRun DEF ApproveRequest, ApprovalAnswered, GoesTo
  <2>8. CASE OthersAct \/ UNCHANGED pairingVars
    BY <2>8 DEF OthersAct, pairingVars
  <2> QED
    BY <2>1, <2>2, <2>3, <2>4, <2>5, <2>6, <2>7, <2>8 DEF PairingNext
<1> QED
  BY <1>2, <1>3, <1>4, <1>5

(* A note is a row of this run and device, or the run is one that broke.    *)
RowOf(o) == [run |-> runCount, outcome |-> o, device |-> script.device]
LEMMA NoteAdds ==
  ASSUME NEW o, Note(o)
  PROVE  \/ pairingRows' = pairingRows \cup {RowOf(o)} /\ brokenRuns' = brokenRuns
         \/ pairingRows' = pairingRows /\ brokenRuns' = brokenRuns \cup {runCount}
BY DEF Note, RowOf

(* Rows that say nothing of an approval, or of a device that is not one the *)
(* gateway trusts, leave the books in order.                                *)
LEMMA RowsGrow ==
  ASSUME RowsInv, script.at # "approved", script'.at # "approved",
         seenAs \subseteq seenAs', brokenRuns \subseteq brokenRuns', everPaired \subseteq everPaired', paired' \subseteq everPaired',
         approvals' = approvals, pairingRows \subseteq pairingRows',
         \A r \in pairingRows' : r \in pairingRows \/ r.outcome \notin {"approved", "connected", "verified"} \/
            (r.outcome # "approved" /\ r.device \in everPaired')
  PROVE  RowsInv'
<1>1. \A a \in approvals' : a.device \in seenAs' /\ a.told = TRUE
  BY DEF RowsInv
<1>2. \A a \in approvals' : a.run \in brokenRuns' \/ \E r \in pairingRows' : IsRow(r, a)
  BY DEF RowsInv, Answering
<1>3. \A r \in pairingRows' : r.outcome = "approved" => \E a \in approvals' : IsApproval(a, r)
  BY DEF RowsInv
<1>4. \A r \in pairingRows' : r.outcome \in {"connected", "verified"} => r.device \in everPaired'
  BY DEF RowsInv
<1> QED
  BY <1>1, <1>2, <1>3, <1>4 DEF RowsInv, IsRow, IsApproval

(* Every step keeps the books in order.                                     *)
LEMMA PairingRowsStep ==
  ASSUME PairingInv, [PairingNext]_pairingVars
  PROVE  RowsInv'
<1>0. /\ PairingTypes /\ RowsInv /\ KeyInv /\ QueueInv /\ script \in Scripts
      /\ {"connecting", "unpaired", "listing", "approved", "verifying"} \subseteq Places
  BY DEF PairingInv, PairingTypes, Places
<1>1. ASSUME NEW approve \in BOOLEAN, NEW secret \in BOOLEAN, Start(approve, secret) PROVE RowsInv'
  <2>1. script.at = "off" /\ script'.at # "approved"
    BY <1>1, EndsRun DEF Start
  <2>2. UNCHANGED <<seenAs, approvals, pairingRows, brokenRuns, paired, everPaired>>
    BY <1>1 DEF Start, Silently, gatewaySide
  <2> QED
    BY <1>0, <2>1, <2>2, RowsGrow DEF RowsInv
<1>2. CASE WriteKey
  <2>1. script.at = "writing" /\ script'.at # "approved"
    BY <1>0, <1>2, GotoGoes DEF WriteKey, GoesTo
  <2>2. UNCHANGED <<seenAs, approvals, pairingRows, brokenRuns, paired, everPaired>>
    BY <1>2 DEF WriteKey, Silently, gatewaySide
  <2> QED
    BY <1>0, <2>1, <2>2, RowsGrow DEF RowsInv
<1>3. CASE ScriptDies
  <2>1. script'.at # "approved" /\ UNCHANGED <<seenAs, approvals, pairingRows, paired, everPaired>>
        /\ brokenRuns' = brokenRuns \cup {runCount}
    BY <1>3, EndsRun DEF ScriptDies, gatewaySide
  <2>2. \A a \in approvals : a.run \in brokenRuns' \/ \E r \in pairingRows : IsRow(r, a)
    BY <1>0, <2>1 DEF RowsInv, Answering
  <2>3. \A a \in approvals' : a.run \in brokenRuns' \/ \E r \in pairingRows' : IsRow(r, a)
    BY <2>1, <2>2
  <2> QED
    BY <1>0, <2>1, <2>3 DEF RowsInv, IsRow, IsApproval
<1>4. CASE ConnectAsOurselves \/ VerifyPaired
  <2>1. script.at # "approved" /\ script'.at # "approved" /\ seenAs \subseteq seenAs' /\ approvals' = approvals
    BY <1>0, <1>4, GotoGoes, EndsRun DEF ConnectAsOurselves, VerifyPaired, SessionAs, GoesTo
  <2>2. UNCHANGED <<paired, everPaired>>
    BY <1>4 DEF ConnectAsOurselves, VerifyPaired, SessionAs, gatewaySide
  <2>3. PICK o \in {"connected", "pairing-required", "error", "verified", "verify-failed"} :
          Note(o) /\ (o \in {"connected", "verified"} => script.device \in paired)
    BY <1>4 DEF ConnectAsOurselves, VerifyPaired, SessionAs
  <2>4. RowOf(o).outcome = o /\ RowOf(o).device = script.device
    BY DEF RowOf
  <2>5. /\ pairingRows \subseteq pairingRows' /\ brokenRuns \subseteq brokenRuns'
        /\ \A r \in pairingRows' : r \in pairingRows \/ r = RowOf(o)
    BY <2>3, NoteAdds
  <2>6. o \in {"connected", "verified"} => script.device \in everPaired'
    BY <1>0, <2>2, <2>3 DEF RowsInv
  <2>7. \A r \in pairingRows' : r \in pairingRows \/ r.outcome \notin {"approved", "connected", "verified"}
                                \/ (r.outcome # "approved" /\ r.device \in everPaired')
    BY <2>3, <2>4, <2>5, <2>6
  <2> QED
    BY <1>0, <2>1, <2>2, <2>5, <2>7, RowsGrow DEF RowsInv
<1>5. CASE ApprovingSession \/ ListPending
  <2>1. script.at # "approved" /\ script'.at # "approved"
    BY <1>0, <1>5, GotoGoes, EndsRun, PickedIsOurs DEF ApprovingSession, ListPending, GoesTo
  <2>2. UNCHANGED <<seenAs, approvals, paired, everPaired>>
    BY <1>5 DEF ApprovingSession, ListPending, gatewaySide
  <2>3. Silently \/ \E o \in {"refused", "no-request", "error"} : Note(o)
    BY <1>5 DEF ApprovingSession, ListPending
  <2>4. /\ pairingRows \subseteq pairingRows' /\ brokenRuns \subseteq brokenRuns'
        /\ \A r \in pairingRows' : r \in pairingRows \/ r.outcome \notin {"approved", "connected", "verified"}
    BY <2>3, NoteAdds DEF Silently, RowOf
  <2> QED
    BY <1>0, <2>1, <2>2, <2>4, RowsGrow DEF RowsInv
<1>6. CASE ApproveRequest
  <2>0. script.at = "approving" /\ seenAs' = seenAs /\ filed \in Seq(Requests)
    BY <1>0, <1>6 DEF ApproveRequest, PairingTypes
  <2>1. CASE Note("error") /\ Ends /\ UNCHANGED <<filed, paired, everPaired, approvals>>
    <3>1. /\ pairingRows \subseteq pairingRows' /\ brokenRuns \subseteq brokenRuns'
          /\ \A r \in pairingRows' : r \in pairingRows \/ r.outcome \notin {"approved", "connected", "verified"}
      BY <2>1, NoteAdds DEF RowOf
    <3> QED
      BY <1>0, <2>0, <2>1, <3>1, EndsRun, RowsGrow DEF RowsInv
  <2>2. ASSUME NEW i \in DOMAIN filed, filed[i].request = script.request, Trust(filed[i].device),
               approvals' = approvals \cup {[run |-> runCount, device |-> filed[i].device, told |-> script.approve]},
               Goto("approved"), Silently, UNCHANGED runCount
        PROVE  RowsInv'
    <3> DEFINE new == [run |-> runCount, device |-> script.device, told |-> TRUE]
    <3>1. filed[i].device = script.device
      BY <1>0, <2>0, <2>2 DEF QueueInv, Picked
    <3>2. script.approve = TRUE /\ script.device \in seenAs
      BY <1>0, <2>0 DEF KeyInv, Known, Told, Scripts
    <3>3. approvals' = approvals \cup {new} /\ UNCHANGED <<pairingRows, brokenRuns>>
      BY <2>2, <3>1, <3>2 DEF Silently
    <3>4. script'.at = "approved" /\ script'.device = script.device
      BY <1>0, <2>2, GotoGoes DEF GoesTo
    <3>5. new.run = runCount' /\ new.device = script'.device /\ new.device = script.device /\ new.told = TRUE
      BY <2>2, <3>4
    <3> HIDE DEF new
    <3>6. \A a \in approvals' : a.device \in seenAs' /\ a.told = TRUE
      BY <1>0, <2>0, <3>2, <3>3, <3>5 DEF RowsInv
    <3>7. \A a \in approvals' : a.run \in brokenRuns' \/ Answering(a)' \/ \E r \in pairingRows' : IsRow(r, a)
      <4>1. \A a \in approvals : a.run \in brokenRuns \/ \E r \in pairingRows : IsRow(r, a)
        BY <1>0, <2>0 DEF RowsInv, Answering
      <4> QED
        BY <3>3, <3>4, <3>5, <4>1 DEF Answering
    <3>8. \E a \in approvals' : Answering(a)'
      BY <3>3, <3>4, <3>5 DEF Answering
    <3>9. \A r \in pairingRows' : r.outcome = "approved" => \E a \in approvals' : IsApproval(a, r)
      BY <1>0, <3>3 DEF RowsInv
    <3>10. (\A r \in pairingRows' : r.outcome \in {"connected", "verified"} => r.device \in everPaired') /\ paired' \subseteq everPaired'
      BY <1>0, <2>2, <3>3 DEF RowsInv, Trust
    <3> QED
      BY <3>6, <3>7, <3>8, <3>9, <3>10 DEF RowsInv, IsRow, IsApproval
  <2> QED
    BY <1>6, <2>1, <2>2 DEF ApproveRequest
<1>7. CASE ApprovalAnswered
  <2>0. script.at = "approved" /\ script'.at # "approved" /\ UNCHANGED <<seenAs, approvals, paired, everPaired>>
    BY <1>0, <1>7, GotoGoes, EndsRun DEF ApprovalAnswered, GoesTo, gatewaySide
  <2>1. PICK o \in {"approved", "error"} : Note(o)
    BY <1>7 DEF ApprovalAnswered
  <2>2. RowOf(o).outcome = o /\ RowOf(o).device = script.device /\ RowOf(o).run = runCount
    BY DEF RowOf
  <2>3. \/ pairingRows' = pairingRows \cup {RowOf(o)} /\ brokenRuns' = brokenRuns
        \/ pairingRows' = pairingRows /\ brokenRuns' = brokenRuns \cup {runCount}
    BY <2>1, NoteAdds
  <2>4. \A a \in approvals' : a.run \in brokenRuns' \/ \E r \in pairingRows' : IsRow(r, a)
    <3> SUFFICES ASSUME NEW a \in approvals PROVE a.run \in brokenRuns' \/ \E r \in pairingRows' : IsRow(r, a)
      BY <2>0
    <3>1. CASE Answering(a)
      <4>1. IsRow(RowOf(o), a) /\ a.run = runCount
        BY <2>1, <2>2, <3>1 DEF Answering, IsRow
      <4> QED
        BY <2>3, <4>1
    <3>2. CASE a.run \in brokenRuns \/ \E r \in pairingRows : IsRow(r, a)
      BY <2>3, <3>2
    <3> QED
      BY <1>0, <3>1, <3>2 DEF RowsInv
  <2>5. \A r \in pairingRows' : r.outcome = "approved" => \E a \in approvals' : IsApproval(a, r)
    <3>1. \E a \in approvals : IsApproval(a, RowOf(o))
      BY <1>0, <2>0, <2>2 DEF RowsInv, Answering, IsApproval
    <3> QED
      BY <1>0, <2>0, <2>3, <3>1 DEF RowsInv
  <2>6. \A r \in pairingRows' : r.outcome \in {"connected", "verified"} => r.device \in everPaired'
    BY <1>0, <2>0, <2>1, <2>2, <2>3 DEF RowsInv
  <2> QED
    BY <1>0, <2>0, <2>4, <2>5, <2>6 DEF RowsInv, IsRow, IsApproval
<1>8. CASE OthersAct
  <2>1. UNCHANGED <<script, runCount, seenAs, approvals, pairingRows, brokenRuns>>
    BY <1>8 DEF OthersAct, Silently
  <2>2. everPaired \subseteq everPaired' /\ paired' \subseteq everPaired'
    BY <1>0, <1>8 DEF OthersAct, Trust, RowsInv
  <2> QED
    BY <1>0, <2>1, <2>2 DEF RowsInv, Answering, IsRow, IsApproval
<1>9. CASE UNCHANGED pairingVars
  BY <1>0, <1>9 DEF pairingVars, gatewaySide, RowsInv, Answering, IsRow, IsApproval
<1> QED
  BY <1>1, <1>2, <1>3, <1>4, <1>5, <1>6, <1>7, <1>8, <1>9 DEF PairingNext

(* For any devices and bounds, whatever run dies where, and whatever others *)
(* file, approve and deny between its steps: the gateway sees one device of *)
(* us, the script approves no other and only when it was told to, and what  *)
(* it did is on the record.                                                 *)
THEOREM PairingTheorem == PairingSpec => []PairingPromise
<1>1. PairingInit => PairingInv
  BY DEF PairingInit, PairingInv, PairingTypes, KeyInv, QueueInv, RowsInv, Numbered, Keyless, Off, Scripts, Places, Known, Told
<1>2. PairingInv /\ [PairingNext]_pairingVars => PairingInv'
  BY PairingTyped, PairingKeyStep, PairingQueueStep, PairingRowsStep DEF PairingInv
<1>3. PairingInv => PairingPromise
  <2> SUFFICES ASSUME PairingInv PROVE PairingPromise
    OBVIOUS
  <2>1. OneDevice
    BY DEF PairingInv, KeyInv, OneDevice, KeyFile
  <2>2. ApprovesItself
    BY DEF PairingInv, RowsInv, ApprovesItself
  <2>3. PairingIsLogged
    BY DEF PairingInv, RowsInv, PairingIsLogged, Answering, IsRow, IsApproval
  <2> QED
    BY <2>1, <2>2, <2>3 DEF PairingPromise
<1> QED
  BY <1>1, <1>2, <1>3, PTL DEF PairingSpec

-----------------------------------------------------------------------------
(* The skills.  Whatever is loaded is a manifest the schema accepts.        *)
SkillInv ==
  /\ files \in [Names -> Contents]
  /\ DOMAIN loaded \subseteq Names
  /\ \A s \in DOMAIN loaded : loaded[s] \in Manifests /\ Valid(loaded[s])

(* What a directory of files that compile loads are manifests it accepts.   *)
LEMMA LoadsValid ==
  ASSUME Compiles(files)
  PROVE  DOMAIN loadSkills(files) \subseteq Names
         /\ \A s \in DOMAIN loadSkills(files) : loadSkills(files)[s] \in Manifests /\ Valid(loadSkills(files)[s])
<1> DEFINE kept == {x \in Names : files[x] \in Manifests}
<1>1. \A s \in kept : s \in Names /\ files[s] \in Manifests /\ Valid(files[s])
  BY DEF Compiles
<1>2. loadSkills(files) = [s \in kept |-> files[s]]
  BY DEF loadSkills
<1> HIDE DEF kept
<1>3. kept \subseteq Names
  BY <1>1
<1> QED
  BY <1>1, <1>2, <1>3

(* A deploy, however it ends, and a file put there by hand change one       *)
(* directory, which was not there, and nothing of what is loaded.           *)
LEMMA DeployAdds ==
  ASSUME SkillInv, NEW m \in Manifests, NEW x \in Contents, FileOf(m, x), Free(m)
  PROVE  files' \in [Names -> Contents] /\ \A s \in Names : files[s] # Absent => files'[s] = files[s]
<1>1. m.skill \in Names
  BY SkillAssumption DEF IsManifest
<1> QED
  BY <1>1 DEF SkillInv, FileOf, Free

(* Every step keeps what is loaded valid, and leaves every skill that is    *)
(* there as it is, or takes it away.                                        *)
LEMMA SkillStep ==
  ASSUME SkillInv, [SkillNext]_skillVars
  PROVE  SkillInv' /\ \A s \in Names : files[s] # Absent => files'[s] \in {files[s], Absent}
<1>q. ASSUME UNCHANGED files PROVE files' \in [Names -> Contents] /\ \A s \in Names : files'[s] = files[s]
  BY <1>q DEF SkillInv
<1>1. CASE Boot
  <2>1. /\ DOMAIN loaded' \subseteq Names
        /\ \A s \in DOMAIN loaded' : loaded'[s] \in Manifests /\ Valid(loaded'[s])
    BY <1>1, LoadsValid DEF Boot
  <2> QED
    BY <1>1, <2>1, <1>q DEF Boot, SkillInv
<1>2. CASE Stops \/ \E m \in Manifests : RefuseDeploy(m)
  BY <1>2, <1>q DEF Stops, RefuseDeploy, Deploying, SkillInv
<1>3. ASSUME NEW s \in Names, TurnOff(s) PROVE SkillInv' /\ \A n \in Names : files[n] # Absent => files'[n] \in {files[n], Absent}
  <2>1. files' = [files EXCEPT ![s] = Absent] /\ loaded' = loaded
    BY <1>3 DEF TurnOff
  <2>2. Absent \in Contents
    BY DEF Contents
  <2> QED
    BY <2>1, <2>2 DEF SkillInv
<1>4. ASSUME NEW m \in Manifests, WriteFails(m) \/ DeployUnlogged(m) \/ DeploySkill(m) \/ DiesDeploying(m) \/ TurnOn(m)
      PROVE  SkillInv' /\ \A s \in Names : files[s] # Absent => files'[s] \in {files[s], Absent}
  <2>1. loaded' = loaded /\ Free(m)
    BY <1>4 DEF WriteFails, DeployUnlogged, DeploySkill, DiesDeploying, TurnOn, Deploying, Free
  <2>2. m.skill \in Names
    BY SkillAssumption DEF IsManifest
  <2>3. \E x \in Contents : FileOf(m, x)
    <3>1. files[m.skill] \in Contents /\ Empty \in Contents /\ Unreadable \in Contents /\ m \in Contents
      BY <2>2 DEF SkillInv, Contents
    <3> QED
      BY <1>4, <3>1 DEF WriteFails, DeployUnlogged, DeploySkill, DiesDeploying, TurnOn
  <2>4. files' \in [Names -> Contents] /\ \A s \in Names : files[s] # Absent => files'[s] = files[s]
    BY <2>1, <2>3, DeployAdds
  <2> QED
    BY <2>1, <2>4 DEF SkillInv
<1>5. CASE UNCHANGED skillVars
  BY <1>5, <1>q DEF skillVars, SkillInv
<1> QED
  BY <1>1, <1>2, <1>3, <1>4, <1>5 DEF SkillNext

(* A manifest is in the directory of its skill, and is loaded from there.   *)
SkillTypes ==
  /\ serving \in BOOLEAN /\ deploys \in 0..MaxDeploys
  /\ \A s \in Names : files[s] \in Manifests => files[s].skill = s
  /\ \A s \in DOMAIN loaded : loaded[s].skill = s

LEMMA LoadsByName ==
  ASSUME \A s \in Names : files[s] \in Manifests => files[s].skill = s
  PROVE  \A s \in DOMAIN loadSkills(files) : loadSkills(files)[s].skill = s
BY DEF loadSkills

LEMMA SkillTypesStep ==
  ASSUME SkillInv, SkillTypes, [SkillNext]_skillVars
  PROVE  SkillTypes'
<1>1. CASE Boot
  <2>1. \A s \in DOMAIN loaded' : loaded'[s].skill = s
    BY <1>1, LoadsByName DEF Boot, SkillTypes
  <2> QED
    BY <1>1, <2>1 DEF Boot, SkillTypes
<1>2. CASE Stops \/ \E m \in Manifests : RefuseDeploy(m)
  <2>1. files' = files /\ loaded' = loaded /\ serving' \in {serving, FALSE} /\ deploys' \in {deploys, deploys + 1}
    BY <1>2 DEF Stops, RefuseDeploy, Deploying
  <2>2. deploys' = deploys \/ deploys < MaxDeploys
    BY <1>2 DEF Stops, RefuseDeploy, Deploying
  <2>3. deploys' \in 0..MaxDeploys
    BY <2>1, <2>2, SkillAssumption DEF SkillTypes
  <2> QED
    BY <2>1, <2>3 DEF SkillTypes
<1>3. ASSUME NEW s \in Names, TurnOff(s) PROVE SkillTypes'
  <2>1. files' = [files EXCEPT ![s] = Absent] /\ UNCHANGED <<serving, loaded, deploys>> /\ Absent \notin Manifests
    BY <1>3, SkillAssumption DEF TurnOff
  <2>2. \A x \in Names : files'[x] = Absent \/ files'[x] = files[x]
    BY <2>1 DEF SkillInv
  <2> QED
    BY <2>1, <2>2 DEF SkillTypes
<1>4. ASSUME NEW m \in Manifests, WriteFails(m) \/ DeployUnlogged(m) \/ DeploySkill(m) \/ DiesDeploying(m) \/ TurnOn(m)
      PROVE  SkillTypes'
  <2>1. deploys' \in 0..MaxDeploys /\ serving' \in BOOLEAN /\ loaded' = loaded
    <3>1. deploys < MaxDeploys /\ deploys' = deploys + 1
      BY <1>4 DEF WriteFails, DeployUnlogged, DeploySkill, DiesDeploying, TurnOn, Deploying
    <3>2. deploys' \in 0..MaxDeploys
      BY <3>1, SkillAssumption DEF SkillTypes
    <3>3. loaded' = loaded /\ (serving' = serving \/ serving' \in BOOLEAN)
      BY <1>4, Zenon DEF WriteFails, DeployUnlogged, DeploySkill, DiesDeploying, TurnOn, Deploying
    <3>4. serving \in BOOLEAN
      BY DEF SkillTypes
    <3> QED
      BY <3>2, <3>3, <3>4
  <2>2. m.skill \in Names /\ {Absent, Empty, Unreadable} \cap Manifests = {}
    BY SkillAssumption DEF IsManifest
  <2>3. \E x \in {files[m.skill], Empty, Unreadable, m} : FileOf(m, x)
    BY <1>4 DEF WriteFails, DeployUnlogged, DeploySkill, DiesDeploying, TurnOn
  <2>4. PICK x \in {files[m.skill], Empty, Unreadable, m} : files' = [files EXCEPT ![m.skill] = x]
    BY <2>3 DEF FileOf
  <2>5. files'[m.skill] = x /\ \A s \in Names : s # m.skill => files'[s] = files[s]
    BY <2>2, <2>4 DEF SkillInv
  <2>6. x \in Manifests => x.skill = m.skill
    BY <2>2 DEF SkillTypes
  <2>7. \A s \in Names : files'[s] \in Manifests => files'[s].skill = s
    BY <2>5, <2>6 DEF SkillTypes
  <2> QED
    BY <2>1, <2>7 DEF SkillTypes
<1>5. CASE UNCHANGED skillVars
  BY <1>5 DEF skillVars, SkillTypes
<1> QED
  BY <1>1, <1>2, <1>3, <1>4, <1>5 DEF SkillNext

(* The methods a capability stands for: none but a reading one if it needs  *)
(* consent, and none but those of its verb.                                 *)
LEMMA MethodsAreOfTheVerb ==
  ASSUME NEW c \in Capability, NEW k \in methodsFor(c)
  PROVE  k = "GET" \/ (~c.gated /\ k \in MethodsOfVerb(c))
<1>1. CASE c.verb = "read" \/ c.gated
  <2>1. methodsFor(c) = {"GET"}
    BY <1>1 DEF methodsFor
  <2> QED
    BY <2>1
<1>2. CASE ~(c.verb = "read" \/ c.gated)
  <2>1. c.verb \in {"create", "update", "delete"}
    BY <1>2 DEF Capability
  <2>2. CASE c.verb = "create"
    BY <1>2, <2>2 DEF methodsFor, MethodsOfVerb
  <2>3. CASE c.verb = "update"
    BY <1>2, <2>3 DEF methodsFor, MethodsOfVerb
  <2>4. CASE c.verb = "delete"
    BY <1>2, <2>4 DEF methodsFor, MethodsOfVerb
  <2> QED
    BY <2>1, <2>2, <2>3, <2>4
<1> QED
  BY <1>1, <1>2

(* A manifest's fragment holds, for a host, the methods and paths of the    *)
(* capabilities of the group that is kept.                                  *)
LEMMA FragmentHolds ==
  ASSUME NEW m, NEW h \in Hosts, Reaching(m, h) # {}
  PROVE  \A r : r \in compileOpenShellFragment(m)[h] <=>
           \E n \in Reaching(m, h) : m.capabilities[n].egress.port = KeptPort(m, h)
             /\ \E k \in methodsFor(m.capabilities[n]) : r = <<k, m.capabilities[n].egress.path>>
<1> DEFINE group == {x \in Reaching(m, h) : m.capabilities[x].egress.port = KeptPort(m, h)}
           rulesOf(n) == {<<k, m.capabilities[n].egress.path>> : k \in methodsFor(m.capabilities[n])}
<1>1. compileOpenShellFragment(m)[h] = UNION {rulesOf(n) : n \in group}
  BY DEF compileOpenShellFragment
<1>2. \A r : r \in UNION {rulesOf(n) : n \in group} <=> \E n \in group : r \in rulesOf(n)
  OBVIOUS
<1>3. \A n, r : r \in rulesOf(n) <=> \E k \in methodsFor(m.capabilities[n]) : r = <<k, m.capabilities[n].egress.path>>
  OBVIOUS
<1>4. \A n : n \in group <=> n \in Reaching(m, h) /\ m.capabilities[n].egress.port = KeptPort(m, h)
  OBVIOUS
<1> HIDE DEF group, rulesOf
<1> QED
  BY <1>1, <1>2, <1>3, <1>4

(* The envelope holds, for a host, what some loaded skill's fragment does.  *)
LEMMA EnvelopeHolds ==
  ASSUME NEW h \in Hosts
  PROVE  \A r : r \in Envelope[h] <=>
           \E s \in DOMAIN loaded : Reaching(loaded[s], h) # {} /\ r \in compileOpenShellFragment(loaded[s])[h]
BY DEF Envelope, mergeFragments

(* Nothing stands that no enabled skill declares.                           *)
LEMMA StandingHolds ==
  ASSUME SkillInv
  PROVE  StandingIsDeclared
<1> SUFFICES ASSUME NEW h \in Hosts, NEW r \in Envelope[h]
             PROVE  \E s \in DOMAIN loaded : \E c \in CapsOf(loaded[s]) :
                      Declares(s, h, c) /\ c.egress.path = r[2] /\ (r[1] = "GET" \/ (~c.gated /\ r[1] \in MethodsOfVerb(c)))
  BY DEF StandingIsDeclared
<1>1. PICK s \in DOMAIN loaded : Reaching(loaded[s], h) # {} /\ r \in compileOpenShellFragment(loaded[s])[h]
  BY EnvelopeHolds
<1>2. PICK n \in Reaching(loaded[s], h) : \E k \in methodsFor(loaded[s].capabilities[n]) : r = <<k, loaded[s].capabilities[n].egress.path>>
  BY <1>1, FragmentHolds
<1> DEFINE c == loaded[s].capabilities[n]
<1>3. c \in CapsOf(loaded[s]) /\ c.egress # NoEgress /\ c.egress.host = h /\ n \in DOMAIN loaded[s].capabilities
  BY <1>2 DEF Reaching, CapsOf
<1>4. c \in Capability
  BY <1>3, SkillAssumption DEF SkillInv, IsManifest
<1>5. PICK k \in methodsFor(c) : r = <<k, c.egress.path>>
  BY <1>2
<1> HIDE DEF c
<1>6. r[1] = "GET" \/ (~c.gated /\ r[1] \in MethodsOfVerb(c))
  BY <1>4, <1>5, MethodsAreOfTheVerb
<1>7. c.egress.path = r[2]
  BY <1>5
<1> QED
  BY <1>3, <1>6, <1>7 DEF Declares

(* A host that a manifest names with one port keeps the group of it.        *)
LEMMA DeclaredHolds ==
  ASSUME SkillInv
  PROVE  DeclaredStands
<1> SUFFICES ASSUME NEW s \in DOMAIN loaded, NEW h \in Hosts, NEW c \in CapsOf(loaded[s]),
                    Declares(s, h, c), PortsTo(loaded[s], h) = {c.egress.port}, NEW k \in methodsFor(c)
             PROVE  <<k, c.egress.path>> \in Envelope[h]
  BY DEF DeclaredStands
<1> DEFINE m == loaded[s]
<1>1. PICK n \in DOMAIN m.capabilities : c = m.capabilities[n]
  BY DEF CapsOf
<1>2. n \in Reaching(m, h)
  BY <1>1 DEF Reaching, Declares
<1>3. KeptPort(m, h) = c.egress.port
  BY DEF KeptPort
<1>4. <<k, c.egress.path>> \in compileOpenShellFragment(m)[h]
  BY <1>1, <1>2, <1>3, FragmentHolds
<1> QED
  BY <1>2, <1>4, EnvelopeHolds

(* The envelope is what the enabled skills declare, no agent holds tools    *)
(* and a model, and no deploy changes an enabled skill.                     *)
THEOREM SkillTheorem == SkillSpec => []SkillTypeOK /\ SkillPromise
<1>1. SkillInit => SkillInv
  <2> SUFFICES ASSUME SkillInit PROVE SkillInv
    OBVIOUS
  <2>1. files \in [Names -> Contents]
    <3>1. \A s \in DOMAIN Shipped : Shipped[s] \in Contents
      BY SkillAssumption DEF Contents
    <3>2. Absent \in Contents
      BY DEF Contents
    <3> QED
      BY <3>1, <3>2 DEF SkillInit
  <2> QED
    BY <2>1, LoadsValid DEF SkillInit, SkillInv
<1>2. SkillInv /\ [SkillNext]_skillVars => SkillInv'
  BY SkillStep
<1>3. SkillInv => NoToolsWithInference
  <2> SUFFICES ASSUME SkillInv, NEW s \in DOMAIN loaded, grantsFor(loaded[s]).inference \/ loaded[s].inference
               PROVE  CapsOf(loaded[s]) = {}
    BY DEF NoToolsWithInference
  <2>1. loaded[s].level \in 0..3 /\ Valid(loaded[s])
    BY SkillAssumption DEF SkillInv, IsManifest
  <2>2. loaded[s].level <= 1
    <3>1. grantsFor(loaded[s]).inference <=> loaded[s].level <= 1
      BY Zenon DEF grantsFor
    <3>2. loaded[s].inference => loaded[s].level < 2
      BY <2>1 DEF Valid
    <3> QED
      BY <2>1, <3>1, <3>2
  <2> QED
    BY <2>1, <2>2 DEF Valid, CapsOf
<1>4. SkillInv => StandingIsDeclared /\ DeclaredStands
  BY StandingHolds, DeclaredHolds
<1>5. SkillInv /\ [SkillNext]_skillVars => [\A s \in Names : files[s] # Absent => files'[s] \in {files[s], Absent}]_skillVars
  BY SkillStep
<1>6. SkillInit => SkillTypes
  <2>1. ASSUME SkillInit PROVE \A s \in Names : files[s] \in Manifests => files[s].skill = s
    BY <2>1, SkillAssumption DEF SkillInit
  <2> QED
    BY <2>1, LoadsByName, SkillAssumption DEF SkillInit, SkillTypes
<1>7. SkillInv /\ SkillTypes /\ [SkillNext]_skillVars => SkillTypes'
  BY SkillTypesStep
<1>8. SkillInv /\ SkillTypes => SkillTypeOK
  BY DEF SkillInv, SkillTypes, SkillTypeOK
<1> QED
  BY <1>1, <1>2, <1>3, <1>4, <1>5, <1>6, <1>7, <1>8, PTL DEF SkillSpec, SkillPromise, NeverOverwritten

-----------------------------------------------------------------------------
(* The lookup of triggers.                                                  *)

LEMMA LeastOf ==
  ASSUME NEW S, S \subseteq Nat, S # {}
  PROVE  \E m \in S : \A n \in S : m <= n
<1> DEFINE R == OpToRel(<, Nat)
<1>1. IsWellFoundedOn(R, Nat)
  BY NatLessThanWellFounded
<1>2. \A n, m \in Nat : n < m => <<n, m>> \in R
  BY DEF OpToRel
<1> HIDE DEF R
<1>3. \E m \in S : \A n \in S : ~(<<n, m>> \in R)
  BY <1>1, WFMin, Zenon
<1>4. PICK m \in S : \A n \in S : ~(<<n, m>> \in R)
  BY <1>3
<1>5. \A n \in S : n \in Nat /\ m \in Nat /\ ~(n < m)
  BY <1>2, <1>4
<1>6. \A n \in S : m <= n
  BY <1>5
<1> QED
  BY <1>4, <1>6

LEMMA GreatestOf ==
  ASSUME NEW N \in Nat, NEW S, S \subseteq 1..N, S # {}
  PROVE  \E m \in S : \A n \in S : n <= m
<1> DEFINE D == {N - n : n \in S}
<1>0. \A n \in S : N - n \in Nat
  OBVIOUS
<1>1. D \subseteq Nat /\ D # {}
  BY <1>0
<1>2. \A n \in S : N - n \in D
  OBVIOUS
<1>3. \A d \in D : \E n \in S : d = N - n
  OBVIOUS
<1> HIDE DEF D
<1>4. PICK d \in D : \A e \in D : d <= e
  BY <1>1, LeastOf
<1>5. PICK m \in S : d = N - m
  BY <1>3
<1>6. \A n \in S : N - m <= N - n
  BY <1>2, <1>4, <1>5
<1>7. \A n \in S : n <= m
  BY <1>6
<1> QED
  BY <1>7

LEMMA FirstIs ==
  ASSUME NEW S, S \subseteq Nat, S # {}
  PROVE  First(S) \in S /\ \A n \in S : First(S) <= n
<1>1. \E m \in S : \A n \in S : m <= n
  BY LeastOf
<1> QED
  BY <1>1, Zenon DEF First

(* What one step of the scan says of a place, by what is said of later ones.*)
Look(f, p, from) ==
  LET S == Occurrences(p, from) IN
  S # {} /\ (~Negated(First(S)) \/ f[First(S) + Len(p)])

(* Where a scan may stand.                                                  *)
ScanEnd(p) == Len(text) + Len(p) + 1

LEMMA NextLook ==
  ASSUME text \in Seq(Words), NEW p \in Seq(Words) \ {<<>>}, NEW from \in 1..ScanEnd(p),
         Occurrences(p, from) # {}
  PROVE  LET i == First(Occurrences(p, from)) IN
         /\ i \in from..Len(text) /\ OccursAt(p, i) /\ i + Len(p) \in 1..ScanEnd(p) /\ i + Len(p) > from
         /\ \A j \in from..Len(text) : OccursAt(p, j) => i <= j
<1> DEFINE S == Occurrences(p, from)
           i == First(S)
<1>1. Len(text) \in Nat /\ Len(p) \in Nat /\ Len(p) > 0
  BY EmptySeq, LenProperties
<1>2. S = {j \in from..Len(text) : OccursAt(p, j)}
  BY DEF Occurrences
<1>3. S \subseteq Nat
  BY <1>1, <1>2 DEF ScanEnd
<1>4. i \in S /\ \A j \in S : i <= j
  BY <1>3, FirstIs
<1> HIDE DEF i
<1>5. i \in from..Len(text) /\ OccursAt(p, i) /\ \A j \in from..Len(text) : OccursAt(p, j) => i <= j
  BY <1>2, <1>4
<1>6. i + Len(p) \in 1..ScanEnd(p) /\ i + Len(p) > from
  BY <1>1, <1>5 DEF ScanEnd
<1> QED
  BY <1>5, <1>6 DEF i

(* The recursion of the scan is well founded: there is one that is what it  *)
(* says at every place, found from the last place back.                     *)
LEMMA ScanIs ==
  ASSUME text \in Seq(Words), NEW p \in Seq(Words) \ {<<>>}
  PROVE  \A from \in 1..ScanEnd(p) : Scan(p)[from] = Look(Scan(p), p, from)
<1> DEFINE N == ScanEnd(p)
           Good(n) == \E f \in [n..N -> BOOLEAN] : \A from \in n..N : f[from] = Look(f, p, from)
           B == {n \in 1..N : ~Good(n)}
<1>1. N \in Nat /\ N >= 1 /\ Len(text) \in Nat /\ Len(p) \in Nat /\ Len(p) > 0
  BY EmptySeq, LenProperties DEF ScanEnd
<1>2. Occurrences(p, N) = {}
  BY <1>1 DEF Occurrences, ScanEnd
<1> HIDE DEF N
<1>3. Good(N)
  <2> DEFINE f == [from \in N..N |-> FALSE]
  <2>1. f \in [N..N -> BOOLEAN]
    OBVIOUS
  <2>2. \A from \in N..N : from = N
    BY <1>1
  <2>3. \A from \in N..N : f[from] = FALSE
    OBVIOUS
  <2> HIDE DEF f
  <2>4. \A from \in N..N : f[from] = Look(f, p, from)
    BY <1>2, <2>2, <2>3, Zenon DEF Look
  <2> QED
    BY <2>1, <2>4
<1>4. ASSUME NEW n \in 1..N, n < N, Good(n + 1)
      PROVE  Good(n)
  <2>1. PICK f \in [(n + 1)..N -> BOOLEAN] : \A from \in (n + 1)..N : f[from] = Look(f, p, from)
    BY <1>4
  <2> DEFINE g == [from \in n..N |-> IF from = n THEN Look(f, p, n) ELSE f[from]]
  <2>2. \A from \in (n + 1)..N : from \in n..N /\ from # n
    BY <1>1
  <2>3. \A from \in n..N : from = n \/ from \in (n + 1)..N
    BY <1>1
  <2>4. n \in n..N /\ g[n] = Look(f, p, n)
    BY <1>1
  <2>5. \A from \in (n + 1)..N : g[from] = f[from]
    BY <2>2
  <2>6. Look(f, p, n) \in BOOLEAN
    <3>1. CASE Occurrences(p, n) = {}
      BY <3>1, Zenon DEF Look
    <3>2. CASE Occurrences(p, n) # {}
      <4> DEFINE j == First(Occurrences(p, n)) + Len(p)
      <4>1. j \in 1..N /\ j > n
        BY <3>2, NextLook DEF N
      <4>2. j \in (n + 1)..N
        BY <1>1, <4>1
      <4>3. f[j] \in BOOLEAN
        BY <4>2
      <4> QED
        BY <4>3, Zenon DEF Look
    <3> QED
      BY <3>1, <3>2
  <2>7. g \in [n..N -> BOOLEAN]
    BY <2>3, <2>6
  <2> HIDE DEF g
  <2>8. ASSUME NEW from \in n..N
        PROVE  Look(g, p, from) = Look(f, p, from)
    <3>1. CASE Occurrences(p, from) = {}
      BY <3>1, Zenon DEF Look
    <3>2. CASE Occurrences(p, from) # {}
      <4> DEFINE j == First(Occurrences(p, from)) + Len(p)
      <4>0. from \in 1..N
        BY <1>1
      <4>1. j \in 1..N /\ j > from
        BY <3>2, <4>0, NextLook DEF N
      <4>2. j \in (n + 1)..N
        BY <1>1, <4>1
      <4>3. g[j] = f[j]
        BY <2>5, <4>2
      <4> QED
        BY <4>3, Zenon DEF Look
    <3> QED
      BY <3>1, <3>2
  <2>9. \A from \in n..N : g[from] = Look(g, p, from)
    <3>1. g[n] = Look(g, p, n)
      BY <2>4, <2>8
    <3>2. \A from \in (n + 1)..N : g[from] = Look(g, p, from)
      BY <2>1, <2>2, <2>5, <2>8
    <3> QED
      BY <2>3, <3>1, <3>2
  <2> QED
    BY <2>7, <2>9
<1>5. Good(1)
  <2> HIDE DEF Good
  <2>1. SUFFICES ASSUME ~Good(1) PROVE FALSE
    OBVIOUS
  <2>2. B \subseteq 1..N /\ B # {}
    BY <1>1, <2>1
  <2> HIDE DEF B
  <2>3. PICK n \in B : \A m \in B : m <= n
    BY <1>1, <2>2, GreatestOf
  <2>4. n \in 1..N /\ ~Good(n)
    BY <2>3 DEF B
  <2>5. n # N
    BY <1>3, <2>4
  <2>6. n < N /\ n + 1 \in 1..N /\ n + 1 \notin B
    BY <1>1, <2>3, <2>4, <2>5
  <2>7. Good(n + 1)
    BY <2>6 DEF B
  <2> QED
    BY <1>4, <2>4, <2>6, <2>7
<1>6. PICK f \in [1..N -> BOOLEAN] : \A from \in 1..N : f[from] = Look(f, p, from)
  BY <1>5
<1>7. f = [from \in 1..N |-> Look(f, p, from)]
  BY <1>6
<1>8. Scan(p) = CHOOSE h : h = [from \in 1..N |-> Look(h, p, from)]
  BY DEF Scan, Look, N, ScanEnd
<1>9. Scan(p) = [from \in 1..N |-> Look(Scan(p), p, from)]
  BY <1>7, <1>8
<1>10. \A from \in 1..N : Scan(p)[from] = Look(Scan(p), p, from)
  BY <1>9
<1> QED
  BY <1>10 DEF N

LEMMA GuardIs ==
  ASSUME NEW i \in Nat, Denied(i), i > 2 => ~TooLong(text[i - 2], text[i - 1])
  PROVE  Negated(i)
<1>1. CASE i > 1 /\ text[i - 1] \in Negations
  BY <1>1, GuardAssumption DEF Negated
<1>2. CASE i > 2 /\ text[i - 1] \in Qualifiers /\ text[i - 2] \in Negations
  BY <1>2, GuardAssumption DEF Negated
<1> QED
  BY <1>1, <1>2 DEF Denied

LEMMA PhrasesAre ==
  ASSUME NEW r \in DOMAIN ruleList
  PROVE  Phrases(r) \subseteq Seq(Words) \ {<<>>}
<1>1. ruleList[r] \in Seq(Seq(Words) \ {<<>>})
  BY MatchAssumption, ElementOfSeq
<1>2. \A k \in DOMAIN ruleList[r] : ruleList[r][k] \in Seq(Words) \ {<<>>}
  BY <1>1, ElementOfSeq
<1> QED
  BY <1>2 DEF Phrases

(* Every place up to one that is said plainly finds it, or an earlier one:  *)
(* the last that did not would be followed by one that did.                 *)
LEMMA PlainIsHit ==
  ASSUME text \in Seq(Words), NEW p \in Seq(Words) \ {<<>>}, NEW i \in DOMAIN text,
         OccursAt(p, i), Apart(p, i), ~Denied(i)
  PROVE  Hits(p)
<1> DEFINE B == {from \in 1..i : ~Scan(p)[from]}
<1>1. Len(text) \in Nat /\ Len(p) \in Nat /\ Len(p) > 0 /\ i \in 1..Len(text)
  BY EmptySeq, LenProperties
<1>2. SUFFICES ASSUME B # {} PROVE FALSE
  BY <1>1 DEF Hits
<1>3. PICK from \in B : \A m \in B : m <= from
  <2>1. i \in Nat /\ B \subseteq 1..i
    BY <1>1
  <2> HIDE DEF B
  <2> QED
    BY <1>2, <2>1, GreatestOf
<1>4. from \in 1..i /\ ~Scan(p)[from] /\ from \in 1..ScanEnd(p)
  BY <1>1 DEF ScanEnd
<1>5. \A m \in 1..i : m > from => Scan(p)[m]
  <2>1. \A m \in B : m <= from
    BY <1>3
  <2> QED
    BY <1>1, <1>4, <2>1
<1>6. i \in from..Len(text)
  BY <1>1, <1>4
<1>7. i \in Occurrences(p, from)
  BY <1>6 DEF Occurrences
<1> DEFINE j == First(Occurrences(p, from))
<1>8. j \in from..Len(text) /\ OccursAt(p, j) /\ j + Len(p) > from /\ j <= i
  BY <1>4, <1>6, <1>7, NextLook
<1>9. Scan(p)[from] = Look(Scan(p), p, from)
  BY <1>4, ScanIs
<1>10. Negated(j) /\ ~Scan(p)[j + Len(p)]
  BY <1>4, <1>7, <1>9, Zenon DEF Look
<1> HIDE DEF j
<1>11. CASE j = i
  BY <1>10, <1>11, Zenon DEF Negated, Denied
<1>12. CASE j # i
  <2>1. j \in 1..(i - 1)
    BY <1>1, <1>4, <1>8, <1>12
  <2>2. j + Len(p) <= i
    BY <1>8, <2>1 DEF Apart
  <2>3. j + Len(p) \in 1..i
    BY <1>1, <2>1, <2>2
  <2>4. Scan(p)[j + Len(p)]
    BY <1>5, <1>8, <2>3
  <2> QED
    BY <1>10, <2>4
<1> QED
  BY <1>11, <1>12

(* The last place from which a scan finds something stands before one that  *)
(* is not denied.                                                           *)
LEMMA HitIsPlain ==
  ASSUME text \in Seq(Words), NEW p \in Seq(Words) \ {<<>>}, Hits(p)
  PROVE  \E i \in DOMAIN text : OccursAt(p, i) /\ ~Negated(i)
<1> DEFINE G == {from \in 1..ScanEnd(p) : Scan(p)[from]}
<1>1. Len(text) \in Nat /\ Len(p) \in Nat /\ Len(p) > 0
  BY EmptySeq, LenProperties
<1>2. ScanEnd(p) \in Nat /\ 1 \in 1..ScanEnd(p)
  BY <1>1 DEF ScanEnd
<1>3. 1 \in G
  BY <1>2 DEF Hits
<1>4. PICK from \in G : \A m \in G : m <= from
  <2>1. G \subseteq 1..ScanEnd(p) /\ G # {}
    BY <1>3
  <2> HIDE DEF G
  <2> QED
    BY <1>2, <2>1, GreatestOf
<1>5. from \in 1..ScanEnd(p) /\ Scan(p)[from]
  OBVIOUS
<1>6. \A m \in 1..ScanEnd(p) : Scan(p)[m] => m <= from
  <2>1. \A m \in G : m <= from
    BY <1>4
  <2> QED
    BY <2>1
<1>7. Scan(p)[from] = Look(Scan(p), p, from)
  BY <1>5, ScanIs
<1> DEFINE i == First(Occurrences(p, from))
<1>8. Occurrences(p, from) # {} /\ (~Negated(i) \/ Scan(p)[i + Len(p)])
  BY <1>5, <1>7, Zenon DEF Look
<1>9. i \in from..Len(text) /\ OccursAt(p, i) /\ i + Len(p) \in 1..ScanEnd(p) /\ i + Len(p) > from
  BY <1>5, <1>8, NextLook
<1> HIDE DEF i
<1>10. ~(i + Len(p) <= from)
  BY <1>1, <1>5, <1>9
<1>11. ~Negated(i)
  BY <1>6, <1>8, <1>9, <1>10
<1>12. i \in DOMAIN text
  BY <1>1, <1>5, <1>9, LenProperties
<1> QED
  BY <1>9, <1>11, <1>12

(* A text raises the incident of what it says and of nothing else: a phrase *)
(* without a negation before it is found, however often it was denied       *)
(* before, and one that is denied wherever it stands is not; for any words, *)
(* rules and texts.                                                         *)
THEOREM MatchTheorem == MatchSpec => []MatchPromise
<1> DEFINE IInv == text \in Seq(Words)
<1>1. MatchInit => IInv
  BY DEF MatchInit
<1>2. IInv /\ [\E w \in Words : Say(w)]_text => IInv'
  BY AppendProperties DEF Say
<1>3. IInv => MatchPromise
  <2>1. SUFFICES ASSUME text \in Seq(Words) PROVE SaidIsFound /\ DeniedIsSilent
    BY DEF MatchPromise
  <2>2. DOMAIN ruleList = 1..Len(ruleList) /\ Len(ruleList) \in Nat
    BY MatchAssumption, LenProperties
  <2>3. RulesHit \subseteq DOMAIN ruleList /\ RulesHit \subseteq Nat
    BY <2>2 DEF RulesHit
  <2>4. ASSUME NEW r \in DOMAIN ruleList, NEW i \in DOMAIN text, NEW p \in Phrases(r),
               OccursAt(p, i), Apart(p, i), ~Denied(i)
        PROVE  match \in 1..r
    <3>1. Hits(p)
      BY <2>1, <2>4, PhrasesAre, PlainIsHit
    <3>2. r \in RulesHit
      BY <3>1 DEF RulesHit, Phrases
    <3>3. First(RulesHit) \in RulesHit /\ First(RulesHit) <= r
      BY <2>3, <3>2, FirstIs
    <3>4. match = First(RulesHit)
      BY <3>2 DEF match
    <3> QED
      BY <2>2, <2>3, <3>3, <3>4
  <2>5. ASSUME \A r \in DOMAIN ruleList, i \in DOMAIN text : \A p \in Phrases(r) :
                 OccursAt(p, i) => Denied(i) /\ (i > 2 => ~TooLong(text[i - 2], text[i - 1])),
               NEW r \in RulesHit
        PROVE  FALSE
    <3>1. PICK k \in DOMAIN ruleList[r] : Hits(ruleList[r][k])
      BY DEF RulesHit
    <3> DEFINE p == ruleList[r][k]
    <3>2. r \in DOMAIN ruleList /\ p \in Phrases(r)
      BY <2>3 DEF Phrases
    <3>3. p \in Seq(Words) \ {<<>>} /\ Hits(p)
      BY <3>1, <3>2, PhrasesAre
    <3> HIDE DEF p
    <3>4. PICK i \in DOMAIN text : OccursAt(p, i) /\ ~Negated(i)
      BY <2>1, <3>3, HitIsPlain
    <3>5. Denied(i) /\ (i > 2 => ~TooLong(text[i - 2], text[i - 1]))
      BY <2>5, <3>2, <3>4
    <3>6. i \in Nat
      BY <2>1, LenProperties
    <3> QED
      BY <3>4, <3>5, <3>6, GuardIs
  <2>6. SaidIsFound
    BY <2>1, <2>4 DEF SaidIsFound
  <2>7. DeniedIsSilent
    BY <2>5 DEF DeniedIsSilent, match
  <2> QED
    BY <2>6, <2>7
<1> QED
  BY <1>1, <1>2, <1>3, PTL DEF MatchSpec

-----------------------------------------------------------------------------
(* A set of naturals that is not empty has a least element.                 *)
LEMMA LeastOfSome ==
  ASSUME NEW S, S \subseteq Nat, S # {}
  PROVE  \E m \in S : \A n \in S : m <= n
<1> DEFINE R == OpToRel(<, Nat)
<1>1. IsWellFoundedOn(R, Nat)
  BY NatLessThanWellFounded
<1>2. \A n, m \in Nat : n < m => <<n, m>> \in R
  BY DEF OpToRel
<1> HIDE DEF R
<1>3. \E m \in S : \A n \in S : ~(<<n, m>> \in R)
  BY <1>1, WFMin, Zenon
<1>4. PICK m \in S : \A n \in S : ~(<<n, m>> \in R)
  BY <1>3
<1>5. \A n \in S : n \in Nat /\ m \in Nat /\ ~(n < m)
  BY <1>2, <1>4
<1>6. \A n \in S : m <= n
  BY <1>5
<1> QED
  BY <1>6

-----------------------------------------------------------------------------
(* The Action API.  A bucket holds what the limit leaves of every stretch   *)
(* of requests that reaches up to now.  A signature that served is in the   *)
(* cache, until its window is over or has been over.  The key of a proposal *)
(* that was accepted has an intent.                                         *)
ApiTypes ==
  /\ now \in Nat /\ peak \in Nat /\ now <= peak
  /\ buckets \in [Senders -> [tokens : Int, last : Nat]]
  /\ admits \in [Senders -> Seq(Nat)]
  /\ served \in [Signatures -> [at : Nat, times : Nat]]
  /\ nonces \in Seq(Cache!Entry(Signatures, Nat))
  /\ proposer \in [Keys -> Senders \cup {KeyLess}]

BucketsHold ==
  \A c \in Senders :
    /\ buckets[c].tokens <= capacity
    /\ \A i \in DOMAIN admits[c] :
         Len(admits[c]) - i + 1 + buckets[c].tokens <= capacity + (buckets[c].last - admits[c][i]) * refill

Guarded(s) ==
  \/ peak >= served[s].at + SIG_WINDOW
  \/ \E i \in DOMAIN nonces : nonces[i].key = s /\ nonces[i].exp >= served[s].at + SIG_WINDOW
ServedIsGuarded == \A s \in Signatures : served[s].times > 0 => Guarded(s)
AcceptedIsKnown == \A k \in accepted : k \in Keys /\ proposer[k] # KeyLess

ApiInv ==
  /\ ApiTypes /\ BucketsHold /\ ServedIsGuarded /\ AcceptedIsKnown
  /\ RateHolds /\ RetryIsNoReplay

(* The sweep drops only what has expired, in whatever order the entries     *)
(* came.                                                                    *)
LEMMA SweepDropsExpired ==
  ASSUME NEW K, NEW m \in Seq(Cache!Entry(K, Nat)), NEW t \in Nat,
         NEW s, s = Cache!Sweep(m, t)
  PROVE  /\ s \in Seq(Cache!Entry(K, Nat))
         /\ \A i \in DOMAIN m : m[i].exp <= t \/ \E j \in DOMAIN s : s[j] = m[i]
<1> DEFINE live == Cache!Live(m, t)
<1>1. DOMAIN m = 1..Len(m) /\ Len(m) \in Nat
  BY LenProperties
<1>2. \A i \in DOMAIN m : m[i] \in Cache!Entry(K, Nat) /\ m[i].exp \in Nat
  <2>1. \A i \in DOMAIN m : m[i] \in Cache!Entry(K, Nat)
    BY <1>1, ElementOfSeq
  <2> QED
    BY <2>1 DEF Cache!Entry
<1>3. live \subseteq DOMAIN m /\ live \subseteq Nat
  BY <1>1 DEF Cache!Live
<1>4. \A i \in DOMAIN m : i \in live \/ m[i].exp <= t
  BY <1>2 DEF Cache!Live
<1>5. CASE live = {}
  <2>1. s = <<>>
    BY <1>5 DEF Cache!Sweep
  <2> QED
    BY <1>4, <1>5, <2>1, EmptySeq
<1>6. CASE live # {}
  <2> DEFINE a == CHOOSE i \in live : \A j \in live : i <= j
  <2>1. a \in live /\ \A j \in live : a <= j
    BY <1>3, <1>6, LeastOfSome
  <2>2. s = SubSeq(m, a, Len(m))
    BY <1>6 DEF Cache!Sweep
  <2>3. a \in 1..Len(m)
    BY <1>1, <1>3, <2>1
  <2> HIDE DEF a
  <2>4. \A k \in a..Len(m) : m[k] \in Cache!Entry(K, Nat)
    BY <1>1, <1>2, <2>3
  <2>5. s \in Seq(Cache!Entry(K, Nat)) /\ Len(s) = Len(m) - a + 1 /\ \A i \in 1..Len(s) : s[i] = m[a + i - 1]
    BY <1>1, <2>2, <2>3, <2>4, SubSeqProperties
  <2>6. DOMAIN s = 1..Len(s)
    BY <2>5, LenProperties
  <2>7. ASSUME NEW i \in DOMAIN m, i \in live PROVE \E j \in DOMAIN s : s[j] = m[i]
    <3>1. i - a + 1 \in 1..Len(s) /\ a + (i - a + 1) - 1 = i
      BY <1>1, <2>1, <2>3, <2>5, <2>7
    <3> QED
      BY <2>5, <2>6, <3>1
  <2> QED
    BY <1>4, <2>5, <2>7
<1> QED
  BY <1>5, <1>6

(* A signature that was not there is there with its expiry.                 *)
LEMMA PutIsThere ==
  ASSUME NEW K, NEW m \in Seq(Cache!Entry(K, Nat)), NEW k, NEW e, ~Cache!Has(m, k)
  PROVE  \E i \in DOMAIN Cache!Put(m, k, e) : Cache!Put(m, k, e)[i].key = k /\ Cache!Put(m, k, e)[i].exp = e
<1> DEFINE new == [key |-> k, exp |-> e]
<1>1. Cache!Put(m, k, e) = Append(m, new) /\ new.key = k /\ new.exp = e
  BY DEF Cache!Put
<1>2. Len(m) \in Nat /\ DOMAIN m = 1..Len(m)
  BY LenProperties
<1> HIDE DEF new
<1>3. DOMAIN Append(m, new) = 1..(Len(m) + 1) /\ Append(m, new)[Len(m) + 1] = new
  BY <1>2
<1> QED
  BY <1>1, <1>2, <1>3

(* A signature that was not there goes to the end.                          *)
LEMMA PutAdds ==
  ASSUME NEW K, NEW m \in Seq(Cache!Entry(K, Nat)), NEW k \in K, NEW e \in Nat, ~Cache!Has(m, k),
         NEW p, p = Cache!Put(m, k, e)
  PROVE  /\ p \in Seq(Cache!Entry(K, Nat))
         /\ \A i \in DOMAIN m : i \in DOMAIN p /\ p[i] = m[i]
         /\ \E i \in DOMAIN p : p[i].key = k /\ p[i].exp = e
<1> DEFINE new == [key |-> k, exp |-> e]
<1>1. p = Append(m, new) /\ new \in Cache!Entry(K, Nat) /\ new.key = k /\ new.exp = e
  BY DEF Cache!Put, Cache!Entry
<1>2. Len(m) \in Nat /\ DOMAIN m = 1..Len(m)
  BY LenProperties
<1> HIDE DEF new
<1>3. /\ p \in Seq(Cache!Entry(K, Nat)) /\ DOMAIN p = 1..(Len(m) + 1)
      /\ \A i \in 1..Len(m) : p[i] = m[i]
      /\ p[Len(m) + 1] = new
  BY <1>1, <1>2, AppendProperties, LenProperties
<1> QED
  BY <1>1, <1>2, <1>3

-----------------------------------------------------------------------------
(* What a request does to the four parts of the state.                      *)
TakesToken(r) ==
  \/ UNCHANGED <<buckets, admits>>
  \/ Spend(r.caller, 0) /\ UNCHANGED admits
  \/ HasToken(r.caller) /\ Spend(r.caller, 1) /\ admits' = [admits EXCEPT ![r.caller] = Append(@, now)]

UsesNonce(r) ==
  \/ nonces' \in {nonces, SweptNonces} /\ UNCHANGED served
  \/ Unused(r) /\ nonces' = Cache!Put(SweptNonces, SigOf(r), now + SIG_WINDOW)
     /\ (served' = served \/ served' = [served EXCEPT ![SigOf(r)] = [at |-> now, times |-> @.times + 1]])

Proposes(r) ==
  \/ UNCHANGED <<proposer, accepted>> /\ ~(r.kind = "propose" /\ last'.status = "409")
  \/ r.key \in Keys /\ proposer[r.key] # KeyLess /\ UNCHANGED proposer /\ accepted' = accepted \cup {r.key} /\ last'.status = "202"
  \/ r.key \in Keys /\ proposer[r.key] = KeyLess /\ proposer' = [proposer EXCEPT ![r.key] = r.caller]
     /\ (accepted' = accepted \/ (accepted' = accepted \cup {r.key} /\ last'.status = "202"))

WritesDown(r) == last'.req = r /\ (UNCHANGED <<proposer, settled>> \/ r.kind = "ui-decide" \/ last'.evidence = "row")

(* It is looked up once, and the row comes before what it tells of.         *)
LEMMA RequestSays ==
  ASSUME NEW r \in ApiRequests, handle(r)
  PROVE  TakesToken(r) /\ UsesNonce(r) /\ Proposes(r) /\ WritesDown(r)
<1> DEFINE Took == HasToken(r.caller) /\ Spend(r.caller, 1) /\ admits' = [admits EXCEPT ![r.caller] = Append(@, now)]
           Served == served' = [served EXCEPT ![SigOf(r)] = [at |-> now, times |-> @.times + 1]]
<1>r. r.key \in Keys \cup {KeyLess} /\ r.kind \in KIND
  BY ApiAssumption DEF Request
<1>b. served' = served /\ nonces' \in {nonces, SweptNonces} => UsesNonce(r)
  BY DEF UsesNonce
<1>a. UNCHANGED <<proposer, accepted>> /\ ~(r.kind = "propose" /\ last'.status = "409") => Proposes(r)
  BY DEF Proposes
<1>c. Took => TakesToken(r)
  BY DEF TakesToken
<1>w. ASSUME NEW status, NEW evidence, Respond(r, status, evidence), UNCHANGED <<proposer, settled>> \/ evidence = "row" \/ r.kind = "ui-decide"
      PROVE  WritesDown(r)
  BY <1>w DEF Respond, WritesDown
<1>1. CASE TurnedAway(r) /\ r.kind # "ui-decide"
  <2>1. nonces' = nonces /\ UNCHANGED <<proposer, settled>>
    BY <1>1 DEF TurnedAway
  <2>2. served' = served /\ accepted' = accepted /\ last'.status # "409"
    <3>1. PICK s \in {"401", "403", "429"} : Respond(r, s, "no row")
      BY <1>1 DEF TurnedAway
    <3> QED
      BY <3>1 DEF Respond
  <2>3. WritesDown(r)
    BY <1>1, <1>w DEF TurnedAway
  <2>4. \/ UNCHANGED <<buckets, admits>>
        \/ Spend(r.caller, 0) /\ UNCHANGED admits
        \/ Took
    BY <1>1 DEF TurnedAway, Respond
  <2> QED
    BY <2>1, <2>2, <2>3, <2>4, <1>a, <1>b DEF TakesToken
<1>2. CASE Replayed(r)
  <2>1. /\ HasToken(r.caller) /\ Spend(r.caller, 1) /\ r.kind \in {"update", "decide", "halt"} /\ nonces' = SweptNonces
        /\ UNCHANGED <<proposer, settled>> /\ Respond(r, "409", "no row")
    BY <1>2 DEF Replayed, Authentic, checkReplay, ChecksFirst
  <2>2. served' = served /\ accepted' = accepted /\ admits' = [admits EXCEPT ![r.caller] = Append(@, now)]
    BY <2>1 DEF Respond
  <2>3. WritesDown(r)
    BY <2>1, <1>w
  <2> QED
    BY <2>1, <2>2, <2>3, <1>a, <1>b, <1>c
<1>p. ASSUME Passes(r)
      PROVE  /\ HasToken(r.caller) /\ Spend(r.caller, 1) /\ r.kind # "ui-decide" /\ (ChecksFirst(r) => Unused(r))
             /\ ChecksFirst(r) => nonces' = Cache!Put(SweptNonces, SigOf(r), now + SIG_WINDOW)
             /\ r.kind = "read" => nonces' = nonces
  BY <1>p DEF Passes, Authentic, checkReplay, ChecksFirst
<1>s. ASSUME Passes(r), r.kind # "propose", UNCHANGED proposer, accepted' = accepted,
             served' = served \/ (ChecksFirst(r) /\ Served), admits' = [admits EXCEPT ![r.caller] = Append(@, now)]
      PROVE  TakesToken(r) /\ UsesNonce(r) /\ Proposes(r)
  <2>1. UsesNonce(r)
    <3>1. CASE ChecksFirst(r)
      BY <1>s, <1>p, <3>1 DEF UsesNonce
    <3>2. CASE ~ChecksFirst(r)
      <4>1. r.kind = "read"
        BY <1>r, <1>s, <1>p, <3>2 DEF ChecksFirst, KIND
      <4> QED
        BY <1>s, <1>p, <3>2, <4>1, <1>b
    <3> QED
      BY <3>1, <3>2
  <2> QED
    BY <1>s, <1>p, <2>1, <1>a, <1>c
<1>3. CASE Unlogged(r)
  <2>1. UNCHANGED <<proposer, settled>> /\ Respond(r, "503", "no row") /\ Passes(r) /\ (r.kind = "propose" => nonces' = nonces)
    BY <1>3 DEF Unlogged
  <2>2. WritesDown(r)
    BY <2>1, <1>w
  <2>3. served' = served /\ accepted' = accepted /\ last'.status # "409" /\ admits' = [admits EXCEPT ![r.caller] = Append(@, now)]
    BY <2>1, <1>p DEF Respond
  <2>4. CASE r.kind = "propose"
    BY <2>1, <2>2, <2>3, <2>4, <1>a, <1>b, <1>c, <1>p
  <2> QED
    BY <2>1, <2>2, <2>3, <2>4, <1>s
<1>4. CASE ProposeRoute(r)
  <2>1. Passes(r) /\ r.kind = "propose" /\ ~ChecksFirst(r)
    BY <1>4 DEF ProposeRoute, ChecksFirst
  <2>2. served' = served /\ admits' = [admits EXCEPT ![r.caller] = Append(@, now)] /\ WritesDown(r)
    <3>1. PICK status \in {"202", "400", "409", "422"} : Respond(r, status, "row")
      BY <1>4 DEF ProposeRoute
    <3>2. served' = served /\ admits' = [admits EXCEPT ![r.caller] = Append(@, now)]
      BY <2>1, <3>1, <1>p DEF Respond
    <3> QED
      BY <3>1, <3>2, <1>w
  <2>3. TakesToken(r)
    BY <2>1, <2>2, <1>c, <1>p
  <2>4. CASE UNCHANGED <<nonces, proposer>> /\ (Respond(r, "400", "row") \/ Respond(r, "422", "row"))
    <3>1. accepted' = accepted /\ last'.status # "409"
      BY <2>4 DEF Respond
    <3> QED
      BY <2>2, <2>3, <2>4, <3>1, <1>a, <1>b
  <2>5. CASE r.key # KeyLess /\ proposer[r.key] # KeyLess /\ UNCHANGED <<nonces, proposer>> /\ Respond(r, "202", "row")
    <3>1. accepted' = accepted \cup {r.key} /\ last'.status = "202"
      BY <2>5 DEF Respond
    <3>2. Proposes(r)
      BY <1>r, <2>5, <3>1 DEF Proposes
    <3> QED
      BY <2>2, <2>3, <2>5, <3>2, <1>b
  <2>6. CASE /\ r.key # KeyLess /\ proposer[r.key] = KeyLess /\ checkReplay(r)
             /\ proposer' = [proposer EXCEPT ![r.key] = r.caller] /\ Respond(r, IF Unused(r) THEN "202" ELSE "409", "row")
    <3>1. accepted' = accepted \/ (accepted' = accepted \cup {r.key} /\ last'.status = "202")
      BY <2>6 DEF Respond
    <3>2. Proposes(r)
      BY <1>r, <2>6, <3>1 DEF Proposes
    <3>3. UsesNonce(r)
      BY <2>2, <2>6 DEF UsesNonce, checkReplay
    <3> QED
      BY <2>2, <2>3, <3>2, <3>3
  <2> QED
    BY <1>4, <2>4, <2>5, <2>6 DEF ProposeRoute
<1>5. CASE UpdateIntent(r) \/ DecideOverApi(r) \/ ReadOrHalt(r)
  <2>1. PICK s \in {"200", "201", "409", "422", "500", "503"} : Respond(r, s, "row")
    BY <1>5 DEF UpdateIntent, DecideOverApi, ReadOrHalt
  <2>2. Passes(r) /\ r.kind # "propose" /\ UNCHANGED proposer
    BY <1>5 DEF UpdateIntent, DecideOverApi, ReadOrHalt
  <2>3. accepted' = accepted /\ admits' = [admits EXCEPT ![r.caller] = Append(@, now)] /\ (served' = served \/ (ChecksFirst(r) /\ Served))
    BY <2>1, <2>2, <1>p DEF Respond
  <2> QED
    BY <2>1, <2>2, <2>3, <1>s, <1>w
<1>6. CASE DecideOverUi(r)
  <2>1. r.kind = "ui-decide" /\ UNCHANGED <<nonces, buckets, proposer>>
    BY <1>6 DEF DecideOverUi
  <2>2. PICK s \in {"303", "500"} : Respond(r, s, IF s = "303" THEN "row" ELSE "no row")
    BY <1>6 DEF DecideOverUi
  <2>3. served' = served /\ accepted' = accepted /\ admits' = admits
    BY <2>1, <2>2 DEF Respond
  <2>4. WritesDown(r)
    BY <2>1, <2>2, <1>w
  <2> QED
    BY <2>1, <2>3, <2>4, <1>a, <1>b DEF TakesToken
<1> QED
  BY <1>1, <1>2, <1>3, <1>4, <1>5, <1>6 DEF handle

-----------------------------------------------------------------------------
(* The parts of the invariant, one by one.                                  *)
LEMMA ApiTyped ==
  ASSUME ApiTypes, NEW r \in ApiRequests, handle(r)
  PROVE  ApiTypes'
<1>1. TakesToken(r) /\ UsesNonce(r) /\ Proposes(r) /\ UNCHANGED <<now, peak>>
  BY RequestSays DEF handle
<1>2. r.caller \in Senders /\ SigOf(r) \in Signatures /\ capacity \in Nat /\ refill \in Nat /\ SIG_WINDOW \in Nat
  BY ApiAssumption DEF Request, Signatures
<1>3. buckets' \in [Senders -> [tokens : Int, last : Nat]]
  <2>1. Filled(r.caller) \in Int
    <3>1. buckets[r.caller] \in [tokens : Int, last : Nat]
      BY <1>2 DEF ApiTypes
    <3> QED
      BY <1>2, <3>1 DEF Filled, Lesser, ApiTypes
  <2>2. CASE UNCHANGED buckets
    BY <2>2 DEF ApiTypes
  <2>3. ASSUME NEW n \in Nat, Spend(r.caller, n) PROVE buckets' \in [Senders -> [tokens : Int, last : Nat]]
    <3> DEFINE b == [tokens |-> Filled(r.caller) - n, last |-> now]
    <3>1. b \in [tokens : Int, last : Nat]
      BY <2>1 DEF ApiTypes
    <3>2. buckets' = [buckets EXCEPT ![r.caller] = b]
      BY <2>3 DEF Spend
    <3> HIDE DEF b
    <3> QED
      BY <3>1, <3>2 DEF ApiTypes
  <2>4. CASE Spend(r.caller, 0) \/ Spend(r.caller, 1)
    BY <2>3, <2>4
  <2> QED
    BY <1>1, <2>2, <2>4 DEF TakesToken
<1>4. admits' \in [Senders -> Seq(Nat)]
  <2>1. Append(admits[r.caller], now) \in Seq(Nat)
    BY <1>2, AppendProperties DEF ApiTypes
  <2>2. admits' = admits \/ admits' = [admits EXCEPT ![r.caller] = Append(admits[r.caller], now)]
    BY <1>1 DEF TakesToken
  <2> QED
    BY <2>1, <2>2 DEF ApiTypes
<1>5. SweptNonces \in Seq(Cache!Entry(Signatures, Nat))
  BY SweepDropsExpired DEF SweptNonces, ApiTypes
<1>6. nonces' \in Seq(Cache!Entry(Signatures, Nat))
  <2>1. CASE Unused(r) /\ nonces' = Cache!Put(SweptNonces, SigOf(r), now + SIG_WINDOW)
    <3>1. ~Cache!Has(SweptNonces, SigOf(r)) /\ now + SIG_WINDOW \in Nat
      BY <1>2, <2>1 DEF Unused, ApiTypes
    <3> QED
      BY <1>2, <1>5, <2>1, <3>1, PutAdds
  <2>2. CASE nonces' \in {nonces, SweptNonces}
    BY <1>5, <2>2 DEF ApiTypes
  <2> QED
    BY <1>1, <2>1, <2>2 DEF UsesNonce
<1>7. served' \in [Signatures -> [at : Nat, times : Nat]]
  <2>1. CASE served' = served
    BY <2>1 DEF ApiTypes
  <2>2. CASE served' = [served EXCEPT ![SigOf(r)] = [at |-> now, times |-> @.times + 1]]
    <3>1. served[SigOf(r)].times + 1 \in Nat
      BY <1>2 DEF ApiTypes
    <3> QED
      BY <2>2, <3>1 DEF ApiTypes
  <2> QED
    BY <1>1, <2>1, <2>2 DEF UsesNonce
<1>8. proposer' \in [Keys -> Senders \cup {KeyLess}]
  BY <1>1, <1>2 DEF Proposes, ApiTypes
<1> QED
  BY <1>1, <1>3, <1>4, <1>6, <1>7, <1>8 DEF ApiTypes

(* Time that has passed is counted once, in one piece or in two.            *)
LEMMA Distributes ==
  ASSUME NEW x \in Int, NEW y \in Int, NEW n \in Nat
  PROVE  (x + y) * n = x * n + y * n /\ x * n \in Int /\ y * n \in Int
OBVIOUS

(* A bucket that is filled to now holds no more than the limit leaves of    *)
(* every stretch that reaches up to now.                                    *)
LEMMA FilledHolds ==
  ASSUME ApiTypes, BucketsHold, NEW c \in Senders
  PROVE  /\ Filled(c) \in Int /\ Filled(c) <= capacity
         /\ DOMAIN admits[c] = 1..Len(admits[c]) /\ Len(admits[c]) \in Nat
         /\ \A i \in DOMAIN admits[c] :
              admits[c][i] \in Nat /\ Len(admits[c]) - i + 1 + Filled(c) <= capacity + (now - admits[c][i]) * refill
<1> DEFINE t == buckets[c].tokens
           l == buckets[c].last
<1>1. t \in Int /\ l \in Nat /\ now \in Nat /\ capacity \in Nat /\ refill \in Nat
  <2>1. buckets[c] \in [tokens : Int, last : Nat]
    BY DEF ApiTypes
  <2> QED
    BY <2>1, ApiAssumption DEF ApiTypes
<1>2. DOMAIN admits[c] = 1..Len(admits[c]) /\ Len(admits[c]) \in Nat /\ \A i \in DOMAIN admits[c] : admits[c][i] \in Nat
  BY DEF ApiTypes
<1>3. \A i \in DOMAIN admits[c] : Len(admits[c]) - i + 1 + t <= capacity + (l - admits[c][i]) * refill
  BY DEF BucketsHold
<1>4. Filled(c) = IF capacity < t + (now - l) * refill THEN capacity ELSE t + (now - l) * refill
  BY DEF Filled, Lesser
<1> HIDE DEF t, l
<1>5. (now - l) * refill \in Int
  BY <1>1
<1>6. Filled(c) \in Int /\ Filled(c) <= capacity /\ Filled(c) <= t + (now - l) * refill
  BY <1>1, <1>4, <1>5
<1>7. ASSUME NEW i \in DOMAIN admits[c]
      PROVE  Len(admits[c]) - i + 1 + Filled(c) <= capacity + (now - admits[c][i]) * refill
  <2> DEFINE a == admits[c][i]
  <2>1. a \in Nat /\ i \in Nat
    BY <1>2
  <2>2. Len(admits[c]) - i + 1 + t <= capacity + (l - a) * refill
    BY <1>3
  <2> HIDE DEF a
  <2>3. (l - a) * refill \in Int /\ (now - a) * refill \in Int
    BY <1>1, <2>1
  <2>4. (now - a) * refill = (now - l) * refill + (l - a) * refill
    <3>1. now - l \in Int /\ l - a \in Int /\ now - a = (now - l) + (l - a)
      BY <1>1, <2>1
    <3> QED
      BY <1>1, <3>1, Distributes
  <2>5. Len(admits[c]) - i + 1 + Filled(c) <= capacity + (now - a) * refill
    BY <1>1, <1>2, <1>5, <1>6, <2>1, <2>2, <2>3, <2>4
  <2> QED
    BY <2>5 DEF a
<1> QED
  BY <1>2, <1>6, <1>7

(* A request leaves every bucket and every stretch within the limit.        *)
LEMMA BucketsKept ==
  ASSUME ApiTypes, BucketsHold, RateHolds, NEW r, r.caller \in Senders, TakesToken(r)
  PROVE  BucketsHold' /\ RateHolds'
<1> DEFINE me == r.caller
           f == Filled(r.caller)
           n == Len(admits[r.caller])
           old == admits[r.caller]
<1>1. /\ f \in Int /\ f <= capacity /\ DOMAIN old = 1..n /\ n \in Nat
      /\ \A i \in DOMAIN old : old[i] \in Nat /\ n - i + 1 + f <= capacity + (now - old[i]) * refill
  BY FilledHolds
<1>2. now \in Nat /\ capacity \in Nat /\ refill \in Nat /\ old \in Seq(Nat)
  BY ApiAssumption DEF ApiTypes
<1>3. CASE UNCHANGED <<buckets, admits>>
  BY <1>3 DEF BucketsHold, RateHolds
<1>4. CASE Spend(r.caller, 0) /\ UNCHANGED admits
  <2>1. buckets' = [buckets EXCEPT ![me] = [tokens |-> f - 0, last |-> now]]
    BY <1>4 DEF Spend
  <2> HIDE DEF f
  <2>2. buckets'[me].tokens = f /\ buckets'[me].last = now /\ \A c \in Senders : c # me => buckets'[c] = buckets[c]
    BY <1>1, <2>1 DEF ApiTypes
  <2> QED
    BY <1>1, <1>4, <2>2 DEF BucketsHold, RateHolds
<1>5. CASE HasToken(r.caller) /\ Spend(r.caller, 1) /\ admits' = [admits EXCEPT ![r.caller] = Append(@, now)]
  <2>1. buckets' = [buckets EXCEPT ![me] = [tokens |-> f - 1, last |-> now]] /\ f >= 1
    BY <1>5 DEF Spend, HasToken
  <2>2. admits' = [admits EXCEPT ![me] = Append(old, now)]
    BY <1>5
  <2>3. /\ Len(Append(old, now)) = n + 1 /\ DOMAIN Append(old, now) = 1..(n + 1)
        /\ \A i \in 1..n : Append(old, now)[i] = old[i]
        /\ Append(old, now)[n + 1] = now
    BY <1>1, <1>2, AppendProperties
  <2> HIDE DEF f, n, old
  <2>4. /\ buckets'[me].tokens = f - 1 /\ buckets'[me].last = now /\ \A c \in Senders : c # me => buckets'[c] = buckets[c]
        /\ admits'[me] = Append(old, now) /\ \A c \in Senders : c # me => admits'[c] = admits[c]
    BY <1>1, <2>1, <2>2 DEF ApiTypes
  <2>5. ASSUME NEW i \in DOMAIN Append(old, now)
        PROVE  (n + 1) - i + 1 + (f - 1) <= capacity + (now - Append(old, now)[i]) * refill
    <3>1. CASE i \in 1..n
      BY <1>1, <2>3, <3>1
    <3>2. CASE i = n + 1
      <4>1. (now - now) * refill = 0
        BY <1>2
      <4>2. (n + 1) - i + 1 + (f - 1) = f
        BY <1>1, <3>2
      <4> QED
        BY <1>1, <1>2, <2>3, <3>2, <4>1, <4>2
    <3> QED
      BY <1>1, <2>3, <3>1, <3>2
  <2>6. f - 1 <= capacity
    BY <1>1, <1>2
  <2>7. BucketsHold'
    <3> SUFFICES ASSUME NEW c \in Senders
                 PROVE  /\ buckets'[c].tokens <= capacity
                        /\ \A i \in DOMAIN admits'[c] :
                             Len(admits'[c]) - i + 1 + buckets'[c].tokens
                               <= capacity + (buckets'[c].last - admits'[c][i]) * refill
      BY DEF BucketsHold
    <3>1. CASE c = me
      <4> HIDE DEF me
      <4>1. /\ buckets'[c].tokens = f - 1 /\ buckets'[c].last = now /\ admits'[c] = Append(old, now)
        BY <2>4, <3>1
      <4> QED
        BY <2>3, <2>5, <2>6, <4>1, Zenon
    <3>2. CASE c # me
      <4>1. buckets'[c] = buckets[c] /\ admits'[c] = admits[c]
        BY <2>4, <3>2
      <4> QED
        BY <4>1 DEF BucketsHold
    <3> QED
      BY <3>1, <3>2
  <2>8. ASSUME NEW i \in DOMAIN Append(old, now), NEW j \in DOMAIN Append(old, now), i < j
        PROVE  j - i + 1 <= capacity + (Append(old, now)[j] - Append(old, now)[i]) * refill
    <3>1. i \in 1..n
      BY <1>1, <2>3, <2>8
    <3>2. CASE j \in 1..n
      BY <1>1, <2>3, <2>8, <3>1, <3>2 DEF RateHolds, old
    <3>3. CASE j = n + 1
      <4>1. n - i + 1 + f <= capacity + (now - old[i]) * refill /\ old[i] \in Nat
        BY <1>1, <3>1
      <4>2. (now - old[i]) * refill \in Int
        BY <1>2, <4>1
      <4>3. j - i + 1 <= capacity + (now - old[i]) * refill
        BY <1>1, <1>2, <2>1, <3>1, <3>3, <4>1, <4>2
      <4> QED
        BY <2>3, <3>1, <3>3, <4>3
    <3> QED
      BY <1>1, <2>3, <3>2, <3>3
  <2>9. RateHolds'
    BY <2>4, <2>8 DEF RateHolds
  <2> QED
    BY <2>7, <2>9
<1> QED
  BY <1>3, <1>4, <1>5 DEF TakesToken

(* A signature that served is in the cache, until its window is over; so    *)
(* when it serves again, the window is.                                     *)
LEMMA NonceKept ==
  ASSUME ApiTypes, ServedIsGuarded, NEW r \in ApiRequests, UsesNonce(r), UNCHANGED <<now, peak>>
  PROVE  /\ ServedIsGuarded'
         /\ \A s \in Signatures : served[s].times > 0 /\ served'[s].times > served[s].times
              => peak >= served[s].at + SIG_WINDOW
<1> DEFINE me == SigOf(r)
<1>1. /\ SIG_WINDOW \in Nat /\ now \in Nat /\ peak \in Nat /\ now <= peak
      /\ \A s \in Signatures : served[s].at \in Nat /\ served[s].times \in Nat
      /\ nonces \in Seq(Cache!Entry(Signatures, Nat)) /\ me \in Signatures
  BY ApiAssumption DEF ApiTypes, Signatures
<1>2. /\ SweptNonces \in Seq(Cache!Entry(Signatures, Nat))
      /\ \A i \in DOMAIN nonces : nonces[i].exp <= now \/ \E j \in DOMAIN SweptNonces : SweptNonces[j] = nonces[i]
  <2>1. nonces \in Seq(Cache!Entry(Signatures, Nat)) /\ now \in Nat
    BY <1>1
  <2>2. SweptNonces = Cache!Sweep(nonces, now)
    BY DEF SweptNonces
  <2>3. SweptNonces \in Seq(Cache!Entry(Signatures, Nat))
    BY <2>1, <2>2, SweepDropsExpired
  <2>4. ASSUME NEW i \in DOMAIN nonces
        PROVE  nonces[i].exp <= now \/ \E j \in DOMAIN SweptNonces : SweptNonces[j] = nonces[i]
    BY <2>1, <2>2, SweepDropsExpired
  <2> QED
    BY <2>3, <2>4
<1>3. \A i \in DOMAIN nonces : nonces[i].exp \in Nat
  <2>1. \A i \in DOMAIN nonces : nonces[i] \in Cache!Entry(Signatures, Nat)
    BY <1>1, ElementOfSeq, LenProperties
  <2> QED
    BY <2>1 DEF Cache!Entry
<1>4. ASSUME NEW s \in Signatures, served[s].times > 0
      PROVE  \/ peak >= served[s].at + SIG_WINDOW
             \/ \E j \in DOMAIN SweptNonces : SweptNonces[j].key = s /\ SweptNonces[j].exp >= served[s].at + SIG_WINDOW
  <2>1. CASE peak >= served[s].at + SIG_WINDOW
    BY <2>1
  <2>2. CASE ~(peak >= served[s].at + SIG_WINDOW)
    <3>1. PICK i \in DOMAIN nonces : nonces[i].key = s /\ nonces[i].exp >= served[s].at + SIG_WINDOW
      BY <1>4, <2>2 DEF ServedIsGuarded, Guarded
    <3>2. CASE nonces[i].exp <= now
      BY <1>1, <1>3, <2>2, <3>1, <3>2
    <3>3. CASE \E j \in DOMAIN SweptNonces : SweptNonces[j] = nonces[i]
      BY <3>1, <3>3
    <3> QED
      BY <1>2, <3>2, <3>3
  <2> QED
    BY <2>1, <2>2
<1>5. CASE nonces' \in {nonces, SweptNonces} /\ UNCHANGED served
  <2>1. ServedIsGuarded'
    <3>1. CASE nonces' = nonces
      BY <1>5, <3>1 DEF ServedIsGuarded, Guarded
    <3>2. CASE nonces' = SweptNonces
      BY <1>4, <1>5, <3>2 DEF ServedIsGuarded, Guarded
    <3> QED
      BY <1>5, <3>1, <3>2
  <2> QED
    BY <1>1, <1>5, <2>1
<1>6. CASE /\ Unused(r) /\ nonces' = Cache!Put(SweptNonces, me, now + SIG_WINDOW)
           /\ served' = served \/ served' = [served EXCEPT ![me] = [at |-> now, times |-> @.times + 1]]
  <2>1. ~Cache!Has(SweptNonces, me) /\ now + SIG_WINDOW \in Nat
    BY <1>1, <1>6 DEF Unused
  <2>2. /\ \A i \in DOMAIN SweptNonces : i \in DOMAIN nonces' /\ nonces'[i] = SweptNonces[i]
        /\ \E i \in DOMAIN nonces' : nonces'[i].key = me /\ nonces'[i].exp = now + SIG_WINDOW
    <3>1. SweptNonces \in Seq(Cache!Entry(Signatures, Nat)) /\ me \in Signatures
      BY <1>1, <1>2
    <3> DEFINE exp == now + SIG_WINDOW
    <3>2. nonces' = Cache!Put(SweptNonces, me, exp) /\ exp \in Nat
      BY <1>6, <2>1
    <3> HIDE DEF me, exp
    <3>3. \A i \in DOMAIN SweptNonces : i \in DOMAIN nonces' /\ nonces'[i] = SweptNonces[i]
      BY <2>1, <3>1, <3>2, PutAdds
    <3>4. \E i \in DOMAIN nonces' : nonces'[i].key = me /\ nonces'[i].exp = exp
      BY <2>1, <3>1, <3>2, PutIsThere
    <3> QED
      BY <3>3, <3>4 DEF exp
  <2>3. \A j \in DOMAIN SweptNonces : SweptNonces[j].key # me
    BY <2>1 DEF Cache!Has
  <2>4. \A s \in Signatures : \/ served'[s] = served[s]
                              \/ s = me /\ served'[s].at = now
    BY <1>1, <1>6 DEF ApiTypes
  <2>5. ASSUME NEW s \in Signatures, served'[s].times > 0
        PROVE  Guarded(s)'
    <3>1. CASE served'[s] = served[s]
      BY <1>4, <2>2, <2>5, <3>1 DEF Guarded
    <3>2. CASE s = me /\ served'[s].at = now
      BY <1>1, <2>2, <3>2 DEF Guarded
    <3> QED
      BY <2>4, <3>1, <3>2
  <2>6. ASSUME NEW s \in Signatures, served[s].times > 0, served'[s].times > served[s].times
        PROVE  peak >= served[s].at + SIG_WINDOW
    <3>1. s = me
      BY <1>1, <2>4, <2>6
    <3> QED
      BY <1>4, <2>3, <2>6, <3>1
  <2> QED
    BY <2>5, <2>6 DEF ServedIsGuarded
<1> QED
  BY <1>5, <1>6 DEF UsesNonce

(* The key of an accepted proposal keeps its intent, and the proposal is    *)
(* accepted again.                                                          *)
LEMMA KeysKept ==
  ASSUME ApiTypes, AcceptedIsKnown, NEW r \in ApiRequests, Proposes(r), last'.req = r
  PROVE  AcceptedIsKnown' /\ RetryIsNoReplay'
<1>1. r.caller \in Senders /\ KeyLess \notin Senders
  BY ApiAssumption DEF Request
<1>2. CASE UNCHANGED <<proposer, accepted>> /\ ~(r.kind = "propose" /\ last'.status = "409")
  BY <1>2 DEF AcceptedIsKnown, RetryIsNoReplay
<1>3. CASE r.key \in Keys /\ proposer[r.key] # KeyLess /\ UNCHANGED proposer /\ accepted' = accepted \cup {r.key} /\ last'.status = "202"
  BY <1>3 DEF AcceptedIsKnown, RetryIsNoReplay
<1>4. CASE /\ r.key \in Keys /\ proposer[r.key] = KeyLess /\ proposer' = [proposer EXCEPT ![r.key] = r.caller]
           /\ accepted' = accepted \/ (accepted' = accepted \cup {r.key} /\ last'.status = "202")
  <2>1. r.key \notin accepted
    BY <1>4 DEF AcceptedIsKnown
  <2>2. \A k \in Keys : proposer[k] # KeyLess => proposer'[k] # KeyLess
    BY <1>1, <1>4 DEF ApiTypes
  <2>3. proposer'[r.key] # KeyLess
    BY <1>1, <1>4 DEF ApiTypes
  <2> QED
    BY <1>4, <2>1, <2>2, <2>3 DEF AcceptedIsKnown, RetryIsNoReplay
<1> QED
  BY <1>2, <1>3, <1>4 DEF Proposes

(* While time passes, or the clock is set back, all of it stands.           *)
LEMMA ApiIdles ==
  ASSUME ApiInv, Passing \/ SetBack
  PROVE  ApiInv' /\ UNCHANGED <<proposer, settled, served>>
<1>1. UNCHANGED <<nonces, buckets, proposer, settled, admits, served, accepted>> /\ last' = NoAnswer
  BY DEF ApiInv, Passing, SetBack, Idle
<1>2. now' \in Nat /\ peak' \in Nat /\ now' <= peak' /\ peak <= peak' /\ now \in Nat /\ peak \in Nat
  <2>1. now \in Nat /\ peak \in Nat /\ now <= peak
    BY DEF ApiInv, ApiTypes
  <2>2. CASE Passing
    BY <2>1, <2>2 DEF Passing
  <2>3. CASE SetBack
    BY <2>1, <2>3 DEF SetBack, Idle
  <2> QED
    BY <2>2, <2>3
<1>3. ApiTypes'
  BY <1>1, <1>2 DEF ApiInv, ApiTypes
<1>4. BucketsHold' /\ RateHolds' /\ AcceptedIsKnown'
  BY <1>1 DEF ApiInv, BucketsHold, RateHolds, AcceptedIsKnown
<1>5. ServedIsGuarded'
  <2>1. SIG_WINDOW \in Nat /\ \A s \in Signatures : served[s].at \in Nat
    BY ApiAssumption DEF ApiInv, ApiTypes
  <2>2. ASSUME NEW s \in Signatures, served[s].times > 0 PROVE Guarded(s)'
    BY <1>1, <1>2, <2>1, <2>2 DEF ApiInv, ServedIsGuarded, Guarded
  <2> QED
    BY <1>1, <2>2 DEF ServedIsGuarded
<1>6. RetryIsNoReplay'
  BY <1>1 DEF NoAnswer, RetryIsNoReplay
<1> QED
  BY <1>1, <1>3, <1>4, <1>5, <1>6 DEF ApiInv

LEMMA ApiStart == ApiInit => ApiInv
<1> SUFFICES ASSUME ApiInit PROVE ApiInv
  OBVIOUS
<1>1. ApiTypes
  BY ApiAssumption, EmptySeq DEF ApiInit, ApiTypes
<1>2. BucketsHold /\ RateHolds
  BY ApiAssumption, EmptySeq DEF ApiInit, BucketsHold, RateHolds
<1>3. ServedIsGuarded /\ AcceptedIsKnown
  BY DEF ApiInit, ServedIsGuarded, AcceptedIsKnown
<1>4. RetryIsNoReplay
  BY DEF ApiInit, RetryIsNoReplay, NoAnswer
<1> QED
  BY <1>1, <1>2, <1>3, <1>4 DEF ApiInv

-----------------------------------------------------------------------------
(* The limits within the types of the API: the cache's, and those of the    *)
(* clock in what remembers a time.  An action is settled only where a       *)
(* proposal was made.                                                       *)
Clocked ==
  /\ now \in 0..MaxTime /\ peak \in now..MaxTime /\ setBacks \in 0..MaxSetBacks /\ asked \in 0..MaxAnswers
  /\ last.req \in ApiRequests
Remembers ==
  /\ \A c \in Senders : buckets[c].last <= MaxTime
  /\ admits \in [Senders -> Seq(0..MaxTime)]
  /\ \A s \in Signatures : served[s].at <= MaxTime
CacheFits == Len(nonces) <= nonceMax
SettledIsKnown == \A k \in settled : k \in Keys /\ proposer[k] # KeyLess

ApiLimits == Clocked /\ Remembers /\ CacheFits /\ SettledIsKnown

LEMMA SweepNoLonger ==
  ASSUME NEW K, NEW m \in Seq(Cache!Entry(K, Nat)), NEW t \in Nat
  PROVE  Len(Cache!Sweep(m, t)) <= Len(m)
<1> DEFINE live == Cache!Live(m, t)
           s == Cache!Sweep(m, t)
<1>1. DOMAIN m = 1..Len(m) /\ Len(m) \in Nat
  BY LenProperties
<1>2. live \subseteq 1..Len(m) /\ live \subseteq Nat
  BY <1>1 DEF Cache!Live
<1>3. CASE live = {}
  <2>1. s = <<>>
    BY <1>3 DEF Cache!Sweep
  <2>2. Len(s) = 0
    BY <2>1, EmptySeq
  <2> QED
    BY <1>1, <2>2
<1>4. CASE live # {}
  <2> DEFINE a == CHOOSE i \in live : \A j \in live : i <= j
  <2>1. a \in live
    BY <1>2, <1>4, LeastOfSome
  <2>2. s = SubSeq(m, a, Len(m))
    BY <1>4 DEF Cache!Sweep
  <2>3. a \in 1..Len(m)
    BY <1>2, <2>1
  <2> HIDE DEF a
  <2>4. \A k \in a..Len(m) : m[k] \in Cache!Entry(K, Nat)
    BY <1>1, <2>3, ElementOfSeq
  <2>5. Len(SubSeq(m, a, Len(m))) = Len(m) - a + 1
    BY <1>1, <2>3, <2>4, SubSeqProperties
  <2> QED
    BY <1>1, <2>2, <2>3, <2>5
<1> QED
  BY <1>3, <1>4

(* Only what was proposed and not yet decided is decided.                   *)
LEMMA SettlesKnown ==
  ASSUME NEW r \in ApiRequests, handle(r)
  PROVE  \A k \in settled' : k \in settled \/ (k = r.key /\ Undecided(k))
<1>1. CASE TurnedAway(r) \/ Replayed(r) \/ Unlogged(r) \/ ProposeRoute(r) \/ UpdateIntent(r) \/ ReadOrHalt(r)
  BY <1>1 DEF TurnedAway, Replayed, Unlogged, ProposeRoute, UpdateIntent, ReadOrHalt
<1>2. CASE DecideOverApi(r)
  BY <1>2 DEF DecideOverApi
<1>3. CASE DecideOverUi(r)
  BY <1>3 DEF DecideOverUi
<1> QED
  BY <1>1, <1>2, <1>3 DEF handle

LEMMA LimitsStart == ApiInit => ApiLimits
<1> SUFFICES ASSUME ApiInit PROVE ApiLimits
  OBVIOUS
<1>1. Clocked
  <2>1. NoAnswer.req \in ApiRequests
    BY ApiAssumption DEF NoAnswer
  <2>2. 0 \in 0..MaxTime /\ 0 \in 0..MaxSetBacks /\ 0 \in 0..MaxAnswers
    BY ApiAssumption
  <2> QED
    BY <2>1, <2>2 DEF ApiInit, Clocked
<1>2. Remembers
  BY ApiAssumption, EmptySeq DEF ApiInit, Remembers
<1>3. CacheFits
  <2>1. Len(nonces) = 0 /\ nonceMax \in Nat
    BY ApiAssumption, EmptySeq DEF ApiInit
  <2> QED
    BY <2>1 DEF CacheFits
<1>4. SettledIsKnown
  BY DEF ApiInit, SettledIsKnown
<1> QED
  BY <1>1, <1>2, <1>3, <1>4 DEF ApiLimits

LEMMA LimitsIdle ==
  ASSUME ApiInv, ApiLimits, Passing \/ SetBack
  PROVE  ApiLimits'
<1>1. UNCHANGED <<nonces, buckets, proposer, settled, admits, served, accepted, asked>> /\ last' = NoAnswer
  BY DEF Passing, SetBack, Idle
<1>2. Clocked'
  <2>1. last'.req \in ApiRequests
    BY <1>1, ApiAssumption DEF NoAnswer
  <2>2. now' \in 0..MaxTime /\ peak' \in now'..MaxTime /\ setBacks' \in 0..MaxSetBacks
    <3>1. now \in Nat /\ MaxTime \in Nat /\ MaxSetBacks \in Nat
      BY ApiAssumption DEF ApiInv, ApiTypes
    <3>2. now \in 0..MaxTime /\ peak \in now..MaxTime /\ setBacks \in 0..MaxSetBacks
      BY DEF ApiLimits, Clocked
    <3>3. CASE Passing
      BY <3>1, <3>2, <3>3 DEF Passing
    <3>4. CASE SetBack
      BY <3>1, <3>2, <3>4 DEF SetBack
    <3> QED
      BY <3>3, <3>4
  <2> QED
    BY <1>1, <2>1, <2>2 DEF ApiLimits, Clocked
<1>3. Remembers' /\ CacheFits' /\ SettledIsKnown'
  BY <1>1 DEF ApiLimits, Remembers, CacheFits, SettledIsKnown
<1> QED
  BY <1>2, <1>3 DEF ApiLimits

LEMMA LimitsKept ==
  ASSUME ApiInv, ApiLimits, NEW r \in ApiRequests, handle(r)
  PROVE  ApiLimits'
<1>1. TakesToken(r) /\ UsesNonce(r) /\ Proposes(r) /\ WritesDown(r)
  BY RequestSays
<1>2. r.caller \in Senders /\ r.caller # KeyLess /\ SigOf(r) \in Signatures /\ nonceMax \in Nat /\ SIG_WINDOW \in Nat /\ MaxTime \in Nat
  BY ApiAssumption DEF Request, Signatures
<1>3. asked < MaxAnswers /\ asked' = asked + 1 /\ UNCHANGED <<now, peak, setBacks>>
  BY DEF handle
<1>4. Clocked'
  <2>1. asked' \in 0..MaxAnswers
    BY <1>3, ApiAssumption DEF ApiLimits, Clocked
  <2>2. last'.req \in ApiRequests
    BY <1>1 DEF WritesDown
  <2> QED
    BY <1>3, <2>1, <2>2 DEF ApiLimits, Clocked
<1>5. now \in 0..MaxTime /\ now <= MaxTime /\ now \in Nat
  BY <1>2 DEF ApiLimits, Clocked
<1>6. \A c \in Senders : buckets'[c].last <= MaxTime
  <2>1. buckets \in [Senders -> [tokens : Int, last : Nat]] /\ \A c \in Senders : buckets[c].last <= MaxTime
    BY DEF ApiInv, ApiTypes, ApiLimits, Remembers
  <2>2. ASSUME NEW n, Spend(r.caller, n) PROVE \A c \in Senders : buckets'[c].last <= MaxTime
    BY <1>2, <1>5, <2>1, <2>2 DEF Spend
  <2>3. CASE UNCHANGED buckets
    BY <2>1, <2>3
  <2> QED
    BY <1>1, <2>2, <2>3 DEF TakesToken
<1>7. admits' \in [Senders -> Seq(0..MaxTime)]
  <2>1. admits \in [Senders -> Seq(0..MaxTime)]
    BY DEF ApiLimits, Remembers
  <2>2. Append(admits[r.caller], now) \in Seq(0..MaxTime)
    BY <1>2, <1>5, <2>1, AppendProperties
  <2>3. admits' = admits \/ admits' = [admits EXCEPT ![r.caller] = Append(admits[r.caller], now)]
    BY <1>1 DEF TakesToken
  <2> QED
    BY <2>1, <2>2, <2>3
<1>8. \A s \in Signatures : served'[s].at <= MaxTime
  <2>1. served \in [Signatures -> [at : Nat, times : Nat]] /\ \A s \in Signatures : served[s].at <= MaxTime
    BY DEF ApiInv, ApiTypes, ApiLimits, Remembers
  <2>2. CASE served' = [served EXCEPT ![SigOf(r)] = [at |-> now, times |-> @.times + 1]]
    BY <1>2, <1>5, <2>1, <2>2
  <2>3. CASE served' = served
    BY <2>1, <2>3
  <2> QED
    BY <1>1, <2>2, <2>3 DEF UsesNonce
<1>9. CacheFits'
  <2>1. nonces \in Seq(Cache!Entry(Signatures, Nat)) /\ Len(nonces) \in Nat /\ Len(nonces) <= nonceMax
    BY LenProperties DEF ApiInv, ApiTypes, ApiLimits, CacheFits
  <2>2. SweptNonces \in Seq(Cache!Entry(Signatures, Nat)) /\ Len(SweptNonces) \in Nat
    <3>1. SweptNonces \in Seq(Cache!Entry(Signatures, Nat))
      BY <1>5, <2>1, SweepDropsExpired DEF SweptNonces
    <3> QED
      BY <3>1, LenProperties
  <2>3. Len(SweptNonces) <= Len(nonces)
    BY <1>5, <2>1, SweepNoLonger DEF SweptNonces
  <2>4. CASE nonces' \in {nonces, SweptNonces}
    BY <1>2, <2>1, <2>2, <2>3, <2>4 DEF CacheFits
  <2>5. CASE Unused(r) /\ nonces' = Cache!Put(SweptNonces, SigOf(r), now + SIG_WINDOW)
    <3> DEFINE new == [key |-> SigOf(r), exp |-> now + SIG_WINDOW]
    <3>1. nonces' = Append(SweptNonces, new) /\ Len(SweptNonces) < nonceMax
      BY <2>5 DEF Unused, Cache!Put
    <3>2. new \in Cache!Entry(Signatures, Nat)
      BY <1>2, <1>5 DEF Cache!Entry
    <3> HIDE DEF new
    <3>3. Len(nonces') = Len(SweptNonces) + 1
      BY <2>2, <3>1, <3>2, AppendProperties
    <3> QED
      BY <1>2, <2>2, <3>1, <3>3 DEF CacheFits
  <2> QED
    BY <1>1, <2>4, <2>5 DEF UsesNonce
<1>10. SettledIsKnown'
  <2>1. \A k \in settled : k \in Keys /\ proposer[k] # KeyLess
    BY DEF ApiLimits, SettledIsKnown
  <2>2. r.key \in Keys \/ r.key = KeyLess
    BY ApiAssumption DEF Request
  <2>3. proposer \in [Keys -> Senders \cup {KeyLess}]
    BY DEF ApiInv, ApiTypes
  <2>4. \A k \in Keys : proposer[k] # KeyLess => proposer'[k] # KeyLess
    BY <1>1, <1>2, <2>3 DEF Proposes
  <2>5. \A k \in settled' : k \in settled \/ (k = r.key /\ k # KeyLess /\ proposer[k] # KeyLess)
    BY SettlesKnown DEF Undecided
  <2> QED
    BY <2>1, <2>2, <2>4, <2>5 DEF SettledIsKnown
<1> QED
  BY <1>4, <1>6, <1>7, <1>8, <1>9, <1>10 DEF ApiLimits, Remembers

LEMMA LimitsAreTypes == ApiInv /\ ApiLimits => ApiTypeOK
<1> SUFFICES ASSUME ApiInv, ApiLimits PROVE ApiTypeOK
  OBVIOUS
<1>0. MaxTime \in Nat
  BY ApiAssumption
<1>1. /\ now \in 0..MaxTime /\ peak \in now..MaxTime /\ setBacks \in 0..MaxSetBacks /\ asked \in 0..MaxAnswers
      /\ last.req \in ApiRequests
  BY DEF ApiLimits, Clocked
<1>2. nonces \in Seq(Cache!Entry(Signatures, Nat)) /\ Len(nonces) <= nonceMax
  BY DEF ApiInv, ApiTypes, ApiLimits, CacheFits
<1>3. \A c \in Senders : buckets[c].tokens \in Int /\ buckets[c].tokens <= capacity /\ buckets[c].last \in 0..MaxTime
  <2> SUFFICES ASSUME NEW c \in Senders
               PROVE  buckets[c].tokens \in Int /\ buckets[c].tokens <= capacity /\ buckets[c].last \in 0..MaxTime
    OBVIOUS
  <2>1. buckets[c] \in [tokens : Int, last : Nat]
    BY DEF ApiInv, ApiTypes
  <2>2. buckets[c].tokens <= capacity /\ buckets[c].last <= MaxTime
    BY DEF ApiInv, BucketsHold, ApiLimits, Remembers
  <2> QED
    BY <1>0, <2>1, <2>2
<1>4. proposer \in [Keys -> Senders \cup {KeyLess}] /\ settled \subseteq {k \in Keys : proposer[k] # KeyLess}
  BY DEF ApiInv, ApiTypes, ApiLimits, SettledIsKnown
<1>5. admits \in [Senders -> Seq(0..MaxTime)] /\ accepted \subseteq Keys
  BY DEF ApiInv, AcceptedIsKnown, ApiLimits, Remembers
<1>6. served \in [Signatures -> [at : 0..MaxTime, times : Nat]]
  <2>1. served \in [Signatures -> [at : Nat, times : Nat]] /\ \A s \in Signatures : served[s].at <= MaxTime
    BY DEF ApiInv, ApiTypes, ApiLimits, Remembers
  <2>2. \A s \in Signatures : served[s] \in [at : 0..MaxTime, times : Nat]
    BY <1>0, <2>1
  <2> QED
    BY <2>1, <2>2
<1> QED
  BY <1>1, <1>2, <1>3, <1>4, <1>5, <1>6 DEF ApiTypeOK

(* The API keeps to its types and to the limits within them, and what it    *)
(* promises across its requests: no caller gets more than its limit over    *)
(* any stretch, a signature serves once in its window, also when the clock  *)
(* is set back, a repeated proposal is no replay, and what changes has been *)
(* written down.                                                            *)
THEOREM ApiTheorem == ApiSpec => []ApiTypeOK /\ ApiPromise
<1> DEFINE InWriting == (last'.req.kind = "ui-decide" \/ last'.evidence = "row") \/ UNCHANGED <<proposer, settled>>
           Once == \A s \in Signatures : served[s].times > 0 /\ served'[s].times > served[s].times
                     => peak >= served[s].at + SIG_WINDOW
<1>1. ApiInv /\ [ApiNext]_apiVars => ApiInv' /\ InWriting /\ Once
  <2> SUFFICES ASSUME ApiInv, [ApiNext]_apiVars PROVE ApiInv' /\ InWriting /\ Once
    OBVIOUS
  <2>0. \A s \in Signatures : served[s].times \in Nat
    BY DEF ApiInv, ApiTypes
  <2>1. CASE UNCHANGED apiVars
    <3>1. ApiInv'
      BY <2>1 DEF ApiInv, ApiTypes, BucketsHold, ServedIsGuarded, Guarded, AcceptedIsKnown, RateHolds, RetryIsNoReplay, apiVars
    <3>2. UNCHANGED <<proposer, settled, served>>
      BY <2>1 DEF apiVars
    <3> QED
      BY <2>0, <3>1, <3>2
  <2>2. CASE Passing \/ SetBack
    BY <2>0, <2>2, ApiIdles
  <2>3. ASSUME NEW r \in ApiRequests, handle(r) PROVE ApiInv' /\ InWriting /\ Once
    <3>1. TakesToken(r) /\ UsesNonce(r) /\ Proposes(r) /\ WritesDown(r) /\ UNCHANGED <<now, peak>> /\ r.caller \in Senders
      <4>1. r.caller \in Senders
        BY ApiAssumption DEF Request
      <4> QED
        BY <2>3, <4>1, RequestSays DEF handle
    <3>2. ApiTypes'
      BY <2>3, ApiTyped DEF ApiInv
    <3>3. BucketsHold' /\ RateHolds'
      BY <3>1, BucketsKept DEF ApiInv
    <3>4. ServedIsGuarded' /\ Once
      BY <3>1, NonceKept DEF ApiInv
    <3>5. AcceptedIsKnown' /\ RetryIsNoReplay'
      BY <3>1, KeysKept DEF ApiInv, WritesDown
    <3>6. InWriting
      BY <3>1 DEF WritesDown
    <3> QED
      BY <3>2, <3>3, <3>4, <3>5, <3>6 DEF ApiInv
  <2> QED
    BY <2>1, <2>2, <2>3 DEF ApiNext
<1>5. ApiInv /\ ApiLimits /\ [ApiNext]_apiVars => ApiLimits'
  <2> SUFFICES ASSUME ApiInv, ApiLimits, [ApiNext]_apiVars PROVE ApiLimits'
    OBVIOUS
  <2>1. CASE UNCHANGED apiVars
    BY <2>1 DEF ApiLimits, Clocked, Remembers, CacheFits, SettledIsKnown, apiVars
  <2> QED
    BY <2>1, LimitsIdle, LimitsKept DEF ApiNext
<1>2. ApiInv => RateHolds /\ RetryIsNoReplay
  BY DEF ApiInv
<1>3. ApiInv /\ [ApiNext]_apiVars => [last'.req.kind = "ui-decide" \/ last'.evidence = "row"]_<<proposer, settled>>
  BY <1>1
<1>4. ApiInv /\ [ApiNext]_apiVars => [Once]_apiVars
  BY <1>1
<1> QED
  BY <1>1, <1>2, <1>3, <1>4, <1>5, ApiStart, LimitsStart, LimitsAreTypes, PTL DEF ApiSpec, ApiPromise, ChangesAreLogged, SignatureServesOnce

-----------------------------------------------------------------------------
(* The instance of MCServices runs each of its components: what one part    *)
(* does is a step of its component, and no step of any other.               *)
THEOREM ServicesRun ==
  Spec => /\ StoreSpec /\ LedgerSpec /\ UndoSpec /\ ApiSpec /\ ArchiveSpec /\ MatchSpec
          /\ SkillSpec /\ SimSpec /\ OutputSpec /\ LiveSpec /\ PairingSpec
<1>1. Init => /\ StoreInit /\ LedgerInit /\ UndoInit /\ ApiInit /\ ArchiveInit /\ MatchInit
              /\ SkillInit /\ SimInit /\ OutputInit /\ LiveInit /\ PairingInit
  BY DEF Init
<1>2. ASSUME [Next]_vars
      PROVE  /\ [StoreNext]_storeVars /\ [LedgerNext]_ledgerVars /\ [UndoNext]_undoVars
             /\ [ApiNext]_apiVars /\ [ArchiveNext]_archiveVars /\ [\E w \in Words : Say(w)]_text
             /\ [SkillNext]_skillVars /\ [SimNext]_simVars /\ [OutputNext]_outputVars
             /\ [LiveNext]_liveVars /\ [PairingNext]_pairingVars
  <2>1. CASE UNCHANGED vars
    BY <2>1 DEF vars
  <2>2. CASE Next
    <3>1. [StoreNext]_storeVars /\ [LedgerNext]_ledgerVars /\ [UndoNext]_undoVars /\ [ApiNext]_apiVars
      BY <2>2 DEF Next, Rest
    <3>2. [ArchiveNext]_archiveVars /\ [\E w \in Words : Say(w)]_text /\ [SkillNext]_skillVars /\ [SimNext]_simVars
      BY <2>2 DEF Next, Rest
    <3>3. [OutputNext]_outputVars /\ [LiveNext]_liveVars /\ [PairingNext]_pairingVars
      BY <2>2 DEF Next, Rest
    <3> QED
      BY <3>1, <3>2, <3>3
  <2> QED
    BY <1>2, <2>1, <2>2
<1> QED
  BY <1>1, <1>2, PTL DEF Spec, StoreSpec, LedgerSpec, UndoSpec, ApiSpec, ArchiveSpec, MatchSpec,
                         SkillSpec, SimSpec, OutputSpec, LiveSpec, PairingSpec

(* In the instance every part keeps to its types and to the limits they     *)
(* state, for every value of the constants of every part.                   *)
THEOREM ServicesTypeCorrect == Spec => []ServicesTypeOK
<1>1. Spec => [](part \in PARTS)
  <2>1. Init => part \in PARTS
    BY DEF Init
  <2>2. part \in PARTS /\ [Next]_vars => (part \in PARTS)'
    <3>1. CASE UNCHANGED vars
      BY <3>1 DEF vars
    <3>2. CASE Next
      BY <3>2 DEF Next, Rest
    <3> QED
      BY <3>1, <3>2
  <2> QED
    BY <2>1, <2>2, PTL DEF Spec
<1>2. /\ part \in PARTS /\ StoreTypeOK /\ LedgerTypeOK /\ UndoTypeOK /\ ApiTypeOK /\ ArchiveTypeOK
      /\ SkillTypeOK /\ SimTypeOK /\ OutputTypeOK
      => ServicesTypeOK
  BY DEF ServicesTypeOK
<1> QED
  BY <1>1, <1>2, ServicesRun, StoreTypeCorrect, LedgerTypeCorrect, UndoTheorem, ApiTheorem, ArchiveTheorem,
     SkillTheorem, NeededTheorem, OutputTypeCorrect, PTL
=============================================================================
