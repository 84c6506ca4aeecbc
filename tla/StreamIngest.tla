---------------------------- MODULE StreamIngest ----------------------------
(***************************************************************************)
(* The stream's intake (src/api/stream.js, createStreamIngest): an event   *)
(* is refused, dropped as a duplicate, folded into an earlier one of its   *)
(* kind, shed, or opens an intent.  ingest() has no await: one event is    *)
(* one step.  An event may be delivered any number of times, late, and in  *)
(* any order.                                                              *)
(***************************************************************************)
EXTENDS Integers, Sequences, FiniteSets

CONSTANTS
  Events,       \* event ids
  KindOf,       \* event -> detector|camera|class, the debounce key
  BodyOf,       \* event -> its payload (hashed)
  StampOf,      \* event -> ts, when its producer says it happened
  Callers,      \* tokens a producer may connect with
  ScopesOf,     \* caller -> scopes of its token; {} for an unknown token
  SIGNATURE_WINDOW_MS, debounceMs, dedupeMax, maxInFlight,
  MaxClock,     \* bound: the clock
  MaxDeliveries \* bound: events delivered

ASSUME StreamAssumption ==
  /\ StampOf \in [Events -> Nat] /\ ScopesOf \in [Callers -> SUBSET {"propose", "read", "decide", "ledger", "halt"}]
  /\ {SIGNATURE_WINDOW_MS, debounceMs, dedupeMax, maxInFlight, MaxClock, MaxDeliveries} \subseteq Nat

Map == INSTANCE ExpiryMap

VARIABLES
  clock,        \* Date.now()
  seenEvents, seenContent, \* ordered maps from event id, payload, to expiry
  lastByKey,    \* kind -> [at, by, occurrences]: the event whose intent the kind folds into
  inFlight,
  opened,       \* history: event -> how many intents its id opened
  outcomes,     \* history: what became of each delivery, with its time
  shedRows      \* history: ledger rows for shed events

streamVars == <<clock, seenEvents, seenContent, lastByKey, inFlight, opened, outcomes, shedRows>>

OUTCOME == {"accepted", "duplicate", "debounced", "shed", "rejected"}
NeverSeen == [at |-> -1, by |-> CHOOSE e \in Events : TRUE, occurrences |-> 0]
Kinds == {KindOf[e] : e \in Events}

StreamInit ==
  /\ clock = 0 /\ seenEvents = <<>> /\ seenContent = <<>> /\ inFlight = 0
  /\ lastByKey = [k \in Kinds |-> NeverSeen]
  /\ opened = [e \in Events |-> 0] /\ outcomes = <<>> /\ shedRows = 0

-----------------------------------------------------------------------------
(* accept(): a token with PROPOSE and without DECIDE.                       *)
acceptAnyProposer(c) == "propose" \in ScopesOf[c]
accept(c) == "propose" \in ScopesOf[c] /\ "decide" \notin ScopesOf[c]

Abs(n) == IF n < 0 THEN -n ELSE n
Timely(e) == Abs(clock - StampOf[e]) <= SIGNATURE_WINDOW_MS

(* Both maps are swept before either is read.                               *)
Events1 == Map!Sweep(seenEvents, clock)
Content1 == Map!Sweep(seenContent, clock)
Swept == seenEvents' = Events1 /\ seenContent' = Content1

Seen(e) == Map!Has(Events1, e) \/ Map!Has(Content1, BodyOf[e])

Prior(e) == lastByKey[KindOf[e]]
Folds(e) == Prior(e).at >= 0 /\ clock - Prior(e).at < debounceMs

Outcome(e, o) == outcomes' = Append(outcomes, [event |-> e, outcome |-> o, at |-> clock])

Reject(e) ==
  /\ ~Timely(e) /\ Outcome(e, "rejected")
  /\ UNCHANGED <<clock, seenEvents, seenContent, lastByKey, inFlight, opened, shedRows>>

Duplicate(e) ==
  /\ Timely(e) /\ Swept /\ Seen(e) /\ Outcome(e, "duplicate")
  /\ UNCHANGED <<clock, lastByKey, inFlight, opened, shedRows>>

Expiry(e) == clock + SIGNATURE_WINDOW_MS

(* A repeat counts on the event its kind folds into, whose time stays.      *)
Debounce(e) ==
  /\ Timely(e) /\ ~Seen(e) /\ Folds(e) /\ Outcome(e, "debounced")
  /\ seenEvents' = Map!Put(Events1, e, Expiry(e)) /\ seenContent' = Content1
  /\ lastByKey' = [lastByKey EXCEPT ![KindOf[e]].occurrences = @ + 1]
  /\ UNCHANGED <<clock, inFlight, opened, shedRows>>

Full == inFlight >= maxInFlight

(* The shed row is best effort: the ledger may refuse it.  The event is not *)
(* remembered, so a retransmission gets another chance.                     *)
Shed(e) ==
  /\ Timely(e) /\ Swept /\ ~Seen(e) /\ ~Folds(e) /\ Full /\ Outcome(e, "shed")
  /\ shedRows' \in {shedRows, shedRows + 1}
  /\ UNCHANGED <<clock, lastByKey, inFlight, opened>>

(* Over dedupeMax, the oldest event is forgotten.                           *)
Evicted(m) == IF Len(m) > dedupeMax THEN Tail(m) ELSE m

(* Mutated: proposed without the key.                                       *)
ProposeAlways(e) == opened' = [opened EXCEPT ![e] = @ + 1]
(* intents.propose() with the event id as its Idempotency-Key.              *)
Propose(e) == opened' = [opened EXCEPT ![e] = 1]

Accept(e) ==
  /\ Timely(e) /\ ~Seen(e) /\ ~Folds(e) /\ ~Full /\ Outcome(e, "accepted")
  /\ seenEvents' = Evicted(Map!Put(Events1, e, Expiry(e)))
  /\ seenContent' = Map!Put(Content1, BodyOf[e], clock + debounceMs)
  /\ Propose(e) /\ inFlight' = inFlight + 1
  /\ lastByKey' = [lastByKey EXCEPT ![KindOf[e]] = [at |-> clock, by |-> e, occurrences |-> 1]]
  /\ UNCHANGED <<clock, shedRows>>

ingest(e, c) ==
  /\ accept(c) /\ Len(outcomes) < MaxDeliveries
  /\ Reject(e) \/ Duplicate(e) \/ Debounce(e) \/ Shed(e) \/ Accept(e)

StreamTick ==
  /\ clock < MaxClock /\ clock' = clock + 1
  /\ UNCHANGED <<seenEvents, seenContent, lastByKey, inFlight, opened, outcomes, shedRows>>

StreamNext == StreamTick \/ \E e \in Events, c \in Callers : ingest(e, c)
StreamSpec == StreamInit /\ [][StreamNext]_streamVars

-----------------------------------------------------------------------------
(* The intake keeps to its types, and the cap holds.                        *)
StreamTypeOK ==
  /\ clock \in 0..MaxClock /\ inFlight \in 0..maxInFlight
  /\ seenEvents \in Seq(Map!Entry(Events, Nat)) /\ seenContent \in Seq(Map!Entry({BodyOf[e] : e \in Events}, Nat))
  /\ lastByKey \in [Kinds -> [at : -1..MaxClock, by : Events, occurrences : Nat]]
  /\ opened \in [Events -> Nat] /\ outcomes \in Seq([event : Events, outcome : OUTCOME, at : 0..MaxClock])
  /\ shedRows \in 0..Len(outcomes)

(* The early exit of the sweep is sound: the two maps stay in the order of  *)
(* expiry with one entry per key, whatever is evicted, folded or delivered  *)
(* again (stream.js:67, :100, :133-135).                                    *)
SweepIsExact ==
  \A m \in {seenEvents, seenContent} : Map!Ordered(m) /\ Map!Distinct(m)

(* However often an event is delivered, and although the memory of event    *)
(* ids forgets under pressure, its id opens one intent (stream.js:135-155). *)
OneIntentPerEvent == \A e \in Events : opened[e] <= 1

(* Nothing is dropped without a reason that can be named: a delivery that   *)
(* opened nothing had an intent of its kind open less than a window ago, or *)
(* the same event or payload accepted or folded, or was late, or was shed   *)
(* with the queue full (stream.js:93-131).                                  *)
DroppedForAReason ==
  \A n \in DOMAIN outcomes :
    LET d == outcomes[n]
        Before(P(_)) == \E k \in 1..(n - 1) : P(outcomes[k])
    IN /\ d.outcome = "debounced" =>
            Before(LAMBDA p : p.outcome = "accepted" /\ KindOf[p.event] = KindOf[d.event]
                              /\ d.at - p.at < debounceMs)
       /\ d.outcome = "duplicate" =>
            Before(LAMBDA p :
              \/ /\ p.outcome \in {"accepted", "debounced"} /\ p.event = d.event
                 /\ d.at - p.at < SIGNATURE_WINDOW_MS
              \/ /\ p.outcome = "accepted" /\ BodyOf[p.event] = BodyOf[d.event]
                 /\ d.at - p.at < debounceMs)
       /\ d.outcome = "shed" => inFlight >= maxInFlight

(* Two events of a kind open two intents only if a window passed between    *)
(* them: a detector that repeats itself asks the operator once              *)
(* (stream.js:111-118).                                                     *)
KindsAreDebounced ==
  \A i, j \in DOMAIN outcomes :
    (i < j /\ outcomes[i].outcome = "accepted" /\ outcomes[j].outcome = "accepted"
     /\ KindOf[outcomes[i].event] = KindOf[outcomes[j].event])
    => outcomes[j].at - outcomes[i].at >= debounceMs

(* What the stream promises: exact sweeps, one intent for an event and one  *)
(* for a kind in a window, and no drop without its reason.                  *)
StreamPromise == SweepIsExact /\ OneIntentPerEvent /\ DroppedForAReason /\ KindsAreDebounced
=============================================================================
