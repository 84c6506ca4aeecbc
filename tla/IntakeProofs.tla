---------------------------- MODULE IntakeProofs ----------------------------
(***************************************************************************)
(* What the components that take things in promise: the event stream, for  *)
(* any events, producers, windows and caps, however often and in whatever  *)
(* order events are delivered; the browser's feed client, for any buffer   *)
(* and any closes, timers and clip changes; the gateway client, for any    *)
(* requests, answers and timeouts; and the dialer, for any feeds and       *)
(* delays.  At the end, what follows for all of them, the door, the judge, *)
(* L0, the scenes and the cloud in the instance of MCIntake.               *)
(***************************************************************************)
EXTENDS MCIntake, IntentSourceProofs, SeeProofs, SequenceTheorems, FiniteSetTheorems,
        WellFoundedInduction, TLAPS

(* A set of naturals that is not empty has a least element.                 *)
LEMMA LeastOfSome ==
  ASSUME NEW S, S \subseteq Nat, S # {}
  PROVE  \E m \in S : \A n \in S : m <= n
<1> DEFINE R == OpToRel(<, Nat)
<1>1. IsWellFoundedOn(R, Nat)
  BY NatLessThanWellFounded
<1>2. \A n, m \in Nat : n < m => <<n, m>> \in R
  BY DEF OpToRel
<1> HIDE DEF R
<1>3. \E m \in S : \A n \in S : ~(<<n, m>> \in R)
  BY <1>1, WFMin, Zenon
<1>4. PICK m \in S : \A n \in S : ~(<<n, m>> \in R)
  BY <1>3
<1>5. \A n \in S : n \in Nat /\ m \in Nat /\ ~(n < m)
  BY <1>2, <1>4
<1>6. \A n \in S : m <= n
  BY <1>5
<1> QED
  BY <1>6

-----------------------------------------------------------------------------
(* Maps in the order of insertion (ExpiryMap).                             *)

(* In an ordered map the sweep keeps a suffix: all of it is unexpired, it   *)
(* is as ordered and as distinct as the map, and no unexpired entry is lost.*)
LEMMA SweepKeeps ==
  ASSUME NEW K, NEW m \in Seq(Map!Entry(K, Nat)), NEW t \in Nat, Map!Ordered(m), Map!Distinct(m),
         NEW s, s = Map!Sweep(m, t)
  PROVE  /\ s \in Seq(Map!Entry(K, Nat)) /\ Map!Ordered(s) /\ Map!Distinct(s)
         /\ \A i \in DOMAIN s : s[i].exp > t
         /\ \A i \in DOMAIN s : \E j \in DOMAIN m : s[i] = m[j]
<1> DEFINE live == Map!Live(m, t)
<1>1. DOMAIN m = 1..Len(m) /\ Len(m) \in Nat
  BY LenProperties
<1>2. \A i \in DOMAIN m : m[i] \in Map!Entry(K, Nat) /\ m[i].exp \in Nat
  <2>1. \A i \in DOMAIN m : m[i] \in Map!Entry(K, Nat)
    BY <1>1, ElementOfSeq
  <2> QED
    BY <2>1 DEF Map!Entry
<1>3. live \subseteq DOMAIN m /\ live \subseteq Nat
  BY <1>1 DEF Map!Live
<1>4. CASE live = {}
  <2>1. s = <<>>
    BY <1>4 DEF Map!Sweep
  <2> QED
    BY <2>1, EmptySeq DEF Map!Ordered, Map!Distinct
<1>5. CASE live # {}
  <2> DEFINE a == CHOOSE i \in live : \A j \in live : i <= j
  <2>1. a \in live /\ \A j \in live : a <= j
    BY <1>3, <1>5, LeastOfSome
  <2>2. s = SubSeq(m, a, Len(m))
    BY <1>5 DEF Map!Sweep
  <2>3. a \in 1..Len(m) /\ m[a].exp > t
    BY <1>1, <1>3, <2>1 DEF Map!Live
  <2> HIDE DEF a
  <2>4. \A k \in a..Len(m) : m[k] \in Map!Entry(K, Nat)
    BY <1>1, <1>2, <2>3
  <2>5. s \in Seq(Map!Entry(K, Nat)) /\ Len(s) = Len(m) - a + 1 /\ \A i \in 1..Len(s) : s[i] = m[a + i - 1]
    BY <1>1, <2>2, <2>3, <2>4, SubSeqProperties
  <2>6. DOMAIN s = 1..Len(s) /\ \A i \in DOMAIN s : a + i - 1 \in DOMAIN m /\ a <= a + i - 1 /\ s[i] = m[a + i - 1]
    BY <1>1, <2>3, <2>5, LenProperties
  <2>7. \A i \in DOMAIN s : s[i].exp > t
    <3> SUFFICES ASSUME NEW i \in DOMAIN s PROVE s[i].exp > t
      OBVIOUS
    <3>1. PICK k \in DOMAIN m : s[i] = m[k] /\ a <= k
      BY <2>6
    <3>2. m[a].exp <= m[k].exp
      <4>1. CASE a = k
        BY <1>2, <4>1
      <4>2. CASE a # k
        <5>1. a < k
          BY <1>1, <2>3, <3>1, <4>2
        <5> QED
          BY <1>1, <2>3, <3>1, <5>1 DEF Map!Ordered
      <4> QED
        BY <4>1, <4>2
    <3>3. m[a].exp \in Nat /\ m[k].exp \in Nat
      BY <1>1, <1>2, <2>3, <3>1
    <3>4. m[k].exp > t
      BY <2>3, <3>2, <3>3
    <3> QED
      BY <3>1, <3>4
  <2>8. Map!Ordered(s)
    <3> SUFFICES ASSUME NEW i \in DOMAIN s, NEW j \in DOMAIN s, i < j PROVE s[i].exp <= s[j].exp
      BY DEF Map!Ordered
    <3>1. a + i - 1 \in DOMAIN m /\ a + j - 1 \in DOMAIN m /\ s[i] = m[a + i - 1] /\ s[j] = m[a + j - 1]
      BY <2>6
    <3>2. a + i - 1 < a + j - 1
      BY <1>1, <2>3, <2>5, <2>6
    <3> QED
      BY <3>1, <3>2 DEF Map!Ordered
  <2>9. Map!Distinct(s)
    <3> SUFFICES ASSUME NEW i \in DOMAIN s, NEW j \in DOMAIN s, s[i].key = s[j].key PROVE i = j
      BY DEF Map!Distinct
    <3>1. a + i - 1 \in DOMAIN m /\ a + j - 1 \in DOMAIN m /\ s[i] = m[a + i - 1] /\ s[j] = m[a + j - 1]
      BY <2>6
    <3>2. a + i - 1 = a + j - 1
      BY <3>1 DEF Map!Distinct
    <3> QED
      BY <1>1, <2>3, <2>5, <2>6, <3>2
  <2> QED
    BY <2>5, <2>6, <2>7, <2>8, <2>9
<1> QED
  BY <1>4, <1>5

(* A key that is not there goes to the end, and an expiry that no other     *)
(* exceeds keeps the order.                                                 *)
LEMMA PutKeeps ==
  ASSUME NEW K, NEW m \in Seq(Map!Entry(K, Nat)), NEW k \in K, NEW exp \in Nat,
         Map!Ordered(m), Map!Distinct(m), ~Map!Has(m, k), \A i \in DOMAIN m : m[i].exp <= exp,
         NEW p, p = Map!Put(m, k, exp)
  PROVE  /\ p \in Seq(Map!Entry(K, Nat)) /\ Map!Ordered(p) /\ Map!Distinct(p) /\ Len(p) = Len(m) + 1
         /\ \A i \in DOMAIN p : p[i] = [key |-> k, exp |-> exp] \/ \E j \in DOMAIN m : p[i] = m[j]
<1> DEFINE new == [key |-> k, exp |-> exp]
<1>1. p = Append(m, new) /\ new \in Map!Entry(K, Nat)
  BY DEF Map!Put, Map!Entry
<1>2. /\ Len(m) \in Nat /\ DOMAIN m = 1..Len(m)
      /\ \A i \in DOMAIN m : m[i].exp \in Nat
  <2>1. Len(m) \in Nat /\ DOMAIN m = 1..Len(m)
    BY LenProperties
  <2>2. \A i \in DOMAIN m : m[i] \in Map!Entry(K, Nat)
    BY <2>1, ElementOfSeq
  <2> QED
    BY <2>1, <2>2 DEF Map!Entry
<1>3. /\ p \in Seq(Map!Entry(K, Nat)) /\ Len(p) = Len(m) + 1 /\ DOMAIN p = 1..(Len(m) + 1)
      /\ \A i \in 1..Len(m) : p[i] = m[i]
      /\ p[Len(m) + 1] = new
  BY <1>1, <1>2, AppendProperties, LenProperties
<1>4. Map!Ordered(p)
  BY <1>2, <1>3 DEF Map!Ordered
<1>5. Map!Distinct(p)
  BY <1>2, <1>3 DEF Map!Distinct, Map!Has
<1> QED
  BY <1>2, <1>3, <1>4, <1>5

-----------------------------------------------------------------------------
(* The event stream.                                                       *)

OUTCOMES == [event : Events, outcome : OUTCOME, at : 0..MaxClock]
Bodies == {BodyOf[e] : e \in Events}

StreamTypes ==
  /\ clock \in 0..MaxClock /\ inFlight \in 0..maxInFlight
  /\ seenEvents \in Seq(Map!Entry(Events, Nat)) /\ seenContent \in Seq(Map!Entry(Bodies, Nat))
  /\ lastByKey \in [Kinds -> [at : -1..MaxClock, by : Events, occurrences : Nat]]
  /\ opened \in [Events -> 0..1] /\ outcomes \in Seq(OUTCOMES)
  /\ shedRows \in 0..Len(outcomes)

(* What the three memories hold is what became of deliveries: an id in the  *)
(* first was accepted or folded, a payload in the second accepted, and the  *)
(* third has the last event of each kind that was accepted.                 *)
Past == \A n \in DOMAIN outcomes : outcomes[n].at <= clock

OfEvent(x) ==
  \E n \in DOMAIN outcomes :
    /\ outcomes[n].event = x.key /\ outcomes[n].outcome \in {"accepted", "debounced"}
    /\ x.exp = outcomes[n].at + SIGNATURE_WINDOW_MS

OfContent(x) ==
  \E n \in DOMAIN outcomes :
    /\ BodyOf[outcomes[n].event] = x.key /\ outcomes[n].outcome = "accepted"
    /\ x.exp = outcomes[n].at + debounceMs

EventsAreOutcomes == \A i \in DOMAIN seenEvents : OfEvent(seenEvents[i])
ContentIsOutcomes == \A i \in DOMAIN seenContent : OfContent(seenContent[i])

AcceptedOf(k, n) == outcomes[n].outcome = "accepted" /\ KindOf[outcomes[n].event] = k

LastIsLast ==
  \A k \in Kinds :
    /\ lastByKey[k].at >= 0 => \E n \in DOMAIN outcomes : AcceptedOf(k, n) /\ outcomes[n].at = lastByKey[k].at
    /\ \A n \in DOMAIN outcomes : AcceptedOf(k, n) => outcomes[n].at <= lastByKey[k].at

(* Why a delivery opened nothing, in the outcomes up to it.                 *)
Explained(q, n) ==
  /\ q[n].outcome = "debounced" =>
       \E k \in 1..(n - 1) : /\ q[k].outcome = "accepted" /\ KindOf[q[k].event] = KindOf[q[n].event]
                             /\ q[n].at - q[k].at < debounceMs
  /\ q[n].outcome = "duplicate" =>
       \E k \in 1..(n - 1) :
         \/ /\ q[k].outcome \in {"accepted", "debounced"} /\ q[k].event = q[n].event
            /\ q[n].at - q[k].at < SIGNATURE_WINDOW_MS
         \/ /\ q[k].outcome = "accepted" /\ BodyOf[q[k].event] = BodyOf[q[n].event]
            /\ q[n].at - q[k].at < debounceMs

Reasons ==
  \A n \in DOMAIN outcomes :
    Explained(outcomes, n) /\ (outcomes[n].outcome = "shed" => inFlight >= maxInFlight)

Memories == EventsAreOutcomes /\ ContentIsOutcomes /\ LastIsLast
StreamIInv == StreamTypes /\ Past /\ SweepIsExact /\ Memories /\ Reasons /\ KindsAreDebounced

LEMMA ReasonsMean == Reasons <=> DroppedForAReason
BY DEF Reasons, Explained, DroppedForAReason

LEMMA StreamStarts == StreamInit => StreamIInv
<1> SUFFICES ASSUME StreamInit PROVE StreamIInv
  OBVIOUS
<1>1. \A k \in Kinds : NeverSeen \in [at : -1..MaxClock, by : Events, occurrences : Nat]
  BY StreamAssumption DEF NeverSeen, Kinds
<1>2. StreamTypes
  <2>1. lastByKey \in [Kinds -> [at : -1..MaxClock, by : Events, occurrences : Nat]]
    BY <1>1 DEF StreamInit
  <2>2. clock \in 0..MaxClock /\ inFlight \in 0..maxInFlight /\ opened \in [Events -> 0..1]
    BY StreamAssumption DEF StreamInit
  <2>3. /\ seenEvents \in Seq(Map!Entry(Events, Nat)) /\ seenContent \in Seq(Map!Entry(Bodies, Nat))
        /\ outcomes \in Seq(OUTCOMES) /\ shedRows \in 0..Len(outcomes)
    BY EmptySeq DEF StreamInit
  <2> QED
    BY <2>1, <2>2, <2>3 DEF StreamTypes
<1>3. Past /\ SweepIsExact /\ EventsAreOutcomes /\ ContentIsOutcomes /\ Reasons /\ KindsAreDebounced
  BY DEF StreamInit, Past, SweepIsExact, Map!Ordered, Map!Distinct, EventsAreOutcomes, ContentIsOutcomes,
         Reasons, KindsAreDebounced
<1>4. LastIsLast
  BY DEF StreamInit, LastIsLast, NeverSeen
<1> QED
  BY <1>2, <1>3, <1>4 DEF StreamIInv, Memories

-----------------------------------------------------------------------------
(* A delivery adds one outcome, of now, behind the ones there are.          *)
Added(e, o) ==
  /\ outcomes' \in Seq(OUTCOMES) /\ Len(outcomes) \in Nat /\ Len(outcomes') = Len(outcomes) + 1
  /\ DOMAIN outcomes = 1..Len(outcomes) /\ DOMAIN outcomes' = 1..(Len(outcomes) + 1)
  /\ \A n \in DOMAIN outcomes : outcomes'[n] = outcomes[n] /\ outcomes[n] \in OUTCOMES
  /\ outcomes'[Len(outcomes) + 1] = [event |-> e, outcome |-> o, at |-> clock]

LEMMA OutcomeAdds ==
  ASSUME StreamIInv, NEW e \in Events, NEW o \in OUTCOME, Outcome(e, o)
  PROVE  Added(e, o)
<1>1. [event |-> e, outcome |-> o, at |-> clock] \in OUTCOMES /\ outcomes \in Seq(OUTCOMES)
  BY DEF StreamIInv, StreamTypes, OUTCOMES
<1>2. DOMAIN outcomes = 1..Len(outcomes) /\ Len(outcomes) \in Nat /\ \A n \in DOMAIN outcomes : outcomes[n] \in OUTCOMES
  BY <1>1, LenProperties, ElementOfSeq
<1> QED
  BY <1>1, <1>2, AppendProperties, LenProperties DEF Outcome, Added

(* Its reason is the only one in question.                                  *)
LEMMA ReasonAdded ==
  ASSUME StreamIInv, NEW e \in Events, NEW o \in OUTCOME, Added(e, o), UNCHANGED clock,
         inFlight' >= inFlight, inFlight' \in Nat,
         Explained(outcomes', Len(outcomes) + 1), o = "shed" => inFlight' >= maxInFlight
  PROVE  Reasons' /\ Past'
<1>1. inFlight \in Nat /\ maxInFlight \in Nat /\ clock \in Nat
  BY StreamAssumption DEF StreamIInv, StreamTypes
<1>2. Past'
  BY <1>1 DEF Past, Added, StreamIInv
<1>3. ASSUME NEW n \in DOMAIN outcomes
      PROVE  Explained(outcomes', n) /\ (outcomes'[n].outcome = "shed" => inFlight' >= maxInFlight)
  <2>1. \A k \in 1..n : outcomes'[k] = outcomes[k]
    BY DEF Added
  <2>2. n \in 1..n /\ \A k \in 1..(n - 1) : k \in 1..n
    BY DEF Added
  <2>3. Explained(outcomes, n) /\ (outcomes[n].outcome = "shed" => inFlight >= maxInFlight)
    BY DEF StreamIInv, Reasons
  <2>4. Explained(outcomes', n)
    BY <2>1, <2>2, <2>3 DEF Explained
  <2> QED
    BY <1>1, <2>1, <2>2, <2>3, <2>4
<1>4. outcomes'[Len(outcomes) + 1].outcome = o
  BY DEF Added
<1>5. Reasons'
  <2> SUFFICES ASSUME NEW n \in DOMAIN outcomes'
               PROVE  Explained(outcomes', n) /\ (outcomes'[n].outcome = "shed" => inFlight' >= maxInFlight)
    BY DEF Reasons
  <2>1. n \in DOMAIN outcomes \/ n = Len(outcomes) + 1
    BY DEF Added
  <2> QED
    BY <1>3, <1>4, <2>1
<1> QED
  BY <1>2, <1>5

(* What is remembered stays an outcome when one is added.                   *)
LEMMA OutcomesStay ==
  ASSUME StreamIInv, NEW e \in Events, NEW o \in OUTCOME, Added(e, o)
  PROVE  /\ \A x : OfEvent(x) => OfEvent(x)'
         /\ \A x : OfContent(x) => OfContent(x)'
<1>1. \A n \in DOMAIN outcomes : n \in DOMAIN outcomes' /\ outcomes'[n] = outcomes[n]
  BY DEF Added
<1> QED
  BY <1>1 DEF OfEvent, OfContent

LEMMA OutcomesTyped ==
  ASSUME StreamIInv
  PROVE  \A n \in DOMAIN outcomes : outcomes[n] \in OUTCOMES /\ outcomes[n].at \in Nat /\ outcomes[n].at <= clock
<1>1. outcomes \in Seq(OUTCOMES)
  BY DEF StreamIInv, StreamTypes
<1>2. \A n \in DOMAIN outcomes : outcomes[n] \in OUTCOMES
  BY <1>1, LenProperties, ElementOfSeq
<1>3. \A n \in DOMAIN outcomes : outcomes[n].at \in Nat
  BY <1>2, StreamAssumption DEF OUTCOMES
<1> QED
  BY <1>2, <1>3 DEF StreamIInv, Past

(* The maps after the sweep: unexpired, in order, and nothing outlives now  *)
(* by more than its window.                                                 *)
LEMMA EventsSwept ==
  ASSUME StreamIInv
  PROVE  /\ Events1 \in Seq(Map!Entry(Events, Nat)) /\ Map!Ordered(Events1) /\ Map!Distinct(Events1)
         /\ \A i \in DOMAIN Events1 :
              OfEvent(Events1[i]) /\ Events1[i].exp > clock /\ Events1[i].exp <= clock + SIGNATURE_WINDOW_MS
<1>1. /\ seenEvents \in Seq(Map!Entry(Events, Nat)) /\ Map!Ordered(seenEvents) /\ Map!Distinct(seenEvents)
      /\ clock \in Nat /\ SIGNATURE_WINDOW_MS \in Nat /\ MaxClock \in Nat
  BY StreamAssumption DEF StreamIInv, StreamTypes, SweepIsExact
<1>2. /\ Events1 \in Seq(Map!Entry(Events, Nat)) /\ Map!Ordered(Events1) /\ Map!Distinct(Events1)
      /\ \A i \in DOMAIN Events1 : Events1[i].exp > clock
      /\ \A i \in DOMAIN Events1 : \E j \in DOMAIN seenEvents : Events1[i] = seenEvents[j]
  <2>1. Events1 = Map!Sweep(seenEvents, clock)
    BY DEF Events1
  <2>2. Events1 \in Seq(Map!Entry(Events, Nat)) /\ Map!Ordered(Events1) /\ Map!Distinct(Events1)
    BY <1>1, <2>1, SweepKeeps
  <2>3. \A i \in DOMAIN Events1 : Events1[i].exp > clock
    BY <1>1, <2>1, SweepKeeps
  <2>4. \A i \in DOMAIN Events1 : \E j \in DOMAIN seenEvents : Events1[i] = seenEvents[j]
    BY <1>1, <2>1, SweepKeeps
  <2> QED
    BY <2>2, <2>3, <2>4
<1>3. ASSUME NEW i \in DOMAIN Events1
      PROVE  OfEvent(Events1[i]) /\ Events1[i].exp <= clock + SIGNATURE_WINDOW_MS
  <2>1. OfEvent(Events1[i])
    BY <1>2 DEF StreamIInv, Memories, EventsAreOutcomes
  <2>2. PICK n \in DOMAIN outcomes : Events1[i].exp = outcomes[n].at + SIGNATURE_WINDOW_MS
    BY <2>1 DEF OfEvent
  <2>3. outcomes[n].at \in Nat /\ outcomes[n].at <= clock
    BY OutcomesTyped
  <2> QED
    BY <1>1, <2>1, <2>2, <2>3
<1> QED
  BY <1>2, <1>3

LEMMA ContentSwept ==
  ASSUME StreamIInv
  PROVE  /\ Content1 \in Seq(Map!Entry(Bodies, Nat)) /\ Map!Ordered(Content1) /\ Map!Distinct(Content1)
         /\ \A i \in DOMAIN Content1 :
              OfContent(Content1[i]) /\ Content1[i].exp > clock /\ Content1[i].exp <= clock + debounceMs
<1>1. /\ seenContent \in Seq(Map!Entry(Bodies, Nat)) /\ Map!Ordered(seenContent) /\ Map!Distinct(seenContent)
      /\ clock \in Nat /\ debounceMs \in Nat /\ MaxClock \in Nat
  BY StreamAssumption DEF StreamIInv, StreamTypes, SweepIsExact
<1>2. /\ Content1 \in Seq(Map!Entry(Bodies, Nat)) /\ Map!Ordered(Content1) /\ Map!Distinct(Content1)
      /\ \A i \in DOMAIN Content1 : Content1[i].exp > clock
      /\ \A i \in DOMAIN Content1 : \E j \in DOMAIN seenContent : Content1[i] = seenContent[j]
  <2>1. Content1 = Map!Sweep(seenContent, clock)
    BY DEF Content1
  <2>2. Content1 \in Seq(Map!Entry(Bodies, Nat)) /\ Map!Ordered(Content1) /\ Map!Distinct(Content1)
    BY <1>1, <2>1, SweepKeeps
  <2>3. \A i \in DOMAIN Content1 : Content1[i].exp > clock
    BY <1>1, <2>1, SweepKeeps
  <2>4. \A i \in DOMAIN Content1 : \E j \in DOMAIN seenContent : Content1[i] = seenContent[j]
    BY <1>1, <2>1, SweepKeeps
  <2> QED
    BY <2>2, <2>3, <2>4
<1>3. ASSUME NEW i \in DOMAIN Content1
      PROVE  OfContent(Content1[i]) /\ Content1[i].exp <= clock + debounceMs
  <2>1. OfContent(Content1[i])
    BY <1>2 DEF StreamIInv, Memories, ContentIsOutcomes
  <2>2. PICK n \in DOMAIN outcomes : Content1[i].exp = outcomes[n].at + debounceMs
    BY <2>1 DEF OfContent
  <2>3. outcomes[n].at \in Nat /\ outcomes[n].at <= clock
    BY OutcomesTyped
  <2> QED
    BY <1>1, <2>1, <2>2, <2>3
<1> QED
  BY <1>2, <1>3

(* A repeat is of an outcome before it that its window still covers.        *)
LEMMA SeenIsExplained ==
  ASSUME StreamIInv, NEW e \in Events, Seen(e), Added(e, "duplicate")
  PROVE  Explained(outcomes', Len(outcomes) + 1)
<1> DEFINE newest == Len(outcomes) + 1
<1>1. /\ outcomes'[newest].event = e /\ outcomes'[newest].outcome = "duplicate" /\ outcomes'[newest].at = clock
      /\ newest - 1 = Len(outcomes) /\ DOMAIN outcomes = 1..(newest - 1)
      /\ \A n \in DOMAIN outcomes : outcomes'[n] = outcomes[n] /\ outcomes[n].at \in Int
  BY DEF Added, OUTCOMES
<1>2. clock \in Nat /\ SIGNATURE_WINDOW_MS \in Nat /\ debounceMs \in Nat
  BY StreamAssumption DEF StreamIInv, StreamTypes
<1> HIDE DEF newest
<1>3. CASE Map!Has(Events1, e)
  <2>1. PICK i \in DOMAIN Events1 : Events1[i].key = e
    BY <1>3 DEF Map!Has
  <2>2. OfEvent(Events1[i]) /\ Events1[i].exp > clock
    BY EventsSwept
  <2>3. PICK n \in DOMAIN outcomes :
          /\ outcomes[n].event = e /\ outcomes[n].outcome \in {"accepted", "debounced"}
          /\ Events1[i].exp = outcomes[n].at + SIGNATURE_WINDOW_MS
    BY <2>1, <2>2 DEF OfEvent
  <2>4. clock - outcomes[n].at < SIGNATURE_WINDOW_MS
    BY <1>1, <1>2, <2>2, <2>3
  <2> QED
    BY <1>1, <2>3, <2>4 DEF Explained, newest
<1>4. CASE Map!Has(Content1, BodyOf[e])
  <2>1. PICK i \in DOMAIN Content1 : Content1[i].key = BodyOf[e]
    BY <1>4 DEF Map!Has
  <2>2. OfContent(Content1[i]) /\ Content1[i].exp > clock
    BY ContentSwept
  <2>3. PICK n \in DOMAIN outcomes :
          /\ BodyOf[outcomes[n].event] = BodyOf[e] /\ outcomes[n].outcome = "accepted"
          /\ Content1[i].exp = outcomes[n].at + debounceMs
    BY <2>1, <2>2 DEF OfContent
  <2>4. clock - outcomes[n].at < debounceMs
    BY <1>1, <1>2, <2>2, <2>3
  <2> QED
    BY <1>1, <2>3, <2>4 DEF Explained, newest
<1> QED
  BY <1>3, <1>4 DEF Seen

(* As long as nothing is accepted, the last of each kind stays the last.    *)
LEMMA LastStays ==
  ASSUME StreamIInv, NEW e \in Events, NEW o \in OUTCOME \ {"accepted"}, Added(e, o),
         \A k \in Kinds : lastByKey'[k].at = lastByKey[k].at
  PROVE  LastIsLast' /\ KindsAreDebounced'
<1>1. \A n \in DOMAIN outcomes' : \A k : AcceptedOf(k, n)' => n \in DOMAIN outcomes /\ AcceptedOf(k, n)
  BY DEF Added, AcceptedOf
<1>2. \A n \in DOMAIN outcomes : n \in DOMAIN outcomes' /\ outcomes'[n] = outcomes[n] /\ \A k : AcceptedOf(k, n) => AcceptedOf(k, n)'
  BY DEF Added, AcceptedOf
<1>3. LastIsLast'
  BY <1>1, <1>2 DEF LastIsLast, StreamIInv, Memories
<1>4. \A n \in DOMAIN outcomes' : outcomes'[n].outcome = "accepted" => n \in DOMAIN outcomes
  BY DEF Added
<1>5. KindsAreDebounced'
  BY <1>2, <1>4 DEF KindsAreDebounced, StreamIInv
<1> QED
  BY <1>3, <1>5

-----------------------------------------------------------------------------
(* One lemma for each of the five things that become of a delivery.        *)

LEMMA RejectKeeps == ASSUME StreamIInv, NEW e \in Events, Reject(e) PROVE StreamIInv'
<1>1. UNCHANGED <<clock, seenEvents, seenContent, lastByKey, inFlight, opened, shedRows>>
  BY DEF Reject
<1>2. Added(e, "rejected")
  BY OutcomeAdds DEF Reject, OUTCOME
<1>3. Explained(outcomes', Len(outcomes) + 1)
  BY <1>2 DEF Explained, Added
<1>4. inFlight \in Nat
  BY StreamAssumption DEF StreamIInv, StreamTypes
<1>5. Reasons' /\ Past'
  BY <1>1, <1>2, <1>3, <1>4, ReasonAdded DEF OUTCOME
<1>6. LastIsLast' /\ KindsAreDebounced'
  BY <1>1, <1>2, LastStays DEF OUTCOME
<1>7. EventsAreOutcomes' /\ ContentIsOutcomes'
  BY <1>1, <1>2, OutcomesStay DEF EventsAreOutcomes, ContentIsOutcomes, StreamIInv, Memories, OUTCOME
<1>8. StreamTypes' /\ SweepIsExact'
  BY <1>1, <1>2 DEF StreamIInv, StreamTypes, SweepIsExact, Added
<1> QED
  BY <1>5, <1>6, <1>7, <1>8 DEF StreamIInv, Memories

(* The maps when they were swept and nothing was put.                       *)
LEMMA SweptKeeps ==
  ASSUME StreamIInv, NEW e \in Events, NEW o \in OUTCOME, Added(e, o), Swept
  PROVE  /\ seenEvents' \in Seq(Map!Entry(Events, Nat)) /\ seenContent' \in Seq(Map!Entry(Bodies, Nat))
         /\ EventsAreOutcomes' /\ ContentIsOutcomes' /\ SweepIsExact'
<1>1. seenEvents' = Events1 /\ seenContent' = Content1
  BY DEF Swept
<1>2. EventsAreOutcomes' /\ ContentIsOutcomes'
  BY <1>1, EventsSwept, ContentSwept, OutcomesStay DEF EventsAreOutcomes, ContentIsOutcomes
<1>3. SweepIsExact'
  BY <1>1, EventsSwept, ContentSwept DEF SweepIsExact
<1> QED
  BY <1>1, <1>2, <1>3, EventsSwept, ContentSwept

LEMMA DuplicateKeeps == ASSUME StreamIInv, NEW e \in Events, Duplicate(e) PROVE StreamIInv'
<1>1. UNCHANGED <<clock, lastByKey, inFlight, opened, shedRows>> /\ Swept /\ Seen(e)
  BY DEF Duplicate
<1>2. Added(e, "duplicate")
  BY OutcomeAdds DEF Duplicate, OUTCOME
<1>3. Explained(outcomes', Len(outcomes) + 1)
  BY <1>1, <1>2, SeenIsExplained
<1>4. inFlight \in Nat
  BY StreamAssumption DEF StreamIInv, StreamTypes
<1>5. Reasons' /\ Past'
  BY <1>1, <1>2, <1>3, <1>4, ReasonAdded DEF OUTCOME
<1>6. LastIsLast' /\ KindsAreDebounced'
  BY <1>1, <1>2, LastStays DEF OUTCOME
<1>7. /\ seenEvents' \in Seq(Map!Entry(Events, Nat)) /\ seenContent' \in Seq(Map!Entry(Bodies, Nat))
      /\ EventsAreOutcomes' /\ ContentIsOutcomes' /\ SweepIsExact'
  BY <1>1, <1>2, SweptKeeps DEF OUTCOME
<1>8. StreamTypes'
  BY <1>1, <1>2, <1>7 DEF StreamIInv, StreamTypes, Added
<1> QED
  BY <1>5, <1>6, <1>7, <1>8 DEF StreamIInv, Memories

LEMMA ShedKeeps == ASSUME StreamIInv, NEW e \in Events, Shed(e) PROVE StreamIInv'
<1>1. UNCHANGED <<clock, lastByKey, inFlight, opened>> /\ Swept /\ Full /\ shedRows' \in {shedRows, shedRows + 1}
  BY DEF Shed
<1>2. Added(e, "shed")
  BY OutcomeAdds DEF Shed, OUTCOME
<1>3. Explained(outcomes', Len(outcomes) + 1)
  BY <1>2 DEF Explained, Added
<1>4. inFlight \in Nat
  BY StreamAssumption DEF StreamIInv, StreamTypes
<1>5. Reasons' /\ Past'
  BY <1>1, <1>2, <1>3, <1>4, ReasonAdded DEF OUTCOME, Full
<1>6. LastIsLast' /\ KindsAreDebounced'
  BY <1>1, <1>2, LastStays DEF OUTCOME
<1>7. /\ seenEvents' \in Seq(Map!Entry(Events, Nat)) /\ seenContent' \in Seq(Map!Entry(Bodies, Nat))
      /\ EventsAreOutcomes' /\ ContentIsOutcomes' /\ SweepIsExact'
  BY <1>1, <1>2, SweptKeeps DEF OUTCOME
<1>8. StreamTypes'
  BY <1>1, <1>2, <1>7 DEF StreamIInv, StreamTypes, Added
<1> QED
  BY <1>5, <1>6, <1>7, <1>8 DEF StreamIInv, Memories

(* What is remembered of a delivery that was accepted or folded.            *)
LEMMA EventPut ==
  ASSUME StreamIInv, NEW e \in Events, NEW o \in {"accepted", "debounced"}, Added(e, o), ~Seen(e),
         NEW p, p = Map!Put(Events1, e, Expiry(e))
  PROVE  /\ p \in Seq(Map!Entry(Events, Nat)) /\ Map!Ordered(p) /\ Map!Distinct(p) /\ Len(p) \in Nat \ {0}
         /\ \A i \in DOMAIN p : OfEvent(p[i])'
<1>1. o \in OUTCOME
  BY DEF OUTCOME
<1>2. clock \in Nat /\ SIGNATURE_WINDOW_MS \in Nat /\ Expiry(e) \in Nat /\ Expiry(e) = clock + SIGNATURE_WINDOW_MS
  BY StreamAssumption DEF StreamIInv, StreamTypes, Expiry
<1>3. /\ p \in Seq(Map!Entry(Events, Nat)) /\ Map!Ordered(p) /\ Map!Distinct(p) /\ Len(p) = Len(Events1) + 1
      /\ \A i \in DOMAIN p : p[i] = [key |-> e, exp |-> Expiry(e)] \/ \E j \in DOMAIN Events1 : p[i] = Events1[j]
  <2>1. ~Map!Has(Events1, e) /\ \A i \in DOMAIN Events1 : Events1[i].exp <= Expiry(e)
    BY <1>2, EventsSwept DEF Seen
  <2> QED
    BY <1>2, <2>1, EventsSwept, PutKeeps
<1>4. \A x : x.key = e /\ x.exp = Expiry(e) => OfEvent(x)'
  <2> SUFFICES ASSUME NEW x, x.key = e, x.exp = Expiry(e) PROVE OfEvent(x)'
    OBVIOUS
  <2>1. /\ Len(outcomes) + 1 \in DOMAIN outcomes' /\ outcomes'[Len(outcomes) + 1].event = e
        /\ outcomes'[Len(outcomes) + 1].outcome = o /\ outcomes'[Len(outcomes) + 1].at = clock
    BY DEF Added
  <2> QED
    BY <1>2, <2>1 DEF OfEvent
<1>5. Len(Events1) \in Nat
  BY EventsSwept, LenProperties
<1>6. ASSUME NEW i \in DOMAIN p PROVE OfEvent(p[i])'
  <2>1. CASE p[i] = [key |-> e, exp |-> Expiry(e)]
    <3>1. p[i].key = e /\ p[i].exp = Expiry(e)
      BY <2>1
    <3> QED
      BY <1>4, <3>1
  <2>2. CASE \E j \in DOMAIN Events1 : p[i] = Events1[j]
    <3>1. OfEvent(p[i])
      BY <2>2, EventsSwept
    <3> QED
      BY <1>1, <3>1, OutcomesStay
  <2> QED
    BY <1>3, <2>1, <2>2
<1> QED
  BY <1>3, <1>5, <1>6

LEMMA DebounceKeeps == ASSUME StreamIInv, NEW e \in Events, Debounce(e) PROVE StreamIInv'
<1>1. /\ UNCHANGED <<clock, inFlight, opened, shedRows>> /\ ~Seen(e) /\ Folds(e)
      /\ seenEvents' = Map!Put(Events1, e, Expiry(e)) /\ seenContent' = Content1
  BY DEF Debounce
<1>2. Added(e, "debounced")
  BY OutcomeAdds DEF Debounce, OUTCOME
<1>3. KindOf[e] \in Kinds
  BY DEF Kinds
<1>4. Explained(outcomes', Len(outcomes) + 1)
  <2>1. PICK n \in DOMAIN outcomes : AcceptedOf(KindOf[e], n) /\ outcomes[n].at = Prior(e).at
    BY <1>1, <1>3 DEF Folds, Prior, StreamIInv, Memories, LastIsLast
  <2>2. clock - outcomes[n].at < debounceMs
    BY <1>1, <2>1 DEF Folds
  <2>3. n \in 1..(Len(outcomes) + 1 - 1) /\ outcomes'[n] = outcomes[n]
    BY <1>2 DEF Added
  <2> QED
    BY <1>2, <2>1, <2>2, <2>3 DEF Explained, AcceptedOf, Added
<1>5. inFlight \in Nat
  BY StreamAssumption DEF StreamIInv, StreamTypes
<1>6. Reasons' /\ Past'
  BY <1>1, <1>2, <1>4, <1>5, ReasonAdded DEF OUTCOME
<1>7. /\ lastByKey' \in [Kinds -> [at : -1..MaxClock, by : Events, occurrences : Nat]]
      /\ \A k \in Kinds : lastByKey'[k].at = lastByKey[k].at
  <2>1. /\ lastByKey \in [Kinds -> [at : -1..MaxClock, by : Events, occurrences : Nat]]
        /\ lastByKey' = [lastByKey EXCEPT ![KindOf[e]].occurrences = @ + 1]
    BY DEF Debounce, StreamIInv, StreamTypes
  <2> QED
    BY <1>3, <2>1
<1>8. LastIsLast' /\ KindsAreDebounced'
  BY <1>2, <1>7, LastStays DEF OUTCOME
<1>9. /\ seenEvents' \in Seq(Map!Entry(Events, Nat)) /\ EventsAreOutcomes'
      /\ Map!Ordered(seenEvents') /\ Map!Distinct(seenEvents')
  BY <1>1, <1>2, EventPut DEF EventsAreOutcomes
<1>10. /\ seenContent' \in Seq(Map!Entry(Bodies, Nat)) /\ ContentIsOutcomes'
       /\ Map!Ordered(seenContent') /\ Map!Distinct(seenContent')
  BY <1>1, <1>2, ContentSwept, OutcomesStay DEF ContentIsOutcomes, OUTCOME
<1>11. StreamTypes' /\ SweepIsExact'
  BY <1>1, <1>2, <1>7, <1>9, <1>10 DEF StreamIInv, StreamTypes, SweepIsExact, Added
<1> QED
  BY <1>6, <1>8, <1>9, <1>10, <1>11 DEF StreamIInv, Memories

(* Forgetting the oldest leaves the rest as they were.                      *)
LEMMA EvictKeeps ==
  ASSUME NEW K, NEW m \in Seq(Map!Entry(K, Nat)), Map!Ordered(m), Map!Distinct(m), Len(m) \in Nat \ {0},
         NEW p, p = Evicted(m)
  PROVE  /\ p \in Seq(Map!Entry(K, Nat)) /\ Map!Ordered(p) /\ Map!Distinct(p)
         /\ \A i \in DOMAIN p : \E j \in DOMAIN m : p[i] = m[j]
<1>1. CASE p = m
  BY <1>1
<1>2. CASE p = Tail(m)
  <2>1. m # <<>>
    BY EmptySeq
  <2>2. /\ p \in Seq(Map!Entry(K, Nat)) /\ Len(p) = Len(m) - 1 /\ DOMAIN m = 1..Len(m) /\ DOMAIN p = 1..Len(p)
        /\ \A i \in 1..Len(p) : p[i] = m[i + 1]
    BY <1>2, <2>1, HeadTailProperties, LenProperties
  <2>3. \A i \in DOMAIN p : i + 1 \in DOMAIN m /\ p[i] = m[i + 1]
    BY <2>2
  <2>4. Map!Ordered(p)
    BY <2>2, <2>3 DEF Map!Ordered
  <2>5. Map!Distinct(p)
    BY <2>2, <2>3 DEF Map!Distinct
  <2> QED
    BY <2>2, <2>3, <2>4, <2>5
<1> QED
  BY <1>1, <1>2 DEF Evicted

LEMMA ContentPut ==
  ASSUME StreamIInv, NEW e \in Events, Added(e, "accepted"), ~Seen(e),
         NEW p, p = Map!Put(Content1, BodyOf[e], clock + debounceMs)
  PROVE  /\ p \in Seq(Map!Entry(Bodies, Nat)) /\ Map!Ordered(p) /\ Map!Distinct(p)
         /\ \A i \in DOMAIN p : OfContent(p[i])'
<1>1. clock \in Nat /\ debounceMs \in Nat /\ clock + debounceMs \in Nat /\ BodyOf[e] \in Bodies
  BY StreamAssumption DEF StreamIInv, StreamTypes, Bodies
<1>2. /\ p \in Seq(Map!Entry(Bodies, Nat)) /\ Map!Ordered(p) /\ Map!Distinct(p)
      /\ \A i \in DOMAIN p : \/ p[i] = [key |-> BodyOf[e], exp |-> clock + debounceMs]
                            \/ \E j \in DOMAIN Content1 : p[i] = Content1[j]
  <2>1. ~Map!Has(Content1, BodyOf[e]) /\ \A i \in DOMAIN Content1 : Content1[i].exp <= clock + debounceMs
    BY <1>1, ContentSwept DEF Seen
  <2> QED
    BY <1>1, <2>1, ContentSwept, PutKeeps
<1>3. \A x : x.key = BodyOf[e] /\ x.exp = clock + debounceMs => OfContent(x)'
  <2> SUFFICES ASSUME NEW x, x.key = BodyOf[e], x.exp = clock + debounceMs PROVE OfContent(x)'
    OBVIOUS
  <2>1. /\ Len(outcomes) + 1 \in DOMAIN outcomes' /\ outcomes'[Len(outcomes) + 1].event = e
        /\ outcomes'[Len(outcomes) + 1].outcome = "accepted" /\ outcomes'[Len(outcomes) + 1].at = clock
    BY DEF Added
  <2> QED
    BY <2>1 DEF OfContent
<1>4. ASSUME NEW i \in DOMAIN p PROVE OfContent(p[i])'
  <2>1. CASE p[i] = [key |-> BodyOf[e], exp |-> clock + debounceMs]
    <3>1. p[i].key = BodyOf[e] /\ p[i].exp = clock + debounceMs
      BY <2>1
    <3> QED
      BY <1>3, <3>1
  <2>2. CASE \E j \in DOMAIN Content1 : p[i] = Content1[j]
    <3>1. OfContent(p[i])
      BY <2>2, ContentSwept
    <3> QED
      BY <3>1, OutcomesStay DEF OUTCOME
  <2> QED
    BY <1>2, <2>1, <2>2
<1> QED
  BY <1>2, <1>4

(* An event that is accepted is the last of its kind, and a window after    *)
(* the one before.                                                          *)
LEMMA AcceptedIsLast ==
  ASSUME StreamIInv, NEW e \in Events, Added(e, "accepted"), ~Folds(e),
         lastByKey' = [lastByKey EXCEPT ![KindOf[e]] = [at |-> clock, by |-> e, occurrences |-> 1]]
  PROVE  /\ lastByKey' \in [Kinds -> [at : -1..MaxClock, by : Events, occurrences : Nat]]
         /\ LastIsLast' /\ KindsAreDebounced'
<1>0. PICK newest : newest = Len(outcomes) + 1
  OBVIOUS
<1>1. /\ newest \in DOMAIN outcomes' /\ outcomes'[newest].event = e /\ outcomes'[newest].outcome = "accepted"
      /\ outcomes'[newest].at = clock /\ \A n \in DOMAIN outcomes' : n \in DOMAIN outcomes \/ n = newest
      /\ \A n \in DOMAIN outcomes : n < newest /\ n \in DOMAIN outcomes' /\ outcomes'[n] = outcomes[n]
  BY <1>0 DEF Added
<1>2. clock \in 0..MaxClock /\ MaxClock \in Nat /\ debounceMs \in Nat /\ KindOf[e] \in Kinds
  BY StreamAssumption DEF StreamIInv, StreamTypes, Kinds
<1>3. lastByKey \in [Kinds -> [at : -1..MaxClock, by : Events, occurrences : Nat]]
  BY DEF StreamIInv, StreamTypes
<1>4. [at |-> clock, by |-> e, occurrences |-> 1] \in [at : -1..MaxClock, by : Events, occurrences : Nat]
  BY <1>2
<1>5. /\ lastByKey'[KindOf[e]].at = clock
      /\ \A k \in Kinds : k # KindOf[e] => lastByKey'[k] = lastByKey[k]
  BY <1>2, <1>3
<1>6. \A n \in DOMAIN outcomes : \A k : AcceptedOf(k, n)' <=> AcceptedOf(k, n)
  BY <1>1 DEF AcceptedOf
<1>7. \A k : AcceptedOf(k, newest)' <=> k = KindOf[e]
  BY <1>1 DEF AcceptedOf
<1>8. LastIsLast'
  <2> SUFFICES ASSUME NEW k \in Kinds
               PROVE  /\ lastByKey'[k].at >= 0 => \E n \in DOMAIN outcomes' : AcceptedOf(k, n)' /\ outcomes'[n].at = lastByKey'[k].at
                      /\ \A n \in DOMAIN outcomes' : AcceptedOf(k, n)' => outcomes'[n].at <= lastByKey'[k].at
    BY DEF LastIsLast
  <2>1. CASE k = KindOf[e]
    BY <1>1, <1>2, <1>5, <1>7, <2>1, OutcomesTyped
  <2>2. CASE k # KindOf[e]
    BY <1>1, <1>5, <1>6, <1>7, <2>2 DEF StreamIInv, Memories, LastIsLast
  <2> QED
    BY <2>1, <2>2
<1>9. \A n \in DOMAIN outcomes : AcceptedOf(KindOf[e], n) => clock - outcomes[n].at >= debounceMs
  <2> SUFFICES ASSUME NEW n \in DOMAIN outcomes, AcceptedOf(KindOf[e], n)
               PROVE  clock - outcomes[n].at >= debounceMs
    OBVIOUS
  <2>1. outcomes[n].at <= Prior(e).at /\ outcomes[n].at \in Nat
    BY <1>2, OutcomesTyped DEF Prior, StreamIInv, Memories, LastIsLast
  <2>2. Prior(e).at \in Int
    BY <1>2, <1>3 DEF Prior
  <2> QED
    BY <1>2, <2>1, <2>2 DEF Folds
<1>10. KindsAreDebounced'
  <2> SUFFICES ASSUME NEW i \in DOMAIN outcomes', NEW j \in DOMAIN outcomes', i < j,
                      outcomes'[i].outcome = "accepted", outcomes'[j].outcome = "accepted",
                      KindOf[outcomes'[i].event] = KindOf[outcomes'[j].event]
               PROVE  outcomes'[j].at - outcomes'[i].at >= debounceMs
    BY DEF KindsAreDebounced
  <2>1. i \in DOMAIN outcomes
    BY <1>1, LenProperties DEF Added
  <2>2. CASE j \in DOMAIN outcomes
    BY <1>1, <2>1, <2>2 DEF StreamIInv, KindsAreDebounced
  <2>3. CASE j = newest
    BY <1>1, <1>9, <2>1, <2>3 DEF AcceptedOf
  <2> QED
    BY <1>1, <2>2, <2>3
<1> QED
  BY <1>3, <1>4, <1>8, <1>10

LEMMA AcceptKeeps == ASSUME StreamIInv, NEW e \in Events, Accept(e) PROVE StreamIInv'
<1>1. /\ UNCHANGED <<clock, shedRows>> /\ ~Seen(e) /\ ~Folds(e) /\ ~Full
      /\ seenEvents' = Evicted(Map!Put(Events1, e, Expiry(e)))
      /\ seenContent' = Map!Put(Content1, BodyOf[e], clock + debounceMs)
      /\ opened' = [opened EXCEPT ![e] = 1] /\ inFlight' = inFlight + 1
      /\ lastByKey' = [lastByKey EXCEPT ![KindOf[e]] = [at |-> clock, by |-> e, occurrences |-> 1]]
  BY DEF Accept, Propose
<1>2. Added(e, "accepted")
  BY OutcomeAdds DEF Accept, OUTCOME
<1>3. Explained(outcomes', Len(outcomes) + 1)
  BY <1>2 DEF Explained, Added
<1>4. inFlight \in Nat /\ inFlight' \in 0..maxInFlight
  BY <1>1, StreamAssumption DEF StreamIInv, StreamTypes, Full
<1>5. Reasons' /\ Past'
  BY <1>1, <1>2, <1>3, <1>4, ReasonAdded DEF OUTCOME
<1>6. /\ lastByKey' \in [Kinds -> [at : -1..MaxClock, by : Events, occurrences : Nat]]
      /\ LastIsLast' /\ KindsAreDebounced'
  BY <1>1, <1>2, AcceptedIsLast
<1>7. /\ seenEvents' \in Seq(Map!Entry(Events, Nat)) /\ Map!Ordered(seenEvents') /\ Map!Distinct(seenEvents')
      /\ EventsAreOutcomes'
  <2>0. PICK put : put = Map!Put(Events1, e, Expiry(e))
    OBVIOUS
  <2>1. /\ put \in Seq(Map!Entry(Events, Nat)) /\ Map!Ordered(put) /\ Map!Distinct(put) /\ Len(put) \in Nat \ {0}
        /\ \A i \in DOMAIN put : OfEvent(put[i])'
    BY <1>1, <1>2, <2>0, EventPut
  <2>2. seenEvents' = Evicted(put)
    BY <1>1, <2>0
  <2>3. seenEvents' \in Seq(Map!Entry(Events, Nat)) /\ Map!Ordered(seenEvents') /\ Map!Distinct(seenEvents')
    BY <2>1, <2>2, EvictKeeps
  <2>4. \A i \in DOMAIN seenEvents' : \E j \in DOMAIN put : seenEvents'[i] = put[j]
    BY <2>1, <2>2, EvictKeeps
  <2> QED
    BY <2>1, <2>3, <2>4 DEF EventsAreOutcomes
<1>8. /\ seenContent' \in Seq(Map!Entry(Bodies, Nat)) /\ Map!Ordered(seenContent') /\ Map!Distinct(seenContent')
      /\ ContentIsOutcomes'
  BY <1>1, <1>2, ContentPut DEF ContentIsOutcomes
<1>9. opened' \in [Events -> 0..1]
  BY <1>1 DEF StreamIInv, StreamTypes
<1>10. StreamTypes' /\ SweepIsExact'
  BY <1>1, <1>2, <1>4, <1>6, <1>7, <1>8, <1>9 DEF StreamIInv, StreamTypes, SweepIsExact, Added
<1> QED
  BY <1>5, <1>6, <1>7, <1>8, <1>10 DEF StreamIInv, Memories

LEMMA StreamSteps == StreamIInv /\ [StreamNext]_streamVars => StreamIInv'
<1> SUFFICES ASSUME StreamIInv, [StreamNext]_streamVars PROVE StreamIInv'
  OBVIOUS
<1>1. ASSUME UNCHANGED <<seenEvents, seenContent, lastByKey, inFlight, opened, outcomes, shedRows>>,
             clock' >= clock, clock' \in 0..MaxClock
      PROVE  StreamIInv'
  <2>1. Past'
    <3>1. clock \in Nat /\ clock' \in Nat
      BY <1>1, StreamAssumption DEF StreamIInv, StreamTypes
    <3>2. \A n \in DOMAIN outcomes : outcomes[n].at <= clock'
      BY <1>1, <3>1, OutcomesTyped
    <3> QED
      BY <1>1, <3>2 DEF Past
  <2>2. StreamTypes' /\ SweepIsExact' /\ Reasons' /\ KindsAreDebounced'
    BY <1>1 DEF StreamIInv, StreamTypes, SweepIsExact, Reasons, Explained, KindsAreDebounced
  <2>3. Memories'
    BY <1>1 DEF StreamIInv, Memories, EventsAreOutcomes, OfEvent, ContentIsOutcomes, OfContent, LastIsLast, AcceptedOf
  <2> QED
    BY <2>1, <2>2, <2>3 DEF StreamIInv
<1>2. clock \in 0..MaxClock /\ MaxClock \in Nat
  BY StreamAssumption DEF StreamIInv, StreamTypes
<1>3. CASE UNCHANGED streamVars
  BY <1>1, <1>2, <1>3 DEF streamVars
<1>4. CASE StreamTick
  BY <1>1, <1>2, <1>4 DEF StreamTick
<1>5. ASSUME NEW e \in Events, NEW c \in Callers, ingest(e, c) PROVE StreamIInv'
  BY <1>5, RejectKeeps, DuplicateKeeps, DebounceKeeps, ShedKeeps, AcceptKeeps DEF ingest
<1> QED
  BY <1>3, <1>4, <1>5 DEF StreamNext

LEMMA StreamInductive == StreamSpec => []StreamIInv
BY StreamStarts, StreamSteps, PTL DEF StreamSpec

(* The intake keeps to its types and its cap, for any events and windows.   *)
THEOREM StreamTypeCorrect == StreamSpec => []StreamTypeOK
<1>1. StreamIInv => StreamTypeOK
  <2> SUFFICES ASSUME StreamIInv PROVE StreamTypeOK
    OBVIOUS
  <2>1. opened \in [Events -> Nat]
    <3>1. opened \in [Events -> 0..1]
      BY DEF StreamIInv, StreamTypes
    <3> QED
      BY <3>1
  <2>2. /\ seenContent \in Seq(Map!Entry({BodyOf[e] : e \in Events}, Nat))
        /\ outcomes \in Seq([event : Events, outcome : OUTCOME, at : 0..MaxClock])
    BY DEF StreamIInv, StreamTypes, OUTCOMES, Bodies
  <2> QED
    BY <2>1, <2>2 DEF StreamIInv, StreamTypes, StreamTypeOK
<1> QED
  BY <1>1, StreamInductive, PTL

(* The sweeps are exact, an event opens one intent and a kind one in a      *)
(* window, and nothing is dropped without its reason, for any events,       *)
(* payloads, kinds, windows, caps and deliveries.                           *)
THEOREM StreamTheorem == StreamSpec => []StreamPromise
<1>1. StreamIInv => StreamPromise
  BY ReasonsMean DEF StreamIInv, StreamTypes, StreamPromise, OneIntentPerEvent
<1> QED
  BY <1>1, StreamInductive, PTL

-----------------------------------------------------------------------------
(* The feed client.                                                        *)

(* The link: we closed it just when nobody wants it; then there is nothing, *)
(* else a socket in hand, which is the one that is alive, or a timer.       *)
LinkInv ==
  /\ enabled \in BOOLEAN /\ mounted \in BOOLEAN /\ closedByUs \in BOOLEAN
  /\ connected \in BOOLEAN /\ retry \in BOOLEAN
  /\ socketsOpened \in Nat /\ socket \in Nat \cup {Nothing}
  /\ alive = IF socket = Nothing THEN {} ELSE {socket}
  /\ closedByUs <=> ~(enabled /\ mounted)
  /\ closedByUs => socket = Nothing /\ ~retry
  /\ ~closedByUs => socket # Nothing \/ retry
  /\ socket = Nothing => ~connected

(* The description, and the request for one, are of the clip.               *)
ClientInv ==
  /\ clip \in Nat /\ polled \in Nat \cup {Nothing} /\ text \in Nat \cup {Nothing}
  /\ polled # Nothing => polled = clip
  /\ text # Nothing => text = clip

(* The buffer: ascending, of what was received, and either all of it or a   *)
(* buffer full that is newer than the rest.                                 *)
OverlayInv ==
  /\ displayed \in 0..MaxDetections /\ detections \subseteq 1..MaxDetections /\ detBySeq \in Seq(detections)
  /\ \A i, j \in 1..Len(detBySeq) : i < j => detBySeq[i] < detBySeq[j]
  /\ Len(detBySeq) <= BUFFER
  /\ \A n \in detections :
       \/ \E i \in 1..Len(detBySeq) : detBySeq[i] = n
       \/ Len(detBySeq) = BUFFER /\ \A i \in 1..Len(detBySeq) : n < detBySeq[i]

LEMMA FeedStarts == FeedInit => LinkInv /\ ClientInv /\ OverlayInv
<1> SUFFICES ASSUME FeedInit PROVE LinkInv /\ ClientInv /\ OverlayInv
  OBVIOUS
<1>1. LinkInv
  BY DEF FeedInit, LinkInv
<1>2. ClientInv
  BY DEF FeedInit, ClientInv
<1>3. OverlayInv
  BY FeedAssumption, EmptySeq DEF FeedInit, OverlayInv
<1> QED
  BY <1>1, <1>2, <1>3

(* The link takes part in six actions; the others leave it alone.           *)
LEMMA LinkSteps == LinkInv /\ [FeedNext]_feedVars => LinkInv'
<1> SUFFICES ASSUME LinkInv, [FeedNext]_feedVars PROVE LinkInv'
  OBVIOUS
<1>0. CASE UNCHANGED link
  BY <1>0 DEF link, LinkInv
<1>1. CASE Enable
  <2>1. closedByUs /\ socket = Nothing /\ ~retry /\ ~connected /\ alive = {}
    BY <1>1 DEF Enable, LinkInv
  <2>2. socketsOpened + 1 \in Nat /\ socketsOpened + 1 # Nothing
    BY FeedAssumption DEF LinkInv
  <2> QED
    BY <1>1, <2>1, <2>2 DEF Enable, openSocket, HasNoSocket, LinkInv
<1>2. CASE Disable
  BY <1>2 DEF Disable, disconnect, LinkInv
<1>3. CASE Opened
  BY <1>3 DEF Opened, LinkInv
<1>4. CASE Closed
  BY <1>4 DEF Closed, Retries, LinkInv
<1>5. CASE TimerFires
  <2>1. enabled /\ mounted /\ ~closedByUs
    BY <1>5 DEF TimerFires, LinkInv
  <2>2. socketsOpened + 1 \in Nat /\ socketsOpened + 1 # Nothing
    BY FeedAssumption DEF LinkInv
  <2> QED
    BY <1>5, <2>1, <2>2 DEF TimerFires, openSocket, HasNoSocket, LinkInv
<1>6. CASE Unmount
  BY <1>6 DEF Unmount, disconnect, LinkInv
<1>7. CASE Detection \/ Paint \/ PollScene \/ PollAnswered \/ ResetScene \/ UNCHANGED feedVars
  BY <1>0, <1>7 DEF Detection, Paint, PollScene, PollAnswered, ResetScene, feedVars
<1> QED
  BY <1>1, <1>2, <1>3, <1>4, <1>5, <1>6, <1>7 DEF FeedNext

LEMMA ClientSteps == ClientInv /\ [FeedNext]_feedVars => ClientInv'
<1> SUFFICES ASSUME ClientInv, [FeedNext]_feedVars PROVE ClientInv'
  OBVIOUS
<1>0. CASE UNCHANGED scene
  BY <1>0 DEF scene, ClientInv
<1>1. CASE Unmount
  BY <1>1 DEF Unmount, ClientInv
<1>2. CASE PollScene
  BY <1>2 DEF PollScene, ClientInv
<1>3. CASE PollAnswered
  BY <1>3 DEF PollAnswered, ClientInv
<1>4. CASE ResetScene
  BY <1>4 DEF ResetScene, Aborted, ClientInv
<1>5. CASE Enable \/ Disable \/ Opened \/ Closed \/ TimerFires \/ Detection \/ Paint \/ UNCHANGED feedVars
  BY <1>0, <1>5 DEF Enable, Disable, Opened, Closed, TimerFires, Detection, Paint, feedVars
<1> QED
  BY <1>1, <1>2, <1>3, <1>4, <1>5 DEF FeedNext

LEMMA BufferTyped ==
  ASSUME OverlayInv
  PROVE  /\ MaxDetections \in Nat /\ displayed \in Nat /\ detections \subseteq 1..MaxDetections
         /\ Len(detBySeq) \in Nat /\ DOMAIN detBySeq = 1..Len(detBySeq)
         /\ \A i \in 1..Len(detBySeq) : detBySeq[i] \in detections
         /\ \A i \in 1..Len(detBySeq) : detBySeq[i] \in Nat
<1>1. MaxDetections \in Nat /\ displayed \in Nat /\ detections \subseteq 1..MaxDetections /\ detBySeq \in Seq(detections)
  BY FeedAssumption DEF OverlayInv
<1>2. Len(detBySeq) \in Nat /\ DOMAIN detBySeq = 1..Len(detBySeq)
  BY <1>1, LenProperties
<1>3. \A i \in 1..Len(detBySeq) : detBySeq[i] \in detections
  <2>1. detBySeq \in [1..Len(detBySeq) -> detections]
    BY <1>1, LenProperties
  <2> QED
    BY <2>1
<1>4. \A i \in 1..Len(detBySeq) : detBySeq[i] \in Nat
  <2>1. detections \subseteq Nat
    BY <1>1
  <2> QED
    BY <1>3, <2>1
<1> QED
  BY <1>1, <1>2, <1>3, <1>4

(* A detection is newer than all before: the buffer stays ascending, and    *)
(* what it drops is older than the buffer full that is left.                *)
LEMMA DetectionKeeps == ASSUME OverlayInv, Detection PROVE OverlayInv'
<1>1. PICK n \in 1..MaxDetections :
        /\ \A m \in detections : m < n
        /\ detections' = detections \cup {n} /\ detBySeq' = Evict(Append(detBySeq, n))
  BY DEF Detection
<1>2. displayed' = displayed
  BY DEF Detection
<1>3. /\ detBySeq \in Seq(detections') /\ detections' \subseteq 1..MaxDetections /\ n \in detections'
      /\ Len(detBySeq) \in Nat /\ \A i \in 1..Len(detBySeq) : detBySeq[i] \in detections
  <2>1. detBySeq \in Seq(detections) /\ detections \subseteq 1..MaxDetections
    BY DEF OverlayInv
  <2>2. detBySeq \in Seq(detections')
    BY <1>1, <2>1, SeqMonotonic
  <2> QED
    BY <1>1, <2>1, <2>2, LenProperties, ElementOfSeq
<1>4. PICK q : q = Append(detBySeq, n)
  OBVIOUS
<1>5. /\ q \in Seq(detections') /\ Len(q) = Len(detBySeq) + 1 /\ q[Len(q)] = n
      /\ \A i \in 1..Len(detBySeq) : q[i] = detBySeq[i]
  BY <1>3, <1>4, AppendProperties
<1>6. \A i, j \in 1..Len(q) : i < j => q[i] < q[j]
  <2> SUFFICES ASSUME NEW i \in 1..Len(q), NEW j \in 1..Len(q), i < j PROVE q[i] < q[j]
    OBVIOUS
  <2>1. i \in 1..Len(detBySeq) /\ q[i] = detBySeq[i] /\ q[i] < n
    <3>1. i \in 1..Len(detBySeq)
      BY <1>3, <1>5
    <3> QED
      BY <1>1, <1>3, <1>5, <3>1
  <2>2. CASE j = Len(q)
    BY <1>5, <2>1, <2>2
  <2>3. CASE j # Len(q)
    <3>1. j \in 1..Len(detBySeq) /\ q[j] = detBySeq[j]
      BY <1>3, <1>5, <2>3
    <3> QED
      BY <2>1, <3>1 DEF OverlayInv
  <2> QED
    BY <2>2, <2>3
<1>7. BUFFER \in Nat \ {0} /\ MaxDetections \in Nat
  BY FeedAssumption
<1>8. CASE Len(q) <= BUFFER
  <2>1. detBySeq' = q
    BY <1>1, <1>3, <1>4, <1>5, <1>7, <1>8 DEF Evict
  <2>2. ASSUME NEW m \in detections' PROVE \E i \in 1..Len(q) : q[i] = m
    <3>1. CASE m = n
      BY <1>3, <1>5, <3>1
    <3>2. CASE m \in detections
      <4>1. \E i \in 1..Len(detBySeq) : detBySeq[i] = m
        BY <1>3, <1>5, <1>7, <1>8, <3>2 DEF OverlayInv
      <4> QED
        BY <1>3, <1>5, <4>1
    <3> QED
      BY <1>1, <3>1, <3>2
  <2> QED
    BY <1>2, <1>3, <1>5, <1>6, <1>8, <2>1, <2>2 DEF OverlayInv
<1>9. CASE Len(q) > BUFFER
  <2>1. detBySeq' = Tail(q) /\ Len(detBySeq) = BUFFER /\ q # <<>>
    BY <1>1, <1>3, <1>4, <1>5, <1>7, <1>9, EmptySeq DEF Evict, OverlayInv
  <2>2. /\ Tail(q) \in Seq(detections') /\ Len(Tail(q)) = BUFFER
        /\ \A i \in 1..BUFFER : Tail(q)[i] = q[i + 1]
    BY <1>3, <1>5, <2>1, HeadTailProperties
  <2>3. \A i, j \in 1..BUFFER : i < j => Tail(q)[i] < Tail(q)[j]
    BY <1>3, <1>5, <1>6, <1>7, <2>1, <2>2
  <2>4. ASSUME NEW m \in detections'
        PROVE  \/ \E i \in 1..BUFFER : Tail(q)[i] = m
               \/ \A i \in 1..BUFFER : m < Tail(q)[i]
    <3>1. CASE m = n
      <4>1. BUFFER \in 1..BUFFER /\ Tail(q)[BUFFER] = n
        BY <1>3, <1>5, <1>7, <2>1, <2>2
      <4> QED
        BY <3>1, <4>1
    <3>2. CASE \E i \in 1..Len(detBySeq) : i # 1 /\ detBySeq[i] = m
      <4>1. PICK i \in 1..Len(detBySeq) : i # 1 /\ detBySeq[i] = m
        BY <3>2
      <4>2. i - 1 \in 1..BUFFER /\ Tail(q)[i - 1] = m
        BY <1>3, <1>5, <1>7, <2>1, <2>2, <4>1
      <4> QED
        BY <4>2
    <3>3. CASE detBySeq[1] = m
      <4>1. \A i \in 1..BUFFER : Tail(q)[i] = q[i + 1] /\ q[1] < q[i + 1]
        BY <1>3, <1>5, <1>6, <1>7, <2>1, <2>2
      <4>2. q[1] = m
        BY <1>5, <1>7, <2>1, <3>3
      <4> QED
        BY <4>1, <4>2
    <3>4. CASE \A i \in 1..Len(detBySeq) : m < detBySeq[i]
      <4>1. \A i \in 1..BUFFER : Tail(q)[i] = q[i + 1] /\ q[1] < q[i + 1] /\ q[1] \in Nat /\ q[i + 1] \in Nat /\ m \in Nat
        <5>1. \A i \in 1..Len(q) : q[i] \in Nat
          <6>1. \A i \in 1..Len(q) : q[i] \in detections'
            BY <1>5, ElementOfSeq
          <6>2. detections' \subseteq Nat
            BY <1>3, <1>7
          <6> QED
            BY <6>1, <6>2
        <5>2. \A i \in 1..BUFFER : i + 1 \in 1..Len(q) /\ 1 \in 1..Len(q) /\ 1 < i + 1
          BY <1>3, <1>5, <1>7, <2>1
        <5>3. m \in Nat
          BY <1>3, <1>7
        <5> QED
          BY <1>6, <2>2, <5>1, <5>2, <5>3
      <4>2. m < q[1]
        <5>1. 1 \in 1..Len(detBySeq)
          BY <1>7, <2>1
        <5>2. q[1] = detBySeq[1]
          BY <1>5, <5>1
        <5>3. m < detBySeq[1]
          BY <3>4, <5>1
        <5> QED
          BY <5>2, <5>3
      <4>3. ASSUME NEW i \in 1..BUFFER PROVE m < Tail(q)[i]
        <5>1. /\ Tail(q)[i] = q[i + 1] /\ q[1] < q[i + 1]
              /\ q[1] \in Nat /\ q[i + 1] \in Nat /\ m \in Nat
          BY <4>1
        <5>2. PICK a \in Nat, b \in Nat : a = q[1] /\ b = q[i + 1]
          BY <5>1
        <5>3. m < a /\ a < b /\ m \in Nat
          BY <4>2, <5>1, <5>2
        <5>4. m < b
          BY <5>3
        <5> QED
          BY <5>1, <5>2, <5>4
      <4> QED
        BY <4>3
    <3> QED
      BY <1>1, <1>3, <3>1, <3>2, <3>3, <3>4 DEF OverlayInv
  <2> QED
    BY <1>2, <1>3, <1>7, <2>1, <2>2, <2>3, <2>4 DEF OverlayInv
<1> QED
  BY <1>3, <1>5, <1>7, <1>8, <1>9

LEMMA OverlaySteps == OverlayInv /\ [FeedNext]_feedVars => OverlayInv'
<1> SUFFICES ASSUME OverlayInv, [FeedNext]_feedVars PROVE OverlayInv'
  OBVIOUS
<1>0. CASE UNCHANGED overlay
  BY <1>0 DEF overlay, OverlayInv
<1>1. CASE Detection
  BY <1>1, DetectionKeeps
<1>2. CASE Paint
  <2>1. UNCHANGED <<detBySeq, detections>> /\ displayed' \in 0..MaxDetections
    BY <1>2, FeedAssumption DEF Paint, OverlayInv
  <2> QED
    BY <2>1 DEF OverlayInv
<1>3. CASE \/ Enable \/ Disable \/ Opened \/ Closed \/ TimerFires \/ Unmount
           \/ PollScene \/ PollAnswered \/ ResetScene \/ UNCHANGED feedVars
  BY <1>0, <1>3 DEF Enable, Disable, Opened, Closed, TimerFires, Unmount, PollScene, PollAnswered, ResetScene, feedVars
<1> QED
  BY <1>1, <1>2, <1>3 DEF FeedNext

(* As many detections are newer than one the buffer dropped as the buffer   *)
(* holds.                                                                   *)
LEMMA NewerThanDropped ==
  ASSUME OverlayInv, NEW n \in detections, Len(detBySeq) = BUFFER,
         \A i \in 1..Len(detBySeq) : n < detBySeq[i]
  PROVE  Cardinality({m \in detections : m > n}) >= BUFFER
<1> DEFINE newer == {m \in detections : m > n}
           kept == {detBySeq[i] : i \in 1..BUFFER}
<1>1. BUFFER \in Nat /\ MaxDetections \in Nat /\ detections \subseteq 1..MaxDetections
  BY FeedAssumption DEF OverlayInv
<1>2. /\ n \in Nat /\ \A i \in 1..BUFFER : detBySeq[i] \in detections
      /\ \A i \in 1..BUFFER : detBySeq[i] \in Nat
      /\ \A i \in 1..BUFFER : n < detBySeq[i]
  BY <1>1, BufferTyped
<1>3. kept \subseteq newer
  <2> SUFFICES ASSUME NEW i \in 1..BUFFER PROVE detBySeq[i] \in newer
    BY DEF kept
  <2>1. detBySeq[i] \in detections /\ detBySeq[i] > n
    BY <1>2
  <2> QED
    BY <2>1 DEF newer
<1>4. IsFiniteSet(newer)
  <2>1. newer \subseteq 1..MaxDetections
    BY <1>1
  <2>2. IsFiniteSet(1..MaxDetections)
    BY <1>1, FS_Interval
  <2> QED
    BY <2>1, <2>2, FS_Subset
<1>5. [i \in 1..BUFFER |-> detBySeq[i]] \in Bijection(1..BUFFER, kept)
  <2> SUFFICES \A i, j \in 1..BUFFER : detBySeq[i] = detBySeq[j] => i = j
    BY DEF Bijection, Injection, Surjection, IsInjective
  <2> SUFFICES ASSUME NEW i \in 1..BUFFER, NEW j \in 1..BUFFER, i # j PROVE detBySeq[i] # detBySeq[j]
    OBVIOUS
  <2>1. i < j \/ j < i
    BY <1>1
  <2>2. detBySeq[i] < detBySeq[j] \/ detBySeq[j] < detBySeq[i]
    BY <2>1 DEF OverlayInv
  <2> QED
    BY <1>2, <2>2
<1>6. Cardinality(kept) = BUFFER
  BY <1>1, <1>5, FS_CountingElements DEF ExistsBijection
<1> HIDE DEF newer, kept
<1>7. Cardinality(kept) <= Cardinality(newer)
  BY <1>3, <1>4, FS_Subset
<1> QED
  BY <1>6, <1>7 DEF newer

(* One that the buffer holds and that was painted is what is shown, or a    *)
(* newer one.                                                               *)
LEMMA ShownIsNewest ==
  ASSUME OverlayInv, NEW n \in Range(detBySeq), n <= displayed
  PROVE  displayedBoxes >= n /\ displayedBoxes \in Nat
<1> DEFINE at == {m \in Range(detBySeq) : m <= displayed}
<1>1. displayed \in Nat /\ Range(detBySeq) \subseteq Nat
  BY BufferTyped DEF Range
<1>2. at \subseteq Nat /\ n \in at
  BY <1>1
<1>3. PICK x \in at : \A y \in at : y <= x
  <2> DEFINE below == {displayed - y : y \in at}
  <2>1. below \subseteq Nat /\ below # {}
    BY <1>1, <1>2
  <2>2. PICK b \in below : \A d \in below : b <= d
    BY <2>1, LeastOfSome
  <2>3. PICK x \in at : b = displayed - x
    BY <2>2
  <2>4. \A y \in at : displayed - x <= displayed - y
    BY <2>2, <2>3
  <2> QED
    BY <1>1, <1>2, <2>4
<1>4. Max(at) \in at /\ \A y \in at : Max(at) >= y
  BY <1>2, <1>3 DEF Max
<1> QED
  BY <1>2, <1>4 DEF displayedBoxes

LEMMA OverlayGives == OverlayInv => BoxesAreTheClosest
<1> SUFFICES ASSUME OverlayInv, NEW n \in detections, displayedBoxes < n, n <= displayed
             PROVE  Cardinality({m \in detections : m > n}) >= BUFFER
  BY DEF BoxesAreTheClosest
<1>1. ASSUME NEW i \in 1..Len(detBySeq), detBySeq[i] = n PROVE FALSE
  <2>1. n \in Range(detBySeq) /\ n \in Nat
    BY <1>1, BufferTyped DEF Range
  <2>2. displayedBoxes >= n /\ displayedBoxes \in Nat
    BY <2>1, ShownIsNewest
  <2> QED
    BY <2>1, <2>2
<1> QED
  BY <1>1, NewerThanDropped DEF OverlayInv

LEMMA LinkGives == LinkInv => OneSocketOrTimer
<1> SUFFICES ASSUME LinkInv PROVE OneSocketOrTimer
  OBVIOUS
<1>1. alive = {} \/ alive = {socket}
  BY DEF LinkInv
<1>2. Cardinality(alive) <= 1
  <2>1. Cardinality({}) = 0 /\ Cardinality({socket}) = 1
    BY FS_EmptySet, FS_Singleton
  <2> QED
    BY <1>1, <2>1
<1> QED
  BY <1>2 DEF LinkInv, OneSocketOrTimer

(* A feed has one socket or a timer while it is wanted and neither after,   *)
(* its boxes are the closest the buffer can have, and its description is    *)
(* of the clip, for any buffer, sockets, detections and clip changes.       *)
THEOREM FeedTheorem == FeedSpec => []FeedPromise
<1>1. ClientInv => TextIsOfTheClip
  BY DEF ClientInv, TextIsOfTheClip
<1>2. LinkInv /\ ClientInv /\ OverlayInv => FeedPromise
  BY <1>1, LinkGives, OverlayGives DEF FeedPromise
<1> QED
  BY <1>2, FeedStarts, LinkSteps, ClientSteps, OverlaySteps, PTL DEF FeedSpec

-----------------------------------------------------------------------------
(* The gateway client.                                                     *)

(* A request nobody answered can still be answered while the socket is      *)
(* there, and is gone from the wire once it is not.                         *)
GatewayInv ==
  /\ ws \in {"none", "dialing", "open", "closed"} /\ opening \in PROMISE /\ challenge \in PROMISE
  /\ outcome \in [Calls -> PROMISE] /\ pending \subseteq Calls /\ wire \subseteq Calls /\ timeouts \subseteq Calls
  /\ \A r \in wire : outcome[r] = "waiting" => r \in pending
  /\ \A r \in pending : outcome[r] = "waiting" \/ outcome[r] = "rejected"

LEMMA GatewayStarts == GatewayInit => GatewayInv
BY DEF GatewayInit, GatewayInv, PROMISE

LEMMA GatewaySteps == GatewayInv /\ [GatewayNext]_gatewayVars => GatewayInv'
<1> SUFFICES ASSUME GatewayInv, [GatewayNext]_gatewayVars PROVE GatewayInv'
  OBVIOUS
<1>1. CASE OpenSocket \/ SocketOpens \/ OpenTimeout \/ Challenged \/ UNCHANGED gatewayVars
  BY <1>1 DEF OpenSocket, SocketOpens, OpenTimeout, Challenged, gatewayVars, SettleP, GatewayInv, PROMISE
<1>2. CASE SocketCloses
  BY <1>2 DEF SocketCloses, failAll, SettleAll, SettleP, GatewayInv, PROMISE
<1>3. ASSUME NEW r \in Calls, request(r) PROVE GatewayInv'
  BY <1>3 DEF request, GatewayInv, PROMISE
<1>4. ASSUME NEW r \in Calls, Response(r) PROVE GatewayInv'
  <2>1. CASE r \in pending
    BY <1>4, <2>1 DEF Response, Left, SettleAll, SettleP, GatewayInv, PROMISE
  <2>2. CASE r \notin pending
    BY <1>4, <2>2 DEF Response, GatewayInv
  <2> QED
    BY <2>1, <2>2
<1>5. ASSUME NEW r \in Calls, RequestTimeout(r) PROVE GatewayInv'
  BY <1>5 DEF RequestTimeout, GivesUp, GatewayInv, PROMISE
<1> QED
  BY <1>1, <1>2, <1>3, <1>4, <1>5 DEF GatewayNext

LEMMA GatewayInductive == GatewaySpec => []GatewayInv
BY GatewayStarts, GatewaySteps, PTL DEF GatewaySpec

(* A request nobody answered can still be answered while the socket is      *)
(* there, for any requests and any number of answers.                       *)
THEOREM GatewayTypeCorrect == GatewaySpec => []GatewayTypeOK
<1>1. GatewayInv => GatewayTypeOK
  BY DEF GatewayInv, GatewayTypeOK
<1> QED
  BY <1>1, GatewayInductive, PTL

(* What a caller was told does not change, for any requests, and whatever   *)
(* answers come twice, late or never.                                       *)
THEOREM AnswersTheorem == GatewaySpec => AnswersAreFinal
<1>1. ASSUME GatewayInv, [GatewayNext]_gatewayVars, NEW r \in Calls, outcome[r] \in {"resolved", "rejected"}
      PROVE  outcome'[r] = outcome[r]
  <2>1. CASE OpenSocket \/ SocketOpens \/ OpenTimeout \/ Challenged \/ UNCHANGED gatewayVars
    BY <2>1 DEF OpenSocket, SocketOpens, OpenTimeout, Challenged, gatewayVars
  <2>2. CASE SocketCloses
    BY <1>1, <2>2 DEF SocketCloses, failAll, SettleAll, SettleP, GatewayInv
  <2>3. ASSUME NEW c \in Calls, request(c) PROVE outcome'[r] = outcome[r]
    BY <1>1, <2>3 DEF request, GatewayInv
  <2>4. ASSUME NEW c \in Calls, Response(c) PROVE outcome'[r] = outcome[r]
    BY <1>1, <2>4 DEF Response, SettleAll, SettleP, GatewayInv
  <2>5. ASSUME NEW c \in Calls, RequestTimeout(c) PROVE outcome'[r] = outcome[r]
    BY <1>1, <2>5 DEF RequestTimeout, GivesUp, GatewayInv
  <2> QED
    BY <1>1, <2>1, <2>2, <2>3, <2>4, <2>5 DEF GatewayNext
<1>2. GatewayInv /\ [GatewayNext]_gatewayVars
        => [\A r \in Calls : outcome[r] \in {"resolved", "rejected"} => outcome'[r] = outcome[r]]_gatewayVars
  BY <1>1
<1> QED
  BY <1>2, GatewayInductive, PTL DEF GatewaySpec, AnswersAreFinal

-----------------------------------------------------------------------------
(* The dialer.                                                             *)

(* Each feed of a dialer that runs has a socket it dials or holds, or one   *)
(* timer; of one that does not, neither.  No close of ours is to come       *)
(* before the dialer is stopped.                                            *)
Dials(f) == sockets[f].dialing = 1 /\ sockets[f].open = 0 /\ timers[f] = {}
Holds(f) == sockets[f].dialing = 0 /\ sockets[f].open = 1 /\ timers[f] = {}
Waits(f) == sockets[f].dialing = 0 /\ sockets[f].open = 0 /\ \E d \in reconnectMs..maxReconnectMs : timers[f] = {d}
Rests(f) == sockets[f].dialing = 0 /\ sockets[f].open = 0 /\ timers[f] = {}

DialerTypes ==
  /\ running \in BOOLEAN /\ started \in BOOLEAN
  /\ sockets \in [Feeds -> [dialing : Nat, open : Nat, closing : Nat]]
  /\ backoff \in [Feeds -> reconnectMs..maxReconnectMs]
  /\ timers \in [Feeds -> SUBSET (reconnectMs..maxReconnectMs)] /\ closes \in [Feeds -> 0..MaxCloses]

DialerInv ==
  /\ DialerTypes
  /\ running => started
  /\ running \/ ~started => \A f \in Feeds : sockets[f].closing = 0
  /\ \A f \in Feeds : IF running THEN Dials(f) \/ Holds(f) \/ Waits(f) ELSE Rests(f)

LEMMA DialerStarts == DialerInit => DialerInv
<1> SUFFICES ASSUME DialerInit PROVE DialerInv
  OBVIOUS
<1>1. None \in [dialing : Nat, open : Nat, closing : Nat]
  BY DEF None
<1>2. MaxCloses \in Nat /\ reconnectMs \in reconnectMs..maxReconnectMs
  BY DialerAssumption
<1>3. DialerTypes
  <2>1. timers \in [Feeds -> SUBSET (reconnectMs..maxReconnectMs)]
    BY DEF DialerInit
  <2>2. /\ backoff \in [Feeds -> reconnectMs..maxReconnectMs]
        /\ sockets \in [Feeds -> [dialing : Nat, open : Nat, closing : Nat]]
    BY <1>1, <1>2 DEF DialerInit
  <2>3. closes \in [Feeds -> 0..MaxCloses]
    <3>1. 0 \in 0..MaxCloses
      BY <1>2
    <3> QED
      BY <3>1 DEF DialerInit
  <2>4. running \in BOOLEAN /\ started \in BOOLEAN
    BY DEF DialerInit
  <2> QED
    BY <2>1, <2>2, <2>3, <2>4 DEF DialerTypes
<1>4. ASSUME NEW f \in Feeds PROVE Rests(f) /\ sockets[f].closing = 0
  <2>1. sockets[f] = None /\ timers[f] = {}
    BY DEF DialerInit
  <2> QED
    BY <2>1 DEF Rests, None
<1>5. running = FALSE /\ started = FALSE
  BY DEF DialerInit
<1> QED
  BY <1>3, <1>4, <1>5 DEF DialerInv

(* The doubled delay is within the limits.                                  *)
LEMMA DelayInLimits ==
  ASSUME NEW b \in reconnectMs..maxReconnectMs
  PROVE  Doubled(b) \in reconnectMs..maxReconnectMs
BY DialerAssumption DEF Doubled

(* What becomes of the others when one feed's sockets and timers change.    *)
LEMMA OthersStay ==
  ASSUME DialerInv, running, running' = running, started' = started, DialerTypes', NEW f \in Feeds,
         \A g \in Feeds : g # f => sockets'[g] = sockets[g] /\ timers'[g] = timers[g],
         sockets'[f].closing = 0, (Dials(f) \/ Holds(f) \/ Waits(f))'
  PROVE  DialerInv'
<1>1. ASSUME NEW g \in Feeds PROVE (Dials(g) \/ Holds(g) \/ Waits(g))' /\ sockets'[g].closing = 0
  <2>1. CASE g = f
    BY <2>1
  <2>2. CASE g # f
    <3>1. (Dials(g) \/ Holds(g) \/ Waits(g)) /\ sockets[g].closing = 0
      BY DEF DialerInv
    <3>2. sockets'[g] = sockets[g] /\ timers'[g] = timers[g]
      BY <2>2
    <3> QED
      BY <3>1, <3>2 DEF Dials, Holds, Waits
  <2> QED
    BY <2>1, <2>2
<1>2. running' /\ started'
  BY DEF DialerInv
<1> QED
  BY <1>1, <1>2 DEF DialerInv

LEMMA DialerSteps == DialerInv /\ [DialerNext]_dialerVars => DialerInv'
<1> SUFFICES ASSUME DialerInv, [DialerNext]_dialerVars PROVE DialerInv'
  OBVIOUS
<1>0. /\ reconnectMs \in Nat /\ maxReconnectMs \in Nat /\ MaxCloses \in Nat
      /\ sockets \in [Feeds -> [dialing : Nat, open : Nat, closing : Nat]]
      /\ timers \in [Feeds -> SUBSET (reconnectMs..maxReconnectMs)]
  BY DialerAssumption DEF DialerInv, DialerTypes
<1>1. CASE UNCHANGED dialerVars
  <2>1. UNCHANGED <<running, sockets, timers, backoff, started, closes>>
    BY <1>1 DEF dialerVars
  <2> QED
    BY <2>1 DEF DialerInv, DialerTypes, Dials, Holds, Waits, Rests
<1>2. CASE start
  <2>1. ASSUME NEW f \in Feeds PROVE Rests(f) /\ sockets[f].closing = 0
    BY <1>2 DEF start, DialerInv
  <2>2. \A f \in Feeds : sockets'[f] = [sockets[f] EXCEPT !.dialing = @ + 1]
    BY <1>2 DEF start, connect
  <2>3. ASSUME NEW f \in Feeds PROVE Dials(f)' /\ sockets'[f].closing = 0
    BY <1>0, <1>2, <2>1, <2>2 DEF start, Rests, Dials
  <2>4. sockets' \in [Feeds -> [dialing : Nat, open : Nat, closing : Nat]]
    BY <1>0, <1>2 DEF start, connect
  <2>5. DialerTypes'
    BY <1>2, <2>4 DEF start, DialerInv, DialerTypes
  <2>6. running' = TRUE /\ started' = TRUE
    BY <1>2 DEF start
  <2> QED
    BY <2>3, <2>5, <2>6 DEF DialerInv
<1>3. CASE stop
  <2>1. sockets' \in [Feeds -> [dialing : Nat, open : Nat, closing : Nat]]
    BY <1>0, <1>3 DEF stop
  <2>2. timers' \in [Feeds -> SUBSET (reconnectMs..maxReconnectMs)]
    BY <1>3 DEF stop
  <2>3. running' = FALSE /\ started' = started /\ started
    BY <1>3 DEF stop, DialerInv
  <2>4. DialerTypes'
    BY <1>3, <2>1, <2>2, <2>3 DEF stop, DialerInv, DialerTypes
  <2>5. ASSUME NEW f \in Feeds PROVE Rests(f)'
    BY <1>3 DEF stop, Rests
  <2> QED
    BY <2>3, <2>4, <2>5 DEF DialerInv
<1>4. ASSUME NEW f \in Feeds, Opens(f) PROVE DialerInv'
  <2>1. Dials(f) /\ running /\ sockets[f].closing = 0
    BY <1>4 DEF Opens, DialerInv, Dials, Holds, Waits, Rests
  <2>2. /\ sockets' \in [Feeds -> [dialing : Nat, open : Nat, closing : Nat]]
        /\ sockets'[f].dialing = 0 /\ sockets'[f].open = 1 /\ sockets'[f].closing = 0
    BY <1>0, <1>4, <2>1 DEF Opens, Dials
  <2>3. \A g \in Feeds : g # f => sockets'[g] = sockets[g]
    BY <1>0, <1>4 DEF Opens
  <2>4. timers' = timers /\ running' = running /\ started' = started
    BY <1>4 DEF Opens
  <2>5. backoff' \in [Feeds -> reconnectMs..maxReconnectMs] /\ closes' = closes
    BY <1>4, DialerAssumption DEF Opens, DialerInv, DialerTypes
  <2>6. DialerTypes'
    BY <2>2, <2>4, <2>5 DEF DialerInv, DialerTypes
  <2>7. Holds(f)'
    BY <2>1, <2>2, <2>4 DEF Dials, Holds
  <2> QED
    BY <2>1, <2>2, <2>3, <2>4, <2>6, <2>7, OthersStay
<1>5. ASSUME NEW f \in Feeds, Fires(f) PROVE DialerInv'
  <2>1. Waits(f) /\ running /\ sockets[f].closing = 0
    BY <1>5 DEF Fires, Due, DialerInv, Dials, Holds, Waits, Rests
  <2>2. sockets' = [sockets EXCEPT ![f] = connect(f)] /\ timers' = [timers EXCEPT ![f] = {}]
    BY <1>5, <2>1 DEF Fires, Due, Waits
  <2>3. /\ sockets' \in [Feeds -> [dialing : Nat, open : Nat, closing : Nat]]
        /\ sockets'[f].dialing = 1 /\ sockets'[f].open = 0 /\ sockets'[f].closing = 0
    BY <1>0, <2>1, <2>2 DEF connect, Waits
  <2>4. timers' \in [Feeds -> SUBSET (reconnectMs..maxReconnectMs)] /\ timers'[f] = {}
    BY <1>0, <2>2
  <2>5. \A g \in Feeds : g # f => sockets'[g] = sockets[g] /\ timers'[g] = timers[g]
    BY <1>0, <2>2
  <2>6. UNCHANGED <<running, started, backoff, closes>>
    BY <1>5 DEF Fires
  <2>7. DialerTypes'
    BY <2>3, <2>4, <2>6 DEF DialerInv, DialerTypes
  <2>8. Dials(f)'
    BY <2>3, <2>4 DEF Dials
  <2> QED
    BY <2>1, <2>3, <2>5, <2>6, <2>7, <2>8, OthersStay
<1>6. ASSUME NEW f \in Feeds, NEW s \in {"dialing", "open", "closing"}, Closes(f, s) PROVE DialerInv'
  <2>1. sockets' = [sockets EXCEPT ![f][s] = @ - 1] /\ sockets[f][s] > 0
    BY <1>6 DEF Closes
  <2>2. sockets' \in [Feeds -> [dialing : Nat, open : Nat, closing : Nat]]
    BY <1>0, <2>1
  <2>3. closes' \in [Feeds -> 0..MaxCloses] /\ running' = running /\ started' = started
    BY <1>0, <1>6 DEF Closes, DialerInv, DialerTypes
  <2>4. backoff[f] \in reconnectMs..maxReconnectMs /\ Doubled(backoff[f]) \in reconnectMs..maxReconnectMs
    BY DelayInLimits DEF DialerInv, DialerTypes
  <2>5. \A g \in Feeds : g # f => sockets'[g] = sockets[g]
    BY <1>0, <2>1
  <2>6. CASE ~running
    <3>1. Rests(f) /\ s = "closing"
      BY <2>1, <2>6 DEF DialerInv, Rests
    <3>2. sockets'[f].dialing = 0 /\ sockets'[f].open = 0
      BY <1>0, <2>1, <3>1 DEF Rests
    <3>3. timers' = timers /\ backoff' = backoff
      BY <1>6, <2>6 DEF Closes, Redial
    <3>4. started
      BY <2>1, <3>1 DEF DialerInv
    <3>5. ASSUME NEW g \in Feeds PROVE Rests(g)'
      <4>1. CASE g = f
        BY <3>1, <3>2, <3>3, <4>1 DEF Rests
      <4>2. CASE g # f
        BY <2>5, <2>6, <3>3, <4>2 DEF Rests, DialerInv
      <4> QED
        BY <4>1, <4>2
    <3>6. DialerTypes'
      BY <2>2, <2>3, <3>3 DEF DialerInv, DialerTypes
    <3> QED
      BY <2>3, <2>6, <3>4, <3>5, <3>6 DEF DialerInv
  <2>7. CASE running
    <3>1. /\ timers' = [timers EXCEPT ![f] = @ \cup {backoff[f]}]
          /\ backoff' = [backoff EXCEPT ![f] = Doubled(@)]
      BY <1>6, <2>7 DEF Closes, Redial
    <3>2. /\ timers' \in [Feeds -> SUBSET (reconnectMs..maxReconnectMs)]
          /\ \A g \in Feeds : g # f => timers'[g] = timers[g]
      BY <1>0, <2>4, <3>1
    <3>3. backoff' \in [Feeds -> reconnectMs..maxReconnectMs]
      BY <2>4, <3>1 DEF DialerInv, DialerTypes
    <3>4. DialerTypes'
      BY <2>2, <2>3, <3>2, <3>3 DEF DialerInv, DialerTypes
    <3>5. (Dials(f) \/ Holds(f) \/ Waits(f)) /\ sockets[f].closing = 0
      BY <2>7 DEF DialerInv
    <3>6. timers[f] = {} /\ s # "closing" /\ sockets[f][s] = 1
      BY <2>1, <3>5 DEF Dials, Holds, Waits
    <3>7. timers'[f] = {backoff[f]}
      BY <1>0, <3>1, <3>6
    <3>8. sockets'[f].dialing = 0 /\ sockets'[f].open = 0 /\ sockets'[f].closing = 0
      BY <1>0, <2>1, <3>5, <3>6 DEF Dials, Holds, Waits
    <3>9. Waits(f)'
      BY <2>4, <3>7, <3>8 DEF Waits
    <3> QED
      BY <2>3, <2>5, <2>7, <3>2, <3>4, <3>8, <3>9, OthersStay
  <2> QED
    BY <2>6, <2>7
<1> QED
  BY <1>1, <1>2, <1>3, <1>4, <1>5, <1>6 DEF DialerNext

(* Every feed has one connection or one timer that will make it while the   *)
(* dialer runs, and neither once it is stopped, and the delay keeps between *)
(* its limits, for any feeds, delays and closes.                            *)
THEOREM DialerTheorem == DialerSpec => [](DialerTypeOK /\ OneConnectionPerFeed)
<1>1. DialerInv => DialerTypeOK
  <2>1. DOMAIN None = {"dialing", "open", "closing"}
    BY DEF None
  <2>2. ASSUME DialerInv PROVE DialerTypeOK
    <3>1. sockets \in [Feeds -> [dialing : Nat, open : Nat, closing : Nat]]
      BY <2>2 DEF DialerInv, DialerTypes
    <3>2. sockets \in [Feeds -> [DOMAIN None -> Nat]]
      BY <2>1, <3>1
    <3> QED
      BY <2>2, <3>2 DEF DialerInv, DialerTypes, DialerTypeOK
  <2> QED
    BY <2>2
<1>2. DialerInv => OneConnectionPerFeed
  <2> SUFFICES ASSUME DialerInv, NEW f \in Feeds
               PROVE  sockets[f].dialing + sockets[f].open + Cardinality(timers[f]) = IF running THEN 1 ELSE 0
    BY DEF OneConnectionPerFeed
  <2>1. CASE Dials(f) \/ Holds(f) \/ Rests(f)
    <3>1. Cardinality(timers[f]) = 0
      BY <2>1, FS_EmptySet DEF Dials, Holds, Rests
    <3> QED
      BY <2>1, <3>1 DEF DialerInv, Dials, Holds, Waits, Rests
  <2>2. CASE Waits(f)
    <3>1. Cardinality(timers[f]) = 1
      BY <2>2, FS_Singleton DEF Waits
    <3> QED
      BY <2>2, <3>1 DEF DialerInv, Waits, Rests
  <2> QED
    BY <2>1, <2>2 DEF DialerInv
<1>3. DialerSpec => []DialerInv
  BY DialerStarts, DialerSteps, PTL DEF DialerSpec
<1> QED
  BY <1>1, <1>2, <1>3, PTL

-----------------------------------------------------------------------------
(* The instance of MCIntake runs each of its components: what one part does *)
(* is a step of its component, and no step of any other; and it is as fair  *)
(* to a component as the component asks for.                                *)
THEOREM IntakeRuns ==
  Spec => /\ StreamSpec /\ DialerSpec /\ JudgeSpec /\ L0Spec /\ DoorSpec /\ GatewaySpec
          /\ SceneSpec /\ CloudSpec /\ FeedSpec
<1>1. Init => /\ StreamInit /\ DialerInit /\ JudgeInit /\ L0Init /\ DoorInit /\ GatewayInit
              /\ SceneInit /\ CloudInit /\ FeedInit
  BY DEF Init
<1>2. ASSUME [Next]_vars
      PROVE  /\ [StreamNext]_streamVars /\ [DialerNext]_dialerVars /\ [JudgeNext]_judgeVars
             /\ [L0Next]_l0Vars /\ [DoorNext]_doorVars /\ [GatewayNext]_gatewayVars
             /\ [SceneNext]_sceneVars /\ [CloudNext]_cloudVars /\ [FeedNext]_feedVars
  <2>1. CASE UNCHANGED vars
    BY <2>1 DEF vars
  <2>2. CASE Next
    <3>1. [StreamNext]_streamVars /\ [DialerNext]_dialerVars /\ [JudgeNext]_judgeVars /\ [L0Next]_l0Vars
      BY <2>2 DEF Next, Rest
    <3>2. /\ [DoorNext]_doorVars /\ [GatewayNext]_gatewayVars
          /\ [SceneNext]_sceneVars /\ [CloudNext]_cloudVars /\ [FeedNext]_feedVars
      BY <2>2 DEF Next, Rest
    <3> QED
      BY <3>1, <3>2
  <2> QED
    BY <1>2, <2>1, <2>2
<1> QED
  BY <1>1, <1>2, PTL DEF Spec, StreamSpec, DialerSpec, JudgeSpec, L0Spec, DoorSpec, GatewaySpec,
                         SceneSpec, CloudSpec, FeedSpec

(* In the instance every part keeps to its types and to the limits they     *)
(* state, for every value of the constants of every part.                   *)
THEOREM IntakeTypeCorrect == Spec => []IntakeTypeOK
<1>1. Spec => [](part \in PARTS)
  <2>1. Init => part \in PARTS
    BY DEF Init
  <2>2. part \in PARTS /\ [Next]_vars => (part \in PARTS)'
    <3>1. CASE UNCHANGED vars
      BY <3>1 DEF vars
    <3>2. CASE Next
      BY <3>2 DEF Next, Rest
    <3> QED
      BY <3>1, <3>2
  <2> QED
    BY <2>1, <2>2, PTL DEF Spec
<1>2. part \in PARTS /\ StreamTypeOK /\ DialerTypeOK /\ JudgeTypeOK /\ L0TypeOK /\ GatewayTypeOK /\ CloudTypeOK => IntakeTypeOK
  BY DEF IntakeTypeOK
<1> QED
  BY <1>1, <1>2, IntakeRuns, StreamTypeCorrect, DialerTheorem, JudgeTheorem, L0Theorem, GatewayTypeCorrect,
     CloudTheorem, PTL
=============================================================================
