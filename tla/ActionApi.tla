----------------------------- MODULE ActionApi -----------------------------
(***************************************************************************)
(* The Action API's request path (src/api/server.js, handle) with its      *)
(* authentication (src/api/auth.js): scope, rate limit, signature, replay, *)
(* the evidence row, then the operation.  After the body is read nothing   *)
(* is awaited, so a request is one step; any request may come again at any *)
(* time, and the wall clock may be set back.  The intent store is reduced  *)
(* to who proposed an intent and whether its action is settled; module     *)
(* IntentStore has the rest.                                               *)
(***************************************************************************)
EXTENDS Integers, Sequences

CONSTANTS
  ApiRequests,     \* what clients send, see Request
  Senders,      \* callers, the UI's operator among them
  GrantOf,      \* caller -> scopes of its token; {} when the token is unknown
  Keys, KeyLess, \* idempotency keys, each naming its intent; a request without one
  SIG_WINDOW, nonceMax, capacity, refill, \* refill: tokens per unit of time
  MaxTime, MaxAnswers, MaxSetBacks \* bounds: the clock, requests, clock steps back

KIND == {"propose", "update", "decide", "halt", "read", "ui-decide"}
Request == [kind : KIND, caller : Senders, ts : 0..MaxTime, body : {"good", "other", "bad"}, key : Keys \cup {KeyLess}]

ASSUME ApiAssumption ==
  /\ ApiRequests \subseteq Request /\ ApiRequests # {} /\ KeyLess \notin Senders \cup Keys
  /\ SIG_WINDOW \in Nat /\ nonceMax \in Nat /\ capacity \in Nat /\ refill \in Nat
  /\ MaxTime \in Nat /\ MaxAnswers \in Nat /\ MaxSetBacks \in Nat

Cache == INSTANCE ExpiryMap

(* The signature covers the time and the body: not the path, not the key.   *)
SigOf(r) == <<r.caller, r.ts, r.body>>
Signatures == {SigOf(r) : r \in ApiRequests}

NoAnswer == [req |-> CHOOSE r \in ApiRequests : TRUE, status |-> "none", evidence |-> "no row"]

VARIABLES
  now,
  nonces,    \* signature -> expiry
  buckets,   \* caller -> [tokens, last]
  proposer,  \* intent -> who proposed it, or KeyLess
  settled,   \* intents whose action is decided
  last,      \* history: [req, status, evidence] of the last request
  admits,    \* history: caller -> the times at which a token was taken, in order
  served,    \* history: signature -> [at, times] of the operations it served
  accepted,  \* history: keys answered 202
  peak,      \* history: the latest time there was
  asked, setBacks \* bounds

apiVars == <<now, nonces, buckets, proposer, settled, last, admits, served, accepted, peak, asked, setBacks>>

ApiInit ==
  /\ now = 0 /\ peak = 0 /\ asked = 0 /\ nonces = <<>> /\ settled = {} /\ setBacks = 0
  /\ last = NoAnswer
  /\ admits = [c \in Senders |-> <<>>] /\ accepted = {}
  /\ served = [s \in Signatures |-> [at |-> 0, times |-> 0]]
  /\ buckets = [c \in Senders |-> [tokens |-> capacity, last |-> 0]]
  /\ proposer = [k \in Keys |-> KeyLess]

-----------------------------------------------------------------------------
scopeFor(r) ==
  CASE r.kind \in {"propose", "update"} -> "propose" [] r.kind = "read" -> "read" [] r.kind = "halt" -> "halt" [] OTHER -> "decide"
InScope(r) == scopeFor(r) \in GrantOf[r.caller]

(* take(): the bucket fills, or empties, with the time since the last call. *)
Lesser(a, b) == IF a < b THEN a ELSE b
Filled(c) == Lesser(capacity, buckets[c].tokens + (now - buckets[c].last) * refill)
Spend(c, n) == buckets' = [buckets EXCEPT ![c] = [tokens |-> Filled(c) - n, last |-> now]]
HasToken(c) == Filled(c) >= 1

Signs(r) == r.kind # "read"
InWindow(r) == now - r.ts \in -SIG_WINDOW..SIG_WINDOW
Authentic(r) == InScope(r) /\ HasToken(r.caller) /\ (Signs(r) => InWindow(r))

SweptNonces == Cache!Sweep(nonces, now)
(* Mutated: a full cache forgets instead of refusing.                       *)
UnusedForgets(r) == ~Cache!Has(SweptNonces, SigOf(r)) \/ Len(SweptNonces) >= nonceMax
Unused(r) == ~Cache!Has(SweptNonces, SigOf(r)) /\ Len(SweptNonces) < nonceMax
checkReplay(r) ==
  nonces' = IF Unused(r) THEN Cache!Put(SweptNonces, SigOf(r), now + SIG_WINDOW) ELSE SweptNonces

(* Only a proposal is checked for replay later than here.                   *)
ChecksFirst(r) == r.kind \in {"update", "decide", "halt"}

Respond(r, status, evidence) ==
  /\ last' = [req |-> r, status |-> status, evidence |-> evidence]
  /\ admits' = IF r.kind = "ui-decide" \/ status \in {"403", "429"} THEN admits
               ELSE [admits EXCEPT ![r.caller] = Append(@, now)]
  /\ served' = IF ChecksFirst(r) /\ status \in {"200", "201"}
               THEN [served EXCEPT ![SigOf(r)] = [at |-> now, times |-> @.times + 1]] ELSE served
  /\ accepted' = IF status = "202" THEN accepted \cup {r.key} ELSE accepted

-----------------------------------------------------------------------------
TurnedAway(r) ==
  \/ /\ ~InScope(r) /\ UNCHANGED <<nonces, buckets, proposer, settled>> /\ Respond(r, "403", "no row")
  \/ /\ InScope(r) /\ ~HasToken(r.caller) /\ Spend(r.caller, 0)
     /\ UNCHANGED <<nonces, proposer, settled>> /\ Respond(r, "429", "no row")
  \/ /\ InScope(r) /\ HasToken(r.caller) /\ ~Authentic(r) /\ Spend(r.caller, 1)
     /\ UNCHANGED <<nonces, proposer, settled>> /\ Respond(r, "401", "no row")

Replayed(r) ==
  /\ Authentic(r) /\ ChecksFirst(r) /\ ~Unused(r) /\ Spend(r.caller, 1) /\ checkReplay(r)
  /\ UNCHANGED <<proposer, settled>> /\ Respond(r, "409", "no row")

Passes(r) ==
  /\ r.kind # "ui-decide" /\ Authentic(r) /\ (ChecksFirst(r) => Unused(r)) /\ Spend(r.caller, 1)
  /\ r.kind # "propose" => IF ChecksFirst(r) THEN checkReplay(r) ELSE UNCHANGED nonces

(* The ledger refuses the row: so does the API.                             *)
Unlogged(r) ==
  /\ Passes(r) /\ (r.kind = "propose" => UNCHANGED nonces)
  /\ UNCHANGED <<proposer, settled>> /\ Respond(r, "503", "no row")

(* A known key is answered before the replay check; a new one is proposed   *)
(* before it, and stays when the check fails.                               *)
ProposeRoute(r) ==
  /\ Passes(r) /\ r.kind = "propose" /\ UNCHANGED settled
  /\ \/ /\ r.key = KeyLess /\ UNCHANGED <<nonces, proposer>> /\ Respond(r, "400", "row")
     \/ /\ r.key # KeyLess /\ r.body = "bad" /\ UNCHANGED <<nonces, proposer>> /\ Respond(r, "422", "row")
     \/ /\ r.key # KeyLess /\ r.body # "bad" /\ proposer[r.key] # KeyLess
        /\ UNCHANGED <<nonces, proposer>> /\ Respond(r, "202", "row")
     \/ /\ r.key # KeyLess /\ r.body # "bad" /\ proposer[r.key] = KeyLess /\ checkReplay(r)
        /\ proposer' = [proposer EXCEPT ![r.key] = r.caller] /\ Respond(r, IF Unused(r) THEN "202" ELSE "409", "row")

Undecided(k) == k # KeyLess /\ proposer[k] # KeyLess /\ k \notin settled

(* The update is made, then its row is written, which may fail; an update   *)
(* is not told apart from none here, but for its answer.                    *)
UpdateIntent(r) ==
  /\ Passes(r) /\ r.kind = "update" /\ UNCHANGED <<proposer, settled>>
  /\ \E s \in {IF r.body = "bad" THEN "422" ELSE IF Undecided(r.key) /\ proposer[r.key] = r.caller THEN "200" ELSE "409", "503"} :
       Respond(r, s, "row")

DecideOverApi(r) ==
  /\ Passes(r) /\ r.kind = "decide" /\ UNCHANGED proposer
  /\ settled' = settled \cup {k \in {r.key} : r.body # "bad" /\ Undecided(k)}
  /\ Respond(r, IF settled' # settled THEN "201" ELSE IF r.body = "bad" THEN "422" ELSE "409", "row")

(* The page's form: Basic auth and a form token, no signature.  The row is  *)
(* written after the decision; when it cannot be, handle() rejects and the  *)
(* answer is 500.                                                           *)
DecideOverUi(r) ==
  /\ r.kind = "ui-decide" /\ UNCHANGED <<nonces, buckets, proposer>>
  /\ settled' = settled \cup {k \in {r.key} : Undecided(k)}
  /\ \E s \in {"303", "500"} : Respond(r, s, IF s = "303" THEN "row" ELSE "no row")

(* GET, and HALT, whose own row may fail to be written.                     *)
ReadOrHalt(r) ==
  /\ Passes(r) /\ r.kind \in {"read", "halt"} /\ UNCHANGED <<proposer, settled>>
  /\ \E s \in {"200"} \cup {x \in {"500"} : r.kind = "halt"} : Respond(r, s, "row")

handle(r) ==
  /\ asked < MaxAnswers /\ asked' = asked + 1 /\ UNCHANGED <<now, peak, setBacks>>
  /\ \/ r.kind # "ui-decide" /\ TurnedAway(r)
     \/ Replayed(r) \/ Unlogged(r) \/ ProposeRoute(r) \/ UpdateIntent(r) \/ DecideOverApi(r) \/ DecideOverUi(r) \/ ReadOrHalt(r)

Idle == UNCHANGED <<nonces, buckets, proposer, settled, admits, served, accepted, asked>> /\ last' = NoAnswer
Passing ==
  /\ now < MaxTime /\ now' = now + 1 /\ peak' = IF peak < now' THEN now' ELSE peak
  /\ Idle /\ UNCHANGED setBacks
SetBack ==
  /\ now > 0 /\ setBacks < MaxSetBacks /\ now' = now - 1 /\ setBacks' = setBacks + 1
  /\ Idle /\ UNCHANGED peak

ApiNext == Passing \/ SetBack \/ \E r \in ApiRequests : handle(r)
ApiSpec == ApiInit /\ [][ApiNext]_apiVars

-----------------------------------------------------------------------------
(* The cache stays within its limit, and what it holds was signed.          *)
ApiTypeOK ==
  /\ now \in 0..MaxTime /\ peak \in now..MaxTime /\ setBacks \in 0..MaxSetBacks /\ asked \in 0..MaxAnswers
  /\ nonces \in Seq(Cache!Entry(Signatures, Nat)) /\ Len(nonces) <= nonceMax
  /\ \A c \in Senders : buckets[c].tokens \in Int /\ buckets[c].tokens <= capacity /\ buckets[c].last \in 0..MaxTime
  /\ proposer \in [Keys -> Senders \cup {KeyLess}] /\ settled \subseteq {k \in Keys : proposer[k] # KeyLess}
  /\ admits \in [Senders -> Seq(0..MaxTime)] /\ accepted \subseteq Keys /\ last.req \in ApiRequests
  /\ served \in [Signatures -> [at : 0..MaxTime, times : Nat]]

(* The limit holds over every stretch of requests of a caller, also when    *)
(* the clock is set back between them (auth.js:72-86).                      *)
RateHolds ==
  \A c \in Senders : \A i, j \in DOMAIN admits[c] :
    i < j => j - i + 1 <= capacity + (admits[c][j] - admits[c][i]) * refill

(* A signature serves two operations only if its whole window passed        *)
(* between them: not when the cache is full, nor for a body signed once and *)
(* sent to two paths, nor after the clock is set back (auth.js:57-70,       *)
(* server.js:332-335).                                                      *)
SignatureServesOnce ==
  [][\A s \in Signatures : served[s].times > 0 /\ served'[s].times > served[s].times
       => peak >= served[s].at + SIG_WINDOW]_apiVars

(* What the API changes, it has written down first (server.js:340-344).     *)
ChangesAreLogged ==
  [][last'.req.kind = "ui-decide" \/ last'.evidence = "row"]_<<proposer, settled>>

(* A client that repeats an accepted proposal is never told it replays: not *)
(* with the same signature, nor with a new one (server.js:368-376).         *)
RetryIsNoReplay == last.req.kind = "propose" /\ last.status = "409" => last.req.key \notin accepted

(* What the API promises across its requests: rate, evidence, an honest     *)
(* retry and one use of each signature (auth.js:57-106, server.js:332-400). *)
ApiPromise == [](RateHolds /\ RetryIsNoReplay) /\ ChangesAreLogged /\ SignatureServesOnce
=============================================================================
