----------------------------- MODULE UndoStore -----------------------------
(***************************************************************************)
(* The undo registry (src/broker/undo.js) and the UNDO command that runs a *)
(* reversal and answers the operator (src/channels/telegram-loop.js).      *)
(* run() waits twice: for the replay, which may fail having had its effect *)
(* or not, and the command waits for its message to be sent.  Any number   *)
(* of commands may be under way: the registry's promise is its own.        *)
(***************************************************************************)
EXTENDS Integers, FiniteSets

CONSTANTS
  Tokens, UndoCalls,  \* undo tokens; the UNDO commands that may come
  MaxLate             \* bound: replays that fail having had their effect

ASSUME UndoAssumption == MaxLate \in Nat /\ Tokens # {}

VARIABLES
  byToken,     \* token -> "absent", "ready", "spent"
  undoing,     \* command -> [token, stage]
  reversals,   \* history: token -> times its replay returned
  effects,     \* history: token -> times its replay took effect
  undoRows,    \* history: token -> outcomes of its rows
  told,        \* history: commands answered "Reversed"
  late         \* bound

undoVars == <<byToken, undoing, reversals, effects, undoRows, told, late>>
UNDOSTAGE == {"idle", "replaying", "reversed", "failed", "known", "answered"}

UndoInit ==
  /\ byToken = [t \in Tokens |-> "absent"] /\ undoing = [c \in UndoCalls |-> [token |-> CHOOSE t \in Tokens : TRUE, stage |-> "idle"]]
  /\ reversals = [t \in Tokens |-> 0] /\ effects = [t \in Tokens |-> 0]
  /\ undoRows = [t \in Tokens |-> {}] /\ told = {} /\ late = 0

Stage(c, s) == undoing' = [undoing EXCEPT ![c].stage = s]

(* A token is part of a ledger hash: it is registered once.                 *)
register(t) ==
  /\ byToken[t] = "absent" /\ byToken' = [byToken EXCEPT ![t] = "ready"]
  /\ UNCHANGED <<undoing, reversals, effects, undoRows, told, late>>

(* Mutated: the mark is set when the replay has returned.                   *)
MarkLate(t) == byToken' = byToken
Mark(t) == byToken' = [byToken EXCEPT ![t] = "spent"]

UndoRun(c, t) ==
  /\ undoing[c].stage = "idle"
  /\ IF byToken[t] = "ready"
     THEN Mark(t) /\ undoing' = [undoing EXCEPT ![c] = [token |-> t, stage |-> "replaying"]]
     ELSE undoing' = [undoing EXCEPT ![c] = [token |-> t, stage |-> "known"]] /\ UNCHANGED byToken
  /\ UNCHANGED <<reversals, effects, undoRows, told, late>>

Logged(ok) == IF ok THEN "reversed" ELSE "failed"

(* The replay returns and the undone row is written, or cannot be.          *)
Reversed(c) ==
  LET t == undoing[c].token IN
  /\ undoing[c].stage = "replaying"
  /\ reversals' = [reversals EXCEPT ![t] = @ + 1] /\ effects' = [effects EXCEPT ![t] = @ + 1]
  /\ \E ok \in BOOLEAN :
       /\ undoRows' = IF ok THEN [undoRows EXCEPT ![t] = @ \cup {"undone"}] ELSE undoRows
       /\ Stage(c, Logged(ok))
  /\ UNCHANGED <<byToken, told, late>>

(* It fails: the token may be used again.                                   *)
ReplayFails(c) ==
  LET t == undoing[c].token IN
  /\ undoing[c].stage = "replaying" /\ Stage(c, "failed")
  /\ byToken' = [byToken EXCEPT ![t] = "ready"]
  /\ undoRows' \in {undoRows, [undoRows EXCEPT ![t] = @ \cup {"undo-failed"}]}
  /\ \/ UNCHANGED <<effects, late>>
     \/ late < MaxLate /\ late' = late + 1 /\ effects' = [effects EXCEPT ![t] = @ + 1]
  /\ UNCHANGED <<reversals, told>>

(* The operator is told, or the message is lost.                            *)
UndoAnswer(c) ==
  /\ undoing[c].stage \in {"reversed", "failed", "known"} /\ Stage(c, "answered")
  /\ told' \in {told, told \cup {x \in {c} : undoing[c].stage = "reversed"}}
  /\ UNCHANGED <<byToken, reversals, effects, undoRows, late>>

UndoNext ==
  \/ \E t \in Tokens : register(t)
  \/ \E c \in UndoCalls : Reversed(c) \/ ReplayFails(c) \/ UndoAnswer(c) \/ \E t \in Tokens : UndoRun(c, t)
UndoSpec == UndoInit /\ [][UndoNext]_undoVars

-----------------------------------------------------------------------------
(* The registry, its commands and its rows.                                 *)
UndoTypeOK ==
  /\ byToken \in [Tokens -> {"absent", "ready", "spent"}] /\ late \in 0..MaxLate
  /\ undoing \in [UndoCalls -> [token : Tokens, stage : UNDOSTAGE]]
  /\ {reversals, effects} \subseteq [Tokens -> Nat] /\ told \subseteq UndoCalls
  /\ undoRows \in [Tokens -> SUBSET {"undone", "undo-failed"}]

Replaying(t) == {c \in UndoCalls : undoing[c].token = t /\ undoing[c].stage = "replaying"}

(* A reversal succeeds at most once, however many commands name its token   *)
(* and however often it failed before; what took effect more often did so   *)
(* in a replay that failed (undo.js:10-12, :40-47).                         *)
ReversedOnce == \A t \in Tokens : reversals[t] <= 1 /\ effects[t] <= 1 + late

(* What that rests on: a token is ready, held by one replay, or reversed.   *)
TokenHasOneHolder ==
  \A t \in Tokens :
    /\ byToken[t] # "spent" => Replaying(t) = {} /\ reversals[t] = 0
    /\ byToken[t] = "spent" => Cardinality(Replaying(t)) + reversals[t] = 1

(* The operator hears "Reversed, and on the ledger" only if both are so     *)
(* (undo.js:54-62, telegram-loop.js:200-206).                               *)
ToldIsTrue == \A c \in told : reversals[undoing[c].token] = 1 /\ "undone" \in undoRows[undoing[c].token]

(* What the registry promises the operator: one reversal for each token,    *)
(* and no answer that is not so (undo.js:37-74).                            *)
UndoPromise == ReversedOnce /\ TokenHasOneHolder /\ ToldIsTrue
=============================================================================
