----------------------------- MODULE ConsentGate -----------------------------
(***************************************************************************)
(* What the system promises about a gated action, without saying how: the  *)
(* people decide once, the write method exists in the live policy during   *)
(* one window after an approval, and the action reaches the service at     *)
(* most once, inside that window (ARCHITECTURE.md, "Approval, end to end"). *)
(***************************************************************************)
CONSTANT Gated   \* the gated actions

VARIABLES
  outcome,  \* what was decided about each
  window,   \* its write method: absent until an approval, open, shut for good
  ran       \* it reached the service

gateVars == <<outcome, window, ran>>

GateInit ==
  /\ outcome = [a \in Gated |-> "undecided"]
  /\ window = [a \in Gated |-> "absent"]
  /\ ran = [a \in Gated |-> FALSE]

Decide(a) ==
  /\ outcome[a] = "undecided"
  /\ \E v \in {"approved", "denied"} : outcome' = [outcome EXCEPT ![a] = v]
  /\ UNCHANGED <<window, ran>>

OpenWindow(a) ==
  /\ outcome[a] = "approved" /\ window[a] = "absent"
  /\ window' = [window EXCEPT ![a] = "open"]
  /\ UNCHANGED <<outcome, ran>>

Run(a) ==
  /\ window[a] = "open" /\ ~ran[a]
  /\ ran' = [ran EXCEPT ![a] = TRUE]
  /\ UNCHANGED <<outcome, window>>

ShutWindow(a) ==
  /\ window[a] = "open"
  /\ window' = [window EXCEPT ![a] = "shut"]
  /\ UNCHANGED <<outcome, ran>>

GateNext == \E a \in Gated : Decide(a) \/ OpenWindow(a) \/ Run(a) \/ ShutWindow(a)

GateSpec == GateInit /\ [][GateNext]_gateVars
=============================================================================
