------------------------------- MODULE MCBroker -------------------------------
(***************************************************************************)
(* The Broker on a small instance: one action of every tier, destructive   *)
(* ones with and without a way back, and for the consequential ones a      *)
(* decision that holds and several that do not.                            *)
(***************************************************************************)
EXTENDS Broker, TLC

CONSTANTS look, note, move, pay, cancel, erase, wipe, hidden, r1, r2, r3, see, op

MCActions == {look, note, move, pay, cancel, erase, wipe, hidden}
MCVerbOf == look :> "read" @@ note :> "create" @@ move :> "update" @@ pay :> "create"
            @@ cancel :> "delete" @@ erase :> "delete" @@ wipe :> "delete"
            @@ hidden :> "rename"
MCImpactOf == look :> {"legal"} @@ note :> {"unknown-word"} @@ move :> {}
              @@ pay :> {"financial"} @@ cancel :> {"reputational"} @@ erase :> {"legal"}
              @@ wipe :> {"legal"} @@ hidden :> {}
MCInvertible == {cancel}
MCProhibited == {wipe}

(* pay and cancel ask for requests of their own, erase for one that is not  *)
(* in the declared hosts.                                                   *)
MCRequests == {r1, r2, r3}
MCRequestOf == [a \in MCActions |-> CASE a = pay -> r1 [] a = cancel -> r2
                                      [] a = erase -> r3 [] OTHER -> NoRequest]
MCWidenable == {r1, r2}

Dec(a, verdict, settled, by) ==
  [action |-> a, verdict |-> verdict, settled |-> settled, decidedBy |-> by, proposedBy |-> see]

MCDecisions ==
  {Dec(a, "approve", TRUE, op) : a \in {pay, cancel, erase, wipe}}
  \cup {Dec(pay, "approve", FALSE, op), Dec(pay, "deny", TRUE, op), Dec(pay, "approve", TRUE, see)}
=============================================================================
