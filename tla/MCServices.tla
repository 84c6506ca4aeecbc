----------------------------- MODULE MCServices -----------------------------
(***************************************************************************)
(* The components that others call or watch, on small instances, side by   *)
(* side: the intent store, the ledger, the undo registry, the Action API,  *)
(* what is kept on disk, the trigger rules, the skills, the simulated      *)
(* policy, the output layer, See's live loop and the pairing of the device *)
(* with a gateway.  They share no variable, so a behaviour exercises one   *)
(* of them, part, and the others rest: the states of this instance are the *)
(* sum of theirs, not the product.                                         *)
(***************************************************************************)
EXTENDS IntentStore, Ledger, UndoStore, ActionApi, Archive, TriggerMatch,
        SkillStore, SimulatedPolicy, OutputLayer, LiveLoop, DevicePairing, TLC

VARIABLE part

PARTS == {"intents", "ledger", "undo", "api", "archive", "triggers",
          "skills", "policy", "outputs", "live", "pairing"}

(* Every part but the one exercised rests.                                  *)
Rest ==
  /\ UNCHANGED part
  /\ part # "intents" => UNCHANGED storeVars
  /\ part # "ledger" => UNCHANGED ledgerVars
  /\ part # "undo" => UNCHANGED undoVars
  /\ part # "api" => UNCHANGED apiVars
  /\ part # "archive" => UNCHANGED archiveVars
  /\ part # "triggers" => UNCHANGED text
  /\ part # "skills" => UNCHANGED skillVars
  /\ part # "policy" => UNCHANGED simVars
  /\ part # "outputs" => UNCHANGED outputVars
  /\ part # "live" => UNCHANGED liveVars
  /\ part # "pairing" => UNCHANGED pairingVars

Next ==
  \/ part = "intents" /\ StoreNext /\ Rest
  \/ part = "ledger" /\ LedgerNext /\ Rest
  \/ part = "undo" /\ UndoNext /\ Rest
  \/ part = "api" /\ ApiNext /\ Rest
  \/ part = "archive" /\ ArchiveNext /\ Rest
  \/ part = "triggers" /\ (\E w \in Words : Say(w)) /\ Rest
  \/ part = "skills" /\ SkillNext /\ Rest
  \/ part = "policy" /\ SimNext /\ Rest
  \/ part = "outputs" /\ OutputNext /\ Rest
  \/ part = "live" /\ LiveNext /\ Rest
  \/ part = "pairing" /\ PairingNext /\ Rest

(* The loop has an initial state for each audience.                         *)
Init ==
  /\ part \in PARTS
  /\ StoreInit /\ LedgerInit /\ UndoInit /\ ApiInit /\ ArchiveInit /\ MatchInit
  /\ SkillInit /\ SimInit /\ OutputInit /\ PairingInit /\ LiveInit /\ (part # "live" => audience = {"rgb"})

vars == <<part, storeVars, ledgerVars, undoVars, apiVars, archiveVars, text,
          skillVars, simVars, outputVars, liveVars, pairingVars>>

Spec == Init /\ [][Next]_vars

(* Every part keeps to its types, and to the limits they state: the nonce   *)
(* cache, the tokens, the sockets' buffers, what is loaded of the skills.   *)
ServicesTypeOK ==
  /\ part \in PARTS
  /\ StoreTypeOK /\ LedgerTypeOK /\ UndoTypeOK /\ ApiTypeOK /\ ArchiveTypeOK
  /\ SkillTypeOK /\ SimTypeOK /\ OutputTypeOK

-----------------------------------------------------------------------------
(* An intent whose actions are a two-person delete and an ordinary          *)
(* approval, and an action id that the intent does not hold.                *)
CONSTANTS i1, cancel, dispatch, typo

MCActions == {cancel, dispatch, typo}
MCIntents == {i1}
MCVerbOf == cancel :> "delete" @@ dispatch :> "create" @@ typo :> "create"
MCImpactOf == cancel :> {"legal", "reputational"} @@ dispatch :> {"legal"}
              @@ typo :> {"unknown-word"}
MCIntentOf == cancel :> i1 @@ dispatch :> i1 @@ typo :> i1
MCUnminted == {typo}
MCInvertible == {cancel}

(* Requests signed at time 1: proposals with two keys, one of them for a    *)
(* payload that does not parse, and one request of every other kind.        *)
Req(kind, caller, body, key) == [kind |-> kind, caller |-> caller, ts |-> 1, body |-> body, key |-> key]
MCRequests ==
  {Req("propose", "edge", "good", "k1"), Req("propose", "edge", "good", "k2"),
   Req("propose", "edge", "bad", "k2"), Req("propose", "edge", "good", "-"),
   Req("update", "edge", "good", "k1"), Req("decide", "op", "good", "k1"),
   Req("halt", "op", "good", "k1"), Req("decide", "edge", "good", "k1"),
   Req("ui-decide", "op", "good", "k1"), Req("read", "op", "good", "k1")}
MCGrantOf == "edge" :> {"propose"} @@ "op" :> {"decide", "read", "halt"}

(* Two rules, one with a phrase that ends another, and the words of denials.*)
MCWords == {"no", "without", "visible", "apparent", "smoke", "sign", "down"}
MCLengthOf == [w \in MCWords |-> CASE w = "no" -> 2 [] w \in {"without", "visible"} -> 7
                                   [] w = "apparent" -> 8 [] OTHER -> 5]
MCRules == << << <<"smoke">> >>, << <<"sign", "down">>, <<"down">> >> >>

(* Skills of every kind: tools of both consents, tools without egress, with *)
(* an other port, and inference with and without tools.                     *)
At(host, port, path) == [host |-> host, port |-> port, path |-> path]
Tool(tool, verb, gated, egress) == [tool |-> tool, verb |-> verb, gated |-> gated, egress |-> egress]
Skill(skill, level, inference, tools, own) ==
  [skill |-> skill, level |-> level, inference |-> inference, capabilities |-> tools, writesFiles |-> own]
MCBase == Skill("base", 2, FALSE, <<Tool("read", "read", FALSE, At("city", 80, "/a")),
                                    Tool("close", "delete", TRUE, At("city", 80, "/b")),
                                    Tool("note", "create", FALSE, NoEgress)>>, TRUE)
MCPorts == Skill("ports", 3, FALSE, <<Tool("send", "create", FALSE, At("city", 80, "/b")),
                                      Tool("call", "update", FALSE, At("city", 81, "/a")),
                                      Tool("x", "update", TRUE, At("dot", 80, "/a"))>>, FALSE)
MCManifests ==
  {MCBase, MCPorts, Skill("chief", 1, TRUE, <<>>, FALSE),
   Skill("chief", 2, TRUE, <<Tool("note", "create", FALSE, NoEgress)>>, FALSE),
   Skill("ports", 2, FALSE, <<Tool("wipe", "delete", FALSE, At("city", 80, "/a"))>>, FALSE)}
MCShipped == "base" :> MCBase
MCSkillNames == <<"base", "chief", "ports">>

(* Two actions that ask for the same rule, one for another path, one for    *)
(* another host.                                                            *)
MCRuleOf == [a \in {"a1", "a2", "a3", "a4"} |->
  CASE a \in {"a1", "a2"} -> <<"city", "POST", "/a">> [] a = "a3" -> <<"city", "PUT", "/b">>
    [] OTHER -> <<"dot", "POST", "/a">>]
MCStanding == {<<"city", "GET", "/a">>}

(* A frame fills a socket's buffer, an observation half of it.              *)
MCTopicOf == [v \in {"v1", "v2", "v3"} |-> IF v = "v3" THEN "observation" ELSE "frame"]
MCSizeOf == "frame" :> 2 @@ "observation" :> 1
MCMaxBuffered == "frame" :> 2 @@ "observation" :> 1

(* One device that is not ours.                                             *)
MCOtherDevices == {-1}
=============================================================================
