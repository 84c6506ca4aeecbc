---------------------------- MODULE DevicePairing ----------------------------
(***************************************************************************)
(* Pairing this device with an OpenClaw gateway: the identity, a key in a   *)
(* file, and the connect frame it signs (src/gateway/openclaw.js), and the  *)
(* script that probes and, when it is told to, approves                     *)
(* (scripts/gateway-pair.mjs), one run after another.  The gateway is       *)
(* external: it files a request for a device it does not know, and others   *)
(* file, approve and deny beside the script.  A session is one step; its    *)
(* socket is GatewayClient.                                                 *)
(***************************************************************************)
EXTENDS Integers, Sequences

CONSTANTS
  OtherDevices,                       \* devices that also ask to be paired, numbers that are no key's
  MaxRuns, MaxFiled, MaxPairingFaults \* bounds: runs; requests filed; crashes, lost rows

ASSUME PairingAssumption ==
  /\ OtherDevices \subseteq Int \ Nat
  /\ {MaxRuns, MaxFiled, MaxPairingFaults} \subseteq Nat

VARIABLES
  keyFile,   \* [is, key]: "none", "empty", "torn" or "key", and its number
  keys,      \* keys generated
  script,    \* the run: where it is, what it was told, its device, the request it picked
  filed,     \* gateway: pending requests, oldest first
  filings,   \* requests filed so far
  paired,    \* gateway: devices it trusts
  seenAs,    \* history: devices the script has connected as
  everPaired,\* history: devices the gateway has trusted
  approvals, \* history: [run, device, told] of requests the script approved
  pairingRows, \* [run, outcome, device] in the ledger
  brokenRuns,    \* history: runs that crashed, or that lost a row
  runCount, pairingFaults \* bounds

gatewaySide == <<filed, filings, paired, everPaired>>
pairingVars == <<keyFile, keys, script, gatewaySide, seenAs, approvals, pairingRows, brokenRuns, runCount, pairingFaults>>

Keyless(is) == [is |-> is, key |-> 0]
KeyFile(k) == [is |-> "key", key |-> k]
Off == [at |-> "off", approve |-> FALSE, secret |-> FALSE, device |-> 0, request |-> 0]

PairingInit ==
  /\ keyFile = Keyless("none") /\ keys = 0 /\ script = Off /\ filed = <<>> /\ filings = 0 /\ paired = {}
  /\ seenAs = {} /\ everPaired = {} /\ approvals = {} /\ pairingRows = {} /\ brokenRuns = {}
  /\ runCount = 0 /\ pairingFaults = 0

PairingFault == pairingFaults < MaxPairingFaults /\ pairingFaults' = pairingFaults + 1

(* record(): an append that throws is reported and forgotten.               *)
Note(o) ==
  \/ /\ pairingRows' = pairingRows \cup {[run |-> runCount, outcome |-> o, device |-> script.device]}
     /\ UNCHANGED <<brokenRuns, pairingFaults>>
  \/ PairingFault /\ brokenRuns' = brokenRuns \cup {runCount} /\ UNCHANGED pairingRows
Silently == UNCHANGED <<pairingRows, brokenRuns, pairingFaults>>
Goto(l) == script' = [script EXCEPT !.at = l]
Ends == script' = Off

-----------------------------------------------------------------------------
(* resolveDeviceIdentity(): the key of the file if it has one, which an     *)
(* empty file has not; what is no key is an error and no new key.           *)
Start(approve, secret) ==
  /\ script.at = "off" /\ runCount < MaxRuns /\ runCount' = runCount + 1
  /\ LET Begun(l, d) == script' = [at |-> l, approve |-> approve, secret |-> secret, device |-> d, request |-> 0] IN
       \/ keyFile.is = "torn" /\ Ends /\ UNCHANGED keys
       \/ keyFile.is \in {"none", "empty"} /\ keys' = keys + 1 /\ Begun("writing", keys')
       \/ keyFile.is = "key" /\ Begun("connecting", keyFile.key) /\ UNCHANGED keys
  /\ UNCHANGED <<keyFile, gatewaySide, seenAs, approvals>> /\ Silently

(* Mutated: the key is not kept.                                            *)
KeepNothing == keyFile' = keyFile
KeepKey == keyFile' = KeyFile(script.device)

WriteKey ==
  /\ script.at = "writing" /\ KeepKey /\ Goto("connecting")
  /\ UNCHANGED <<keys, gatewaySide, seenAs, approvals, runCount>> /\ Silently

(* The process dies, which in the middle of the write leaves the file as    *)
(* far as it was written.                                                   *)
ScriptDies ==
  /\ script.at # "off" /\ PairingFault /\ brokenRuns' = brokenRuns \cup {runCount} /\ Ends
  /\ keyFile' \in IF script.at = "writing" THEN {keyFile, Keyless("empty"), Keyless("torn"), KeyFile(script.device)} ELSE {keyFile}
  /\ UNCHANGED <<keys, gatewaySide, seenAs, approvals, pairingRows, runCount>>

-----------------------------------------------------------------------------
(* The string that is signed, and the frame; without an identity it has no  *)
(* device, without a credential no auth.                                    *)
buildDeviceAuthPayloadV3(device, scopes, token, nonce) == <<"v3", device, scopes, token, nonce>>

buildConnectParams(device, scopes, token, nonce) ==
  [device |-> device, scopes |-> scopes, auth |-> token,
   signature |-> IF device = 0 THEN <<>> ELSE buildDeviceAuthPayloadV3(device, scopes, token, nonce)]

(* A session of the script: the gateway says a nonce, the frame answers it. *)
Hello(device, scopes) ==
  LET nonce == runCount
      frame == buildConnectParams(device, scopes, script.secret, nonce) IN
    IF device = 0 THEN frame.auth
    ELSE frame.signature = buildDeviceAuthPayloadV3(frame.device, frame.scopes, frame.auth, nonce)

Pending(d) == {i \in DOMAIN filed : filed[i].device = d}
File(d) ==
  IF Pending(d) # {} THEN UNCHANGED <<filed, filings>>
  ELSE filings < MaxFiled /\ filings' = filings + 1 /\ filed' = Append(filed, [request |-> filings', device |-> d])

Trust(d) == paired' = paired \cup {d} /\ everPaired' = everPaired \cup {d}
Dropped(i) == SubSeq(filed, 1, i - 1) \o SubSeq(filed, i + 1, Len(filed))

(* What a session as ourselves comes to: let in, not paired - in one of the *)
(* four codes of isPairingError() - and by that filed, or an error, which   *)
(* may come after either.                                                   *)
SessionAs(in, out, failed) ==
  /\ Hello(script.device, {"operator.admin"}) /\ seenAs' = seenAs \cup {script.device}
  /\ \/ script.device \in paired /\ in /\ UNCHANGED gatewaySide
     \/ script.device \notin paired /\ File(script.device) /\ out /\ UNCHANGED <<paired, everPaired>>
     \/ failed /\ UNCHANGED gatewaySide
     \/ script.device \notin paired /\ File(script.device) /\ failed /\ UNCHANGED <<paired, everPaired>>
  /\ UNCHANGED <<keyFile, keys, approvals, runCount>>

ConnectAsOurselves ==
  /\ script.at = "connecting"
  /\ SessionAs(Note("connected") /\ Ends, Note("pairing-required") /\ Goto("unpaired"), Note("error") /\ Ends)

(* Mutated: what is found is approved without being asked for.              *)
AlwaysApproves == TRUE
ToldToApprove == script.approve

(* Without --approve a probe is all; with it a shared credential is needed, *)
(* for a session that has no device.                                        *)
ApprovingSession ==
  /\ script.at = "unpaired"
  /\ \/ ~ToldToApprove /\ Ends /\ Silently
     \/ ToldToApprove /\ ~script.secret /\ Note("refused") /\ Ends
     \/ ToldToApprove /\ Hello(0, {"operator.admin", "operator.pairing"}) /\ Goto("listing") /\ Silently
     \/ ToldToApprove /\ script.secret /\ Note("refused") /\ Ends
  /\ UNCHANGED <<keyFile, keys, gatewaySide, seenAs, approvals, runCount>>

(* Mutated: the newest request is taken for ours.                           *)
AnyIsOurs(f) == TRUE
IsOurs(f) == f.device = script.device

(* device.pair.list: ours, or else the newest.                              *)
ListPending ==
  /\ script.at = "listing"
  /\ LET i == IF Pending(script.device) # {} THEN CHOOSE j \in Pending(script.device) : TRUE ELSE Len(filed) IN
       \/ filed = <<>> /\ Note("no-request") /\ Ends
       \/ filed # <<>> /\ ~IsOurs(filed[i]) /\ Note("refused") /\ Ends
       \/ filed # <<>> /\ IsOurs(filed[i]) /\ Silently
          /\ script' = [script EXCEPT !.at = "approving", !.request = filed[i].request]
       \/ Note("error") /\ Ends
  /\ UNCHANGED <<keyFile, keys, gatewaySide, seenAs, approvals, runCount>>

(* device.pair.approve: of a request that is still there, or an error.      *)
ApproveRequest ==
  /\ script.at = "approving"
  /\ \/ \E i \in DOMAIN filed :
          /\ filed[i].request = script.request /\ Trust(filed[i].device) /\ filed' = Dropped(i)
          /\ approvals' = approvals \cup {[run |-> runCount, device |-> filed[i].device, told |-> script.approve]}
          /\ Goto("approved") /\ Silently
     \/ Note("error") /\ Ends /\ UNCHANGED <<filed, paired, everPaired, approvals>>
  /\ UNCHANGED <<keyFile, keys, filings, seenAs, runCount>>

(* Its answer comes, or is lost.                                            *)
ApprovalAnswered ==
  /\ script.at = "approved"
  /\ (Note("approved") /\ Goto("verifying")) \/ (Note("error") /\ Ends)
  /\ UNCHANGED <<keyFile, keys, gatewaySide, seenAs, approvals, runCount>>

VerifyPaired ==
  /\ script.at = "verifying"
  /\ SessionAs(Note("verified") /\ Ends, Note("verify-failed") /\ Ends, Note("verify-failed") /\ Ends)

-----------------------------------------------------------------------------
(* Other devices ask; the gateway's owner approves, denies and revokes.     *)
OthersAct ==
  /\ \/ \E d \in OtherDevices : Pending(d) = {} /\ File(d) /\ UNCHANGED <<paired, everPaired>>
     \/ \E i \in DOMAIN filed :
          /\ filed' = Dropped(i) /\ UNCHANGED filings
          /\ Trust(filed[i].device) \/ UNCHANGED <<paired, everPaired>>
     \/ \E d \in paired : paired' = paired \ {d} /\ UNCHANGED <<filed, filings, everPaired>>
  /\ UNCHANGED <<keyFile, keys, script, seenAs, approvals, runCount>> /\ Silently

PairingNext ==
  \/ \E approve, secret \in BOOLEAN : Start(approve, secret)
  \/ WriteKey \/ ScriptDies \/ ConnectAsOurselves \/ ApprovingSession \/ ListPending \/ ApproveRequest
  \/ ApprovalAnswered \/ VerifyPaired \/ OthersAct
PairingSpec == PairingInit /\ [][PairingNext]_pairingVars

-----------------------------------------------------------------------------
(* The gateway never sees two devices of us, whatever run died over the key *)
(* file: a key is on the file before it is used (openclaw.js:74-77, :83-97).*)
OneDevice == \A d, e \in seenAs : d = e

(* What the script approves is its own device and what it was told to       *)
(* approve, whoever files, approves or denies between its steps             *)
(* (gateway-pair.mjs:11-14, :156-170).                                      *)
ApprovesItself == \A a \in approvals : a.device \in seenAs /\ a.told

(* A run that ended leaves a row of what it approved, or of the error that  *)
(* hid it; what a row says was paired had been (gateway-pair.mjs:14-15,     *)
(* :170-194).                                                               *)
PairingIsLogged ==
  /\ \A a \in approvals :
       a.run \in brokenRuns \/ (script.at = "approved" /\ a.run = runCount)
         \/ \E r \in pairingRows : r.run = a.run /\ r.device = a.device /\ r.outcome \in {"approved", "error"}
  /\ \A r \in pairingRows :
       /\ r.outcome = "approved" => \E a \in approvals : a.run = r.run /\ a.device = r.device
       /\ r.outcome \in {"connected", "verified"} => r.device \in everPaired

(* One identity, approved by its owner alone, on the record.                *)
PairingPromise == OneDevice /\ ApprovesItself /\ PairingIsLogged
=============================================================================
