----------------------------- MODULE SkillStore -----------------------------
(***************************************************************************)
(* Enabling a skill: the portal's deploy (src/api/server.js), the manifest *)
(* schema (src/schema/manifest.js), the policy compiler                    *)
(* (src/policy/compile.js) and the loader (src/skills/load.js), which read *)
(* the skills' directory when the process starts and hand out one envelope.*)
(* A request to deploy has no await after its body is read: it is one step,*)
(* that may fail half way.                                                 *)
(***************************************************************************)
EXTENDS Integers, Sequences

CONSTANTS
  SkillNames,     \* in the order of their paths: a sequence
  Manifests,      \* what is deployed, see Manifest
  Hosts, Paths, Ports, NoEgress,
  Shipped,        \* skill -> manifest, the skills of the installation
  Absent, Empty, Unreadable, \* no directory; one without a file; a file that does not parse
  MaxDeploys      \* bound: deploys and failures

METHOD == {"GET", "POST", "PUT", "PATCH", "DELETE"}
Egress == [host : Hosts, port : Ports, path : Paths]
Capability == [tool : STRING, verb : {"read", "create", "update", "delete"}, gated : BOOLEAN, egress : Egress \cup {NoEgress}]
Names == {SkillNames[n] : n \in DOMAIN SkillNames}
IsManifest(m) ==
  /\ m.skill \in Names /\ m.level \in 0..3 /\ m.inference \in BOOLEAN /\ m.writesFiles \in BOOLEAN
  /\ \A n \in DOMAIN m.capabilities : m.capabilities[n] \in Capability

ASSUME SkillAssumption ==
  /\ (\A m \in Manifests : IsManifest(m)) /\ {Absent, Empty, Unreadable} \cap Manifests = {}
  /\ \A s \in DOMAIN Shipped : s \in Names /\ Shipped[s] \in Manifests /\ Shipped[s].skill = s
  /\ MaxDeploys \in Nat

VARIABLES
  files,     \* skill -> Absent, Empty, Unreadable or the manifest in its file
  serving,   \* the process runs
  loaded,    \* skill -> manifest, of the process that runs or ran last
  deploys    \* bound

skillVars == <<files, serving, loaded, deploys>>
Contents == Manifests \cup {Absent, Empty, Unreadable}

-----------------------------------------------------------------------------
CapsOf(m) == {m.capabilities[n] : n \in DOMAIN m.capabilities}

(* The schema's rules about levels.                                         *)
Valid(m) ==
  /\ m.inference => m.level < 2
  /\ m.level <= 1 => m.capabilities = <<>>
  /\ m.level >= 2 => m.capabilities # <<>>
  /\ m.level = 3 => ~m.writesFiles /\ \A c \in CapsOf(m) : c.egress # NoEgress

grantsFor(m) == [inference |-> m.level <= 1, retrieval |-> m.level = 1, tools |-> m.level >= 2, taskContext |-> m.level <= 2]

(* The write method of a gated write is absent.                             *)
methodsFor(c) ==
  IF c.verb = "read" \/ c.gated THEN {"GET"}
  ELSE CASE c.verb = "create" -> {"POST"} [] c.verb = "update" -> {"POST", "PUT", "PATCH"}
         [] c.verb = "delete" -> {"DELETE"}

(* One group per host and port, in the order they are first named; but the  *)
(* key of a fragment is the host, so the last group of a host is the one    *)
(* that is kept.                                                            *)
Reaching(m, h) == {n \in DOMAIN m.capabilities : m.capabilities[n].egress # NoEgress /\ m.capabilities[n].egress.host = h}
PortsTo(m, h) == {m.capabilities[n].egress.port : n \in Reaching(m, h)}
FirstNamed(m, h, p) ==
  CHOOSE n \in Reaching(m, h) : m.capabilities[n].egress.port = p
    /\ \A k \in Reaching(m, h) : m.capabilities[k].egress.port = p => n <= k
KeptPort(m, h) == CHOOSE p \in PortsTo(m, h) : \A q \in PortsTo(m, h) \ {p} : FirstNamed(m, h, q) < FirstNamed(m, h, p)

compileOpenShellFragment(m) ==
  [h \in {x \in Hosts : Reaching(m, x) # {}} |->
     UNION {{<<k, m.capabilities[n].egress.path>> : k \in methodsFor(m.capabilities[n])} :
            n \in {x \in Reaching(m, h) : m.capabilities[x].egress.port = KeptPort(m, h)}}]

(* The rules for a host, of whatever skill and port, are put together.      *)
mergeFragments(L) ==
  [h \in Hosts |-> UNION {compileOpenShellFragment(L[s])[h] : s \in {x \in DOMAIN L : Reaching(L[x], h) # {}}}]

-----------------------------------------------------------------------------
(* boot() refuses to start on a manifest that fails; a directory without a  *)
(* manifest is passed over.                                                 *)
Compiles(F) == \A s \in Names : F[s] # Unreadable /\ (F[s] \in Manifests => Valid(F[s]))
loadSkills(F) == [s \in {x \in Names : F[x] \in Manifests} |-> F[s]]

SkillInit ==
  /\ files = [s \in Names |-> IF s \in DOMAIN Shipped THEN Shipped[s] ELSE Absent]
  /\ Compiles(files) /\ serving = TRUE /\ loaded = loadSkills(files)
  /\ deploys = 0

Boot ==
  /\ ~serving /\ Compiles(files) /\ serving' = TRUE /\ loaded' = loadSkills(files)
  /\ UNCHANGED <<files, deploys>>

Stops == serving /\ serving' = FALSE /\ UNCHANGED <<files, loaded, deploys>>

Deploying(m) == serving /\ deploys < MaxDeploys /\ deploys' = deploys + 1 /\ UNCHANGED loaded
FileOf(m, x) == files' = [files EXCEPT ![m.skill] = x]

(* Mutated: an enabled skill is written over.                               *)
FreeAlways(m) == TRUE
Free(m) == files[m.skill] = Absent

(* The schema, the compiler or the directory says no.                       *)
RefuseDeploy(m) == Deploying(m) /\ ~(Valid(m) /\ Free(m)) /\ UNCHANGED <<files, serving>>

(* mkdir or the write fails: what was made stays.                           *)
WriteFails(m) ==
  /\ Deploying(m) /\ Valid(m) /\ Free(m) /\ UNCHANGED serving
  /\ \E x \in {files[m.skill], Empty, Unreadable} : FileOf(m, x)

(* The file is written, its row is not: 503, and the file stays.            *)
DeployUnlogged(m) == Deploying(m) /\ Valid(m) /\ Free(m) /\ FileOf(m, m) /\ UNCHANGED serving

(* 303; with "apply now" the process exits to be restarted.                 *)
DeploySkill(m) ==
  /\ Deploying(m) /\ Valid(m) /\ Free(m) /\ FileOf(m, m) /\ serving' \in BOOLEAN

(* The process dies in the write.                                           *)
DiesDeploying(m) ==
  /\ Deploying(m) /\ Valid(m) /\ Free(m) /\ serving' = FALSE
  /\ \E x \in {Empty, Unreadable, m} : FileOf(m, x)

(* A file put there by hand, whatever it says, and a directory removed: how *)
(* a skill is turned on and off without the portal.                         *)
TurnOn(m) ==
  /\ deploys < MaxDeploys /\ deploys' = deploys + 1 /\ files[m.skill] = Absent
  /\ FileOf(m, m) /\ UNCHANGED <<serving, loaded>>

TurnOff(s) ==
  /\ files[s] # Absent /\ files' = [files EXCEPT ![s] = Absent]
  /\ UNCHANGED <<serving, loaded, deploys>>

SkillNext ==
  \/ Boot \/ Stops \/ \E s \in Names : TurnOff(s)
  \/ \E m \in Manifests : TurnOn(m) \/ RefuseDeploy(m) \/ WriteFails(m) \/ DeployUnlogged(m) \/ DeploySkill(m) \/ DiesDeploying(m)
SkillSpec == SkillInit /\ [][SkillNext]_skillVars

-----------------------------------------------------------------------------
(* What is loaded are manifests, each under its name.                       *)
SkillTypeOK ==
  /\ files \in [Names -> Contents] /\ serving \in BOOLEAN /\ deploys \in 0..MaxDeploys
  /\ DOMAIN loaded \subseteq Names /\ \A s \in DOMAIN loaded : loaded[s] \in Manifests /\ loaded[s].skill = s

MethodsOfVerb(c) ==
  CASE c.verb = "read" -> {"GET"} [] c.verb = "create" -> {"POST"}
    [] c.verb = "update" -> {"POST", "PUT", "PATCH"} [] c.verb = "delete" -> {"DELETE"}
Envelope == mergeFragments(loaded)
Declares(s, h, c) == c \in CapsOf(loaded[s]) /\ c.egress # NoEgress /\ c.egress.host = h

(* The standing envelope grants nothing that no enabled skill declares, and *)
(* no write that needs consent: such a method on such a path stands only if *)
(* another capability declares it without (compile.js:42-98,                *)
(* load.js:106-137).                                                        *)
StandingIsDeclared ==
  \A h \in Hosts : \A r \in Envelope[h] :
    \E s \in DOMAIN loaded : \E c \in CapsOf(loaded[s]) :
      Declares(s, h, c) /\ c.egress.path = r[2] /\ (r[1] = "GET" \/ (~c.gated /\ r[1] \in MethodsOfVerb(c)))

(* And it lacks nothing: what a skill declares for a host it names with one *)
(* port stands, whichever other skills name that host too.  For a host with *)
(* two ports in one manifest only the group named last does.                *)
DeclaredStands ==
  \A s \in DOMAIN loaded : \A h \in Hosts : \A c \in CapsOf(loaded[s]) :
    Declares(s, h, c) /\ PortsTo(loaded[s], h) = {c.egress.port}
      => \A k \in methodsFor(c) : <<k, c.egress.path>> \in Envelope[h]

(* No agent holds tools and a model: what the schema refuses at the door it *)
(* refuses at every start, for files that came another way                  *)
(* (manifest.js:71-93, load.js:41-51).                                      *)
NoToolsWithInference ==
  \A s \in DOMAIN loaded : grantsFor(loaded[s]).inference \/ loaded[s].inference => CapsOf(loaded[s]) = {}

(* A deploy changes one directory, and only one that was not there: not     *)
(* after a write that failed, a crash or a repeated request                 *)
(* (server.js:181-182).                                                     *)
NeverOverwritten ==
  [][\A s \in Names : files[s] # Absent => files'[s] \in {files[s], Absent}]_skillVars

(* The envelope is what the enabled skills declare, no agent holds tools    *)
(* and a model, and no deploy changes an enabled skill.                     *)
SkillPromise == [](StandingIsDeclared /\ DeclaredStands /\ NoToolsWithInference) /\ NeverOverwritten
=============================================================================
