------------------------------ MODULE Archive ------------------------------
(***************************************************************************)
(* What the portal curates and keeps in files: knowledge documents         *)
(* (src/knowledge/store.js) and trigger rules (src/transport/triggers.js). *)
(* Both change memory, then write a file with writeFileSync, which         *)
(* truncates it first; both read their files when the process starts.      *)
(* Adding a document waits for the embedder between the duplicate check    *)
(* and the rest.                                                           *)
(***************************************************************************)
EXTENDS Integers, FiniteSets

CONSTANTS
  Docs, AddCalls,    \* documents, by the hash of their text; uploads that may come
  hasEmbedder,       \* whether an embedder is configured
  Rules, Seed,       \* trigger rules: all that may be added, the default ones
  Torn,              \* stands for a file that does not parse
  MaxFaults          \* bound: crashes and failed writes

ASSUME ArchiveAssumption == Seed \subseteq Rules /\ (\A S \in SUBSET Rules : Torn # S) /\ Docs # {}
                            /\ hasEmbedder \in BOOLEAN /\ MaxFaults \in Nat

VARIABLES
  alive,
  docs,       \* ids in memory
  docFiles,   \* id -> TRUE when its file parses, FALSE when it does not
  adding,     \* upload -> [doc, stage]
  rules, ruleFile, \* the rule set; what the file holds
  stored,     \* history: documents answered stored
  writes,     \* history: document -> times its file was written or begun
  agreed,     \* history: the rules after the last edit that was answered
  faults      \* bound

archiveVars == <<alive, docs, docFiles, adding, rules, ruleFile, stored, writes, agreed, faults>>

ArchiveInit ==
  /\ alive = TRUE /\ docs = {} /\ docFiles = [d \in {} |-> FALSE] /\ faults = 0
  /\ adding = [c \in AddCalls |-> [doc |-> CHOOSE d \in Docs : TRUE, stage |-> "idle"]]
  /\ rules = Seed /\ ruleFile = Seed /\ agreed = Seed /\ stored = {}
  /\ writes = [d \in Docs |-> 0]

With(f, d, v) == [x \in DOMAIN f \cup {d} |-> IF x = d THEN v ELSE f[x]]
AddStage(c, d, s) == adding' = [adding EXCEPT ![c] = [doc |-> d, stage |-> s]]
Fault == faults < MaxFaults /\ faults' = faults + 1
DocsOnly == UNCHANGED <<alive, rules, ruleFile, agreed>>
RulesOnly == UNCHANGED <<alive, docs, docFiles, adding, stored, writes>>

-----------------------------------------------------------------------------
addDocument(c, d) ==
  /\ alive /\ adding[c].stage = "idle"
  /\ AddStage(c, d, IF d \in docs THEN "duplicate" ELSE "embedding")
  /\ DocsOnly /\ UNCHANGED <<docs, docFiles, stored, writes, faults>>

EmbedFails(c) ==
  /\ alive /\ hasEmbedder /\ adding[c].stage = "embedding" /\ AddStage(c, adding[c].doc, "failed")
  /\ DocsOnly /\ UNCHANGED <<docs, docFiles, stored, writes, faults>>

Filed(c) == docFiles' = With(docFiles, adding[c].doc, TRUE)

(* The rest of addDocument: memory, then the file, in one step.             *)
Keep(c) ==
  /\ alive /\ adding[c].stage = "embedding" /\ docs' = docs \cup {adding[c].doc}
  /\ writes' = [writes EXCEPT ![adding[c].doc] = @ + 1]
  /\ Filed(c) /\ stored' = stored \cup {adding[c].doc} /\ AddStage(c, adding[c].doc, "stored")
  /\ DocsOnly /\ UNCHANGED <<faults>>

(* The write fails: the document stays in memory, and the file is torn or   *)
(* was never made.                                                          *)
KeepUnwritten(c) ==
  /\ alive /\ adding[c].stage = "embedding" /\ Fault /\ docs' = docs \cup {adding[c].doc}
  /\ writes' = [writes EXCEPT ![adding[c].doc] = @ + 1]
  /\ docFiles' \in {docFiles, With(docFiles, adding[c].doc, FALSE)} /\ AddStage(c, adding[c].doc, "failed")
  /\ DocsOnly /\ UNCHANGED <<stored>>

-----------------------------------------------------------------------------
(* add() and remove() change the rules, then the file.                      *)
Edit(r) ==
  /\ alive /\ r # rules
  /\ \E x \in Rules : r = rules \cup {x} \/ r = rules \ {x}
  /\ rules' = r

EditRules(r) == Edit(r) /\ ruleFile' = r /\ agreed' = r /\ RulesOnly /\ UNCHANGED faults
EditUnwritten(r) == Edit(r) /\ Fault /\ ruleFile' \in {ruleFile, Torn} /\ UNCHANGED agreed /\ RulesOnly

-----------------------------------------------------------------------------
(* What becomes of an upload when the process dies.                         *)
Lost(c) == IF adding[c].stage = "embedding" THEN [adding[c] EXCEPT !.stage = "failed"] ELSE adding[c]

(* The process dies, in a write or between two.                             *)
Dies ==
  /\ alive /\ Fault /\ alive' = FALSE
  /\ adding' = [c \in AddCalls |-> Lost(c)]
  /\ \/ UNCHANGED <<docFiles, writes, ruleFile>>
     \/ \E c \in AddCalls : /\ adding[c].stage = "embedding" /\ docFiles' = With(docFiles, adding[c].doc, FALSE)
                            /\ writes' = [writes EXCEPT ![adding[c].doc] = @ + 1] /\ UNCHANGED ruleFile
     \/ ruleFile' = Torn /\ UNCHANGED <<docFiles, writes>>
  /\ UNCHANGED <<docs, rules, stored, agreed>>

IntactDocs == {d \in DOMAIN docFiles : docFiles[d]}

(* Mutated: an empty or torn file leaves no rules.                          *)
ReloadedAsIs == IF ruleFile = Torn THEN {} ELSE ruleFile
(* No rules, or none that parse: the defaults are put back, and written.    *)
Reloaded == IF ruleFile \in {Torn, {}} THEN Seed ELSE ruleFile

Starts ==
  /\ ~alive /\ alive' = TRUE /\ docs' = IntactDocs
  /\ rules' = Reloaded /\ ruleFile' = Reloaded
  /\ UNCHANGED <<docFiles, adding, stored, writes, agreed, faults>>

ArchiveNext ==
  \/ Dies \/ Starts
  \/ \E c \in AddCalls : Keep(c) \/ KeepUnwritten(c) \/ EmbedFails(c) \/ \E d \in Docs : addDocument(c, d)
  \/ \E r \in SUBSET Rules : EditRules(r) \/ EditUnwritten(r)
ArchiveSpec == ArchiveInit /\ [][ArchiveNext]_archiveVars

-----------------------------------------------------------------------------
(* The types, and: no upload waits in a process that is dead.               *)
ArchiveTypeOK ==
  /\ alive \in BOOLEAN /\ faults \in 0..MaxFaults /\ rules \subseteq Rules /\ agreed \subseteq Rules
  /\ ruleFile \in (SUBSET Rules) \cup {Torn} /\ stored \subseteq Docs
  /\ docs \subseteq Docs /\ DOMAIN docFiles \subseteq Docs /\ docFiles \in [DOMAIN docFiles -> BOOLEAN]
  /\ adding \in [AddCalls -> [doc : Docs, stage : {"idle", "embedding", "duplicate", "stored", "failed"}]]
  /\ \A c \in AddCalls : adding[c].stage = "embedding" => alive

(* A document answered stored is there after every restart, whatever other  *)
(* uploads, failed writes and torn files came between; unless the same text *)
(* was uploaded twice at once and its own file written again                *)
(* (store.js:95-102, :108-129).                                             *)
KnowledgeSurvives == \A d \in stored : alive => d \in docs \/ writes[d] > 1

(* After a restart the rules are those of the last edit that was answered,  *)
(* or the defaults: never none, never part of them, never half an edit      *)
(* (triggers.js:43-50).                                                     *)
EditsSurvive == [][Starts => rules' \in {agreed, Seed}]_archiveVars

(* What is on disk outlives the process: documents that were answered       *)
(* stored, and the rules as they were last edited.                          *)
ArchivePromise == []KnowledgeSurvives /\ EditsSurvive
=============================================================================
