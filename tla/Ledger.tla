------------------------------- MODULE Ledger -------------------------------
(***************************************************************************)
(* The hash-chained action ledger (src/ledger/ledger.js): append() writes  *)
(* one line, fsyncs it, and only then advances the chain kept in memory;   *)
(* a restart reloads the file.  The file can outlive, and run ahead of,    *)
(* what append() acknowledged.                                             *)
(*                                                                         *)
(* A hash covers the previous hash and a body with a time stamp, so each   *)
(* attempt to append has a hash of its own: the number of the attempt.     *)
(***************************************************************************)
EXTENDS Naturals, Sequences

CONSTANTS
  MaxAppends,     \* bound: attempts to append
  MaxSyncErrors,  \* bound: fsync or close errors after the line was written
  MaxShortWrites, \* bound: writes that stored only part of the line
  MaxCrashes,     \* bound: deaths of the process
  MaxPowerLosses  \* bound: power failures

ASSUME LedgerAssumption ==
  /\ MaxAppends \in Nat /\ MaxSyncErrors \in Nat
  /\ MaxShortWrites \in Nat /\ MaxCrashes \in Nat /\ MaxPowerLosses \in Nat

GENESIS == 0
Record == [seq : Nat, prevHash : Nat, hash : Nat]
Line == [rec : Record, whole : BOOLEAN]   \* whole: JSON.parse reads it back

VARIABLES
  file,        \* the lines of actions.jsonl, as the operating system sees them
  tail,        \* "torn" when the last line has no newline
  synced,      \* how many lines survive a power failure
  up,          \* the process runs
  broken,      \* the ledger refuses: the file could not be reloaded
  seq,         \* seq, the last sequence number
  prevHash,    \* prevHash
  memory,      \* the records in memory
  acked,       \* history: the records append() returned, over all lives
  attempts, syncErrors, shortWrites, crashes, powerLosses

ledgerVars == <<file, tail, synced, up, broken, seq, prevHash, memory, acked,
                attempts, syncErrors, shortWrites, crashes, powerLosses>>

counters == <<attempts, syncErrors, shortWrites, crashes, powerLosses>>

LedgerTypeOK ==
  /\ file \in Seq(Line)
  /\ tail \in {"clean", "torn"}
  /\ synced \in 0..Len(file)
  /\ up \in BOOLEAN /\ broken \in BOOLEAN
  /\ seq \in Nat /\ prevHash \in Nat
  /\ memory \in Seq(Record)
  /\ acked \in Seq(Record)
  /\ attempts \in 0..MaxAppends
  /\ syncErrors \in 0..MaxSyncErrors
  /\ shortWrites \in 0..MaxShortWrites
  /\ crashes \in 0..MaxCrashes
  /\ powerLosses \in 0..MaxPowerLosses

LedgerInit ==
  /\ file = <<>> /\ tail = "clean" /\ synced = 0
  /\ up = TRUE /\ broken = FALSE
  /\ seq = 0 /\ prevHash = GENESIS
  /\ memory = <<>> /\ acked = <<>>
  /\ attempts = 0 /\ syncErrors = 0 /\ shortWrites = 0
  /\ crashes = 0 /\ powerLosses = 0

-----------------------------------------------------------------------------
(* Mutated: seq++ in place of seq + 1.                                      *)
NextRecordSame == [seq |-> seq, prevHash |-> prevHash, hash |-> attempts + 1]

NextRecord == [seq |-> seq + 1, prevHash |-> prevHash, hash |-> attempts + 1]

(* The file after the bytes of a line reach it.  A line that follows a torn *)
(* one runs on in it, and neither can be read back from then on.            *)
Written(whole) ==
  IF tail = "torn" THEN [file EXCEPT ![Len(file)].whole = FALSE]
  ELSE Append(file, [rec |-> NextRecord, whole |-> whole])

(* append() is entered: broken throws, and nothing changes.                 *)
Appending ==
  /\ up /\ ~broken
  /\ attempts < MaxAppends
  /\ attempts' = attempts + 1

(* Mutated: prevHash is not advanced.                                       *)
AcknowledgeStale ==
  /\ seq' = NextRecord.seq /\ UNCHANGED prevHash
  /\ memory' = Append(memory, NextRecord) /\ acked' = Append(acked, NextRecord)

(* append() returns: the chain in memory moves to the new record.           *)
Acknowledge ==
  /\ seq' = NextRecord.seq
  /\ prevHash' = NextRecord.hash
  /\ memory' = Append(memory, NextRecord)
  /\ acked' = Append(acked, NextRecord)

Unacknowledged == UNCHANGED <<seq, prevHash, memory, acked>>

AppendOk ==
  /\ Appending
  /\ file' = Written(TRUE) /\ tail' = "clean"
  /\ synced' = Len(file')
  /\ Acknowledge
  /\ UNCHANGED <<up, broken, syncErrors, shortWrites, crashes, powerLosses>>

(* Mutated: the error is swallowed and append() goes on.                    *)
AppendNothingSwallowed ==
  /\ Appending /\ Acknowledge
  /\ UNCHANGED <<file, tail, synced, up, broken, syncErrors, shortWrites,
                 crashes, powerLosses>>

(* openSync or writeSync throws: the attempt leaves no trace.               *)
AppendNothing ==
  /\ Appending
  /\ Unacknowledged
  /\ UNCHANGED <<file, tail, synced, up, broken, syncErrors, shortWrites,
                 crashes, powerLosses>>

(* fsyncSync or closeSync throws: the line is in the file, append() throws. *)
AppendUnsynced ==
  /\ Appending
  /\ syncErrors < MaxSyncErrors /\ syncErrors' = syncErrors + 1
  /\ file' = Written(TRUE) /\ tail' = "clean"
  /\ Unacknowledged
  /\ UNCHANGED <<synced, up, broken, shortWrites, crashes, powerLosses>>

(* writeSync stores part of the line (all but the newline, at best) and     *)
(* says so in the count it returns, which is not looked at: append() goes   *)
(* on to fsync and returns.                                                 *)
AppendShort ==
  /\ Appending
  /\ shortWrites < MaxShortWrites /\ shortWrites' = shortWrites + 1
  /\ \E whole \in BOOLEAN : file' = Written(whole)
  /\ tail' = "torn"
  /\ synced' = Len(file')
  /\ Acknowledge
  /\ UNCHANGED <<up, broken, syncErrors, crashes, powerLosses>>

Failing == crashes < MaxCrashes /\ crashes' = crashes + 1

(* The process dies between two operations.                                 *)
Crash ==
  /\ up /\ Failing
  /\ up' = FALSE
  /\ UNCHANGED <<file, tail, synced, broken, seq, prevHash, memory, acked,
                 attempts, syncErrors, shortWrites, powerLosses>>

(* The process dies in append(), after the write and before the return.     *)
CrashInAppend ==
  /\ Appending /\ Failing
  /\ up' = FALSE
  /\ file' = Written(TRUE) /\ tail' = "clean"
  /\ Unacknowledged
  /\ UNCHANGED <<synced, broken, syncErrors, shortWrites, powerLosses>>

(* Power is lost: lines that were never synced are gone from some point on, *)
(* and the first of them may be there without its end.                      *)
PowerLoss ==
  /\ powerLosses < MaxPowerLosses /\ powerLosses' = powerLosses + 1
  /\ up' = FALSE
  /\ \E n \in synced..Len(file) :
       \/ /\ file' = SubSeq(file, 1, n)
          /\ tail' = IF n = Len(file) THEN tail ELSE "clean"
       \/ /\ n < Len(file)
          /\ \E whole \in {FALSE, file[n + 1].whole} :
               file' = Append(SubSeq(file, 1, n), [rec |-> file[n + 1].rec, whole |-> whole])
          /\ tail' = "torn"
  /\ Unacknowledged
  /\ UNCHANGED <<synced, broken, attempts, syncErrors, shortWrites, crashes>>

(* createLedger(): reads line by line into memory, and the first one that   *)
(* does not parse makes the ledger refuse from then on.                     *)
Readable(n) == \A k \in 1..n : file[k].whole
ReadTo(n) == Readable(n) /\ ~(n < Len(file) /\ file[n + 1].whole)

Restart ==
  /\ ~up /\ up' = TRUE
  /\ \E n \in 0..Len(file) :
       /\ ReadTo(n)
       /\ broken' = (n # Len(file))
       /\ memory' = [k \in 1..n |-> file[k].rec]
       /\ seq' = IF n = 0 THEN 0 ELSE file[n].rec.seq
       /\ prevHash' = IF n = 0 THEN GENESIS ELSE file[n].rec.hash
  /\ UNCHANGED <<file, tail, synced, acked, counters>>

LedgerNext ==
  \/ AppendOk \/ AppendNothing \/ AppendUnsynced \/ AppendShort
  \/ Crash \/ CrashInAppend \/ PowerLoss \/ Restart

LedgerSpec == LedgerInit /\ [][LedgerNext]_ledgerVars

-----------------------------------------------------------------------------
(* verify(): every record names the hash of the one before it.  That the    *)
(* body matches its hash is not in doubt here: nothing rewrites a record.   *)
verify(mem) ==
  \A k \in DOMAIN mem :
    mem[k].prevHash = IF k = 1 THEN GENESIS ELSE mem[k - 1].hash

(* The chain in memory verifies in every life of the process, whatever the  *)
(* crashes and torn lines, as long as no append threw after its line was    *)
(* written.                                                                 *)
ChainVerifies == syncErrors = 0 => verify(memory)

(* Sequence numbers that append() returned are never given out again, over  *)
(* crashes, restarts and failed appends.                                    *)
AckedSeqsIncrease ==
  \A j, k \in DOMAIN acked : j < k => acked[j].seq < acked[k].seq

(* What append() returned can be read back from the file, through failed    *)
(* appends and deaths of the process, unless a write was short or the power *)
(* failed.                                                                  *)
OnFile(rec) == \E k \in DOMAIN file : file[k].whole /\ file[k].rec = rec
AckedOnFile ==
  shortWrites = 0 /\ powerLosses = 0 => \A k \in DOMAIN acked : OnFile(acked[k])

(* A ledger that accepts appends shows every record ever acknowledged: a    *)
(* reload either finds them all or refuses.                                 *)
AckedVisible ==
  up /\ ~broken => \A k \in DOMAIN acked : \E m \in DOMAIN memory : memory[m] = acked[k]

(* What append() returned is never lost unnoticed: it stays in the file     *)
(* through failed appends and deaths of the process, and a ledger that      *)
(* accepts appends shows it (ledger.js:42-84).                              *)
AckedSurvives == AckedOnFile /\ AckedVisible

(* ledger.js:86: verify() detects a mutated or removed record; nothing here *)
(* mutates or removes one.                                                  *)
NeverReportsTampering == verify(memory)
=============================================================================
