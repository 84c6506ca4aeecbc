---------------------------- MODULE LedgerProofs ----------------------------
(***************************************************************************)
(* What the ledger guarantees however many appends, failures and restarts  *)
(* there are: sequence numbers are never reused, the chain verifies unless *)
(* an append threw after its line was written, and what was acknowledged   *)
(* is in the file.  And what the archive does: its documents and rules     *)
(* outlive failed writes and crashes.                                      *)
(***************************************************************************)
EXTENDS Ledger, Archive, SequenceTheorems, TLAPS

LastSeq(n) == IF n = 0 THEN 0 ELSE file[n].rec.seq
LastHash(n) == IF n = 0 THEN GENESIS ELSE file[n].rec.hash
AckedUpTo(s) == \A k \in DOMAIN acked : acked[k].seq <= s
ChainTo(n) == \A k \in 1..n : file[k].rec.prevHash = LastHash(k - 1)

(* A line runs on only in one that is there.                               *)
TornIsLine == tail = "torn" => Len(file) > 0

(* A process that may append has seen every acknowledged number.           *)
AckedBelowSeq == up /\ ~broken => AckedUpTo(seq)

(* So has one that reloads any file a power failure can leave: as long as  *)
(* it can be read, its last line is at least as recent as every record     *)
(* acknowledged.                                                           *)
AckedBelowFile ==
  \A n \in synced..Len(file) : Readable(n) => AckedUpTo(LastSeq(n))

(* What can be read of the file is a chain, and appends extend it.         *)
FileIsChain ==
  syncErrors = 0 => \A n \in 0..Len(file) : Readable(n) => ChainTo(n)

MemoryExtendsFile ==
  syncErrors = 0 /\ up /\ ~broken =>
    /\ prevHash = IF Len(memory) = 0 THEN GENESIS ELSE memory[Len(memory)].hash
    /\ Readable(Len(file)) => prevHash = LastHash(Len(file))

-----------------------------------------------------------------------------
USE LedgerAssumption

LEMMA NextRecordType == LedgerTypeOK => NextRecord \in Record
  BY DEF LedgerTypeOK, NextRecord, Record

(* What a line's bytes do to the file: a line more, or a last line that    *)
(* cannot be read; the lines before stay as they were.                     *)
LEMMA WrittenLemma ==
  ASSUME LedgerTypeOK, TornIsLine, NEW w \in BOOLEAN
  PROVE  /\ Written(w) \in Seq(Line)
         /\ tail = "torn" => /\ Len(Written(w)) = Len(file)
                             /\ ~Written(w)[Len(file)].whole
                             /\ \A k \in 1..Len(file) : Written(w)[k].rec = file[k].rec
                             /\ \A k \in 1..Len(file) - 1 : Written(w)[k] = file[k]
         /\ tail # "torn" => /\ Len(Written(w)) = Len(file) + 1
                             /\ Written(w)[Len(file) + 1] = [rec |-> NextRecord, whole |-> w]
                             /\ \A k \in 1..Len(file) : Written(w)[k] = file[k]
<1>1. file \in Seq(Line) /\ Len(file) \in Nat
  BY DEF LedgerTypeOK
<1>2. CASE tail = "torn"
  <2>1. Len(file) \in 1..Len(file)
    BY <1>1, <1>2 DEF TornIsLine
  <2>2. file[Len(file)] \in Line
    BY <1>1, <2>1
  <2> DEFINE cut == [file[Len(file)] EXCEPT !.whole = FALSE]
  <2>3. cut \in Line /\ ~cut.whole /\ cut.rec = file[Len(file)].rec
    BY <2>2 DEF Line
  <2>4. Written(w) = [file EXCEPT ![Len(file)] = cut]
    BY <1>2 DEF Written
  <2> HIDE DEF cut
  <2>5. Written(w) \in Seq(Line) /\ Len(Written(w)) = Len(file)
    BY <1>1, <2>1, <2>3, <2>4, ExceptSeq
  <2>6. \A k \in 1..Len(file) : Written(w)[k] = IF k = Len(file) THEN cut ELSE file[k]
    BY <1>1, <2>1, <2>3, <2>4, ExceptSeq
  <2>7. Written(w)[Len(file)] = cut
    BY <2>1, <2>6
  <2>8. \A k \in 1..Len(file) - 1 : Written(w)[k] = file[k]
    BY <1>1, <2>6
  <2>9. QED BY <1>1, <1>2, <2>3, <2>5, <2>6, <2>7, <2>8
<1>3. CASE tail # "torn"
  <2>1. [rec |-> NextRecord, whole |-> w] \in Line
    BY NextRecordType DEF Line
  <2>2. Written(w) = Append(file, [rec |-> NextRecord, whole |-> w])
    BY <1>3 DEF Written
  <2>3. QED BY <1>1, <1>3, <2>1, <2>2, AppendProperties
<1>4. QED BY <1>2, <1>3

LEMMA AckLemma ==
  ASSUME LedgerTypeOK, Acknowledge
  PROVE  /\ seq' \in Nat /\ prevHash' \in Nat
         /\ memory' \in Seq(Record) /\ acked' \in Seq(Record)
         /\ Len(memory') = Len(memory) + 1 /\ Len(acked') = Len(acked) + 1
         /\ memory'[Len(memory) + 1] = NextRecord /\ acked'[Len(acked) + 1] = NextRecord
         /\ \A k \in 1..Len(memory) : memory'[k] = memory[k]
         /\ \A k \in 1..Len(acked) : acked'[k] = acked[k]
<1>1. NextRecord \in Record /\ NextRecord.seq \in Nat /\ NextRecord.hash \in Nat
  BY NextRecordType DEF Record
<1>2. memory \in Seq(Record) /\ acked \in Seq(Record)
  BY DEF LedgerTypeOK
<1>3. QED BY <1>1, <1>2, AppendProperties DEF Acknowledge

(* What a power failure leaves: a prefix of the file, at least the part    *)
(* that was synced, and perhaps a last line that is no more readable than  *)
(* it was.                                                                 *)
LEMMA PowerLossLemma ==
  ASSUME LedgerTypeOK, TornIsLine, PowerLoss
  PROVE  /\ file' \in Seq(Line) /\ tail' \in {"clean", "torn"}
         /\ synced <= Len(file') /\ Len(file') <= Len(file)
         /\ tail' = "torn" => Len(file') > 0
         /\ \A k \in 1..Len(file') : /\ file'[k].rec = file[k].rec
                                     /\ file'[k].whole => file[k].whole
<1>1. PICK n \in synced..Len(file) :
        \/ /\ file' = SubSeq(file, 1, n)
           /\ tail' = IF n = Len(file) THEN tail ELSE "clean"
        \/ /\ n < Len(file)
           /\ \E whole \in {FALSE, file[n + 1].whole} :
                file' = Append(SubSeq(file, 1, n), [rec |-> file[n + 1].rec, whole |-> whole])
           /\ tail' = "torn"
  BY DEF PowerLoss
<1>2. file \in Seq(Line) /\ Len(file) \in Nat /\ n \in Nat /\ synced <= n /\ n <= Len(file)
  BY DEF LedgerTypeOK
<1>3. /\ SubSeq(file, 1, n) \in Seq(Line)
      /\ Len(SubSeq(file, 1, n)) = n
      /\ \A k \in 1..n : SubSeq(file, 1, n)[k] = file[k]
  <2>1. \A k \in 1..n : file[k] \in Line
    BY <1>2
  <2>2. QED BY <1>2, <2>1, SubSeqProperties
<1>4. CASE file' = SubSeq(file, 1, n) /\ tail' = IF n = Len(file) THEN tail ELSE "clean"
  BY <1>2, <1>3, <1>4 DEF LedgerTypeOK, TornIsLine
<1>5. ASSUME n < Len(file), tail' = "torn", NEW w \in {FALSE, file[n + 1].whole},
             file' = Append(SubSeq(file, 1, n), [rec |-> file[n + 1].rec, whole |-> w])
      PROVE  /\ file' \in Seq(Line) /\ tail' \in {"clean", "torn"}
             /\ synced <= Len(file') /\ Len(file') <= Len(file)
             /\ tail' = "torn" => Len(file') > 0
             /\ \A k \in 1..Len(file') : /\ file'[k].rec = file[k].rec
                                         /\ file'[k].whole => file[k].whole
  <2>1. file[n + 1] \in Line
    BY <1>2, <1>5
  <2>2. [rec |-> file[n + 1].rec, whole |-> w] \in Line
    BY <1>5, <2>1 DEF Line
  <2>3. /\ file' \in Seq(Line) /\ Len(file') = n + 1
        /\ file'[n + 1] = [rec |-> file[n + 1].rec, whole |-> w]
        /\ \A k \in 1..n : file'[k] = file[k]
    BY <1>2, <1>3, <1>5, <2>2, AppendProperties
  <2>4. file'[n + 1].rec = file[n + 1].rec /\ (file'[n + 1].whole => file[n + 1].whole)
    <3>1. file'[n + 1].rec = file[n + 1].rec /\ file'[n + 1].whole = w
      BY <2>3
    <3>2. CASE w = FALSE
      BY <3>1, <3>2
    <3>3. CASE w = file[n + 1].whole
      BY <3>1, <3>3
    <3>4. QED BY <3>2, <3>3
  <2>5. \A k \in 1..n + 1 : file'[k].rec = file[k].rec /\ (file'[k].whole => file[k].whole)
    BY <1>2, <2>3, <2>4
  <2>6. synced \in Nat
    BY DEF LedgerTypeOK
  <2>7. QED BY <1>2, <1>5, <2>3, <2>5, <2>6
<1>6. QED BY <1>1, <1>4, <1>5

LEMMA RestartLemma ==
  ASSUME LedgerTypeOK, Restart
  PROVE  \E n \in 0..Len(file) :
           /\ Readable(n)
           /\ broken' = (n # Len(file))
           /\ memory' \in Seq(Record) /\ Len(memory') = n
           /\ \A k \in 1..n : memory'[k] = file[k].rec
           /\ seq' = LastSeq(n) /\ seq' \in Nat
           /\ prevHash' = LastHash(n) /\ prevHash' \in Nat
<1>1. PICK n \in 0..Len(file) :
        /\ Readable(n)
        /\ broken' = (n # Len(file))
        /\ memory' = [k \in 1..n |-> file[k].rec]
        /\ seq' = LastSeq(n)
        /\ prevHash' = LastHash(n)
  BY DEF Restart, ReadTo, LastSeq, LastHash
<1>2. n \in Nat /\ \A k \in 1..n : file[k] \in Line
  BY DEF LedgerTypeOK
<1>3. \A k \in 1..n : file[k].rec \in Record
  BY <1>2 DEF Line
<1>4. memory' \in Seq(Record) /\ Len(memory') = n
  BY <1>1, <1>2, <1>3, SeqDef, LenProperties
<1>5. LastSeq(n) \in Nat /\ LastHash(n) \in Nat
  BY <1>2, <1>3 DEF LastSeq, LastHash, GENESIS, Record
<1>6. QED BY <1>1, <1>4, <1>5

-----------------------------------------------------------------------------
(* The type invariant.                                                      *)
LEMMA LedgerInitTypeOK == LedgerInit => LedgerTypeOK /\ TornIsLine
<1> SUFFICES ASSUME LedgerInit PROVE LedgerTypeOK /\ TornIsLine
  OBVIOUS
<1>1. up \in BOOLEAN /\ broken \in BOOLEAN
  BY Zenon DEF LedgerInit
<1>2. <<>> \in Seq(Line) /\ <<>> \in Seq(Record) /\ Len(<<>>) = 0
  OBVIOUS
<1>3. QED BY <1>1, <1>2 DEF LedgerInit, LedgerTypeOK, TornIsLine, GENESIS

CountersTypeOK ==
  /\ attempts \in 0..MaxAppends
  /\ syncErrors \in 0..MaxSyncErrors
  /\ shortWrites \in 0..MaxShortWrites
  /\ crashes \in 0..MaxCrashes
  /\ powerLosses \in 0..MaxPowerLosses

LEMMA CountersStepTypeOK ==
  ASSUME LedgerTypeOK, [LedgerNext]_ledgerVars
  PROVE  CountersTypeOK'
<1>1. CountersTypeOK
  BY DEF LedgerTypeOK, CountersTypeOK
<1>2. CASE AppendOk
  BY <1>1, <1>2 DEF AppendOk, Appending, CountersTypeOK
<1>3. CASE AppendNothing
  BY <1>1, <1>3 DEF AppendNothing, Appending, CountersTypeOK
<1>4. CASE AppendUnsynced
  BY <1>1, <1>4 DEF AppendUnsynced, Appending, CountersTypeOK
<1>5. CASE AppendShort
  BY <1>1, <1>5 DEF AppendShort, Appending, CountersTypeOK
<1>6. CASE Crash
  BY <1>1, <1>6 DEF Crash, Failing, CountersTypeOK
<1>7. CASE CrashInAppend
  BY <1>1, <1>7 DEF CrashInAppend, Appending, Failing, CountersTypeOK
<1>8. CASE PowerLoss
  BY <1>1, <1>8 DEF PowerLoss, CountersTypeOK
<1>9. CASE Restart
  BY <1>1, <1>9 DEF Restart, counters, CountersTypeOK
<1>10. CASE UNCHANGED ledgerVars
  BY <1>1, <1>10 DEF ledgerVars, CountersTypeOK
<1>11. QED
  BY <1>2, <1>3, <1>4, <1>5, <1>6, <1>7, <1>8, <1>9, <1>10 DEF LedgerNext

LEMMA FlagsTypeOK ==
  ASSUME LedgerTypeOK, [LedgerNext]_ledgerVars
  PROVE  up' \in BOOLEAN /\ broken' \in BOOLEAN
  BY Zenon DEF LedgerTypeOK, LedgerNext, ledgerVars, AppendOk, AppendNothing,
         AppendUnsynced, AppendShort, Crash, CrashInAppend, PowerLoss, Restart

ChainTypeOK ==
  /\ seq \in Nat /\ prevHash \in Nat
  /\ memory \in Seq(Record) /\ acked \in Seq(Record)

LEMMA ChainStepTypeOK ==
  ASSUME LedgerTypeOK, [LedgerNext]_ledgerVars
  PROVE  ChainTypeOK'
<1>1. ChainTypeOK
  BY DEF LedgerTypeOK, ChainTypeOK
<1>2. CASE Acknowledge
  BY <1>2, AckLemma DEF ChainTypeOK
<1>3. CASE Restart
  BY <1>1, <1>3, RestartLemma DEF Restart, ChainTypeOK
<1>4. CASE UNCHANGED <<seq, prevHash, memory, acked>>
  BY <1>1, <1>4 DEF ChainTypeOK
<1>5. QED
  BY <1>2, <1>3, <1>4 DEF LedgerNext, ledgerVars, AppendOk, AppendNothing,
     AppendUnsynced, AppendShort, Crash, CrashInAppend, PowerLoss, Unacknowledged

FileTypeOK ==
  /\ file \in Seq(Line)
  /\ tail \in {"clean", "torn"}
  /\ synced \in 0..Len(file)
  /\ TornIsLine

LEMMA FileStepTypeOK ==
  ASSUME LedgerTypeOK, TornIsLine, [LedgerNext]_ledgerVars
  PROVE  FileTypeOK'
<1>1. FileTypeOK
  BY DEF LedgerTypeOK, FileTypeOK
<1>2. ASSUME NEW w \in BOOLEAN, file' = Written(w), tail' \in {"clean", "torn"},
             synced' = Len(file') \/ synced' = synced
      PROVE  FileTypeOK'
  <2>1. /\ Written(w) \in Seq(Line) /\ Len(Written(w)) \in Nat
        /\ Len(Written(w)) >= Len(file) /\ Len(Written(w)) > 0
    <3>1. Written(w) \in Seq(Line)
      BY WrittenLemma
    <3>2. Len(file) \in Nat
      BY DEF LedgerTypeOK
    <3>3. CASE tail = "torn"
      <4>1. Len(file) > 0
        BY <3>3 DEF TornIsLine
      <4>2. Len(Written(w)) = Len(file)
        BY <3>3, WrittenLemma
      <4>3. QED BY <3>1, <3>2, <4>1, <4>2
    <3>4. CASE tail # "torn"
      <4>1. Len(Written(w)) = Len(file) + 1
        BY <3>4, WrittenLemma
      <4>2. QED BY <3>1, <3>2, <4>1
    <3>5. QED BY <3>3, <3>4
  <2>2. QED BY <1>1, <1>2, <2>1 DEF FileTypeOK, TornIsLine
<1>3. CASE UNCHANGED <<file, tail, synced>>
  BY <1>1, <1>3 DEF FileTypeOK, TornIsLine
<1>4. CASE AppendOk \/ AppendUnsynced \/ CrashInAppend
  BY <1>2, <1>4 DEF AppendOk, AppendUnsynced, CrashInAppend
<1>5. CASE AppendShort
  BY <1>2, <1>5 DEF AppendShort
<1>6. CASE PowerLoss
  <2>1. synced' = synced /\ synced \in Nat
    BY <1>6 DEF PowerLoss, LedgerTypeOK
  <2>2. QED BY <1>6, <2>1, PowerLossLemma DEF FileTypeOK, TornIsLine
<1>7. QED
  BY <1>3, <1>4, <1>5, <1>6 DEF LedgerNext, ledgerVars, AppendNothing, Crash, Restart

LEMMA LedgerStepTypeOK ==
  LedgerTypeOK /\ TornIsLine /\ [LedgerNext]_ledgerVars => LedgerTypeOK' /\ TornIsLine'
<1> SUFFICES ASSUME LedgerTypeOK, TornIsLine, [LedgerNext]_ledgerVars
             PROVE  LedgerTypeOK' /\ TornIsLine'
  OBVIOUS
<1>1. FileTypeOK' /\ ChainTypeOK'
  BY FileStepTypeOK, ChainStepTypeOK
<1>2. QED
  BY <1>1, CountersStepTypeOK, FlagsTypeOK
  DEF LedgerTypeOK, FileTypeOK, ChainTypeOK, CountersTypeOK

(* The ledger's state is well typed in every behaviour.                    *)
THEOREM LedgerTypeCorrect == LedgerSpec => []LedgerTypeOK
  BY LedgerInitTypeOK, LedgerStepTypeOK, PTL DEF LedgerSpec

-----------------------------------------------------------------------------
(* What can be read of the file after a step, in terms of what could be    *)
(* read before it.                                                         *)
SameTo(n) == \A k \in 1..n : file'[k].rec = file[k].rec

LEMMA SamePrefix ==
  ASSUME NEW n \in Nat, SameTo(n)
  PROVE  /\ \A m \in 0..n : LastSeq(m)' = LastSeq(m) /\ LastHash(m)' = LastHash(m)
         /\ ChainTo(n) => ChainTo(n)'
<1>1. \A m \in 0..n : LastSeq(m)' = LastSeq(m) /\ LastHash(m)' = LastHash(m)
  BY DEF SameTo, LastSeq, LastHash
<1>2. \A k \in 1..n : k - 1 \in 0..n
  OBVIOUS
<1>3. QED BY <1>1, <1>2 DEF ChainTo, SameTo

LEMMA WrittenReads ==
  ASSUME LedgerTypeOK, TornIsLine, NEW w \in BOOLEAN, file' = Written(w),
         NEW n \in 0..Len(file'), Readable(n)'
  PROVE  \/ /\ n \in 0..Len(file) /\ (tail = "torn" => n < Len(file))
            /\ Readable(n) /\ SameTo(n)
         \/ /\ tail # "torn" /\ n = Len(file) + 1
            /\ Readable(Len(file)) /\ SameTo(Len(file))
            /\ file'[n].rec = NextRecord
<1>1. Len(file) \in Nat
  BY DEF LedgerTypeOK
<1>2. CASE tail = "torn"
  <2>1. /\ Len(file') = Len(file) /\ ~file'[Len(file)].whole
        /\ \A k \in 1..Len(file) - 1 : file'[k] = file[k]
    BY <1>2, WrittenLemma
  <2>2. n < Len(file)
    BY <1>1, <1>2, <2>1 DEF TornIsLine, Readable
  <2>3. QED BY <1>1, <2>1, <2>2 DEF Readable, SameTo
<1>3. CASE tail # "torn"
  <2>1. /\ Len(file') = Len(file) + 1
        /\ file'[Len(file) + 1] = [rec |-> NextRecord, whole |-> w]
        /\ \A k \in 1..Len(file) : file'[k] = file[k]
    BY <1>3, WrittenLemma
  <2>2. CASE n = Len(file) + 1
    BY <1>1, <1>3, <2>1, <2>2 DEF Readable, SameTo
  <2>3. CASE n # Len(file) + 1
    BY <1>1, <1>3, <2>1, <2>3 DEF Readable, SameTo
  <2>4. QED BY <2>2, <2>3
<1>4. QED BY <1>2, <1>3

LEMMA PowerLossReads ==
  ASSUME LedgerTypeOK, TornIsLine, PowerLoss, NEW n \in 0..Len(file'), Readable(n)'
  PROVE  n \in 0..Len(file) /\ Readable(n) /\ SameTo(n)
<1>1. Len(file) \in Nat
  BY DEF LedgerTypeOK
<1>2. Len(file') \in Nat /\ Len(file') <= Len(file)
  BY PowerLossLemma
<1>3. \A k \in 1..Len(file') : /\ file'[k].rec = file[k].rec
                               /\ file'[k].whole => file[k].whole
  BY PowerLossLemma
<1>4. n \in Nat /\ n <= Len(file') /\ n \in 0..Len(file)
  BY <1>1, <1>2
<1>5. \A k \in 1..n : k \in 1..Len(file')
  BY <1>2, <1>4
<1>6. \A k \in 1..n : file'[k].whole
  BY DEF Readable
<1>7. Readable(n)
  BY <1>3, <1>5, <1>6, Zenon DEF Readable
<1>8. SameTo(n)
  BY <1>3, <1>5 DEF SameTo
<1>9. QED BY <1>4, <1>7, <1>8

-----------------------------------------------------------------------------
(* Sequence numbers.                                                        *)
SeqInv ==
  /\ LedgerTypeOK /\ TornIsLine
  /\ AckedBelowSeq
  /\ AckedBelowFile
  /\ AckedSeqsIncrease

LEMMA AcknowledgeSeqs ==
  ASSUME LedgerTypeOK, Acknowledge, AckedUpTo(seq), AckedSeqsIncrease
  PROVE  seq' = seq + 1 /\ AckedUpTo(seq)' /\ AckedSeqsIncrease'
<1>1. /\ seq \in Nat /\ seq' = seq + 1 /\ NextRecord.seq = seq + 1
      /\ acked \in Seq(Record) /\ Len(acked) \in Nat
      /\ \A k \in 1..Len(acked) : acked[k].seq \in Nat
  <2>1. seq \in Nat /\ acked \in Seq(Record) /\ Len(acked) \in Nat
    BY DEF LedgerTypeOK
  <2>2. \A k \in 1..Len(acked) : acked[k].seq \in Nat
    <3>1. \A k \in 1..Len(acked) : acked[k] \in Record
      BY <2>1
    <3>2. QED BY <3>1 DEF Record
  <2>3. QED BY <2>1, <2>2 DEF Acknowledge, NextRecord
<1>2. /\ DOMAIN acked = 1..Len(acked) /\ DOMAIN acked' = 1..Len(acked) + 1
      /\ acked'[Len(acked) + 1] = NextRecord
      /\ \A k \in 1..Len(acked) : acked'[k] = acked[k]
  BY <1>1, AckLemma, LenProperties
<1>3. \A k \in 1..Len(acked) : acked[k].seq <= seq
  BY <1>2 DEF AckedUpTo
<1>4. \A k \in 1..Len(acked) : acked'[k].seq < acked'[Len(acked) + 1].seq
  BY <1>1, <1>2, <1>3
<1>5. AckedUpTo(seq)'
  BY <1>1, <1>2, <1>3 DEF AckedUpTo
<1>6. AckedSeqsIncrease'
  BY <1>1, <1>2, <1>4 DEF AckedSeqsIncrease
<1>7. QED BY <1>1, <1>5, <1>6

LEMMA AppendSeqs ==
  ASSUME SeqInv, NEW w \in BOOLEAN, Appending, file' = Written(w), synced' = Len(file'),
         Acknowledge
  PROVE  AckedBelowSeq' /\ AckedBelowFile' /\ AckedSeqsIncrease'
<1>1. AckedUpTo(seq)
  BY DEF SeqInv, AckedBelowSeq, Appending
<1>2. seq' = seq + 1 /\ AckedUpTo(seq)' /\ AckedSeqsIncrease'
  BY <1>1, AcknowledgeSeqs DEF SeqInv
<1>3. ASSUME NEW n \in synced'..Len(file'), Readable(n)'
      PROVE  AckedUpTo(LastSeq(n))'
  <2>1. Len(file) \in Nat /\ Len(file') \in Nat
    BY WrittenLemma DEF SeqInv, LedgerTypeOK
  <2>2. n = Len(file') /\ n \in 0..Len(file')
    BY <2>1, <1>3
  <2>3. tail # "torn" /\ n = Len(file) + 1 /\ file'[n].rec = NextRecord
    <3>1. tail = "torn" => Len(file') = Len(file)
      BY WrittenLemma DEF SeqInv
    <3>2. tail # "torn" => Len(file') = Len(file) + 1
      BY WrittenLemma DEF SeqInv
    <3>3. QED BY <1>3, <2>1, <2>2, <3>1, <3>2, WrittenReads DEF SeqInv
  <2>4. LastSeq(n)' = seq'
    BY <1>2, <2>1, <2>3 DEF LastSeq, NextRecord
  <2>5. QED BY <1>2, <2>4 DEF AckedUpTo
<1>4. QED BY <1>2, <1>3 DEF AckedBelowSeq, AckedBelowFile

(* The line is written, and append() does not return.                      *)
LEMMA UnacknowledgedSeqs ==
  ASSUME SeqInv, Appending, file' = Written(TRUE), Unacknowledged, synced' = synced
  PROVE  AckedBelowFile'
<1> SUFFICES ASSUME NEW n \in synced..Len(file'), Readable(n)'
             PROVE  AckedUpTo(LastSeq(n))'
  BY DEF AckedBelowFile
<1>1. AckedUpTo(seq) /\ seq \in Nat
  BY DEF SeqInv, AckedBelowSeq, Appending, LedgerTypeOK
<1>2. synced \in Nat /\ Len(file) \in Nat /\ acked' = acked /\ acked \in Seq(Record)
  BY DEF SeqInv, LedgerTypeOK, Unacknowledged
<1>3. n \in 0..Len(file')
  <2>1. file' \in Seq(Line)
    BY WrittenLemma DEF SeqInv
  <2>2. Len(file') \in Nat
    BY <2>1, LenProperties
  <2>3. \A m \in Nat : \A k \in synced..m : k \in 0..m
    BY <1>2
  <2>4. QED BY <2>2, <2>3
<1>4. CASE n \in 0..Len(file) /\ Readable(n) /\ SameTo(n)
  <2>1. LastSeq(n)' = LastSeq(n)
    BY <1>4, SamePrefix
  <2>2. n \in synced..Len(file)
    BY <1>2, <1>4
  <2>3. AckedUpTo(LastSeq(n))
    BY <1>4, <2>2 DEF SeqInv, AckedBelowFile
  <2>4. QED BY <1>2, <2>1, <2>3 DEF AckedUpTo
<1>5. CASE n = Len(file) + 1 /\ file'[n].rec = NextRecord
  <2>1. LastSeq(n)' = seq + 1
    <3>1. n # 0 /\ NextRecord.seq = seq + 1
      BY <1>2, <1>5 DEF NextRecord
    <3>2. QED BY <1>5, <3>1 DEF LastSeq
  <2>2. \A k \in DOMAIN acked : acked[k].seq \in Nat
    <3>1. \A k \in DOMAIN acked : acked[k] \in Record
      BY <1>2, LenProperties
    <3>2. QED BY <3>1 DEF Record
  <2>3. QED BY <1>1, <1>2, <2>1, <2>2 DEF AckedUpTo
<1>6. QED BY <1>3, <1>4, <1>5, WrittenReads DEF SeqInv

LEMMA PowerLossSeqs == ASSUME SeqInv, PowerLoss PROVE AckedBelowFile'
<1> SUFFICES ASSUME NEW n \in synced..Len(file'), Readable(n)'
             PROVE  AckedUpTo(LastSeq(n))'
  BY DEF AckedBelowFile, PowerLoss
<1>1. synced \in Nat /\ acked' = acked
  BY DEF SeqInv, LedgerTypeOK, PowerLoss, Unacknowledged
<1>2. n \in 0..Len(file')
  BY <1>1
<1>3. n \in 0..Len(file) /\ Readable(n) /\ SameTo(n)
  BY <1>2, PowerLossReads DEF SeqInv
<1>4. n \in synced..Len(file) /\ LastSeq(n)' = LastSeq(n)
  BY <1>1, <1>3, SamePrefix
<1>5. QED BY <1>1, <1>3, <1>4 DEF SeqInv, AckedBelowFile, AckedUpTo

LEMMA RestartSeqs == ASSUME SeqInv, Restart PROVE AckedBelowSeq'
<1>1. PICK n \in 0..Len(file) :
        Readable(n) /\ broken' = (n # Len(file)) /\ seq' = LastSeq(n)
  BY RestartLemma DEF SeqInv
<1>2. synced \in 0..Len(file) /\ Len(file) \in Nat /\ acked' = acked
  BY DEF SeqInv, LedgerTypeOK, Restart
<1>3. CASE ~broken'
  <2>1. n = Len(file)
    BY <1>1, <1>3, Zenon
  <2>2. n \in synced..Len(file)
    BY <1>2, <2>1
  <2>3. AckedUpTo(seq')
    BY <1>1, <2>2 DEF SeqInv, AckedBelowFile
  <2>4. QED BY <1>2, <2>3 DEF AckedBelowSeq, AckedUpTo
<1>4. QED BY <1>3 DEF AckedBelowSeq

LEMMA SeqsStep ==
  ASSUME SeqInv, [LedgerNext]_ledgerVars
  PROVE  AckedBelowSeq' /\ AckedBelowFile' /\ AckedSeqsIncrease'
<1>2. CASE UNCHANGED <<file, synced, seq, acked, up, broken>>
  BY <1>2 DEF SeqInv, AckedBelowSeq, AckedBelowFile, AckedSeqsIncrease, AckedUpTo,
     LastSeq, Readable
<1>3. ASSUME UNCHANGED <<seq, acked, broken>>, up' => up
      PROVE  AckedBelowSeq' /\ AckedSeqsIncrease'
  BY <1>3 DEF SeqInv, AckedBelowSeq, AckedSeqsIncrease, AckedUpTo
<1>4. CASE AppendOk
  BY <1>4, AppendSeqs DEF AppendOk
<1>5. CASE AppendNothing
  BY <1>2, <1>5 DEF AppendNothing, Unacknowledged
<1>6. CASE AppendUnsynced
  BY <1>3, <1>6, UnacknowledgedSeqs DEF AppendUnsynced, Unacknowledged
<1>7. CASE AppendShort
  BY <1>7, AppendSeqs DEF AppendShort
<1>8. CASE Crash
  <2>1. AckedBelowFile'
    BY <1>8 DEF Crash, SeqInv, AckedBelowFile, AckedUpTo, LastSeq, Readable
  <2>2. QED BY <1>3, <1>8, <2>1 DEF Crash
<1>9. CASE CrashInAppend
  BY <1>3, <1>9, UnacknowledgedSeqs DEF CrashInAppend, Unacknowledged
<1>10. CASE PowerLoss
  BY <1>3, <1>10, PowerLossSeqs DEF PowerLoss, Unacknowledged
<1>11. CASE Restart
  <2>1. AckedBelowFile' /\ AckedSeqsIncrease'
    BY <1>11 DEF Restart, SeqInv, AckedBelowFile, AckedSeqsIncrease, AckedUpTo, LastSeq, Readable
  <2>2. QED BY <1>11, <2>1, RestartSeqs
<1>12. CASE UNCHANGED ledgerVars
  BY <1>2, <1>12 DEF ledgerVars
<1>13. QED
  BY <1>4, <1>5, <1>6, <1>7, <1>8, <1>9, <1>10, <1>11, <1>12 DEF LedgerNext
LEMMA SeqInvInductive == SeqInv /\ [LedgerNext]_ledgerVars => SeqInv'
  BY SeqsStep, LedgerStepTypeOK DEF SeqInv

LEMMA SeqInvInit == LedgerInit => SeqInv
  BY LedgerInitTypeOK DEF LedgerInit, SeqInv, AckedBelowSeq, AckedBelowFile, AckedUpTo,
     AckedSeqsIncrease

(* A sequence number that append() returned is never given out again, over *)
(* any number of failed appends, crashes and restarts.                     *)
THEOREM SeqsNeverReused == LedgerSpec => []AckedSeqsIncrease
<1>1. SeqInv => AckedSeqsIncrease
  BY DEF SeqInv
<1>2. QED BY <1>1, SeqInvInit, SeqInvInductive, PTL DEF LedgerSpec

-----------------------------------------------------------------------------
(* The chain.                                                               *)
ChainInv ==
  /\ LedgerTypeOK /\ TornIsLine
  /\ FileIsChain
  /\ MemoryExtendsFile
  /\ ChainVerifies

LEMMA WrittenKeepsChain ==
  ASSUME ChainInv, NEW w \in BOOLEAN, file' = Written(w), Appending,
         syncErrors = 0, syncErrors' = 0
  PROVE  FileIsChain'
<1> SUFFICES ASSUME NEW n \in 0..Len(file'), Readable(n)'
             PROVE  ChainTo(n)'
  BY DEF FileIsChain
<1>1. Len(file) \in Nat
  BY DEF ChainInv, LedgerTypeOK
<1>2. CASE n \in 0..Len(file) /\ Readable(n) /\ SameTo(n)
  <2>1. ChainTo(n)
    BY <1>2 DEF ChainInv, FileIsChain
  <2>2. QED BY <1>2, <2>1, SamePrefix
<1>3. CASE /\ n = Len(file) + 1 /\ Readable(Len(file)) /\ SameTo(Len(file))
           /\ file'[n].rec = NextRecord
  <2>1. PICK m \in 0..Len(file) : m = Len(file)
    BY <1>1
  <2>2. m \in Nat /\ n = m + 1
    BY <1>1, <1>3, <2>1
  <2>3. ChainTo(m) /\ prevHash = LastHash(m)
    BY <1>3, <2>1 DEF ChainInv, FileIsChain, MemoryExtendsFile, Appending
  <2>4. SameTo(m) /\ m \in 0..m
    BY <1>3, <2>1, <2>2
  <2>5. ChainTo(m)' /\ LastHash(m)' = LastHash(m)
    BY <2>2, <2>3, <2>4, SamePrefix
  <2>6. file'[m + 1].rec.prevHash = prevHash
    BY <1>3, <2>2 DEF NextRecord
  <2>7. \A k \in 1..m + 1 : (k = m + 1 /\ k - 1 = m) \/ k \in 1..m
    BY <2>2
  <2>8. \A k \in 1..m + 1 : file'[k].rec.prevHash = LastHash(k - 1)'
    BY <2>3, <2>5, <2>6, <2>7 DEF ChainTo
  <2>9. QED BY <2>2, <2>8 DEF ChainTo
<1>4. QED BY <1>2, <1>3, WrittenReads DEF ChainInv

LEMMA MemoryFacts ==
  ASSUME LedgerTypeOK
  PROVE  /\ memory \in Seq(Record) /\ Len(memory) \in Nat
         /\ DOMAIN memory = 1..Len(memory)
  BY LenProperties DEF LedgerTypeOK

(* append() returns: the record continues the chain of the file and the    *)
(* one in memory.                                                          *)
LEMMA AppendChain ==
  ASSUME ChainInv, NEW w \in BOOLEAN, Appending, file' = Written(w), Acknowledge,
         LedgerTypeOK', syncErrors = 0, syncErrors' = 0
  PROVE  FileIsChain' /\ MemoryExtendsFile' /\ ChainVerifies'
<1>1. /\ Len(memory) \in Nat /\ DOMAIN memory = 1..Len(memory)
      /\ DOMAIN memory' = 1..Len(memory) + 1 /\ Len(memory') = Len(memory) + 1
      /\ memory'[Len(memory) + 1] = NextRecord
      /\ \A k \in 1..Len(memory) : memory'[k] = memory[k]
  <2>1. ChainInv => LedgerTypeOK
    BY DEF ChainInv
  <2>2. memory' \in Seq(Record)
    BY <2>1, AckLemma
  <2>3. DOMAIN memory' = 1..Len(memory')
    BY <2>2, LenProperties
  <2>4. /\ Len(memory') = Len(memory) + 1
        /\ memory'[Len(memory) + 1] = NextRecord
        /\ \A k \in 1..Len(memory) : memory'[k] = memory[k]
    BY <2>1, AckLemma
  <2>5. QED BY <2>1, <2>3, <2>4, MemoryFacts
<1>2. NextRecord.prevHash = prevHash /\ prevHash' = NextRecord.hash
  BY DEF NextRecord, Acknowledge
<1>3. prevHash = IF Len(memory) = 0 THEN GENESIS ELSE memory[Len(memory)].hash
  BY DEF ChainInv, MemoryExtendsFile, Appending
<1>4. ChainVerifies'
  <2>1. \A k \in 1..Len(memory) :
          memory[k].prevHash = IF k = 1 THEN GENESIS ELSE memory[k - 1].hash
    BY <1>1 DEF ChainInv, ChainVerifies, verify
  <2>2. ASSUME NEW k \in 1..Len(memory)
        PROVE  memory'[k].prevHash = IF k = 1 THEN GENESIS ELSE memory'[k - 1].hash
    BY <1>1, <2>1
  <2>3. ASSUME NEW k \in 1..Len(memory) + 1, k = Len(memory) + 1
        PROVE  memory'[k].prevHash = IF k = 1 THEN GENESIS ELSE memory'[k - 1].hash
    <3>1. memory'[k].prevHash = prevHash
      BY <1>1, <1>2, <2>3
    <3>2. k - 1 = Len(memory) /\ (k # 1 => Len(memory) \in 1..Len(memory))
      BY <1>1, <2>3
    <3>3. QED BY <1>1, <1>3, <3>1, <3>2
  <2>4. \A k \in 1..Len(memory) + 1 : k \in 1..Len(memory) \/ k = Len(memory) + 1
    BY <1>1
  <2>5. QED BY <1>1, <2>2, <2>3, <2>4 DEF ChainVerifies, verify
<1>5. MemoryExtendsFile'
  <2>1. prevHash' = IF Len(memory') = 0 THEN GENESIS ELSE memory'[Len(memory')].hash
    BY <1>1, <1>2
  <2>2. ASSUME Readable(Len(file))'
        PROVE  prevHash' = LastHash(Len(file))'
    <3>1. Len(file) \in Nat
      BY DEF ChainInv, LedgerTypeOK
    <3>2. Len(file') \in Nat
      BY LenProperties DEF LedgerTypeOK
    <3>3. Len(file') = Len(file) + 1 /\ file'[Len(file')].rec = NextRecord
      <4>1. tail = "torn" => Len(file') = Len(file)
        BY WrittenLemma DEF ChainInv
      <4>2. tail # "torn" => Len(file') = Len(file) + 1
        BY WrittenLemma DEF ChainInv
      <4>3. \A n \in 0..Len(file') : n = Len(file') => Readable(n)'
        BY <2>2 DEF Readable
      <4>4. Len(file') \in 0..Len(file')
        BY <3>2
      <4>5. PICK n \in 0..Len(file') : n = Len(file') /\ Readable(n)'
        BY <4>3, <4>4
      <4>6. QED BY <3>1, <4>1, <4>2, <4>5, WrittenReads DEF ChainInv
    <3>4. QED BY <1>2, <3>1, <3>3 DEF LastHash
  <2>3. QED BY <2>1, <2>2 DEF MemoryExtendsFile
<1>6. QED BY <1>4, <1>5, WrittenKeepsChain

LEMMA PowerLossChain ==
  ASSUME ChainInv, PowerLoss
  PROVE  FileIsChain'
<1> SUFFICES ASSUME syncErrors = 0, NEW n \in 0..Len(file'), Readable(n)'
             PROVE  ChainTo(n)'
  BY DEF FileIsChain, PowerLoss
<1>1. n \in 0..Len(file) /\ Readable(n) /\ SameTo(n)
  BY PowerLossReads DEF ChainInv
<1>2. n \in Nat /\ ChainTo(n)
  BY <1>1 DEF ChainInv, FileIsChain
<1>3. QED BY <1>1, <1>2, SamePrefix

LEMMA RestartChain ==
  ASSUME ChainInv, Restart
  PROVE  FileIsChain' /\ MemoryExtendsFile' /\ ChainVerifies'
<1>1. PICK n \in 0..Len(file) :
        /\ Readable(n)
        /\ broken' = (n # Len(file))
        /\ memory' \in Seq(Record) /\ Len(memory') = n
        /\ \A k \in 1..n : memory'[k] = file[k].rec
        /\ prevHash' = LastHash(n)
  BY RestartLemma DEF ChainInv
<1>2. n \in Nat /\ DOMAIN memory' = 1..n
  BY <1>1, LenProperties
<1>3. file' = file /\ syncErrors' = syncErrors
  BY DEF Restart, counters
<1>4. FileIsChain'
  BY <1>3 DEF ChainInv, FileIsChain, Readable, ChainTo, LastHash
<1>5. ChainVerifies'
  <2> SUFFICES ASSUME syncErrors = 0, NEW k \in 1..n
               PROVE  memory'[k].prevHash = IF k = 1 THEN GENESIS ELSE memory'[k - 1].hash
    BY <1>2, <1>3 DEF ChainVerifies, verify
  <2>1. file[k].rec.prevHash = LastHash(k - 1)
    BY <1>1 DEF ChainInv, FileIsChain, ChainTo
  <2>2. k # 1 => k - 1 \in 1..n /\ k - 1 # 0
    BY <1>2
  <2>3. QED BY <1>1, <1>2, <2>1, <2>2 DEF LastHash
<1>6. MemoryExtendsFile'
  <2>1. prevHash' = IF Len(memory') = 0 THEN GENESIS ELSE memory'[Len(memory')].hash
    <3>1. n # 0 => n \in 1..n
      BY <1>2
    <3>2. QED BY <1>1, <3>1 DEF LastHash
  <2>2. ~broken' => n = Len(file)
    BY <1>1, Zenon
  <2>3. ~broken' => prevHash' = LastHash(Len(file))'
    BY <1>1, <1>3, <2>2 DEF LastHash
  <2>4. QED BY <2>1, <2>3 DEF MemoryExtendsFile
<1>7. QED BY <1>4, <1>5, <1>6

LEMMA ChainStep ==
  ASSUME ChainInv, [LedgerNext]_ledgerVars, LedgerTypeOK'
  PROVE  FileIsChain' /\ MemoryExtendsFile' /\ ChainVerifies'
<1>1. syncErrors \in Nat
  BY DEF ChainInv, LedgerTypeOK
<1>2. CASE UNCHANGED <<file, prevHash, memory, syncErrors, broken, up>>
  BY <1>2 DEF ChainInv, FileIsChain, MemoryExtendsFile, ChainVerifies, verify,
     Readable, ChainTo, LastHash
<1>3. ASSUME UNCHANGED <<memory, syncErrors>>, ~up'
      PROVE  MemoryExtendsFile' /\ ChainVerifies'
  BY <1>3 DEF ChainInv, MemoryExtendsFile, ChainVerifies, verify
<1>4. CASE AppendOk \/ AppendShort
  <2>1. PICK w \in BOOLEAN : file' = Written(w) /\ Appending /\ Acknowledge
    BY <1>4 DEF AppendOk, AppendShort
  <2>2. syncErrors' = syncErrors
    BY <1>4 DEF AppendOk, AppendShort
  <2>3. CASE syncErrors = 0
    BY <2>1, <2>2, <2>3, AppendChain
  <2>4. CASE syncErrors # 0
    BY <2>2, <2>4 DEF FileIsChain, MemoryExtendsFile, ChainVerifies
  <2>5. QED BY <2>3, <2>4
<1>5. CASE AppendNothing
  BY <1>2, <1>5 DEF AppendNothing, Unacknowledged
<1>6. CASE AppendUnsynced
  <2>1. syncErrors' # 0
    BY <1>1, <1>6 DEF AppendUnsynced
  <2>2. QED BY <2>1 DEF FileIsChain, MemoryExtendsFile, ChainVerifies
<1>7. CASE Crash
  <2>1. FileIsChain'
    BY <1>7 DEF Crash, ChainInv, FileIsChain, Readable, ChainTo, LastHash
  <2>2. QED BY <1>3, <1>7, <2>1 DEF Crash
<1>8. CASE CrashInAppend
  <2>1. /\ UNCHANGED <<memory, syncErrors>> /\ ~up'
        /\ file' = Written(TRUE) /\ Appending
    BY <1>8 DEF CrashInAppend, Unacknowledged
  <2>2. CASE syncErrors = 0
    BY <1>3, <2>1, <2>2, WrittenKeepsChain
  <2>3. CASE syncErrors # 0
    BY <1>3, <2>1, <2>3 DEF FileIsChain
  <2>4. QED BY <2>2, <2>3
<1>9. CASE PowerLoss
  BY <1>3, <1>9, PowerLossChain DEF PowerLoss, Unacknowledged
<1>10. CASE Restart
  BY <1>10, RestartChain
<1>11. CASE UNCHANGED ledgerVars
  BY <1>2, <1>11 DEF ledgerVars
<1>12. QED
  BY <1>4, <1>5, <1>6, <1>7, <1>8, <1>9, <1>10, <1>11 DEF LedgerNext

LEMMA ChainInvInductive == ChainInv /\ [LedgerNext]_ledgerVars => ChainInv'
  BY ChainStep, LedgerStepTypeOK DEF ChainInv

LEMMA ChainInvInit == LedgerInit => ChainInv
<1> SUFFICES ASSUME LedgerInit PROVE ChainInv
  OBVIOUS
<1>1. Len(file) = 0 /\ Len(memory) = 0 /\ DOMAIN memory = {} /\ prevHash = GENESIS
  BY DEF LedgerInit
<1>2. QED
  BY <1>1, LedgerInitTypeOK DEF ChainInv, FileIsChain, MemoryExtendsFile, ChainVerifies,
     verify, Readable, ChainTo, LastHash

(* The chain in memory verifies in every life of the process, however many *)
(* crashes, short writes and power failures there are, as long as no append *)
(* threw after its line was written.                                       *)
THEOREM ChainAlwaysVerifies == LedgerSpec => []ChainVerifies
<1>1. ChainInv => ChainVerifies
  BY DEF ChainInv
<1>2. QED BY <1>1, ChainInvInit, ChainInvInductive, PTL DEF LedgerSpec

-----------------------------------------------------------------------------
(* What was acknowledged stays.                                             *)

(* When every line that survives a power failure can be read, they hold     *)
(* every record acknowledged: a synced line that cannot be read is there    *)
(* for good, and a reload refuses the file from then on.                    *)
HeldIn(n) == \A a \in DOMAIN acked : \E k \in 1..n : file[k].rec = acked[a]
AckedIsSynced == Readable(synced) => HeldIn(synced)

(* Only a short write or a power failure leaves a line that cannot be read. *)
NothingTorn == shortWrites = 0 /\ powerLosses = 0 => tail = "clean" /\ Readable(Len(file))

SurvivalInv == LedgerTypeOK /\ TornIsLine /\ AckedIsSynced /\ NothingTorn /\ AckedVisible

LEMMA HeldStays ==
  ASSUME NEW n \in Nat, HeldIn(n), SameTo(n), acked' = acked
  PROVE  HeldIn(n)'
<1> SUFFICES ASSUME NEW a \in DOMAIN acked PROVE \E k \in 1..n : file'[k].rec = acked[a]
  BY DEF HeldIn
<1>1. PICK k \in 1..n : file[k].rec = acked[a]
  BY DEF HeldIn
<1>2. file'[k].rec = file[k].rec
  BY DEF SameTo
<1>3. QED BY <1>1, <1>2

LEMMA WrittenGrows ==
  ASSUME LedgerTypeOK, TornIsLine, NEW w \in BOOLEAN, file' = Written(w)
  PROVE  /\ Len(file) \in Nat /\ Len(file') \in Nat /\ Len(file) <= Len(file')
         /\ tail = "torn" => Len(file') = Len(file)
         /\ tail # "torn" => Len(file') = Len(file) + 1
         /\ tail # "torn" => file'[Len(file) + 1].whole = w
         /\ tail # "torn" => \A k \in 1..Len(file) : file'[k] = file[k]
<1>1. Len(file) \in Nat
  BY DEF LedgerTypeOK
<1>2. CASE tail = "torn"
  <2>1. Len(file') = Len(file)
    BY <1>2, WrittenLemma
  <2>2. QED BY <1>1, <1>2, <2>1
<1>3. CASE tail # "torn"
  <2>1. /\ Len(file') = Len(file) + 1 /\ file'[Len(file) + 1] = [rec |-> NextRecord, whole |-> w]
        /\ \A k \in 1..Len(file) : file'[k] = file[k]
    BY <1>3, WrittenLemma
  <2>2. file'[Len(file) + 1].whole = w
    BY <2>1
  <2>3. QED BY <1>1, <1>3, <2>1, <2>2
<1>4. QED BY <1>2, <1>3

(* A whole line after whole lines.                                          *)
LEMMA WholeStays ==
  ASSUME LedgerTypeOK, TornIsLine, tail = "clean", Readable(Len(file)), file' = Written(TRUE)
  PROVE  Readable(Len(file))'
<1>1. TRUE \in BOOLEAN /\ tail # "torn"
  OBVIOUS
<1>2. /\ Len(file') = Len(file) + 1 /\ Len(file) \in Nat /\ file'[Len(file) + 1].whole
      /\ \A k \in 1..Len(file) : file'[k] = file[k]
  BY <1>1, WrittenGrows
<1>3. ASSUME NEW k \in 1..Len(file') PROVE file'[k].whole
  <2>1. CASE k = Len(file) + 1
    BY <1>2, <2>1
  <2>2. CASE k \in 1..Len(file)
    BY <1>2, <2>2 DEF Readable
  <2>3. k = Len(file) + 1 \/ k \in 1..Len(file)
    <3>1. k \in 1..Len(file) + 1
      BY <1>2
    <3>2. QED BY <1>2, <3>1
  <2>4. QED BY <2>1, <2>2, <2>3
<1>4. QED BY <1>3 DEF Readable

(* A line written beside the lines that were synced.                        *)
LEMMA UnacknowledgedSurvives ==
  ASSUME SurvivalInv, file' = Written(TRUE), tail' = "clean", Unacknowledged, synced' = synced,
         UNCHANGED <<shortWrites, powerLosses>>
  PROVE  AckedIsSynced' /\ NothingTorn'
<1>1. LedgerTypeOK /\ TornIsLine /\ TRUE \in BOOLEAN /\ Len(file) \in Nat /\ synced \in 0..Len(file)
  BY DEF SurvivalInv, LedgerTypeOK
<1>2. Len(file') \in Nat /\ Len(file) <= Len(file')
  BY <1>1, WrittenGrows
<1>3. AckedIsSynced'
  <2> SUFFICES ASSUME Readable(synced)' PROVE HeldIn(synced)'
    BY DEF AckedIsSynced
  <2>1. synced \in 0..Len(file') /\ synced \in Nat /\ synced # Len(file) + 1
    <3>1. synced \in Nat /\ synced <= Len(file) /\ Len(file) \in Nat
      BY <1>1
    <3>2. PICK s \in Nat, l \in Nat, m \in Nat : s = synced /\ l = Len(file) /\ m = Len(file')
      BY <1>2, <3>1
    <3>3. s <= l /\ l <= m
      BY <1>2, <3>1, <3>2
    <3>4. s \in 0..m /\ s # l + 1
      BY <3>3
    <3>5. QED BY <3>2, <3>4
  <2>0. PICK n \in 0..Len(file') : n = synced
    BY <2>1
  <2>2. Readable(n) /\ SameTo(n)
    <3>1. Readable(n)'
      BY <2>0 DEF Readable
    <3>2. QED BY <1>1, <2>0, <2>1, <3>1, WrittenReads
  <2>3. HeldIn(n) /\ acked' = acked
    BY <2>0, <2>2 DEF SurvivalInv, AckedIsSynced, Unacknowledged
  <2>4. HeldIn(n)'
    BY <2>0, <2>1, <2>2, <2>3, HeldStays
  <2>5. QED BY <2>0, <2>4 DEF HeldIn
<1>4. ASSUME shortWrites = 0, powerLosses = 0 PROVE Readable(Len(file))'
  <2>1. tail = "clean" /\ Readable(Len(file))
    BY <1>4 DEF SurvivalInv, NothingTorn
  <2>2. QED BY <1>1, <2>1, WholeStays
<1>5. QED BY <1>3, <1>4 DEF NothingTorn

(* A line that is synced and acknowledged, whole or not.                    *)
LEMMA AcknowledgedSurvives ==
  ASSUME SurvivalInv, NEW w \in BOOLEAN, file' = Written(w), synced' = Len(file'), Acknowledge, up' = up, broken' = broken
  PROVE  AckedIsSynced' /\ AckedVisible'
<1>1. LedgerTypeOK /\ TornIsLine /\ Len(file) \in Nat /\ synced \in 0..Len(file)
  BY DEF SurvivalInv, LedgerTypeOK
<1>2. /\ Len(acked') = Len(acked) + 1 /\ acked'[Len(acked) + 1] = NextRecord
      /\ \A a \in 1..Len(acked) : acked'[a] = acked[a]
      /\ Len(memory') = Len(memory) + 1 /\ memory'[Len(memory) + 1] = NextRecord
      /\ \A m \in 1..Len(memory) : memory'[m] = memory[m]
  BY <1>1, AckLemma
<1>3. /\ DOMAIN acked = 1..Len(acked) /\ Len(acked) \in Nat /\ DOMAIN acked' = 1..Len(acked')
      /\ DOMAIN memory = 1..Len(memory) /\ Len(memory) \in Nat /\ DOMAIN memory' = 1..Len(memory')
  BY <1>1, AckLemma DEF LedgerTypeOK
<1>4. \A a \in DOMAIN acked' : a \in DOMAIN acked \/ a = Len(acked) + 1
  BY <1>2, <1>3
<1>5. AckedIsSynced'
  <2> SUFFICES ASSUME \A k \in 1..Len(file') : file'[k].whole, NEW a \in DOMAIN acked'
               PROVE  \E k \in 1..Len(file') : file'[k].rec = acked'[a]
    BY DEF AckedIsSynced, HeldIn, Readable
  <2>1. Len(file') \in Nat
    BY <1>1, WrittenGrows
  <2>2. (tail = "torn" => Len(file') = Len(file)) /\ (tail # "torn" => Len(file') = Len(file) + 1)
    BY <1>1, WrittenGrows
  <2>0. PICK n \in 0..Len(file') : n = Len(file')
    BY <2>1
  <2>3. /\ n = Len(file) + 1 /\ Readable(Len(file)) /\ SameTo(Len(file))
        /\ file'[n].rec = NextRecord
    <3>1. Readable(n)'
      BY <2>0 DEF Readable
    <3>2. ~(n \in 0..Len(file) /\ (tail = "torn" => n < Len(file)))
      BY <1>1, <2>0, <2>2
    <3>3. QED BY <1>1, <2>0, <3>1, <3>2, WrittenReads
  <2>4. CASE a = Len(acked) + 1
    BY <1>2, <2>0, <2>1, <2>3, <2>4
  <2>5. CASE a \in DOMAIN acked
    <3>1. Readable(synced)
      BY <1>1, <2>3 DEF Readable
    <3>2. PICK k \in 1..synced : file[k].rec = acked[a]
      BY <2>5, <3>1 DEF SurvivalInv, AckedIsSynced, HeldIn
    <3>3. k \in 1..Len(file) /\ k \in 1..Len(file')
      BY <1>1, <2>0, <2>3
    <3>4. file'[k].rec = acked'[a]
      BY <1>2, <1>3, <2>3, <2>5, <3>2, <3>3 DEF SameTo
    <3>5. QED BY <3>3, <3>4
  <2>6. QED BY <1>4, <2>4, <2>5
<1>6. AckedVisible'
  <2> SUFFICES ASSUME up, ~broken, NEW a \in DOMAIN acked'
               PROVE  \E m \in DOMAIN memory' : memory'[m] = acked'[a]
    BY DEF AckedVisible
  <2>1. CASE a = Len(acked) + 1
    BY <1>2, <1>3, <2>1
  <2>2. CASE a \in DOMAIN acked
    <3>1. PICK m \in DOMAIN memory : memory[m] = acked[a]
      BY <2>2 DEF SurvivalInv, AckedVisible
    <3>2. m \in DOMAIN memory' /\ memory'[m] = acked'[a]
      BY <1>2, <1>3, <2>2, <3>1
    <3>3. QED BY <3>2
  <2>3. QED BY <1>4, <2>1, <2>2
<1>7. QED BY <1>5, <1>6

(* A reload that takes the file takes all of it, the synced lines with it.  *)
LEMMA RestartSurvives == ASSUME SurvivalInv, Restart PROVE AckedVisible'
<1>1. PICK n \in 0..Len(file) :
        /\ Readable(n) /\ broken' = (n # Len(file)) /\ memory' \in Seq(Record) /\ Len(memory') = n
        /\ \A k \in 1..n : memory'[k] = file[k].rec
  BY RestartLemma DEF SurvivalInv
<1> SUFFICES ASSUME ~broken', NEW a \in DOMAIN acked PROVE \E m \in DOMAIN memory' : memory'[m] = acked[a]
  BY DEF AckedVisible, Restart
<1>2. n = Len(file) /\ Len(file) \in Nat /\ synced \in 0..Len(file)
  <2>1. n = Len(file)
    BY <1>1, Zenon
  <2>2. QED BY <2>1 DEF SurvivalInv, LedgerTypeOK
<1>3. Readable(synced)
  BY <1>1, <1>2 DEF Readable
<1>4. PICK k \in 1..synced : file[k].rec = acked[a]
  BY <1>3 DEF SurvivalInv, AckedIsSynced, HeldIn
<1>5. k \in 1..n /\ DOMAIN memory' = 1..n
  BY <1>1, <1>2
<1>6. memory'[k] = acked[a]
  BY <1>1, <1>4, <1>5
<1>7. QED BY <1>5, <1>6

(* A power failure leaves the synced lines, no more readable than before.   *)
LEMMA PowerLossSurvives == ASSUME SurvivalInv, PowerLoss PROVE AckedIsSynced'
<1> SUFFICES ASSUME Readable(synced)' PROVE HeldIn(synced)'
  BY DEF AckedIsSynced
<1>1. LedgerTypeOK /\ TornIsLine /\ synced \in Nat /\ synced' = synced /\ acked' = acked
  BY DEF SurvivalInv, LedgerTypeOK, PowerLoss, Unacknowledged
<1>2. synced \in 0..Len(file')
  BY <1>1, PowerLossLemma
<1>3. Readable(synced) /\ SameTo(synced)
  BY <1>1, <1>2, PowerLossReads
<1>4. HeldIn(synced)
  BY <1>3 DEF SurvivalInv, AckedIsSynced
<1>5. QED BY <1>1, <1>3, <1>4, HeldStays

LEMMA SurvivalStep ==
  ASSUME SurvivalInv, [LedgerNext]_ledgerVars
  PROVE  AckedIsSynced' /\ NothingTorn' /\ AckedVisible'
<1>1. ASSUME UNCHANGED <<file, tail, synced, acked, shortWrites, powerLosses>>
      PROVE  AckedIsSynced' /\ NothingTorn'
  BY <1>1 DEF SurvivalInv, AckedIsSynced, NothingTorn, HeldIn, Readable
<1>2. ASSUME UNCHANGED <<memory, acked, broken>>, up' => up PROVE AckedVisible'
  BY <1>2 DEF SurvivalInv, AckedVisible
<1>3. CASE AppendOk
  <2>1. AckedIsSynced' /\ AckedVisible'
    BY <1>3, AcknowledgedSurvives DEF AppendOk
  <2>2. ASSUME shortWrites = 0, powerLosses = 0 PROVE Readable(Len(file))'
    <3>1. /\ LedgerTypeOK /\ TornIsLine /\ Len(file) \in Nat /\ file' = Written(TRUE)
          /\ tail = "clean" /\ Readable(Len(file))
      BY <1>3, <2>2 DEF AppendOk, SurvivalInv, LedgerTypeOK, NothingTorn
    <3>2. QED BY <3>1, WholeStays
  <2>3. QED BY <1>3, <2>1, <2>2 DEF AppendOk, NothingTorn
<1>4. CASE AppendNothing
  BY <1>1, <1>2, <1>4 DEF AppendNothing, Unacknowledged
<1>5. CASE AppendUnsynced
  BY <1>2, <1>5, UnacknowledgedSurvives DEF AppendUnsynced, Unacknowledged
<1>6. CASE AppendShort
  <2>1. PICK w \in BOOLEAN : file' = Written(w)
    BY <1>6 DEF AppendShort
  <2>2. AckedIsSynced' /\ AckedVisible'
    BY <1>6, <2>1, AcknowledgedSurvives DEF AppendShort
  <2>3. shortWrites' # 0
    BY <1>6 DEF AppendShort, SurvivalInv, LedgerTypeOK
  <2>4. QED BY <2>2, <2>3 DEF NothingTorn
<1>7. CASE Crash
  BY <1>1, <1>2, <1>7 DEF Crash
<1>8. CASE CrashInAppend
  BY <1>2, <1>8, UnacknowledgedSurvives DEF CrashInAppend, Unacknowledged
<1>9. CASE PowerLoss
  <2>1. powerLosses' # 0
    BY <1>9 DEF PowerLoss, SurvivalInv, LedgerTypeOK
  <2>2. QED BY <1>2, <1>9, <2>1, PowerLossSurvives DEF PowerLoss, Unacknowledged, NothingTorn
<1>10. CASE Restart
  BY <1>1, <1>10, RestartSurvives DEF Restart, counters
<1>11. CASE UNCHANGED ledgerVars
  BY <1>1, <1>2, <1>11 DEF ledgerVars
<1>12. QED
  BY <1>3, <1>4, <1>5, <1>6, <1>7, <1>8, <1>9, <1>10, <1>11 DEF LedgerNext

LEMMA SurvivalInvInit == LedgerInit => SurvivalInv
  BY LedgerInitTypeOK DEF LedgerInit, SurvivalInv, AckedIsSynced, HeldIn, NothingTorn, AckedVisible, Readable

LEMMA SurvivalInductive == LedgerSpec => []SurvivalInv
<1>1. SurvivalInv /\ [LedgerNext]_ledgerVars => SurvivalInv'
  BY SurvivalStep, LedgerStepTypeOK DEF SurvivalInv
<1>2. QED BY <1>1, SurvivalInvInit, PTL DEF LedgerSpec

LEMMA SurvivalGives == SurvivalInv => AckedOnFile
<1> SUFFICES ASSUME SurvivalInv, shortWrites = 0, powerLosses = 0, NEW a \in DOMAIN acked PROVE OnFile(acked[a])
  BY DEF AckedOnFile
<1>1. Readable(Len(file)) /\ Len(file) \in Nat /\ synced \in 0..Len(file) /\ DOMAIN file = 1..Len(file)
  BY DEF SurvivalInv, NothingTorn, LedgerTypeOK
<1>2. Readable(synced)
  BY <1>1 DEF Readable
<1>3. PICK k \in 1..synced : file[k].rec = acked[a]
  BY <1>2 DEF SurvivalInv, AckedIsSynced, HeldIn
<1>4. k \in DOMAIN file /\ file[k].whole
  BY <1>1 DEF Readable
<1>5. QED BY <1>3, <1>4 DEF OnFile

(* What append() returned is never lost unnoticed, over any number of       *)
(* failed appends, short writes, deaths and power failures: it is in the    *)
(* file unless a write was short or the power failed, and a ledger that     *)
(* accepts appends shows it even then.                                      *)
THEOREM AcknowledgedStays == LedgerSpec => []AckedSurvives
<1>1. SurvivalInv => AckedSurvives
  BY SurvivalGives DEF SurvivalInv, AckedSurvives
<1>2. QED BY <1>1, SurvivalInductive, PTL

-----------------------------------------------------------------------------
(* The archive.  A document answered stored whose file was written once is  *)
(* in its file, whole, and in memory.  The file of the rules is torn, or    *)
(* holds the defaults or the last edit that was answered.                   *)
ArchiveInv ==
  /\ stored \subseteq Docs /\ writes \in [Docs -> Nat]
  /\ DOMAIN adding = AddCalls /\ \A c \in AddCalls : adding[c].stage = "embedding" => adding[c].doc \in Docs
  /\ \A d \in stored : writes[d] = 1 => d \in DOMAIN docFiles /\ docFiles[d] = TRUE /\ d \in docs
  /\ \A d \in stored : writes[d] >= 1
  /\ ruleFile \in {agreed, Seed, Torn}

(* An upload that moves on leaves the others where they are.                *)
LEMMA AddStageMoves ==
  ASSUME ArchiveInv, NEW c \in AddCalls, NEW d, NEW s, AddStage(c, d, s), s = "embedding" => d \in Docs
  PROVE  DOMAIN adding' = AddCalls /\ \A x \in AddCalls : adding'[x].stage = "embedding" => adding'[x].doc \in Docs
<1> DEFINE new == [doc |-> d, stage |-> s]
<1>1. adding' = [adding EXCEPT ![c] = new]
  BY DEF AddStage
<1>2. new.doc = d /\ new.stage = s
  OBVIOUS
<1> HIDE DEF new
<1>3. \A x \in AddCalls : adding'[x] = new \/ adding'[x] = adding[x]
  BY <1>1 DEF ArchiveInv
<1> QED
  BY <1>1, <1>2, <1>3 DEF ArchiveInv

(* A file that is written leaves the other files as they were.              *)
LEMMA WithKeeps ==
  ASSUME NEW f, NEW d, NEW v
  PROVE  /\ \A x \in DOMAIN f : x # d => x \in DOMAIN With(f, d, v) /\ With(f, d, v)[x] = f[x]
         /\ d \in DOMAIN With(f, d, v) /\ With(f, d, v)[d] = v
BY DEF With

(* A write of one document, however it ends, is counted, and what was       *)
(* stored before and not written again is where it was.                     *)
LEMMA WriteKeeps ==
  ASSUME ArchiveInv, NEW d \in Docs, NEW v, writes' = [writes EXCEPT ![d] = @ + 1], docs \subseteq docs',
         docFiles' \in {docFiles, With(docFiles, d, v)}
  PROVE  /\ writes' \in [Docs -> Nat] /\ \A x \in stored : writes'[x] >= 1
         /\ writes'[d] = writes[d] + 1
         /\ \A x \in stored : writes'[x] = 1 => x \in DOMAIN docFiles' /\ docFiles'[x] = TRUE /\ x \in docs'
<1>1. writes' \in [Docs -> Nat] /\ writes'[d] = writes[d] + 1 /\ \A x \in Docs : x # d => writes'[x] = writes[x]
  BY DEF ArchiveInv
<1>2. \A x \in stored : writes'[x] >= 1
  BY <1>1 DEF ArchiveInv
<1>3. ASSUME NEW x \in stored, writes'[x] = 1
      PROVE  x \in DOMAIN docFiles' /\ docFiles'[x] = TRUE /\ x \in docs'
  <2>1. x # d
    BY <1>1, <1>3 DEF ArchiveInv
  <2>2. x \in DOMAIN docFiles /\ docFiles[x] = TRUE /\ x \in docs
    BY <1>1, <1>3, <2>1 DEF ArchiveInv
  <2> QED
    BY <2>1, <2>2, WithKeeps
<1> QED
  BY <1>1, <1>2, <1>3

(* Every step keeps it.                                                     *)
LEMMA ArchiveStep ==
  ASSUME ArchiveInv, [ArchiveNext]_archiveVars
  PROVE  ArchiveInv'
<1>1. ASSUME NEW c \in AddCalls, NEW d \in Docs, addDocument(c, d) PROVE ArchiveInv'
  BY <1>1, AddStageMoves DEF addDocument, DocsOnly, ArchiveInv
<1>2. ASSUME NEW c \in AddCalls, EmbedFails(c) PROVE ArchiveInv'
  <2>1. AddStage(c, adding[c].doc, "failed")
    BY <1>2 DEF EmbedFails
  <2> QED
    BY <1>2, <2>1, AddStageMoves DEF EmbedFails, DocsOnly, ArchiveInv
<1>3. ASSUME NEW c \in AddCalls, Keep(c) PROVE ArchiveInv'
  <2> DEFINE d == adding[c].doc
  <2>1. d \in Docs /\ AddStage(c, d, "stored") /\ docs' = docs \cup {d} /\ stored' = stored \cup {d}
        /\ writes' = [writes EXCEPT ![d] = @ + 1] /\ docFiles' = With(docFiles, d, TRUE) /\ UNCHANGED <<ruleFile, agreed>>
    BY <1>3 DEF Keep, Filed, DocsOnly, ArchiveInv
  <2> HIDE DEF d
  <2>2. DOMAIN adding' = AddCalls /\ \A x \in AddCalls : adding'[x].stage = "embedding" => adding'[x].doc \in Docs
    BY <2>1, AddStageMoves
  <2>3. /\ writes' \in [Docs -> Nat] /\ \A x \in stored : writes'[x] >= 1
        /\ writes'[d] = writes[d] + 1
        /\ \A x \in stored : writes'[x] = 1 => x \in DOMAIN docFiles' /\ docFiles'[x] = TRUE /\ x \in docs'
    BY <2>1, WriteKeeps
  <2>4. d \in DOMAIN docFiles' /\ docFiles'[d] = TRUE /\ d \in docs' /\ writes[d] \in Nat /\ writes'[d] >= 1
    <3>1. d \in DOMAIN With(docFiles, d, TRUE) /\ With(docFiles, d, TRUE)[d] = TRUE
      BY DEF With
    <3>2. writes[d] \in Nat
      BY <2>1 DEF ArchiveInv
    <3>3. writes'[d] >= 1
      BY <2>3, <3>2
    <3> QED
      BY <2>1, <3>1, <3>2, <3>3
  <2>5. \A x \in stored' : writes'[x] >= 1 /\ (writes'[x] = 1 => x \in DOMAIN docFiles' /\ docFiles'[x] = TRUE /\ x \in docs')
    BY <2>1, <2>3, <2>4
  <2>6. stored' \subseteq Docs /\ ruleFile' \in {agreed', Seed, Torn}
    BY <2>1 DEF ArchiveInv
  <2> QED
    BY <2>2, <2>3, <2>5, <2>6 DEF ArchiveInv
<1>4. ASSUME NEW c \in AddCalls, KeepUnwritten(c) PROVE ArchiveInv'
  <2> DEFINE d == adding[c].doc
  <2>1. d \in Docs /\ AddStage(c, d, "failed") /\ docs' = docs \cup {d} /\ stored' = stored
        /\ writes' = [writes EXCEPT ![d] = @ + 1] /\ docFiles' \in {docFiles, With(docFiles, d, FALSE)} /\ UNCHANGED <<ruleFile, agreed>>
    BY <1>4 DEF KeepUnwritten, DocsOnly, ArchiveInv
  <2> HIDE DEF d
  <2>2. DOMAIN adding' = AddCalls /\ \A x \in AddCalls : adding'[x].stage = "embedding" => adding'[x].doc \in Docs
    BY <2>1, AddStageMoves
  <2>3. /\ writes' \in [Docs -> Nat] /\ \A x \in stored : writes'[x] >= 1
        /\ \A x \in stored : writes'[x] = 1 => x \in DOMAIN docFiles' /\ docFiles'[x] = TRUE /\ x \in docs'
    BY <2>1, WriteKeeps
  <2> QED
    BY <2>1, <2>2, <2>3 DEF ArchiveInv
<1>5. ASSUME NEW r \in SUBSET Rules, EditRules(r) \/ EditUnwritten(r) PROVE ArchiveInv'
  BY <1>5 DEF EditRules, EditUnwritten, RulesOnly, ArchiveInv
<1>6. CASE Dies
  <2>1. DOMAIN adding' = AddCalls /\ \A c \in AddCalls : adding'[c].stage # "embedding"
    <3>1. ASSUME NEW c \in AddCalls PROVE Lost(c).stage # "embedding"
      <4>1. CASE adding[c].stage = "embedding"
        <5>1. Lost(c) = [adding[c] EXCEPT !.stage = "failed"]
          BY <4>1 DEF Lost
        <5> QED
          BY <4>1, <5>1
      <4> QED
        BY <4>1 DEF Lost
    <3> QED
      BY <1>6, <3>1 DEF Dies
  <2>2. UNCHANGED <<docs, stored, agreed>> /\ ruleFile' \in {ruleFile, Torn}
    BY <1>6 DEF Dies
  <2>3. CASE UNCHANGED <<docFiles, writes>>
    BY <2>1, <2>2, <2>3 DEF ArchiveInv
  <2>4. CASE \E c \in AddCalls : /\ adding[c].stage = "embedding" /\ docFiles' = With(docFiles, adding[c].doc, FALSE)
                                /\ writes' = [writes EXCEPT ![adding[c].doc] = @ + 1]
    <3>1. PICK d \in Docs : docFiles' = With(docFiles, d, FALSE) /\ writes' = [writes EXCEPT ![d] = @ + 1]
      BY <2>4 DEF ArchiveInv
    <3>2. /\ writes' \in [Docs -> Nat] /\ \A x \in stored : writes'[x] >= 1
          /\ \A x \in stored : writes'[x] = 1 => x \in DOMAIN docFiles' /\ docFiles'[x] = TRUE /\ x \in docs'
      BY <2>2, <3>1, WriteKeeps
    <3> QED
      BY <2>1, <2>2, <3>2 DEF ArchiveInv
  <2> QED
    BY <1>6, <2>3, <2>4 DEF Dies
<1>7. CASE Starts
  <2>1. UNCHANGED <<docFiles, adding, stored, writes, agreed>> /\ docs' = IntactDocs /\ ruleFile' = Reloaded
    BY <1>7 DEF Starts
  <2>2. \A d \in DOMAIN docFiles : docFiles[d] = TRUE => d \in docs'
    BY <2>1 DEF IntactDocs
  <2>3. ruleFile' \in {agreed, Seed, Torn}
    BY <2>1 DEF Reloaded, ArchiveInv
  <2> QED
    BY <2>1, <2>2, <2>3 DEF ArchiveInv
<1>8. CASE UNCHANGED archiveVars
  BY <1>8 DEF archiveVars, ArchiveInv
<1> QED
  BY <1>1, <1>2, <1>3, <1>4, <1>5, <1>6, <1>7, <1>8 DEF ArchiveNext

(* The types are kept besides: an upload belongs to a process that lives.   *)
ADDSTAGE == {"idle", "embedding", "duplicate", "stored", "failed"}
ArchiveTypes ==
  /\ alive \in BOOLEAN /\ faults \in 0..MaxFaults /\ rules \subseteq Rules /\ agreed \subseteq Rules
  /\ ruleFile \in (SUBSET Rules) \cup {Torn} /\ docs \subseteq Docs
  /\ DOMAIN docFiles \subseteq Docs /\ docFiles \in [DOMAIN docFiles -> BOOLEAN]
  /\ adding \in [AddCalls -> [doc : Docs, stage : ADDSTAGE]]
  /\ \A c \in AddCalls : adding[c].stage = "embedding" => alive

LEMMA WithIsTyped ==
  ASSUME DOMAIN docFiles \subseteq Docs, docFiles \in [DOMAIN docFiles -> BOOLEAN], NEW d \in Docs, NEW v \in BOOLEAN
  PROVE  DOMAIN With(docFiles, d, v) \subseteq Docs /\ With(docFiles, d, v) \in [DOMAIN With(docFiles, d, v) -> BOOLEAN]
BY DEF With

(* An upload that moves on is of a document, and waits only in a process    *)
(* that lives.                                                              *)
LEMMA AddStageTyped ==
  ASSUME ArchiveTypes, NEW c \in AddCalls, NEW d \in Docs, NEW s \in ADDSTAGE, AddStage(c, d, s), alive, alive' = alive
  PROVE  /\ adding' \in [AddCalls -> [doc : Docs, stage : ADDSTAGE]]
         /\ \A x \in AddCalls : adding'[x].stage = "embedding" => alive'
BY DEF ArchiveTypes, AddStage

LEMMA ArchiveTypesStep ==
  ASSUME ArchiveTypes, [ArchiveNext]_archiveVars
  PROVE  ArchiveTypes'
<1>f. ASSUME Fault PROVE faults' \in 0..MaxFaults
  BY <1>f, ArchiveAssumption DEF Fault, ArchiveTypes
<1>1. ASSUME NEW c \in AddCalls, NEW d \in Docs, addDocument(c, d) PROVE ArchiveTypes'
  <2>1. alive /\ alive' = alive /\ \E s \in ADDSTAGE : AddStage(c, d, s)
    BY <1>1 DEF addDocument, DocsOnly, ADDSTAGE
  <2> QED
    BY <1>1, <2>1, AddStageTyped DEF addDocument, DocsOnly, ArchiveTypes
<1>2. ASSUME NEW c \in AddCalls, EmbedFails(c) PROVE ArchiveTypes'
  <2>1. alive /\ alive' = alive /\ AddStage(c, adding[c].doc, "failed") /\ adding[c].doc \in Docs /\ "failed" \in ADDSTAGE
    BY <1>2 DEF EmbedFails, DocsOnly, ArchiveTypes, ADDSTAGE
  <2> QED
    BY <1>2, <2>1, AddStageTyped DEF EmbedFails, DocsOnly, ArchiveTypes
<1>3. ASSUME NEW c \in AddCalls, Keep(c) \/ KeepUnwritten(c) PROVE ArchiveTypes'
  <2> DEFINE d == adding[c].doc
  <2>1. d \in Docs
    BY DEF ArchiveTypes
  <2> HIDE DEF d
  <2>2. alive /\ alive' = alive /\ docs' = docs \cup {d} /\ UNCHANGED <<rules, ruleFile, agreed>>
    BY <1>3 DEF Keep, KeepUnwritten, DocsOnly, d
  <2>3. \E s \in ADDSTAGE : AddStage(c, d, s)
    BY <1>3 DEF Keep, KeepUnwritten, ADDSTAGE, d
  <2>4. docFiles' = docFiles \/ \E v \in BOOLEAN : docFiles' = With(docFiles, d, v)
    BY <1>3 DEF Keep, KeepUnwritten, Filed, d
  <2>5. DOMAIN docFiles' \subseteq Docs /\ docFiles' \in [DOMAIN docFiles' -> BOOLEAN]
    BY <2>1, <2>4, WithIsTyped DEF ArchiveTypes
  <2>6. faults' \in 0..MaxFaults
    BY <1>3, <1>f DEF Keep, KeepUnwritten, ArchiveTypes
  <2>7. /\ adding' \in [AddCalls -> [doc : Docs, stage : ADDSTAGE]]
        /\ \A x \in AddCalls : adding'[x].stage = "embedding" => alive'
    BY <2>1, <2>2, <2>3, AddStageTyped
  <2> QED
    BY <2>1, <2>2, <2>5, <2>6, <2>7 DEF ArchiveTypes
<1>4. ASSUME NEW r \in SUBSET Rules, EditRules(r) \/ EditUnwritten(r) PROVE ArchiveTypes'
  <2>1. /\ rules' = r /\ UNCHANGED <<alive, docs, docFiles, adding>> /\ agreed' \in {agreed, r}
        /\ ruleFile' \in {ruleFile, r, Torn}
    BY <1>4 DEF EditRules, EditUnwritten, Edit, RulesOnly
  <2>2. faults' \in 0..MaxFaults
    BY <1>4, <1>f DEF EditRules, EditUnwritten, ArchiveTypes
  <2> QED
    BY <2>1, <2>2 DEF ArchiveTypes
<1>5. CASE Dies
  <2>1. faults' \in 0..MaxFaults /\ alive' = FALSE /\ UNCHANGED <<docs, rules, stored, agreed>> /\ ruleFile' \in {ruleFile, Torn}
    BY <1>5, <1>f DEF Dies
  <2>2. adding' = [c \in AddCalls |-> Lost(c)]
    BY <1>5 DEF Dies
  <2>3. ASSUME NEW c \in AddCalls PROVE Lost(c) \in [doc : Docs, stage : ADDSTAGE] /\ Lost(c).stage # "embedding"
    <3>1. CASE adding[c].stage = "embedding"
      BY <3>1 DEF Lost, ArchiveTypes, ADDSTAGE
    <3>2. CASE adding[c].stage # "embedding"
      BY <3>2 DEF Lost, ArchiveTypes
    <3> QED
      BY <3>1, <3>2
  <2>4. /\ adding' \in [AddCalls -> [doc : Docs, stage : ADDSTAGE]]
        /\ \A x \in AddCalls : adding'[x].stage # "embedding"
    BY <2>2, <2>3
  <2>5. \/ docFiles' = docFiles
        \/ \E c \in AddCalls : docFiles' = With(docFiles, adding[c].doc, FALSE) /\ adding[c].doc \in Docs
    BY <1>5 DEF Dies, ArchiveTypes
  <2>6. DOMAIN docFiles' \subseteq Docs /\ docFiles' \in [DOMAIN docFiles' -> BOOLEAN]
    BY <2>5, WithIsTyped DEF ArchiveTypes
  <2> QED
    BY <2>1, <2>4, <2>6 DEF ArchiveTypes
<1>6. CASE Starts
  <2>1. Reloaded \subseteq Rules
    BY ArchiveAssumption DEF Reloaded, ArchiveTypes
  <2>2. IntactDocs \subseteq Docs
    BY DEF IntactDocs, ArchiveTypes
  <2> QED
    BY <1>6, <2>1, <2>2 DEF Starts, ArchiveTypes
<1>7. CASE UNCHANGED archiveVars
  BY <1>7 DEF archiveVars, ArchiveTypes
<1> QED
  BY <1>1, <1>2, <1>3, <1>4, <1>5, <1>6, <1>7 DEF ArchiveNext

(* A document that was answered stored is there after every restart, unless *)
(* it was uploaded twice at once; and a restart finds the rules as they     *)
(* were last edited, or the defaults, never half an edit.                   *)
THEOREM ArchiveTheorem == ArchiveSpec => []ArchiveTypeOK /\ ArchivePromise
<1>1. ArchiveInit => ArchiveInv
  BY DEF ArchiveInit, ArchiveInv
<1>2. ArchiveInv /\ [ArchiveNext]_archiveVars => ArchiveInv'
  BY ArchiveStep
<1>3. ArchiveInv => KnowledgeSurvives
  <2> SUFFICES ASSUME ArchiveInv, NEW d \in stored PROVE d \in docs \/ writes[d] > 1
    BY DEF KnowledgeSurvives
  <2>1. writes[d] \in Nat
    BY DEF ArchiveInv
  <2> QED
    BY <2>1 DEF ArchiveInv
<1>4. ArchiveInv /\ [ArchiveNext]_archiveVars => [Starts => rules' \in {agreed, Seed}]_archiveVars
  BY DEF ArchiveInv, Starts, Reloaded
<1>5. ArchiveInit => ArchiveTypes
  <2> SUFFICES ASSUME ArchiveInit PROVE ArchiveTypes
    OBVIOUS
  <2>1. (CHOOSE d \in Docs : TRUE) \in Docs
    BY ArchiveAssumption
  <2>2. /\ adding \in [AddCalls -> [doc : Docs, stage : ADDSTAGE]]
        /\ \A c \in AddCalls : adding[c].stage = "idle"
    BY <2>1 DEF ArchiveInit, ADDSTAGE
  <2>3. DOMAIN docFiles = {} /\ docFiles \in [DOMAIN docFiles -> BOOLEAN]
    BY DEF ArchiveInit
  <2> QED
    BY <2>2, <2>3, ArchiveAssumption DEF ArchiveInit, ArchiveTypes
<1>6. ArchiveTypes /\ [ArchiveNext]_archiveVars => ArchiveTypes'
  BY ArchiveTypesStep
<1>7. ArchiveInv /\ ArchiveTypes => ArchiveTypeOK
  BY DEF ArchiveInv, ArchiveTypes, ArchiveTypeOK, ADDSTAGE
<1> QED
  BY <1>1, <1>2, <1>3, <1>4, <1>5, <1>6, <1>7, PTL DEF ArchiveSpec, ArchivePromise, EditsSurvive
=============================================================================
