--------------------------- MODULE FtdcFileProofs -----------------------------
(***************************************************************************)
(* Proofs about what the metrics files of FtdcWriter hold: the order of the *)
(* samples, the headers, the first records, and that deltas can be undone. *)
(*                                                                         *)
(* Each result has an invariant of its own on top of Inv of                *)
(* FtdcWriterProofs.  That the samples are in order needs nothing of what  *)
(* may fail; the others name, as assumptions, the faults that the code does *)
(* not get over, each of which a run or a comment of FtdcWriter shows.     *)
(***************************************************************************)
EXTENDS FtdcWriterProofs
-----------------------------------------------------------------------------
(* Records, and the steps that make one.                                   *)

\* The positions of the records.
Data(lines) == {i \in 1..Len(lines) : IsData(lines[i])}

\* Headers, blank lines and what crashes leave are no records.
LEMMA NoDataLines ==
  ~IsData(Torn) /\ ~IsData(Garbled) /\ ~IsData(Blank) /\ ~IsData(Header)
  BY LineOfType DEF IsData, DataKinds

\* A line that is appended makes no record but itself.
LEMMA AppendLineData ==
  ASSUME NEW lines \in Seq(Line), NEW l \in Line
  PROVE  LET r == AppendLine(lines, l) IN
         \A i \in Data(r) : \/ i \in Data(lines) /\ r[i] = lines[i]
                            \/ i = Len(r) /\ r[i] = l
<1>. DEFINE r == AppendLine(lines, l)
<1>1. /\ r \in Seq(Line) /\ Len(r) # 0
      /\ \A i \in 1..Len(r) - 1 : i \in 1..Len(lines) /\ r[i] = lines[i]
      /\ r[Len(r)] \in {l, Torn, Garbled}
  BY AppendLineFacts
<1>. HIDE DEF r
<1>2. ASSUME NEW i \in Data(r)
      PROVE  (i \in Data(lines) /\ r[i] = lines[i]) \/ (i = Len(r) /\ r[i] = l)
  <2>1. i \in 1..Len(r) /\ IsData(r[i]) /\ Len(r) \in Nat
    BY <1>1, LenProperties DEF Data
  <2>2. CASE i = Len(r)
    BY <1>1, <2>1, <2>2, NoDataLines
  <2>3. CASE i # Len(r)
    <3>1. i \in 1..Len(r) - 1
      BY <2>1, <2>3
    <3>. QED BY <1>1, <2>1, <3>1 DEF Data
  <2>. QED BY <2>2, <2>3
<1>. QED BY <1>2 DEF r

\* An append of at most two lines makes no record but the last of them.
LEMMA AppendLinesData ==
  ASSUME NEW lines \in Seq(Line), NEW ls \in Seq(Line), Len(ls) <= 2,
         Len(ls) = 2 => ~IsData(ls[1])
  PROVE  LET r == AppendLines(lines, ls) IN
         \A i \in Data(r) : \/ i \in Data(lines) /\ r[i] = lines[i]
                            \/ i = Len(r) /\ Len(ls) # 0 /\ r[i] = ls[Len(ls)]
<1>1. Len(ls) \in {0, 1, 2}
  <2>1. Len(ls) \in Nat
    BY LenProperties
  <2>2. \A n \in Nat : n <= 2 => n \in {0, 1, 2}
    OBVIOUS
  <2>. QED BY <2>1, <2>2, Zenon
<1>2. AppendLines(lines, ls) =
        IF Len(ls) = 0 THEN lines
        ELSE IF Len(ls) = 1 THEN AppendLine(lines, ls[1])
        ELSE AppendLine(AppendLine(lines, ls[1]), ls[2])
  BY AppendLinesShort
<1>3. CASE Len(ls) = 0
  BY <1>2, <1>3 DEF Data
<1>4. CASE Len(ls) = 1
  <2>1. ls[1] \in Line
    <3>1. 1 \in 1..Len(ls)
      BY <1>4
    <3>. QED BY <3>1, ElementOfSeq
  <2>2. AppendLines(lines, ls) = AppendLine(lines, ls[1])
    BY <1>2, <1>4
  <2>. QED BY <2>1, <2>2, <1>4, AppendLineData
<1>5. CASE Len(ls) = 2
  <2>. DEFINE m == AppendLine(lines, ls[1])
              r == AppendLine(m, ls[2])
  <2>1. ls[1] \in Line /\ ls[2] \in Line
    <3>1. 1 \in 1..Len(ls) /\ 2 \in 1..Len(ls)
      BY <1>5
    <3>. QED BY <3>1, ElementOfSeq
  <2>2. m \in Seq(Line)
    BY <2>1, AppendLineFacts
  <2>3. \A i \in Data(m) : i \in Data(lines) /\ m[i] = lines[i]
    <3>1. \A i \in Data(m) : (i \in Data(lines) /\ m[i] = lines[i]) \/ m[i] = ls[1]
      BY <2>1, AppendLineData
    <3>2. \A i \in Data(m) : IsData(m[i])
      BY DEF Data
    <3>. QED BY <3>1, <3>2, <1>5
  <2>4. \A i \in Data(r) : (i \in Data(m) /\ r[i] = m[i]) \/ (i = Len(r) /\ r[i] = ls[2])
    BY <2>1, <2>2, AppendLineData
  <2>5. AppendLines(lines, ls) = r
    BY <1>2, <1>5
  <2>. HIDE DEF m, r
  <2>. QED BY <2>3, <2>4, <2>5, <1>5
<1>. QED BY <1>1, <1>3, <1>4, <1>5

\* All records on the disk were there before.
OldData ==
  \A g \in DOMAIN disk' : \A i \in Data(disk'[g]) :
    g \in DOMAIN disk /\ i \in Data(disk[g]) /\ disk'[g][i] = disk[g][i]

\* All records but one at the end of the open file, of the sample in
\* progress, were there before.
NewData ==
  /\ \A g \in DOMAIN disk' : \A i \in Data(disk'[g]) :
       \/ g \in DOMAIN disk /\ i \in Data(disk[g]) /\ disk'[g][i] = disk[g][i]
       \/ g = fp /\ i = Len(disk'[g]) /\ disk'[g][i].seq = seq
  /\ DOMAIN disk' \subseteq DOMAIN disk
  /\ fp # NoFile
  /\ pc = "write" /\ pc' = "idle" /\ seq' = seq /\ now' = now

\* Opening a file makes no record.
LEMMA BecomesOldData ==
  ASSUME DiskType, NEW f, NEW ls \in {<<>>, <<Torn>>, <<Header>>}, Becomes(f, ls)
  PROVE  OldData
<1>1. /\ ls \in Seq(Line) /\ Len(ls) <= 2
      /\ Len(ls) # 2 /\ (Len(ls) # 0 => ~IsData(ls[Len(ls)]))
  <2>1. CASE ls = <<>>
    BY <2>1
  <2>2. CASE ls = <<Torn>>
    BY <2>2, NoDataLines, LineOfType
  <2>3. CASE ls = <<Header>>
    BY <2>3, NoDataLines, LineOfType
  <2>. QED BY <2>1, <2>2, <2>3
<1>2. LinesOf(f) \in Seq(Line)
  BY LinesOfType
<1>3. \A i \in Data(disk'[f]) :
         \/ i \in Data(LinesOf(f)) /\ disk'[f][i] = LinesOf(f)[i]
         \/ i = Len(disk'[f]) /\ Len(ls) # 0 /\ disk'[f][i] = ls[Len(ls)]
  BY <1>1, <1>2, AppendLinesData DEF Becomes
<1>4. \A i \in Data(disk'[f]) : i \in Data(LinesOf(f)) /\ disk'[f][i] = LinesOf(f)[i]
  BY <1>1, <1>3 DEF Data
<1>5. Data(<<>>) = {}
  BY DEF Data
<1>6. \A i \in Data(disk'[f]) : f \in DOMAIN disk /\ LinesOf(f) = disk[f]
  BY <1>4, <1>5 DEF LinesOf
<1>. QED BY <1>4, <1>6 DEF Becomes, OldData

\* What reaches the disk of an append holds one record at most, at its end,
\* that of the sample in progress.
LEMMA PartData ==
  ASSUME Inv, pc = "write", NEW part \in PartOf(encoded)
  PROVE  /\ part \in Seq(Line) /\ Len(part) <= 2
         /\ Len(part) = 2 => ~IsData(part[1])
         /\ Len(part) # 0 /\ IsData(part[Len(part)]) => part[Len(part)].seq = seq
<1>1. seq \in Nat /\ delta_metrics \in BOOLEAN
  BY WriterAssumption DEF Inv, RestOK, Configured
<1>2. part \in Seq(Line) /\ Len(part) <= 2
  BY EncodedInWrite
<1>3. ASSUME NEW a \in Line, encoded = <<a>>, IsData(a) => a.seq = seq
      PROVE  /\ Len(part) = 2 => ~IsData(part[1])
             /\ Len(part) # 0 /\ IsData(part[Len(part)]) => part[Len(part)].seq = seq
  <2>1. part = <<>> \/ part = <<a>> \/ part = <<Torn>>
    BY <1>3, PartOfOne
  <2>. QED BY <2>1, <1>3, NoDataLines
<1>4. ASSUME NEW a \in Line, NEW b \in Line, encoded = <<a, b>>, ~IsData(a), b.seq = seq
      PROVE  /\ Len(part) = 2 => ~IsData(part[1])
             /\ Len(part) # 0 /\ IsData(part[Len(part)]) => part[Len(part)].seq = seq
  <2>1. part = <<>> \/ part = <<a>> \/ part = <<Torn>> \/ part = <<a, b>> \/ part = <<a, Torn>>
    BY <1>4, PartOfTwo
  <2>. QED BY <2>1, <1>4, NoDataLines
<1>5. /\ Blank \in Line
      /\ LineOf("snapshot", 1, seq, 0) \in Line /\ LineOf("snapshot", 1, seq, 0).seq = seq
      /\ LineOf("checkpoint", 2, seq, 0) \in Line /\ LineOf("checkpoint", 2, seq, 0).seq = seq
      /\ LineOf("restart", 2, 0, 0) \in Line /\ ~IsData(LineOf("restart", 2, 0, 0))
      /\ \A b \in 1..seq : LineOf("delta", 2, seq, b) \in Line /\ LineOf("delta", 2, seq, b).seq = seq
  BY <1>1, LineOfType, EncodedLines DEF LineOf, IsData, DataKinds
<1>6. EncodedOK
  BY DEF Inv
<1>7. CASE ~delta_metrics
  BY <1>2, <1>3, <1>5, <1>6, <1>7, NoDataLines DEF EncodedOK
<1>8. CASE delta_metrics
  <2>1. CASE encoded = <<LineOf("checkpoint", 2, seq, 0)>>
    BY <1>2, <1>3, <1>5, <2>1
  <2>2. CASE encoded = <<LineOf("restart", 2, 0, 0), LineOf("checkpoint", 2, seq, 0)>>
    BY <1>2, <1>4, <1>5, <2>2
  <2>3. CASE \E b \in 1..seq : encoded = <<LineOf("delta", 2, seq, b)>>
    BY <1>2, <1>3, <1>5, <2>3
  <2>. QED BY <1>6, <1>8, <2>1, <2>2, <2>3 DEF EncodedOK
<1>. QED BY <1>1, <1>7, <1>8

\* A write makes no record but one at the end of the open file, that of the
\* sample in progress.
LEMMA PartNewData ==
  ASSUME Inv, pc = "write", NEW part \in PartOf(encoded), Becomes(fp, part),
         pc' = "idle", seq' = seq, now' = now
  PROVE  NewData
<1>1. DiskType /\ fp # NoFile /\ fp \in DOMAIN disk
  BY DEF Inv, FileOK
<1>2. LinesOf(fp) = disk[fp] /\ disk[fp] \in Seq(Line)
  BY <1>1 DEF LinesOf, DiskType
<1>3. \A i \in Data(disk'[fp]) :
         \/ i \in Data(disk[fp]) /\ disk'[fp][i] = disk[fp][i]
         \/ i = Len(disk'[fp]) /\ Len(part) # 0 /\ disk'[fp][i] = part[Len(part)]
  BY <1>2, PartData, AppendLinesData DEF Becomes
<1>4. \A i \in Data(disk'[fp]) :
         \/ i \in Data(disk[fp]) /\ disk'[fp][i] = disk[fp][i]
         \/ i = Len(disk'[fp]) /\ disk'[fp][i].seq = seq
  BY <1>3, PartData DEF Data
<1>. QED BY <1>1, <1>4 DEF Becomes, NewData

\* A write that succeeds is one whose parts all arrived.
LEMMA WholeIsPart ==
  ASSUME Inv, pc = "write" PROVE encoded \in PartOf(encoded)
<1>1. SubSeq(encoded, 1, Len(encoded)) = encoded /\ Len(encoded) \in Nat
  BY EncodedInWrite, SubSeqFull, LenProperties
<1>2. Len(encoded) \in 0..Len(encoded)
  BY <1>1
<1>. QED BY <1>1, <1>2 DEF PartOf
-----------------------------------------------------------------------------
(* The order of the samples.                                               *)

\* Assumptions on what fails, each of them needed: a header whose flush fails
\* is not missed (src/rotation.c:244),
HeadersArrive == "header flush" \notin Faults
\* an encoder whose record was not written goes on as if it had been
\* (src/delta.c:660-665), and
WritesSucceed == "write" \notin Faults
\* a rotation whose retention fails does not ask for a checkpoint
\* (src/writer.c:29-34).
TrimsSucceed == "retention" \notin Faults

\* What a step may be to the metrics files: they stay as they are,
KeepsDisk ==
  /\ disk' = disk
  /\ fp' \in {fp, NoFile}
  /\ now' = now \/ now' = now + 1
\* a file is opened, or left at its header,
StartsFile ==
  /\ \E p \in Path, ls \in {<<>>, <<Torn>>, <<Header>>} :
       /\ Becomes(NewFile(p), ls)
       /\ \/ fp' = NoFile
          \/ fp' = NewFile(p) /\ (ls = <<Header>> \/ "header flush" \in Faults)
  /\ now' = now
\* or a record goes to the open file, or a part of it.
WritesFile ==
  /\ pc = "write" /\ pc' = "idle" /\ seq' = seq /\ now' = now
  /\ fp' \in {fp, NoFile}
  /\ \E part \in PartOf(encoded) : Becomes(fp, part)

\* The number of samples whose append has ended.
Ended == IF pc = "idle" THEN seq ELSE seq - 1

\* A rotation starts a file or leaves the disk alone.
LEMMA RotationDisk ==
  ASSUME Inv, NEW p \in Path, now' = now,
         Rotated(p) \/ HeaderLost(p) \/ RotateFailed(p)
  PROVE  KeepsDisk \/ StartsFile
<1>. DEFINE Short == {<<>>, <<Torn>>, <<Header>>}
<1>1. DiskType /\ now \in Nat
  BY WriterAssumption DEF Inv, FileOK, RestOK
<1>2. CASE Rotated(p)
  BY <1>1, <1>2, RotatedEffect DEF Opens, StartsFile
<1>3. CASE HeaderLost(p)
  BY <1>1, <1>3, HeaderLostEffect DEF Opens, StartsFile
<1>4. CASE RotateFailed(p)
  <2>1. \/ Closes /\ disk' = disk
        \/ Closes /\ \E ls \in {<<>>, <<Torn>>} : Becomes(NewFile(p), ls)
        \/ Opens(NewFile(p), <<Header>>)
    BY <1>1, <1>4, RotateFailedEffect
  <2>2. CASE Closes /\ disk' = disk
    BY <2>2 DEF Closes, KeepsDisk
  <2>3. CASE Closes /\ \E ls \in {<<>>, <<Torn>>} : Becomes(NewFile(p), ls)
    BY <2>3 DEF Closes, StartsFile
  <2>4. CASE Opens(NewFile(p), <<Header>>)
    BY <2>4 DEF Opens, StartsFile
  <2>. QED BY <2>1, <2>2, <2>3, <2>4
<1>. QED BY <1>2, <1>3, <1>4

\* A crash leaves part of what was being written.
LEMMA CrashDisk ==
  ASSUME Inv, Crash
  PROVE  KeepsDisk \/ StartsFile \/ WritesFile
<1>1. fp' = NoFile /\ now' = now /\ seq' = seq /\ pc' = "idle" /\ path \in Path
  BY DEF Crash, CloseFile, Inv, RestOK, Configured
<1>2. CASE disk' = disk
  BY <1>1, <1>2 DEF KeepsDisk
<1>3. CASE pc = "write" /\ \E part \in PartOf(encoded) : disk' = Appended(fp, part)
  BY <1>1, <1>3, AppendedBecomes DEF WritesFile
<1>4. CASE \E part \in PartOf(<<Header>>) : disk' = Appended(<<path, Timestamp(now)>>, part)
  <2>1. PICK part \in PartOf(<<Header>>) : disk' = Appended(NewFile(path), part)
    BY <1>4 DEF NewFile
  <2>2. part \in {<<>>, <<Torn>>, <<Header>>}
    BY LineOfType, PartOfOne
  <2>3. Becomes(NewFile(path), part)
    BY <2>1, AppendedBecomes
  <2>. QED BY <1>1, <2>2, <2>3 DEF StartsFile
<1>. QED BY <1>2, <1>3, <1>4 DEF Crash

\* Every step is one of these to the metrics files.
LEMMA StepDisk ==
  ASSUME Inv, [Next]_vars
  PROVE  KeepsDisk \/ StartsFile \/ WritesFile
<1>1. path \in Path
  BY DEF Inv, RestOK, Configured
<1>2. CASE \/ CollectFails \/ CollectSample \/ EncodeFails \/ EncodeSnapshot \/ EncodeRecord
           \/ Recheck \/ Tick \/ CommandFlush \/ UNCHANGED vars
           \/ \E b \in DeltaMetrics : SetDeltaMetrics(b)
           \/ \E b \in MaxFileBytes, i \in RotationInterval : SetLimits(b, i)
  BY <1>2 DEF CollectFails, CollectSample, EncodeFails, EncodeSnapshot, EncodeRecord,
              Recheck, Tick, CommandFlush, SetDeltaMetrics, SetLimits, KeepsDisk, fileVars, vars
<1>3. CASE RotateFirst \/ RotateAgain
  BY <1>1, <1>3, RotationDisk DEF RotateFirst, RotateAgain, RotateInAppend
<1>4. CASE CommandRotate
  BY <1>1, <1>4, RotationDisk DEF CommandRotate
<1>5. CASE \E p \in Path : SetPath(p)
  BY <1>5, RotationDisk DEF SetPath
<1>6. CASE WriteRecord
  BY <1>6, WriteRecordEffect, WholeIsPart DEF WriteRecord, WritesFile
<1>7. CASE WriteFails
  BY <1>7, AppendedBecomes DEF WriteFails, WritesFile
<1>. QED BY <1>2, <1>3, <1>4, <1>5, <1>6, <1>7, CrashDisk DEF Next

\* Samples are never taken back.
LEMMA StepEnded ==
  ASSUME Inv, [Next]_vars
  PROVE  Ended' \in Int /\ Ended' >= Ended
<1>1. seq \in Nat
  BY WriterAssumption DEF Inv, RestOK
<1>2. \/ pc = "idle" /\ pc' # "idle" /\ seq' = seq + 1
      \/ seq' = seq /\ (pc = "idle" => pc' = "idle")
  BY DEF Next, CollectFails, CollectSample, EncodeFails, EncodeSnapshot, EncodeRecord,
         Recheck, Tick, CommandFlush, SetDeltaMetrics, SetLimits, appendVars, vars,
         RotateFirst, RotateAgain, RotateInAppend, CommandRotate, SetPath, WriteRecord,
         WriteFails, Crash
<1>. QED BY <1>1, <1>2 DEF Ended

\* The files of a directory are named in the order they are opened: none is
\* of a later second, and the open one is the last of its directory.
OldestFirst ==
  /\ \A f \in DOMAIN disk : f[2] <= Timestamp(now)
  /\ fp # NoFile => \A g \in DOMAIN disk : g[1] = fp[1] => g[2] <= fp[2]

\* Records are of samples whose append has ended.
EndedOnDisk ==
  \A f \in DOMAIN disk : \A i \in Data(disk[f]) : disk[f][i].seq <= Ended

\* The records of a file are in order, and
OrderedInFile ==
  \A f \in DOMAIN disk : \A i, j \in Data(disk[f]) :
    i < j => disk[f][i].seq < disk[f][j].seq

\* so are those of two files of a directory.
OrderedByName ==
  \A f, g \in DOMAIN disk : (f[1] = g[1] /\ f[2] < g[2]) =>
    \A i \in Data(disk[f]), j \in Data(disk[g]) : disk[f][i].seq < disk[g][j].seq

\* Chronological, said of positions, and what it needs to be inductive.
InOrder == OldestFirst /\ EndedOnDisk /\ OrderedInFile /\ OrderedByName

\* Opening a file makes no record, whatever fails.
LEMMA StartsOldData ==
  ASSUME Inv, StartsFile
  PROVE  OldData
<1>1. DiskType
  BY DEF Inv, FileOK
<1>. QED BY <1>1, BecomesOldData DEF StartsFile

\* Every step keeps the files in the order of their names.
LEMMA OldestFirstStep ==
  ASSUME Inv, OldestFirst, [Next]_vars
  PROVE  OldestFirst'
<1>1. /\ now \in Nat /\ Timestamp(now) \in Nat /\ Timestamp(now + 1) \in Nat
      /\ Timestamp(now) <= Timestamp(now + 1)
  <2>1. now \in Nat
    BY WriterAssumption DEF Inv, RestOK
  <2>. QED BY <2>1, TimestampNat, TimestampMonotonic
<1>2. \A f \in File : f[2] \in Nat
  BY DEF File
<1>3. DOMAIN disk \subseteq File /\ NoFile \notin File
  BY NoFileIsNoFile DEF Inv, FileOK, DiskType
<1>4. CASE KeepsDisk
  <2>1. Timestamp(now') \in Nat /\ Timestamp(now) <= Timestamp(now')
    BY <1>1, <1>4 DEF KeepsDisk
  <2>2. \A f \in DOMAIN disk' : f[2] <= Timestamp(now')
    <3>. TAKE f \in DOMAIN disk'
    <3>1. f[2] \in Nat /\ f[2] <= Timestamp(now)
      BY <1>2, <1>3, <1>4 DEF KeepsDisk, OldestFirst
    <3>. QED BY <1>1, <2>1, <3>1
  <2>. QED BY <1>4, <2>2 DEF KeepsDisk, OldestFirst
<1>5. CASE StartsFile
  <2>1. PICK p \in Path : /\ DOMAIN disk' \subseteq DOMAIN disk \cup {NewFile(p)}
                          /\ fp' \in {NoFile, NewFile(p)}
    BY <1>5 DEF StartsFile, Becomes
  <2>2. NewFile(p)[2] = Timestamp(now) /\ now' = now
    BY <1>5 DEF NewFile, StartsFile
  <2>3. \A f \in DOMAIN disk' : f[2] <= Timestamp(now)
    BY <1>1, <2>1, <2>2 DEF OldestFirst
  <2>. QED BY <2>1, <2>2, <2>3 DEF OldestFirst
<1>6. CASE WritesFile
  <2>1. DOMAIN disk' \subseteq DOMAIN disk
    BY <1>6 DEF WritesFile, Becomes, Inv, FileOK
  <2>. QED BY <1>6, <2>1 DEF WritesFile, OldestFirst
<1>. QED BY <1>4, <1>5, <1>6, StepDisk

\* Records name samples.
LEMMA SeqsAreNumbers ==
  ASSUME Inv PROVE \A f \in DOMAIN disk : \A i \in Data(disk[f]) : disk[f][i].seq \in Nat
<1>1. \A f \in DOMAIN disk : disk[f] \in Seq(Line)
  BY DEF Inv, FileOK, DiskType
<1>2. \A f \in DOMAIN disk : \A i \in Data(disk[f]) : disk[f][i] \in Line
  BY <1>1 DEF Data
<1>. QED BY <1>2 DEF Line

\* A step that makes no record keeps the order.
LEMMA OrderKept ==
  ASSUME InOrder, Inv, OldData, Ended' \in Int, Ended' >= Ended
  PROVE  EndedOnDisk' /\ OrderedInFile' /\ OrderedByName'
<1>1. Ended \in Int
  BY WriterAssumption DEF Ended, Inv, RestOK
<1>2. EndedOnDisk'
  <2>. SUFFICES ASSUME NEW f \in DOMAIN disk', NEW i \in Data(disk'[f])
                PROVE  disk'[f][i].seq <= Ended'
    BY DEF EndedOnDisk
  <2>1. disk'[f][i].seq \in Nat /\ disk'[f][i].seq <= Ended
    BY SeqsAreNumbers DEF OldData, InOrder, EndedOnDisk
  <2>. QED BY <1>1, <2>1
<1>3. OrderedInFile'
  BY DEF OldData, InOrder, OrderedInFile
<1>4. OrderedByName'
  BY DEF OldData, InOrder, OrderedByName
<1>. QED BY <1>2, <1>3, <1>4

\* A record that is new is of a later sample than all others, and goes behind
\* them.
LEMMA OrderExtended ==
  ASSUME InOrder, Inv, NewData, DiskType'
  PROVE  EndedOnDisk' /\ OrderedInFile' /\ OrderedByName'
<1>1. seq \in Nat /\ Ended = seq - 1 /\ Ended' = seq
  BY WriterAssumption DEF Ended, Inv, RestOK, NewData
<1>2. \A f \in DOMAIN disk : \A i \in Data(disk[f]) :
        disk[f][i].seq \in Nat /\ disk[f][i].seq < seq
  <2>. TAKE f \in DOMAIN disk
  <2>. TAKE i \in Data(disk[f])
  <2>1. disk[f][i].seq \in Nat /\ disk[f][i].seq <= Ended
    BY SeqsAreNumbers DEF InOrder, EndedOnDisk
  <2>. QED BY <1>1, <2>1
<1>. DEFINE Old(f, i) == f \in DOMAIN disk /\ i \in Data(disk[f]) /\ disk'[f][i] = disk[f][i]
            New(f, i) == f = fp /\ i = Len(disk'[f]) /\ disk'[f][i].seq = seq
<1>3. \A f \in DOMAIN disk' : \A i \in Data(disk'[f]) : Old(f, i) \/ New(f, i)
  BY DEF NewData
<1>4. \A f, i : Old(f, i) => disk'[f][i].seq \in Nat /\ disk'[f][i].seq < seq
  BY <1>2
<1>5. EndedOnDisk'
  <2>. SUFFICES ASSUME NEW f \in DOMAIN disk', NEW i \in Data(disk'[f])
                PROVE  disk'[f][i].seq <= Ended'
    BY DEF EndedOnDisk
  <2>. QED BY <1>1, <1>3, <1>4
<1>6. OrderedInFile'
  <2>. SUFFICES ASSUME NEW f \in DOMAIN disk', NEW i \in Data(disk'[f]),
                       NEW j \in Data(disk'[f]), i < j
                PROVE  disk'[f][i].seq < disk'[f][j].seq
    BY DEF OrderedInFile
  <2>1. CASE Old(f, i) /\ Old(f, j)
    BY <2>1 DEF InOrder, OrderedInFile
  <2>2. CASE Old(f, i) /\ New(f, j)
    BY <1>4, <2>2
  <2>3. ~New(f, i)
    <3>1. j \in 1..Len(disk'[f]) /\ i \in 1..Len(disk'[f]) 
      BY DEF Data
    <3>2. Len(disk'[f]) \in Nat
      BY LenProperties DEF DiskType
    <3>. QED BY <3>1, <3>2
  <2>. QED BY <1>3, <2>1, <2>2, <2>3
<1>7. OrderedByName'
  <2>. SUFFICES ASSUME NEW f \in DOMAIN disk', NEW g \in DOMAIN disk', f[1] = g[1], f[2] < g[2],
                       NEW i \in Data(disk'[f]), NEW j \in Data(disk'[g])
                PROVE  disk'[f][i].seq < disk'[g][j].seq
    BY DEF OrderedByName
  <2>1. CASE Old(f, i) /\ Old(g, j)
    BY <2>1 DEF InOrder, OrderedByName
  <2>2. CASE Old(f, i) /\ New(g, j)
    BY <1>4, <2>2
  <2>3. ~New(f, i)
    <3>1. g \in DOMAIN disk /\ f \in DOMAIN disk /\ f \in File /\ g \in File
      BY DEF NewData, Inv, FileOK, DiskType
    <3>2. f[2] \in Nat /\ g[2] \in Nat
      BY <3>1 DEF File
    <3>. QED BY <3>1, <3>2 DEF InOrder, OldestFirst, NewData
  <2>. QED BY <1>3, <2>1, <2>2, <2>3
<1>. QED BY <1>5, <1>6, <1>7

\* Every step keeps the order.
LEMMA InOrderStep ==
  ASSUME Inv, InOrder, [Next]_vars
  PROVE  InOrder'
<1>1. OldestFirst'
  BY OldestFirstStep DEF InOrder
<1>2. Ended' \in Int /\ Ended' >= Ended
  BY StepEnded
<1>3. CASE KeepsDisk \/ StartsFile
  <2>1. OldData
    <3>1. CASE KeepsDisk
      BY <3>1 DEF KeepsDisk, OldData
    <3>. QED BY <1>3, <3>1, StartsOldData
  <2>. QED BY <1>1, <1>2, <2>1, OrderKept DEF InOrder
<1>4. CASE WritesFile
  <2>1. NewData
    BY <1>4, PartNewData DEF WritesFile
  <2>2. DiskType'
    BY StepInv DEF Inv, FileOK
  <2>. QED BY <1>1, <2>1, <2>2, OrderExtended DEF InOrder
<1>. QED BY <1>3, <1>4, StepDisk

\* The order of positions is the order of samples.
LEMMA InOrderIsChronological ==
  ASSUME InOrder PROVE Chronological
<1>. DEFINE seqs(f) == {disk[f][i].seq : i \in {j \in 1..Len(disk[f]) : IsData(disk[f][j])}}
<1>1. \A f : seqs(f) = {disk[f][i].seq : i \in Data(disk[f])}
  BY DEF Data
<1>2. \A f \in DOMAIN disk : \A i, j \in 1..Len(disk[f]) :
        (i < j /\ IsData(disk[f][i]) /\ IsData(disk[f][j])) => disk[f][i].seq < disk[f][j].seq
  BY DEF InOrder, OrderedInFile, Data
<1>3. \A f, g \in DOMAIN disk : (f[1] = g[1] /\ f[2] < g[2]) =>
         \A a \in seqs(f), b \in seqs(g) : a < b
  <2>. SUFFICES ASSUME NEW f \in DOMAIN disk, NEW g \in DOMAIN disk, f[1] = g[1], f[2] < g[2],
                       NEW a \in seqs(f), NEW b \in seqs(g)
                PROVE  a < b
    OBVIOUS
  <2>1. PICK i \in Data(disk[f]) : a = disk[f][i].seq
    BY DEF Data
  <2>2. PICK j \in Data(disk[g]) : b = disk[g][j].seq
    BY DEF Data
  <2>. QED BY <2>1, <2>2 DEF InOrder, OrderedByName
<1>. QED BY <1>2, <1>3 DEF Chronological

\* Samples are found in the order they were taken, in a file and across the
\* files of a directory, whatever fails and wherever the process dies
\* (src/rotation.c:60-65, 215-230).
THEOREM SamplesInOrder == Spec => []Chronological
<1>1. Init => Inv /\ InOrder
  BY InitInv DEF Init, InOrder, OldestFirst, EndedOnDisk, OrderedInFile, OrderedByName
<1>2. Inv /\ InOrder /\ [Next]_vars => Inv' /\ InOrder'
  BY StepInv, InOrderStep
<1>3. InOrder => Chronological
  BY InOrderIsChronological
<1>. QED BY <1>1, <1>2, <1>3, PTL DEF Spec
-----------------------------------------------------------------------------
(* Headers.                                                                *)

\* Lines that begin with a header, or with one written behind a tear.
Headed(lines) == lines # <<>> /\ lines[1].kind \in {"header", "garbled"}

\* Lines that a header has not reached yet.
Bare(lines) == lines = <<>> \/ (Len(lines) = 1 /\ lines[1].kind = "torn")

\* Lines keep their header, and a file without one gets it with its next header
\* line, whatever a crash left there.
LEMMA AppendLineHeaded ==
  ASSUME NEW lines \in Seq(Line), NEW l \in Line
  PROVE  /\ Headed(lines) => Headed(AppendLine(lines, l))
         /\ Bare(lines) /\ l.kind = "header" => Headed(AppendLine(lines, l))
         /\ Bare(lines) /\ l.kind = "torn" => Bare(AppendLine(lines, l))
<1>. DEFINE r == AppendLine(lines, l)
<1>1. /\ r \in Seq(Line) /\ Len(r) # 0
      /\ \A i \in 1..Len(r) - 1 : i \in 1..Len(lines) /\ r[i] = lines[i]
      /\ \/ /\ lines # <<>> => Last(lines).kind # "torn"
            /\ Len(r) = Len(lines) + 1
            /\ r[Len(r)] = l
         \/ /\ lines # <<>> /\ Last(lines).kind = "torn"
            /\ Len(r) = Len(lines)
            /\ r[Len(r)] = IF l.kind = "torn" THEN Torn ELSE Garbled
  BY AppendLineFacts
<1>. HIDE DEF r
<1>2. Len(r) \in Nat \ {0} /\ Len(lines) \in Nat
  BY <1>1, LenProperties
<1>3. lines # <<>> => Last(lines) = lines[Len(lines)]
  BY DEF Last
<1>4. lines = <<>> <=> Len(lines) = 0
  BY LenProperties, <1>2
<1>5. r # <<>>
  BY <1>1
<1>6. Headed(lines) => Headed(r)
  <2>. HAVE Headed(lines)
  <2>1. lines # <<>> /\ lines[1].kind \in {"header", "garbled"} /\ Len(lines) >= 1
    BY <1>2, <1>4 DEF Headed
  <2>2. Len(r) > 1
    <3>1. "header" # "torn" /\ "garbled" # "torn"
      OBVIOUS
    <3>2. Len(r) = Len(lines) /\ Last(lines).kind = "torn" => Len(lines) # 1
      BY <2>1, <1>3
    <3>3. Len(r) = Len(lines) + 1 \/ (Len(r) = Len(lines) /\ Len(lines) # 1)
      BY <1>1, <3>2
    <3>4. \A m, n \in Nat : n >= 1 /\ (m = n + 1 \/ (m = n /\ n # 1)) => m > 1
      OBVIOUS
    <3>5. Len(r) \in Nat /\ Len(lines) \in Nat
      BY <1>2
    <3>. QED BY <2>1, <3>3, <3>4, <3>5, Zenon
  <2>3. 1 \in 1..Len(r) - 1
    BY <1>2, <2>2
  <2>4. r[1] = lines[1]
    BY <1>1, <2>3
  <2>. QED BY <2>1, <2>4, <1>5 DEF Headed
<1>7. Bare(lines) => Len(r) = 1
  <2>1. CASE lines = <<>>
    BY <1>1, <1>4, <2>1
  <2>2. CASE Len(lines) = 1 /\ lines[1].kind = "torn"
    <3>1. lines # <<>> /\ Last(lines).kind = "torn"
      BY <1>3, <1>4, <2>2
    <3>. QED BY <1>1, <2>2, <3>1
  <2>. QED BY <2>1, <2>2 DEF Bare
<1>8. Bare(lines) /\ l.kind = "header" => r[1].kind \in {"header", "garbled"}
  BY <1>1, <1>7, LineOfType
<1>9. Bare(lines) /\ l.kind = "torn" => r[1].kind = "torn"
  BY <1>1, <1>7, LineOfType
<1>. QED BY <1>5, <1>6, <1>7, <1>8, <1>9 DEF Headed, Bare, r

\* Lines keep their header when an append is added.
LEMMA AppendLinesHeaded ==
  ASSUME NEW lines \in Seq(Line), Headed(lines),
         NEW ls \in Seq(Line), Len(ls) <= 2
  PROVE  Headed(AppendLines(lines, ls))
<1>1. AppendLines(lines, ls) =
        IF Len(ls) = 0 THEN lines
        ELSE IF Len(ls) = 1 THEN AppendLine(lines, ls[1])
        ELSE AppendLine(AppendLine(lines, ls[1]), ls[2])
  BY AppendLinesShort
<1>2. Len(ls) \in {0, 1, 2}
  BY ShortLen
<1>3. CASE Len(ls) = 0
  BY <1>1, <1>3
<1>4. Len(ls) # 0 => ls[1] \in Line
  BY ShortElements
<1>5. Len(ls) = 2 => ls[2] \in Line
  BY ShortElements
<1>6. Len(ls) # 0 => AppendLine(lines, ls[1]) \in Seq(Line) /\ Headed(AppendLine(lines, ls[1]))
  BY <1>4, AppendLineFacts, AppendLineHeaded
<1>7. Len(ls) = 2 => Headed(AppendLine(AppendLine(lines, ls[1]), ls[2]))
  BY <1>5, <1>6, AppendLineHeaded
<1>. QED BY <1>1, <1>2, <1>3, <1>6, <1>7

\* Opening a file whose header arrives gives it a header, whatever a crash
\* left there.
LEMMA StartedLines ==
  ASSUME NEW lines \in Seq(Line), Headed(lines) \/ Bare(lines),
         NEW ls \in {<<>>, <<Torn>>, <<Header>>}
  PROVE  /\ Headed(AppendLines(lines, ls)) \/ Bare(AppendLines(lines, ls))
         /\ ls = <<Header>> => Headed(AppendLines(lines, ls))
<1>1. ls \in Seq(Line) /\ Len(ls) <= 2
  BY ShortLines
<1>2. AppendLines(lines, ls) =
        IF Len(ls) = 0 THEN lines
        ELSE IF Len(ls) = 1 THEN AppendLine(lines, ls[1])
        ELSE AppendLine(AppendLine(lines, ls[1]), ls[2])
  BY <1>1, AppendLinesShort
<1>3. CASE ls = <<>>
  BY <1>2, <1>3
<1>4. CASE ls = <<Torn>>
  <2>1. AppendLines(lines, ls) = AppendLine(lines, Torn)
    BY <1>2, <1>4
  <2>. QED BY <1>4, <2>1, AppendLineHeaded, LineOfType
<1>5. CASE ls = <<Header>>
  <2>1. AppendLines(lines, ls) = AppendLine(lines, Header)
    BY <1>2, <1>5
  <2>. QED BY <2>1, AppendLineHeaded, LineOfType
<1>. QED BY <1>3, <1>4, <1>5

\* A file has a header, or nothing but a torn one; the open file has one.
Started ==
  /\ \A f \in DOMAIN disk : Headed(disk[f]) \/ Bare(disk[f])
  /\ fp # NoFile => Headed(disk[fp])

\* Every step keeps the headers.
LEMMA StartedStep ==
  ASSUME HeadersArrive, Inv, Started, [Next]_vars
  PROVE  Started'
<1>1. DiskType /\ (fp # NoFile => fp \in DOMAIN disk)
  BY DEF Inv, FileOK
<1>2. CASE KeepsDisk
  BY <1>2 DEF KeepsDisk, Started
<1>3. CASE StartsFile
  <2>1. PICK p \in Path, ls \in {<<>>, <<Torn>>, <<Header>>} :
          /\ Becomes(NewFile(p), ls)
          /\ fp' = NoFile \/ (fp' = NewFile(p) /\ ls = <<Header>>)
    BY <1>3 DEF StartsFile, HeadersArrive
  <2>. DEFINE f == NewFile(p)
  <2>2. LinesOf(f) \in Seq(Line) /\ (Headed(LinesOf(f)) \/ Bare(LinesOf(f)))
    BY <1>1, LinesOfType DEF LinesOf, Started, Bare
  <2>3. /\ Headed(disk'[f]) \/ Bare(disk'[f])
        /\ ls = <<Header>> => Headed(disk'[f])
    BY <2>1, <2>2, StartedLines DEF Becomes
  <2>. QED BY <2>1, <2>3 DEF Becomes, Started
<1>4. CASE WritesFile
  <2>1. PICK part \in PartOf(encoded) : Becomes(fp, part)
    BY <1>4 DEF WritesFile
  <2>2. part \in Seq(Line) /\ Len(part) <= 2 /\ fp \in DOMAIN disk /\ fp # NoFile
    BY <1>1, <1>4, EncodedInWrite DEF WritesFile, Inv
  <2>3. Headed(disk'[fp])
    <3>1. disk[fp] \in Seq(Line) /\ Headed(disk[fp]) /\ LinesOf(fp) = disk[fp]
      BY <1>1, <2>2 DEF LinesOf, Started, DiskType
    <3>. QED BY <2>1, <2>2, <3>1, AppendLinesHeaded DEF Becomes
  <2>. QED BY <1>4, <2>1, <2>2, <2>3 DEF WritesFile, Becomes, Started
<1>. QED BY <1>2, <1>3, <1>4, StepDisk

\* Where there is a record, there is a header.
LEMMA RecordsAreHeaded ==
  ASSUME NEW lines \in Seq(Line), Headed(lines) \/ Bare(lines),
         NEW i \in 1..Len(lines), IsData(lines[i])
  PROVE  lines[1].kind \in {"header", "garbled"}
<1>1. lines # <<>>
  OBVIOUS
<1>2. Len(lines) = 1 => i = 1
  OBVIOUS
<1>. QED BY <1>1, <1>2 DEF Headed, Bare, IsData, DataKinds

\* No record goes to a file before a header, whichever other step of opening
\* it failed, in this process or in one before (src/rotation.c:230-259).
THEOREM HeaderFirst ==
  ASSUME HeadersArrive
  PROVE  Spec => []StartsWithHeader
<1>1. Init => Inv /\ Started
  BY InitInv DEF Init, Started
<1>2. Inv /\ Started /\ [Next]_vars => Inv' /\ Started'
  BY StepInv, StartedStep
<1>3. Inv /\ Started => StartsWithHeader
  BY RecordsAreHeaded DEF Inv, FileOK, DiskType, Started, StartsWithHeader
<1>. QED BY <1>1, <1>2, <1>3, PTL DEF Spec
-----------------------------------------------------------------------------
(* The ends of the files.                                                  *)

\* The last line has its line end.
Whole(lines) == lines # <<>> /\ lines[Len(lines)].kind # "torn"

\* A line that is appended whole stands at the end; behind a torn one it is
\* garbled with it.
LEMMA AppendLineEnd ==
  ASSUME NEW lines \in Seq(Line), NEW l \in Line, l.kind # "torn"
  PROVE  LET r == AppendLine(lines, l) IN
         /\ r \in Seq(Line) /\ Whole(r)
         /\ r[Len(r)] \in {l, Garbled}
         /\ Whole(lines) \/ lines = <<>> =>
              /\ Len(r) = Len(lines) + 1
              /\ r[Len(r)] = l
              /\ \A i \in 1..Len(lines) : r[i] = lines[i]
<1>. DEFINE r == AppendLine(lines, l)
<1>1. /\ r \in Seq(Line) /\ Len(r) # 0
      /\ \A i \in 1..Len(r) - 1 : i \in 1..Len(lines) /\ r[i] = lines[i]
      /\ \/ /\ lines # <<>> => Last(lines).kind # "torn"
            /\ Len(r) = Len(lines) + 1
            /\ r[Len(r)] = l
         \/ /\ lines # <<>> /\ Last(lines).kind = "torn"
            /\ Len(r) = Len(lines)
            /\ r[Len(r)] = IF l.kind = "torn" THEN Torn ELSE Garbled
  BY AppendLineFacts
<1>. HIDE DEF r
<1>2. r[Len(r)] \in {l, Garbled} /\ Whole(r)
  BY <1>1, LineOfType DEF Whole
<1>3. Whole(lines) \/ lines = <<>> =>
              /\ Len(r) = Len(lines) + 1
              /\ r[Len(r)] = l
              /\ \A i \in 1..Len(lines) : r[i] = lines[i]
  <2>. HAVE Whole(lines) \/ lines = <<>>
  <2>1. ~(lines # <<>> /\ Last(lines).kind = "torn")
    BY DEF Whole, Last
  <2>2. Len(r) = Len(lines) + 1 /\ r[Len(r)] = l
    BY <1>1, <2>1
  <2>3. Len(lines) \in Nat
    BY LenProperties
  <2>4. Len(r) - 1 = Len(lines)
    BY <2>2, <2>3
  <2>. QED BY <1>1, <2>2, <2>4
<1>. QED BY <1>1, <1>2, <1>3 DEF r

\* A header that arrives stands at the end of the file, whole or garbled.
LEMMA HeaderEnd ==
  ASSUME NEW lines \in Seq(Line)
  PROVE  LET r == AppendLines(lines, <<Header>>) IN
         r \in Seq(Line) /\ Whole(r) /\ r[Len(r)].kind \in {"header", "garbled"}
<1>1. AppendLines(lines, <<Header>>) = AppendLine(lines, Header)
  <2>. DEFINE ls == <<Header>>
  <2>1. ls \in Seq(Line) /\ Len(ls) = 1 /\ ls[1] = Header
    BY LineOfType
  <2>2. Len(ls) <= 2
    BY <2>1
  <2>. HIDE DEF ls
  <2>3. AppendLines(lines, ls) =
          IF Len(ls) = 0 THEN lines
          ELSE IF Len(ls) = 1 THEN AppendLine(lines, ls[1])
          ELSE AppendLine(AppendLine(lines, ls[1]), ls[2])
    BY <2>1, <2>2, AppendLinesShort
  <2>4. AppendLines(lines, ls) = AppendLine(lines, Header)
    BY <2>1, <2>3
  <2>. QED BY <2>4 DEF ls
<1>2. Header \in Line /\ Header.kind = "header" /\ Header.kind # "torn" /\ Garbled.kind = "garbled"
  BY LineOfType
<1>3. LET r == AppendLine(lines, Header) IN
      r \in Seq(Line) /\ Whole(r) /\ r[Len(r)] \in {Header, Garbled}
  BY <1>2, AppendLineEnd
<1>. QED BY <1>1, <1>2, <1>3

\* What is appended to whole lines stands at their end as it was.
LEMMA AppendLinesEnd ==
  ASSUME NEW lines \in Seq(Line), Whole(lines),
         NEW ls \in Seq(Line), Len(ls) \in {1, 2},
         \A i \in 1..Len(ls) : ls[i].kind # "torn"
  PROVE  LET r == AppendLines(lines, ls) IN
         /\ r \in Seq(Line) /\ Whole(r)
         /\ r[Len(r)] = ls[Len(ls)]
<1>1. AppendLines(lines, ls) =
        IF Len(ls) = 0 THEN lines
        ELSE IF Len(ls) = 1 THEN AppendLine(lines, ls[1])
        ELSE AppendLine(AppendLine(lines, ls[1]), ls[2])
  <2>1. Len(ls) <= 2
    OBVIOUS
  <2>. QED BY <2>1, AppendLinesShort
<1>2. ls[1] \in Line /\ ls[1].kind # "torn" /\ (Len(ls) = 2 => ls[2] \in Line /\ ls[2].kind # "torn")
  <2>1. 1 \in 1..Len(ls) /\ (Len(ls) = 2 => 2 \in 1..Len(ls))
    <3>1. 1 \in 1..1 /\ 1 \in 1..2 /\ 2 \in 1..2
      OBVIOUS
    <3>. QED BY <3>1, Zenon
  <2>. QED BY <2>1, ElementOfSeq
<1>. DEFINE m == AppendLine(lines, ls[1])
<1>3. m \in Seq(Line) /\ Whole(m) /\ m[Len(m)] = ls[1]
  BY <1>2, AppendLineEnd
<1>4. CASE Len(ls) = 1
  BY <1>1, <1>3, <1>4
<1>5. CASE Len(ls) = 2
  <2>1. AppendLines(lines, ls) = AppendLine(m, ls[2])
    BY <1>1, <1>5
  <2>2. ls[2] \in Line /\ ls[2].kind # "torn"
    BY <1>2, <1>5
  <2>3. m \in Seq(Line) /\ Whole(m)
    BY <1>3
  <2>. HIDE DEF m
  <2>4. LET r == AppendLine(m, ls[2]) IN r \in Seq(Line) /\ Whole(r) /\ r[Len(r)] = ls[2]
    BY <2>2, <2>3, AppendLineEnd
  <2>. QED BY <1>5, <2>1, <2>4
<1>. QED BY <1>4, <1>5

\* An append about to write has whole lines; in delta mode the last is the
\* record of the sample, and a delta is alone.
LEMMA EncodedEnd ==
  ASSUME Inv, pc = "write"
  PROVE  /\ encoded \in Seq(Line) /\ Len(encoded) \in {1, 2}
         /\ \A i \in 1..Len(encoded) : encoded[i].kind # "torn"
         /\ delta_metrics => /\ IsData(encoded[Len(encoded)])
                             /\ encoded[Len(encoded)].format = 2
                             /\ encoded[Len(encoded)].seq = seq
         /\ Len(encoded) = 2 => ~IsData(encoded[1])
         /\ encoded[1].kind = "delta" => Len(encoded) = 1
         /\ encoded[1].kind # "header"
         /\ Len(encoded) = 2 => encoded[1].kind = "restart" /\ encoded[2].kind = "checkpoint"
<1>1. EncodedOK /\ delta_metrics \in BOOLEAN
  BY WriterAssumption DEF Inv, RestOK, Configured
<1>2. encoded \in Seq(Line) /\ Len(encoded) \in {1, 2}
  BY EncodedInWrite
<1>3. CASE encoded \in {<<Blank>>, <<LineOf("snapshot", 1, seq, 0)>>} /\ ~delta_metrics
  <2>1. Len(encoded) = 1 /\ encoded[1] \in {Blank, LineOf("snapshot", 1, seq, 0)}
    BY <1>3
  <2>2. encoded[1].kind \in {"blank", "snapshot"}
    BY <2>1 DEF Blank, LineOf
  <2>3. \A i \in 1..1 : i = 1
    OBVIOUS
  <2>. QED BY <1>2, <1>3, <2>1, <2>2, <2>3
<1>4. CASE encoded = <<LineOf("checkpoint", 2, seq, 0)>>
  BY <1>2, <1>4 DEF LineOf, IsData, DataKinds
<1>5. CASE encoded = <<LineOf("restart", 2, 0, 0), LineOf("checkpoint", 2, seq, 0)>>
  <2>1. Len(encoded) = 2 /\ encoded[1].kind = "restart" /\ encoded[2] = LineOf("checkpoint", 2, seq, 0)
    BY <1>5 DEF LineOf
  <2>2. encoded[2].kind = "checkpoint" /\ encoded[2].format = 2 /\ encoded[2].seq = seq
    BY <2>1 DEF LineOf
  <2>3. \A i \in 1..2 : i = 1 \/ i = 2
    OBVIOUS
  <2>. QED BY <1>2, <2>1, <2>2, <2>3 DEF IsData, DataKinds
<1>6. CASE \E b \in 1..seq : encoded = <<LineOf("delta", 2, seq, b)>>
  BY <1>2, <1>6 DEF LineOf, IsData, DataKinds
<1>. QED BY <1>1, <1>3, <1>4, <1>5, <1>6 DEF EncodedOK

\* Whatever the end of the file is, an append makes it whole; a torn line takes
\* the line that follows with it.
LEMMA AppendLinesLast ==
  ASSUME NEW lines \in Seq(Line),
         NEW ls \in Seq(Line), Len(ls) \in {1, 2},
         \A i \in 1..Len(ls) : ls[i].kind # "torn"
  PROVE  LET r == AppendLines(lines, ls) IN
         r \in Seq(Line) /\ Whole(r) /\ r[Len(r)] \in {ls[Len(ls)], Garbled}
<1>1. AppendLines(lines, ls) =
        IF Len(ls) = 0 THEN lines
        ELSE IF Len(ls) = 1 THEN AppendLine(lines, ls[1])
        ELSE AppendLine(AppendLine(lines, ls[1]), ls[2])
  <2>1. Len(ls) <= 2
    OBVIOUS
  <2>. QED BY <2>1, AppendLinesShort
<1>2. ls[1] \in Line /\ ls[1].kind # "torn" /\ (Len(ls) = 2 => ls[2] \in Line /\ ls[2].kind # "torn")
  <2>1. 1 \in 1..Len(ls) /\ (Len(ls) = 2 => 2 \in 1..Len(ls))
    <3>1. 1 \in 1..1 /\ 1 \in 1..2 /\ 2 \in 1..2
      OBVIOUS
    <3>. QED BY <3>1, Zenon
  <2>. QED BY <2>1, ElementOfSeq
<1>. DEFINE m == AppendLine(lines, ls[1])
<1>3. m \in Seq(Line) /\ Whole(m) /\ m[Len(m)] \in {ls[1], Garbled}
  BY <1>2, AppendLineEnd
<1>4. CASE Len(ls) = 1
  BY <1>1, <1>3, <1>4
<1>5. CASE Len(ls) = 2
  <2>1. AppendLines(lines, ls) = AppendLine(m, ls[2])
    BY <1>1, <1>5
  <2>2. ls[2] \in Line /\ ls[2].kind # "torn"
    BY <1>2, <1>5
  <2>3. m \in Seq(Line)
    BY <1>3
  <2>. HIDE DEF m
  <2>4. LET r == AppendLine(m, ls[2]) IN r \in Seq(Line) /\ Whole(r) /\ r[Len(r)] \in {ls[2], Garbled}
    BY <2>2, <2>3, AppendLineEnd
  <2>. QED BY <1>5, <2>1, <2>4
<1>. QED BY <1>4, <1>5
-----------------------------------------------------------------------------
(* The limits, and the steps of the encoder.                               *)

\* NoOverfullAppend, from the check of the limits on.
Limit ==
  (pc \in {"encode", "write"} /\ max_file_bytes > 0) =>
    \/ current_file_bytes + SampleBytes < max_file_bytes
    \/ Last(disk[fp]).kind \in {"header", "garbled"}

\* Every step keeps it: what may change the limits waits for the append to
\* end.
LEMMA LimitStep ==
  ASSUME HeadersArrive, Inv, Limit, [Next]_vars
  PROVE  Limit'
<1>1. CASE pc' \notin {"encode", "write"}
  BY <1>1 DEF Limit
<1>2. CASE UNCHANGED <<max_file_bytes, current_file_bytes, fp, disk>> /\ pc \in {"encode", "write"}
  BY <1>2 DEF Limit
<1>3. CASE ~ShouldRotate /\ UNCHANGED <<max_file_bytes, current_file_bytes, fp, disk>>
  <2>1. current_file_bytes \in Nat /\ max_file_bytes \in MaxFileBytes
    BY DEF Inv, FileOK, RestOK, Configured
  <2>2. current_file_bytes + SampleBytes \in Int /\ max_file_bytes \in Int
    BY <2>1, WriterAssumption DEF SampleBytes
  <2>3. max_file_bytes > 0 => ~(current_file_bytes + SampleBytes >= max_file_bytes)
    BY <1>3 DEF ShouldRotate
  <2>4. max_file_bytes > 0 => current_file_bytes + SampleBytes < max_file_bytes
    BY <2>2, <2>3
  <2>. QED BY <1>3, <2>4 DEF Limit
<1>4. CASE Rotated(path)
  <2>1. now \in Nat /\ DiskType /\ path \in Path
    <3>1. now \in 0..MaxTime /\ DiskType /\ path \in Path
      BY DEF Inv, FileOK, RestOK, Configured
    <3>. QED BY <3>1, WriterAssumption
  <2>2. Opens(NewFile(path), <<Header>>)
    BY <1>4, <2>1, RotatedEffect
  <2>3. LinesOf(NewFile(path)) \in Seq(Line)
    BY <2>1, LinesOfType
  <2>4. disk'[fp'] = AppendLines(LinesOf(NewFile(path)), <<Header>>)
    BY <2>2 DEF Opens, Becomes
  <2>. DEFINE r == AppendLines(LinesOf(NewFile(path)), <<Header>>)
  <2>5. r[Len(r)].kind \in {"header", "garbled"}
    BY <2>3, HeaderEnd
  <2>. QED BY <2>4, <2>5 DEF Limit, Last
<1>5. ~HeaderLost(path)
  BY DEF HeaderLost, Fault, HeadersArrive
<1>. QED BY <1>1, <1>2, <1>3, <1>4, <1>5 DEF Next, CollectFails, CollectSample, EncodeFails,
         EncodeSnapshot, EncodeRecord, Recheck, Tick, CommandFlush, SetDeltaMetrics, SetLimits,
         RotateFirst, RotateAgain, RotateInAppend, CommandRotate, SetPath, WriteRecord,
         WriteFails, Crash, config, fileVars, appendVars, vars

\* A sample is appended to a file it would take to its limit only if the file
\* was opened for that very sample (src/rotation.c:261-269).
THEOREM LimitsKept ==
  ASSUME HeadersArrive
  PROVE  Spec => []NoOverfullAppend
<1>1. Init => Inv /\ Limit
  BY InitInv DEF Init, Limit
<1>2. Inv /\ Limit /\ [Next]_vars => Inv' /\ Limit'
  BY StepInv, LimitStep
<1>3. Limit => NoOverfullAppend
  BY DEF Limit, NoOverfullAppend
<1>. QED BY <1>1, <1>2, <1>3, PTL DEF Spec

\* What a step may be to the encoder and the file of its next record: no file
\* is open any more,
Gone ==
  /\ fp' = NoFile
  /\ \/ disk' = disk
     \/ \E p \in Path, ls \in {<<>>, <<Torn>>, <<Header>>} : Becomes(NewFile(p), ls)
     \/ pc = "write" /\ \E part \in PartOf(encoded) : Becomes(fp, part)
\* a file was opened and a checkpoint asked for,
Fresh ==
  \E p \in Path, ls \in {<<>>, <<Torn>>, <<Header>>} :
    /\ Becomes(NewFile(p), ls)
    /\ fp' = NewFile(p)
    /\ ls = <<Header>> \/ ~HeadersArrive
    /\ need_checkpoint' = TRUE
    /\ pc' = "write" => ~delta_metrics'
\* the record was written,
Recorded ==
  /\ pc = "write" /\ pc' = "idle"
  /\ Becomes(fp, encoded)
  /\ UNCHANGED <<fp, need_checkpoint, base>>
\* or neither has changed, but for a checkpoint that is asked for.
Quiet ==
  /\ UNCHANGED <<fp, disk>>
  /\ UNCHANGED <<need_checkpoint, base>> \/ need_checkpoint' = TRUE
  /\ pc = "write" => pc' = "write"
  /\ pc' = "write" => \/ ~delta_metrics'
                      \/ pc = "write" /\ UNCHANGED <<encoded, seq, need_checkpoint, base>>

\* A rotation asks for a checkpoint, or leaves no file open.
LEMMA RotationMarks ==
  ASSUME Inv, TrimsSucceed, NEW p \in Path, pc' = "write" => ~delta_metrics',
         Rotated(p) \/ HeaderLost(p) \/ RotateFailed(p)
  PROVE  Gone \/ Fresh
<1>1. DiskType /\ now \in Nat
  BY WriterAssumption DEF Inv, FileOK, RestOK
<1>2. CASE Rotated(p)
  BY <1>1, <1>2, RotatedEffect DEF Opens, Fresh
<1>3. CASE HeaderLost(p)
  BY <1>1, <1>3, HeaderLostEffect DEF Opens, Fresh, HeadersArrive
<1>4. CASE RotateFailed(p)
  <2>1. \/ Closes /\ disk' = disk
        \/ Closes /\ \E ls \in {<<>>, <<Torn>>} : Becomes(NewFile(p), ls)
    BY <1>1, <1>4, RotateFailedEffect DEF TrimsSucceed
  <2>. QED BY <2>1 DEF Closes, Gone
<1>. QED BY <1>2, <1>3, <1>4

\* Every step is one of these, or encodes a record.
LEMMA StepEncoder ==
  ASSUME Inv, TrimsSucceed, WritesSucceed, [Next]_vars
  PROVE  Gone \/ Fresh \/ Recorded \/ EncodeRecord \/ Quiet
<1>1. path \in Path
  BY DEF Inv, RestOK, Configured
<1>2. CASE \/ CollectFails \/ CollectSample \/ EncodeFails \/ EncodeSnapshot
           \/ Tick \/ CommandFlush \/ UNCHANGED vars
           \/ \E b \in DeltaMetrics : SetDeltaMetrics(b)
           \/ \E b \in MaxFileBytes, i \in RotationInterval : SetLimits(b, i)
  BY <1>2 DEF CollectFails, CollectSample, EncodeFails, EncodeSnapshot,
              Tick, CommandFlush, SetDeltaMetrics, SetLimits, Quiet, fileVars,
              encoderVars, appendVars, vars
<1>3. CASE Recheck
  BY <1>3 DEF Recheck, Quiet, Inv, EncodedOK, fileVars, encoderVars, config
<1>4. CASE RotateFirst \/ RotateAgain
  <2>1. pc' = "write" => ~delta_metrics'
    BY <1>4 DEF RotateFirst, RotateAgain, RotateInAppend, Inv, EncodedOK, config
  <2>. QED BY <1>1, <1>4, <2>1, RotationMarks DEF RotateFirst, RotateAgain, RotateInAppend
<1>5. CASE CommandRotate
  <2>1. pc' # "write"
    BY <1>5 DEF CommandRotate, appendVars
  <2>. QED BY <1>1, <1>5, <2>1, RotationMarks DEF CommandRotate
<1>6. CASE \E p \in Path : SetPath(p)
  <2>1. pc' # "write"
    BY <1>6 DEF SetPath, appendVars
  <2>. QED BY <1>6, <2>1, RotationMarks DEF SetPath
<1>7. CASE WriteRecord
  BY <1>7, WriteRecordEffect DEF WriteRecord, Recorded, encoderVars
<1>8. ~WriteFails
  BY DEF WriteFails, Fault, WritesSucceed
<1>9. CASE Crash
  <2>1. fp' = NoFile
    BY <1>9 DEF Crash, CloseFile
  <2>2. KeepsDisk \/ StartsFile \/ WritesFile
    BY <1>9, CrashDisk
  <2>. QED BY <2>1, <2>2 DEF KeepsDisk, StartsFile, WritesFile, Gone
<1>. QED BY <1>2, <1>3, <1>4, <1>5, <1>6, <1>7, <1>8, <1>9 DEF Next

\* What reaches the disk of an append is all of it, nothing, a torn line, or a
\* restart record and perhaps a torn line behind it.
LEMMA PartKinds ==
  ASSUME Inv, pc = "write", NEW part \in PartOf(encoded)
  PROVE  \/ part \in {<<>>, <<Torn>>, encoded}
         \/ /\ Len(encoded) = 2
            /\ \E a \in Line : /\ a.kind = "restart"
                               /\ encoded[1] = a
                               /\ part \in {<<a>>, <<a, Torn>>}
<1>1. EncodedOK /\ delta_metrics \in BOOLEAN /\ seq \in Nat
  BY WriterAssumption DEF Inv, RestOK, Configured
<1>2. ASSUME NEW a \in Line, encoded = <<a>>
      PROVE  part \in {<<>>, <<Torn>>, encoded}
  BY <1>2, PartOfOne
<1>3. CASE encoded \in {<<Blank>>, <<LineOf("snapshot", 1, seq, 0)>>}
  <2>1. Blank \in Line /\ LineOf("snapshot", 1, seq, 0) \in Line
    BY <1>1, LineOfType, EncodedLines
  <2>. QED BY <1>2, <1>3, <2>1
<1>4. CASE encoded = <<LineOf("checkpoint", 2, seq, 0)>>
  <2>1. LineOf("checkpoint", 2, seq, 0) \in Line
    BY <1>1, EncodedLines
  <2>. QED BY <1>2, <1>4, <2>1
<1>5. CASE encoded = <<LineOf("restart", 2, 0, 0), LineOf("checkpoint", 2, seq, 0)>>
  <2>. DEFINE a == LineOf("restart", 2, 0, 0)
              b == LineOf("checkpoint", 2, seq, 0)
  <2>1. a \in Line /\ b \in Line /\ a.kind = "restart"
    BY <1>1, EncodedLines DEF LineOf
  <2>2. encoded = <<a, b>>
    BY <1>5
  <2>. HIDE DEF a, b
  <2>3. part \in {<<>>, <<a>>, <<a, b>>, <<Torn>>, <<a, Torn>>}
    BY <2>1, <2>2, PartOfTwo
  <2>4. Len(encoded) = 2 /\ encoded[1] = a
    BY <2>2
  <2>. QED BY <2>1, <2>2, <2>3, <2>4
<1>6. CASE \E b \in 1..seq : encoded = <<LineOf("delta", 2, seq, b)>>
  <2>1. PICK b \in 1..seq : encoded = <<LineOf("delta", 2, seq, b)>>
    BY <1>6
  <2>2. LineOf("delta", 2, seq, b) \in Line
    BY <1>1, EncodedLines
  <2>. QED BY <1>2, <2>1, <2>2
<1>. QED BY <1>1, <1>3, <1>4, <1>5, <1>6 DEF EncodedOK
-----------------------------------------------------------------------------
(* The first record of a file.                                             *)

\* What may follow a header: absolute values, or what a crash left of them.
Absolute == {"header", "snapshot", "checkpoint", "torn", "garbled"}
\* FirstRecordIsCheckpoint of the lines of one file.
Marked(lines) ==
  \A i \in 1..Len(lines) - 1 : lines[i].kind = "header" => lines[i + 1].kind \in Absolute
\* The next record is the first behind a header.
EndsInHeader(lines) == lines # <<>> /\ lines[Len(lines)].kind = "header"

\* A line that may follow a header, if it does, keeps the lines so.
LEMMA AppendLineMarked ==
  ASSUME NEW lines \in Seq(Line), Marked(lines), NEW l \in Line,
         EndsInHeader(lines) => l.kind \in Absolute
  PROVE  LET r == AppendLine(lines, l) IN
         /\ r \in Seq(Line) /\ Marked(r)
         /\ l.kind # "header" => ~EndsInHeader(r)
<1>. DEFINE r == AppendLine(lines, l)
<1>1. /\ r \in Seq(Line) /\ Len(r) # 0
      /\ \A i \in 1..Len(r) - 1 : i \in 1..Len(lines) /\ r[i] = lines[i]
      /\ \/ /\ lines # <<>> => Last(lines).kind # "torn"
            /\ Len(r) = Len(lines) + 1
            /\ r[Len(r)] = l
         \/ /\ lines # <<>> /\ Last(lines).kind = "torn"
            /\ Len(r) = Len(lines)
            /\ r[Len(r)] = IF l.kind = "torn" THEN Torn ELSE Garbled
  BY AppendLineFacts
<1>. HIDE DEF r
<1>2. Len(r) \in Nat \ {0} /\ Len(lines) \in Nat
  BY <1>1, LenProperties
<1>3. r[Len(r)] \in {l, Torn, Garbled}
  BY <1>1
<1>4. l.kind # "header" => ~EndsInHeader(r)
  BY <1>3, LineOfType DEF EndsInHeader
<1>5. Marked(r)
  <2>. SUFFICES ASSUME NEW i \in 1..Len(r) - 1, r[i].kind = "header"
                PROVE  r[i + 1].kind \in Absolute
    BY DEF Marked
  <2>1. i \in 1..Len(lines) /\ lines[i].kind = "header"
    BY <1>1
  <2>2. CASE i + 1 \in 1..Len(r) - 1
    <3>1. i + 1 \in 1..Len(lines) /\ r[i + 1] = lines[i + 1]
      BY <1>1, <2>2
    <3>2. i \in 1..Len(lines) - 1
      BY <1>2, <3>1, <2>1
    <3>. QED BY <2>1, <3>1, <3>2 DEF Marked
  <2>3. CASE i + 1 = Len(r)
    <3>1. CASE r[Len(r)] \in {Torn, Garbled}
      BY <2>3, <3>1, LineOfType DEF Absolute
    <3>2. CASE Len(r) = Len(lines) + 1 /\ r[Len(r)] = l
      <4>1. i = Len(lines)
        BY <1>2, <2>1, <2>3, <3>2
      <4>2. EndsInHeader(lines)
        BY <2>1, <4>1 DEF EndsInHeader
      <4>. QED BY <2>3, <3>2, <4>2
    <3>. QED BY <1>1, <3>1, <3>2
  <2>. QED BY <1>2, <2>2, <2>3
<1>. QED BY <1>1, <1>4, <1>5 DEF r

\* So does an append.
LEMMA AppendLinesMarked ==
  ASSUME NEW lines \in Seq(Line), Marked(lines), NEW ls \in Seq(Line), Len(ls) <= 2,
         Len(ls) # 0 /\ EndsInHeader(lines) => ls[1].kind \in Absolute,
         Len(ls) = 2 => ls[1].kind # "header"
  PROVE  Marked(AppendLines(lines, ls))
<1>1. AppendLines(lines, ls) =
        IF Len(ls) = 0 THEN lines
        ELSE IF Len(ls) = 1 THEN AppendLine(lines, ls[1])
        ELSE AppendLine(AppendLine(lines, ls[1]), ls[2])
  BY AppendLinesShort
<1>2. Len(ls) \in {0, 1, 2}
  BY ShortLen
<1>3. (Len(ls) # 0 => ls[1] \in Line) /\ (Len(ls) = 2 => ls[2] \in Line)
  BY ShortElements
<1>. DEFINE m == AppendLine(lines, ls[1])
<1>4. Len(ls) # 0 => /\ m \in Seq(Line) /\ Marked(m)
                     /\ ls[1].kind # "header" => ~EndsInHeader(m)
  BY <1>3, AppendLineMarked
<1>. HIDE DEF m
<1>5. Len(ls) = 2 => Marked(AppendLine(m, ls[2]))
  BY <1>3, <1>4, AppendLineMarked
<1>. QED BY <1>1, <1>2, <1>4, <1>5 DEF m

\* FirstRecordIsCheckpoint, and what it needs to be inductive: behind a header
\* the encoder has a checkpoint to write, or is asked for one.
FirstInv ==
  /\ \A f \in DOMAIN disk : Marked(disk[f])
  /\ fp # NoFile /\ EndsInHeader(disk[fp]) =>
       IF pc = "write" THEN encoded = <<LineOf("checkpoint", 2, seq, 0)>>
                       ELSE need_checkpoint

\* A write keeps the lines so, even one cut short by a crash.
LEMMA PartMarked ==
  ASSUME Inv, FirstInv, pc = "write", NEW part \in PartOf(encoded), Becomes(fp, part)
  PROVE  \A f \in DOMAIN disk' : Marked(disk'[f])
<1>1. part \in Seq(Line) /\ Len(part) <= 2 /\ fp \in DOMAIN disk /\ fp # NoFile
  BY EncodedInWrite DEF Inv, FileOK
<1>2. LinesOf(fp) = disk[fp] /\ disk[fp] \in Seq(Line) /\ Marked(disk[fp])
  BY <1>1 DEF Inv, FileOK, DiskType, LinesOf, FirstInv
<1>3. EndsInHeader(disk[fp]) => encoded = <<LineOf("checkpoint", 2, seq, 0)>>
  BY <1>1 DEF FirstInv
<1>4. encoded \in Seq(Line) /\ Len(encoded) \in {1, 2}
  BY EncodedInWrite
<1>5. Len(part) # 0 /\ EndsInHeader(disk[fp]) => part[1].kind \in Absolute
  <2>. HAVE Len(part) # 0 /\ EndsInHeader(disk[fp])
  <2>1. Len(encoded) = 1 /\ encoded[1].kind = "checkpoint"
    BY <1>3 DEF LineOf
  <2>2. part \in {<<>>, <<Torn>>, encoded}
    BY <2>1, PartKinds
  <2>. QED BY <2>1, <2>2, LineOfType DEF Absolute
<1>6. Len(part) = 2 => part[1].kind # "header"
  <2>. HAVE Len(part) = 2
  <2>1. CASE part \in {<<>>, <<Torn>>, encoded}
    <3>1. part = encoded
      BY <2>1
    <3>2. encoded[1].kind # "header"
      BY EncodedEnd
    <3>. QED BY <3>1, <3>2
  <2>2. CASE \E a \in Line : a.kind = "restart" /\ part \in {<<a>>, <<a, Torn>>}
    BY <2>2
  <2>. QED BY <2>1, <2>2, PartKinds
<1>7. Marked(disk'[fp])
  BY <1>1, <1>2, <1>5, <1>6, AppendLinesMarked DEF Becomes
<1>. QED BY <1>1, <1>7 DEF Becomes, FirstInv

\* Opening a file does.
LEMMA ShortMarked ==
  ASSUME Inv, FirstInv, NEW f, NEW ls \in {<<>>, <<Torn>>, <<Header>>}, Becomes(f, ls)
  PROVE  \A g \in DOMAIN disk' : Marked(disk'[g])
<1>1. LinesOf(f) \in Seq(Line) /\ Marked(LinesOf(f))
  <2>1. Marked(<<>>)
    BY DEF Marked
  <2>. QED BY <2>1, LinesOfType DEF LinesOf, FirstInv, Inv, FileOK
<1>2. /\ ls \in Seq(Line) /\ Len(ls) <= 2 /\ Len(ls) # 2
      /\ Len(ls) # 0 => ls[1].kind \in Absolute
  <2>1. CASE ls = <<>>
    BY <2>1
  <2>2. CASE ls = <<Torn>>
    BY <2>2, LineOfType DEF Absolute
  <2>3. CASE ls = <<Header>>
    BY <2>3, LineOfType DEF Absolute
  <2>. QED BY <2>1, <2>2, <2>3
<1>3. Marked(disk'[f])
  BY <1>1, <1>2, AppendLinesMarked DEF Becomes
<1>. QED BY <1>3 DEF Becomes, FirstInv

\* In snapshot mode the second look at the limits puts an empty line behind the
\* header (src/writer.c:57-71).
OnlyDeltaMode == DeltaMetrics \subseteq {TRUE}

\* Every step keeps a checkpoint due behind each header.
LEMMA FirstInvStep ==
  ASSUME Inv, Inv', FirstInv, WritesSucceed, TrimsSucceed, OnlyDeltaMode, [Next]_vars
  PROVE  FirstInv'
<1>0. delta_metrics' = TRUE /\ delta_metrics = TRUE
  BY DEF Inv, RestOK, Configured, OnlyDeltaMode
<1>1. CASE Gone
  BY <1>1, ShortMarked, PartMarked DEF Gone, FirstInv
<1>2. CASE Fresh
  <2>1. need_checkpoint' = TRUE /\ pc' # "write"
    BY <1>0, <1>2 DEF Fresh
  <2>. QED BY <1>2, <2>1, ShortMarked DEF Fresh, FirstInv
<1>3. CASE Recorded
  <2>1. \A f \in DOMAIN disk' : Marked(disk'[f])
    BY <1>3, WholeIsPart, PartMarked DEF Recorded
  <2>2. ~EndsInHeader(disk'[fp])
    <3>1. fp # NoFile /\ LinesOf(fp) \in Seq(Line)
      BY <1>3, LinesOfType DEF Recorded, Inv, FileOK
    <3>2. encoded \in Seq(Line) /\ Len(encoded) \in {1, 2}
          /\ encoded[Len(encoded)].kind \in DataKinds
      BY <1>0, <1>3, EncodedEnd DEF Recorded, IsData
    <3>. DEFINE r == AppendLines(LinesOf(fp), encoded)
    <3>3. r[Len(r)] \in {encoded[Len(encoded)], Garbled}
      BY <1>3, <3>1, <3>2, EncodedEnd, AppendLinesLast DEF Recorded
    <3>4. disk'[fp] = r
      BY <1>3 DEF Recorded, Becomes
    <3>. QED BY <3>2, <3>3, <3>4, LineOfType DEF EndsInHeader, DataKinds
  <2>. QED BY <1>3, <2>1, <2>2 DEF Recorded, FirstInv
<1>4. CASE EncodeRecord
  BY <1>4 DEF EncodeRecord, FirstInv, fileVars
<1>5. CASE Quiet
  BY <1>0, <1>5 DEF Quiet, FirstInv, LineOf
<1>. QED BY <1>1, <1>2, <1>3, <1>4, <1>5, StepEncoder

\* The first record after a file header holds absolute values, if writes and
\* retention succeed and whatever else fails (README.md:104, src/writer.c:34).
THEOREM FirstRecords ==
  ASSUME WritesSucceed, TrimsSucceed, OnlyDeltaMode
  PROVE  Spec => []FirstRecordIsCheckpoint
<1>1. Init => Inv /\ FirstInv
  BY InitInv DEF Init, FirstInv
<1>2. Inv /\ FirstInv /\ [Next]_vars => Inv' /\ FirstInv'
  BY StepInv, FirstInvStep
<1>3. FirstInv => FirstRecordIsCheckpoint
  BY DEF FirstInv, FirstRecordIsCheckpoint, Marked, Absolute
<1>. QED BY <1>1, <1>2, <1>3, PTL DEF Spec
-----------------------------------------------------------------------------
(* The base of a delta.                                                    *)

\* DeltaAfterItsBase of the lines of one file.
Undoable(lines) ==
  \A i \in 1..Len(lines) : lines[i].kind = "delta" =>
    \E j \in 1..i - 1 : /\ IsLastRecord(lines, i - 1, j)
                       /\ lines[j].format = 2
                       /\ lines[j].seq = lines[i].base

\* The last record is one of sample b that a delta can be undone from.
HasBase(lines, b) ==
  \E j \in 1..Len(lines) : /\ IsLastRecord(lines, Len(lines), j)
                           /\ lines[j].format = 2
                           /\ lines[j].seq = b

\* A record at the end is the last one.
LEMMA LastIsBase ==
  ASSUME NEW lines \in Seq(Line), NEW b, Len(lines) # 0,
         IsData(lines[Len(lines)]), lines[Len(lines)].format = 2, lines[Len(lines)].seq = b
  PROVE  HasBase(lines, b)
<1>1. Len(lines) \in 1..Len(lines) /\ Len(lines) + 1..Len(lines) = {}
  BY LenProperties
<1>2. IsLastRecord(lines, Len(lines), Len(lines))
  BY <1>1 DEF IsLastRecord
<1>. QED BY <1>1, <1>2 DEF HasBase

\* The last record of lines is that of lines that begin with them.
LEMMA LastRecordKept ==
  ASSUME NEW lines \in Seq(Line), NEW r \in Seq(Line), NEW n \in Nat, NEW j,
         \A k \in 1..n : r[k] = lines[k],
         IsLastRecord(lines, n, j)
  PROVE  IsLastRecord(r, n, j) /\ r[j] = lines[j]
<1>1. j \in 1..n /\ \A k \in j + 1..n : k \in 1..n
  BY DEF IsLastRecord
<1>. QED BY <1>1 DEF IsLastRecord

\* A delta from the last record before it can be undone.
LEMMA AppendLineUndoable ==
  ASSUME NEW lines \in Seq(Line), Undoable(lines), NEW l \in Line,
         l.kind = "delta" => Whole(lines) /\ HasBase(lines, l.base)
  PROVE  Undoable(AppendLine(lines, l))
<1>. DEFINE r == AppendLine(lines, l)
<1>1. /\ r \in Seq(Line) /\ Len(r) # 0
      /\ \A i \in 1..Len(r) - 1 : i \in 1..Len(lines) /\ r[i] = lines[i]
      /\ \/ /\ lines # <<>> => Last(lines).kind # "torn"
            /\ Len(r) = Len(lines) + 1
            /\ r[Len(r)] = l
         \/ /\ lines # <<>> /\ Last(lines).kind = "torn"
            /\ Len(r) = Len(lines)
            /\ r[Len(r)] = IF l.kind = "torn" THEN Torn ELSE Garbled
  BY AppendLineFacts
<1>. HIDE DEF r
<1>2. Len(r) \in Nat \ {0} /\ Len(lines) \in Nat
  BY <1>1, LenProperties
<1>3. SUFFICES ASSUME NEW i \in 1..Len(r), r[i].kind = "delta"
               PROVE  \E j \in 1..i - 1 : /\ IsLastRecord(r, i - 1, j)
                                         /\ r[j].format = 2
                                         /\ r[j].seq = r[i].base
  BY DEF Undoable, r
<1>4. i - 1 \in Nat /\ \A k \in 1..i - 1 : r[k] = lines[k]
  BY <1>1, <1>2
<1>5. CASE i \in 1..Len(r) - 1
  <2>1. i \in 1..Len(lines) /\ r[i] = lines[i]
    BY <1>1, <1>5
  <2>2. PICK j \in 1..i - 1 : /\ IsLastRecord(lines, i - 1, j)
                              /\ lines[j].format = 2
                              /\ lines[j].seq = lines[i].base
    BY <1>3, <2>1 DEF Undoable
  <2>3. IsLastRecord(r, i - 1, j) /\ r[j] = lines[j]
    BY <1>1, <1>4, <2>2, LastRecordKept
  <2>. QED BY <2>1, <2>2, <2>3
<1>6. CASE i = Len(r)
  <2>1. r[Len(r)] = l /\ l.kind = "delta"
    BY <1>1, <1>3, <1>6, LineOfType
  <2>2. Whole(lines) /\ HasBase(lines, l.base)
    BY <2>1
  <2>3. i - 1 = Len(lines)
    <3>1. ~(lines # <<>> /\ Last(lines).kind = "torn")
      BY <2>2 DEF Whole, Last
    <3>. QED BY <1>1, <1>2, <1>6, <3>1
  <2>4. PICK j \in 1..Len(lines) : /\ IsLastRecord(lines, Len(lines), j)
                                   /\ lines[j].format = 2
                                   /\ lines[j].seq = l.base
    BY <2>2 DEF HasBase
  <2>5. IsLastRecord(r, i - 1, j) /\ r[j] = lines[j]
    BY <1>1, <1>4, <2>3, <2>4, LastRecordKept
  <2>. QED BY <1>6, <2>1, <2>3, <2>4, <2>5
<1>. QED BY <1>2, <1>3, <1>5, <1>6

\* So can those of an append.
LEMMA AppendLinesUndoable ==
  ASSUME NEW lines \in Seq(Line), Undoable(lines), NEW ls \in Seq(Line), Len(ls) <= 2,
         Len(ls) = 1 /\ ls[1].kind = "delta" => Whole(lines) /\ HasBase(lines, ls[1].base),
         Len(ls) = 2 => ls[1].kind # "delta" /\ ls[2].kind # "delta"
  PROVE  Undoable(AppendLines(lines, ls))
<1>1. AppendLines(lines, ls) =
        IF Len(ls) = 0 THEN lines
        ELSE IF Len(ls) = 1 THEN AppendLine(lines, ls[1])
        ELSE AppendLine(AppendLine(lines, ls[1]), ls[2])
  BY AppendLinesShort
<1>2. Len(ls) \in {0, 1, 2}
  BY ShortLen
<1>3. (Len(ls) # 0 => ls[1] \in Line) /\ (Len(ls) = 2 => ls[2] \in Line)
  BY ShortElements
<1>. DEFINE m == AppendLine(lines, ls[1])
<1>4. Len(ls) # 0 => m \in Seq(Line) /\ Undoable(m)
  BY <1>2, <1>3, AppendLineFacts, AppendLineUndoable
<1>. HIDE DEF m
<1>5. Len(ls) = 2 => Undoable(AppendLine(m, ls[2]))
  BY <1>3, <1>4, AppendLineUndoable
<1>. QED BY <1>1, <1>2, <1>4, <1>5 DEF m

\* DeltaAfterItsBase, and what it needs to be inductive: unless a checkpoint is
\* asked for, the last record of the open file is that of the sample the
\* encoder computes its next delta from.
BaseInv ==
  /\ \A f \in DOMAIN disk : Undoable(disk[f])
  /\ ~delta_metrics => need_checkpoint
  /\ fp # NoFile => Whole(disk[fp])
  /\ fp # NoFile /\ ~need_checkpoint /\ pc # "write" => HasBase(disk[fp], base)
  /\ pc = "write" /\ ~need_checkpoint => base = seq
  /\ pc = "write" /\ encoded[1].kind = "delta" => HasBase(disk[fp], encoded[1].base)

\* A write keeps deltas undoable, even one cut short by a crash.
LEMMA PartUndoable ==
  ASSUME Inv, BaseInv, pc = "write", NEW part \in PartOf(encoded), Becomes(fp, part)
  PROVE  \A f \in DOMAIN disk' : Undoable(disk'[f])
<1>1. part \in Seq(Line) /\ Len(part) <= 2 /\ fp \in DOMAIN disk /\ fp # NoFile
  BY EncodedInWrite DEF Inv, FileOK
<1>2. LinesOf(fp) = disk[fp] /\ disk[fp] \in Seq(Line) /\ Undoable(disk[fp]) /\ Whole(disk[fp])
  BY <1>1 DEF Inv, FileOK, DiskType, LinesOf, BaseInv
<1>3. encoded[1].kind = "delta" => Len(encoded) = 1 /\ HasBase(disk[fp], encoded[1].base)
  BY EncodedEnd DEF BaseInv
<1>4. encoded \in Seq(Line) /\ Len(encoded) \in {1, 2}
  BY EncodedInWrite
<1>5. /\ Len(part) = 1 /\ part[1].kind = "delta" => HasBase(disk[fp], part[1].base)
      /\ Len(part) = 2 => part[1].kind # "delta" /\ part[2].kind # "delta"
  <2>1. CASE part = <<>> \/ part = <<Torn>>
    BY <2>1, LineOfType
  <2>2. CASE part = encoded
    BY <1>3, <2>2, EncodedEnd
  <2>3. CASE \E a \in Line : a.kind = "restart" /\ part \in {<<a>>, <<a, Torn>>}
    BY <2>3, LineOfType
  <2>. QED BY <2>1, <2>2, <2>3, PartKinds
<1>6. Undoable(disk'[fp])
  BY <1>1, <1>2, <1>5, AppendLinesUndoable DEF Becomes
<1>. QED BY <1>1, <1>6 DEF Becomes, BaseInv

\* Opening a file does.
LEMMA ShortUndoable ==
  ASSUME Inv, BaseInv, NEW f, NEW ls \in {<<>>, <<Torn>>, <<Header>>}, Becomes(f, ls)
  PROVE  \A g \in DOMAIN disk' : Undoable(disk'[g])
<1>1. LinesOf(f) \in Seq(Line) /\ Undoable(LinesOf(f))
  <2>1. Undoable(<<>>)
    BY DEF Undoable
  <2>. QED BY <2>1, LinesOfType DEF LinesOf, BaseInv, Inv, FileOK
<1>2. /\ ls \in Seq(Line) /\ Len(ls) <= 2 /\ Len(ls) # 2
      /\ Len(ls) # 0 => ls[1].kind # "delta"
  <2>1. CASE ls = <<>>
    BY <2>1
  <2>2. CASE ls = <<Torn>>
    BY <2>2, LineOfType
  <2>3. CASE ls = <<Header>>
    BY <2>3, LineOfType
  <2>. QED BY <2>1, <2>2, <2>3
<1>3. Undoable(disk'[f])
  BY <1>1, <1>2, AppendLinesUndoable DEF Becomes
<1>. QED BY <1>3 DEF Becomes, BaseInv

\* As long as snapshots are written, a checkpoint is asked for.
LEMMA MarkedWhileSnapshots ==
  ASSUME Inv, ~delta_metrics => need_checkpoint, TrimsSucceed, [Next]_vars
  PROVE  (~delta_metrics => need_checkpoint)'
<1>1. \A p : Rotated(p) \/ HeaderLost(p) => need_checkpoint' = TRUE
  BY DEF Rotated, HeaderLost
<1>. QED BY <1>1 DEF Next, CollectFails, CollectSample, EncodeFails,
         EncodeSnapshot, EncodeRecord, Recheck, Tick, CommandFlush, SetDeltaMetrics, SetLimits,
         RotateFirst, RotateAgain, RotateInAppend, CommandRotate, SetPath, WriteRecord,
         WriteFails, Crash, config, encoderVars, vars

\* Every step keeps the encoder and the end of the open file together.
LEMMA BaseInvStep ==
  ASSUME Inv, Inv', BaseInv, WritesSucceed, TrimsSucceed, HeadersArrive, [Next]_vars
  PROVE  BaseInv'
<1>1. (~delta_metrics => need_checkpoint)'
  BY MarkedWhileSnapshots DEF BaseInv
<1>2. delta_metrics' \in BOOLEAN /\ EncodedOK' /\ (pc' = "write" => fp' # NoFile)
  BY WriterAssumption DEF Inv, RestOK, Configured
<1>3. pc' = "write" /\ ~delta_metrics' => encoded'[1].kind # "delta"
  BY <1>2 DEF EncodedOK, Blank, LineOf
<1>4. CASE Gone
  <2>1. \A f \in DOMAIN disk' : Undoable(disk'[f])
    BY <1>4, ShortUndoable, PartUndoable DEF Gone, BaseInv
  <2>2. fp' = NoFile /\ pc' # "write"
    BY <1>2, <1>4 DEF Gone
  <2>. QED BY <1>1, <2>1, <2>2 DEF BaseInv
<1>5. CASE Fresh
  <2>1. PICK p \in Path : /\ Becomes(NewFile(p), <<Header>>)
                          /\ fp' = NewFile(p)
                          /\ need_checkpoint' = TRUE
                          /\ pc' = "write" => ~delta_metrics'
    BY <1>5 DEF Fresh
  <2>2. \A f \in DOMAIN disk' : Undoable(disk'[f])
    BY <2>1, ShortUndoable
  <2>3. Whole(disk'[fp'])
    BY <2>1, LinesOfType, HeaderEnd DEF Becomes, Inv, FileOK
  <2>. QED BY <1>1, <1>3, <2>1, <2>2, <2>3 DEF BaseInv
<1>6. CASE Recorded
  <2>1. \A f \in DOMAIN disk' : Undoable(disk'[f])
    BY <1>6, WholeIsPart, PartUndoable DEF Recorded
  <2>. DEFINE r == AppendLines(disk[fp], encoded)
              last == encoded[Len(encoded)]
  <2>2. /\ fp # NoFile /\ LinesOf(fp) = disk[fp] /\ disk[fp] \in Seq(Line)
        /\ Whole(disk[fp])
    BY <1>6 DEF Recorded, Inv, FileOK, DiskType, LinesOf, BaseInv
  <2>3. r \in Seq(Line) /\ Whole(r) /\ r[Len(r)] = last
    BY <1>6, <2>2, EncodedEnd, AppendLinesEnd DEF Recorded
  <2>4. disk'[fp] = r
    BY <1>6, <2>2 DEF Recorded, Becomes
  <2>5. ~need_checkpoint => IsData(last) /\ last.format = 2 /\ last.seq = base
    BY <1>6, EncodedEnd DEF Recorded, BaseInv, Inv, RestOK, Configured
  <2>. HIDE DEF r, last
  <2>6. ~need_checkpoint => HasBase(r, base)
    BY <2>3, <2>5, LastIsBase DEF Whole
  <2>. QED BY <1>1, <1>6, <2>1, <2>3, <2>4, <2>6 DEF Recorded, BaseInv
<1>7. CASE EncodeRecord
  <2>1. UNCHANGED <<fp, disk, seq>> /\ base' = seq /\ pc' = "write" /\ pc = "encode"
    BY <1>7 DEF EncodeRecord, fileVars
  <2>2. encoded'[1].kind = "delta" => ~need_checkpoint /\ encoded'[1].base = base
    BY <1>7 DEF EncodeRecord, LineOf
  <2>3. fp # NoFile
    BY <2>1 DEF Inv
  <2>. QED BY <1>1, <2>1, <2>2, <2>3 DEF BaseInv
<1>8. CASE Quiet
  <2>1. UNCHANGED <<fp, disk>>
    BY <1>8 DEF Quiet
  <2>2. (fp # NoFile /\ ~need_checkpoint /\ pc # "write" => HasBase(disk[fp], base))'
    BY <1>8 DEF Quiet, BaseInv
  <2>3. (pc = "write" /\ ~need_checkpoint => base = seq)'
    BY <1>1, <1>8 DEF Quiet, BaseInv
  <2>4. (pc = "write" /\ encoded[1].kind = "delta" => HasBase(disk[fp], encoded[1].base))'
    BY <1>3, <1>8 DEF Quiet, BaseInv
  <2>. QED BY <1>1, <2>1, <2>2, <2>3, <2>4 DEF BaseInv
<1>. QED BY <1>4, <1>5, <1>6, <1>7, <1>8, StepEncoder

\* A delta can be undone from the file alone: it was computed from the sample
\* of the last record before it, across rotations, failures, crashes and changes
\* of the mode, if writes, retention and header flushes succeed (README.md:100,
\* src/delta.c:660-665).
THEOREM DeltasUndone ==
  ASSUME WritesSucceed, TrimsSucceed, HeadersArrive
  PROVE  Spec => []DeltaAfterItsBase
<1>1. Init => Inv /\ BaseInv
  BY InitInv DEF Init, BaseInv
<1>2. Inv /\ BaseInv /\ [Next]_vars => Inv' /\ BaseInv'
  BY StepInv, BaseInvStep
<1>3. BaseInv => DeltaAfterItsBase
  BY DEF BaseInv, DeltaAfterItsBase, Undoable
<1>. QED BY <1>1, <1>2, <1>3, PTL DEF Spec
-----------------------------------------------------------------------------
(* Restart records.                                                        *)

\* What may stand behind a restart record: its checkpoint, or what a process that
\* died before it and the next one left.
FollowsRestart == {"checkpoint", "header", "torn", "garbled"}
\* RestartWithinLife of the lines of one file.
Placed(lines) ==
  \A i \in 1..Len(lines) : lines[i].kind = "restart" =>
    /\ i > 1 /\ lines[i - 1].kind \in {"checkpoint", "delta"}
    /\ i < Len(lines) => lines[i + 1].kind \in FollowsRestart
\* The last line is a restart record, or one that a restart record may follow.
EndsInRestart(lines) == lines # <<>> /\ lines[Len(lines)].kind = "restart"
EndsInRecord(lines) ==
  lines # <<>> /\ lines[Len(lines)].kind \in {"checkpoint", "delta"}

\* A line in its place keeps the others in theirs.
LEMMA AppendLinePlaced ==
  ASSUME NEW lines \in Seq(Line), Placed(lines), NEW l \in Line,
         l.kind = "restart" => EndsInRecord(lines),
         EndsInRestart(lines) => l.kind \in FollowsRestart
  PROVE  Placed(AppendLine(lines, l))
<1>. DEFINE r == AppendLine(lines, l)
<1>1. /\ r \in Seq(Line) /\ Len(r) # 0
      /\ \A i \in 1..Len(r) - 1 : i \in 1..Len(lines) /\ r[i] = lines[i]
      /\ \/ /\ lines # <<>> => Last(lines).kind # "torn"
            /\ Len(r) = Len(lines) + 1
            /\ r[Len(r)] = l
         \/ /\ lines # <<>> /\ Last(lines).kind = "torn"
            /\ Len(r) = Len(lines)
            /\ r[Len(r)] = IF l.kind = "torn" THEN Torn ELSE Garbled
  BY AppendLineFacts
<1>. HIDE DEF r
<1>2. Len(r) \in Nat \ {0} /\ Len(lines) \in Nat
  BY <1>1, LenProperties
<1>3. SUFFICES ASSUME NEW i \in 1..Len(r), r[i].kind = "restart"
               PROVE  /\ i > 1 /\ r[i - 1].kind \in {"checkpoint", "delta"}
                      /\ i < Len(r) => r[i + 1].kind \in FollowsRestart
  BY DEF Placed, r
<1>4. CASE i = Len(r)
  <2>1. r[Len(r)] = l /\ Len(r) = Len(lines) + 1
    BY <1>1, <1>3, <1>4, LineOfType
  <2>2. lines # <<>> /\ lines[Len(lines)].kind \in {"checkpoint", "delta"}
    BY <1>3, <1>4, <2>1 DEF EndsInRecord
  <2>3. Len(lines) # 0
    BY <2>2, EmptySeq
  <2>4. i > 1 /\ i - 1 = Len(lines) /\ i - 1 \in 1..Len(r) - 1
    BY <1>2, <1>4, <2>1, <2>3
  <2>5. r[i - 1] = lines[Len(lines)]
    BY <1>1, <2>4
  <2>. QED BY <1>2, <1>4, <2>2, <2>4, <2>5
<1>5. CASE i # Len(r)
  <2>1. i \in 1..Len(r) - 1 /\ i + 1 \in 1..Len(r) /\ i < Len(r) /\ i \in Nat
    BY <1>2, <1>5
  <2>2. i \in 1..Len(lines) /\ lines[i].kind = "restart" /\ r[i] = lines[i]
    BY <1>1, <1>3, <2>1
  <2>3. /\ i > 1 /\ lines[i - 1].kind \in {"checkpoint", "delta"}
        /\ i < Len(lines) => lines[i + 1].kind \in FollowsRestart
    BY <2>2 DEF Placed
  <2>4. r[i - 1].kind \in {"checkpoint", "delta"}
    <3>1. i - 1 \in 1..Len(r) - 1
      BY <1>2, <2>1, <2>3
    <3>. QED BY <1>1, <2>3, <3>1
  <2>5. r[i + 1].kind \in FollowsRestart
    <3>1. CASE i + 1 \in 1..Len(r) - 1
      <4>1. i + 1 \in 1..Len(lines) /\ r[i + 1] = lines[i + 1]
        BY <1>1, <3>1
      <4>2. i < Len(lines)
        BY <1>2, <2>1, <4>1
      <4>. QED BY <2>3, <4>1, <4>2
    <3>2. CASE i + 1 = Len(r)
      <4>1. CASE r[Len(r)] \in {Torn, Garbled}
        BY <3>2, <4>1, LineOfType DEF FollowsRestart
      <4>2. CASE r[Len(r)] = l /\ Len(r) = Len(lines) + 1
        <5>1. i = Len(lines)
          BY <1>2, <2>1, <3>2, <4>2
        <5>2. EndsInRestart(lines)
          BY <2>1, <2>2, <5>1 DEF EndsInRestart
        <5>. QED BY <3>2, <4>2, <5>2
      <4>. QED BY <1>1, <4>1, <4>2
    <3>. QED BY <1>2, <2>1, <3>1, <3>2
  <2>. QED BY <2>3, <2>4, <2>5
<1>. QED BY <1>4, <1>5

\* So does an append.
LEMMA AppendLinesPlaced ==
  ASSUME NEW lines \in Seq(Line), Placed(lines), NEW ls \in Seq(Line), Len(ls) <= 2,
         Len(ls) # 0 /\ ls[1].kind = "restart" => EndsInRecord(lines),
         Len(ls) # 0 /\ EndsInRestart(lines) => ls[1].kind \in FollowsRestart,
         Len(ls) = 2 => ls[2].kind \in {"checkpoint", "torn"}
  PROVE  Placed(AppendLines(lines, ls))
<1>1. AppendLines(lines, ls) =
        IF Len(ls) = 0 THEN lines
        ELSE IF Len(ls) = 1 THEN AppendLine(lines, ls[1])
        ELSE AppendLine(AppendLine(lines, ls[1]), ls[2])
  BY AppendLinesShort
<1>2. Len(ls) \in {0, 1, 2}
  BY ShortLen
<1>3. (Len(ls) # 0 => ls[1] \in Line) /\ (Len(ls) = 2 => ls[2] \in Line)
  BY ShortElements
<1>. DEFINE m == AppendLine(lines, ls[1])
<1>4. Len(ls) # 0 => m \in Seq(Line) /\ Placed(m)
  BY <1>3, AppendLineFacts, AppendLinePlaced
<1>. HIDE DEF m
<1>5. Len(ls) = 2 => Placed(AppendLine(m, ls[2]))
  BY <1>3, <1>4, AppendLinePlaced DEF FollowsRestart
<1>. QED BY <1>1, <1>2, <1>4, <1>5 DEF m

\* RestartWithinLife, and what it needs to be inductive on top of BaseInv: unless
\* a checkpoint is asked for, the open file ends in a record, and so it does
\* below a restart record that is about to be written.
RestartInv ==
  /\ \A f \in DOMAIN disk : Placed(disk[f])
  /\ fp # NoFile => ~EndsInRestart(disk[fp])
  /\ fp # NoFile /\ ~need_checkpoint /\ pc # "write" => EndsInRecord(disk[fp])
  /\ pc = "write" /\ Len(encoded) = 2 => EndsInRecord(disk[fp])

\* A restart record is not alone, and no record ends in one.
LEMMA EncodedKinds ==
  ASSUME Inv, pc = "write"
  PROVE  /\ encoded[1].kind = "restart" => Len(encoded) = 2
         /\ encoded[Len(encoded)].kind # "restart"
         /\ delta_metrics => encoded[Len(encoded)].kind \in {"checkpoint", "delta"}
<1>1. EncodedOK /\ delta_metrics \in BOOLEAN
  BY WriterAssumption DEF Inv, RestOK, Configured
<1>2. CASE ~delta_metrics
  <2>1. Len(encoded) = 1 /\ encoded[1] \in {Blank, LineOf("snapshot", 1, seq, 0)}
    BY <1>1, <1>2 DEF EncodedOK
  <2>2. encoded[1].kind \in {"blank", "snapshot"}
    BY <2>1 DEF Blank, LineOf
  <2>. QED BY <1>2, <2>1, <2>2
<1>3. CASE delta_metrics
  <2>1. CASE encoded = <<LineOf("checkpoint", 2, seq, 0)>>
    BY <2>1 DEF LineOf
  <2>2. CASE encoded = <<LineOf("restart", 2, 0, 0), LineOf("checkpoint", 2, seq, 0)>>
    BY <2>2 DEF LineOf
  <2>3. CASE \E b \in 1..seq : encoded = <<LineOf("delta", 2, seq, b)>>
    BY <2>3 DEF LineOf
  <2>. QED BY <1>1, <1>3, <2>1, <2>2, <2>3 DEF EncodedOK
<1>. QED BY <1>1, <1>2, <1>3

\* A write keeps restart records in their place, even one cut short by a crash.
LEMMA PartPlaced ==
  ASSUME Inv, RestartInv, pc = "write", NEW part \in PartOf(encoded), Becomes(fp, part)
  PROVE  \A f \in DOMAIN disk' : Placed(disk'[f])
<1>1. part \in Seq(Line) /\ Len(part) <= 2 /\ fp \in DOMAIN disk /\ fp # NoFile
  BY EncodedInWrite DEF Inv, FileOK
<1>2. /\ LinesOf(fp) = disk[fp] /\ disk[fp] \in Seq(Line) /\ Placed(disk[fp])
      /\ ~EndsInRestart(disk[fp])
  BY <1>1 DEF Inv, FileOK, DiskType, LinesOf, RestartInv
<1>3. encoded[1].kind = "restart" => EndsInRecord(disk[fp])
  BY EncodedKinds DEF RestartInv
<1>4. /\ Len(part) # 0 /\ part[1].kind = "restart" => EndsInRecord(disk[fp])
      /\ Len(part) = 2 => part[2].kind \in {"checkpoint", "torn"}
  <2>1. CASE part = <<>> \/ part = <<Torn>>
    BY <2>1, LineOfType
  <2>2. CASE part = encoded
    BY <1>3, <2>2, EncodedEnd
  <2>3. CASE /\ Len(encoded) = 2
             /\ \E a \in Line : /\ a.kind = "restart" /\ encoded[1] = a
                                /\ part \in {<<a>>, <<a, Torn>>}
    BY <1>3, <2>3, LineOfType
  <2>. QED BY <2>1, <2>2, <2>3, PartKinds
<1>5. Placed(disk'[fp])
  BY <1>1, <1>2, <1>4, AppendLinesPlaced DEF Becomes
<1>. QED BY <1>1, <1>5 DEF Becomes, RestartInv

\* Opening a file does.
LEMMA ShortPlaced ==
  ASSUME Inv, RestartInv, NEW f, NEW ls \in {<<>>, <<Torn>>, <<Header>>}, Becomes(f, ls)
  PROVE  \A g \in DOMAIN disk' : Placed(disk'[g])
<1>1. LinesOf(f) \in Seq(Line) /\ Placed(LinesOf(f))
  <2>1. Placed(<<>>)
    BY DEF Placed
  <2>. QED BY <2>1, LinesOfType DEF LinesOf, RestartInv, Inv, FileOK
<1>2. /\ ls \in Seq(Line) /\ Len(ls) <= 2 /\ Len(ls) # 2
      /\ Len(ls) # 0 => ls[1].kind \in {"torn", "header"}
  <2>1. CASE ls = <<>>
    BY <2>1
  <2>2. CASE ls = <<Torn>>
    BY <2>2, LineOfType
  <2>3. CASE ls = <<Header>>
    BY <2>3, LineOfType
  <2>. QED BY <2>1, <2>2, <2>3
<1>3. Placed(disk'[f])
  BY <1>1, <1>2, AppendLinesPlaced DEF Becomes, FollowsRestart
<1>. QED BY <1>3 DEF Becomes, RestartInv

\* Every step keeps restart records behind a record of their own process.
LEMMA RestartInvStep ==
  ASSUME Inv, Inv', BaseInv, BaseInv', RestartInv,
         WritesSucceed, TrimsSucceed, HeadersArrive, [Next]_vars
  PROVE  RestartInv'
<1>1. /\ delta_metrics' \in BOOLEAN /\ EncodedOK'
      /\ (pc' = "write" => fp' # NoFile)
      /\ delta_metrics \in BOOLEAN
  BY WriterAssumption DEF Inv, RestOK, Configured
<1>2. pc' = "write" /\ ~delta_metrics' => Len(encoded') # 2
  BY <1>1 DEF EncodedOK
<1>3. CASE Gone
  <2>1. \A f \in DOMAIN disk' : Placed(disk'[f])
    BY <1>3, ShortPlaced, PartPlaced DEF Gone, RestartInv
  <2>2. fp' = NoFile /\ pc' # "write"
    BY <1>1, <1>3 DEF Gone
  <2>. QED BY <2>1, <2>2 DEF RestartInv
<1>4. CASE Fresh
  <2>1. PICK p \in Path : /\ Becomes(NewFile(p), <<Header>>)
                          /\ fp' = NewFile(p)
                          /\ need_checkpoint' = TRUE
                          /\ pc' = "write" => ~delta_metrics'
    BY <1>4 DEF Fresh
  <2>2. \A f \in DOMAIN disk' : Placed(disk'[f])
    BY <2>1, ShortPlaced
  <2>3. ~EndsInRestart(disk'[fp'])
    BY <2>1, LinesOfType, HeaderEnd DEF Becomes, Inv, FileOK, EndsInRestart
  <2>. QED BY <1>2, <2>1, <2>2, <2>3 DEF RestartInv
<1>5. CASE Recorded
  <2>1. \A f \in DOMAIN disk' : Placed(disk'[f])
    BY <1>5, WholeIsPart, PartPlaced DEF Recorded
  <2>. DEFINE r == AppendLines(disk[fp], encoded)
              last == encoded[Len(encoded)]
  <2>2. /\ fp # NoFile /\ LinesOf(fp) = disk[fp] /\ disk[fp] \in Seq(Line)
        /\ Whole(disk[fp])
    BY <1>5 DEF Recorded, Inv, FileOK, DiskType, LinesOf, BaseInv
  <2>3. r # <<>> /\ r[Len(r)] = last
    BY <1>5, <2>2, EncodedEnd, AppendLinesEnd DEF Recorded, Whole
  <2>4. disk'[fp] = r
    BY <1>5, <2>2 DEF Recorded, Becomes
  <2>5. /\ last.kind # "restart"
        /\ ~need_checkpoint => last.kind \in {"checkpoint", "delta"}
    BY <1>1, <1>5, EncodedKinds DEF Recorded, BaseInv
  <2>. HIDE DEF r, last
  <2>. QED BY <1>5, <2>1, <2>3, <2>4, <2>5
       DEF Recorded, RestartInv, EndsInRestart, EndsInRecord
<1>6. CASE EncodeRecord
  <2>1. UNCHANGED <<fp, disk>> /\ pc' = "write" /\ pc = "encode"
    BY <1>6 DEF EncodeRecord, fileVars
  <2>2. Len(encoded') = 2 => ~need_checkpoint
    BY <1>6 DEF EncodeRecord
  <2>3. fp # NoFile
    BY <2>1 DEF Inv
  <2>. QED BY <2>1, <2>2, <2>3 DEF RestartInv
<1>7. CASE Quiet
  <2>1. UNCHANGED <<fp, disk>>
    BY <1>7 DEF Quiet
  <2>2. (fp # NoFile /\ ~need_checkpoint /\ pc # "write" => EndsInRecord(disk[fp]))'
    BY <1>7 DEF Quiet, RestartInv
  <2>3. (pc = "write" /\ Len(encoded) = 2 => EndsInRecord(disk[fp]))'
    BY <1>2, <1>7 DEF Quiet, RestartInv
  <2>. QED BY <2>1, <2>2, <2>3 DEF RestartInv
<1>. QED BY <1>3, <1>4, <1>5, <1>6, <1>7, StepEncoder

\* A restart record stands behind a record of its own process and before its
\* checkpoint, across rotations, failures, crashes and changes of the mode, if
\* writes, retention and header flushes succeed (README.md:101,
\* src/delta.c:626-641, src/writer.c:75-82).
THEOREM RestartsWithinLife ==
  ASSUME WritesSucceed, TrimsSucceed, HeadersArrive
  PROVE  Spec => []RestartWithinLife
<1>1. Init => Inv /\ BaseInv /\ RestartInv
  BY InitInv DEF Init, BaseInv, RestartInv
<1>2. Inv /\ BaseInv /\ RestartInv /\ [Next]_vars => Inv' /\ BaseInv' /\ RestartInv'
  BY StepInv, BaseInvStep, RestartInvStep
<1>3. RestartInv => RestartWithinLife
  BY DEF RestartInv, RestartWithinLife, Placed, FollowsRestart
<1>. QED BY <1>1, <1>2, <1>3, PTL DEF Spec
-----------------------------------------------------------------------------
(* What is counted can be read back.                                       *)

\* The open file ends in a whole line.
WholeInv == fp # NoFile => Whole(disk[fp])

\* A file that was opened with its header does.
LEMMA BecomesWhole ==
  ASSUME Inv, NEW p \in Path, Opens(NewFile(p), <<Header>>)
  PROVE  Whole(disk'[fp'])
  BY LinesOfType, HeaderEnd DEF Opens, Becomes, Inv, FileOK

\* So does the file a rotation leaves open.
LEMMA RotationWhole ==
  ASSUME Inv, HeadersArrive, NEW p \in Path,
         Rotated(p) \/ HeaderLost(p) \/ RotateFailed(p)
  PROVE  WholeInv'
<1>1. DiskType /\ now \in Nat
  BY WriterAssumption DEF Inv, FileOK, RestOK
<1>2. CASE Rotated(p)
  BY <1>1, <1>2, RotatedEffect, BecomesWhole DEF WholeInv
<1>3. ~HeaderLost(p)
  BY DEF HeaderLost, Fault, HeadersArrive
<1>4. CASE RotateFailed(p)
  <2>1. fp' = NoFile \/ Opens(NewFile(p), <<Header>>)
    BY <1>1, <1>4, RotateFailedEffect DEF Closes
  <2>. QED BY <2>1, BecomesWhole DEF WholeInv
<1>. QED BY <1>2, <1>3, <1>4

\* A record that was written stands at the end of the file as it was encoded.
LEMMA RecordIsLast ==
  ASSUME Inv, WholeInv, WriteRecord
  PROVE  /\ disk'[fp] \in Seq(Line) /\ Whole(disk'[fp])
         /\ disk'[fp][Len(disk'[fp])] = encoded[Len(encoded)]
<1>1. fp # NoFile /\ Becomes(fp, encoded) /\ pc = "write"
  BY WriteRecordEffect DEF WriteRecord
<1>2. LinesOf(fp) = disk[fp] /\ disk[fp] \in Seq(Line) /\ Whole(disk[fp])
  BY <1>1 DEF Inv, FileOK, DiskType, LinesOf, WholeInv
<1>. QED BY <1>1, <1>2, EncodedEnd, AppendLinesEnd DEF Becomes

\* Every step keeps the end of the open file whole.
LEMMA WholeInvStep ==
  ASSUME Inv, WholeInv, HeadersArrive, WritesSucceed, [Next]_vars
  PROVE  WholeInv'
<1>1. path \in Path
  BY DEF Inv, RestOK, Configured
<1>2. CASE UNCHANGED <<fp, disk>>
  BY <1>2 DEF WholeInv
<1>3. CASE WriteRecord
  BY <1>3, RecordIsLast DEF WriteRecord, WholeInv
<1>4. ~WriteFails
  BY DEF WriteFails, Fault, WritesSucceed
<1>5. CASE \E p \in Path : Rotated(p) \/ HeaderLost(p) \/ RotateFailed(p)
  BY <1>5, RotationWhole
<1>6. CASE Crash
  BY <1>6 DEF Crash, CloseFile, WholeInv
<1>. QED BY <1>1, <1>2, <1>3, <1>4, <1>5, <1>6 DEF Next, CollectFails, CollectSample, EncodeFails,
         EncodeSnapshot, EncodeRecord, Recheck, Tick, CommandFlush, SetDeltaMetrics, SetLimits,
         RotateFirst, RotateAgain, RotateInAppend, CommandRotate, SetPath, fileVars, vars

\* A sample that is counted is the last one of the current file.
LEMMA CountedStep ==
  ASSUME Inv, WholeInv, OnlyDeltaMode, [Next]_vars,
         written'.samples > written.samples
  PROVE  \E j \in 1..Len(disk'[current_file]) :
           /\ IsLastRecord(disk'[current_file], Len(disk'[current_file]), j)
           /\ disk'[current_file][j].seq = seq
<1>1. WriteRecord
  <2>1. written.samples \in Nat
    BY DEF Inv, RestOK
  <2>2. written' # written /\ ~(written'.samples = 0)
    BY <2>1
  <2>. QED BY <2>2 DEF Next, CollectFails, CollectSample, EncodeFails,
         EncodeSnapshot, EncodeRecord, Recheck, Tick, CommandFlush, SetDeltaMetrics, SetLimits,
         RotateFirst, RotateAgain, RotateInAppend, CommandRotate, SetPath, WriteFails, Crash,
         NothingWritten, vars
<1>2. fp = current_file /\ delta_metrics = TRUE /\ pc = "write"
  BY <1>1, EncodedInWrite DEF WriteRecord, Inv, RestOK, Configured, OnlyDeltaMode
<1>. DEFINE r == disk'[fp]
<1>3. r \in Seq(Line) /\ Len(r) # 0 /\ r[Len(r)] = encoded[Len(encoded)]
  BY <1>1, RecordIsLast DEF Whole
<1>4. IsData(r[Len(r)]) /\ r[Len(r)].seq = seq
  BY <1>2, <1>3, EncodedEnd
<1>. HIDE DEF r
<1>5. Len(r) \in 1..Len(r) /\ Len(r) + 1..Len(r) = {}
  BY <1>3, LenProperties
<1>6. IsLastRecord(r, Len(r), Len(r))
  BY <1>4, <1>5 DEF IsLastRecord
<1>. QED BY <1>2, <1>4, <1>5, <1>6 DEF r

\* samples_written goes up only when the record of the sample can be read back
\* from the current file, if writes and header flushes succeed and whatever else
\* fails (src/writer.c:75-88, README.md:95).
THEOREM CountedRecords ==
  ASSUME WritesSucceed, HeadersArrive, OnlyDeltaMode
  PROVE  Spec => CountedIsRecorded
<1>1. Init => Inv /\ WholeInv
  BY InitInv DEF Init, WholeInv
<1>2. Inv /\ WholeInv /\ [Next]_vars => Inv' /\ WholeInv'
  BY StepInv, WholeInvStep
<1>3. Inv /\ WholeInv /\ [Next]_vars =>
        [written'.samples > written.samples =>
           \E j \in 1..Len(disk'[current_file]) :
             /\ IsLastRecord(disk'[current_file], Len(disk'[current_file]), j)
             /\ disk'[current_file][j].seq = seq]_written
  BY CountedStep
<1>. QED BY <1>1, <1>2, <1>3, PTL DEF Spec, CountedIsRecorded
=============================================================================
