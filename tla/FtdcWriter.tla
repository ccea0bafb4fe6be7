------------------------------ MODULE FtdcWriter ------------------------------
(***************************************************************************)
(* The write path of src/writer.c and src/rotation.c: from a collected     *)
(* sample, over the rotation checks, the rotation and the encoder, to the  *)
(* lines of a metrics file and the counters of FTDC.STATUS.                *)
(*                                                                         *)
(* All of it runs on the server's only thread, so no command interrupts an *)
(* append; what does happen between its steps is that time passes and that *)
(* the process dies.  An append is therefore one action per step, with pc  *)
(* for the step to come; a command, and a rotation, is one action.         *)
(*                                                                         *)
(* Samples are numbered as they are collected.  What the encoder makes of  *)
(* one is FtdcDelta's subject; here it is a choice, and a delta is known   *)
(* by the number of the sample it was computed from.                       *)
(***************************************************************************)
EXTENDS Integers, Sequences, SequencesExt

CONSTANTS
  Path,              \* directories FTDC.CONFIG SET path is given
  DeltaMetrics,      \* values of delta-metrics
  MaxFileBytes,      \* values of max_file_bytes; 0 or less is no limit
  RotationInterval,  \* values of the rotation interval in ticks; 0 is off
  TicksPerSecond,    \* file names have the resolution of a second
  Faults,            \* what may fail, of AllFaults
  NoFile,            \* no open file, an empty file name
  MaxTime,           \* bound: ticks of the clock
  MaxSamples,        \* bound: samples collected
  MaxDisturbances    \* bound: commands, faults and crashes

AllFaults == {"collect", "mkdir", "open", "header", "header flush",
              "retention", "encode", "write", "crash"}

ASSUME WriterAssumption ==
  /\ DeltaMetrics \subseteq BOOLEAN
  /\ MaxFileBytes \subseteq Int
  /\ RotationInterval \subseteq Nat
  /\ TicksPerSecond \in Nat \ {0}
  /\ Faults \subseteq AllFaults
  /\ NoFile \notin Path \X Nat
  /\ MaxTime \in Nat /\ MaxSamples \in Nat /\ MaxDisturbances \in Nat

VARIABLES
  path, delta_metrics, max_file_bytes, rotation_interval,  \* config
  now,                     \* ftdc_now_ms
  fp,                      \* the file the handle is open on, or NoFile
  current_file,
  current_file_bytes,
  current_file_opened_ms,
  need_checkpoint,
  base,                    \* sample behind delta_state, 0 if it is empty
  last_error,              \* is FTDC.STATUS's last_error set?
  written,                 \* the counters of FTDC.STATUS
  pc,                      \* step of the append in progress
  seq,                     \* number of the last collected sample
  encoded,                 \* the lines an append is about to write
  disk,                    \* lines of the metrics files that exist
  disturbances             \* commands, faults and crashes so far

config == <<path, delta_metrics, max_file_bytes, rotation_interval>>
fileVars == <<fp, current_file, current_file_bytes, current_file_opened_ms>>
encoderVars == <<need_checkpoint, base>>
appendVars == <<pc, seq, encoded>>
vars == <<config, now, fileVars, encoderVars, last_error, written, appendVars,
          disk, disturbances>>
-----------------------------------------------------------------------------
(* Files and lines.                                                        *)

\* metrics.<timestamp>.vkftdc in a directory
File == Path \X Nat

HeaderKinds == {"header"}
DataKinds == {"snapshot", "checkpoint", "delta"}

\* format is the format version a line belongs to, base the sample a delta
\* was computed from.  A torn line has no line end yet, a garbled one was
\* appended to a torn one.
Line == [kind : HeaderKinds \cup DataKinds \cup {"restart", "blank", "torn", "garbled"},
         format : 0..2, seq : Nat, base : Nat]

LineOf(kind, format, s, b) ==
  [kind |-> kind, format |-> format, seq |-> s, base |-> b]
Blank == LineOf("blank", 0, 0, 0)
Torn == LineOf("torn", 0, 0, 0)
Garbled == LineOf("garbled", 0, 0, 0)

\* The file magic and the metadata line.
Header == LineOf("header", IF delta_metrics THEN 2 ELSE 1, 0, 0)

\* Bytes of a line, its line end included, in units that tell apart what the
\* size checks tell apart.
SampleBytes == 2
LineBytes(l) == IF l.kind \in {"header", "snapshot", "checkpoint", "garbled"}
                  THEN SampleBytes ELSE 1
Bytes(lines) == FoldSeq(LAMBDA l, sum : LineBytes(l) + sum, 0, lines)

\* A line that follows a torn one shares its line.
AppendLine(lines, l) ==
  IF lines # <<>> /\ Last(lines).kind = "torn"
    THEN Append(Front(lines), IF l.kind = "torn" THEN Torn ELSE Garbled)
    ELSE Append(lines, l)
AppendLinesMutant(lines, ls) ==  \* only the first of two lines
  IF ls = <<>> THEN lines ELSE AppendLine(lines, Head(ls))
AppendLines(lines, ls) == FoldLeft(AppendLine, lines, ls)

LinesOf(f) == IF f \in DOMAIN disk THEN disk[f] ELSE <<>>

\* The disk after ls is appended to f, created if need be: fopen "ab".
Appended(f, ls) ==
  [g \in DOMAIN disk \cup {f} |->
     IF g = f THEN AppendLines(LinesOf(f), ls) ELSE disk[g]]

AfterRetentionMutant(d, p, current) ==  \* the current file is not spared
  {[g \in kept |-> d[g]] :
     kept \in {k \in SUBSET DOMAIN d : \A g \in DOMAIN d : g[1] # p => g \in k}}

\* The disks ftdc_rotation_enforce_retention may leave of d: it removes files
\* of the directory, never the current one.  FtdcRetention says which.
AfterRetention(d, p, current) ==
  {[g \in kept |-> d[g]] :
     kept \in {k \in SUBSET DOMAIN d :
                 \A g \in DOMAIN d : g[1] # p \/ g = current => g \in k}}

TimestampMutant(t) == (t \div TicksPerSecond + 1) % 2  \* a 12-hour clock, at 11

\* format_utc_timestamp
Timestamp(t) == t \div TicksPerSecond

Disturb ==
  /\ disturbances < MaxDisturbances
  /\ disturbances' = disturbances + 1

Fault(f) == f \in Faults /\ Disturb
-----------------------------------------------------------------------------
(* Rotation: ftdc_writer_rotate into directory p.                          *)

ShouldRotateMutant ==  \* off by one
  \/ fp = NoFile
  \/ max_file_bytes > 0 /\ current_file_bytes + SampleBytes > max_file_bytes
  \/ rotation_interval > 0 /\ now - current_file_opened_ms >= rotation_interval

ShouldRotate ==
  \/ fp = NoFile
  \/ max_file_bytes > 0 /\ current_file_bytes + SampleBytes >= max_file_bytes
  \/ rotation_interval > 0 /\ now - current_file_opened_ms >= rotation_interval

OpenFile(f, d) ==
  /\ fp' = f
  /\ current_file' = f
  /\ current_file_bytes' = Bytes(d[f])
  /\ current_file_opened_ms' = now

CloseFile(name) ==
  /\ fp' = NoFile
  /\ current_file' = name
  /\ current_file_bytes' = 0
  /\ current_file_opened_ms' = 0

RotatedMutant(p) ==  \* nothing marked
  LET f == <<p, Timestamp(now)>>
      d == Appended(f, <<Header>>)
  IN /\ OpenFile(f, d)
     /\ disk' \in AfterRetention(d, p, f)
     /\ last_error' = FALSE
     /\ UNCHANGED need_checkpoint

Rotated(p) ==
  LET f == <<p, Timestamp(now)>>
      d == Appended(f, <<Header>>)
  IN /\ OpenFile(f, d)
     /\ disk' \in AfterRetention(d, p, f)
     /\ need_checkpoint' = TRUE
     /\ last_error' = FALSE

\* The header does not reach the disk and nobody looks: the rotation goes on.
HeaderLost(p) ==
  LET f == <<p, Timestamp(now)>> IN
  /\ Fault("header flush")
  /\ \E part \in {<<>>, <<Torn>>} :
       LET d == Appended(f, part) IN
       /\ OpenFile(f, d)
       /\ disk' \in AfterRetention(d, p, f)
  /\ need_checkpoint' = TRUE
  /\ last_error' = FALSE

RotateFailedMutant(p) ==  \* a directory that cannot be made is not reported
  Fault("mkdir") /\ CloseFile(NoFile) /\ UNCHANGED <<disk, last_error>>

\* The steps of a rotation that may fail, in the order they are made: the
\* directory and its parents, the file (or a name that is too long), the magic
\* and the metadata line, the trimming of the directory.
MkdirFails == Fault("mkdir") /\ CloseFile(NoFile) /\ UNCHANGED disk

OpenFails(f) == Fault("open") /\ CloseFile(f) /\ UNCHANGED disk

HeaderFailsMutant(f) ==   \* the file stays open
  /\ Fault("header")
  /\ \E part \in {<<>>, <<Torn>>} : disk' = Appended(f, part)
  /\ OpenFile(f, disk')

HeaderFails(f) ==
  /\ Fault("header")
  /\ CloseFile(f)
  /\ \E part \in {<<>>, <<Torn>>} : disk' = Appended(f, part)

RetentionFails(f) ==
  /\ Fault("retention")
  /\ disk' = Appended(f, <<Header>>)
  /\ OpenFile(f, disk')

\* The caller says what need_checkpoint becomes: a rotation that fails does
\* not touch it.
RotateFailed(p) ==
  LET f == <<p, Timestamp(now)>> IN
  /\ MkdirFails \/ OpenFails(f) \/ HeaderFails(f) \/ RetentionFails(f)
  /\ last_error' = TRUE
-----------------------------------------------------------------------------
(* An append: the timer callback collects a sample and appends it.         *)

CollectFails ==
  /\ pc = "idle"
  /\ Fault("collect")
  /\ last_error' = TRUE
  /\ UNCHANGED <<config, now, fileVars, encoderVars, written, appendVars, disk>>

CollectSample ==
  /\ pc = "idle"
  /\ seq < MaxSamples
  /\ seq' = seq + 1
  /\ pc' = IF ShouldRotate THEN "rotate" ELSE "encode"
  /\ UNCHANGED <<config, now, fileVars, encoderVars, last_error, written,
                 encoded, disk, disturbances>>

\* The rotation of either check of the append: step and what follows it.
RotateInAppend(step, next) ==
  /\ pc = step
  /\ \/ Rotated(path) /\ pc' = next /\ UNCHANGED <<encoded, disturbances>>
     \/ HeaderLost(path) /\ pc' = next /\ UNCHANGED encoded
     \/ /\ RotateFailed(path)
        /\ pc' = "idle"
        /\ encoded' = <<>>
        /\ UNCHANGED need_checkpoint
  /\ UNCHANGED <<config, now, base, written, seq>>

RotateFirst == RotateInAppend("rotate", "encode")
RotateAgain == RotateInAppend("rotate_again", "write")

EncodeFailsMutant ==  \* the delta state is replaced before the failure
  /\ pc = "encode"
  /\ Fault("encode")
  /\ last_error' = TRUE
  /\ base' = seq
  /\ pc' = "idle"
  /\ UNCHANGED <<config, now, fileVars, need_checkpoint, written, seq, encoded, disk>>

EncodeFails ==
  /\ pc = "encode"
  /\ Fault("encode")
  /\ last_error' = TRUE
  /\ pc' = "idle"
  /\ UNCHANGED <<config, now, fileVars, encoderVars, written, seq, encoded, disk>>

EncodeSnapshot ==
  /\ pc = "encode"
  /\ ~delta_metrics
  /\ encoded' = <<LineOf("snapshot", 1, seq, 0)>>
  /\ pc' = "recheck"
  /\ UNCHANGED <<config, now, fileVars, encoderVars, last_error, written, seq,
                 disk, disturbances>>

EncodeRecordMutant ==  \* a boundary is looked for even if a checkpoint is due
  /\ pc = "encode"
  /\ delta_metrics
  /\ \/ /\ encoded' = <<LineOf("checkpoint", 2, seq, 0)>>
        /\ need_checkpoint' = FALSE
     \/ /\ base # 0
        /\ encoded' = <<LineOf("restart", 2, 0, 0), LineOf("checkpoint", 2, seq, 0)>>
        /\ need_checkpoint' = FALSE
     \/ /\ ~need_checkpoint /\ base # 0
        /\ encoded' = <<LineOf("delta", 2, seq, base)>>
        /\ UNCHANGED need_checkpoint
  /\ base' = seq
  /\ pc' = "write"
  /\ UNCHANGED <<config, now, fileVars, last_error, written, seq, disk, disturbances>>

\* The encoder is ahead of the file from here on: need_checkpoint and the
\* delta state already say that the record exists.
EncodeRecord ==
  /\ pc = "encode"
  /\ delta_metrics
  /\ \/ /\ encoded' = <<LineOf("checkpoint", 2, seq, 0)>>
        /\ need_checkpoint' = FALSE
     \/ /\ ~need_checkpoint /\ base # 0
        /\ encoded' = <<LineOf("restart", 2, 0, 0), LineOf("checkpoint", 2, seq, 0)>>
        /\ need_checkpoint' = FALSE
     \/ /\ ~need_checkpoint /\ base # 0
        /\ encoded' = <<LineOf("delta", 2, seq, base)>>
        /\ UNCHANGED need_checkpoint
  /\ base' = seq
  /\ pc' = "write"
  /\ UNCHANGED <<config, now, fileVars, last_error, written, seq, disk, disturbances>>

\* The second look at the limits, of snapshot mode only.  What was encoded is
\* freed before the rotation, and the append goes on without it.
Recheck ==
  /\ pc = "recheck"
  /\ IF ShouldRotate
       THEN pc' = "rotate_again" /\ encoded' = <<Blank>>
       ELSE pc' = "write" /\ UNCHANGED encoded
  /\ UNCHANGED <<config, now, fileVars, encoderVars, last_error, written, seq,
                 disk, disturbances>>

Counted ==
  LET checkpoint == Last(encoded).kind = "checkpoint" \/ ~delta_metrics IN
  [written EXCEPT !.samples = @ + 1,
                  !.restarts = @ + (IF Len(encoded) = 2 THEN 1 ELSE 0),
                  !.checkpoints = @ + (IF checkpoint THEN 1 ELSE 0),
                  !.deltas = @ + (IF checkpoint THEN 0 ELSE 1)]

\* The lines are written and flushed, then the directory is trimmed.
WriteRecord ==
  /\ pc = "write"
  /\ current_file_bytes' = current_file_bytes + Bytes(encoded)
  /\ written' = Counted
  /\ LET d == Appended(fp, encoded) IN
       \/ /\ disk' \in AfterRetention(d, path, current_file)
          /\ last_error' = FALSE
          /\ UNCHANGED disturbances
       \/ /\ Fault("retention")
          /\ disk' = d
          /\ last_error' = TRUE
  /\ pc' = "idle"
  /\ encoded' = <<>>
  /\ UNCHANGED <<config, now, fp, current_file, current_file_opened_ms,
                 encoderVars, seq>>

\* What may reach the disk of a write that does not end: a part of its lines.
PartOf(ls) ==
  {SubSeq(ls, 1, n) : n \in 0..Len(ls)} \cup
  {Append(SubSeq(ls, 1, n), Torn) : n \in 0..Len(ls) - 1}

\* fwrite, fputc or fflush fails.  stdio drops what it could not write, lines
\* it had taken were counted into current_file_bytes.
WriteFails ==
  /\ pc = "write"
  /\ Fault("write")
  /\ \E part \in PartOf(encoded) \ {encoded} : disk' = Appended(fp, part)
  /\ \E n \in 0..Len(encoded) :
       current_file_bytes' = current_file_bytes + Bytes(SubSeq(encoded, 1, n))
  /\ last_error' = TRUE
  /\ pc' = "idle"
  /\ encoded' = <<>>
  /\ UNCHANGED <<config, now, fp, current_file, current_file_opened_ms,
                 encoderVars, written, seq>>
-----------------------------------------------------------------------------
(* Commands, the clock, and the death of the process.                      *)

CommandRotate ==
  /\ pc = "idle"
  /\ \/ Rotated(path) /\ Disturb
     \/ HeaderLost(path)
     \/ RotateFailed(path) /\ UNCHANGED need_checkpoint
  /\ UNCHANGED <<config, now, base, written, appendVars>>

\* Replies OK whether or not the rotation succeeds.
SetPath(p) ==
  /\ pc = "idle"
  /\ path' = p
  /\ base' = 0
  /\ \/ Rotated(p) /\ Disturb
     \/ HeaderLost(p)
     \/ RotateFailed(p) /\ need_checkpoint' = TRUE
  /\ UNCHANGED <<delta_metrics, max_file_bytes, rotation_interval, now, written,
                 appendVars>>

SetDeltaMetrics(b) ==
  /\ pc = "idle"
  /\ Disturb
  /\ delta_metrics' = b
  /\ need_checkpoint' = TRUE
  /\ base' = 0
  /\ UNCHANGED <<path, max_file_bytes, rotation_interval, now, fileVars,
                 last_error, written, appendVars, disk>>

SetLimitsMutant(bytes, interval) ==  \* megabytes scaled twice
  /\ pc = "idle"
  /\ Disturb
  /\ max_file_bytes' = bytes * 1024
  /\ UNCHANGED <<path, delta_metrics, rotation_interval, now, fileVars,
                 encoderVars, last_error, written, appendVars, disk>>

SetLimits(bytes, interval) ==
  /\ pc = "idle"
  /\ Disturb
  /\ \/ max_file_bytes' = bytes /\ UNCHANGED rotation_interval
     \/ rotation_interval' = interval /\ UNCHANGED max_file_bytes
  /\ UNCHANGED <<path, delta_metrics, now, fileVars, encoderVars, last_error,
                 written, appendVars, disk>>

CommandFlushMutant ==  \* reports success and clears the error
  /\ pc = "idle"
  /\ last_error' = FALSE
  /\ UNCHANGED <<config, now, fileVars, encoderVars, written, appendVars, disk,
                 disturbances>>

\* FTDC.FLUSH: every append has flushed what it wrote.
CommandFlush == pc = "idle" /\ UNCHANGED vars

Tick ==
  /\ now < MaxTime
  /\ now' = now + 1
  /\ UNCHANGED <<config, fileVars, encoderVars, last_error, written, appendVars,
                 disk, disturbances>>

Configured ==
  /\ path \in Path
  /\ delta_metrics \in DeltaMetrics
  /\ max_file_bytes \in MaxFileBytes
  /\ rotation_interval \in RotationInterval

NothingWritten == [samples |-> 0, checkpoints |-> 0, deltas |-> 0, restarts |-> 0]

\* The process dies and the module is loaded again.  Whatever the step in
\* progress had handed to the kernel is on disk.
Crash ==
  /\ Fault("crash")
  /\ path' \in Path
  /\ delta_metrics' \in DeltaMetrics
  /\ max_file_bytes' \in MaxFileBytes
  /\ rotation_interval' \in RotationInterval
  /\ CloseFile(NoFile)
  /\ need_checkpoint' = TRUE
  /\ base' = 0
  /\ last_error' = FALSE
  /\ written' = NothingWritten
  /\ pc' = "idle"
  /\ encoded' = <<>>
  /\ \/ UNCHANGED disk
     \/ /\ pc = "write"
        /\ \E part \in PartOf(encoded) : disk' = Appended(fp, part)
     \/ /\ pc \in {"rotate", "rotate_again"}
        /\ \E part \in PartOf(<<Header>>) :
             disk' = Appended(<<path, Timestamp(now)>>, part)
  /\ UNCHANGED <<now, seq>>

Init ==
  /\ Configured
  /\ now = 0
  /\ fp = NoFile
  /\ current_file = NoFile
  /\ current_file_bytes = 0
  /\ current_file_opened_ms = 0
  /\ need_checkpoint = TRUE
  /\ base = 0
  /\ last_error = FALSE
  /\ written = NothingWritten
  /\ pc = "idle"
  /\ encoded = <<>>
  /\ seq = 0
  /\ disk = [f \in {} |-> <<>>]
  /\ disturbances = 0

Next ==
  \/ CollectFails
  \/ CollectSample
  \/ RotateFirst
  \/ EncodeFails
  \/ EncodeSnapshot
  \/ EncodeRecord
  \/ Recheck
  \/ RotateAgain
  \/ WriteRecord
  \/ WriteFails
  \/ CommandRotate
  \/ CommandFlush
  \/ \E p \in Path : SetPath(p)
  \/ \E b \in DeltaMetrics : SetDeltaMetrics(b)
  \/ \E b \in MaxFileBytes, i \in RotationInterval : SetLimits(b, i)
  \/ Tick
  \/ Crash

Spec == Init /\ [][Next]_vars
-----------------------------------------------------------------------------
(* Properties.                                                             *)

TypeOK ==
  /\ Configured
  /\ now \in 0..MaxTime
  /\ fp \in File \cup {NoFile} /\ current_file \in File \cup {NoFile}
  /\ current_file_bytes \in Nat /\ current_file_opened_ms \in 0..MaxTime
  /\ need_checkpoint \in BOOLEAN /\ base \in 0..seq
  /\ last_error \in BOOLEAN
  /\ written \in [{"samples", "checkpoints", "deltas", "restarts"} -> Nat]
  /\ pc \in {"idle", "rotate", "encode", "recheck", "rotate_again", "write"}
  /\ seq \in 0..MaxSamples
  /\ encoded \in Seq(Line)
  /\ DOMAIN disk \subseteq File /\ disk \in [DOMAIN disk -> Seq(Line)]
  /\ disturbances \in 0..MaxDisturbances

IsData(l) == l.kind \in DataKinds

\* Line j is the last record among the first n lines.
IsLastRecord(lines, n, j) ==
  /\ j \in 1..n
  /\ IsData(lines[j])
  /\ \A k \in j + 1..n : ~IsData(lines[k])

\* Nothing is written through a null handle, and the open handle is the
\* current file, in the configured directory and still there: retention spares
\* it, a failed rotation leaves none open and CONFIG SET path leaves the old
\* directory (src/writer.c:9-37, src/rotation.c:332-335, src/ftdc.c:300-303).
HandleCoherent ==
  /\ pc \in {"encode", "recheck", "write"} => fp # NoFile
  /\ fp # NoFile => /\ fp = current_file
                    /\ fp \in DOMAIN disk
                    /\ fp[1] = path

\* A module that has lost its file and has not opened another says so in
\* FTDC.STATUS, whatever succeeded in between (src/writer.c:22-33, 103).
LostFileIsReported ==
  (pc = "idle" /\ fp = NoFile /\ (current_file # NoFile \/ written.samples > 0))
    => last_error

\* The first record after a file header holds absolute values: no file starts
\* with a delta (README.md:104; src/writer.c:34).
FirstRecordIsCheckpoint ==
  \A f \in DOMAIN disk : \A i \in 1..Len(disk[f]) - 1 :
    disk[f][i].kind = "header" =>
      disk[f][i + 1].kind \in {"header", "snapshot", "checkpoint", "torn", "garbled"}

\* A delta can be undone from the file alone: it was computed from the sample
\* of the last record before it there (README.md:100; src/delta.c:660-665).
DeltaAfterItsBase ==
  \A f \in DOMAIN disk : \A i \in 1..Len(disk[f]) :
    disk[f][i].kind = "delta" =>
      \E j \in 1..i - 1 : /\ IsLastRecord(disk[f], i - 1, j)
                         /\ disk[f][j].format = 2
                         /\ disk[f][j].seq = disk[f][i].base

\* A restart record marks a boundary inside one process lifetime: right before it
\* stands a record of the same process, for every process starts a file or at
\* least a header of its own, and right behind it the checkpoint of its segment,
\* unless the process died in between (README.md:101; src/delta.c:626-641,
\* src/writer.c:75-82).
RestartWithinLife ==
  \A f \in DOMAIN disk : \A i \in 1..Len(disk[f]) :
    disk[f][i].kind = "restart" =>
      /\ i > 1 /\ disk[f][i - 1].kind \in {"checkpoint", "delta"}
      /\ i < Len(disk[f]) =>
           disk[f][i + 1].kind \in {"checkpoint", "header", "torn", "garbled"}

\* samples_written goes up only when the record of the sample can be read back
\* from the current file (src/writer.c:75-88, README.md:95).
CountedIsRecorded ==
  [][written'.samples > written.samples =>
       \E j \in 1..Len(disk'[current_file]) :
         /\ IsLastRecord(disk'[current_file], Len(disk'[current_file]), j)
         /\ disk'[current_file][j].seq = seq]_written

\* Samples are found in the order they were taken: within a file, and across
\* the files of a directory in the order of their names
\* (src/rotation.c:60-65, 215-230).
Chronological ==
  LET seqs(f) == {disk[f][i].seq : i \in {j \in 1..Len(disk[f]) : IsData(disk[f][j])}}
  IN
  /\ \A f \in DOMAIN disk : \A i, j \in 1..Len(disk[f]) :
       (i < j /\ IsData(disk[f][i]) /\ IsData(disk[f][j])) =>
         disk[f][i].seq < disk[f][j].seq
  /\ \A f, g \in DOMAIN disk :
       (f[1] = g[1] /\ f[2] < g[2]) =>
         \A a \in seqs(f), b \in seqs(g) : a < b

\* A sample is appended to a file it would take to its limit only if the file
\* was opened for that very sample (src/rotation.c:261-269).
NoOverfullAppend ==
  (pc = "write" /\ max_file_bytes > 0) =>
    \/ current_file_bytes + SampleBytes < max_file_bytes
    \/ Last(disk[fp]).kind \in {"header", "garbled"}

\* The header of a file names the format of the records below it
\* (README.md:95-104).
FormatMatchesHeader ==
  \A f \in DOMAIN disk : \A i, j \in 1..Len(disk[f]) :
    (/\ i < j
     /\ disk[f][i].kind = "header"
     /\ IsData(disk[f][j])
     /\ \A k \in i + 1..j : disk[f][k].kind # "header")
      => disk[f][i].format = disk[f][j].format

\* A metrics file is one header and then one record per line
\* (README.md:78-91).
OneHeaderPerFile ==
  \A f \in DOMAIN disk : \A i \in 2..Len(disk[f]) : disk[f][i].kind # "header"

\* No record goes to a file before a header, whichever step of opening it
\* failed, in this process or in one before: the file begins with a header, or
\* with one that was torn and written again behind the tear (README.md:90,
\* src/rotation.c:230-259).  A header whose flush fails is not missed
\* (src/rotation.c:244).
StartsWithHeader ==
  \A f \in DOMAIN disk :
    (\E i \in 1..Len(disk[f]) : IsData(disk[f][i])) =>
      disk[f][1].kind \in {"header", "garbled"}

\* A sample that was collected is counted, or its loss is to be seen in
\* FTDC.STATUS when the append ends, whichever step of it failed
\* (src/writer.c:49-105, src/rotation.c:211-246).
LossIsReported ==
  [][(pc # "idle" /\ pc' = "idle" /\ ~Crash) =>
       written'.samples = written.samples + 1 \/ last_error']_vars

\* The write path implements FtdcStatus, step by step.
Status == INSTANCE FtdcStatus
  WITH open <- fp # NoFile, samples <- written.samples, Counts <- MaxSamples + 2

\* What FTDC.STATUS shows is never better than it is: a sample is counted with
\* its file open, a rotation clears the error only once a file is open, a file
\* is lost with an error (src/writer.c:19-37, 49-105).
StatusImplemented == Status!Spec
=============================================================================
