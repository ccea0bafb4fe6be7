-------------------------- MODULE FtdcWriterProofs ----------------------------
(***************************************************************************)
(* Proofs about the write path of FtdcWriter: its types, its handle, and   *)
(* that it implements FtdcStatus, for every set of directories and limits, *)
(* whichever steps fail and wherever the process dies.                     *)
(*                                                                         *)
(* Types do not stand alone: the inductive invariant Inv says in addition  *)
(* what an append has encoded at each of its steps and that a file is open *)
(* when it is needed.  FtdcFileProofs adds to it what the files hold.      *)
(***************************************************************************)
EXTENDS FtdcWriter, FiniteFolds, SequenceTheorems
-----------------------------------------------------------------------------
(* Lines, and the folds over them.                                         *)

\* The lines that are not records, and their kinds.
LEMMA LineOfType ==
  /\ Torn \in Line /\ Garbled \in Line /\ Blank \in Line /\ Header \in Line
  /\ Torn.kind = "torn" /\ Garbled.kind = "garbled" /\ Blank.kind = "blank"
  /\ Header.kind = "header"
  BY DEF Line, LineOf, Torn, Garbled, Blank, Header, HeaderKinds, DataKinds

\* A line that is appended leaves all lines but the last alone; it is the last
\* one itself, unless the line before it was torn: then it shares its place.
LEMMA AppendLineFacts ==
  ASSUME NEW lines \in Seq(Line), NEW l \in Line
  PROVE  LET r == AppendLine(lines, l) IN
         /\ r \in Seq(Line)
         /\ Len(r) # 0
         /\ \A i \in 1..Len(r) - 1 : i \in 1..Len(lines) /\ r[i] = lines[i]
         /\ \/ /\ lines # <<>> => Last(lines).kind # "torn"
               /\ Len(r) = Len(lines) + 1
               /\ r[Len(r)] = l
            \/ /\ lines # <<>> /\ Last(lines).kind = "torn"
               /\ Len(r) = Len(lines)
               /\ r[Len(r)] = IF l.kind = "torn" THEN Torn ELSE Garbled
<1>1. CASE lines # <<>> /\ Last(lines).kind = "torn"
  <2>. DEFINE e == IF l.kind = "torn" THEN Torn ELSE Garbled
  <2>1. AppendLine(lines, l) = Append(Front(lines), e)
    BY <1>1 DEF AppendLine
  <2>2. Len(lines) \in Nat /\ Len(lines) >= 1
    BY <1>1
  <2>3. /\ Front(lines) \in Seq(Line) /\ Len(Front(lines)) = Len(lines) - 1
        /\ \A i \in 1..Len(lines) - 1 : Front(lines)[i] = lines[i]
    <3>1. \A i \in 1..Len(lines) - 1 : lines[i] \in Line
      OBVIOUS
    <3>2. /\ SubSeq(lines, 1, Len(lines) - 1) \in Seq(Line)
          /\ Len(SubSeq(lines, 1, Len(lines) - 1)) = IF 1 <= Len(lines) - 1 THEN Len(lines) - 1 - 1 + 1 ELSE 0
          /\ \A i \in 1..Len(lines) - 1 - 1 + 1 : SubSeq(lines, 1, Len(lines) - 1)[i] = lines[1 + i - 1]
      BY <2>2, <3>1, SubSeqProperties
    <3>3. Front(lines) = SubSeq(lines, 1, Len(lines) - 1)
      BY DEF Front
    <3>. HIDE DEF Front
    <3>4. CASE Len(lines) = 1
      BY <3>2, <3>3, <3>4
    <3>5. CASE Len(lines) > 1
      BY <3>2, <3>3, <3>5
    <3>6. Len(lines) = 1 \/ Len(lines) > 1
      <4>1. \A n \in Nat : n >= 1 => n = 1 \/ n > 1
        OBVIOUS
      <4>. QED BY <2>2, <4>1, Zenon
    <3>. QED BY <3>4, <3>5, <3>6, Zenon
  <2>4. e \in Line
    BY LineOfType
  <2>. HIDE DEF e
  <2>5. /\ Append(Front(lines), e) \in Seq(Line)
        /\ Len(Append(Front(lines), e)) = Len(lines)
        /\ Append(Front(lines), e)[Len(lines)] = e
        /\ \A i \in 1..Len(lines) - 1 : Append(Front(lines), e)[i] = lines[i]
    BY <2>2, <2>3, <2>4
  <2>. QED BY <1>1, <2>1, <2>2, <2>5 DEF e
<1>2. CASE ~(lines # <<>> /\ Last(lines).kind = "torn")
  <2>1. AppendLine(lines, l) = Append(lines, l)
    BY <1>2 DEF AppendLine
  <2>. QED BY <1>2, <2>1
<1>. QED BY <1>1, <1>2

\* An append has two lines at most: what the fold does with them.
LEMMA AppendLinesShort ==
  ASSUME NEW lines \in Seq(Line), NEW ls \in Seq(Line), Len(ls) <= 2
  PROVE  AppendLines(lines, ls) =
           IF Len(ls) = 0 THEN lines
           ELSE IF Len(ls) = 1 THEN AppendLine(lines, ls[1])
           ELSE AppendLine(AppendLine(lines, ls[1]), ls[2])
<1>. DEFINE S == DOMAIN ls
            V == Seq(Line)
            pick == [T \in SUBSET S |-> Max(T)]
            step == [x \in S \X V |-> AppendLine(x[2], ls[x[1]])]
            def(g) == g = [T \in SUBSET S |->
                             IF T = {} THEN lines
                             ELSE AppendLine(g[T \ {Max(T)}], ls[Max(T)])]
            iter == CHOOSE g : def(g)
<1>1. S = 1..Len(ls) /\ Len(ls) \in Nat /\ IsFiniteSet(S)
  BY FS_Interval
<1>2. \A T \in SUBSET S : T # {} => Max(T) \in T /\ \A y \in T : Max(T) >= y
  <2>1. S \subseteq {1, 2}
    BY <1>1
  <2>2. ASSUME NEW T \in SUBSET S, T # {} PROVE \E x \in T : \A y \in T : x >= y
    BY <2>1, <2>2
  <2>. QED BY <2>2 DEF Max
<1>3. step \in [S \X V -> V]
  BY AppendLineFacts
<1>4. \E g : def(g)
  <2>1. PICK g \in [SUBSET S -> V] : Folds(g, S, lines, pick, step)
    <3>. HIDE DEF S, V, step, pick, def, iter
    <3>1. lines \in V
      BY DEF V
    <3>2. Picks(pick, S)
      BY <1>2 DEF pick, Picks
    <3>. QED BY <1>1, <1>3, <3>1, <3>2, FoldDefined
  <2>2. ASSUME NEW T \in SUBSET S, T # {}
        PROVE  g[T] = AppendLine(g[T \ {Max(T)}], ls[Max(T)])
    <3>1. g[T \ {Max(T)}] \in V /\ Max(T) \in S /\ pick[T] = Max(T)
      BY <2>1, <2>2, <1>2
    <3>. QED BY <3>1, <2>1, <2>2 DEF Folds
  <2>3. g = [T \in SUBSET S |-> g[T]] /\ g[{}] = lines
    BY <2>1 DEF Folds
  <2>. HIDE DEF S, V, pick, step
  <2>. QED BY <2>2, <2>3
<1>5. def(iter)
  <2>. HIDE DEF def
  <2>. QED BY <1>4
<1>6. AppendLines(lines, ls) = iter[S]
  BY DEF AppendLines, FoldLeft, MapThenFoldSet
<1>7. \A T \in SUBSET S :
        iter[T] = IF T = {} THEN lines ELSE AppendLine(iter[T \ {Max(T)}], ls[Max(T)])
  <2>. HIDE DEF iter
  <2>. QED BY <1>5
<1>. HIDE DEF iter
<1>8. CASE Len(ls) = 0
  <2>1. S = {}
    BY <1>1, <1>8
  <2>. QED BY <2>1, <1>6, <1>7, <1>8
<1>9. CASE Len(ls) = 1
  <2>1. S = {1} /\ S \ {1} = {}
    BY <1>1, <1>9
  <2>2. Max(S) = 1
    BY <2>1, <1>2
  <2>3. iter[{}] = lines
    BY <1>7
  <2>4. S \in SUBSET S /\ S # {}
    BY <2>1
  <2>5. iter[S] = AppendLine(iter[S \ {Max(S)}], ls[Max(S)])
    BY <2>4, <1>7
  <2>6. iter[S] = AppendLine(lines, ls[1])
    BY <2>1, <2>2, <2>3, <2>5
  <2>. HIDE DEF S
  <2>. QED BY <2>6, <1>6, <1>9
<1>10. CASE Len(ls) = 2
  <2>1. S = {1, 2} /\ S \ {2} = {1} /\ {1} \ {1} = {}
    BY <1>1, <1>10
  <2>2. Max(S) = 2 /\ Max({1}) = 1
    <3>1. {1} \in SUBSET S /\ S \in SUBSET S /\ S # {} /\ {1} # {}
      BY <2>1
    <3>2. Max(S) \in S /\ Max(S) >= 2
      BY <3>1, <2>1, <1>2
    <3>3. Max({1}) \in {1}
      BY <3>1, <1>2
    <3>. QED BY <2>1, <3>2, <3>3
  <2>3. iter[{}] = lines
    BY <1>7
  <2>4. iter[{1}] = AppendLine(lines, ls[1])
    <3>1. {1} \in SUBSET S
      BY <2>1
    <3>. QED BY <3>1, <2>1, <2>2, <2>3, <1>7
  <2>5. S \in SUBSET S /\ S # {}
    BY <2>1
  <2>6. iter[S] = AppendLine(iter[S \ {Max(S)}], ls[Max(S)])
    BY <2>5, <1>7
  <2>7. iter[S] = AppendLine(AppendLine(lines, ls[1]), ls[2])
    BY <2>1, <2>2, <2>4, <2>6
  <2>. HIDE DEF S
  <2>. QED BY <2>7, <1>6, <1>10
<1>. QED BY <1>1, <1>8, <1>9, <1>10

\* A file has a size.
LEMMA BytesType ==
  ASSUME NEW ls \in Seq(Line)
  PROVE  Bytes(ls) \in Nat
<1>. DEFINE S == DOMAIN ls
            pick == [T \in SUBSET S |-> CHOOSE x \in T : TRUE]
            step == [x \in S \X Nat |-> LineBytes(ls[x[1]]) + x[2]]
            def(g) == g = [T \in SUBSET S |->
                             IF T = {} THEN 0
                             ELSE LineBytes(ls[CHOOSE x \in T : TRUE])
                                  + g[T \ {CHOOSE x \in T : TRUE}]]
            iter == CHOOSE g : def(g)
<1>1. S = 1..Len(ls) /\ Len(ls) \in Nat /\ IsFiniteSet(S)
  BY FS_Interval
<1>2. Picks(pick, S)
  BY DEF Picks
<1>3. step \in [S \X Nat -> Nat]
  BY DEF LineBytes, SampleBytes
<1>4. \E g : def(g)
  <2>1. PICK g \in [SUBSET S -> Nat] : Folds(g, S, 0, pick, step)
    <3>. HIDE DEF S, step, pick, def, iter
    <3>. QED BY <1>1, <1>2, <1>3, FoldDefined
  <2>2. ASSUME NEW T \in SUBSET S, T # {}
        PROVE  g[T] = LineBytes(ls[CHOOSE x \in T : TRUE])
                        + g[T \ {CHOOSE x \in T : TRUE}]
    <3>1. g[T \ {pick[T]}] \in Nat /\ pick[T] \in S
      BY <2>1, <2>2, <1>2
    <3>. QED BY <3>1, <2>1, <2>2 DEF Folds
  <2>3. g = [T \in SUBSET S |-> g[T]] /\ g[{}] = 0
    BY <2>1 DEF Folds
  <2>. HIDE DEF S, pick, step
  <2>4. \A T \in SUBSET S :
          g[T] = IF T = {} THEN 0
                 ELSE LineBytes(ls[CHOOSE x \in T : TRUE])
                        + g[T \ {CHOOSE x \in T : TRUE}]
    BY <2>2, <2>3
  <2>5. def(g)
    BY <2>3, <2>4
  <2>. HIDE DEF def
  <2>. QED BY <2>5
<1>5. def(iter)
  <2>. HIDE DEF def
  <2>. QED BY <1>4
<1>6. Bytes(ls) = iter[S]
  BY DEF Bytes, FoldSeq, FoldFunction, FoldFunctionOnSet, MapThenFoldSet
<1>. HIDE DEF iter
<1>7. \A T \in SUBSET S : iter[T] \in Nat
  <2>1. iter[{}] \in Nat
    BY <1>5
  <2>2. ASSUME NEW T \in SUBSET S, T # {}, iter[T \ {pick[T]}] \in Nat
        PROVE  iter[T] \in Nat
    <3>1. iter[T] = LineBytes(ls[pick[T]]) + iter[T \ {pick[T]}]
      BY <1>5, <2>2
    <3>. QED BY <3>1, <2>2 DEF LineBytes, SampleBytes
  <2>. HIDE DEF S, pick, step, def, iter
  <2>. QED BY <1>1, <1>2, <2>1, <2>2, FoldTyped
<1>. QED BY <1>6, <1>7

\* Sequences of at most two elements have no, one or two of them.
LEMMA ShortLen ==
  ASSUME NEW ls \in Seq(Line), Len(ls) <= 2
  PROVE  Len(ls) \in {0, 1, 2}
<1>1. Len(ls) \in Nat
  BY LenProperties
<1>2. \A n \in Nat : n <= 2 => n \in {0, 1, 2}
  OBVIOUS
<1>. QED BY <1>1, <1>2, Zenon

\* ... and these elements are lines.
LEMMA ShortElements ==
  ASSUME NEW ls \in Seq(Line), Len(ls) <= 2
  PROVE  /\ Len(ls) # 0 => ls[1] \in Line
         /\ Len(ls) = 2 => ls[2] \in Line
<1>1. Len(ls) \in {0, 1, 2}
  BY ShortLen
<1>2. Len(ls) # 0 => 1 \in 1..Len(ls)
  BY <1>1
<1>3. Len(ls) = 2 => 2 \in 1..Len(ls)
  OBVIOUS
<1>. QED BY <1>2, <1>3, ElementOfSeq
-----------------------------------------------------------------------------
(* What a rotation does to the disk and the handle.                        *)

\* The file a rotation into directory p opens now.
NewFile(p) == <<p, Timestamp(now)>>

\* The disk after ls is appended to f, files other than f may be gone.
Becomes(f, ls) ==
  /\ f \in DOMAIN disk'
  /\ DOMAIN disk' \subseteq DOMAIN disk \cup {f}
  /\ disk' = [g \in DOMAIN disk' |-> disk'[g]]
  /\ disk'[f] = AppendLines(LinesOf(f), ls)
  /\ \A g \in DOMAIN disk' \ {f} : disk'[g] = disk[g]

\* The handle is open on f, after ls was appended to it.
Opens(f, ls) ==
  /\ Becomes(f, ls)
  /\ fp' = f
  /\ current_file' = f
  /\ current_file_bytes' \in Nat
  /\ current_file_opened_ms' = now

\* No handle is open.
Closes ==
  /\ fp' = NoFile
  /\ current_file' \in File \cup {NoFile}
  /\ current_file_bytes' = 0
  /\ current_file_opened_ms' = 0

\* The clock's seconds are a number.
LEMMA TimestampNat ==
  ASSUME NEW t \in Nat PROVE Timestamp(t) \in Nat
  BY WriterAssumption DEF Timestamp

\* The names of files never go back (src/rotation.c:60-65).
LEMMA TimestampMonotonic ==
  ASSUME NEW t \in Nat PROVE Timestamp(t) <= Timestamp(t + 1)
  BY WriterAssumption DEF Timestamp

\* An append that nothing follows.
LEMMA AppendedBecomes ==
  ASSUME NEW f, NEW ls, disk' = Appended(f, ls)
  PROVE  Becomes(f, ls)
  BY DEF Appended, Becomes

\* An append and then retention, which spares the current file and changes no
\* other file it leaves.
LEMMA RetentionBecomes ==
  ASSUME NEW f, NEW ls, NEW p, disk' \in AfterRetention(Appended(f, ls), p, f)
  PROVE  Becomes(f, ls)
<1>. DEFINE d == Appended(f, ls)
<1>1. DOMAIN d = DOMAIN disk \cup {f} /\ d[f] = AppendLines(LinesOf(f), ls)
      /\ \A g \in DOMAIN d \ {f} : d[g] = disk[g]
  BY DEF Appended
<1>. HIDE DEF d
<1>2. PICK kept \in SUBSET DOMAIN d :
        /\ \A g \in DOMAIN d : g[1] # p \/ g = f => g \in kept
        /\ disk' = [g \in kept |-> d[g]]
  BY DEF AfterRetention, d
<1>3. f \in kept
  BY <1>1, <1>2
<1>. QED BY <1>1, <1>2, <1>3 DEF Becomes

\* What opening a file may leave at its end: nothing, a torn header, a header.
LEMMA ShortType ==
  /\ <<>> \in Seq(Line) /\ <<Torn>> \in Seq(Line) /\ <<Header>> \in Seq(Line)
  /\ Len(<<>>) = 0 /\ Len(<<Torn>>) = 1 /\ Len(<<Header>>) = 1
  BY LineOfType

\* ... has at most two lines.
LEMMA ShortLines ==
  ASSUME NEW ls \in {<<>>, <<Torn>>, <<Header>>}
  PROVE  ls \in Seq(Line) /\ Len(ls) <= 2
<1>1. CASE ls = <<>>
  BY <1>1
<1>2. CASE ls = <<Torn>>
  BY <1>2, LineOfType
<1>3. CASE ls = <<Header>>
  BY <1>3, LineOfType
<1>. QED BY <1>1, <1>2, <1>3

\* Appends are of lines.
LEMMA AppendLinesType ==
  ASSUME NEW lines \in Seq(Line), NEW ls \in Seq(Line), Len(ls) <= 2
  PROVE  AppendLines(lines, ls) \in Seq(Line)
<1>1. AppendLines(lines, ls) =
        IF Len(ls) = 0 THEN lines
        ELSE IF Len(ls) = 1 THEN AppendLine(lines, ls[1])
        ELSE AppendLine(AppendLine(lines, ls[1]), ls[2])
  BY AppendLinesShort
<1>2. \A a \in Seq(Line), l \in Line : AppendLine(a, l) \in Seq(Line)
  BY AppendLineFacts
<1>3. Len(ls) \in {0, 1, 2}
  <2>1. Len(ls) \in Nat
    BY LenProperties
  <2>2. \A n \in Nat : n <= 2 => n \in {0, 1, 2}
    OBVIOUS
  <2>. QED BY <2>1, <2>2, Zenon
<1>4. Len(ls) # 0 => ls[1] \in Line
  BY <1>3
<1>5. Len(ls) = 2 => ls[2] \in Line
  OBVIOUS
<1>. QED BY <1>1, <1>2, <1>3, <1>4, <1>5

\* Metrics files hold lines.
DiskType == DOMAIN disk \subseteq File /\ disk \in [DOMAIN disk -> Seq(Line)]

\* A file that is not there is an empty one.
LEMMA LinesOfType ==
  ASSUME DiskType, NEW f PROVE LinesOf(f) \in Seq(Line)
  BY DEF LinesOf, DiskType

\* Appending to a metrics file leaves metrics files.
LEMMA BecomesType ==
  ASSUME DiskType, NEW f \in File, NEW ls \in Seq(Line), Len(ls) <= 2, Becomes(f, ls)
  PROVE  DiskType'
<1>1. disk'[f] \in Seq(Line)
  BY LinesOfType, AppendLinesType DEF Becomes
<1>2. \A g \in DOMAIN disk' : disk'[g] \in Seq(Line)
  BY <1>1 DEF Becomes, DiskType
<1>. QED BY <1>2 DEF Becomes, DiskType

\* The size the module notes for a file it opened is a number.
LEMMA OpenFileBytes ==
  ASSUME DiskType, NEW f \in File, NEW ls \in Seq(Line), Len(ls) <= 2
  PROVE  Bytes(Appended(f, ls)[f]) \in Nat
<1>1. Appended(f, ls)[f] = AppendLines(LinesOf(f), ls)
  BY DEF Appended
<1>. QED BY <1>1, LinesOfType, AppendLinesType, BytesType

\* A rotation that succeeds opens a file with a header and asks for a
\* checkpoint.
LEMMA RotatedEffect ==
  ASSUME DiskType, now \in Nat, NEW p \in Path, Rotated(p)
  PROVE  /\ Opens(NewFile(p), <<Header>>)
         /\ NewFile(p) \in File
         /\ need_checkpoint' = TRUE
         /\ last_error' = FALSE
<1>1. NewFile(p) \in File
  BY TimestampNat DEF NewFile, File
<1>2. disk' \in AfterRetention(Appended(NewFile(p), <<Header>>), p, NewFile(p))
  BY DEF Rotated, NewFile
<1>3. Becomes(NewFile(p), <<Header>>)
  BY <1>2, RetentionBecomes
<1>4. current_file_bytes' \in Nat
  <2>1. <<Header>> \in Seq(Line) /\ Len(<<Header>>) <= 2
    BY ShortLines
  <2>2. Bytes(Appended(NewFile(p), <<Header>>)[NewFile(p)]) \in Nat
    BY <1>1, <2>1, OpenFileBytes
  <2>. QED BY <2>2 DEF Rotated, OpenFile, NewFile
<1>. QED BY <1>1, <1>3, <1>4 DEF Rotated, OpenFile, NewFile, Opens

\* A rotation whose header is lost opens a file without it and still asks for
\* a checkpoint.
LEMMA HeaderLostEffect ==
  ASSUME DiskType, now \in Nat, NEW p \in Path, HeaderLost(p)
  PROVE  /\ \E ls \in {<<>>, <<Torn>>} : Opens(NewFile(p), ls)
         /\ NewFile(p) \in File
         /\ "header flush" \in Faults /\ Disturb
         /\ need_checkpoint' = TRUE
         /\ last_error' = FALSE
<1>1. NewFile(p) \in File
  BY TimestampNat DEF NewFile, File
<1>2. PICK ls \in {<<>>, <<Torn>>} :
        /\ OpenFile(NewFile(p), Appended(NewFile(p), ls))
        /\ disk' \in AfterRetention(Appended(NewFile(p), ls), p, NewFile(p))
  BY DEF HeaderLost, NewFile
<1>3. Becomes(NewFile(p), ls)
  BY <1>2, RetentionBecomes
<1>4. current_file_bytes' \in Nat
  <2>1. ls \in Seq(Line) /\ Len(ls) <= 2
    BY ShortLines
  <2>. QED BY <2>1, <1>1, <1>2, OpenFileBytes DEF OpenFile
<1>5. Opens(NewFile(p), ls)
  BY <1>2, <1>3, <1>4 DEF OpenFile, Opens
<1>. QED BY <1>1, <1>5 DEF HeaderLost, Fault

\* A rotation that fails leaves no file open, but for one whose retention
\* failed.
LEMMA RotateFailedEffect ==
  ASSUME DiskType, now \in Nat, NEW p \in Path, RotateFailed(p)
  PROVE  /\ \/ Closes /\ disk' = disk
            \/ Closes /\ \E ls \in {<<>>, <<Torn>>} : Becomes(NewFile(p), ls)
            \/ "retention" \in Faults /\ Opens(NewFile(p), <<Header>>)
         /\ NewFile(p) \in File
         /\ Disturb
         /\ last_error' = TRUE
<1>1. NewFile(p) \in File
  BY TimestampNat DEF NewFile, File
<1>2. CASE MkdirFails
  BY <1>1, <1>2 DEF MkdirFails, CloseFile, Closes, RotateFailed, Fault
<1>3. CASE OpenFails(NewFile(p))
  BY <1>1, <1>3 DEF OpenFails, CloseFile, Closes, RotateFailed, Fault
<1>4. CASE HeaderFails(NewFile(p))
  <2>1. PICK ls \in {<<>>, <<Torn>>} : disk' = Appended(NewFile(p), ls)
    BY <1>4 DEF HeaderFails
  <2>2. Becomes(NewFile(p), ls)
    BY <2>1, AppendedBecomes
  <2>3. Closes /\ Disturb
    BY <1>1, <1>4 DEF HeaderFails, CloseFile, Closes, Fault
  <2>. QED BY <1>1, <2>2, <2>3 DEF RotateFailed
<1>5. CASE RetentionFails(NewFile(p))
  <2>1. disk' = Appended(NewFile(p), <<Header>>) /\ OpenFile(NewFile(p), disk')
        /\ "retention" \in Faults /\ Disturb
    BY <1>5 DEF RetentionFails, Fault
  <2>2. Becomes(NewFile(p), <<Header>>)
    BY <2>1, AppendedBecomes
  <2>3. current_file_bytes' \in Nat
    BY <1>1, <2>1, ShortType, OpenFileBytes DEF OpenFile
  <2>. QED BY <1>1, <2>1, <2>2, <2>3 DEF RotateFailed, OpenFile, Opens
<1>. QED BY <1>2, <1>3, <1>4, <1>5 DEF RotateFailed, NewFile
-----------------------------------------------------------------------------
(* The parts of the invariant, and what an append may leave of its lines.  *)

\* What an append has encoded when it is at each of its steps.
EncodedOK ==
  /\ pc \in {"idle", "rotate", "encode"} => encoded = <<>>
  /\ pc = "recheck" => ~delta_metrics /\ encoded = <<LineOf("snapshot", 1, seq, 0)>>
  /\ pc = "rotate_again" => ~delta_metrics /\ encoded = <<Blank>>
  /\ pc = "write" /\ ~delta_metrics =>
       encoded \in {<<Blank>>, <<LineOf("snapshot", 1, seq, 0)>>}
  /\ pc = "write" /\ delta_metrics =>
       \/ encoded = <<LineOf("checkpoint", 2, seq, 0)>>
       \/ encoded = <<LineOf("restart", 2, 0, 0), LineOf("checkpoint", 2, seq, 0)>>
       \/ \E b \in 1..seq : encoded = <<LineOf("delta", 2, seq, b)>>

\* Each sample is counted once at most, and only when its append ends.
CountOK ==
  /\ written.samples <= seq
  /\ pc # "idle" => written.samples < seq

\* The handle, the name and the counters of the file agree.
FileOK ==
  /\ DiskType
  /\ fp \in File \cup {NoFile} /\ current_file \in File \cup {NoFile}
  /\ current_file_bytes \in Nat /\ current_file_opened_ms \in 0..MaxTime
  /\ fp # NoFile => /\ fp = current_file
                    /\ fp \in DOMAIN disk
                    /\ fp[1] = path

\* No handle is not a file.
LEMMA NoFileIsNoFile == NoFile \notin File
  BY WriterAssumption DEF File

\* Opening a file in the configured directory leaves the handle coherent.
LEMMA OpensFileOK ==
  ASSUME DiskType, now \in 0..MaxTime, NEW p \in Path, path' = p,
         NEW ls \in {<<>>, <<Torn>>, <<Header>>}, Opens(NewFile(p), ls)
  PROVE  FileOK' /\ fp' # NoFile
<1>1. NewFile(p) \in File /\ NewFile(p)[1] = p
  BY WriterAssumption, TimestampNat DEF NewFile, File
<1>2. DiskType'
  BY <1>1, ShortLines, BecomesType DEF Opens
<1>. QED BY <1>1, <1>2, NoFileIsNoFile DEF Opens, Becomes, FileOK

\* Closing a file does.
LEMMA ClosesFileOK ==
  ASSUME Closes, DiskType'
  PROVE  FileOK' /\ fp' = NoFile
  BY WriterAssumption DEF Closes, FileOK

\* A rotation that succeeds does, and clears the error.
LEMMA RotatedFileOK ==
  ASSUME DiskType, now \in 0..MaxTime, NEW p \in Path, path' = p, Rotated(p)
  PROVE  FileOK' /\ fp' # NoFile /\ need_checkpoint' = TRUE /\ last_error' = FALSE
<1>1. Opens(NewFile(p), <<Header>>) /\ need_checkpoint' = TRUE /\ last_error' = FALSE
  <2>1. now \in Nat
    BY WriterAssumption
  <2>. QED BY <2>1, RotatedEffect
<1>. QED BY <1>1, OpensFileOK

\* A rotation whose header is lost does, and clears the error.
LEMMA HeaderLostFileOK ==
  ASSUME DiskType, now \in 0..MaxTime, NEW p \in Path, path' = p, HeaderLost(p)
  PROVE  FileOK' /\ fp' # NoFile /\ need_checkpoint' = TRUE /\ last_error' = FALSE
         /\ Disturb
<1>1. /\ \E ls \in {<<>>, <<Torn>>} : Opens(NewFile(p), ls)
      /\ need_checkpoint' = TRUE /\ last_error' = FALSE /\ Disturb
  <2>1. now \in Nat
    BY WriterAssumption
  <2>. QED BY <2>1, HeaderLostEffect
<1>2. PICK ls \in {<<>>, <<Torn>>} : Opens(NewFile(p), ls)
  BY <1>1
<1>. QED BY <1>1, <1>2, OpensFileOK

\* A rotation that fails does, and sets the error.
LEMMA RotateFailedFileOK ==
  ASSUME DiskType, now \in 0..MaxTime, NEW p \in Path, path' = p, RotateFailed(p)
  PROVE  FileOK' /\ last_error' = TRUE /\ Disturb
<1>1. /\ \/ Closes /\ disk' = disk
         \/ Closes /\ \E ls \in {<<>>, <<Torn>>} : Becomes(NewFile(p), ls)
         \/ "retention" \in Faults /\ Opens(NewFile(p), <<Header>>)
      /\ NewFile(p) \in File /\ last_error' = TRUE /\ Disturb
  <2>1. now \in Nat
    BY WriterAssumption
  <2>. QED BY <2>1, RotateFailedEffect
<1>2. CASE Closes /\ disk' = disk
  <2>1. DiskType'
    BY <1>2 DEF DiskType
  <2>. QED BY <2>1, <1>1, <1>2, ClosesFileOK
<1>3. CASE Closes /\ \E ls \in {<<>>, <<Torn>>} : Becomes(NewFile(p), ls)
  <2>1. PICK ls \in {<<>>, <<Torn>>} : Becomes(NewFile(p), ls)
    BY <1>3
  <2>2. ls \in Seq(Line) /\ Len(ls) <= 2
    BY ShortLines
  <2>3. DiskType'
    BY <1>1, <2>1, <2>2, BecomesType
  <2>. QED BY <2>3, <1>1, <1>3, ClosesFileOK
<1>4. CASE Opens(NewFile(p), <<Header>>)
  BY <1>1, <1>4, OpensFileOK
<1>. QED BY <1>1, <1>2, <1>3, <1>4

\* The encoder makes lines.
LEMMA EncodedLines ==
  /\ \A k \in {"header", "snapshot", "checkpoint", "delta", "restart", "blank"},
        v \in 0..2, s \in Nat, b \in Nat : LineOf(k, v, s, b) \in Line
  BY DEF LineOf, Line, HeaderKinds, DataKinds

\* What may reach the disk of one line.
LEMMA PartOfOne ==
  ASSUME NEW a \in Line
  PROVE  PartOf(<<a>>) \subseteq {<<>>, <<a>>, <<Torn>>}
<1>1. <<a>> \in Seq(Line) /\ Len(<<a>>) = 1
  OBVIOUS
<1>2. SubSeq(<<a>>, 1, 0) = <<>>
  BY SubSeqEmpty
<1>3. SubSeq(<<a>>, 1, 1) = <<a>>
  <2>1. SubSeq(<<a>>, 1, Len(<<a>>)) = <<a>>
    BY <1>1, SubSeqFull
  <2>. QED BY <2>1, <1>1
<1>4. Append(<<>>, Torn) = <<Torn>>
  OBVIOUS
<1>5. \A n \in Int : (n \in 0..1 => n = 0 \/ n = 1) /\ (n \in 0..1 - 1 => n = 0)
  OBVIOUS
<1>6. \A x \in PartOf(<<a>>) : \/ \E n \in 0..1 : x = SubSeq(<<a>>, 1, n)
                               \/ \E n \in 0..1 - 1 : x = Append(SubSeq(<<a>>, 1, n), Torn)
  BY <1>1 DEF PartOf
<1>. QED BY <1>2, <1>3, <1>4, <1>5, <1>6

\* What may reach the disk of a restart record and the checkpoint behind it.
LEMMA PartOfTwo ==
  ASSUME NEW a \in Line, NEW b \in Line
  PROVE  PartOf(<<a, b>>) \subseteq {<<>>, <<a>>, <<a, b>>, <<Torn>>, <<a, Torn>>}
<1>1. <<a, b>> \in Seq(Line) /\ Len(<<a, b>>) = 2
  OBVIOUS
<1>2. SubSeq(<<a, b>>, 1, 0) = <<>>
  BY SubSeqEmpty
<1>3. SubSeq(<<a, b>>, 1, 1) = <<a>>
  <2>1. <<a, b>>[1] = a
    OBVIOUS
  <2>2. /\ SubSeq(<<a, b>>, 1, 1) \in Seq(Line)
        /\ Len(SubSeq(<<a, b>>, 1, 1)) = 1
        /\ SubSeq(<<a, b>>, 1, 1)[1] = a
    BY <2>1
  <2>3. <<a>> \in Seq(Line) /\ Len(<<a>>) = 1 /\ <<a>>[1] = a
    OBVIOUS
  <2>4. \A i \in 1..1 : SubSeq(<<a, b>>, 1, 1)[i] = <<a>>[i]
    BY <2>2, <2>3
  <2>. QED BY <2>2, <2>3, <2>4, SeqEqual
<1>4. SubSeq(<<a, b>>, 1, 2) = <<a, b>>
  <2>1. SubSeq(<<a, b>>, 1, Len(<<a, b>>)) = <<a, b>>
    BY <1>1, SubSeqFull
  <2>. QED BY <2>1, <1>1
<1>5. Append(<<>>, Torn) = <<Torn>> /\ Append(<<a>>, Torn) = <<a, Torn>>
  <2>1. Append(<<>>, Torn) = <<Torn>>
    OBVIOUS
  <2>2. /\ <<a>> \in Seq(Line) /\ Len(<<a>>) = 1 /\ <<a>>[1] = a
        /\ <<a, Torn>> \in Seq(Line) /\ Len(<<a, Torn>>) = 2
        /\ <<a, Torn>>[1] = a /\ <<a, Torn>>[2] = Torn /\ Torn \in Line
    BY LineOfType
  <2>3. /\ Append(<<a>>, Torn) \in Seq(Line) /\ Len(Append(<<a>>, Torn)) = 2
        /\ Append(<<a>>, Torn)[1] = a /\ Append(<<a>>, Torn)[2] = Torn
    BY <2>2
  <2>4. \A i \in 1..2 : i = 1 \/ i = 2
    OBVIOUS
  <2>5. \A i \in 1..2 : Append(<<a>>, Torn)[i] = <<a, Torn>>[i]
    BY <2>2, <2>3, <2>4
  <2>6. Append(<<a>>, Torn) = <<a, Torn>>
    BY <2>2, <2>3, <2>5, SeqEqual
  <2>. QED BY <2>1, <2>6
<1>6. \A n \in Int : /\ n \in 0..2 => n = 0 \/ n = 1 \/ n = 2
                     /\ n \in 0..2 - 1 => n = 0 \/ n = 1
  OBVIOUS
<1>7. \A x \in PartOf(<<a, b>>) :
         \/ \E n \in 0..2 : x = SubSeq(<<a, b>>, 1, n)
         \/ \E n \in 0..2 - 1 : x = Append(SubSeq(<<a, b>>, 1, n), Torn)
  BY <1>1 DEF PartOf
<1>8. ASSUME NEW x \in PartOf(<<a, b>>)
      PROVE  x \in {<<>>, <<a>>, <<a, b>>, <<Torn>>, <<a, Torn>>}
  <2>1. CASE \E n \in 0..2 : x = SubSeq(<<a, b>>, 1, n)
    <3>1. x = SubSeq(<<a, b>>, 1, 0) \/ x = SubSeq(<<a, b>>, 1, 1) \/ x = SubSeq(<<a, b>>, 1, 2)
      BY <2>1, <1>6
    <3>. QED BY <3>1, <1>2, <1>3, <1>4, Zenon
  <2>2. CASE \E n \in 0..2 - 1 : x = Append(SubSeq(<<a, b>>, 1, n), Torn)
    <3>1. \/ x = Append(SubSeq(<<a, b>>, 1, 0), Torn)
          \/ x = Append(SubSeq(<<a, b>>, 1, 1), Torn)
      BY <2>2, <1>6
    <3>. QED BY <3>1, <1>2, <1>3, <1>5, Zenon
  <2>. QED BY <2>1, <2>2, <1>7
<1>. QED BY <1>8

\* An append writes one or two lines, and at most as many parts of them reach
\* the disk.
LEMMA EncodedShort ==
  ASSUME EncodedOK, pc = "write", seq \in Nat, delta_metrics \in BOOLEAN
  PROVE  /\ encoded \in Seq(Line)
         /\ Len(encoded) \in {1, 2}
         /\ \A part \in PartOf(encoded) : part \in Seq(Line) /\ Len(part) <= 2
<1>1. CASE \E a \in Line : encoded = <<a>>
  <2>1. PICK a \in Line : encoded = <<a>>
    BY <1>1
  <2>2. \A part \in PartOf(encoded) : part \in Seq(Line) /\ Len(part) <= 2
    <3>1. \A part \in {<<>>, <<a>>, <<Torn>>} : part \in Seq(Line) /\ Len(part) <= 2
      <4>1. <<a>> \in Seq(Line) /\ Len(<<a>>) <= 2
        OBVIOUS
      <4>. QED BY <4>1, ShortLines
    <3>. QED BY <3>1, <2>1, PartOfOne
  <2>. QED BY <2>1, <2>2
<1>2. CASE \E a \in Line, b \in Line : encoded = <<a, b>>
  <2>1. PICK a \in Line, b \in Line : encoded = <<a, b>>
    BY <1>2
  <2>2. \A part \in PartOf(encoded) : part \in Seq(Line) /\ Len(part) <= 2
    <3>1. \A part \in {<<>>, <<a>>, <<a, b>>, <<Torn>>, <<a, Torn>>} :
            part \in Seq(Line) /\ Len(part) <= 2
      <4>1. /\ <<a>> \in Seq(Line) /\ Len(<<a>>) <= 2
            /\ <<a, b>> \in Seq(Line) /\ Len(<<a, b>>) <= 2
            /\ <<a, Torn>> \in Seq(Line) /\ Len(<<a, Torn>>) <= 2
        BY LineOfType
      <4>. QED BY <4>1, ShortLines
    <3>. QED BY <3>1, <2>1, PartOfTwo
  <2>. QED BY <2>1, <2>2
<1>3. /\ Blank \in Line
      /\ LineOf("snapshot", 1, seq, 0) \in Line
      /\ LineOf("checkpoint", 2, seq, 0) \in Line
      /\ LineOf("restart", 2, 0, 0) \in Line
      /\ \A b \in 1..seq : LineOf("delta", 2, seq, b) \in Line
  BY LineOfType, EncodedLines
<1>4. CASE ~delta_metrics
  BY <1>1, <1>3, <1>4 DEF EncodedOK
<1>5. CASE delta_metrics
  BY <1>1, <1>2, <1>3, <1>5 DEF EncodedOK
<1>. QED BY <1>4, <1>5

\* The types of what is not the file.
RestOK ==
  /\ Configured
  /\ now \in 0..MaxTime
  /\ need_checkpoint \in BOOLEAN /\ base \in 0..seq
  /\ last_error \in BOOLEAN
  /\ written \in [{"samples", "checkpoints", "deltas", "restarts"} -> Nat]
  /\ pc \in {"idle", "rotate", "encode", "recheck", "rotate_again", "write"}
  /\ seq \in 0..MaxSamples
  /\ encoded \in Seq(Line)
  /\ disturbances \in 0..MaxDisturbances
-----------------------------------------------------------------------------
(* The invariant, action by action.                                        *)

\* The inductive invariant of the write path.  TypeOK alone is not inductive:
\* that an append in progress has a file open, and that its sample is not
\* counted yet, is needed for the types of the file and of the counters.
Inv ==
  /\ FileOK /\ RestOK /\ EncodedOK /\ CountOK
  /\ pc \in {"encode", "recheck", "write"} => fp # NoFile
  /\ LostFileIsReported

\* A step that leaves the file alone leaves it coherent.
LEMMA SameFiles ==
  ASSUME FileOK, UNCHANGED <<path, fileVars, disk>>
  PROVE  FileOK'
  BY DEF FileOK, DiskType, fileVars

\* No lines are lines.
LEMMA Emptied ==
  <<>> \in Seq(Line)
  OBVIOUS

\* Disturbances stay within their bound.
LEMMA DisturbOK ==
  ASSUME Disturb, disturbances \in 0..MaxDisturbances
  PROVE  disturbances' \in 0..MaxDisturbances
  BY WriterAssumption DEF Disturb

\* A collection that fails keeps the invariant.
LEMMA CollectFailsInv == ASSUME Inv, CollectFails PROVE Inv'
<1>1. FileOK'
  BY SameFiles DEF Inv, CollectFails, config
<1>2. RestOK'
  BY DisturbOK DEF Inv, CollectFails, Fault, RestOK, Configured, config, encoderVars, appendVars
<1>3. EncodedOK' /\ CountOK'
  BY DEF Inv, CollectFails, EncodedOK, CountOK, config, appendVars, LineOf, Blank
<1>4. LostFileIsReported' /\ (pc' \in {"encode", "recheck", "write"} => fp' # NoFile)
  BY DEF Inv, CollectFails, LostFileIsReported, fileVars, appendVars
<1>. QED BY <1>1, <1>2, <1>3, <1>4 DEF Inv

\* Collecting a sample keeps the invariant.
LEMMA CollectSampleInv == ASSUME Inv, CollectSample PROVE Inv'
<1>1. FileOK'
  BY SameFiles DEF Inv, CollectSample, config
<1>2. RestOK'
  BY WriterAssumption DEF Inv, CollectSample, RestOK, Configured, config, encoderVars
<1>3. EncodedOK' /\ CountOK'
  BY DEF Inv, CollectSample, EncodedOK, CountOK, RestOK, config
<1>4. LostFileIsReported' /\ (pc' \in {"encode", "recheck", "write"} => fp' # NoFile)
  BY DEF Inv, CollectSample, LostFileIsReported, ShouldRotate, fileVars
<1>. QED BY <1>1, <1>2, <1>3, <1>4 DEF Inv

\* The rotations of an append keep the invariant, whether they succeed or fail.
LEMMA RotateInAppendInv ==
  ASSUME Inv, NEW step, NEW next, RotateInAppend(step, next),
         \/ step = "rotate" /\ next = "encode"
         \/ step = "rotate_again" /\ next = "write"
  PROVE  Inv'
<1>1. DiskType /\ now \in 0..MaxTime /\ path \in Path /\ path' = path
  BY DEF Inv, FileOK, RestOK, Configured, RotateInAppend, config
<1>2. CASE Rotated(path) /\ pc' = next /\ UNCHANGED <<encoded, disturbances>>
  <2>1. FileOK' /\ fp' # NoFile /\ need_checkpoint' = TRUE /\ last_error' = FALSE
    BY <1>1, <1>2, RotatedFileOK
  <2>2. RestOK'
    BY <2>1, <1>2 DEF Inv, RotateInAppend, RestOK, Configured, config
  <2>3. EncodedOK' /\ CountOK'
    BY <1>2 DEF Inv, RotateInAppend, EncodedOK, CountOK, config
  <2>4. LostFileIsReported'
    BY <2>1 DEF LostFileIsReported
  <2>. QED BY <2>1, <2>2, <2>3, <2>4 DEF Inv
<1>3. CASE HeaderLost(path) /\ pc' = next /\ UNCHANGED encoded
  <2>1. FileOK' /\ fp' # NoFile /\ need_checkpoint' = TRUE /\ last_error' = FALSE /\ Disturb
    BY <1>1, <1>3, HeaderLostFileOK
  <2>2. RestOK'
    BY <2>1, <1>3, DisturbOK DEF Inv, RotateInAppend, RestOK, Configured, config
  <2>3. EncodedOK' /\ CountOK'
    BY <1>3 DEF Inv, RotateInAppend, EncodedOK, CountOK, config
  <2>4. LostFileIsReported'
    BY <2>1 DEF LostFileIsReported
  <2>. QED BY <2>1, <2>2, <2>3, <2>4 DEF Inv
<1>4. CASE RotateFailed(path) /\ pc' = "idle" /\ encoded' = <<>> /\ UNCHANGED need_checkpoint
  <2>1. FileOK' /\ last_error' = TRUE /\ Disturb
    BY <1>1, <1>4, RotateFailedFileOK
  <2>2. RestOK'
    BY <2>1, <1>4, DisturbOK, Emptied DEF Inv, RotateInAppend, RestOK, Configured, config
  <2>3. EncodedOK' /\ CountOK'
    BY <1>4 DEF Inv, RotateInAppend, EncodedOK, CountOK, config
  <2>4. LostFileIsReported'
    BY <2>1 DEF LostFileIsReported
  <2>. QED BY <1>4, <2>1, <2>2, <2>3, <2>4 DEF Inv
<1>. QED BY <1>2, <1>3, <1>4 DEF RotateInAppend

\* An encoder that fails keeps the invariant.
LEMMA EncodeFailsInv == ASSUME Inv, EncodeFails PROVE Inv'
<1>1. FileOK'
  BY SameFiles DEF Inv, EncodeFails, config
<1>2. RestOK'
  BY DisturbOK DEF Inv, EncodeFails, Fault, RestOK, Configured, config, encoderVars
<1>3. EncodedOK' /\ CountOK'
  BY DEF Inv, EncodeFails, EncodedOK, CountOK, config
<1>4. LostFileIsReported' /\ (pc' \in {"encode", "recheck", "write"} => fp' # NoFile)
  BY DEF Inv, EncodeFails, LostFileIsReported
<1>. QED BY <1>1, <1>2, <1>3, <1>4 DEF Inv

\* Encoding a snapshot keeps the invariant.
LEMMA EncodeSnapshotInv == ASSUME Inv, EncodeSnapshot PROVE Inv'
<1>1. FileOK'
  BY SameFiles DEF Inv, EncodeSnapshot, config
<1>2. RestOK'
  <2>1. LineOf("snapshot", 1, seq, 0) \in Line
    BY EncodedLines DEF Inv, RestOK
  <2>2. encoded' \in Seq(Line)
    BY <2>1 DEF EncodeSnapshot
  <2>. QED BY <2>2 DEF Inv, EncodeSnapshot, RestOK, Configured, config, encoderVars
<1>3. EncodedOK' /\ CountOK'
  BY DEF Inv, EncodeSnapshot, EncodedOK, CountOK, config, LineOf
<1>4. LostFileIsReported' /\ (pc' \in {"encode", "recheck", "write"} => fp' # NoFile)
  BY DEF Inv, EncodeSnapshot, LostFileIsReported, fileVars
<1>. QED BY <1>1, <1>2, <1>3, <1>4 DEF Inv

\* Encoding a checkpoint or a delta keeps the invariant.
LEMMA EncodeRecordInv == ASSUME Inv, EncodeRecord PROVE Inv'
<1>1. FileOK'
  BY SameFiles DEF Inv, EncodeRecord, config
<1>2. seq \in 1..MaxSamples /\ base \in 0..seq
  BY DEF Inv, EncodeRecord, CountOK, RestOK
<1>3. \/ encoded' = <<LineOf("checkpoint", 2, seq, 0)>>
      \/ encoded' = <<LineOf("restart", 2, 0, 0), LineOf("checkpoint", 2, seq, 0)>>
      \/ base # 0 /\ encoded' = <<LineOf("delta", 2, seq, base)>>
  BY DEF EncodeRecord
<1>4. RestOK'
  <2>1. /\ LineOf("checkpoint", 2, seq, 0) \in Line
        /\ LineOf("restart", 2, 0, 0) \in Line
        /\ LineOf("delta", 2, seq, base) \in Line
    BY <1>2, EncodedLines
  <2>2. encoded' \in Seq(Line)
    <3>. DEFINE c == LineOf("checkpoint", 2, seq, 0)
                r == LineOf("restart", 2, 0, 0)
                e == LineOf("delta", 2, seq, base)
    <3>. HIDE DEF c, r, e
    <3>1. c \in Line /\ r \in Line /\ e \in Line
      BY <2>1 DEF c, r, e
    <3>2. <<c>> \in Seq(Line) /\ <<r, c>> \in Seq(Line) /\ <<e>> \in Seq(Line)
      BY <3>1
    <3>3. encoded' = <<c>> \/ encoded' = <<r, c>> \/ encoded' = <<e>>
      BY <1>3 DEF c, r, e
    <3>. QED BY <3>2, <3>3
  <2>3. base' \in 0..seq' /\ need_checkpoint' \in BOOLEAN /\ pc' = "write"
    <3>1. base' = seq /\ seq' = seq /\ pc' = "write" /\ seq \in 0..seq
      BY <1>2, WriterAssumption DEF EncodeRecord
    <3>2. need_checkpoint' \in BOOLEAN
      BY DEF EncodeRecord, Inv, RestOK
    <3>. QED BY <3>1, <3>2
  <2>. QED BY <2>2, <2>3 DEF Inv, EncodeRecord, RestOK, Configured, config
<1>5. EncodedOK'
  <2>1. pc' = "write" /\ delta_metrics' /\ seq' = seq
    BY DEF EncodeRecord, config
  <2>2. base # 0 => base \in 1..seq
    BY <1>2
  <2>3. \/ encoded' = <<LineOf("checkpoint", 2, seq', 0)>>
        \/ encoded' = <<LineOf("restart", 2, 0, 0), LineOf("checkpoint", 2, seq', 0)>>
        \/ \E b \in 1..seq' : encoded' = <<LineOf("delta", 2, seq', b)>>
    BY <1>3, <2>1, <2>2, Zenon
  <2>. QED BY <2>1, <2>3 DEF EncodedOK
<1>6. CountOK'
  BY DEF Inv, EncodeRecord, CountOK
<1>7. LostFileIsReported' /\ (pc' \in {"encode", "recheck", "write"} => fp' # NoFile)
  BY DEF Inv, EncodeRecord, LostFileIsReported, fileVars
<1>. QED BY <1>1, <1>4, <1>5, <1>6, <1>7 DEF Inv

\* The second look at the limits keeps the invariant.
LEMMA RecheckInv == ASSUME Inv, Recheck PROVE Inv'
<1>1. FileOK'
  BY SameFiles DEF Inv, Recheck, config
<1>2. RestOK'
  <2>1. encoded' \in Seq(Line)
    <3>1. <<Blank>> \in Seq(Line)
      BY LineOfType
    <3>. QED BY <3>1 DEF Inv, RestOK, Recheck
  <2>. QED BY <2>1 DEF Inv, Recheck, RestOK, Configured, config, encoderVars
<1>3. EncodedOK'
  <2>1. ~delta_metrics' /\ seq' = seq
    BY DEF Inv, EncodedOK, Recheck, config
  <2>2. CASE pc' = "rotate_again" /\ encoded' = <<Blank>>
    BY <2>1, <2>2 DEF EncodedOK
  <2>3. CASE pc' = "write" /\ encoded' = encoded
    BY <2>1, <2>3 DEF EncodedOK, Inv, Recheck
  <2>. QED BY <2>2, <2>3 DEF Recheck
<1>4. CountOK'
  BY DEF Inv, Recheck, CountOK
<1>5. LostFileIsReported' /\ (pc' \in {"encode", "recheck", "write"} => fp' # NoFile)
  BY DEF Inv, Recheck, LostFileIsReported, fileVars
<1>. QED BY <1>1, <1>2, <1>3, <1>4, <1>5 DEF Inv

\* An append about to write has one or two lines and its file.
LEMMA EncodedInWrite ==
  ASSUME Inv, pc = "write"
  PROVE  /\ encoded \in Seq(Line) /\ Len(encoded) \in {1, 2} /\ Len(encoded) <= 2
         /\ \A part \in PartOf(encoded) : part \in Seq(Line) /\ Len(part) <= 2
         /\ fp \in File /\ fp = current_file
<1>1. seq \in Nat /\ delta_metrics \in BOOLEAN
  BY WriterAssumption DEF Inv, RestOK, Configured
<1>2. EncodedOK
  BY DEF Inv
<1>3. fp \in File /\ fp = current_file
  BY DEF Inv, FileOK
<1>4. \A n \in {1, 2} : n <= 2
  OBVIOUS
<1>5. /\ encoded \in Seq(Line) /\ Len(encoded) \in {1, 2}
      /\ \A part \in PartOf(encoded) : part \in Seq(Line) /\ Len(part) <= 2
  BY <1>1, <1>2, EncodedShort
<1>. QED BY <1>3, <1>4, <1>5, Zenon

\* The counters are numbers, and one more sample is counted.
LEMMA CountedType ==
  ASSUME written \in [{"samples", "checkpoints", "deltas", "restarts"} -> Nat]
  PROVE  /\ Counted \in [{"samples", "checkpoints", "deltas", "restarts"} -> Nat]
         /\ Counted.samples = written.samples + 1
<1>. DEFINE checkpoint == Last(encoded).kind = "checkpoint" \/ ~delta_metrics
            two == Len(encoded) = 2
<1>1. Counted = [written EXCEPT !.samples = @ + 1,
                  !.restarts = @ + (IF two THEN 1 ELSE 0),
                  !.checkpoints = @ + (IF checkpoint THEN 1 ELSE 0),
                  !.deltas = @ + (IF checkpoint THEN 0 ELSE 1)]
  BY DEF Counted
<1>. HIDE DEF checkpoint, two
<1>2. /\ DOMAIN written = {"samples", "checkpoints", "deltas", "restarts"}
      /\ written.samples \in Nat /\ written.checkpoints \in Nat
      /\ written.deltas \in Nat /\ written.restarts \in Nat
  OBVIOUS
<1>3. /\ DOMAIN Counted = DOMAIN written
      /\ Counted = [f \in DOMAIN Counted |-> Counted[f]]
  BY <1>1
<1>4. /\ Counted.samples = written.samples + 1
      /\ Counted.restarts = written.restarts + (IF two THEN 1 ELSE 0)
      /\ Counted.checkpoints = written.checkpoints + (IF checkpoint THEN 1 ELSE 0)
      /\ Counted.deltas = written.deltas + (IF checkpoint THEN 0 ELSE 1)
  BY <1>1, <1>2
<1>5. \A f \in {"samples", "checkpoints", "deltas", "restarts"} : Counted[f] \in Nat
  BY <1>2, <1>4
<1>. QED BY <1>2, <1>3, <1>4, <1>5

\* The record goes to the open file, which retention spares.
LEMMA WriteRecordEffect ==
  ASSUME Inv, WriteRecord
  PROVE  /\ Becomes(fp, encoded) /\ DiskType' /\ fp \in DOMAIN disk'
         /\ fp # NoFile
<1>1. pc = "write" /\ fp = current_file /\ fp \in File /\ fp # NoFile
  BY NoFileIsNoFile, EncodedInWrite DEF WriteRecord
<1>2. Becomes(fp, encoded)
  <2>1. CASE disk' = Appended(fp, encoded)
    BY <2>1, AppendedBecomes
  <2>2. CASE disk' \in AfterRetention(Appended(fp, encoded), path, fp)
    BY <2>2, RetentionBecomes
  <2>. QED BY <1>1, <2>1, <2>2 DEF WriteRecord
<1>3. DiskType
  BY DEF Inv, FileOK
<1>4. DiskType'
  BY <1>1, <1>2, <1>3, EncodedInWrite, BecomesType
<1>. QED BY <1>1, <1>2, <1>4 DEF Becomes

\* Writing the record keeps the invariant.
LEMMA WriteRecordInv == ASSUME Inv, WriteRecord PROVE Inv'
<1>1. FileOK'
  <2>1. current_file_bytes' \in Nat
    <3>1. Bytes(encoded) \in Nat
      BY EncodedInWrite, BytesType DEF WriteRecord
    <3>. QED BY <3>1 DEF Inv, FileOK, WriteRecord
  <2>2. UNCHANGED <<path, fp, current_file, current_file_opened_ms>>
    BY DEF WriteRecord, config
  <2>3. DiskType' /\ fp \in DOMAIN disk'
    BY WriteRecordEffect
  <2>. QED BY <2>1, <2>2, <2>3 DEF Inv, FileOK
<1>2. RestOK'
  <2>1. written' \in [{"samples", "checkpoints", "deltas", "restarts"} -> Nat]
    BY CountedType DEF Inv, RestOK, WriteRecord
  <2>2. last_error' \in BOOLEAN /\ disturbances' \in 0..MaxDisturbances
    BY DisturbOK DEF Inv, RestOK, WriteRecord, Fault
  <2>. QED BY <2>1, <2>2, Emptied DEF Inv, WriteRecord, RestOK, Configured, config, encoderVars
<1>3. EncodedOK'
  BY DEF WriteRecord, EncodedOK
<1>4. CountOK'
  <2>1. written'.samples = written.samples + 1
    BY CountedType DEF Inv, RestOK, WriteRecord
  <2>2. written.samples \in Nat /\ written.samples < seq /\ seq \in Nat
    BY WriterAssumption DEF Inv, RestOK, WriteRecord, CountOK
  <2>. QED BY <2>1, <2>2 DEF WriteRecord, CountOK
<1>5. LostFileIsReported' /\ (pc' \in {"encode", "recheck", "write"} => fp' # NoFile)
  BY WriteRecordEffect DEF WriteRecord, LostFileIsReported
<1>. QED BY <1>1, <1>2, <1>3, <1>4, <1>5 DEF Inv

\* A write that fails keeps the invariant.
LEMMA WriteFailsInv == ASSUME Inv, WriteFails PROVE Inv'
<1>1. PICK part \in PartOf(encoded) : disk' = Appended(fp, part)
  BY DEF WriteFails
<1>2. Becomes(fp, part)
  BY <1>1, AppendedBecomes
<1>3. /\ encoded \in Seq(Line) /\ fp \in File /\ fp # NoFile
      /\ part \in Seq(Line) /\ Len(part) <= 2
  BY EncodedInWrite, NoFileIsNoFile DEF WriteFails
<1>4. FileOK'
  <2>1. current_file_bytes' \in Nat
    <3>1. PICK n \in 0..Len(encoded) :
            current_file_bytes' = current_file_bytes + Bytes(SubSeq(encoded, 1, n))
      BY DEF WriteFails
    <3>2. SubSeq(encoded, 1, n) \in Seq(Line)
      BY <1>3
    <3>3. Bytes(SubSeq(encoded, 1, n)) \in Nat
      BY <3>2, BytesType
    <3>. QED BY <3>1, <3>3 DEF Inv, FileOK
  <2>2. UNCHANGED <<path, fp, current_file, current_file_opened_ms>>
    BY DEF WriteFails, config
  <2>3. DiskType' /\ fp \in DOMAIN disk'
    BY <1>2, <1>3, BecomesType DEF Becomes, Inv, FileOK
  <2>. QED BY <2>1, <2>2, <2>3 DEF Inv, FileOK
<1>5. RestOK'
  BY DisturbOK, Emptied DEF Inv, WriteFails, Fault, RestOK, Configured, config, encoderVars
<1>6. EncodedOK' /\ CountOK'
  BY DEF WriteFails, EncodedOK, CountOK, Inv
<1>7. LostFileIsReported' /\ (pc' \in {"encode", "recheck", "write"} => fp' # NoFile)
  BY DEF WriteFails, LostFileIsReported
<1>. QED BY <1>4, <1>5, <1>6, <1>7 DEF Inv

\* FTDC.ROTATE keeps the invariant.
LEMMA CommandRotateInv == ASSUME Inv, CommandRotate PROVE Inv'
<1>1. DiskType /\ now \in 0..MaxTime /\ path \in Path /\ path' = path /\ pc' = "idle"
  BY DEF Inv, FileOK, RestOK, Configured, CommandRotate, config, appendVars
<1>2. FileOK' /\ need_checkpoint' \in BOOLEAN /\ last_error' \in BOOLEAN /\ Disturb
      /\ (fp' = NoFile => last_error')
  <2>1. CASE Rotated(path) /\ Disturb
    BY <1>1, <2>1, RotatedFileOK
  <2>2. CASE HeaderLost(path)
    BY <1>1, <2>2, HeaderLostFileOK
  <2>3. CASE RotateFailed(path) /\ UNCHANGED need_checkpoint
    BY <1>1, <2>3, RotateFailedFileOK DEF Inv, RestOK
  <2>. QED BY <2>1, <2>2, <2>3 DEF CommandRotate
<1>3. RestOK'
  BY <1>2, DisturbOK DEF Inv, CommandRotate, RestOK, Configured, config, appendVars
<1>4. EncodedOK' /\ CountOK'
  BY DEF Inv, CommandRotate, EncodedOK, CountOK, config, appendVars
<1>5. LostFileIsReported'
  BY <1>2 DEF LostFileIsReported
<1>. QED BY <1>1, <1>2, <1>3, <1>4, <1>5 DEF Inv

\* CONFIG SET path keeps the invariant.
LEMMA SetPathInv == ASSUME Inv, NEW p \in Path, SetPath(p) PROVE Inv'
<1>1. DiskType /\ now \in 0..MaxTime /\ path' = p /\ pc' = "idle"
  BY DEF Inv, FileOK, RestOK, Configured, SetPath, appendVars
<1>2. FileOK' /\ need_checkpoint' \in BOOLEAN /\ last_error' \in BOOLEAN /\ Disturb
      /\ (fp' = NoFile => last_error')
  <2>1. CASE Rotated(p) /\ Disturb
    BY <1>1, <2>1, RotatedFileOK
  <2>2. CASE HeaderLost(p)
    BY <1>1, <2>2, HeaderLostFileOK
  <2>3. CASE RotateFailed(p) /\ need_checkpoint' = TRUE
    BY <1>1, <2>3, RotateFailedFileOK DEF Inv, RestOK
  <2>. QED BY <2>1, <2>2, <2>3 DEF SetPath
<1>3. RestOK'
  BY <1>1, <1>2, DisturbOK DEF Inv, SetPath, RestOK, Configured, appendVars
<1>4. EncodedOK' /\ CountOK'
  BY DEF Inv, SetPath, EncodedOK, CountOK, appendVars
<1>5. LostFileIsReported'
  BY <1>2 DEF LostFileIsReported
<1>. QED BY <1>1, <1>2, <1>3, <1>4, <1>5 DEF Inv

\* CONFIG SET delta-metrics keeps the invariant.
LEMMA SetDeltaMetricsInv ==
  ASSUME Inv, NEW b \in DeltaMetrics, SetDeltaMetrics(b) PROVE Inv'
<1>1. FileOK'
  BY SameFiles DEF Inv, SetDeltaMetrics
<1>2. RestOK'
  BY DisturbOK DEF Inv, SetDeltaMetrics, RestOK, Configured, appendVars
<1>3. EncodedOK' /\ CountOK'
  BY DEF Inv, SetDeltaMetrics, EncodedOK, CountOK, appendVars
<1>4. LostFileIsReported' /\ (pc' \in {"encode", "recheck", "write"} => fp' # NoFile)
  BY DEF Inv, SetDeltaMetrics, LostFileIsReported, fileVars, appendVars
<1>. QED BY <1>1, <1>2, <1>3, <1>4 DEF Inv

\* CONFIG SET of the limits keeps the invariant.
LEMMA SetLimitsInv ==
  ASSUME Inv, NEW b \in MaxFileBytes, NEW i \in RotationInterval, SetLimits(b, i)
  PROVE  Inv'
<1>1. FileOK'
  BY SameFiles DEF Inv, SetLimits
<1>2. RestOK'
  BY DisturbOK DEF Inv, SetLimits, RestOK, Configured, encoderVars, appendVars
<1>3. EncodedOK' /\ CountOK'
  BY DEF Inv, SetLimits, EncodedOK, CountOK, appendVars
<1>4. LostFileIsReported' /\ (pc' \in {"encode", "recheck", "write"} => fp' # NoFile)
  BY DEF Inv, SetLimits, LostFileIsReported, fileVars, appendVars
<1>. QED BY <1>1, <1>2, <1>3, <1>4 DEF Inv

\* Doing nothing keeps the invariant, and so does FTDC.FLUSH.
LEMMA StutterInv == ASSUME Inv, UNCHANGED vars PROVE Inv'
<1>1. FileOK'
  BY SameFiles DEF Inv, vars, config
<1>2. RestOK'
  BY DEF Inv, vars, RestOK, Configured, config, encoderVars, appendVars
<1>3. EncodedOK' /\ CountOK'
  BY DEF Inv, vars, EncodedOK, CountOK, config, appendVars
<1>4. LostFileIsReported' /\ (pc' \in {"encode", "recheck", "write"} => fp' # NoFile)
  BY DEF Inv, vars, LostFileIsReported, fileVars, appendVars
<1>. QED BY <1>1, <1>2, <1>3, <1>4 DEF Inv

\* Time passing keeps the invariant.
LEMMA TickInv == ASSUME Inv, Tick PROVE Inv'
<1>1. FileOK'
  BY SameFiles DEF Inv, Tick, config
<1>2. RestOK'
  BY WriterAssumption DEF Inv, Tick, RestOK, Configured, config, encoderVars, appendVars
<1>3. EncodedOK' /\ CountOK'
  BY DEF Inv, Tick, EncodedOK, CountOK, config, appendVars
<1>4. LostFileIsReported' /\ (pc' \in {"encode", "recheck", "write"} => fp' # NoFile)
  BY DEF Inv, Tick, LostFileIsReported, fileVars, appendVars
<1>. QED BY <1>1, <1>2, <1>3, <1>4 DEF Inv

\* What a crash may leave of the step in progress.
LEMMA CrashEffect ==
  ASSUME Inv, Crash
  PROVE  \/ disk' = disk
         \/ pc = "write" /\ \E part \in PartOf(encoded) : Becomes(fp, part)
         \/ \E part \in {<<>>, <<Torn>>, <<Header>>} : Becomes(NewFile(path), part)
<1>1. CASE disk' = disk
  BY <1>1
<1>2. CASE pc = "write" /\ \E part \in PartOf(encoded) : disk' = Appended(fp, part)
  BY <1>2, AppendedBecomes
<1>3. CASE \E part \in PartOf(<<Header>>) : disk' = Appended(NewFile(path), part)
  <2>1. PICK part \in PartOf(<<Header>>) : disk' = Appended(NewFile(path), part)
    BY <1>3
  <2>2. part \in {<<>>, <<Torn>>, <<Header>>}
    BY LineOfType, PartOfOne
  <2>. QED BY <2>1, <2>2, AppendedBecomes
<1>. QED BY <1>1, <1>2, <1>3 DEF Crash, NewFile

\* The death of the process at any step keeps the invariant.
LEMMA CrashInv == ASSUME Inv, Crash PROVE Inv'
<1>1. DiskType /\ now \in Nat /\ path \in Path
  BY WriterAssumption DEF Inv, FileOK, RestOK, Configured
<1>2. NewFile(path) \in File
  BY <1>1, TimestampNat DEF NewFile, File
<1>3. DiskType'
  <2>1. CASE disk' = disk
    BY <1>1, <2>1 DEF DiskType
  <2>2. CASE pc = "write" /\ \E part \in PartOf(encoded) : Becomes(fp, part)
    BY <1>1, <2>2, EncodedInWrite, BecomesType
  <2>3. CASE \E part \in {<<>>, <<Torn>>, <<Header>>} : Becomes(NewFile(path), part)
    <3>1. PICK part \in {<<>>, <<Torn>>, <<Header>>} : Becomes(NewFile(path), part)
      BY <2>3
    <3>2. part \in Seq(Line) /\ Len(part) <= 2
      BY ShortLines
    <3>. QED BY <1>1, <1>2, <3>1, <3>2, BecomesType
  <2>. QED BY <2>1, <2>2, <2>3, CrashEffect
<1>4. FileOK'
  BY <1>3, WriterAssumption DEF Crash, CloseFile, FileOK
<1>5. RestOK'
  <2>1. NothingWritten \in [{"samples", "checkpoints", "deltas", "restarts"} -> Nat]
    BY DEF NothingWritten
  <2>2. Configured' /\ disturbances' \in 0..MaxDisturbances
    BY DisturbOK DEF Inv, RestOK, Crash, Fault, Configured
  <2>3. now' \in 0..MaxTime /\ seq' \in 0..MaxSamples
    BY DEF Inv, RestOK, Crash
  <2>4. base' \in 0..seq'
    BY <2>3, WriterAssumption DEF Crash
  <2>. QED BY <2>1, <2>2, <2>3, <2>4, Emptied DEF Crash, RestOK
<1>6. EncodedOK'
  BY DEF Crash, EncodedOK
<1>7. CountOK' /\ LostFileIsReported' /\ pc' = "idle"
  BY WriterAssumption DEF Inv, RestOK, Crash, CountOK, NothingWritten, LostFileIsReported, CloseFile
<1>. QED BY <1>4, <1>5, <1>6, <1>7 DEF Inv

\* The invariant holds when the module is loaded.
LEMMA InitInv == ASSUME Init PROVE Inv
<1>1. DiskType
  BY DEF Init, DiskType
<1>2. FileOK
  BY <1>1, WriterAssumption DEF Init, FileOK
<1>3. RestOK
  <2>1. written \in [{"samples", "checkpoints", "deltas", "restarts"} -> Nat]
    BY DEF Init, NothingWritten
  <2>2. /\ now \in 0..MaxTime /\ seq \in 0..MaxSamples /\ base \in 0..seq
        /\ disturbances \in 0..MaxDisturbances
    BY WriterAssumption DEF Init
  <2>3. Configured /\ encoded \in Seq(Line)
    BY Emptied DEF Init
  <2>4. /\ need_checkpoint \in BOOLEAN /\ last_error \in BOOLEAN
        /\ pc \in {"idle", "rotate", "encode", "recheck", "rotate_again", "write"}
    BY DEF Init
  <2>. QED BY <2>1, <2>2, <2>3, <2>4 DEF RestOK
<1>4. EncodedOK /\ CountOK /\ LostFileIsReported
  BY DEF Init, EncodedOK, CountOK, LostFileIsReported, NothingWritten
<1>. QED BY <1>2, <1>3, <1>4 DEF Init, Inv

\* Every step keeps the invariant.
LEMMA StepInv == ASSUME Inv, [Next]_vars PROVE Inv'
<1>1. CASE RotateFirst
  BY <1>1, RotateInAppendInv DEF RotateFirst
<1>2. CASE RotateAgain
  BY <1>2, RotateInAppendInv DEF RotateAgain
<1>3. CASE CommandFlush
  BY <1>3, StutterInv DEF CommandFlush
<1>4. CASE \E p \in Path : SetPath(p)
  BY <1>4, SetPathInv
<1>5. CASE \E b \in DeltaMetrics : SetDeltaMetrics(b)
  BY <1>5, SetDeltaMetricsInv
<1>6. CASE \E b \in MaxFileBytes, i \in RotationInterval : SetLimits(b, i)
  BY <1>6, SetLimitsInv
<1>. QED BY <1>1, <1>2, <1>3, <1>4, <1>5, <1>6, StutterInv, CollectFailsInv,
            CollectSampleInv, EncodeFailsInv, EncodeSnapshotInv,
            EncodeRecordInv, RecheckInv, WriteRecordInv, WriteFailsInv,
            CommandRotateInv, TickInv, CrashInv DEF Next
-----------------------------------------------------------------------------
(* What FTDC.STATUS shows.                                                 *)

\* What a step may be to FTDC.STATUS: an error is set,
Fails == last_error' = TRUE /\ written' = written
\* a file is open and the error is cleared,
Rotates == fp' # NoFile /\ last_error' = FALSE /\ written' = written
\* a sample is counted with its file open,
Appends == /\ fp' # NoFile /\ last_error' \in BOOLEAN
           /\ written'.samples = written.samples + 1
           /\ written.samples \in Nat /\ written.samples < MaxSamples
\* the module is loaded anew,
Reloads == fp' = NoFile /\ last_error' = FALSE /\ written'.samples = 0
\* or nothing of it is seen.
Unseen == UNCHANGED <<fp, last_error, written>>

\* A rotation sets the error, or clears it with a file open.
LEMMA RotationSeen ==
  ASSUME Inv, NEW p \in Path, path' = p, written' = written,
         Rotated(p) \/ HeaderLost(p) \/ RotateFailed(p)
  PROVE  Fails \/ Rotates
<1>1. DiskType /\ now \in 0..MaxTime
  BY DEF Inv, FileOK, RestOK
<1>2. CASE Rotated(p)
  BY <1>1, <1>2, RotatedFileOK DEF Rotates
<1>3. CASE HeaderLost(p)
  BY <1>1, <1>3, HeaderLostFileOK DEF Rotates
<1>4. CASE RotateFailed(p)
  BY <1>4 DEF RotateFailed, Fails
<1>. QED BY <1>2, <1>3, <1>4

\* A record that was written is counted, and the count is below its bound.
LEMMA AppendSeen ==
  ASSUME Inv, WriteRecord PROVE Appends
<1>1. fp # NoFile /\ fp' = fp
  BY WriteRecordEffect DEF WriteRecord
<1>2. last_error' \in BOOLEAN
  BY DEF WriteRecord
<1>3. written'.samples = written.samples + 1
  BY CountedType DEF Inv, RestOK, WriteRecord
<1>4. written.samples \in Nat /\ written.samples < seq /\ seq \in 0..MaxSamples
  BY DEF Inv, RestOK, WriteRecord, CountOK
<1>. QED BY <1>1, <1>2, <1>3, <1>4, WriterAssumption DEF Appends

\* Every step of the write path is one of these.
LEMMA StepSeen ==
  ASSUME Inv, [Next]_vars
  PROVE  Fails \/ Rotates \/ Appends \/ Reloads \/ Unseen
<1>1. path \in Path
  BY DEF Inv, RestOK, Configured
<1>2. CASE CollectFails \/ EncodeFails \/ WriteFails
  BY <1>2 DEF CollectFails, EncodeFails, WriteFails, Fails
<1>3. CASE \/ CollectSample \/ EncodeSnapshot \/ EncodeRecord \/ Recheck \/ Tick
           \/ CommandFlush \/ UNCHANGED vars
           \/ \E b \in DeltaMetrics : SetDeltaMetrics(b)
           \/ \E b \in MaxFileBytes, i \in RotationInterval : SetLimits(b, i)
  BY <1>3 DEF CollectSample, EncodeSnapshot, EncodeRecord, Recheck, Tick, CommandFlush,
              SetDeltaMetrics, SetLimits, Unseen, fileVars, vars
<1>4. ASSUME NEW step, NEW next, RotateInAppend(step, next)
      PROVE  Fails \/ Rotates
  BY <1>1, <1>4, RotationSeen DEF RotateInAppend, config
<1>5. CASE CommandRotate
  BY <1>1, <1>5, RotationSeen DEF CommandRotate, config
<1>6. CASE \E p \in Path : SetPath(p)
  <2>1. PICK p \in Path : SetPath(p)
    BY <1>6
  <2>. QED BY <2>1, RotationSeen DEF SetPath
<1>7. CASE Crash
  BY <1>7 DEF Crash, CloseFile, NothingWritten, Reloads
<1>. QED BY <1>2, <1>3, <1>4, <1>5, <1>6, <1>7, AppendSeen DEF Next, RotateFirst, RotateAgain

\* The write path starts as FtdcStatus does.
LEMMA InitStatus == ASSUME Init PROVE Status!Init
  BY WriterAssumption DEF Init, NothingWritten, Status!Init

\* Every step of the write path is one of FtdcStatus, or none.
LEMMA StepStatus ==
  ASSUME Inv, [Next]_vars
  PROVE  [Status!Next]_(Status!statusVars)
<1>1. CASE Fails
  <2>1. Status!Fail
    BY <1>1 DEF Fails, Status!Fail
  <2>. QED BY <2>1 DEF Status!Next
<1>2. CASE Rotates
  <2>1. Status!Rotate
    BY <1>2 DEF Rotates, Status!Rotate
  <2>. QED BY <2>1 DEF Status!Next
<1>3. CASE Appends
  <2>1. (written.samples + 1) % (MaxSamples + 2) = written.samples + 1
    BY <1>3, WriterAssumption DEF Appends
  <2>2. Status!Append
    BY <1>3, <2>1 DEF Appends, Status!Append
  <2>. QED BY <2>2 DEF Status!Next
<1>4. CASE Reloads
  <2>1. Status!Reload
    BY <1>4 DEF Reloads, Status!Reload
  <2>. QED BY <2>1 DEF Status!Next
<1>5. CASE Unseen
  BY <1>5 DEF Unseen, Status!statusVars
<1>. QED BY <1>1, <1>2, <1>3, <1>4, <1>5, StepSeen
-----------------------------------------------------------------------------
(* Theorems.                                                               *)

\* The state of the write path stays within its types, for every configuration
\* and whatever fails.
THEOREM TypeCorrect == Spec => []TypeOK
<1>1. Init => Inv
  BY InitInv
<1>2. Inv /\ [Next]_vars => Inv'
  BY StepInv
<1>3. Inv => TypeOK
  BY DEF Inv, FileOK, RestOK, TypeOK, DiskType
<1>. QED BY <1>1, <1>2, <1>3, PTL DEF Spec

\* The write path implements FtdcStatus: what FTDC.STATUS shows is never better
\* than it is, whatever fails (src/writer.c:19-37, 49-105).
THEOREM StatusRefinement == Spec => StatusImplemented
<1>1. Init => Inv /\ Status!Init
  BY InitInv, InitStatus
<1>2. Inv /\ [Next]_vars => Inv' /\ [Status!Next]_(Status!statusVars)
  BY StepInv, StepStatus
<1>. QED BY <1>1, <1>2, PTL DEF Spec, StatusImplemented, Status!Spec

\* A sample whose append ends without its record being counted leaves an error
\* in FTDC.STATUS, whichever step failed (src/writer.c:49-105).
THEOREM LossesReported == Spec => LossIsReported
<1>1. Init => Inv
  BY InitInv
<1>2. Inv /\ [Next]_vars => Inv'
  BY StepInv
<1>3. ASSUME Inv, [Next]_vars
      PROVE  [(pc # "idle" /\ pc' = "idle" /\ ~Crash) =>
                 written'.samples = written.samples + 1 \/ last_error']_vars
  <2>. SUFFICES ASSUME pc # "idle", pc' = "idle", ~Crash, vars' # vars
                PROVE  written'.samples = written.samples + 1 \/ last_error'
    OBVIOUS
  <2>1. CASE Fails \/ Appends
    BY <2>1 DEF Fails, Appends
  <2>2. Next
    BY <1>3
  <2>3. CASE RotateFirst \/ RotateAgain
    BY <2>3 DEF RotateFirst, RotateAgain, RotateInAppend, RotateFailed
  <2>. QED BY <2>2, <2>3, <1>3, AppendSeen DEF Next, CollectFails, CollectSample, EncodeFails, EncodeSnapshot, EncodeRecord,
     Recheck, WriteFails, CommandRotate, CommandFlush, SetPath, SetDeltaMetrics, SetLimits, Tick, appendVars, Appends
<1>. QED BY <1>1, <1>2, <1>3, PTL DEF Spec, LossIsReported

\* No step of an append goes through a null handle, and the open file is the
\* current one, in the configured directory and still there, whatever fails
\* (src/writer.c:9-37, src/rotation.c:332-335).
THEOREM AlwaysCoherent == Spec => []HandleCoherent
<1>1. Init => Inv
  BY InitInv
<1>2. Inv /\ [Next]_vars => Inv'
  BY StepInv
<1>3. Inv => HandleCoherent
  BY DEF Inv, FileOK, HandleCoherent
<1>. QED BY <1>1, <1>2, <1>3, PTL DEF Spec

\* A module that has lost its file says so, whatever succeeded in between
\* (src/writer.c:22-33, 103).
THEOREM LostFilesReported == Spec => []LostFileIsReported
<1>1. Init => Inv
  BY InitInv
<1>2. Inv /\ [Next]_vars => Inv'
  BY StepInv
<1>3. Inv => LostFileIsReported
  BY DEF Inv
<1>. QED BY <1>1, <1>2, <1>3, PTL DEF Spec
=============================================================================
