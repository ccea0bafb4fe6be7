-------------------------- MODULE FtdcDirectoryProofs --------------------------
(***************************************************************************)
(* Proofs about the diagnostics directory of FtdcDirectory over the life   *)
(* of the module: for any number of seconds, any sizes and limits, and a   *)
(* limit that changes between calls.                                       *)
(*                                                                         *)
(* Retention goes by modification times and paths, the history is about    *)
(* when files were opened: that the two orders agree (Ages) is what makes  *)
(* the properties inductive.  A sidecar may be younger than its metrics    *)
(* file, but neither is younger than the next rotation.                    *)
(***************************************************************************)
EXTENDS FtdcDirectory, FtdcRetentionProofs
-----------------------------------------------------------------------------
(* The invariant.                                                          *)

\* The clock, and the files that were opened: the current one is the latest.
Clock ==
  /\ now \in Stamp
  /\ opening \in {"no", "stamped", "opened", "flushed"}
  /\ made \in SUBSET {Metrics(t) : t \in Stamp}
  /\ \A t \in Stamp : Metrics(t) \in made => t <= now
  /\ current_file # NoName =>
       \E r \in Stamp : /\ current_file = Metrics(r) /\ r <= now
                       /\ \A t \in Stamp : Metrics(t) \in made => t <= r

\* A rotation that is under way, and what it has done so far.
Rotation ==
  /\ opening # "no" => current_file # NoName /\ pc \in {"done", "failed"}
  /\ current_file # NoName /\ opening # "stamped" =>
       current_file \in made /\ current_file \in DOMAIN dir

\* Seconds that gave a file its name, opened or about to be.
Named(t) == Metrics(t) \in made \/ Metrics(t) = current_file

\* The ages of files: no file is older than its name, if it is a metrics file,
\* and none is younger than the next rotation.
Ages ==
  \A t \in Stamp :
    /\ Metrics(t) \in DOMAIN dir => t <= dir[Metrics(t)].mtime
    /\ \A f \in {Metrics(t), Sidecar(t)} \cap DOMAIN dir :
         /\ dir[f].mtime <= now
         /\ \A u \in Stamp : t < u /\ Named(u) => dir[f].mtime <= u

\* While the loop runs, it has an answer for each file it passed, and the directory
\* is what is left of its list.
Followed == pc = "trim" => Passed /\ Entries = Scanned \ Gone

\* What every step keeps.
DirectoryInv ==
  /\ Kinds /\ Listed /\ Followed /\ Clock /\ Rotation /\ Ages
  /\ NoGapInHistory /\ SidecarsGoInTurn

\* Names tell sidecars from metrics files, sort the former before the latter and
\* each in the order of their seconds (src/rotation.c:211-259).
LEMMA NamesApart ==
  /\ MaxStamp \in Nat /\ File = 0..2 * MaxStamp + 1 /\ Stamp = 0..MaxStamp
  /\ NoName = -1
  /\ \A s, t \in Stamp :
       /\ Sidecar(t) = t /\ Metrics(t) = MaxStamp + 1 + t
       /\ Sidecar(t) \in File /\ Metrics(t) \in File
       /\ Sidecar(s) # Metrics(t) /\ Sidecar(s) < Metrics(t)
       /\ NoName < Sidecar(t) /\ NoName < Metrics(t)
       /\ Metrics(s) < Metrics(t) <=> s < t
       /\ Metrics(s) = Metrics(t) <=> s = t
  BY DirectoryAssumption DEF Stamp, Sidecar, Metrics, NoName

\* An empty directory has no gap.
LEMMA DirectoryInitInv == DirectoryInit => DirectoryInv
<1>. SUFFICES ASSUME DirectoryInit PROVE DirectoryInv
  OBVIOUS
<1>. USE DEF DirectoryInit
<1>1. DOMAIN dir = {} /\ Scanned = {}
  BY DEF Scanned
<1>2. Kinds /\ Listed /\ Followed
  BY <1>1 DEF Kinds, Listed, Followed, DistinctPaths
<1>3. Clock /\ Rotation
  BY NamesApart DEF Clock, Rotation
<1>4. Ages /\ NoGapInHistory /\ SidecarsGoInTurn
  BY <1>1 DEF Ages, NoGapInHistory, SidecarsGoInTurn
<1>. QED BY <1>2, <1>3, <1>4 DEF DirectoryInv

\* A call of ftdc_rotation_enforce_retention starts with an empty list.
LEMMA CallStarts ==
  ASSUME Kinds, CallRetention, DOMAIN dir' \subseteq File,
         \A f \in DOMAIN dir' : dir'[f].size \in Nat /\ dir'[f].mtime \in Int
  PROVE  Kinds' /\ Listed' /\ Followed'
<1>1. /\ pc' = "scan" /\ files' = <<>> /\ i' = 1
      /\ removed' = {} /\ refused' = refused
  BY DEF CallRetention
<1>2. Scanned' = {}
  BY <1>1 DEF Scanned
<1>. QED BY <1>1, <1>2 DEF Kinds, Listed, Followed, DistinctPaths

\* Sizes are natural numbers.
LEMMA SizeType ==
  ASSUME Kinds, NEW f
  PROVE  SizeNow(f) \in Nat
  BY DEF Kinds, SizeNow

\* Only f changes, and it is as young as can be.
Touched(f) ==
  \/ dir' = dir
  \/ \E size \in Nat : dir' = Stored(dir, f, size)

\* What a file has after it was written.
LEMMA TouchedFile ==
  ASSUME NEW f, Touched(f)
  PROVE  /\ DOMAIN dir \subseteq DOMAIN dir'
         /\ DOMAIN dir' \subseteq DOMAIN dir \cup {f}
         /\ \A g \in DOMAIN dir' \ {f} : g \in DOMAIN dir /\ dir'[g] = dir[g]
         /\ f \in DOMAIN dir' =>
              \/ f \in DOMAIN dir /\ dir'[f] = dir[f]
              \/ dir'[f].mtime = now /\ dir'[f].size \in Nat
  BY DEF Touched, Stored

\* Files of a rotation may be written at any time after it was stamped, as long as
\* no other has been: they are the latest (src/rotation.c:230-257,
\* src/writer.c:75-86).
LEMMA LatestTouched ==
  ASSUME DirectoryInv, NEW r \in Stamp, current_file = Metrics(r),
         NEW g \in {Metrics(r), Sidecar(r)}, Touched(g),
         current_file \in DOMAIN dir',
         UNCHANGED <<current_file, now, refused>>,
         made' \in {made, made \cup {current_file}}
  PROVE  /\ DOMAIN dir' \subseteq File
         /\ \A f \in DOMAIN dir' : dir'[f].size \in Nat /\ dir'[f].mtime \in Int
         /\ Ages' /\ NoGapInHistory' /\ SidecarsGoInTurn'
<1>0. Kinds /\ Clock /\ Ages /\ NoGapInHistory /\ SidecarsGoInTurn
  BY DEF DirectoryInv
<1>1. /\ DOMAIN dir \subseteq DOMAIN dir'
      /\ DOMAIN dir' \subseteq DOMAIN dir \cup {g}
      /\ \A f \in DOMAIN dir' \ {g} : f \in DOMAIN dir /\ dir'[f] = dir[f]
      /\ g \in DOMAIN dir' =>
           \/ g \in DOMAIN dir /\ dir'[g] = dir[g]
           \/ dir'[g].mtime = now /\ dir'[g].size \in Nat
  BY TouchedFile
<1>2. now \in Stamp /\ now \in Nat /\ r <= now /\ r \in Nat
  BY <1>0, NamesApart DEF Clock
<1>3. \A t \in Stamp : Metrics(t) \in made => t <= r
  BY <1>0, NamesApart DEF Clock
<1>4. \A t \in Stamp : Named(t) => t <= r
  BY <1>2, <1>3, NamesApart DEF Named
<1>5. \A t \in Stamp : Named(t)' <=> Named(t)
  BY DEF Named
<1>6. g \in File
  BY NamesApart
<1>7. /\ DOMAIN dir' \subseteq File
      /\ \A f \in DOMAIN dir' : dir'[f].size \in Nat /\ dir'[f].mtime \in Int
  BY <1>0, <1>1, <1>2, <1>6 DEF Kinds
<1>8. \A t \in Stamp : /\ t # r => Metrics(t) # g /\ Sidecar(t) # g
                       /\ Metrics(t) = g => t = r
                       /\ Sidecar(t) = g => t = r
  BY NamesApart
<1>9. Ages'
  <2>1. ASSUME NEW t \in Stamp, Metrics(t) \in DOMAIN dir'
        PROVE  t <= dir'[Metrics(t)].mtime
    BY <2>1, <1>0, <1>1, <1>2, <1>8 DEF Ages
  <2>2. ASSUME NEW t \in Stamp,
               NEW f \in {Metrics(t), Sidecar(t)} \cap DOMAIN dir'
        PROVE  /\ dir'[f].mtime <= now
               /\ \A u \in Stamp : t < u /\ Named(u) => dir'[f].mtime <= u
    <3>1. CASE f \in DOMAIN dir /\ dir'[f] = dir[f]
      BY <3>1, <1>0 DEF Ages
    <3>2. CASE ~(f \in DOMAIN dir /\ dir'[f] = dir[f])
      <4>1. f = g /\ dir'[f].mtime = now /\ t = r
        BY <3>2, <1>1, <1>8
      <4>2. \A u \in Stamp : ~(t < u /\ Named(u))
        BY <4>1, <1>2, <1>4, NamesApart
      <4>3. dir'[f].mtime <= now
        BY <4>1, <1>2
      <4>. QED BY <4>2, <4>3
    <3>. QED BY <3>1, <3>2
  <2>. QED BY <1>5, <2>1, <2>2 DEF Ages
<1>10. NoGapInHistory'
  <2>. SUFFICES ASSUME NEW s \in Stamp, NEW t \in Stamp, s < t,
                       Metrics(t) \in made' \ DOMAIN dir',
                       Metrics(s) \in DOMAIN dir' \ refused
       PROVE  FALSE
    BY DEF NoGapInHistory
  <2>1. Metrics(t) \in made \ DOMAIN dir
    BY <1>1
  <2>2. Metrics(s) # g
    BY <1>2, <1>3, <1>8, <2>1, NamesApart
  <2>. QED BY <1>0, <1>1, <2>1, <2>2 DEF NoGapInHistory
<1>11. SidecarsGoInTurn'
  <2>. SUFFICES ASSUME NEW t \in Stamp, Sidecar(t) \in DOMAIN dir' \ refused
       PROVE  /\ \A u \in Stamp :
                   t < u /\ Metrics(u) \in made' => Metrics(u) \in DOMAIN dir'
              /\ Metrics(t) \notin DOMAIN dir' => t < dir'[Sidecar(t)].mtime
    BY DEF SidecarsGoInTurn
  <2>1. CASE t = r
    <3>1. \A u \in Stamp : Metrics(u) \in made' => u <= r
      BY <1>2, <1>3, NamesApart
    <3>2. \A u \in Stamp : ~(t < u /\ Metrics(u) \in made')
      BY <2>1, <3>1, NamesApart
    <3>. QED BY <2>1, <3>2
  <2>2. CASE t # r
    <3>1. Sidecar(t) \in DOMAIN dir /\ dir'[Sidecar(t)] = dir[Sidecar(t)]
      BY <2>2, <1>1, <1>8
    <3>. QED BY <3>1, <1>0, <1>1 DEF SidecarsGoInTurn
  <2>. QED BY <2>1, <2>2
<1>. QED BY <1>7, <1>9, <1>10, <1>11

\* Nothing that leaves files, list and loop alone matters, if the clock does not
\* go back.
LEMMA ClockKeeps ==
  ASSUME DirectoryInv, now' \in Stamp, now <= now',
         UNCHANGED <<current_file, dir, pc, files, i, removed, refused, opening,
                     made>>
  PROVE  DirectoryInv'
<1>0. now \in Nat /\ now' \in Nat /\ Stamp \in SUBSET Nat
  BY NamesApart DEF DirectoryInv, Clock
<1>1. Scanned' = Scanned /\ Gone' = Gone /\ Entries' = Entries
  BY DEF Scanned, Gone, Entries
<1>2. /\ Kinds' /\ Listed' /\ Followed' /\ Rotation'
      /\ NoGapInHistory' /\ SidecarsGoInTurn'
  BY <1>1
  DEF DirectoryInv, Kinds, Listed, Passed, Followed, Rotation, NoGapInHistory,
      SidecarsGoInTurn
<1>3. Clock'
  <2>1. \A t \in Stamp : t <= now => t <= now'
    BY <1>0
  <2>. QED BY <2>1 DEF DirectoryInv, Clock
<1>4. Ages'
  <2>1. \A f \in DOMAIN dir : dir[f].mtime \in Int
    BY DEF DirectoryInv, Kinds
  <2>2. \A f \in DOMAIN dir : dir[f].mtime <= now => dir[f].mtime <= now'
    BY <1>0, <2>1
  <2>3. \A t \in Stamp : Named(t)' <=> Named(t)
    BY DEF Named
  <2>. QED BY <2>2, <2>3 DEF DirectoryInv, Ages
<1>. QED BY <1>2, <1>3, <1>4 DEF DirectoryInv

\* The stamp of a rotation is that of the second it is read in: no file there is
\* is younger (src/rotation.c:215-227).
LEMMA StampStep ==
  ASSUME DirectoryInv, ReadStamp
  PROVE  DirectoryInv'
<1>0. Kinds /\ Listed /\ Followed /\ Clock /\ Ages
  BY DEF DirectoryInv
<1>1. /\ current_file' = Metrics(now) /\ opening' = "stamped" /\ Idle
      /\ UNCHANGED <<dir, pc, files, i, removed, refused, now, made>>
  BY DEF ReadStamp
<1>2. now \in Stamp /\ now \in Nat
  BY <1>0, NamesApart DEF Clock
<1>3. Kinds' /\ NoGapInHistory' /\ SidecarsGoInTurn'
  BY <1>1 DEF DirectoryInv, Kinds, NoGapInHistory, SidecarsGoInTurn
<1>4. Listed' /\ Followed'
  BY <1>0, <1>1 DEF Listed, Followed, Scanned, Idle
<1>5. Clock' /\ Rotation'
  BY <1>0, <1>1, <1>2, NamesApart DEF Clock, Rotation, Idle
<1>6. Ages'
  <2>1. \A t \in Stamp : Named(t)' => Named(t) \/ t = now
    BY <1>1, <1>2, NamesApart DEF Named
  <2>. QED BY <1>0, <1>1, <2>1 DEF Ages
<1>. QED BY <1>3, <1>4, <1>5, <1>6 DEF DirectoryInv

\* A metrics file that is opened is there, empty if it is new.
LEMMA OpenStep ==
  ASSUME DirectoryInv, OpenFile
  PROVE  DirectoryInv'
<1>0. Kinds /\ Listed /\ Followed /\ Clock /\ Rotation
  BY DEF DirectoryInv
<1>1. /\ opening = "stamped" /\ opening' = "opened"
      /\ made' = made \cup {current_file}
      /\ UNCHANGED <<current_file, now, refused, pc, files, i, removed>>
  BY DEF OpenFile
<1>2. current_file # NoName /\ pc \in {"done", "failed"}
  BY <1>0, <1>1 DEF Rotation
<1>3. PICK r \in Stamp : /\ current_file = Metrics(r) /\ r <= now
                         /\ \A t \in Stamp : Metrics(t) \in made => t <= r
  BY <1>0, <1>2 DEF Clock
<1>4. Touched(current_file) /\ current_file \in DOMAIN dir'
  BY DEF OpenFile, Touched, Stored
<1>5. /\ DOMAIN dir' \subseteq File
      /\ \A f \in DOMAIN dir' : dir'[f].size \in Nat /\ dir'[f].mtime \in Int
      /\ Ages' /\ NoGapInHistory' /\ SidecarsGoInTurn'
  BY <1>1, <1>3, <1>4, LatestTouched
<1>6. Kinds' /\ Listed' /\ Followed'
  BY <1>0, <1>1, <1>2, <1>5 DEF Kinds, Listed, Followed, Scanned
<1>7. Clock'
  <2>1. \A t \in Stamp : Metrics(t) \in made' => t <= r
    BY <1>1, <1>3, NamesApart
  <2>2. \A t \in Stamp : Metrics(t) \in made' => t <= now
    BY <1>0, <1>1, <1>3, NamesApart DEF Clock
  <2>3. made' \in SUBSET {Metrics(t) : t \in Stamp}
    BY <1>0, <1>1, <1>3 DEF Clock
  <2>. QED BY <1>0, <1>1, <1>3, <2>1, <2>2, <2>3 DEF Clock
<1>8. Rotation'
  BY <1>0, <1>1, <1>2, <1>4 DEF Rotation
<1>. QED BY <1>5, <1>6, <1>7, <1>8 DEF DirectoryInv

\* A header makes the file that was opened longer.
LEMMA HeaderStep ==
  ASSUME DirectoryInv, FlushHeader
  PROVE  DirectoryInv'
<1>0. Kinds /\ Listed /\ Followed /\ Clock /\ Rotation
  BY DEF DirectoryInv
<1>1. /\ opening = "opened" /\ opening' = "flushed"
      /\ UNCHANGED <<current_file, now, made, refused, pc, files, i, removed>>
  BY DEF FlushHeader
<1>2. current_file # NoName /\ pc \in {"done", "failed"}
  BY <1>0, <1>1 DEF Rotation
<1>3. PICK r \in Stamp : current_file = Metrics(r)
  BY <1>0, <1>2 DEF Clock
<1>4. Touched(current_file) /\ current_file \in DOMAIN dir'
  <2>1. SizeNow(current_file) + 1 \in Nat
    BY <1>0, SizeType
  <2>. QED BY <2>1 DEF FlushHeader, Touched, Stored
<1>5. /\ DOMAIN dir' \subseteq File
      /\ \A f \in DOMAIN dir' : dir'[f].size \in Nat /\ dir'[f].mtime \in Int
      /\ Ages' /\ NoGapInHistory' /\ SidecarsGoInTurn'
  BY <1>1, <1>3, <1>4, LatestTouched
<1>6. Kinds' /\ Listed' /\ Followed'
  BY <1>0, <1>1, <1>2, <1>5 DEF Kinds, Listed, Followed, Scanned
<1>7. Clock'
  BY <1>0, <1>1 DEF Clock
<1>8. Rotation'
  BY <1>0, <1>1, <1>2, <1>4 DEF Rotation
<1>. QED BY <1>5, <1>6, <1>7, <1>8 DEF DirectoryInv

\* A sidecar is written to the second's turn or after it, yet before any other
\* rotation.
LEMMA SidecarStep ==
  ASSUME DirectoryInv, WriteSidecar
  PROVE  DirectoryInv'
<1>0. Kinds /\ Clock /\ Rotation
  BY DEF DirectoryInv
<1>1. /\ opening = "flushed" /\ opening' = "no" /\ CallRetention
      /\ UNCHANGED <<current_file, now, made, refused>>
  BY DEF WriteSidecar, CallRetention
<1>2. PICK r \in Stamp :
        /\ current_file = Metrics(r)
        /\ dir' \in {dir} \cup {Stored(dir, Sidecar(r), size) : size \in 0..1}
  BY DEF WriteSidecar
<1>3. Touched(Sidecar(r))
  BY <1>2 DEF Touched
<1>4. current_file \in made /\ current_file \in DOMAIN dir'
  <2>1. current_file \in made /\ current_file \in DOMAIN dir
    BY <1>0, <1>1, <1>2, NamesApart DEF Rotation
  <2>. QED BY <1>3, <2>1, TouchedFile
<1>5. /\ DOMAIN dir' \subseteq File
      /\ \A f \in DOMAIN dir' : dir'[f].size \in Nat /\ dir'[f].mtime \in Int
      /\ Ages' /\ NoGapInHistory' /\ SidecarsGoInTurn'
  BY <1>1, <1>2, <1>3, <1>4, LatestTouched
<1>6. Kinds' /\ Listed' /\ Followed'
  BY <1>0, <1>1, <1>5, CallStarts
<1>7. Clock' /\ Rotation'
  BY <1>0, <1>1, <1>4 DEF Clock, Rotation
<1>. QED BY <1>5, <1>6, <1>7 DEF DirectoryInv

\* An append makes the current file, the latest, younger.
LEMMA AppendStep ==
  ASSUME DirectoryInv, AppendSample
  PROVE  DirectoryInv'
<1>0. Kinds /\ Clock /\ Rotation
  BY DEF DirectoryInv
<1>1. /\ opening = "no" /\ current_file # NoName /\ CallRetention
      /\ UNCHANGED <<current_file, now, opening, made, refused>>
  BY DEF AppendSample, Idle, CallRetention, directoryVars
<1>2. PICK r \in Stamp : current_file = Metrics(r)
  BY <1>0, <1>1 DEF Clock
<1>3. Touched(current_file) /\ current_file \in DOMAIN dir'
  <2>1. SizeNow(current_file) + 1 \in Nat
    BY <1>0, SizeType
  <2>. QED BY <2>1 DEF AppendSample, Touched, Stored
<1>4. /\ DOMAIN dir' \subseteq File
      /\ \A f \in DOMAIN dir' : dir'[f].size \in Nat /\ dir'[f].mtime \in Int
      /\ Ages' /\ NoGapInHistory' /\ SidecarsGoInTurn'
  BY <1>1, <1>2, <1>3, LatestTouched
<1>5. Kinds' /\ Listed' /\ Followed'
  BY <1>0, <1>1, <1>4, CallStarts
<1>6. Clock' /\ Rotation'
  BY <1>0, <1>1, <1>3 DEF Clock, Rotation
<1>. QED BY <1>4, <1>5, <1>6 DEF DirectoryInv

\* A process that dies leaves the directory as it is, and no file is the current
\* one.
LEMMA DeathStep ==
  ASSUME DirectoryInv, NEW bytes \in MaxDirBytes, ProcessEnds(bytes)
  PROVE  DirectoryInv'
<1>0. Kinds /\ Clock /\ Ages
  BY DEF DirectoryInv
<1>1. /\ current_file' = NoName /\ pc' = "done" /\ opening' = "no"
      /\ files' = <<>> /\ i' = 1 /\ removed' = {}
      /\ UNCHANGED <<dir, refused, now, made>>
  BY DEF ProcessEnds
<1>2. Scanned' = {}
  BY <1>1 DEF Scanned
<1>3. Kinds' /\ Listed' /\ Followed'
  BY <1>0, <1>1, <1>2 DEF Kinds, Listed, Followed, DistinctPaths
<1>4. Clock' /\ Rotation' /\ NoGapInHistory' /\ SidecarsGoInTurn'
  BY <1>0, <1>1
  DEF DirectoryInv, Clock, Rotation, NoGapInHistory, SidecarsGoInTurn
<1>5. Ages'
  <2>1. \A t \in Stamp : Named(t)' => Named(t)
    BY <1>1, NamesApart DEF Named
  <2>. QED BY <1>0, <1>1, <2>1 DEF Ages
<1>. QED BY <1>3, <1>4, <1>5 DEF DirectoryInv

\* The file the loop removes is younger than what it leaves behind.
LEMMA YoungerStays ==
  ASSUME DirectoryInv, Unlink,
         NEW g \in DOMAIN dir, g # current_file, g \notin refused,
         NEW f \in DOMAIN dir, f = files[i].path,
         \/ dir[g].mtime < dir[f].mtime
         \/ dir[g].mtime = dir[f].mtime /\ g < f
  PROVE  FALSE
<1>. DEFINE e == [path |-> g, size |-> dir[g].size, mtime |-> dir[g].mtime]
            a == [path |-> f, size |-> dir[f].size, mtime |-> dir[f].mtime]
<1>0. Kinds /\ Listed /\ Followed /\ Passed
  BY DEF DirectoryInv, Followed, Unlink
<1>1. e \in Scanned \ Gone /\ a \in Scanned \ Gone
  BY <1>0 DEF Unlink, Followed, Entries
<1>2. i \in 1..Len(files) /\ files[i] = a
  BY <1>0, <1>1 DEF Unlink, MoreToTrim, Kinds, Listed, DistinctPaths, Scanned
<1>3. PICK k \in 1..Len(files) : e = files[k]
  BY <1>1 DEF Scanned
<1>4. Older(files[k], files[i])
  BY <1>2, <1>3 DEF Older
<1>5. k \in 1..i - 1
  <2>1. k < i
    BY <1>0, <1>2, <1>4 DEF Listed
  <2>. QED BY <1>0, <1>2, <2>1 DEF Kinds
<1>6. g \in removed
  BY <1>0, <1>3, <1>5 DEF Passed
<1>. QED BY <1>1, <1>6 DEF Gone

\* The loop removes no metrics file before an older one, and none before its
\* sidecar unless that is younger: it goes in the order of age.
LEMMA UnlinkStep ==
  ASSUME DirectoryInv, Unlink, Passed', UNCHANGED directoryVars
  PROVE  /\ Followed' /\ Clock' /\ Rotation' /\ Ages'
         /\ NoGapInHistory' /\ SidecarsGoInTurn'
<1>0. /\ Kinds /\ Listed /\ Passed /\ Followed /\ Clock /\ Rotation /\ Ages
      /\ NoGapInHistory /\ SidecarsGoInTurn
  BY DEF DirectoryInv, Followed, Unlink
<1>1. /\ dir' = Without(files[i].path) /\ pc = "trim" /\ pc' = "trim"
      /\ files[i].path # current_file
      /\ UNCHANGED <<current_file, refused, now, opening, made>>
  BY DEF Unlink, directoryVars
<1>2. /\ DOMAIN dir' = DOMAIN dir \ {files[i].path}
      /\ \A g \in DOMAIN dir' : g \in DOMAIN dir /\ dir'[g] = dir[g]
  BY <1>1 DEF Without
<1>3. Followed'
  <2>1. Gone' = Gone \cup {files[i]} /\ Scanned' = Scanned /\ files[i] \in Scanned
    BY <1>0, OneMoreGone
  <2>2. Entries' = {e \in Entries : e.path # files[i].path}
    BY <1>1 DEF Entries, Without
  <2>3. Entries' = Scanned' \ Gone'
    BY <1>0, <1>1, <2>1, <2>2 DEF Followed, Listed, DistinctPaths
  <2>. QED BY <2>3 DEF Followed
<1>4. Clock' /\ Rotation'
  BY <1>0, <1>1, <1>2 DEF Clock, Rotation
<1>5. Ages'
  <2>1. \A t \in Stamp : Named(t)' <=> Named(t)
    BY <1>1 DEF Named
  <2>. QED BY <1>0, <1>1, <1>2, <2>1 DEF Ages
<1>6. \A t \in Stamp : t \in Nat
  BY NamesApart
<1>7. \A f \in DOMAIN dir : dir[f].mtime \in Int
  BY <1>0 DEF Kinds
<1>8. ASSUME NEW s \in Stamp, NEW t \in Stamp, s < t,
             NEW f \in {Metrics(s), Sidecar(s)} \cap DOMAIN dir, f \notin refused,
             Metrics(t) \in made, Metrics(t) = files[i].path
      PROVE  FALSE
  <2>1. Metrics(t) \in DOMAIN dir
    BY <1>8 DEF Unlink
  <2>2. dir[f].mtime <= t /\ t <= dir[Metrics(t)].mtime
    BY <1>0, <1>8, <2>1 DEF Ages, Named
  <2>3. f < Metrics(t)
    BY <1>8, NamesApart
  <2>4. f # current_file
    BY <1>0, <1>8, NamesApart DEF Clock
  <2>5. \/ dir[f].mtime < dir[Metrics(t)].mtime
        \/ dir[f].mtime = dir[Metrics(t)].mtime /\ f < Metrics(t)
    BY <2>1, <2>2, <2>3, <1>6, <1>7
  <2>. QED BY <1>8, <2>1, <2>4, <2>5, YoungerStays
<1>9. NoGapInHistory'
  BY <1>0, <1>1, <1>2, <1>8 DEF NoGapInHistory
<1>10. SidecarsGoInTurn'
  <2>. SUFFICES ASSUME NEW t \in Stamp, Sidecar(t) \in DOMAIN dir' \ refused
       PROVE  /\ \A u \in Stamp :
                   t < u /\ Metrics(u) \in made => Metrics(u) \in DOMAIN dir'
              /\ Metrics(t) \notin DOMAIN dir' => t < dir'[Sidecar(t)].mtime
    BY <1>1 DEF SidecarsGoInTurn
  <2>1. Sidecar(t) \in DOMAIN dir \ refused /\ dir'[Sidecar(t)] = dir[Sidecar(t)]
    BY <1>2
  <2>2. ASSUME NEW u \in Stamp, t < u, Metrics(u) \in made
        PROVE  Metrics(u) \in DOMAIN dir'
    BY <1>0, <1>2, <1>8, <2>1, <2>2 DEF SidecarsGoInTurn
  <2>3. ASSUME Metrics(t) \notin DOMAIN dir', dir[Sidecar(t)].mtime <= t
        PROVE  FALSE
    <3>1. Metrics(t) \in DOMAIN dir
      BY <1>0, <1>6, <1>7, <2>1, <2>3 DEF SidecarsGoInTurn
    <3>2. Metrics(t) = files[i].path
      BY <1>2, <2>3, <3>1
    <3>3. t <= dir[Metrics(t)].mtime
      BY <1>0, <3>1 DEF Ages
    <3>4. Sidecar(t) < Metrics(t) /\ Sidecar(t) # current_file
      BY <1>0, NamesApart DEF Clock
    <3>5. \/ dir[Sidecar(t)].mtime < dir[Metrics(t)].mtime
          \/ dir[Sidecar(t)].mtime = dir[Metrics(t)].mtime /\ Sidecar(t) < Metrics(t)
      BY <1>6, <1>7, <2>1, <2>3, <3>1, <3>3, <3>4
    <3>. QED BY <2>1, <3>1, <3>2, <3>4, <3>5, YoungerStays
  <2>. QED BY <1>6, <1>7, <2>1, <2>2, <2>3
<1>. QED BY <1>3, <1>4, <1>5, <1>9, <1>10

\* So does every other step of the call.
LEMMA EnforceKeeps ==
  ASSUME DirectoryInv, EnforceRetention
  PROVE  DirectoryInv'
<1>0. /\ Kinds /\ Listed /\ Followed /\ Clock /\ Rotation /\ Ages
      /\ NoGapInHistory /\ SidecarsGoInTurn
      /\ UNCHANGED directoryVars /\ EnforceStep
  BY DEF DirectoryInv, EnforceRetention, EnforceStep
<1>1. Kinds' /\ Listed' /\ Passed'
  <2>1. pc \in {"scan", "trim"}
    BY <1>0
    DEF EnforceStep, Scan, ScanFails, SkipCurrent, Unlink, UnlinkFails, Finish
  <2>2. Passed
    BY <1>0, <2>1 DEF Followed, Listed, Passed
  <2>. QED BY <1>0, <2>2, ListStep
<1>2. CASE Unlink
  BY <1>0, <1>1, <1>2, UnlinkStep DEF DirectoryInv
<1>3. CASE ~Unlink
  <2>1. UNCHANGED <<current_file, dir, now, opening, made>> /\ refused \subseteq refused'
    BY <1>0, <1>3
    DEF EnforceStep, Scan, ScanFails, SkipCurrent, UnlinkFails, Finish,
        directoryVars
  <2>2. Clock' /\ Rotation' /\ Ages' /\ NoGapInHistory' /\ SidecarsGoInTurn'
    <3>1. \A t \in Stamp : Named(t)' <=> Named(t)
      BY <2>1 DEF Named
    <3>2. opening = "no"
      BY <1>0
      DEF Rotation, EnforceStep, Scan, ScanFails, SkipCurrent, Unlink,
          UnlinkFails, Finish
    <3>. QED BY <1>0, <2>1, <3>1, <3>2
         DEF Clock, Rotation, Ages, NoGapInHistory, SidecarsGoInTurn
  <2>3. Entries' = Entries
    BY <2>1 DEF Entries
  <2>4. CASE Scan
    <3>1. ASSUME max_dir_bytes <= 0
          PROVE  Followed'
      BY <2>4, <3>1 DEF Scan, Followed
    <3>2. ASSUME ~(max_dir_bytes <= 0)
          PROVE  Followed'
      <4>1. files' = Sorted(Entries) /\ removed' = {}
        BY <1>0, <2>4, <3>2 DEF Scan, Listed
      <4>2. Scanned' = Entries /\ Gone' = {}
        BY <1>0, <4>1, ScanLists DEF Gone
      <4>. QED BY <1>1, <2>3, <4>2 DEF Followed
    <3>3. Followed'
      BY <3>1, <3>2
    <3>. QED BY <1>1, <2>2, <3>3 DEF DirectoryInv
  <2>5. CASE ~Scan
    <3>1. /\ UNCHANGED <<files, removed>>
          /\ pc' = "trim" => pc = "trim"
      BY <1>0, <1>3, <2>5 DEF EnforceStep, ScanFails, SkipCurrent, UnlinkFails, Finish
    <3>2. Scanned' = Scanned /\ Gone' = Gone
      BY <3>1 DEF Scanned, Gone
    <3>3. Followed'
      BY <1>0, <1>1, <2>3, <3>1, <3>2 DEF Followed
    <3>. QED BY <1>1, <2>2, <3>3 DEF DirectoryInv
  <2>. QED BY <2>4, <2>5
<1>. QED BY <1>2, <1>3

\* Over the life of the module the ages of its files follow their seconds, and
\* the history has no gap (src/rotation.c:211-259, 277-283, 331-339).
THEOREM DirectoryInvHolds == DirectorySpec => []DirectoryInv
<1>1. DirectoryInv /\ [DirectoryNext]_<<vars, directoryVars>> => DirectoryInv'
  <2>. SUFFICES ASSUME DirectoryInv, [DirectoryNext]_<<vars, directoryVars>>
       PROVE  DirectoryInv'
    OBVIOUS
  <2>0. now \in Stamp /\ now \in Nat
    BY NamesApart DEF DirectoryInv, Clock
  <2>1. CASE ReadStamp \/ OpenFile \/ FlushHeader \/ WriteSidecar
    BY <2>1, StampStep, OpenStep, HeaderStep, SidecarStep
  <2>2. CASE AppendSample
    BY <2>2, AppendStep
  <2>3. CASE SecondPasses
    <3>1. now' \in Stamp /\ now <= now'
      BY <2>0, <2>3, NamesApart DEF SecondPasses
    <3>. QED BY <2>3, <3>1, ClockKeeps DEF SecondPasses, vars
  <2>4. CASE \E bytes \in MaxDirBytes : SetMaxDirBytes(bytes) \/ ProcessEnds(bytes)
    <3>1. ASSUME NEW bytes \in MaxDirBytes, SetMaxDirBytes(bytes)
          PROVE  DirectoryInv'
      <4>1. UNCHANGED <<current_file, dir, pc, files, i, removed, refused, now,
                        opening, made>>
        BY <3>1 DEF SetMaxDirBytes, directoryVars
      <4>. QED BY <2>0, <4>1, ClockKeeps
    <3>. QED BY <2>4, <3>1, DeathStep
  <2>5. CASE EnforceRetention
    BY <2>5, EnforceKeeps
  <2>6. CASE UNCHANGED <<vars, directoryVars>>
    <3>1. UNCHANGED <<current_file, dir, pc, files, i, removed, refused, now,
                      opening, made>>
      BY <2>6 DEF vars, directoryVars
    <3>. QED BY <2>0, <3>1, ClockKeeps
  <2>. QED BY <2>1, <2>2, <2>3, <2>4, <2>5, <2>6 DEF DirectoryNext
<1>. QED BY <1>1, DirectoryInitInv, PTL DEF DirectorySpec

\* A metrics file goes only after all that were opened before it, but for files
\* that could not be removed (src/rotation.c:277-283, 331-339).
THEOREM HistoryWithoutGaps == DirectorySpec => []NoGapInHistory
<1>1. DirectoryInv => NoGapInHistory
  BY DEF DirectoryInv
<1>. QED BY <1>1, DirectoryInvHolds, PTL

\* No sidecar outlives a metrics file of a later rotation, and none its own unless
\* it is the younger, but for files that could not be removed
\* (src/rotation.c:215, 244, 248-257, 277-283).
THEOREM SidecarsInTurn == DirectorySpec => []SidecarsGoInTurn
<1>1. DirectoryInv => SidecarsGoInTurn
  BY DEF DirectoryInv
<1>. QED BY <1>1, DirectoryInvHolds, PTL
=============================================================================
