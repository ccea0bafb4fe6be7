----------------------------- MODULE FtdcRetention -----------------------------
(***************************************************************************)
(* ftdc_rotation_enforce_retention of src/rotation.c: the directory is     *)
(* scanned, what it found is sorted by age, and the oldest files go until  *)
(* what the scan counted fits max_dir_bytes.  The current file is never    *)
(* removed.                                                                *)
(*                                                                         *)
(* The call holds the server's thread, yet the directory is not the        *)
(* module's own: an operator, or a second server with the same path,       *)
(* removes and adds files between any two of its system calls.             *)
(***************************************************************************)
EXTENDS Integers, Sequences, FiniteSetsExt

CONSTANTS
  File,         \* metrics.* and metadata.* files, in the order of their paths
  Size,         \* sizes of files, in the units of max_dir_bytes
  ModTime,      \* modification times
  MaxDirBytes,  \* values of max_dir_bytes; 0 or less is no limit
  MaxChanges    \* bound: changes others make to the directory during a call

ASSUME RetentionAssumption ==
  /\ File \subseteq Nat /\ IsFiniteSet(File)
  /\ Size \subseteq Nat
  /\ ModTime \subseteq Int
  /\ MaxDirBytes \subseteq Int
  /\ MaxChanges \in Nat

VARIABLES
  max_dir_bytes,  \* config
  current_file,
  dir,            \* size and modification time of each file that exists
  pc,             \* "scan", "trim", then "done" or "failed"
  files,          \* what the scan found, oldest first
  total,          \* bytes of what the scan found and the loop did not remove
  i,              \* position of the loop in files
  removed,        \* history: files the loop removed
  refused,        \* history: files whose unlink failed
  changes         \* changes others made so far

vars == <<max_dir_bytes, current_file, dir, pc, files, total, i, removed,
          refused, changes>>

Stat == [size : Size, mtime : ModTime]
Entry == [path : File, size : Size, mtime : ModTime]

TypeOK ==
  /\ max_dir_bytes \in MaxDirBytes
  /\ current_file \in File
  /\ DOMAIN dir \subseteq File /\ dir \in [DOMAIN dir -> Stat]
  /\ pc \in {"scan", "trim", "done", "failed"}
  /\ files \in Seq(Entry)
  /\ total \in Nat
  /\ i \in 1..Len(files) + 1
  /\ removed \subseteq File /\ refused \subseteq File
  /\ changes \in 0..MaxChanges
-----------------------------------------------------------------------------
SizeOf(e) == e.size
Bytes(entries) == MapThenSumSet(SizeOf, entries)

Entries == {[path |-> f, size |-> dir[f].size, mtime |-> dir[f].mtime] :
              f \in DOMAIN dir}

OlderMutant(a, b) ==  \* files of one second the other way round
  a.mtime < b.mtime \/ (a.mtime = b.mtime /\ a.path > b.path)

\* retention_cmp: oldest first, files of one second by their path.
Older(a, b) ==
  a.mtime < b.mtime \/ (a.mtime = b.mtime /\ a.path < b.path)

\* qsort by retention_cmp: the k-th entry has k - 1 older ones.
Sorted(entries) ==
  [k \in 1..Cardinality(entries) |->
     CHOOSE e \in entries :
       Cardinality({a \in entries : Older(a, e)}) = k - 1]

Without(f) == [g \in DOMAIN dir \ {f} |-> dir[g]]

ScanMutant ==  \* the current file is not counted
  /\ pc = "scan"
  /\ IF max_dir_bytes <= 0
       THEN pc' = "done" /\ UNCHANGED <<files, total>>
       ELSE /\ files' = Sorted(Entries)
            /\ total' = Bytes({e \in Entries : e.path # current_file})
            /\ pc' = "trim"
  /\ UNCHANGED <<max_dir_bytes, current_file, dir, i, removed, refused, changes>>

Scan ==
  /\ pc = "scan"
  /\ IF max_dir_bytes <= 0
       THEN pc' = "done" /\ UNCHANGED <<files, total>>
       ELSE /\ files' = Sorted(Entries)
            /\ total' = Bytes(Entries)
            /\ pc' = "trim"
  /\ UNCHANGED <<max_dir_bytes, current_file, dir, i, removed, refused, changes>>

\* The directory cannot be opened, or no memory is left for the list.
ScanFails ==
  /\ pc = "scan"
  /\ max_dir_bytes > 0
  /\ pc' = "failed"
  /\ UNCHANGED <<max_dir_bytes, current_file, dir, files, total, i, removed,
                 refused, changes>>

MoreToTrimMutant == i <= Len(files) /\ total >= max_dir_bytes  \* off by one

\* The condition of the loop.
MoreToTrim == i <= Len(files) /\ total > max_dir_bytes

SkipCurrentMutant ==  \* the loop's own step comes on top
  /\ pc = "trim" /\ MoreToTrim
  /\ files[i].path = current_file
  /\ i' = i + 2
  /\ UNCHANGED <<max_dir_bytes, current_file, dir, pc, files, total, removed,
                 refused, changes>>

SkipCurrent ==
  /\ pc = "trim" /\ MoreToTrim
  /\ files[i].path = current_file
  /\ i' = i + 1
  /\ UNCHANGED <<max_dir_bytes, current_file, dir, pc, files, total, removed,
                 refused, changes>>

Unlink ==
  /\ pc = "trim" /\ MoreToTrim
  /\ files[i].path # current_file
  /\ files[i].path \in DOMAIN dir
  /\ dir' = Without(files[i].path)
  /\ total' = total - files[i].size
  /\ removed' = removed \cup {files[i].path}
  /\ i' = i + 1
  /\ UNCHANGED <<max_dir_bytes, current_file, pc, files, refused, changes>>

UnlinkFailsMutant ==  \* taken off the total all the same
  /\ pc = "trim" /\ MoreToTrim
  /\ files[i].path # current_file
  /\ refused' = refused \cup {files[i].path}
  /\ total' = total - files[i].size
  /\ i' = i + 1
  /\ UNCHANGED <<max_dir_bytes, current_file, dir, pc, files, removed, changes>>

\* The file is gone, or the directory does not let it go: its bytes stay in
\* total.
UnlinkFails ==
  /\ pc = "trim" /\ MoreToTrim
  /\ files[i].path # current_file
  /\ refused' = refused \cup {files[i].path}
  /\ i' = i + 1
  /\ UNCHANGED <<max_dir_bytes, current_file, dir, pc, files, total, removed,
                 changes>>

Finish ==
  /\ pc = "trim" /\ ~MoreToTrim
  /\ pc' = "done"
  /\ UNCHANGED <<max_dir_bytes, current_file, dir, files, total, i, removed,
                 refused, changes>>

\* Someone else removes a file, writes one anew or makes one longer.
OthersChange ==
  /\ pc = "trim"
  /\ changes < MaxChanges
  /\ changes' = changes + 1
  /\ \E f \in File :
       \/ f \in DOMAIN dir /\ dir' = Without(f)
       \/ \E s \in Stat :
            dir' = [g \in DOMAIN dir \cup {f} |-> IF g = f THEN s ELSE dir[g]]
  /\ UNCHANGED <<max_dir_bytes, current_file, pc, files, total, i, removed, refused>>

Init ==
  /\ max_dir_bytes \in MaxDirBytes
  /\ current_file \in File
  /\ \E present \in SUBSET File : dir \in [present -> Stat]
  /\ pc = "scan"
  /\ files = <<>>
  /\ total = 0
  /\ i = 1
  /\ removed = {}
  /\ refused = {}
  /\ changes = 0

Next == Scan \/ ScanFails \/ SkipCurrent \/ Unlink \/ UnlinkFails \/ Finish
        \/ OthersChange

Spec == Init /\ [][Next]_vars
-----------------------------------------------------------------------------
(* Properties.                                                             *)

Scanned == {files[k] : k \in 1..Len(files)}
OlderThan(e) == {a \in Scanned : Older(a, e)}

\* What the loop is to remove, said without a loop: a file goes if what is
\* left when every older file it could remove has gone is still too much.
MustGo(e) ==
  /\ e.path # current_file
  /\ Bytes(Scanned) - Bytes({a \in OlderThan(e) : a.path \in removed})
       > max_dir_bytes

\* Whatever others do meanwhile, the loop removes files that are to go and no
\* other: the current file stays, and no file goes that fits after its elders
\* went (src/rotation.c:331-339).
RemovesOnlyTheOldest ==
  \A e \in Scanned : e.path \in removed => MustGo(e)

\* When the call returns, every file that is to go went or was refused.
TrimsEnough ==
  pc = "done" /\ max_dir_bytes > 0 =>
    \A e \in Scanned : MustGo(e) => e.path \in removed \cup refused

\* If nobody else touches the directory, the module's account of it is right:
\* it stops only when the directory really fits, or holds nothing it may
\* remove (src/rotation.c:326, 332, 337).
FitsOrNothingLeft ==
  (pc = "done" /\ max_dir_bytes > 0 /\ changes = 0 /\ refused = {}) =>
    Bytes(Entries) <= max_dir_bytes \/ DOMAIN dir \subseteq {current_file}
=============================================================================
