---------------------------- MODULE FtdcDirectory ----------------------------
(***************************************************************************)
(* A diagnostics directory over the life of the module: rotations open a   *)
(* metrics file and write a sidecar (src/rotation.c:211-259), appends make *)
(* the current file longer, and each is followed by a call of              *)
(* ftdc_rotation_enforce_retention, step by step as in FtdcRetention.  The *)
(* second may turn and the process die between any two steps.              *)
(*                                                                         *)
(* FtdcRetention starts from any directory; this one starts empty, and     *)
(* what is found in it later has the ages the module gives to its files.   *)
(* Nobody else changes the directory here, and writes succeed: those that  *)
(* fail are in FtdcWriter.                                                 *)
(***************************************************************************)
EXTENDS FtdcRetention

CONSTANTS
  MaxStamp,     \* bound: seconds of the clock
  MaxFileSize   \* bound: size of a metrics file

ASSUME DirectoryAssumption ==
  /\ MaxStamp \in Nat /\ MaxFileSize \in Nat
  /\ File = 0..2 * MaxStamp + 1

VARIABLES
  now,     \* seconds, as in file names and modification times
  opening, \* how far a rotation is: "no", "stamped", "opened", "flushed"
  made     \* history: metrics files that were opened

directoryVars == <<now, opening, made>>

Stamp == 0..MaxStamp

\* metadata.<stamp>.json comes before metrics.<stamp>.vkftdc in the order of
\* paths, whatever the stamps.
Sidecar(t) == t
Metrics(t) == MaxStamp + 1 + t

NoName == -1  \* current_file before the first file

Idle == pc \in {"done", "failed"} /\ opening = "no"

\* A call of ftdc_rotation_enforce_retention begins.
CallRetention ==
  /\ pc' = "scan"
  /\ files' = <<>>
  /\ total' = 0
  /\ i' = 1
  /\ removed' = {}
  /\ UNCHANGED <<max_dir_bytes, refused, changes>>

Stored(d, f, size) ==
  [g \in DOMAIN d \cup {f} |->
     IF g = f THEN [size |-> size, mtime |-> now] ELSE d[g]]

SizeNow(f) == IF f \in DOMAIN dir THEN dir[f].size ELSE 0

\* ftdc_rotation_open_next_file reads the clock and names both files by it.
ReadStamp ==
  /\ Idle
  /\ SizeNow(Metrics(now)) < MaxFileSize
  /\ current_file' = Metrics(now)
  /\ opening' = "stamped"
  /\ UNCHANGED <<max_dir_bytes, dir, pc, files, total, i, removed, refused,
                 changes, now, made>>

\* fopen: a new file is empty, one of the same second is left as it is.
OpenFile ==
  /\ opening = "stamped"
  /\ dir' = IF current_file \in DOMAIN dir THEN dir
                                          ELSE Stored(dir, current_file, 0)
  /\ made' = made \cup {current_file}
  /\ opening' = "opened"
  /\ UNCHANGED <<max_dir_bytes, current_file, pc, files, total, i, removed,
                 refused, changes, now>>

\* The header is written behind what the file has.
FlushHeader ==
  /\ opening = "opened"
  /\ dir' = Stored(dir, current_file, SizeNow(current_file) + 1)
  /\ opening' = "flushed"
  /\ UNCHANGED <<max_dir_bytes, current_file, pc, files, total, i, removed,
                 refused, changes, now, made>>

\* The sidecar is written anew, in part if the disk is full or the process dies
\* within it, and left out if it cannot be opened.
WriteSidecar ==
  /\ opening = "flushed"
  /\ \E t \in Stamp :
       /\ current_file = Metrics(t)
       /\ dir' \in {dir} \cup {Stored(dir, Sidecar(t), size) : size \in 0..1}
  /\ opening' = "no"
  /\ CallRetention
  /\ UNCHANGED <<current_file, now, made>>

AppendSample ==
  /\ Idle
  /\ current_file # NoName
  /\ SizeNow(current_file) < MaxFileSize
  /\ dir' = Stored(dir, current_file, SizeNow(current_file) + 1)
  /\ CallRetention
  /\ UNCHANGED <<current_file, directoryVars>>

SecondPasses ==
  /\ now < MaxStamp
  /\ now' = now + 1
  /\ UNCHANGED <<vars, opening, made>>

\* The process ends at any point and another one starts, with an empty state and
\* a limit of its own; what is in the directory stays.
ProcessEnds(bytes) ==
  /\ max_dir_bytes' = bytes
  /\ current_file' = NoName
  /\ pc' = "done"
  /\ files' = <<>> /\ total' = 0 /\ i' = 1
  /\ removed' = {}
  /\ opening' = "no"
  /\ UNCHANGED <<dir, refused, changes, now, made>>

\* FTDC.CONFIG SET max-dir-mb
SetMaxDirBytes(bytes) ==
  /\ Idle
  /\ max_dir_bytes' = bytes
  /\ UNCHANGED <<current_file, dir, pc, files, total, i, removed, refused,
                 changes, directoryVars>>

EnforceRetention ==
  /\ Scan \/ ScanFails \/ SkipCurrent \/ Unlink \/ UnlinkFails \/ Finish
  /\ UNCHANGED directoryVars

DirectoryInit ==
  /\ max_dir_bytes \in MaxDirBytes
  /\ current_file = NoName
  /\ dir = [f \in {} |-> 0]
  /\ pc = "done"
  /\ files = <<>> /\ total = 0 /\ i = 1
  /\ removed = {} /\ refused = {} /\ changes = 0
  /\ now = 0
  /\ opening = "no"
  /\ made = {}

DirectoryNext ==
  \/ ReadStamp \/ OpenFile \/ FlushHeader \/ WriteSidecar
  \/ AppendSample
  \/ SecondPasses
  \/ \E bytes \in MaxDirBytes : SetMaxDirBytes(bytes) \/ ProcessEnds(bytes)
  \/ EnforceRetention

DirectorySpec == DirectoryInit /\ [][DirectoryNext]_<<vars, directoryVars>>
-----------------------------------------------------------------------------
(* Properties.                                                             *)

\* Retention leaves the latest part of the history and no gap in it: a metrics
\* file goes only after all that were opened before it, but for files that
\* could not be removed (src/rotation.c:277-283, 331-339).
NoGapInHistory ==
  \A s, t \in Stamp :
    /\ s < t
    /\ Metrics(t) \in made \ DOMAIN dir
    => Metrics(s) \notin DOMAIN dir \ refused

\* Sidecars go in their turn.  One outlives no metrics file of a later rotation,
\* and its own only if the second turned between the stamp of both and the
\* sidecar's writing: a header flushed before that and never appended to is the
\* older of the two and goes first (src/rotation.c:215, 244, 248-257, 277-283).
SidecarsGoInTurn ==
  \A t \in Stamp : Sidecar(t) \in DOMAIN dir \ refused =>
    /\ \A u \in Stamp : t < u /\ Metrics(u) \in made => Metrics(u) \in DOMAIN dir
    /\ Metrics(t) \notin DOMAIN dir => t < dir[Sidecar(t)].mtime
=============================================================================
