----------------------------- MODULE SnapshotLog -----------------------------
(***************************************************************************)
(* What a metrics file promises whoever reads it, whatever its format      *)
(* version: after every record the reader holds the counters of exactly    *)
(* the sample that record was made from.  Format version 1 keeps the       *)
(* promise by storing samples as they were collected; FtdcDelta shows that *)
(* checkpoint and delta records keep it too.                               *)
(***************************************************************************)

CONSTANTS
  Sample,        \* what the collector can hand over
  NoView,        \* the view of a reader that has met no record yet
  CountersOf(_)  \* the counters a sample carries

VARIABLES
  collected,     \* the sample behind the last record of the current file
  view           \* what a reader of that file knows after its last record

vars == <<collected, view>>

Init == view = NoView

\* A record reaches the file.
Record(s) ==
  /\ collected' = s
  /\ view' = CountersOf(s)

\* The file is left for a new one, which has no record yet.
NewFile ==
  /\ view' = NoView
  /\ UNCHANGED collected

Next == NewFile \/ \E s \in Sample : Record(s)

Spec == Init /\ [][Next]_vars
=============================================================================
