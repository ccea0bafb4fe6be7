----------------------------- MODULE FtdcBuffer -----------------------------
(***************************************************************************)
(* The growing buffers texts are written to: JsonBuf of src/collector.c,   *)
(* the same memory continued by src/hoststats_linux.c or                   *)
(* src/hoststats_stub.c with code of their own, and Buffer of src/delta.c. *)
(* Three files agree on what len, cap and the memory behind data mean.     *)
(*                                                                         *)
(* An append reserves (check, double the capacity until it is enough,      *)
(* reallocate) and then writes.  A caller whose append fails gives the     *)
(* buffer up; the one that does not, a list of pairs of an INFO line that  *)
(* is then written again as a string, is left out: no reallocation fails   *)
(* there.                                                                  *)
(***************************************************************************)
EXTENDS Naturals

CONSTANTS
  CollectorFirst,  \* capacity of the collector's first allocation
  EncoderFirst,    \* of the encoder's
  Size,            \* lengths of the texts that are appended
  MaxLength,       \* bound: characters of a text
  MemoryFails,     \* realloc may fail
  Platform         \* of "linux" and "other"

ASSUME BufferAssumption ==
  /\ {CollectorFirst, EncoderFirst} \subseteq Nat \ {0}
  /\ Size \subseteq Nat
  /\ Platform \subseteq {"linux", "other"}

VARIABLES
  writer,  \* whose code appends: collector, host, closing, encoder
  pc,      \* where the append stands
  len,     \* characters written, without the terminator
  cap,     \* what the code takes the capacity for
  memory,  \* what realloc gave
  extra    \* length of the text being appended

vars == <<writer, pc, len, cap, memory, extra>>

Appending == {"check", "double", "realloc", "write"}

Init ==
  /\ writer \in {"collector", "encoder"}
  /\ pc = "idle"
  /\ len = 0 /\ cap = 0 /\ memory = 0 /\ extra = 0
-----------------------------------------------------------------------------
(* What differs between the files.                                         *)

CollectorDouble(c) == IF c = 0 THEN CollectorFirst ELSE 2 * c
EncoderDouble(c) == IF c = 0 THEN EncoderFirst ELSE 2 * c
HostDouble(c) == 2 * c

Doubled ==
  CASE writer \in {"collector", "closing"} -> CollectorDouble(cap)
    [] writer = "encoder" -> EncoderDouble(cap)
    [] OTHER -> HostDouble(cap)

NeedMutant == len + extra   \* the terminator is forgotten

Need == len + extra + 1

Ask(n) ==
  /\ pc = "idle"
  /\ len + n < MaxLength
  /\ extra' = n

\* buf_append_n, buf_append and buf_printf of the collector, of the encoder
\* and of the Linux host section.
CollectorAppend(n) ==
  writer \in {"collector", "closing"} /\ Ask(n) /\ pc' = "check"

EncoderAppend(n) == writer = "encoder" /\ Ask(n) /\ pc' = "check"

HostAppend(n) ==
  /\ writer = "host" /\ "linux" \in Platform
  /\ Ask(n)
  /\ pc' = "check"

\* The stub only looks for room.
StubAppend(n) ==
  /\ writer = "host" /\ "other" \in Platform
  /\ Ask(n)
  /\ pc' = IF len + n + 1 > cap THEN "given up" ELSE "write"

AppendText ==
  /\ \E n \in Size :
       CollectorAppend(n) \/ EncoderAppend(n) \/ HostAppend(n) \/ StubAppend(n)
  /\ UNCHANGED <<writer, len, cap, memory>>

Check ==
  /\ pc = "check"
  /\ pc' = IF cap >= Need THEN "write" ELSE "double"
  /\ UNCHANGED <<writer, len, cap, memory, extra>>

Double ==
  /\ pc = "double"
  /\ cap' = Doubled
  /\ pc' = IF cap' < Need THEN "double" ELSE "realloc"
  /\ UNCHANGED <<writer, len, memory, extra>>

Reallocate ==
  /\ pc = "realloc"
  /\ memory' = cap
  /\ pc' = "write"
  /\ UNCHANGED <<writer, len, cap, extra>>

\* The memory is what it was, the capacity is not set back: the caller must
\* not go on.
ReallocateFails ==
  /\ MemoryFails /\ pc = "realloc"
  /\ pc' = "given up"
  /\ UNCHANGED <<writer, len, cap, memory, extra>>

Write ==
  /\ pc = "write"
  /\ len' = len + extra
  /\ pc' = "idle"
  /\ UNCHANGED <<writer, cap, memory, extra>>

\* ftdc_collect_sample calls the host section after the pieces before it.
HostStartsMutant ==   \* the host section is the first text of the buffer
  /\ pc = "idle" /\ writer = "collector"
  /\ writer' = "host"
  /\ UNCHANGED <<pc, len, cap, memory, extra>>

HostStarts ==
  /\ pc = "idle" /\ writer = "collector" /\ len > 0
  /\ writer' = "host"
  /\ UNCHANGED <<pc, len, cap, memory, extra>>

HostEnds ==
  /\ pc = "idle" /\ writer = "host"
  /\ writer' = "closing"
  /\ UNCHANGED <<pc, len, cap, memory, extra>>

Step == Check \/ Double \/ Reallocate \/ ReallocateFails \/ Write

Next == AppendText \/ Step \/ HostStarts \/ HostEnds

\* A call runs to its end on the server's thread; realloc returns.
Spec == Init /\ [][Next]_vars /\ WF_vars(Step)
-----------------------------------------------------------------------------
\* No text is written past the memory realloc gave, its terminator included:
\* what the three files take for the capacity is the memory's size whenever
\* one of them writes (src/collector.c:18-43, src/hoststats_linux.c:14-38,
\* src/hoststats_stub.c:12-20, src/delta.c:39-61): if callers give up after
\* a failed reallocation, as all do but the list of pairs this module leaves out.
WritesFit ==
  /\ pc = "write" => len + extra + 1 <= memory
  /\ len > 0 => len < memory

\* Reserving ends: the doubling loop of the host section, which would turn
\* for ever on a capacity of 0 (src/hoststats_linux.c:20-22), is never
\* entered with one.
EveryAppendEnds == pc \in Appending ~> pc \in {"idle", "given up"}
=============================================================================
