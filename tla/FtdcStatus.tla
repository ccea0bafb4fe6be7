----------------------------- MODULE FtdcStatus -----------------------------
(***************************************************************************)
(* What FTDC.STATUS promises of the write path, whatever files, records    *)
(* and limits are about: a sample is counted only with a file open, a      *)
(* rotation that clears the error leaves a file open, and the file is not  *)
(* lost without an error.  FtdcWriter implements it step by step, Ftdc     *)
(* runs it with the timer and the configuration.                           *)
(***************************************************************************)
EXTENDS Integers

CONSTANT Counts   \* the counter of samples counts modulo this, 2 or more

VARIABLES
  open,        \* is a metrics file open?
  last_error,  \* is last_error set?
  samples      \* samples_written

statusVars == <<open, last_error, samples>>

Init == open = FALSE /\ last_error = FALSE /\ samples = 0

\* A sample is written; the directory may fail to be trimmed after it.
Append ==
  /\ open' = TRUE
  /\ last_error' \in BOOLEAN
  /\ samples' = (samples + 1) % Counts

Rotate == open' = TRUE /\ last_error' = FALSE /\ UNCHANGED samples

\* Whatever fails, on the way a file may be closed or opened.
Fail == open' \in BOOLEAN /\ last_error' = TRUE /\ UNCHANGED samples

\* A new process.
Reload == open' = FALSE /\ last_error' = FALSE /\ samples' = 0

Next == Append \/ Rotate \/ Fail \/ Reload

Spec == Init /\ [][Next]_statusVars
=============================================================================
