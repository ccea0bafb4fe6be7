----------------------------- MODULE MCFtdcWriter -----------------------------
(***************************************************************************)
(* Small instances of FtdcWriter for TLC.                                  *)
(***************************************************************************)
EXTENDS FtdcWriter

\* What the module reports and gets over without harm to a file.
MCHandledFaults == {"collect", "mkdir", "open", "header", "encode", "crash"}

MCAllFaults == AllFaults
=============================================================================
