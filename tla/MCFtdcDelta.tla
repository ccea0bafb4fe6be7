----------------------------- MODULE MCFtdcDelta -----------------------------
(***************************************************************************)
(* Small instances of FtdcDelta for TLC.                                   *)
(***************************************************************************)
EXTENDS FtdcDelta

\* One process before and after a step of the wall clock lowers its uptime, a
\* sample whose INFO server section was refused, and, though the encoder's state
\* does not outlive a process, identities that differ in run id or process id.
MCIdentity ==
  {[valid |-> TRUE, run_id |-> r, process_id |-> p, uptime_in_seconds |-> u] :
     <<r, p, u>> \in {<<"a", 1, 1>>, <<"a", 1, 2>>, <<"b", 1, 2>>,
                      <<"b", 2, 2>>, <<"", 0, 0>>}}
=============================================================================
