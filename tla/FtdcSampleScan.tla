---------------------------- MODULE FtdcSampleScan ---------------------------
(***************************************************************************)
(* What the scanner of the encoder (src/delta.c) finds in the samples of   *)
(* the collector: the sample handed out is what it reads, and neither file *)
(* knows the other.                                                        *)
(***************************************************************************)
EXTENDS FtdcCollector, FtdcScanner

\* The scan of the encoder (src/delta.c:469-477) reads a sample handed out
\* from its first to its last character: no reply of the server, refused or
\* not, and no file of the host makes a sample the encoder would refuse, but
\* for a character below 0x20, which the collector writes as a \u escape
\* (src/collector.c:90) and the scan knows none of (src/delta.c:143).
\* tests/integration/module_test.go:335 checks one run.
HasUEscape(t) == "u" \in Range(t)

EncoderReadsEverySample ==
  sample # NoSample =>
    (FlatSample(sample).end = Len(sample) + 1 <=> ~HasUEscape(sample))

IsRead == sample # NoSample /\ ~HasUEscape(sample)

\* End to end, over printing, conversion and scan: the identity and the
\* counters the encoder takes from a sample are those of the server's state,
\* and those of a section that was refused are absent, not stale or another
\* field's.
Answered(section, value) == IF section \in refused THEN <<>> ELSE value

ReportedMetrics ==
  LET stats == {<<Append(Info("stats"), "total_commands_processed"), server.commands>>,
                <<Append(Info("stats"), "keyspace_hits"), server.hits>>}
      slaves == {<<Info("replication") \o <<SlaveName[i], ".", "offset">>,
                   server.slaves[i]>> : i \in DOMAIN server.slaves}
      offset == {<<Append(Info("replication"), "master_repl_offset"), server.offset>>}
      known == (IF "stats" \in refused THEN {} ELSE stats)
               \cup (IF "replication" \in refused THEN {} ELSE slaves \cup offset)
  IN  [path \in {m[1] : m \in known} |-> (CHOOSE m \in known : m[1] = path)[2]]

Reported ==
  [ts_ms |-> server.now,
   run_id |-> Answered("server", server.run_id),
   role |-> Answered("replication", server.role),
   process_id |-> Answered("server", server.process_id),
   uptime_in_seconds |-> Answered("server", server.uptime),
   valid |-> TRUE,
   metrics |-> ReportedMetrics]

FlatIsReported == IsRead => FlatSample(sample).flat = Reported
=============================================================================
