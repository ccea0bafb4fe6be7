------------------------------ MODULE FtdcDelta ------------------------------
(***************************************************************************)
(* The encoder of src/delta.c: it turns the samples of the collector into  *)
(* snapshot, checkpoint, delta and restart records, and keeps the counters *)
(* of the last encoded sample so that the next record can be a delta.      *)
(*                                                                         *)
(* The handlers run on the server's only thread and a record is written as *)
(* part of the call that encodes it, so encoding and writing are one       *)
(* action here; a write that fails is modelled in FtdcWriter.  The history *)
(* variables reader and recorded stand for a reader that follows the       *)
(* current file.  Rotations here succeed; those that fail half-way are     *)
(* FtdcWriter's too.                                                       *)
(***************************************************************************)
EXTENDS Integers

CONSTANTS
  Metric,    \* counters metric_is_monotonic selects from a sample
  Value,     \* values a counter can show
  Identity,  \* what INFO server can show: run id, process id, uptime
  Time,      \* wall-clock readings a sample can carry
  Interval   \* values checkpoint-interval-ms is given; 0 or less is off

\* What INFO server shows: parse_flat_sample leaves run id "" and numbers 0
\* for a section the server did not report.
IdentityType ==
  [valid : {TRUE}, run_id : STRING, process_id : Int, uptime_in_seconds : Int]

ASSUME ConstantsAssumption ==
  /\ Value \subseteq Int
  /\ Time \subseteq Int
  /\ Interval \subseteq Int
  /\ Identity \subseteq IdentityType

VARIABLES
  delta_metrics,            \* config: format version 2
  checkpoint_interval_ms,   \* config
  need_checkpoint,          \* the next record must be a checkpoint
  last_checkpoint_time_ms,  \* ts_ms of the sample of the last checkpoint
  last_identity,            \* identity of the last encoded sample
  delta_state,              \* counters of the last encoded sample
  reader,                   \* history: what a reader of the file holds
  recorded                  \* history: sample behind the file's last record

configVars == <<delta_metrics, checkpoint_interval_ms>>
encoderVars ==
  <<need_checkpoint, last_checkpoint_time_ms, last_identity, delta_state>>
historyVars == <<reader, recorded>>
vars == <<configVars, encoderVars, historyVars>>
-----------------------------------------------------------------------------
(* Samples.  A replica that disconnects takes its offset metric with it,   *)
(* CONFIG RESETSTAT takes the counters back to zero: a sample may carry    *)
(* any subset of the metrics with any values.                              *)

CountersIn(V) == UNION {[D -> V] : D \in SUBSET Metric}

\* What parse_flat_sample keeps of a sample.
Sample == [ts_ms : Time, identity : Identity, metrics : CountersIn(Value)]

NoCounters == [m \in {} |-> 0]

NoIdentity == [valid |-> FALSE, run_id |-> "", process_id |-> 0,
               uptime_in_seconds |-> 0]

NoSample == [ts_ms |-> 0, identity |-> NoIdentity, metrics |-> NoCounters]

Only(c, D) == [m \in DOMAIN c \cap D |-> c[m]]

TypeOK ==
  /\ delta_metrics \in BOOLEAN
  /\ checkpoint_interval_ms \in Interval
  /\ need_checkpoint \in BOOLEAN
  /\ last_checkpoint_time_ms \in Int
  /\ last_identity \in Identity \cup {NoIdentity}
  /\ delta_state \in CountersIn(Value)
  /\ DOMAIN reader.counters \subseteq Metric
  /\ reader \in [kind : {"none", "snapshot", "checkpoint", "delta"},
                 counters : [DOMAIN reader.counters -> Int],
                 checkpoint_ts : Int]
  /\ recorded \in Sample \cup {NoSample}
-----------------------------------------------------------------------------
(* The reader.                                                             *)

\* checkpoint_ts is the time of the last absolute record.
FreshReader == [kind |-> "none", counters |-> NoCounters, checkpoint_ts |-> 0]

\* Deltas are added to what the reader holds; a metric without an entry in
\* the record keeps its value.
Advance(c, deltas) ==
  [m \in DOMAIN c |-> IF m \in DOMAIN deltas THEN c[m] + deltas[m] ELSE c[m]]

ReadAbsolute(kind, s) ==
  /\ reader' = [kind |-> kind, counters |-> s.metrics, checkpoint_ts |-> s.ts_ms]
  /\ recorded' = s

ReadDelta(deltas, s) ==
  /\ reader' = [reader EXCEPT !.kind = "delta",
                              !.counters = Advance(@, deltas)]
  /\ recorded' = s

LeaveFile ==
  /\ reader' = FreshReader
  /\ UNCHANGED recorded
-----------------------------------------------------------------------------
(* The encoder.                                                            *)

\* discontinuity_reason: does s begin another segment?  What the encoder knows dies
\* with its process, so this is about one process lifetime: an uptime that went
\* down with the wall clock, or an INFO server that was refused once.
SegmentBoundary(prev, s) ==
  /\ prev.valid
  /\ \/ prev.run_id # s.identity.run_id
     \/ prev.process_id # s.identity.process_id
     \/ s.identity.uptime_in_seconds < prev.uptime_in_seconds

CheckpointDueMutant(s) ==  \* off by one
  /\ checkpoint_interval_ms > 0
  /\ s.ts_ms - last_checkpoint_time_ms > checkpoint_interval_ms

CheckpointDue(s) ==
  /\ checkpoint_interval_ms > 0
  /\ s.ts_ms - last_checkpoint_time_ms >= checkpoint_interval_ms

\* A counter the encoder holds no value for, or one that went down.
NotMonotonic(s) ==
  \E m \in DOMAIN s.metrics :
    ~(m \in DOMAIN delta_state /\ s.metrics[m] >= delta_state[m])

CheckpointAnyway(s) ==
  need_checkpoint \/ ~last_identity.valid \/ CheckpointDue(s)

\* has_event: a restart record goes before the checkpoint, a line of FtdcWriter.  A
\* boundary at a sample that is to be a checkpoint anyway is not looked for.
HasEvent(s) == ~CheckpointAnyway(s) /\ SegmentBoundary(last_identity, s)

ForceCheckpointMutant(s) == CheckpointAnyway(s) \/ NotMonotonic(s)
ForceCheckpoint(s) == CheckpointAnyway(s) \/ HasEvent(s) \/ NotMonotonic(s)

\* build_delta_json: unchanged counters are left out of the record.
DeltasMutant(s) ==  \* the operands swapped
  [m \in {n \in DOMAIN s.metrics : s.metrics[n] # delta_state[n]} |->
     delta_state[m] - s.metrics[m]]

Deltas(s) ==
  [m \in {n \in DOMAIN s.metrics : s.metrics[n] # delta_state[n]} |->
     s.metrics[m] - delta_state[m]]

\* delta_state_replace stops without a word when it cannot grow the table:
\* kept are the metrics that made it.
DeltaStateReplace(s, kept) == delta_state' = Only(s.metrics, kept)

\* ftdc_delta_reset_segment
ResetSegment ==
  /\ need_checkpoint' = TRUE
  /\ last_identity' = NoIdentity
  /\ delta_state' = NoCounters
  /\ UNCHANGED last_checkpoint_time_ms

\* ftdc_delta_encode_sample, then the record is appended to the file.
WriteSnapshot(s) ==
  /\ ~delta_metrics
  /\ ReadAbsolute("snapshot", s)
  /\ UNCHANGED <<configVars, encoderVars>>

WriteEncoded(s, kept) ==
  /\ delta_metrics
  /\ IF ForceCheckpoint(s)
       THEN /\ need_checkpoint' = FALSE
            /\ last_checkpoint_time_ms' = s.ts_ms
            /\ ReadAbsolute("checkpoint", s)
       ELSE /\ ReadDelta(Deltas(s), s)
            /\ UNCHANGED <<need_checkpoint, last_checkpoint_time_ms>>
  /\ DeltaStateReplace(s, kept)
  /\ last_identity' = s.identity
  /\ UNCHANGED configVars

SetDeltaMetricsMutant(b) ==  \* no reset
  /\ delta_metrics' = b
  /\ UNCHANGED <<checkpoint_interval_ms, encoderVars, historyVars>>

\* FTDC.CONFIG SET delta-metrics: the file stays open.
SetDeltaMetrics(b) ==
  /\ delta_metrics' = b
  /\ ResetSegment
  /\ UNCHANGED <<checkpoint_interval_ms, historyVars>>

SetCheckpointIntervalMutant(i) ==  \* seconds taken for milliseconds
  /\ checkpoint_interval_ms' = i * 1000
  /\ UNCHANGED <<delta_metrics, encoderVars, historyVars>>

\* FTDC.CONFIG SET checkpoint-interval-ms
SetCheckpointInterval(i) ==
  /\ checkpoint_interval_ms' = i
  /\ UNCHANGED <<delta_metrics, encoderVars, historyVars>>

RotateMutant ==  \* nothing marked
  /\ LeaveFile
  /\ UNCHANGED <<configVars, encoderVars>>

\* A rotation: ftdc_writer_rotate marks the first record of the new file.
Rotate ==
  /\ need_checkpoint' = TRUE
  /\ LeaveFile
  /\ UNCHANGED <<configVars, last_checkpoint_time_ms, last_identity, delta_state>>

\* FTDC.CONFIG SET path: the old file is closed, whether or not the rotation
\* that follows succeeds.
SetPath ==
  /\ ResetSegment
  /\ LeaveFile
  /\ UNCHANGED configVars

\* The server process ends; the module is loaded again with any settings.
Restart ==
  /\ delta_metrics' \in BOOLEAN
  /\ checkpoint_interval_ms' \in Interval
  /\ need_checkpoint' = TRUE
  /\ last_checkpoint_time_ms' = 0
  /\ last_identity' = NoIdentity
  /\ delta_state' = NoCounters
  /\ LeaveFile

Init ==
  /\ delta_metrics \in BOOLEAN
  /\ checkpoint_interval_ms \in Interval
  /\ need_checkpoint = TRUE
  /\ last_checkpoint_time_ms = 0
  /\ last_identity = NoIdentity
  /\ delta_state = NoCounters
  /\ reader = FreshReader
  /\ recorded = NoSample

Next ==
  \/ \E s \in Sample :
       \/ WriteSnapshot(s)
       \/ \E kept \in SUBSET DOMAIN s.metrics : WriteEncoded(s, kept)
  \/ \E b \in BOOLEAN : SetDeltaMetrics(b)
  \/ \E i \in Interval : SetCheckpointInterval(i)
  \/ Rotate
  \/ SetPath
  \/ Restart

Spec == Init /\ [][Next]_vars
-----------------------------------------------------------------------------
(* Properties.                                                             *)

\* A reader that has met a record holds, for every counter of the sample
\* behind the last one, exactly the value the server reported.  This is what
\* checkpoint-on-decrease, checkpoint-on-new-metric and the resets of
\* CONFIG SET are for (src/delta.c:626-665, src/ftdc.c:332-335).
ReaderInSync ==
  reader.kind # "none" =>
    \A m \in DOMAIN recorded.metrics :
      m \in DOMAIN reader.counters /\ reader.counters[m] = recorded.metrics[m]

\* When the next record may be a delta, what the encoder holds is what the
\* last record of the open file says: the identity, the checkpoint the file
\* rests on, and each counter value a delta would start from.  Every path that
\* opens, leaves or reformats a file has to see to it (src/writer.c:34,
\* src/ftdc.c:302, src/ftdc.c:335).
BaseIsRecorded ==
  ~need_checkpoint =>
    /\ delta_metrics
    /\ reader.kind # "none"
    /\ last_identity = recorded.identity
    /\ last_checkpoint_time_ms = reader.checkpoint_ts
    /\ \A m \in DOMAIN delta_state :
         m \in DOMAIN recorded.metrics /\ delta_state[m] = recorded.metrics[m]

\* A delta record is never computed across a segment boundary: the record before
\* it, in the same file, is of the same run id, process id and no later uptime
\* (src/delta.c:553-567, 631-641).
DeltaWithinSegment ==
  [][reader'.kind = "delta" =>
       /\ reader.kind # "none"
       /\ ~SegmentBoundary(recorded.identity, recorded')]_historyVars

\* Once a checkpoint of the file is checkpoint-interval-ms old, the next
\* record is not a delta, whatever was written, reset or reconfigured since
\* (src/delta.c:627-630).
DeltaWithinInterval ==
  [][(reader'.kind = "delta" /\ checkpoint_interval_ms > 0) =>
       recorded'.ts_ms - reader'.checkpoint_ts < checkpoint_interval_ms]_recorded

\* The reader's view, cut to the counters the last sample carried: a counter
\* that vanished from INFO stays in the reader's hands until the next
\* checkpoint, delta records have no way to say that it is gone.
View ==
  IF reader.kind = "none"
  THEN [known |-> FALSE, counters |-> NoCounters]
  ELSE [known |-> TRUE, counters |-> Only(reader.counters, DOMAIN recorded.metrics)]

Log == INSTANCE SnapshotLog WITH
         Sample <- Sample,
         NoView <- [known |-> FALSE, counters |-> NoCounters],
         CountersOf <- LAMBDA s : [known |-> TRUE, counters |-> s.metrics],
         collected <- recorded,
         view <- View

\* Checkpoints and deltas tell a reader exactly what raw snapshots would have
\* told it about the selected counters: the encoder implements SnapshotLog.
ImplementsSnapshotLog == Log!Spec
=============================================================================
