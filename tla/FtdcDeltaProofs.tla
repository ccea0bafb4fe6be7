--------------------------- MODULE FtdcDeltaProofs ---------------------------
(***************************************************************************)
(* Proofs about the encoder of FtdcDelta, for every set of metrics,        *)
(* values, identities, clock readings and checkpoint intervals.            *)
(*                                                                         *)
(* ReaderInSync is not inductive: a delta is only as good as the value the *)
(* encoder subtracts from.  BaseIsRecorded says where that value comes     *)
(* from; the two together, with types, are inductive.                      *)
(***************************************************************************)
EXTENDS FtdcDelta, TLAPS

Inv == TypeOK /\ BaseIsRecorded /\ ReaderInSync
-----------------------------------------------------------------------------
(* Lemmas about the functions that hold counters.                          *)

\* Membership in CountersIn, without its UNION.
LEMMA CountersInDef ==
  ASSUME NEW V, NEW c
  PROVE  c \in CountersIn(V) <=> DOMAIN c \subseteq Metric /\ c \in [DOMAIN c -> V]
  BY DEF CountersIn

LEMMA NoCountersType == ASSUME NEW V PROVE NoCounters \in CountersIn(V)
  BY CountersInDef DEF NoCounters

\* delta_state_replace keeps counters, whatever subset of them it keeps.
LEMMA OnlyType ==
  ASSUME NEW V, NEW c \in CountersIn(V), NEW D
  PROVE  /\ Only(c, D) \in CountersIn(V)
         /\ DOMAIN Only(c, D) = DOMAIN c \cap D
         /\ \A m \in DOMAIN Only(c, D) : m \in DOMAIN c /\ Only(c, D)[m] = c[m]
<1>1. DOMAIN c \subseteq Metric /\ c \in [DOMAIN c -> V]
  BY CountersInDef
<1>2. /\ DOMAIN Only(c, D) = DOMAIN c \cap D
      /\ \A m \in DOMAIN Only(c, D) : m \in DOMAIN c /\ Only(c, D)[m] = c[m]
  BY DEF Only
<1>3. Only(c, D) \in [DOMAIN Only(c, D) -> V]
  BY <1>1, <1>2 DEF Only
<1>. QED BY <1>1, <1>2, <1>3, CountersInDef

\* What a sample is made of.
LEMMA SampleType ==
  ASSUME NEW s \in Sample
  PROVE  /\ s.ts_ms \in Int
         /\ s.identity \in Identity
         /\ s.identity.valid
         /\ s.metrics \in CountersIn(Value)
         /\ s.metrics \in CountersIn(Int)
<1>1. s.ts_ms \in Time /\ s.identity \in Identity /\ s.metrics \in CountersIn(Value)
  BY DEF Sample
<1>2. s.metrics \in CountersIn(Int)
  BY <1>1, CountersInDef, ConstantsAssumption
<1>. QED BY <1>1, <1>2, ConstantsAssumption DEF IdentityType

\* Applying the deltas between two samples to a view that has the values of
\* the first gives the values of the second.
LEMMA AdvanceReaches ==
  ASSUME NEW s \in Sample, NEW c \in CountersIn(Int),
         delta_state \in CountersIn(Value), ~NotMonotonic(s),
         \A m \in DOMAIN delta_state : m \in DOMAIN c /\ c[m] = delta_state[m]
  PROVE  /\ Advance(c, Deltas(s)) \in CountersIn(Int)
         /\ \A m \in DOMAIN s.metrics :
              /\ m \in DOMAIN Advance(c, Deltas(s))
              /\ Advance(c, Deltas(s))[m] = s.metrics[m]
<1>1. DOMAIN c \subseteq Metric /\ c \in [DOMAIN c -> Int]
  BY CountersInDef
<1>2. delta_state \in [DOMAIN delta_state -> Int]
  BY CountersInDef, ConstantsAssumption
<1>3. s.metrics \in [DOMAIN s.metrics -> Int]
  BY SampleType, CountersInDef
<1>4. \A m \in DOMAIN s.metrics : m \in DOMAIN delta_state
  BY DEF NotMonotonic
<1>5. /\ DOMAIN Deltas(s) = {m \in DOMAIN s.metrics : s.metrics[m] # delta_state[m]}
      /\ \A m \in DOMAIN Deltas(s) : Deltas(s)[m] = s.metrics[m] - delta_state[m]
  BY DEF Deltas
<1>6. \A m \in DOMAIN Deltas(s) : Deltas(s)[m] \in Int
  BY <1>2, <1>3, <1>4, <1>5
<1>7. /\ DOMAIN Advance(c, Deltas(s)) = DOMAIN c
      /\ \A m \in DOMAIN c :
           Advance(c, Deltas(s))[m] =
             IF m \in DOMAIN Deltas(s) THEN c[m] + Deltas(s)[m] ELSE c[m]
  BY DEF Advance
<1>8. Advance(c, Deltas(s)) \in [DOMAIN c -> Int]
  <2>1. \A m \in DOMAIN c :
          (IF m \in DOMAIN Deltas(s) THEN c[m] + Deltas(s)[m] ELSE c[m]) \in Int
    BY <1>1, <1>6
  <2>. QED BY <2>1 DEF Advance
<1>9. ASSUME NEW m \in DOMAIN s.metrics
      PROVE  m \in DOMAIN c /\ Advance(c, Deltas(s))[m] = s.metrics[m]
  <2>1. m \in DOMAIN c /\ c[m] = delta_state[m]
    BY <1>4
  <2>2. s.metrics[m] \in Int /\ delta_state[m] \in Int
    BY <1>2, <1>3, <1>4
  <2>3. CASE m \in DOMAIN Deltas(s)
    <3>1. Advance(c, Deltas(s))[m] = delta_state[m] + (s.metrics[m] - delta_state[m])
      BY <1>5, <1>7, <2>1, <2>3
    <3>. QED BY <2>1, <2>2, <3>1
  <2>4. CASE m \notin DOMAIN Deltas(s)
    BY <1>5, <1>7, <2>1, <2>4
  <2>. QED BY <2>3, <2>4
<1>. QED BY <1>1, <1>7, <1>8, <1>9, CountersInDef
-----------------------------------------------------------------------------
(* The two records the encoder can produce, and their effect on Inv.       *)

\* A snapshot or a checkpoint gives the reader the sample itself.
LEMMA AbsoluteInSync ==
  ASSUME NEW s \in Sample, NEW kind \in {"snapshot", "checkpoint"},
         ReadAbsolute(kind, s)
  PROVE  /\ DOMAIN reader'.counters \subseteq Metric
         /\ reader' \in [kind : {"none", "snapshot", "checkpoint", "delta"},
                         counters : [DOMAIN reader'.counters -> Int],
                         checkpoint_ts : Int]
         /\ recorded' \in Sample \cup {NoSample}
         /\ ReaderInSync'
<1>1. /\ reader' = [kind |-> kind, counters |-> s.metrics,
                    checkpoint_ts |-> s.ts_ms]
      /\ recorded' = s
  BY DEF ReadAbsolute
<1>2. DOMAIN s.metrics \subseteq Metric /\ s.metrics \in [DOMAIN s.metrics -> Int]
  BY SampleType, CountersInDef
<1>3. s.ts_ms \in Int
  BY SampleType
<1>. QED BY <1>1, <1>2, <1>3 DEF ReaderInSync

\* A record that is not forced to be a checkpoint may be a delta: the encoder
\* is in step with the file and no counter went down.
LEMMA DeltaInSync ==
  ASSUME Inv, NEW s \in Sample, ~ForceCheckpoint(s), ReadDelta(Deltas(s), s)
  PROVE  /\ DOMAIN reader'.counters \subseteq Metric
         /\ reader' \in [kind : {"none", "snapshot", "checkpoint", "delta"},
                         counters : [DOMAIN reader'.counters -> Int],
                         checkpoint_ts : Int]
         /\ recorded' \in Sample \cup {NoSample}
         /\ ReaderInSync'
<1>. DEFINE next == Advance(reader.counters, Deltas(s))
<1>1. ~need_checkpoint /\ ~NotMonotonic(s)
  BY DEF ForceCheckpoint, CheckpointAnyway
<1>2. /\ reader.counters \in CountersIn(Int)
      /\ reader.checkpoint_ts \in Int
      /\ delta_state \in CountersIn(Value)
  BY CountersInDef DEF Inv, TypeOK
<1>3. \A m \in DOMAIN delta_state :
        m \in DOMAIN reader.counters /\ reader.counters[m] = delta_state[m]
  BY <1>1 DEF Inv, BaseIsRecorded, ReaderInSync
<1>4. /\ next \in CountersIn(Int)
      /\ \A m \in DOMAIN s.metrics : m \in DOMAIN next /\ next[m] = s.metrics[m]
  BY <1>1, <1>2, <1>3, AdvanceReaches
<1>5. /\ reader' = [kind |-> "delta", counters |-> next,
                    checkpoint_ts |-> reader.checkpoint_ts]
      /\ recorded' = s
  BY DEF ReadDelta, Inv, TypeOK
<1>6. DOMAIN next \subseteq Metric /\ next \in [DOMAIN next -> Int]
  BY <1>4, CountersInDef
<1>7. reader'.counters = next /\ reader'.kind = "delta"
      /\ reader'.checkpoint_ts = reader.checkpoint_ts
  BY <1>5
<1>8. ReaderInSync'
  BY <1>4, <1>5, <1>7 DEF ReaderInSync
<1>. HIDE DEF next
<1>. QED BY <1>2, <1>5, <1>6, <1>7, <1>8

LEMMA InitInv == Init => Inv
<1>. SUFFICES ASSUME Init PROVE Inv
  OBVIOUS
<1>1. NoCounters \in CountersIn(Value) /\ NoCounters \in [DOMAIN NoCounters -> Int]
      /\ DOMAIN NoCounters = {}
  BY NoCountersType DEF NoCounters
<1>2. TypeOK
  BY <1>1 DEF Init, TypeOK, FreshReader
<1>3. BaseIsRecorded /\ ReaderInSync
  BY DEF Init, BaseIsRecorded, ReaderInSync, FreshReader
<1>. QED BY <1>2, <1>3 DEF Inv

\* Leaving the file, with nothing but need_checkpoint certain about the
\* encoder, is always safe.
LEMMA LeaveFileInv ==
  ASSUME Inv, LeaveFile, need_checkpoint',
         delta_metrics' \in BOOLEAN, checkpoint_interval_ms' \in Interval,
         need_checkpoint' \in BOOLEAN, last_checkpoint_time_ms' \in Int,
         last_identity' \in Identity \cup {NoIdentity},
         delta_state' \in CountersIn(Value)
  PROVE  Inv'
<1>1. NoCounters \in [DOMAIN NoCounters -> Int] /\ DOMAIN NoCounters = {}
  BY DEF NoCounters
<1>2. TypeOK'
  BY <1>1 DEF LeaveFile, FreshReader, Inv, TypeOK
<1>3. BaseIsRecorded' /\ ReaderInSync'
  BY DEF LeaveFile, FreshReader, BaseIsRecorded, ReaderInSync
<1>. QED BY <1>2, <1>3 DEF Inv

LEMMA NextInv == Inv /\ [Next]_vars => Inv'
<1>. SUFFICES ASSUME Inv, [Next]_vars PROVE Inv'
  OBVIOUS
<1>. USE DEF Inv
<1>1. ASSUME NEW s \in Sample, WriteSnapshot(s) PROVE Inv'
  <2>1. /\ ReadAbsolute("snapshot", s) /\ ~delta_metrics
        /\ UNCHANGED <<configVars, encoderVars>>
    BY <1>1 DEF WriteSnapshot
  <2>2. TypeOK'
    BY <2>1, AbsoluteInSync DEF TypeOK, configVars, encoderVars
  <2>3. BaseIsRecorded'
    BY <2>1 DEF BaseIsRecorded, configVars, encoderVars
  <2>. QED BY <2>1, <2>2, <2>3, AbsoluteInSync
<1>2. ASSUME NEW s \in Sample, NEW kept \in SUBSET DOMAIN s.metrics,
             WriteEncoded(s, kept)
      PROVE Inv'
  <2>1. /\ delta_metrics
        /\ delta_state' = Only(s.metrics, kept)
        /\ last_identity' = s.identity
        /\ UNCHANGED configVars
    BY <1>2 DEF WriteEncoded, DeltaStateReplace
  <2>2. /\ delta_state' \in CountersIn(Value)
        /\ \A m \in DOMAIN delta_state' :
             m \in DOMAIN s.metrics /\ delta_state'[m] = s.metrics[m]
    <3>1. s.metrics \in CountersIn(Value)
      BY SampleType
    <3>2. /\ Only(s.metrics, kept) \in CountersIn(Value)
          /\ \A m \in DOMAIN Only(s.metrics, kept) :
               m \in DOMAIN s.metrics /\ Only(s.metrics, kept)[m] = s.metrics[m]
      BY <3>1, OnlyType
    <3>. QED BY <2>1, <3>2
  <2>3. recorded' = s
    BY <1>2 DEF WriteEncoded, ReadAbsolute, ReadDelta
  <2>4. CASE ForceCheckpoint(s)
    <3>1. /\ need_checkpoint' = FALSE
          /\ last_checkpoint_time_ms' = s.ts_ms
          /\ ReadAbsolute("checkpoint", s)
      BY <1>2, <2>4 DEF WriteEncoded
    <3>2. TypeOK'
      BY <2>1, <2>2, <3>1, AbsoluteInSync, SampleType DEF TypeOK, configVars
    <3>3. BaseIsRecorded'
      BY <2>1, <2>2, <2>3, <3>1 DEF BaseIsRecorded, ReadAbsolute, configVars
    <3>. QED BY <3>1, <3>2, <3>3, AbsoluteInSync
  <2>5. CASE ~ForceCheckpoint(s)
    <3>1. /\ ~need_checkpoint
          /\ ReadDelta(Deltas(s), s)
          /\ UNCHANGED <<need_checkpoint, last_checkpoint_time_ms>>
      BY <1>2, <2>5 DEF WriteEncoded, ForceCheckpoint, CheckpointAnyway
    <3>2. TypeOK'
      BY <2>1, <2>2, <2>5, <3>1, DeltaInSync, SampleType DEF TypeOK, configVars
    <3>3. reader'.kind # "none" /\ reader'.checkpoint_ts = reader.checkpoint_ts
      BY <3>1 DEF ReadDelta, TypeOK
    <3>4. BaseIsRecorded'
      BY <2>1, <2>2, <2>3, <3>1, <3>3 DEF BaseIsRecorded, configVars
    <3>. QED BY <2>5, <3>1, <3>2, <3>4, DeltaInSync
  <2>. QED BY <2>4, <2>5
<1>3. ASSUME NEW b \in BOOLEAN, SetDeltaMetrics(b) PROVE Inv'
  <2>1. TypeOK'
    BY <1>3, NoCountersType
    DEF SetDeltaMetrics, ResetSegment, TypeOK, historyVars
  <2>2. BaseIsRecorded' /\ ReaderInSync'
    BY <1>3 DEF SetDeltaMetrics, ResetSegment, BaseIsRecorded, ReaderInSync, historyVars
  <2>. QED BY <2>1, <2>2
<1>4. ASSUME NEW i \in Interval, SetCheckpointInterval(i) PROVE Inv'
  BY <1>4 DEF SetCheckpointInterval, TypeOK, BaseIsRecorded, ReaderInSync,
              encoderVars, historyVars
<1>5. ASSUME Rotate PROVE Inv'
  BY <1>5, LeaveFileInv DEF Rotate, configVars, TypeOK
<1>6. ASSUME SetPath PROVE Inv'
  BY <1>6, LeaveFileInv, NoCountersType DEF SetPath, ResetSegment, configVars, TypeOK
<1>7. ASSUME Restart PROVE Inv'
  BY <1>7, LeaveFileInv, NoCountersType DEF Restart
<1>8. ASSUME UNCHANGED vars PROVE Inv'
  BY <1>8 DEF vars, configVars, encoderVars, historyVars,
              TypeOK, BaseIsRecorded, ReaderInSync
<1>. QED BY <1>1, <1>2, <1>3, <1>4, <1>5, <1>6, <1>7, <1>8 DEF Next

\* The encoder's invariants, whatever is sampled, configured or lost.
THEOREM InvHolds == Spec => []Inv
<1>1. Init => Inv
  BY InitInv
<1>2. Inv /\ [Next]_vars => Inv'
  BY NextInv
<1>. QED BY <1>1, <1>2, PTL DEF Spec

\* Every value the state ranges over, in every reachable state.
THEOREM TypeCorrect == Spec => []TypeOK
<1>1. Inv => TypeOK
  BY DEF Inv
<1>. QED BY <1>1, InvHolds, PTL

\* A delta is never computed from values the open file does not show.
THEOREM BaseAlwaysRecorded == Spec => []BaseIsRecorded
<1>1. Inv => BaseIsRecorded
  BY DEF Inv
<1>. QED BY <1>1, InvHolds, PTL

\* A reader of the current file holds every counter of the last sample.
THEOREM ReaderAlwaysInSync == Spec => []ReaderInSync
<1>1. Inv => ReaderInSync
  BY DEF Inv
<1>. QED BY <1>1, InvHolds, PTL
-----------------------------------------------------------------------------
(* Action properties and the refinement.                                   *)

\* A record that is a delta was written by WriteEncoded, with nothing forcing
\* a checkpoint.
LEMMA DeltaIsEncoded ==
  ASSUME [Next]_vars, reader'.kind = "delta", ~UNCHANGED historyVars
  PROVE  \E s \in Sample : /\ ~ForceCheckpoint(s)
                           /\ ReadDelta(Deltas(s), s)
<1>1. ~UNCHANGED vars
  BY DEF vars
<1>2. ASSUME NEW s \in Sample, WriteSnapshot(s) PROVE FALSE
  BY <1>2 DEF WriteSnapshot, ReadAbsolute
<1>3. ASSUME NEW s \in Sample, NEW kept \in SUBSET DOMAIN s.metrics,
             WriteEncoded(s, kept)
      PROVE  /\ ~ForceCheckpoint(s)
             /\ ReadDelta(Deltas(s), s)
  BY <1>3 DEF WriteEncoded, ReadAbsolute
<1>4. ASSUME LeaveFile PROVE FALSE
  BY <1>4 DEF LeaveFile, FreshReader
<1>5. ASSUME NEW b \in BOOLEAN, SetDeltaMetrics(b) PROVE FALSE
  BY <1>5 DEF SetDeltaMetrics
<1>6. ASSUME NEW i \in Interval, SetCheckpointInterval(i) PROVE FALSE
  BY <1>6 DEF SetCheckpointInterval
<1>. QED
  BY <1>1, <1>2, <1>3, <1>4, <1>5, <1>6 DEF Next, Rotate, SetPath, Restart

\* No delta is computed across a segment boundary (src/delta.c:553-567, 631-641).
THEOREM DeltasStayInSegment == Spec => DeltaWithinSegment
<1>1. ASSUME Inv, [Next]_vars
      PROVE  [reader'.kind = "delta" =>
                /\ reader.kind # "none"
                /\ ~SegmentBoundary(recorded.identity, recorded')]_historyVars
  <2>. SUFFICES ASSUME reader'.kind = "delta", ~UNCHANGED historyVars
                PROVE  /\ reader.kind # "none"
                       /\ ~SegmentBoundary(recorded.identity, recorded')
    OBVIOUS
  <2>1. PICK s \in Sample : ~ForceCheckpoint(s) /\ ReadDelta(Deltas(s), s)
    BY <1>1, DeltaIsEncoded
  <2>2. /\ ~need_checkpoint
        /\ ~SegmentBoundary(last_identity, s)
        /\ recorded' = s
    BY <1>1, <2>1
    DEF ForceCheckpoint, CheckpointAnyway, HasEvent, ReadDelta
  <2>3. reader.kind # "none" /\ last_identity = recorded.identity
    BY <1>1, <2>2 DEF Inv, BaseIsRecorded
  <2>. QED BY <2>2, <2>3
<1>. QED BY <1>1, InvHolds, PTL DEF Spec, DeltaWithinSegment

\* No delta rests on a checkpoint as old as the configured interval.
THEOREM DeltasStayInInterval == Spec => DeltaWithinInterval
<1>1. ASSUME Inv, [Next]_vars
      PROVE  [(reader'.kind = "delta" /\ checkpoint_interval_ms > 0) =>
                recorded'.ts_ms - reader'.checkpoint_ts
                  < checkpoint_interval_ms]_recorded
  <2>. SUFFICES ASSUME reader'.kind = "delta", checkpoint_interval_ms > 0,
                       ~UNCHANGED historyVars
                PROVE  recorded'.ts_ms - reader'.checkpoint_ts
                         < checkpoint_interval_ms
    BY DEF historyVars
  <2>1. PICK s \in Sample : ~ForceCheckpoint(s) /\ ReadDelta(Deltas(s), s)
    BY <1>1, DeltaIsEncoded
  <2>2. /\ ~need_checkpoint
        /\ ~(s.ts_ms - last_checkpoint_time_ms >= checkpoint_interval_ms)
        /\ recorded' = s
    BY <2>1 DEF ForceCheckpoint, CheckpointAnyway, CheckpointDue, ReadDelta
  <2>3. reader'.checkpoint_ts = last_checkpoint_time_ms
    BY <1>1, <2>1, <2>2 DEF Inv, BaseIsRecorded, ReadDelta, TypeOK
  <2>4. s.ts_ms \in Int /\ last_checkpoint_time_ms \in Int
        /\ checkpoint_interval_ms \in Int
    BY <1>1, SampleType, ConstantsAssumption DEF Inv, TypeOK
  <2>. QED BY <2>2, <2>3, <2>4
<1>. QED BY <1>1, InvHolds, PTL DEF Spec, DeltaWithinInterval

\* A view cut to the counters of the sample it is in step with is the sample.
LEMMA ViewIsSample ==
  ASSUME TypeOK', ReaderInSync', reader'.kind # "none", recorded' \in Sample
  PROVE  View' = [known |-> TRUE, counters |-> recorded'.metrics]
<1>. DEFINE c == reader'.counters
            d == recorded'.metrics
<1>1. DOMAIN d \subseteq Metric /\ d \in [DOMAIN d -> Value]
  BY SampleType, CountersInDef
<1>2. \A m \in DOMAIN d : m \in DOMAIN c /\ c[m] = d[m]
  BY DEF ReaderInSync
<1>3. Only(c, DOMAIN d) = [m \in DOMAIN d |-> c[m]]
  <2>1. DOMAIN c \cap DOMAIN d = DOMAIN d
    BY <1>2
  <2>. QED BY <2>1 DEF Only
<1>4. [m \in DOMAIN d |-> c[m]] = d
  BY <1>1, <1>2
<1>. QED BY <1>3, <1>4 DEF View

\* Checkpoints, deltas and restarts keep the promise of raw snapshots: every
\* step of the encoder is a step of SnapshotLog, or changes nothing there.
THEOREM EncoderImplementsSnapshotLog == Spec => ImplementsSnapshotLog
<1>1. Init => Log!Init
  BY DEF Init, Log!Init, View, FreshReader
<1>2. ASSUME Inv, [Next]_vars, Inv' PROVE [Log!Next]_(Log!vars)
  <2>1. CASE UNCHANGED historyVars
    BY <2>1 DEF historyVars, Log!vars, View
  <2>2. ASSUME NEW s \in Sample, recorded' = s, reader'.kind # "none"
        PROVE  Log!Next
    <3>1. View' = [known |-> TRUE, counters |-> s.metrics]
      BY <1>2, <2>2, ViewIsSample DEF Inv
    <3>2. Log!Record(s)
      BY <2>2, <3>1 DEF Log!Record
    <3>. QED BY <3>2 DEF Log!Next
  <2>3. ASSUME LeaveFile PROVE Log!Next
    BY <2>3 DEF LeaveFile, FreshReader, View, Log!Next, Log!NewFile
  <2>4. ASSUME NEW s \in Sample, WriteSnapshot(s) PROVE Log!Next
    <3>1. recorded' = s /\ reader'.kind # "none"
      BY <2>4 DEF WriteSnapshot, ReadAbsolute
    <3>. QED BY <2>2, <3>1
  <2>5. ASSUME NEW s \in Sample, NEW kept \in SUBSET DOMAIN s.metrics,
               WriteEncoded(s, kept)
        PROVE  Log!Next
    <3>1. recorded' = s /\ reader'.kind # "none"
      <4>1. CASE ForceCheckpoint(s)
        BY <2>5, <4>1 DEF WriteEncoded, ReadAbsolute
      <4>2. CASE ~ForceCheckpoint(s)
        <5>1. ReadDelta(Deltas(s), s)
          BY <2>5, <4>2 DEF WriteEncoded
        <5>2. reader'.kind = "delta" /\ recorded' = s
          BY <1>2, <5>1 DEF ReadDelta, Inv, TypeOK
        <5>. QED BY <5>2
      <4>. QED BY <4>1, <4>2
    <3>. QED BY <2>2, <3>1
  <2>. QED
    BY <1>2, <2>1, <2>3, <2>4, <2>5
    DEF Next, Rotate, SetPath, Restart, SetDeltaMetrics, SetCheckpointInterval, vars
<1>. QED BY <1>1, <1>2, InvHolds, PTL DEF Spec, ImplementsSnapshotLog, Log!Spec
=============================================================================
