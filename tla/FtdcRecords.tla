----------------------------- MODULE FtdcRecords -----------------------------
(***************************************************************************)
(* The lines the encoder of src/delta.c writes: a checkpoint is the text   *)
(* of the sample with a member put before the others, a delta and a        *)
(* restart are printed from what the scan kept of samples, without         *)
(* escapes.  Which of them is written when is FtdcDelta's subject; here it *)
(* is a choice among those the code may make.                              *)
(*                                                                         *)
(* Counters have one digit.                                                *)
(***************************************************************************)
EXTENDS JsonText, FtdcScanner

CONSTANTS
  RunId,     \* texts INFO shows as run_id
  Role,      \* as role
  Process,   \* digits INFO shows as process_id
  Counter,   \* digits its counters show
  Now        \* digits the clock shows

ASSUME RecordsAssumption == Process \cup Counter \cup Now \subseteq Figure

VARIABLES
  latest,   \* what the scan kept of the sample that was encoded last
  earlier,  \* what it kept of the one before
  record,   \* the line of the last sample
  event     \* the restart line before it, <<>> if there is none

recordVars == <<latest, earlier, record, event>>

Kind(name) == <<"sample_kind", JsonString(<<name>>)>>
Plain(t) == <<"\"">> \o t \o <<"\"">>
Shown(number) == IF number = <<>> THEN <<"0">> ELSE number

DigitValue == [d \in Figure |-> CHOOSE n \in 0..9 : ToString(n) = d]
Minus(a, b) == DigitValue[a[1]] - DigitValue[b[1]]

\* build_checkpoint_json
Checkpoint(text) ==
  <<"{">> \o JsonString(<<"sample_kind">>) \o <<":">>
  \o JsonString(<<"checkpoint">>) \o <<",">> \o Tail(text)

\* build_restart_json
Restart(f, reason) ==
  Object(<<Kind("restart"), <<"ts_ms", Shown(f.ts_ms)>>,
           <<"process_id", Shown(f.process_id)>>, <<"run_id", Plain(f.run_id)>>,
           <<"role", Plain(f.role)>>, <<"reason", Plain(<<reason>>)>> >>)

ChangedMutant(f, p) == DOMAIN f.metrics \ DOMAIN p.metrics   \* only new ones

Changed(f, p) == {m \in DOMAIN f.metrics : f.metrics[m] # p.metrics[m]}

\* build_delta_json
Delta(f, p) ==
  LET paths == SetToSeq(Changed(f, p))
      Pair(m) == Plain(m) \o <<":", ToString(Minus(f.metrics[m], p.metrics[m]))>>
  IN  Object(<<Kind("delta"), <<"ts_ms", Shown(f.ts_ms)>>,
               <<"deltas", Enclosed("{", [i \in DOMAIN paths |-> Pair(paths[i])], "}")>> >>)

\* Neither new nor lowered.
MayBeDelta(f, p) ==
  \A m \in DOMAIN f.metrics :
    m \in DOMAIN p.metrics /\ Minus(f.metrics[m], p.metrics[m]) >= 0

\* discontinuity_reason, but for the uptime
Reason(f, p) ==
  IF f.run_id # p.run_id THEN "run_id_changed" ELSE "process_id_changed"
-----------------------------------------------------------------------------
(* Samples, in the layout of FtdcCollector.  A section the server refused  *)
(* is empty.                                                               *)

SampleText(now, identity, counters, replicas) ==
  Object(<< <<"ts_ms", <<now>>>>,
            <<"valkey", Object(<< <<"info",
                Object(<< <<"server", Object(identity)>>, <<"stats", Object(counters)>>,
                          <<"replication", Object(replicas)>> >>)>> >>)>> >>)

ServerSections ==
  {<<>>} \cup {<< <<"run_id", JsonString(r)>>, <<"process_id", <<p>>>> >> :
                 r \in RunId, p \in Process}
StatsSections ==
  {<<>>} \cup {<< <<"keyspace_hits", <<c>>>> >> : c \in Counter}
ReplicationSections ==
  {<<>>} \cup {<< <<"role", JsonString(r)>>,
                  <<"slave0", Object(<< <<"offset", <<c>>>> >>)>> >> :
                 r \in Role, c \in Counter}

Samples ==
  {SampleText(now, identity, counters, replicas) :
     now \in Now, identity \in ServerSections, counters \in StatsSections,
     replicas \in ReplicationSections}

\* parse_flat_sample
Flat == [text \in Samples |-> FlatSample(text).flat]

Encode(text) ==
  \E f \in {Flat[text]} :
    /\ latest' = f
    /\ earlier' = latest
    /\ \/ record' = Checkpoint(text) /\ event' = <<>>
       \/ /\ latest.valid
          /\ f.run_id # latest.run_id \/ f.process_id # latest.process_id
          /\ record' = Checkpoint(text)
          /\ event' = Restart(f, Reason(f, latest))
       \/ /\ latest.valid /\ MayBeDelta(f, latest)
          /\ f.run_id = latest.run_id /\ f.process_id = latest.process_id
          /\ record' = Delta(f, latest)
          /\ event' = <<>>

RecordsInit ==
  /\ latest = EmptyFlat /\ earlier = EmptyFlat
  /\ record = <<>> /\ event = <<>>
-----------------------------------------------------------------------------
(* Properties.                                                             *)

IsJsonLine(line) ==
  /\ SkipValue(line, 1) = Len(line) + 1
  /\ "\n" \notin Range(line)

\* Every line the encoder hands over is one JSON value and one line
\* (README.md:91), for samples with and without each section, though nothing
\* is escaped when deltas and restarts are printed (src/delta.c:515-551).
RecordsAreJson ==
  /\ record # <<>> => IsJsonLine(record)
  /\ event # <<>> => IsJsonLine(event)

IsKind(line, name) == At(line, 7) = name

\* A checkpoint is a full sample (README.md:99): whoever scans it as the
\* encoder scans samples finds what is in the sample, no more and no less.
CheckpointReadsAsSample ==
  IsKind(record, "checkpoint") => FlatSample(record).flat = latest

RECURSIVE ReadDeltas(_, _)
ReadDeltas(s, p) ==
  LET key == ParseString(s, p, 0)
      end == StrtollEnd(s, key.end + 1)
  IN  IF key.end = Failed THEN [m \in {} |-> <<>>]
      ELSE [m \in {key.str} |-> SubSeq(s, key.end + 1, end - 1)]
           @@ (IF At(s, end) = "," THEN ReadDeltas(s, end + 1)
               ELSE [m \in {} |-> <<>>])

\* Where the list of deltas starts in the line.
DeltasAt(line) == (CHOOSE i \in DOMAIN line : line[i] = "deltas") + 4

\* A delta record can be undone from its text: its entries, under the paths a
\* reader of a checkpoint would give the counters, are what the counters went
\* up by, and those without an entry are where they were.
DeltasAddUp ==
  IsKind(record, "delta") =>
    LET deltas == ReadDeltas(record, DeltasAt(record))
    IN  /\ DOMAIN deltas \subseteq DOMAIN latest.metrics
        /\ \A m \in DOMAIN latest.metrics :
             IF m \in DOMAIN deltas
             THEN DigitValue[earlier.metrics[m][1]] + DigitValue[deltas[m][1]]
                    = DigitValue[latest.metrics[m][1]]
             ELSE latest.metrics[m] = earlier.metrics[m]

\* From checkpoints and deltas a reader gets the counters of the samples.
RecordsReadBack == CheckpointReadsAsSample /\ DeltasAddUp
=============================================================================
