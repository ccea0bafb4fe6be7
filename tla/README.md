# Verification of valkey-ftdc

`valkey-ftdc` is a Valkey module that samples a server's metrics on a timer and
appends them to files under a directory, in the manner of full-time diagnostic
data capture. This directory holds TLA+ modules of its core, the TLC
configurations that check them, and proofs checked by TLAPS.

Paths below are relative to the repository (`src/delta.c` is the module's C
code); `tla/PROJECT.json` maps every definition to the lines it stands for.

- [Inventory](#inventory)
- [Plan](#plan)
- [Modules and the code](#modules-and-the-code)
- [Runs](#runs)
- [Findings](#findings)
- [Proofs](#proofs)
- [Not modelled](#not-modelled)

## Inventory

Everything runs on the server's only thread: command handlers, the timer
callback, and module load. The one state object is `g_ftdc` (`src/ftdc.c:15`,
`FtdcState` in `src/ftdc.h`). There are no threads and no callbacks within an
append. What is concurrent is the rest of the world: the clock, which moves
between two reads in one call; other users of the directory; and the death of
the process between two system calls.

### Timer and lifecycle (`src/ftdc.c`)

- State: `config.enabled`, `config.interval_ms`, `timer_active`, `timer_id`; in
  the server, the timers that have not fired.
- Operations: load, the callback, `FTDC.CONFIG SET enabled` and `interval-ms`.
- Interactions: the callback calls the collector, then the writer, then arms the
  next timer. Nothing else keeps sampling going.
- Hard: three places arm the timer and a flag says whether one exists.
- Correct when there is exactly one timer while sampling is enabled and none
  otherwise, when a change of the interval takes effect at once, and when
  sampling goes on for ever.

### Commands and configuration (`src/ftdc.c`)

- State: `FtdcConfig`.
- Operations: `FTDC.STATUS`, `FTDC.SAMPLE` (collects and replies, never writes),
  `FTDC.FLUSH`, `FTDC.ROTATE`, `FTDC.CONFIG GET|SET`, load arguments.
- Interactions: `SET path` resets the encoder and rotates, and replies `OK`
  whatever the rotation returns; `SET delta-metrics` resets the encoder and
  leaves the file open; the other keys take effect at the next sample.
- Hard: sequences of legal settings, each of which has to leave timer, encoder
  and file consistent.

### Writer (`src/writer.c`)

- State: `fp`, `current_file`, `current_file_bytes`, `current_file_opened_ms`,
  the counters of `FTDC.STATUS`, `last_error`.
- Operations: append, rotate, close, flush.
- Interactions: an append asks rotation whether to rotate, has the sample
  encoded, asks again in snapshot mode, writes one or two lines, flushes, and
  enforces retention.
- Hard: each of these steps may fail after the earlier ones have had their
  effect; the limits are looked at twice with the clock in between; the process
  may die anywhere.
- Correct when the handle, the name and the directory agree, when what is
  counted is in the file, when a lost file is reported, and when a file can be
  decoded from its start.

### Rotation and retention (`src/rotation.c`)

- State: the directory; the name and the opening time of the current file.
- Operations: `should_rotate`, `open_next_file`, `enforce_retention`.
- Hard: names have the resolution of a second and files are opened for
  appending; files change between the scan of the directory and the removals;
  the trimming account is kept in a variable, not in the directory.
- Correct when the limits hold, when only the oldest files go and no more of
  them than needed, and when the file being written stays.

### Delta encoder (`src/delta.c`)

- State: `need_checkpoint`, `last_checkpoint_time_ms`, `last_identity`,
  `delta_state`.
- Operations: encode a sample, reset a segment, mark a checkpoint.
- Interactions: called by the writer; reset by `CONFIG SET`; marked by rotation.
- Hard: a delta is only as good as the reader's copy of the values it was
  computed from, and three components can invalidate that copy. Counters go
  down (`CONFIG RESETSTAT`), vanish and come back (a replica's offset), or belong
  to another segment (the uptime went down, `INFO server` was refused once).
- Correct when a reader of checkpoints and deltas knows what a reader of raw
  snapshots would.

### Collector and host statistics (`src/collector.c`, `src/hoststats_*.c`, `src/redact.c`)

- State: none that outlives a call; a growing buffer within it.
- Operations: turn the replies of `INFO`, `LATENCY` and `SLOWLOG`, and `/proc`,
  into one JSON object.
- Interactions: the encoder's scanner reads what the collector prints; the host
  section goes on in the collector's buffer, with buffer code of its own.
- Hard: what the collector escapes, cuts and takes for a number, the scanner must
  read; sections the server refuses; arguments that are not to be recorded;
  three implementations of one buffer.
- Correct when every sample is one the encoder accepts, when what the encoder
  finds is what the server said, when redacted arguments stay out, and when
  nothing is written past a buffer.

### Metadata and sidecar (`src/rotation.c`)

- State: none; two texts about a new file.
- Operations: the metadata line with the server's whole `CONFIG GET`, in either
  protocol; the sidecar with the file's name.
- Correct when both are JSON and the configuration can be read back.

The vendored `include/valkeymodule.h`, the Makefile and the integration tests
carry no logic of the module; timers of the module API are modelled as external.

## Plan

In the order of importance.

| Module | Subject | State |
|---|---|---|
| `FtdcDelta`, abstract `SnapshotLog` | encoder against a reader of the file | checked, proved |
| `FtdcWriter`, abstract `FtdcStatus` | append, rotation, faults, crashes | checked, proved |
| `FtdcTimer` | the sampling timer | checked, proved |
| `FtdcRetention` | trimming the directory | checked, proved |
| `Ftdc` | settings, commands, timer and status together | checked, proved |
| `FtdcDirectory` | the directory over the life of the module, with sidecars | checked, proved |
| `FtdcBuffer` | three implementations of the growing buffer | checked, proved |
| `JsonText`, `FtdcInfoText`, `FtdcHostStats`, `FtdcCollector` | what the collector prints | checked, proved |
| `FtdcScanner`, `FtdcSampleScan`, `FtdcInfoValues`, `FtdcRecords`, `FtdcMetadata` | what is read back of it | checked |
| `FtdcTexts` | the texts and their buffers in one specification | checked |

Proofs are in modules of their own, named after what they are about; they cover every
safety property but those of what the scanner reads back (see [Proofs](#proofs)).

How they compose:

- `FtdcWriter` uses `FtdcRetention` by its promise (any outcome that spares the
  current file) and `FtdcDelta` by its choices (checkpoint, restart with
  checkpoint, or delta). It is shown to implement `FtdcStatus`.
- `Ftdc` extends `FtdcTimer` and instantiates `FtdcStatus` for the write path:
  what it says of recovery rests on the refinement above.
- `FtdcDirectory` extends `FtdcRetention` with rotations and appends.
- `FtdcCollector` prints with `JsonText`, `FtdcInfoText` and `FtdcHostStats`;
  `FtdcSampleScan` reads its sample back with `FtdcScanner`. `FtdcRecords` and
  `FtdcMetadata` do both for records and for the texts of a new file. `FtdcTexts`
  puts them and `FtdcBuffer` side by side, one subject per behaviour: what they share
  is how things are printed and scanned, not state. The printing modules do not reach
  the scanner, which is recursive, so that they can be proved about.

Abstract specifications: `SnapshotLog` (a reader knows the counters of the last
sample), `FtdcStatus` (what `FTDC.STATUS` shows), and, as an operator,
`MustGo` of `FtdcRetention` (the files that are to go, stated without a loop).

## Modules and the code

### `SnapshotLog` and `FtdcDelta`

`SnapshotLog` is the promise: after each record, a reader holds the counters of
the sample behind it.

`FtdcDelta` is the encoder. Its variables have the names of `FtdcConfig` and
`FtdcState`. A sample is what `parse_flat_sample` keeps: a time, an identity
(run id, process id, uptime), and any subset of the metrics that
`metric_is_monotonic` selects. `SegmentBoundary` is `discontinuity_reason`;
`CheckpointDue`, `CheckpointAnyway`, `HasEvent`, `NotMonotonic` and
`ForceCheckpoint` are the conditions of `ftdc_delta_encode_sample` in their order:
a boundary is looked for only if no checkpoint is due anyway, so a restart record
is missing at some boundaries by design. `Deltas` is `build_delta_json`.

The encoder's state dies with the process, whose successor starts with a plain
checkpoint: a boundary is always one within the lifetime of a process, as the
module's own `README.md:101` has it. The restart record itself is a line of
`FtdcWriter`, and `RestartWithinLife` says there between which records it stands.

`WriteSnapshot` and `WriteEncoded` are an encoding followed by a write that
succeeds; failing ones are `FtdcWriter`'s. `SetDeltaMetrics`,
`SetCheckpointInterval`, `Rotate`, `SetPath` and `Restart` are the other places
that touch the encoder's state.

Two history variables are a reader: `reader` (what it holds of the current file)
and `recorded` (the sample behind the last record). They guard nothing.

Two abstractions to know of. `delta_state_replace` keeps the metrics it has
memory for and returns nothing; the model keeps *any* subset, which
contains every prefix the code can keep. `View` cuts the reader's
counters to those of the last sample: a counter that vanished from `INFO` stays
with the reader until the next checkpoint, as delta records cannot say that it is
gone.

### `FtdcWriter`

One action per step of an append, with `pc` for the step to come: `CollectSample`,
`RotateFirst`, `EncodeSnapshot` or `EncodeRecord`, `Recheck`, `RotateAgain`,
`WriteRecord`. `Tick` and `Crash` may come between any two; commands only when
`pc` is `"idle"`, since the thread is busy until then. The failing branches are
named after the call that fails: `CollectFails`, `EncodeFails`, `WriteFails`, and
within a rotation `MkdirFails`, `OpenFails`, `HeaderFails` and `RetentionFails`.
`HeaderLost` is the flush whose result nobody looks at: the rotation succeeds with
a header that is torn or missing.

`disk` maps the files that exist to their lines. Lines are records of a kind, the
number of their sample, and for a delta the number of the sample it was computed
from; so that a file is decodable is a statement about numbers. A torn line has no
line end, so the next line shares it and is garbled (`AppendLine`). Sizes are two
units for lines with absolute values and for headers, one for the others: enough
to tell apart what the checks tell apart.

A file is named by its directory and second (`Timestamp`), and opening an existing
one appends to it, as `fopen(…, "ab")` does.

A crash here is the death of the process: whatever it had handed to the kernel
stays. The module never calls `fsync`, and losing what the kernel had not written
is not modelled.

### `FtdcStatus`

The open file, `last_error` and `samples_written`, and four things that may happen
to them: `Append`, `Rotate`, `Fail`, `Reload`. `StatusImplemented` of `FtdcWriter`
maps `open` to `fp # NoFile` and the count to its value modulo `Counts`.

### `FtdcTimer`

`pending` is the server's side: ticks left of each timer. `TimerCallback` is the
callback from the reset of `timer_active` to the arming of the next timer;
`ScheduleTimer` and `StopTimer` are the functions of these names. Load arguments
are taken without the bound of 100 ms that `CONFIG SET` enforces, so an
interval of 0 is included.

### `FtdcRetention`

`Scan` reads the directory and sorts; then one action per turn of the loop:
`SkipCurrent`, `Unlink`, `UnlinkFails`, and `Finish`. `OthersChange` lets another
process remove, add or grow a file between any two turns.

### `FtdcDirectory`

A directory that starts empty and is filled by the module. A rotation is four steps of
`ftdc_rotation_open_next_file`, with `opening` for how far it is: `ReadStamp` reads
the clock and names both files, `OpenFile` opens or reopens the metrics file,
`FlushHeader` writes behind what it has, and `WriteSidecar` writes the sidecar, whole,
in part or not at all. `AppendSample` makes the current file longer. The last two are
each followed by a call of `FtdcRetention`'s loop. `SetMaxDirBytes` may come between
calls; `SecondPasses` and `ProcessEnds` between any two steps, so that a sidecar can
be younger than its metrics file. Writes to a metrics file succeed; failing ones are
`FtdcWriter`'s. Files are numbers that sort as their paths do: sidecars
(`metadata.…`) before metrics files (`metrics.…`).

### `Ftdc`

The module as its users see it. `Load` takes argument lists, in order, with the
checks of `parse_load_args` only (a later argument of the same key wins);
`CommandConfigSet` has those of `command_config`. `Reported` is `config_get_one`,
`Stored` the scaling of sizes in a long long of `Width` bits. `CommandRotate`,
`CommandSetPath` and `Callback` do to the status what `FtdcStatus` says.
`Disturbance` makes the directory unusable, or usable again.

### Texts: `JsonText`, `FtdcScanner` and what is built on them

A text is a sequence of symbols. A symbol is a character the code tells apart from
others (quote, brace, digit, …) or a word that stands for a run of ordinary ones
and counts as one character, so that the fixed-size arrays of the scanner
(`KeyCap`, `PathCap`, `TextCap`, `LineCap`, `BlobLimit`) are as small as the texts.

- `JsonText`: escaping, objects, arrays. `FtdcInfoText`: `is_number_text_n`, the
  lists of pairs, the section of an `INFO` reply.
- `FtdcHostStats`: what is made of each file of `/proc`, missing and malformed ones
  included; on other systems `StubSection`.
- `FtdcCollector`: the sample piece by piece. The reply to each call is any of a
  set, `RefuseInfo` is a call the server refuses, `OutOfMemory` an append that
  fails. Texts are over `Symbol`, which has at least the module's own words
  (`Vocabulary`); `Secret` are the symbols only arguments of commands may have.
  `WholeSample` is the documented object, put together in one go.
- `FtdcSampleScan`: what the encoder finds in a sample.
- `FtdcScanner`: `parse_json_string_n`, `skip_value`, `parse_flat_value`,
  `parse_flat_object`, with positions for pointers.
- `FtdcInfoValues`: any text as the value of a field, written and read back.
- `FtdcRecords`: `build_checkpoint_json`, `build_delta_json` and
  `build_restart_json`, for any two samples that follow each other.
- `FtdcMetadata`: `Put` and `Close` put together any small reply; `MetadataLine`
  and `Sidecar` are the texts of a new file.

### `FtdcBuffer`

`len`, `cap` and the memory behind them. An append is the steps `Check`, `Double`,
`Reallocate` or `ReallocateFails`, and `Write`; `CollectorAppend`, `HostAppend`,
`StubAppend` and `EncoderAppend` are the four files, and `HostStarts` and
`HostEnds` pass the collector's buffer to the host section and back.

## Runs

Every property of a passing run has a mutant: an operator next to the definition
it distorts (`…Mutant`), which behaves as a plausible bug would — an off-by-one, a
missing reset, an unmarked rotation. With it in place of the original TLC finds
the property violated, so none holds for want of trying.

### `encoder` (`MCFtdcDelta.cfg`)

Two metrics, two values, three times, five identities, checkpoints off or every
two ticks; about 15,700 states.

- `ReaderInSync`: a reader holds exactly the counters of the last sample.
- `BaseIsRecorded`: when the next record may be a delta, what the encoder holds is
  what the open file says.
- `DeltaWithinSegment`: no delta across a segment boundary: both its samples have the
  same run id and process id, and the uptime did not go down.
- `DeltaWithinInterval`: no delta rests on a checkpoint older than the interval.
- `ImplementsSnapshotLog`: all of it is a refinement of `SnapshotLog`.

Two metrics are enough for one to move, vanish or be forgotten while the other
does not; two values for a rise and a fall; each identity differs from the next in
one field (run id, process id, uptime), and one is that of a sample without the
server section; three times are one short of, at, and past an interval of two.
Samples carry them in any order, as under a wall clock that is set, forward or
back. The theorems below are about any number of each.

### `writer` (`MCFtdcWriter.cfg`)

Delta mode, two directories, every fault the module gets over (`MCHandledFaults`),
four ticks at two per second, four samples, two disturbances; 1.5 million states.

- `HandleCoherent`: nothing is written through a null handle, and the open file is
  the current one, exists, and lies in the configured directory.
- `FirstRecordIsCheckpoint`, `DeltaAfterItsBase`: every file can be decoded from
  its start, whatever failed and whenever the process died.
- `RestartWithinLife`: a restart record comes right after a record of the same process
  and right before the checkpoint of its segment, or what is left of it.
- `NoOverfullAppend`: a sample that would take the file to its limit goes to a file
  opened for it.
- `CountedIsRecorded`: `samples_written` counts samples that can be read back.
- `StartsWithHeader`: no sample is in a file that does not begin with a header, or
  with what a process that died left of one.

### `writer_faults` (`MCFtdcWriterFaults.cfg`)

Both modes, switched at run time, with failing writes, failing retention and lost
headers too, one tick and one sample less; 1.1 million states. What still holds:

- `LostFileIsReported`: a module that lost its file says so in `last_error`.
- `Chronological`: samples are in order within a file and across files.
- `LossIsReported`: a step that gives up a collected sample sets `last_error`.
- `StatusImplemented`: the write path is a refinement of `FtdcStatus`.

Several properties of `writer` fail here, each in a run of its own with just the fault
it needs (the findings below), or for a header the disk did not take.

Bounds of both: `MaxTime` lets one or two rotation intervals and seconds pass;
`MaxFileBytes = 7` is a header and two records, so that the limit is met exactly,
missed by one, and exceeded by a restart record; two disturbances are the least for
a fault on the way back from another one. The files a file name
collides with are reached because a second has two ticks.

Deadlock is checked here: `FTDC.FLUSH` is always possible when idle. It is off where
something ends: a call (`retention`), a clock (`directory`), a text of the longest
length (`texts`).

### `timer` (`MCFtdc.cfg`)

The module `Ftdc`: load arguments, commands and timer events in any order, five of the
settings (`enabled`, `interval-ms`, `max-file-mb`, `max-dir-mb`, `slowlog-redact`; the
others scale and store the same way), with restarts, unloads and a directory that fails; intervals of 0, 1, 2, 7
and 8 ticks, two timer identities. A megabyte is 4 bytes and a long long 6 bits, so
that a size of 7 fits and one of 8 does not; texts are yes, no, numbers below and
above the lower bounds, and none of these; 74,000 states.

- `OneTimer`: the server holds exactly the timer the module knows of, one if and
  only if sampling is enabled.
- `NextSampleWithinInterval`: the next sample is within the interval configured now.
- `AcceptedIsReported`: `FTDC.CONFIG GET` shows each setting as it was last given, as
  long as a size fits its long long.
- `SamplingGoesOn` (liveness): a module that stays loaded and enabled samples again
  and again, unless the interval is set over and over.
- `RecordingResumes` (liveness): once the directory stays usable and the module
  loaded and enabled, a file is open with no error and samples are counted again and
  again, whatever went before, unless the interval is set over and over.

Fairness: weak fairness of `Tick` (time passes) and of each timer's callback (the
server's event loop runs timers that are due). Nothing is assumed of commands,
which clients send or do not. A timer may be late by any number of ticks, and two
identities do: one is taken anew while the fired one is still there. That a callback
with a usable directory appends is what `FtdcStatus` allows and `Ftdc.healthy` says.

### `retention` (`MCFtdcRetention.cfg`)

Three files of one or two units, two modification times (so ties are broken by
name), limits of none, two and three, one change by others, any refusal to remove.

- `RemovesOnlyTheOldest`: no file goes that would fit after its elders went.
- `TrimsEnough`: each file that is to go went or was refused.
- `FitsOrNothingLeft`: undisturbed, the directory fits in the end or holds nothing
  removable.

### `directory` (`MCFtdcDirectory.cfg`)

Three seconds, so at most three metrics files and three sidecars, files of up to
two units, limits of none, two and four, changed between any two calls; 2.7 million
states. The second turns and the process dies between any two steps. Two units are a
header and either a record or the header of a reopening; a third would only make the
current file longer once more within a second or in a later one. `MaxChanges = 0` and `ModTime = {0}` switch off what `FtdcRetention` does to
the directory from outside.

- `NoGapInHistory`: a metrics file is removed only after all older ones.
- `SidecarsGoInTurn`: no sidecar outlives a metrics file of a later rotation, and its
  own only if it was written in a later second than the stamp of both.

### `texts` (`MCFtdcTexts.cfg`)

Five subjects, 150,000 states.

Values: every text of up to six symbols of four alphabets: figures, escapes, lists of
pairs, yes and no. Six are enough for a sign, figures on both sides of a point and one
more; and for two pairs with a blank. Two alphabets are not mixed.

`ValuesReadBack`, which is:

- `ReadBackWhole`: the value the collector makes of a text is one value to the scanner,
  exactly unless it is one like `+7` or `.5`, which `is_number_text_n` lets through.
- `IntegersAreNoted`: the scanner finds a number exactly where an integer stood.
- `StringsSurvive`: unescaping undoes escaping.

Samples: three states of a server, with and without replicas, one with quotes and
backslashes in its fields; refusals of three sections; odd and missing files of
`/proc`; every configuration, changed between collections; an argument with a
character below 0x20. Ten symbols for keys, paths and texts (`KeyCap`, `PathCap`,
`TextCap`): the executable of one server has eleven; 8 and 6 for lines and files of
the host (`LineCap`, `BlobLimit`), which some are longer than.

- `EncoderReadsEverySample`: the scan of a sample ends where the sample ends, exactly
  unless there is a `\u` escape in it.
- `FlatIsReported`: the counters and the identity it finds are the server's, and
  those of a refused section are absent.
- `RedactedArgsStayOut`: no symbol of an argument is in a sample or in the buffer
  while `slowlog-redact` is set.
- `SampleIsWhole`: a sample handed out is the documented object, text by text: every
  part at its place and once, nothing of an earlier collection, and `{}` only for the
  sections refused in this one.

Records: all pairs of samples with each section present or absent, two run ids, two
values.

- `RecordsReadBack`: a checkpoint scans as its sample does
  (`CheckpointReadsAsSample`), and the deltas read back from a line, added to the
  counters before, are the counters now (`DeltasAddUp`).

Metadata: replies of up to four elements, nested up to two levels, in the types of
both protocols, with quotes, backslashes and line ends in names and values.

- `ConfigIsReadBack`: from the line of a reply to `CONFIG GET` the same names and values
  are read back, whatever the protocol.
- `TextsAreJson`: every line is one JSON value, that of a record (`RecordsAreJson`,
  which is also one line), of the metadata (`MetadataIsJson`), and of the sidecar
  unless the directory's name needs escapes (`SidecarIsJson`).

Buffers: first capacities of 4 and 1 (the code has 1024 in the collector and 256 in
`delta.c`; it is the doubling that matters), texts of 0 to 9 characters, both platforms, failing reallocations.

- `WritesFit`: no text is written past the memory, its terminator included.
- `EveryAppendEnds` (liveness): reserving ends, under weak fairness of the steps of
  an append, which is a loop without blocking calls. The doubling of the host section
  would never end on a capacity of 0.

## Findings

Each is a run that violates one property, which states what the repository's own
documentation, or one of its tests, says.

| Run | Property | What happens |
|---|---|---|
| `snapshot_recheck` | `CountedIsRecorded` | In snapshot mode the second look at the limits frees the record and then writes it: an empty line, counted as a sample (`src/writer.c:69-74`). It happens when the rotation interval runs out between the two looks, and whenever a file fills up within the second of its opening. |
| `format_switch` | `FormatMatchesHeader` | `FTDC.CONFIG SET delta-metrics` writes records of one version under the header of the other. |
| `reopen_within_second` | `OneHeaderPerFile` | Two rotations within a second put a second header among the records of one file. |
| `retention_before_mark` | `FirstRecordIsCheckpoint` | A rotation whose retention fails returns before it marks the new file: the first record there can be a delta. |
| `lost_write` | `DeltaAfterItsBase` | A failed write leaves the encoder ahead of the file: the next delta starts from a record no reader has. |

Each needs one fault or one command at the right moment: an unreadable directory, a
full disk, two rotations within a second.

Met while modelling and without a run of their own. Where a property of a passing run
comes near one, its statement says where it stops; the exceptions that are written as
an equivalence show that the code stops there too.

| Where | What happens | Stated in |
|---|---|---|
| `src/collector.c:90`, `src/delta.c:143` | The collector writes characters below 0x20 as `\u` escapes, the scanner refuses them: one such character and no sample is recorded in delta mode. | `EncoderReadsEverySample` |
| `src/collector.c:119` | `+7` and `.5` are taken for numbers and written as they are, which is no JSON. The server prints none of its own numbers this way. | `ReadBackWhole` |
| `src/rotation.c:254` | The path is printed into the sidecar without escapes. | `SidecarIsJson` |
| `src/ftdc.c:311` | A size in megabytes whose bytes do not fit is accepted and becomes another. | `AcceptedIsReported` |
| `src/rotation.c:244` | The result of the header's flush is not looked at: records may go to a file without a header. | `StartsWithHeader`, by the faults of its run |
| `src/hoststats_stub.c:14` | Outside Linux the host section does not make the buffer grow: the sample is lost when it ends close to the capacity. | `StubAppend` |
| `src/rotation.c:333` | Trimming spares the file in use and not its sidecar. | `SidecarsGoInTurn`, which asks for the other direction only |
| `src/rotation.c:248` | If the second turns between the header's flush and the sidecar's writing, and no append follows (a second rotation, sampling off, a failed append, the process dies), the metrics file is the older of the two: it is removed first and the sidecar may be left without it. | `SidecarsGoInTurn` |
| `src/delta.c:628` | The clock is set back and no checkpoint is due until it has caught up. | `DeltaWithinInterval`, which is about readings of the clock |

## Proofs

A run checks a property on one small instance; the theorems here state the same
properties for every value of the constants that meets the assumptions of the
modules. Every safety property of the runs `encoder`, `writer`, `writer_faults`,
`timer`, `retention` and `directory` is proved; of `texts`, what is written is proved
(`SampleIsWhole`, `RedactedArgsStayOut`, `WritesFit`), what is read back is not.

| Module | About | Theorems |
|---|---|---|
| `FtdcDeltaProofs` | encoder | `InvHolds`, `TypeCorrect`, `BaseAlwaysRecorded`, `ReaderAlwaysInSync`, `DeltasStayInSegment`, `DeltasStayInInterval`, `EncoderImplementsSnapshotLog` |
| `FtdcWriterProofs` | write path | `TypeCorrect`, `AlwaysCoherent`, `LostFilesReported`, `LossesReported`, `StatusRefinement` |
| `FtdcFileProofs` | what the files hold | `SamplesInOrder`, `HeaderFirst`, `LimitsKept`, `FirstRecords`, `DeltasUndone`, `RestartsWithinLife`, `CountedRecords` |
| `FtdcRetentionProofs` | one call of retention | `InvHolds`, `TypeCorrect`, `OnlyTheOldest`, `AllThatMustGo`, `LimitOrNothing` |
| `FtdcDirectoryProofs` | the directory over time | `DirectoryInvHolds`, `HistoryWithoutGaps`, `SidecarsInTurn` |
| `FtdcProofs` | timer, settings, module | `InvHolds`, `TypeCorrect`, `AlwaysOneTimer`, `AlwaysWithinInterval`; `SettingsHold`, `SettingsReported`; `TimerInvHolds`, `ModuleTypeCorrect`, `ModuleHasOneTimer`, `ModuleSamplesWithinInterval` |
| `FtdcTextProofs` | samples; growing buffer | `SectionIsJson`, `CollectorInvHolds`, `SamplesAreWhole`, `SamplesAreJson`, `RedactedArgsHold`; `BufferInvHolds`, `WritesAlwaysFit`, `DoublingAlwaysGrows` |
| `FiniteFolds` | lemmas only | folds over finite sets |

### Encoder

For every set of metrics, values, identities, times and intervals that meets
`ConstantsAssumption` (numbers are integers, identities of valid samples are valid).
`ReaderInSync` is not inductive, since a delta added to a reader's value gives the
new value only if the encoder subtracted what the reader holds. `BaseIsRecorded`
says where the encoder's values come from. `Inv`, the two with the types, is
inductive. Lemma `AdvanceReaches` is the arithmetic of one delta; `DeltaInSync` and
`AbsoluteInSync` re-establish the invariant after a delta and after an absolute
record; `LeaveFileInv` covers whatever leaves the file, and `NextInv` has one step per
action. The action properties come from `Inv` and `DeltaIsEncoded` (a step that makes
the reader's last record a delta is an encoding that forced no checkpoint). For the
refinement, `ViewIsSample` shows that `ReaderInSync` makes the reader's view the sample
itself.

### Write path and files

For every set of directories, limits, modes and faults, and every bound on time,
samples and disturbances (`WriterAssumption`). `Inv` of `FtdcWriterProofs` adds to the
types that an append in progress has a file open, what it has encoded at each of its
steps, and that its sample is not counted yet: without these the types of the file and
of the counters do not survive a step. The refinement of `FtdcStatus` needs no more:
`StepSeen` lists, for each step, what of it the status shows.

What the files hold rests on one lemma per way a file changes: `AppendLine…` for a line
put behind a whole or a torn one, `AppendLines…` for the lines of a record, `Part…` for
a record that a crash or a failed write cut anywhere, and `RotationDisk` or `StepDisk`
for a rotation that stops at any of its steps. On top of these, each property has its
own strengthening:

- `Chronological` becomes `InOrder`: no file is newer than the clock, no sample on the
  disk is newer than the last one handed to the writer, and positions are in order in a
  file and across names. It holds with every fault.
- `StartsWithHeader` becomes `Started`: a file that exists has a header or nothing but
  what is left of one, and the *open* file has one.
- `NoOverfullAppend` becomes `Limit`: the same from the look at the limits on, since
  the sample is encoded in between.
- `FirstRecordIsCheckpoint` becomes `FirstInv`: behind a header a checkpoint is about
  to be written, or `need_checkpoint` is set.
- `DeltaAfterItsBase` becomes `BaseInv`: unless a checkpoint is asked for, the last
  record of the open file is of the sample the encoder will subtract; `need_checkpoint`
  is set while snapshots are written, so that a change of the mode is covered.
- `RestartWithinLife` becomes `RestartInv`, on top of `BaseInv`: unless a checkpoint is
  asked for, the open file ends in a record of this process, and so it does below a
  restart record about to be written; no open file ends in a restart record.
- `CountedIsRecorded` needs `WholeInv`: no line of the open file lacks its end.

Some of these are false for some faults, which the findings show; the theorems then
name, as hypotheses about the constant `Faults`, exactly the faults that are excluded:

| Hypothesis | Excludes | Because |
|---|---|---|
| `HeadersArrive` | a header flush that fails unnoticed | the records go to a file without a header (`src/rotation.c:244`) |
| `WritesSucceed` | a failing write | the encoder is ahead of the file (run `lost_write`) |
| `TrimsSucceed` | a failing retention | the new file is not marked (run `retention_before_mark`) |
| `OnlyDeltaMode` | snapshot mode | the record is freed before it is written (run `snapshot_recheck`); `FirstRecordIsCheckpoint` speaks of files in delta format |

All four hold of the instance of the `writer` run, with every other fault and crashes:
`HeaderFirst` and `LimitsKept` need the first only, `FirstRecords` the second to
fourth, `DeltasUndone` and `RestartsWithinLife` the first three and thus hold in both
modes, and `CountedRecords` the first, second and fourth.

### Retention and the directory

For every finite set of files, sizes that are naturals, integer modification times and
limits, and any number of changes by others (`RetentionAssumption`).

`RemovesOnlyTheOldest` compares the variable `total` of the loop with `MustGo`, which is
a sum over the files that were listed. `Inv` therefore says that `total` is the sum over
what is listed and not removed (`Account`), that the list is sorted by `retention_cmp`
(`Listed`), that what is behind the loop's position was removed, refused or in use
(`Passed`), why the loop runs and ends (`Guarded`), and that, undisturbed, the
directory is what is left of the list (`Mirrored`).

Two things stand in the way: `Bytes` is a fold of the community modules, a `CHOOSE` of a
recursive function, and the sort is a `CHOOSE` of a permutation. `FiniteFolds` shows from
the well-foundedness of the subsets of a finite set that such a fold exists, is unique
and has the type of its terms; `BytesOfOne` concludes that a sum does not depend on the
order in which its terms are taken. `SortedLists` gives every entry the number of its
elders as its place, which is a permutation since `retention_cmp` is a strict total
order on files of distinct paths (`OlderOrders`).

Over the life of a directory (`FtdcDirectory`), retention goes by modification times and
the properties are about when files were opened. `Ages` says how far the two orders agree:
a metrics file is not older than its name, and no file of a rotation, sidecar included,
is younger than the next rotation's stamp. Within a rotation nothing is said: the sidecar
may be younger than its metrics file. `Clock` says that the current file is the latest,
`Rotation` that it exists once it is opened, and `Followed` that the loop works on what is
there. They hold at every step of a rotation, whenever the second turns and wherever the
process dies. Then a file that goes has no elder left (`YoungerStays`,
`UnlinkStep`); the theorems are about any number of rotations, any sizes, and a limit
that changes between calls, in a directory nobody else touches (`DirectoryAssumption`
only fixes the order of the names).

### Timer, settings and the module

The timer alone, for every set of intervals and of timer identities that meets
`TimerAssumption` (intervals are natural numbers, "no timer" is no identity).
`NextSampleWithinInterval` is not inductive by itself: the interval may shrink only
because `OneTimer` says that the timer the module stops is all there is. Arming into no
timers (`ScheduleIntoNone`) and stopping the one there is (`StoppedIsNone`) are the two
lemmas every action is made of.

`AcceptedIsReported` is about any keys, texts, argument lists, width of a long long and
scale of a megabyte (`FtdcAssumption`). `Settings` is its inductive form: what is stored
is `Stored` of what was accepted last, since a report alone does not say what is stored.
`Products` is the arithmetic of scaling a size up and down again when it fits;
`GivenByArgument` that the last argument of a key wins.

`TimerStep` shows that every step of `Ftdc` is a step of the timer or leaves it alone,
so the timer's invariant holds of the module with all its commands. It needs
`IntervalAssumption`: the intervals that arguments and `CONFIG SET` give are among those
of the timer. With `Interval` a set of naturals this leaves out a negative
`interval-ms` among the load arguments, which is taken unchecked
(`src/ftdc.c:372-374`).

### Samples

For any replies of the server, files of the host, refused calls, failures of memory and
configurations that meet `InputsOK`: replies and files are texts of any length over
any set of symbols, malformed in any way; the numbers `%lld` prints are numerals; and
no symbol of `Secret` is in anything but an argument.

*JSON.* `Json(S)` is the least set of texts over `S` that has `true`, `false`, the
numbers and the strings and is closed under objects and arrays of its members. An
induction over values is then the choice of a closed set, so no induction theorem is
needed. Numbers are what `is_number_text_n` takes, `+7` and `.5` included (see
[Findings](#findings)): the theorem is that *structure* is never broken, whatever is
in a reply. The lemmas follow the code from the inside out:

1. sequences: `FlattenSeqDef` (the fold of the community modules computes a
   concatenation), `KeptSeparated` (a comma before every part but the first *kept* one
   is a separated list of what is kept, the `first` flags of the code);
2. `EscapeUnits`: an escaped text is made of units, none of which is a bare quote or
   backslash, so that a string ends where it should;
3. `ValueIsJson`, `SectionIsJson`: values, pairs, lines and whole replies of `INFO`;
   `HostSectionIsJson`: each file of `/proc`, missing, cut off or malformed;
4. `LatencyIsJson`, `SlowlogIsJson`, short rows included.

*Samples.* `SampleIsWhole` speaks of the end of a collection only. `CollectorInv` says
what stands in the buffer before each of the thirteen pieces (`BufIsPart`): the head and
the first sections of `INFO`, then the parts with their braces closed; and that what
was refused is among the sections already asked for (`RefusedSoFar`), without which a
section printed would change its meaning when a later call is refused. One lemma per
kind of piece (`SectionAppended`, `LatencyAppended`, `SlowlogAppended`, `HostAppended`)
regroups the concatenation: the collector opens and closes braces in different pieces.
The buffer of a collection that was broken off is empty again, so nothing of it is left.

`SamplesAreJson` then is a matter of the parts. For `RedactedArgsStayOut` the same lemmas
are read with another set of symbols: while arguments are to be redacted, all that is
written is text over `Symbol` alone (`Writable`), and `Secret` is disjoint from it.

The theorems are about `CollectorSpec`, which `FtdcTexts` runs as one of its subjects
(`SampleStep`); `TextsSpec` itself reaches the scanner.

### Buffer

For any first capacities, lengths of texts and platform that meet `BufferAssumption`.
`WritesFit` is not inductive; `BufferInv` adds that the capacity is the memory's size
except between doubling and reallocating (`CapacityIsMemory`), and that what was checked
or doubled is enough (`RoomIsChecked`). Both rest on callers that give up after a failed
reallocation, which raises the capacity and not the memory; one caller of the code does
not, see below. `HostHasRoom` says that the host section never meets a capacity of 0,
which its loop would double for ever; with it `DoublingAlwaysGrows`: every turn of a
doubling loop gives more, so what it lacks of the room it needs gets less with every
turn. That is the safety half of `EveryAppendEnds`.

### Only model-checked

- `SamplingGoesOn`, `RecordingResumes` and `EveryAppendEnds`: liveness, which needs
  fairness and `ENABLED`, is beyond the prover.
- `ValuesReadBack`, `EncoderReadsEverySample`, `FlatIsReported`, `TextsAreJson`,
  `RecordsReadBack` and `ConfigIsReadBack`: scanner and reply writer are recursive
  operators, which the prover does not take, and what they compute for every text
  would take induction over data.
- The findings: each is a counterexample.

## Not modelled

- `bytes_written`, `last_sample_time_ms`: only `FTDC.STATUS` reads them. The texts and
  lengths of replies, the arity of commands, and lengths of keys.
- The value that is a list of pairs, when memory runs out within it
  (`src/collector.c:152`): it is written again as a string after the part that is
  there, with the capacity raised past the memory. `FtdcBuffer` and `FtdcCollector`
  have every caller give up.
- Code nothing calls: `ftdc_is_sensitive_config_name` (`src/redact.c`), and the
  branch of `sample_once` that writes for a command. The `redact` setting is stored
  and reported, as in `Ftdc`, and read by nothing. `FTDC.CONFIG GET *` lists all
  settings but `slowlog-redact`; `Ftdc` models the answer for a single key.
- The order of the numbers in a row of `LATENCY LATEST` is the server's; the rows are
  external, and labels are given by position.
- Digits of numbers: counters of texts have one or two, and `strtoll` past its range
  is left out. `compression` is always `"none"`.
- A clock that steps back in `FtdcWriter`, where file names would repeat and
  `Chronological` would be about the clock and not about the code.
- Other users of the directory in `FtdcWriter` and `FtdcDirectory`; `FtdcRetention`
  has them.
- Loss of data by the operating system; the module does not sync files.
- Unloading the module with a file open: it has no unload hook; the stream stays
  open in the process and nothing is written to it again.
- `include/valkeymodule.h` is the server's interface, vendored, and more than half of
  the repository's lines. Build recipes and integration tests were read for what the
  program is meant to do.
