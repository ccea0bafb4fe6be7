-------------------------------- MODULE Ftdc --------------------------------
(***************************************************************************)
(* The module as its users see it (src/ftdc.c): loading it with arguments, *)
(* the FTDC commands, and the timer that samples, over what FtdcStatus     *)
(* promises of the write path.                                             *)
(*                                                                         *)
(* A command runs to its end on the server's only thread: one action each. *)
(***************************************************************************)
EXTENDS FtdcTimer, Sequences

CONSTANTS
  Counts,         \* samples_written counts modulo this
  NumberKey,      \* numeric settings besides interval-ms, of AllNumberKeys
  FlagKey,        \* yes/no settings besides enabled
  Text,           \* texts a value is given as: [truth, number]
  LoadArguments,  \* argument lists: sequences of <<key, text>>
  NotANumber,     \* number of a text ValkeyModule_StringToLongLong refuses
  MB,             \* bytes of a megabyte
  Width,          \* bits of a long long
  MinInterval,    \* 100 ms
  MinCheckpoint   \* 1000 ms

AllNumberKeys == {"max-file-mb", "max-dir-mb", "rotation-interval-sec",
                  "checkpoint-interval-ms"}

AnyText == [truth : {"yes", "no", "neither"}, number : Int \cup {NotANumber}]

ASSUME FtdcAssumption ==
  /\ NumberKey \subseteq AllNumberKeys
  /\ FlagKey \subseteq {"redact", "collect-host-stats", "collect-slowlog",
                        "slowlog-redact", "delta-metrics"}
  /\ Text \subseteq AnyText
  /\ LoadArguments \subseteq Seq(STRING \X AnyText)
  /\ Counts \in Nat \ {0, 1}
  /\ {MB, Width, MinInterval, MinCheckpoint} \subseteq Nat \ {0}

\* The values given for interval-ms are those the timer is modelled for.
ASSUME IntervalAssumption ==
  /\ MinInterval \in Interval
  /\ \A text \in Text :
       text.number # NotANumber /\ text.number >= MinInterval =>
         text.number \in Interval
  /\ \A args \in LoadArguments : \A i \in DOMAIN args :
       args[i][1] = "interval-ms" =>
         args[i][2].number \in Interval \cup {NotANumber}

VARIABLES
  number,      \* config: the numeric settings, sizes in bytes
  flag,        \* config: the yes/no settings
  open, last_error, samples,
  healthy,     \* external: the directory is usable, samples can be encoded
  accepted     \* history: value each setting was last given

config == <<enabled, interval_ms, number, flag>>
timerState == <<loaded, timer_active, timer_id, pending>>
status == <<open, last_error, samples>>
ftdcVars == <<config, timerState, status, healthy, accepted>>

Status == INSTANCE FtdcStatus
-----------------------------------------------------------------------------
(* Settings.                                                               *)

Sizes == {"max-file-mb", "max-dir-mb"}

\* A product of long longs; the builds wrap around.
Wrapped(n) == ((n + 2^(Width - 1)) % 2^Width) - 2^(Width - 1)

Truncated(n, d) == IF n < 0 THEN -((-n) \div d) ELSE n \div d

StoredMutant(key, n) ==   \* one of the sizes is not scaled
  IF key = "max-file-mb" THEN Wrapped(n * MB) ELSE n

Stored(key, n) == IF key \in Sizes THEN Wrapped(n * MB) ELSE n

\* config_get_one
Reported(key) ==
  CASE key = "enabled" -> enabled
    [] key = "interval-ms" -> interval_ms
    [] key \in FlagKey -> flag[key]
    [] key \in Sizes -> Truncated(number[key], MB)
    [] OTHER -> number[key]

Flags == FlagKey \cup {"enabled"}
Numbers == NumberKey \cup {"interval-ms"}

\* ftdc_string_to_bool and ValkeyModule_StringToLongLong.
IsTruth(text) == text.truth # "neither"
IsNumber(text) == text.number # NotANumber
Meant(key, text) == IF key \in Flags THEN text.truth = "yes" ELSE text.number

Minimum(key) ==
  CASE key = "interval-ms" -> MinInterval
    [] key = "checkpoint-interval-ms" -> MinCheckpoint
    [] OTHER -> 1

\* Loading takes any number, FTDC.CONFIG SET has a lower bound.
LoadAccepts(key, text) ==
  \/ key \in Flags /\ IsTruth(text)
  \/ key \in Numbers /\ IsNumber(text)

SetAccepts(key, text) ==
  /\ LoadAccepts(key, text)
  /\ key \in Numbers => text.number >= Minimum(key)
-----------------------------------------------------------------------------
(* Loading, unloading and the process.                                     *)

\* Values of a setting before the first argument.
DefaultNumber == [key \in NumberKey |-> Stored(key, Minimum(key))]
DefaultFlag == [key \in FlagKey |-> key \in {"redact", "collect-host-stats",
                                             "slowlog-redact"}]

\* The value of the last argument that names key, or else.
Given(args, key, else) ==
  LET at == {i \in DOMAIN args : args[i][1] = key}
  IN  IF at = {} THEN else
      ELSE Meant(key, args[CHOOSE i \in at : \A j \in at : j <= i][2])

\* parse_load_args takes every pair, and ValkeyModule_OnLoad then arms the
\* timer if sampling is enabled.
LoadsWith(args) ==
  /\ \A i \in DOMAIN args : LoadAccepts(args[i][1], args[i][2])
  /\ OnLoad(Given(args, "enabled", TRUE), Given(args, "interval-ms", MinInterval))
  /\ number' = [key \in NumberKey |->
                  LET n == Given(args, key, NotANumber)
                  IN  IF n = NotANumber THEN DefaultNumber[key] ELSE Stored(key, n)]
  /\ flag' = [key \in FlagKey |-> Given(args, key, DefaultFlag[key])]
  /\ accepted' = [key \in {args[i][1] : i \in DOMAIN args} |-> Given(args, key, 0)]
  /\ Status!Reload
  /\ UNCHANGED healthy

\* One argument that is refused, and the module is not loaded.
LoadRefused(args) ==
  /\ ~loaded
  /\ \E i \in DOMAIN args : ~LoadAccepts(args[i][1], args[i][2])
  /\ UNCHANGED ftdcVars

ModuleUnload == Unload /\ UNCHANGED <<number, flag, status, healthy, accepted>>

ProcessRestart ==
  /\ Restart
  /\ Status!Reload
  /\ accepted' = [key \in {} |-> 0]
  /\ UNCHANGED <<number, flag, healthy>>
-----------------------------------------------------------------------------
(* Commands.                                                               *)

\* A rotation goes the way of the directory.
RotateOrFail == IF healthy THEN Status!Rotate ELSE Status!Fail

CommandRotate ==
  /\ loaded
  /\ RotateOrFail
  /\ UNCHANGED <<config, timerState, healthy, accepted>>

\* FTDC.STATUS, FTDC.CONFIG GET, FTDC.FLUSH, and FTDC.SAMPLE, which collects a
\* sample for its caller only: none of them leaves a trace, failed or not.
CommandRead == loaded /\ UNCHANGED ftdcVars

\* Replies OK whether or not the rotation succeeds.
CommandSetPath ==
  /\ loaded
  /\ RotateOrFail
  /\ UNCHANGED <<config, timerState, healthy, accepted>>

Accepted(key, text) ==
  accepted' = [k \in DOMAIN accepted \cup {key} |->
                 IF k = key THEN Meant(key, text) ELSE accepted[k]]

\* Each setting has its own effect; delta-metrics also resets the segment,
\* which is FtdcDelta's and FtdcWriter's.
CommandConfigSet(key, text) ==
  /\ loaded
  /\ SetAccepts(key, text)
  /\ CASE key = "enabled" -> SetEnabled(Meant(key, text)) /\ UNCHANGED <<number, flag>>
       [] key = "interval-ms" -> SetInterval(text.number) /\ UNCHANGED <<number, flag>>
       [] key \in FlagKey ->
            /\ flag' = [flag EXCEPT ![key] = Meant(key, text)]
            /\ UNCHANGED <<vars, number>>
       [] OTHER ->
            /\ number' = [number EXCEPT ![key] = Stored(key, text.number)]
            /\ UNCHANGED <<vars, flag>>
  /\ Accepted(key, text)
  /\ UNCHANGED <<status, healthy>>

\* An unknown key, a text that is too long, an invalid value: nothing is
\* assigned.
CommandConfigRefused(key, text) ==
  loaded /\ ~SetAccepts(key, text) /\ UNCHANGED ftdcVars
-----------------------------------------------------------------------------
(* The timer.                                                              *)

\* The collection fails, or some step of the append.
SampleFails == Status!Fail

\* The append may rotate first.
SampleAppended == Status!Append /\ (healthy => ~last_error')

\* What the callback does of the write path; it arms the next timer in any case.
CallbackMutant(id) ==   \* a file that was lost is not opened again
  /\ TimerCallback(id)
  /\ IF ~enabled \/ ~open THEN UNCHANGED status
     ELSE \/ SampleAppended
          \/ ~healthy /\ SampleFails
  /\ UNCHANGED <<number, flag, healthy, accepted>>

Callback(id) ==
  /\ TimerCallback(id)
  /\ IF ~enabled THEN UNCHANGED status
     ELSE \/ SampleAppended
          \/ ~healthy /\ SampleFails
  /\ UNCHANGED <<number, flag, healthy, accepted>>

TimePasses == Tick /\ UNCHANGED <<number, flag, status, healthy, accepted>>

Disturbance == healthy' = ~healthy /\ UNCHANGED <<config, timerState, status, accepted>>
-----------------------------------------------------------------------------
FtdcInit ==
  /\ Init
  /\ number = DefaultNumber
  /\ flag = DefaultFlag
  /\ Status!Init
  /\ healthy \in BOOLEAN
  /\ accepted = [key \in {} |-> 0]

FtdcNext ==
  \/ \E args \in LoadArguments : LoadsWith(args) \/ LoadRefused(args)
  \/ ModuleUnload
  \/ ProcessRestart
  \/ CommandRotate
  \/ CommandRead
  \/ CommandSetPath
  \/ \E key \in Flags \cup Numbers, text \in Text :
       CommandConfigSet(key, text) \/ CommandConfigRefused(key, text)
  \/ \E id \in TimerId : Callback(id)
  \/ TimePasses
  \/ Disturbance

\* As in FtdcTimer: time passes and due callbacks are run.
FtdcFairness ==
  /\ WF_ftdcVars(TimePasses)
  /\ \A id \in TimerId : WF_ftdcVars(Callback(id))

FtdcSpec == FtdcInit /\ [][FtdcNext]_ftdcVars /\ FtdcFairness
-----------------------------------------------------------------------------
(* Properties.                                                             *)

\* FTDC.CONFIG GET reports every setting as it was last given, at loading or
\* by FTDC.CONFIG SET, whatever was set since of the other settings and after
\* the way to bytes and back (src/ftdc.c:193-222, 309-317, 353-412;
\* tests/integration/module_test.go:444-449).  The exception are sizes whose
\* bytes do not fit a long long: they are accepted all the same.
Fits(n) == Wrapped(n * MB) = n * MB

AcceptedIsReported ==
  loaded => \A key \in DOMAIN accepted :
              (key \in Sizes => Fits(accepted[key])) => Reported(key) = accepted[key]

SetsInterval == \E text \in Text : CommandConfigSet("interval-ms", text)

\* The module recovers by itself: when the directory stays usable, sampling
\* enabled and the interval is not set over and over, samples are written
\* again and again with no command given, and no error is left
\* (src/ftdc.c:67-84, src/writer.c:49-61, 103).
RecordingResumes ==
  (<>[](loaded /\ enabled /\ healthy) /\ <>[][~SetsInterval]_ftdcVars)
    => /\ []<><<samples' # samples>>_ftdcVars
       /\ <>[](open /\ ~last_error)
=============================================================================
