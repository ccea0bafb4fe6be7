---------------------------- MODULE FtdcCollector ----------------------------
(***************************************************************************)
(* ftdc_collect_sample (src/collector.c): one sample put together piece by *)
(* piece from the replies of the server and the files of the host.  Any    *)
(* call may be refused, any piece may fail for want of memory.  What the   *)
(* encoder finds in a sample is FtdcSampleScan's subject.                  *)
(***************************************************************************)
EXTENDS FtdcInfoText, FtdcHostStats

CONSTANTS
  Server,      \* external: what the server can show at a collection
  LatencyRows, \* external: replies to LATENCY LATEST
  SlowlogRows, \* external: replies to SLOWLOG GET 8
  Proc,        \* external: contents of /proc
  MayRefuse,   \* sections whose INFO call may be refused
  Symbol,      \* what texts are made of
  Secret       \* symbols only arguments of commands hold

VARIABLES
  config,     \* collect_slowlog, slowlog_redact, collect_host_stats
  server,     \* external: the state the replies are printed from
  proc,       \* external: the files of the host, NoFile on other systems
  buf,        \* text of the sample so far
  piece,      \* the next piece to append, 0 when no collection is running
  refused,    \* history: INFO sections the server did not answer
  sample      \* what the last collection handed out

collectorVars == <<config, server, proc, buf, piece, refused, sample>>

NoSample == <<>>
ShortRow == [short |-> TRUE]

\* Sections in the order they are asked for.
Sections == <<"server", "clients", "memory", "persistence", "stats",
              "replication", "cpu", "commandstats", "cluster">>

SlaveName == <<"slave0", "slave1">>

\* What the module writes of its own accord, and the names INFO prints.
Marks == {"{", "}", "[", "]", ":", ",", "\"", "\\", "n", "r", "t", "u", "00", ".", "?",
          "true", "false"}
Keys == {"ts_ms", "valkey", "info", "latency_latest", "slowlog", "host", "event",
         "max_ms", "latest_ms", "all_time_ms", "id", "ts", "duration_usec", "args",
         "len", "entries", "enabled", "supported", "available", "loadavg", "1m",
         "5m", "15m", "cpu", "memory", "disk", "diskstats", "network", "net_dev",
         "process", "status", "io"}
         \cup Range(CpuField) \cup Range(CountField)
Names == {"run_id", "process_id", "uptime_in_seconds", "config_file", "executable",
          "total_commands_processed", "instantaneous_input_kbps", "keyspace_hits",
          "role", "master_repl_offset", "cmdstat_get", "loading"}
         \cup Range(Sections) \cup Range(SlaveName)
Words == {"#", " ", "\r", "\n", "=", "ip", "w", "state", "online", "offset", "lag",
          "calls", "usec_per_call"}
Vocabulary == Marks \cup Figure \cup Keys \cup Names \cup Words

Text == Seq(Symbol)
Numeral == {t \in Text : IsNumberText(t)}   \* what %lld prints, and more

File(contents) == {NoFile} \cup contents

\* What replies and files are made of.
ServerOK(s) ==
  /\ {s.run_id, s.role, s.process_id, s.uptime, s.executable, s.commands, s.hits,
      s.offset} \subseteq Text
  /\ s.slaves \in Seq(Text) /\ Len(s.slaves) <= Len(SlaveName)
  /\ {s.now, s.slowlog_len} \subseteq Numeral

LatencyRowOK(row) ==
  row = ShortRow \/ /\ row.event \in Text
                    /\ {row.second, row.third, row.fourth} \subseteq Numeral

SlowlogRowOK(row) ==
  row = ShortRow \/ /\ row.args \in Seq(Seq(Symbol \cup Secret))
                    /\ {row.id, row.ts, row.duration} \subseteq Numeral

HostOK(host) ==
  /\ {host.loadavg, host.meminfo, host.diskstats, host.net_dev, host.status,
      host.io} \subseteq File(Text)
  /\ host.stat \in File(Seq(Text \ {<<>>}))

InputsOK ==
  /\ MayRefuse \subseteq Range(Sections)
  /\ Vocabulary \subseteq Symbol /\ Secret \cap Symbol = {}
  /\ Server # {} /\ \A s \in Server : ServerOK(s)
  /\ \A rows \in LatencyRows :
       rows \in Seq(Range(rows)) /\ \A i \in DOMAIN rows : LatencyRowOK(rows[i])
  /\ \A rows \in SlowlogRows :
       rows \in Seq(Range(rows)) /\ \A i \in DOMAIN rows : SlowlogRowOK(rows[i])
  /\ \A host \in Proc \ {NoFile} : HostOK(host)

ASSUME CollectorAssumption == InputsOK
-----------------------------------------------------------------------------
(* The server (external).  INFO prints a title line and a line per field.  *)

SlaveText(offset) ==
  <<"ip", "=", "w", ",", "state", "=", "online", ",", "offset", "=">> \o offset
  \o <<",", "lag", "=", "0">>

InfoFields(section) ==
  CASE section = "server" ->
         << <<"run_id", server.run_id>>, <<"process_id", server.process_id>>,
            <<"uptime_in_seconds", server.uptime>>, <<"config_file", <<>>>>,
            <<"executable", server.executable>> >>
    [] section = "stats" ->
         << <<"total_commands_processed", server.commands>>,
            <<"instantaneous_input_kbps", <<"0", ".", "7">>>>,
            <<"keyspace_hits", server.hits>> >>
    [] section = "replication" ->
         << <<"role", server.role>> >>
         \o [i \in DOMAIN server.slaves |->
               <<SlaveName[i], SlaveText(server.slaves[i])>>]
         \o << <<"master_repl_offset", server.offset>> >>
    [] section = "commandstats" ->
         << <<"cmdstat_get", <<"calls", "=", "7", ",", "usec_per_call", "=",
                               "7", ".", "0">> >> >>
    [] OTHER -> << <<"loading", <<"0">>>> >>

InfoReply(section) ==
  LET fields == InfoFields(section)
  IN  <<"#", " ", section, "\r", "\n">>
      \o FlattenSeq([i \in DOMAIN fields |->
                       <<fields[i][1], ":">> \o fields[i][2] \o <<"\r", "\n">>])
-----------------------------------------------------------------------------
(* The pieces of a sample.                                                 *)

\* A call without a usable reply leaves an empty list: rows = <<>>.
LatencyLatest(rows) ==
  LET Row(row) ==
        IF row = ShortRow THEN Object(<<>>)
        ELSE Object(<< <<"event", JsonString(row.event)>>,
                       <<"latest_ms", row.second>>, <<"max_ms", row.third>>,
                       <<"all_time_ms", row.fourth>> >>)
  IN  Array([i \in DOMAIN rows |-> Row(rows[i])])

RedactSlowlogArg(arg) == <<"?">>

SlowlogArgMutant(arg) ==   \* the switch is read the other way round
  JsonString(IF config.slowlog_redact THEN arg ELSE RedactSlowlogArg(arg))

SlowlogArg(arg) ==
  JsonString(IF config.slowlog_redact THEN RedactSlowlogArg(arg) ELSE arg)

Slowlog(rows) ==
  LET Row(row) ==
        IF row = ShortRow THEN Object(<<>>)
        ELSE Object(<< <<"id", row.id>>, <<"ts", row.ts>>,
                       <<"duration_usec", row.duration>>,
                       <<"args", Array([j \in DOMAIN row.args |->
                                          SlowlogArg(row.args[j])])>> >>)
      length == << <<"len", server.slowlog_len>> >>
      entries == << <<"entries", Array([i \in DOMAIN rows |-> Row(rows[i])])>> >>
  IN  Object(IF config.collect_slowlog THEN length \o entries ELSE length)

Host ==
  CASE ~config.collect_host_stats -> DisabledSection
    [] config.collect_host_stats /\ proc = NoFile -> StubSection
    [] OTHER -> HostSection(proc)

Part == <<"ts">> \o Sections \o <<"latency", "slowlog", "host">>

Open == <<"{">> \o Member("ts_ms", server.now) \o <<",">>
        \o JsonString(<<"valkey">>) \o <<":", "{">>
        \o JsonString(<<"info">>) \o <<":", "{">>

InfoSectionMutant(section, reply) ==   \* a comma before the first one too
  <<",">> \o Member(section, reply)

InfoSection(section, reply) ==
  (IF section = Sections[1] THEN <<>> ELSE <<",">>) \o Member(section, reply)

\* What may be appended as the given piece.
Texts(name) ==
  CASE name = "ts" -> {Open}
    [] name = "latency" ->
         {<<"}", ",">> \o Member("latency_latest", LatencyLatest(rows)) :
            rows \in LatencyRows}
    [] name = "slowlog" ->
         {<<",">> \o Member("slowlog", Slowlog(rows)) \o <<"}">> :
            rows \in SlowlogRows}
    [] name = "host" -> {<<",">> \o Member("host", Host) \o <<"}">>}
    [] OTHER -> {InfoSection(name, Section(InfoReply(name)))}
-----------------------------------------------------------------------------
Config == [collect_slowlog : BOOLEAN, slowlog_redact : BOOLEAN,
           collect_host_stats : BOOLEAN]

CollectorInit ==
  /\ config = [collect_slowlog |-> TRUE, slowlog_redact |-> TRUE,
               collect_host_stats |-> TRUE]
  /\ server = CHOOSE s \in Server : TRUE   \* not looked at before Begin
  /\ proc = NoFile
  /\ buf = <<>>
  /\ piece = 0
  /\ refused = {}
  /\ sample = NoSample

\* The next collection; since the last the server and the host have moved on,
\* and the configuration may have been changed.
Begin ==
  /\ piece = 0
  /\ piece' = 1
  /\ config' \in Config
  /\ server' \in Server
  /\ proc' \in Proc
  /\ refused' = {}
  /\ sample' = NoSample
  /\ UNCHANGED buf

\* The last piece hands the sample out.
Appended(text) ==
  IF piece < Len(Part)
  THEN buf' = buf \o text /\ piece' = piece + 1 /\ UNCHANGED sample
  ELSE buf' = <<>> /\ piece' = 0 /\ sample' = buf \o text

AppendPiece ==
  /\ piece # 0
  /\ \E text \in Texts(Part[piece]) : Appended(text)
  /\ UNCHANGED <<config, server, proc, refused>>

\* INFO fails or answers with something other than a text.
RefuseInfo ==
  /\ piece # 0
  /\ Part[piece] \in MayRefuse
  /\ Appended(InfoSection(Part[piece], Object(<<>>)))
  /\ refused' = refused \cup {Part[piece]}
  /\ UNCHANGED <<config, server, proc>>

\* oom: whatever is there is thrown away.
OutOfMemory ==
  /\ piece # 0
  /\ buf' = <<>>
  /\ piece' = 0
  /\ UNCHANGED <<config, server, proc, refused, sample>>

CollectorNext == Begin \/ AppendPiece \/ RefuseInfo \/ OutOfMemory

\* A collection runs to its end within one call on the server's thread.
CollectorSpec == CollectorInit /\ [][CollectorNext]_collectorVars
-----------------------------------------------------------------------------
\* While arguments are to be redacted, none of their characters is in a
\* sample, nor in the buffer of one that is still collected
\* (src/collector.c:385-389, README.md:139).
RedactedArgsStayOut ==
  config.slowlog_redact => Range(buf \o sample) \cap Secret = {}

\* The sample as one object, with no brace or comma of its own.
InfoValue(section) ==
  IF section \in refused THEN Object(<<>>) ELSE Section(InfoReply(section))

InfoObject == Object([i \in DOMAIN Sections |-> <<Sections[i], InfoValue(Sections[i])>>])

Valkey(latency, slowlog) ==
  Object(<< <<"info", InfoObject>>, <<"latency_latest", LatencyLatest(latency)>>,
            <<"slowlog", Slowlog(slowlog)>> >>)

WholeSample(latency, slowlog) ==
  Object(<< <<"ts_ms", server.now>>, <<"valkey", Valkey(latency, slowlog)>>,
            <<"host", Host>> >>)

\* The braces and commas of thirteen pieces, appended one by one, with calls
\* refused and collections broken off, come together to the documented object
\* (src/collector.c:411-441, README.md:61-77): every part at its place and once,
\* none left over from an earlier collection, and {} only where a call was
\* refused in this one.
SampleIsWhole ==
  sample # NoSample =>
    \E latency \in LatencyRows, slowlog \in SlowlogRows :
      sample = WholeSample(latency, slowlog)
=============================================================================
