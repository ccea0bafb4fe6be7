---------------------------- MODULE FtdcHostStats ----------------------------
(***************************************************************************)
(* The host section of a sample: src/hoststats_linux.c over the files of   *)
(* /proc, and src/hoststats_stub.c where there is no /host.  A file is a   *)
(* sequence of symbols; the two files read with scanf are sequences of     *)
(* lines, a line a sequence of words.                                      *)
(***************************************************************************)
EXTENDS JsonText

CONSTANTS
  NoFile,     \* what fopen finds of a file that is not there
  LineCap,    \* characters of char line[512], its terminator included
  BlobLimit,  \* characters kept of a file copied as one text
  Number      \* words scanf takes for a number: whole ones here

HostLimitsOK ==
  LineCap \in Nat \ {0, 1} /\ BlobLimit \in Nat /\ Number \subseteq Figure

ASSUME HostAssumption == HostLimitsOK

Unavailable == Object(<< <<"available", <<"false">>>> >>)

\* fgets: a line ends after its newline or where the array is full.
NewlineBefore(t, i) == Max({0} \cup {j \in 1..(i - 1) : t[j] = "\n"})

LineStarts(t) ==
  {i \in DOMAIN t : (i - 1 - NewlineBefore(t, i)) % (LineCap - 1) = 0}

LineAt(t, i) ==
  LET read == SubSeq(t, i, Min({Len(t), i + LineCap - 2}))
      newline == IndexOf("\n", read)
  IN  IF newline = 0 THEN read ELSE SubSeq(read, 1, newline)

LineText(line) ==
  LET colon == IndexOf(":", line)
  IN  JsonString(SubSeq(line, 1, colon - 1)) \o <<":">>
      \o JsonString(Trim(SubSeq(line, colon + 1, Len(line))))

\* append_file_string_object: the lines "key: value" of a file.
StringObject(file) ==
  IF file = NoFile THEN Unavailable
  ELSE EnclosedAt("{", [i \in DOMAIN file |-> LineText(LineAt(file, i))],
                  {i \in LineStarts(file) : IndexOf(":", LineAt(file, i)) # 0}, "}")

\* append_file_blob: the beginning of a file, cut before it is escaped.
Blob(file) ==
  IF file = NoFile THEN JsonString(<<>>)
  ELSE JsonString(SubSeq(file, 1, Min({Len(file), BlobLimit})))

\* %.2f of a whole number.
TwoDecimals(word) == <<word, ".", "0", "0">>

LoadAvg(file) ==
  IF file = NoFile \/ Len(file) < 3 \/ \E i \in 1..3 : file[i] \notin Number
  THEN Unavailable
  ELSE Object(<< <<"available", <<"true">>>>, <<"1m", TwoDecimals(file[1])>>,
                 <<"5m", TwoDecimals(file[2])>>, <<"15m", TwoDecimals(file[3])>> >>)
-----------------------------------------------------------------------------
(* /proc/stat.                                                             *)

CpuField == <<"user", "nice", "system", "idle", "iowait", "irq", "softirq",
              "steal", "guest", "guest_nice">>
CountField == <<"ctxt", "processes", "procs_running", "procs_blocked">>

\* How many numbers sscanf converts after the first word of a line.
Matched(line) ==
  Min({i \in 2..(Len(line) + 1) : i > Len(line) \/ line[i] \notin Number}) - 2

\* The line of all processors, with the fields every kernel prints.
IsCpu(line) == line[1] = "cpu" /\ Matched(line) >= 4

\* A number of a line, 0 if there is no such line or it ends before.
NumberOf(line, i) == IF i <= Matched(line) THEN <<line[i + 1]>> ELSE <<"0">>

CpuMembers(line) == [i \in DOMAIN CpuField |-> <<CpuField[i], NumberOf(line, i)>>]

\* The last line of a counter counts.
CountLines(file, name) ==
  {i \in DOMAIN file : file[i][1] = name /\ Matched(file[i]) >= 1}

Count(file, name) ==
  IF CountLines(file, name) = {} THEN <<"0">>
  ELSE NumberOf(file[Max(CountLines(file, name))], 1)

CountMembers(file) ==
  [i \in DOMAIN CountField |-> <<CountField[i], Count(file, CountField[i])>>]

CpuLines(file) == {i \in DOMAIN file : IsCpu(file[i])}

ProcStat(file) ==
  IF file = NoFile \/ CpuLines(file) = {} THEN Unavailable
  ELSE Object(<< <<"available", <<"true">>>> >>
              \o CpuMembers(file[Min(CpuLines(file))]) \o CountMembers(file))

HostSection(host) ==
  Object(<< <<"supported", <<"true">>>>,
            <<"loadavg", LoadAvg(host.loadavg)>>,
            <<"cpu", ProcStat(host.stat)>>,
            <<"memory", StringObject(host.meminfo)>>,
            <<"disk", Object(<< <<"diskstats", Blob(host.diskstats)>> >>)>>,
            <<"network", Object(<< <<"net_dev", Blob(host.net_dev)>> >>)>>,
            <<"process", Object(<< <<"status", StringObject(host.status)>>,
                                   <<"io", StringObject(host.io)>> >>)>> >>)

\* hoststats_stub.c, and the part of a sample without host statistics.
StubSection == Object(<< <<"supported", <<"false">>>> >>)
DisabledSection == Object(<< <<"enabled", <<"false">>>> >>)
=============================================================================
