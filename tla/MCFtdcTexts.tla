----------------------------- MODULE MCFtdcTexts -----------------------------
(***************************************************************************)
(* Small instances of FtdcTexts for TLC.                                   *)
(***************************************************************************)
EXTENDS FtdcTexts

MCControl == {"01", "\f"}
MCSymbol == STRING

\* Numbers, texts that need escapes, lists of pairs, and words.
MCAlphabets ==
  {{"0", "7", ".", "-", "+", "e"}, {"w", "\"", "\\", "\t"},
   {"w", "7", "=", ",", " "}, {"yes", "no", " ", "="}}

MCServer ==
  {[now |-> <<"7">>, run_id |-> <<"f", "0">>, process_id |-> <<"7", "0">>,
    uptime |-> <<"0">>, role |-> <<"master">>, commands |-> <<"7", "7">>,
    hits |-> <<"0">>, offset |-> <<"7">>, slaves |-> slaves,
    executable |-> <<"/", "w", " ", "w", "/", "w", " ", "w", "w", "/", "w">>,
    slowlog_len |-> <<"7">>] :
     slaves \in {<<>>, << <<"7">>, <<"0">> >>}}
  \cup
  {[now |-> <<"9">>, run_id |-> <<"0", "7">>, process_id |-> <<"7">>,
    uptime |-> <<"9">>, role |-> <<"slave">>, commands |-> <<"0">>,
    hits |-> <<"7">>, offset |-> <<"0">>, slaves |-> <<>>,
    executable |-> <<"w", "\\", "\"">>, slowlog_len |-> <<"0">>]}

MCLatencyRows ==
  {<<>>,
   <<[event |-> <<"command">>, second |-> <<"7">>, third |-> <<"7">>,
      fourth |-> <<"9">>], ShortRow>>}

SlowlogRow(args) ==
  [id |-> <<"7">>, ts |-> <<"9">>, duration |-> <<"7", "0">>, args |-> args]

\* Arguments hold quotes, line ends, a character below 0x20, and characters of
\* a secret.
MCSlowlogRows ==
  {<<>>, <<ShortRow>>}
  \cup {<<SlowlogRow(<< <<s, "01">> >>)>> : s \in Secret}
  \cup {<<SlowlogRow(<< <<s>>, <<"\"", s, "\n">> >>), SlowlogRow(<<>>)>> : s \in Secret}

MCProc ==
  {NoFile,
   [loadavg |-> <<"7", "0", "7", "w">>,
    stat |-> << <<"cpu", "7">>, <<"cpu", "7", "0", "9", "7", "0">>,
                <<"cpu0", "7", "0", "9", "7">>, <<"ctxt", "9">>, <<"w">> >>,
    meminfo |-> <<"MemTotal", ":", " ", "7", " ", "kB", "\n",
                  "w", ":", "w", "w", "w", "w", "w", "w", "w", "\n">>,
    diskstats |-> <<" ", "7", "\t", "\"", "\\", "\n", "w", "w", "w", "w">>,
    net_dev |-> NoFile,
    status |-> <<"Name", ":", "\t", "w", "\n">>,
    io |-> <<>>],
   [loadavg |-> <<"7", "w", "7">>, stat |-> << <<"cpu", "7">> >>,
    meminfo |-> NoFile, diskstats |-> <<>>, net_dev |-> <<"w", "|", "\n">>,
    status |-> NoFile, io |-> <<"rchar", ":", "7">>]}

MCRunId == {<<"a">>, <<"b", "7">>}
MCRole == {<<"master">>}

MCLeaf ==
  {[type |-> "string", text |-> <<"w", "\"">>],
   [type |-> "string", text |-> <<"\\", "\n">>],
   [type |-> "integer", text |-> <<"7">>],
   [type |-> "bool", text |-> <<"true">>],
   [type |-> "attribute", text |-> <<>>]}
=============================================================================
