----------------------------- MODULE FtdcScanner -----------------------------
(***************************************************************************)
(* The scanner of src/delta.c: the encoder reads the text of a sample back *)
(* to find its counters and its identity, and refuses a sample it cannot   *)
(* read.                                                                   *)
(*                                                                         *)
(* A text is a sequence of symbols.  A symbol is a significant character   *)
(* (a quote, a brace, a digit, ...) or a word of ordinary characters, which*)
(* counts as one character for the fixed-size arrays of the code.  A scan  *)
(* returns the position after what it read; 0 is the code's -1.  The       *)
(* operators are recursive where the C functions are, so nothing here is   *)
(* proved about.                                                           *)
(***************************************************************************)
EXTENDS Integers, Sequences, SequencesExt

CONSTANTS
  KeyCap,    \* characters of char key[128], its terminator included
  PathCap,   \* of char path[256]
  TextCap,   \* of char tmp[256]
  SlaveKey   \* words that start with "slave"

ASSUME CapsAssumption == {KeyCap, PathCap, TextCap} \subseteq Nat \ {0}

Failed == 0
Digit == {"0", "1", "2", "3", "4", "5", "6", "7", "8", "9"}
Space == {" ", "\t", "\n", "\r", "\f"}

\* The symbol at p; "" is the terminator of the text.
At(s, p) == IF p \in DOMAIN s THEN s[p] ELSE ""

\* The first position from p on whose symbol is not in C.
RECURSIVE After(_, _, _)
After(s, p, C) == IF At(s, p) \in C THEN After(s, p + 1, C) ELSE p

SkipWs(s, p) == After(s, p, Space)
-----------------------------------------------------------------------------
(* Strings.                                                                *)

\* What follows a backslash, and the character it stands for.
Unescaped == [c \in {"\"", "\\", "/", "b", "f", "n", "r", "t"} |->
                CASE c = "n" -> "\n" [] c = "r" -> "\r" [] c = "t" -> "\t"
                  [] c = "f" -> "\f" [] OTHER -> c]

NoString == [end |-> Failed, str |-> <<>>]

\* The rest of a string whose characters so far are str; where limit is 0
\* nothing is stored and any length will do.
RECURSIVE StringBody(_, _, _, _)
StringBody(s, p, limit, str) ==
  LET escaped == At(s, p) = "\\"
      at == IF escaped THEN p + 1 ELSE p
      ch == At(s, at)
  IN  IF ~escaped /\ ch = "\"" THEN [end |-> p + 1, str |-> str]
      ELSE IF \/ ch = ""
              \/ escaped /\ ch \notin DOMAIN Unescaped
              \/ limit # 0 /\ Len(str) + 1 >= limit
      THEN NoString
      ELSE StringBody(s, at + 1, limit,
                      Append(str, IF escaped THEN Unescaped[ch] ELSE ch))

ParseString(s, p, limit) ==
  IF At(s, p) = "\"" THEN StringBody(s, p + 1, limit, <<>>) ELSE NoString
-----------------------------------------------------------------------------
(* Numbers.                                                                *)

\* Where strtoll stops; Failed if there is no digit to convert.
StrtollEnd(s, p) ==
  LET digits == IF At(s, p) \in {"-", "+"} THEN p + 1 ELSE p
      end == After(s, digits, Digit)
  IN  IF end = digits THEN Failed ELSE end

\* Where strtod stops.
StrtodEnd(s, p) ==
  LET digits == IF At(s, p) \in {"-", "+"} THEN p + 1 ELSE p
      int == After(s, digits, Digit)
      frac == IF At(s, int) = "." THEN After(s, int + 1, Digit) ELSE int
      exp == IF At(s, frac) \in {"e", "E"} THEN StrtollEnd(s, frac + 1) ELSE Failed
  IN  IF int = digits /\ frac <= int + 1 THEN Failed
      ELSE IF exp # Failed THEN exp ELSE frac

StartsNumber(ch) == ch \in Digit \cup {"-"}
Literal == {"true", "false", "null"}
-----------------------------------------------------------------------------
(* Values nobody looks into.                                               *)

RECURSIVE SkipValue(_, _)

RECURSIVE Elements(_, _)
Elements(s, p) ==
  LET v == SkipValue(s, p)
      q == SkipWs(s, v)
  IN  IF v = Failed THEN Failed
      ELSE CASE At(s, q) = "]" -> q + 1
             [] At(s, q) = "," -> Elements(s, SkipWs(s, q + 1))
             [] OTHER -> Failed

SkipArray(s, p) ==
  LET q == SkipWs(s, p + 1)
  IN  IF At(s, q) = "]" THEN q + 1 ELSE Elements(s, q)

RECURSIVE Members(_, _)
AfterMember(s, v) ==
  LET q == SkipWs(s, v)
  IN  CASE v # Failed /\ At(s, q) = "}" -> q + 1
        [] v # Failed /\ At(s, q) = "," -> Members(s, SkipWs(s, q + 1))
        [] OTHER -> Failed

Members(s, p) ==
  LET key == ParseString(s, p, TextCap).end
      colon == SkipWs(s, key)
  IN  IF key = Failed \/ At(s, colon) # ":" THEN Failed
      ELSE AfterMember(s, SkipValue(s, SkipWs(s, colon + 1)))

SkipObject(s, p) ==
  LET q == SkipWs(s, p + 1)
  IN  IF At(s, q) = "}" THEN q + 1 ELSE Members(s, q)

SkipValue(s, p) ==
  LET q == SkipWs(s, p)
  IN  CASE At(s, q) = "\"" -> ParseString(s, q, TextCap).end
        [] At(s, q) = "{" -> SkipObject(s, q)
        [] At(s, q) = "[" -> SkipArray(s, q)
        [] StartsNumber(At(s, q)) -> StrtodEnd(s, q)
        [] At(s, q) \in Literal -> q + 1
        [] OTHER -> Failed
-----------------------------------------------------------------------------
(* The flat view of a sample: what the encoder remembers of it.  A path is *)
(* the sequence of keys that leads to a value, joined by ".".              *)

Info(section) == <<"valkey", ".", "info", ".", section, ".">>

MonotonicStats ==
  {"total_commands_processed", "total_connections_received", "keyspace_hits",
   "keyspace_misses", "expired_keys", "evicted_keys", "rejected_connections"}

MetricIsMonotonic(path) ==
  \/ \E m \in MonotonicStats : path = Append(Info("stats"), m)
  \/ path = Append(Info("replication"), "master_repl_offset")
  \/ /\ Len(path) > 6
     /\ IsPrefix(Info("replication"), path)
     /\ path[7] \in SlaveKey
     /\ IsSuffix(<<".", "offset">>, path)

\* A number is kept as its text; <<>> is the 0 or "" of a field not noted.
EmptyFlat == [ts_ms |-> <<>>, run_id |-> <<>>, role |-> <<>>,
              process_id |-> <<>>, uptime_in_seconds |-> <<>>,
              valid |-> FALSE, metrics |-> [path \in {} |-> <<>>]]

NotedString(path) ==
  path \in {Append(Info("server"), "run_id"), Append(Info("replication"), "role")}

NoteString(flat, path, text) ==
  IF path = Append(Info("server"), "run_id")
  THEN [flat EXCEPT !.run_id = text, !.valid = TRUE]
  ELSE [flat EXCEPT !.role = text]

\* metric_state_set: the last value of a path counts.
AddMetric(flat, path, number) ==
  IF MetricIsMonotonic(path)
  THEN [flat EXCEPT !.metrics =
          [q \in DOMAIN @ \cup {path} |-> IF q = path THEN number ELSE @[q]]]
  ELSE flat

NoteNumber(flat, path, number) ==
  LET noted == [flat EXCEPT !.valid = TRUE]
  IN  AddMetric(
        CASE path = <<"ts_ms">> -> [noted EXCEPT !.ts_ms = number]
          [] path = Append(Info("server"), "process_id") ->
               [noted EXCEPT !.process_id = number]
          [] path = Append(Info("server"), "uptime_in_seconds") ->
               [noted EXCEPT !.uptime_in_seconds = number]
          [] OTHER -> flat,
        path, number)

\* A number with a fraction or an exponent is read and not noted.
FlatNumber(s, p, flat, path) ==
  LET int == StrtollEnd(s, p)
      tail == After(s, int, Digit \cup {"+", "-"})
  IN  IF int = Failed THEN [end |-> Failed, flat |-> flat]
      ELSE IF At(s, tail) \in {".", "e", "E"}
      THEN [end |-> StrtodEnd(s, p), flat |-> flat]
      ELSE [end |-> tail, flat |-> NoteNumber(flat, path, SubSeq(s, p, int - 1))]

FlatStringMutant(s, p, flat, path) ==   \* every string is stored in tmp
  LET read == ParseString(s, p, TextCap)
  IN  [end |-> read.end,
       flat |-> IF NotedString(path) /\ read.end # Failed
                THEN NoteString(flat, path, read.str) ELSE flat]

FlatString(s, p, flat, path) ==
  LET noted == NotedString(path)
      read == ParseString(s, p, IF noted THEN TextCap ELSE 0)
  IN  [end |-> read.end,
       flat |-> IF noted /\ read.end # Failed
                THEN NoteString(flat, path, read.str) ELSE flat]

RECURSIVE FlatObject(_, _, _, _)

FlatValue(s, p, flat, path) ==
  LET q == SkipWs(s, p)
  IN  CASE At(s, q) = "{" -> FlatObject(s, q, flat, path)
        [] At(s, q) = "[" -> [end |-> SkipArray(s, q), flat |-> flat]
        [] At(s, q) = "\"" -> FlatString(s, q, flat, path)
        [] StartsNumber(At(s, q)) -> FlatNumber(s, q, flat, path)
        [] At(s, q) \in Literal -> [end |-> q + 1, flat |-> flat]
        [] OTHER -> [end |-> Failed, flat |-> flat]

Joined(path, key) == (IF path = <<>> THEN path ELSE Append(path, ".")) \o key

RECURSIVE FlatMembers(_, _, _, _)
AfterFlatMember(s, v, path) ==
  LET q == SkipWs(s, v.end)
  IN  CASE v.end # Failed /\ At(s, q) = "}" -> [v EXCEPT !.end = q + 1]
        [] v.end # Failed /\ At(s, q) = "," ->
             FlatMembers(s, SkipWs(s, q + 1), v.flat, path)
        [] OTHER -> [v EXCEPT !.end = Failed]

FlatMembers(s, p, flat, path) ==
  LET key == ParseString(s, p, KeyCap)
      inner == Joined(path, key.str)
      colon == SkipWs(s, key.end)
  IN  IF key.end = Failed \/ Len(inner) >= PathCap \/ At(s, colon) # ":"
      THEN [end |-> Failed, flat |-> flat]
      ELSE AfterFlatMember(s, FlatValue(s, colon + 1, flat, inner), path)

FlatObject(s, p, flat, path) ==
  LET q == SkipWs(s, p + 1)
  IN  IF At(s, p) # "{" THEN [end |-> Failed, flat |-> flat]
      ELSE IF At(s, q) = "}" THEN [end |-> q + 1, flat |-> flat]
      ELSE FlatMembers(s, q, flat, path)

FlatSample(s) == FlatObject(s, 1, EmptyFlat, <<>>)
=============================================================================
