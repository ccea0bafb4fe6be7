--------------------------- MODULE FtdcInfoValues ---------------------------
(***************************************************************************)
(* Every value INFO could print over small alphabets, written by the       *)
(* collector and read back by the scanner of the encoder: the two sides of *)
(* an unwritten agreement, in src/collector.c and src/delta.c.             *)
(***************************************************************************)
EXTENDS FtdcInfoText, FtdcScanner

CONSTANTS
  Alphabets,  \* a value is spelled in one of these
  MaxValue    \* bound: symbols of a value

VARIABLE printed

ValuesInit == printed = <<>>

Spell(alphabet) ==
  /\ Len(printed) < MaxValue
  /\ Range(printed) \subseteq alphabet
  /\ \E c \in alphabet : printed' = Append(printed, c)

ValuesNext == \E alphabet \in Alphabets : Spell(alphabet)
-----------------------------------------------------------------------------
\* The value as the field ts_ms of a sample, and what the encoder makes of it.
Sample == Object(<< <<"ts_ms", Value(printed)>> >>)
Read == FlatSample(Sample)

\* What is_number_text_n takes for a number and JSON does not: a leading plus
\* sign, no figures before the point.  The server prints none of its own
\* numbers this way; a field that shows a configured name may.
IsOdd(t) ==
  LET body == IF t[1] \in {"-", "+"} THEN Tail(t) ELSE t
  IN  IsNumberText(t) /\ (t[1] = "+" \/ body[1] = ".")

\* Whatever INFO prints for a field, the text the collector makes of it is
\* one value to the encoder, but for odd numbers: the scan of the sample
\* (src/delta.c:469-477) ends where the sample ends, so no other value makes
\* the encoder refuse the sample or read part of the value as something else.
ReadBackWhole == Read.end = Len(Sample) + 1 <=> ~IsOdd(Trim(printed))

\* The encoder finds a number exactly where INFO printed an integer of JSON,
\* and it is that number: not one of a text that only starts with figures,
\* nor one with a fraction (src/collector.c:114-142, src/delta.c:380-400).
IsInteger(t) ==
  LET body == IF t # <<>> /\ t[1] = "-" THEN Tail(t) ELSE t
  IN  body # <<>> /\ Range(body) \subseteq Figure
      /\ (body[1] = "0" => Len(body) = 1)

IntegersAreNoted ==
  Read.flat.ts_ms = IF IsInteger(Trim(printed)) THEN Trim(printed) ELSE <<>>

\* A value written as a string is the text INFO printed, without the blanks
\* around it: unescaping undoes escaping (src/collector.c:67-98,
\* src/delta.c:108-163).
StringsSurvive ==
  At(Value(printed), 1) = "\"" =>
    ParseString(Value(printed), 1, 0) = [end |-> Len(Value(printed)) + 1,
                                      str |-> Trim(printed)]

\* Whatever INFO prints for a field, the encoder reads what was printed.
ValuesReadBack == ReadBackWhole /\ IntegersAreNoted /\ StringsSurvive
=============================================================================
