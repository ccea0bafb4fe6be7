---------------------------- MODULE FtdcInfoText ----------------------------
(***************************************************************************)
(* How src/collector.c turns what INFO prints into JSON: a section into an *)
(* object with one member per line, a value into a literal, a number, an   *)
(* object of pairs or a string.                                            *)
(***************************************************************************)
EXTENDS JsonText

IsNumberTextMutant(t) ==   \* leading zeros are not looked for
  LET body == IF t # <<>> /\ t[1] \in {"-", "+"} THEN Tail(t) ELSE t
  IN  /\ body # <<>>
      /\ Range(body) \subseteq Figure \cup {"."}
      /\ Cardinality({i \in DOMAIN body : body[i] = "."}) <= 1
      /\ Last(body) # "."

IsNumberTextDotsMutant(t) ==   \* a second point is not looked for
  LET body == IF t # <<>> /\ t[1] \in {"-", "+"} THEN Tail(t) ELSE t
  IN  /\ body # <<>>
      /\ ~(Len(body) > 1 /\ body[1] = "0" /\ body[2] # ".")
      /\ Range(body) \subseteq Figure \cup {"."}
      /\ Last(body) # "."

IsNumberText(t) ==
  LET body == IF t # <<>> /\ t[1] \in {"-", "+"} THEN Tail(t) ELSE t
  IN  /\ body # <<>>
      /\ ~(Len(body) > 1 /\ body[1] = "0" /\ body[2] # ".")
      /\ Range(body) \subseteq Figure \cup {"."}
      /\ Cardinality({i \in DOMAIN body : body[i] = "."}) <= 1
      /\ Last(body) # "."

\* A pair k=v of a compound value.
IsPair(pair) ==
  LET t == Trim(pair)
      eq == IndexOf("=", t)
  IN  /\ eq \notin {0, 1, Len(t)}
      /\ Trim(SubSeq(t, 1, eq - 1)) # <<>>
      /\ Trim(SubSeq(t, eq + 1, Len(t))) # <<>>

\* Two pairs or more.
IsCompound(t) ==
  /\ Cardinality(Starts(t, ",")) >= 2
  /\ \A i \in Starts(t, ",") : IsPair(PieceAt(t, ",", i))

\* A value that is no list of pairs.
Scalar(text) ==
  LET t == Trim(text)
  IN  CASE t = <<"yes">> -> <<"true">>
        [] t = <<"no">> -> <<"false">>
        [] IsNumberText(t) -> t
        [] OTHER -> JsonString(t)

\* What is between commas is no list of pairs itself.
PairText(pair) ==
  LET p == Trim(pair)
      eq == IndexOf("=", p)
  IN  JsonString(Trim(SubSeq(p, 1, eq - 1))) \o <<":">>
      \o Scalar(SubSeq(p, eq + 1, Len(p)))

Compound(t) ==
  EnclosedAt("{", [i \in DOMAIN t |-> PairText(PieceAt(t, ",", i))],
             Starts(t, ","), "}")

\* A list of pairs is neither a literal nor a number.
Value(text) ==
  LET t == Trim(text)
  IN  IF IsCompound(t) THEN Compound(t) ELSE Scalar(text)

\* The lines of a section that carry a field.
IsField(line) ==
  /\ line # <<>>
  /\ line[1] \notin {"#", "\r"}
  /\ ":" \in Range(line)

FieldText(line) ==
  LET colon == IndexOf(":", line)
  IN  JsonString(SubSeq(line, 1, colon - 1)) \o <<":">>
      \o Value(TrimEnd(SubSeq(line, colon + 1, Len(line)), {"\r", "\n"}))

Section(payload) ==
  EnclosedAt("{", [i \in DOMAIN payload |-> FieldText(PieceAt(payload, "\n", i))],
             {i \in Starts(payload, "\n") : IsField(PieceAt(payload, "\n", i))}, "}")
=============================================================================
