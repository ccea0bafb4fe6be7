------------------------------ MODULE JsonText ------------------------------
(***************************************************************************)
(* How src/collector.c and src/hoststats_linux.c put JSON together.  A     *)
(* text is a sequence of symbols, as in FtdcScanner.                       *)
(***************************************************************************)
EXTENDS Integers, Sequences, SequencesExt

CONSTANT Control   \* characters below 0x20 other than \n, \r and \t

ControlOK ==
  "\f" \in Control /\ Control \cap {"\\", "\"", "\n", "\r", "\t"} = {}

ASSUME ControlAssumption == ControlOK

Blank == {" ", "\t", "\n", "\r", "\f"}
Figure == {"0", "1", "2", "3", "4", "5", "6", "7", "8", "9"}

EscapeChar(c) ==
  CASE c \in {"\\", "\""} -> <<"\\", c>>
    [] c = "\n" -> <<"\\", "n">>
    [] c = "\r" -> <<"\\", "r">>
    [] c = "\t" -> <<"\\", "t">>
    [] c \in Control -> <<"\\", "u", "00", c>>
    [] OTHER -> <<c>>

Escape(t) == FlattenSeq([i \in DOMAIN t |-> EscapeChar(t[i])])

JsonString(t) == <<"\"">> \o Escape(t) \o <<"\"">>

\* The texts at the kept positions with commas between them, inside brackets.
EnclosedAt(open, texts, kept, close) ==
  <<open>>
  \o FlattenSeq([i \in DOMAIN texts |->
                   IF i \notin kept THEN <<>>
                   ELSE (IF \E j \in kept : j < i THEN <<",">> ELSE <<>>) \o texts[i]])
  \o <<close>>

Enclosed(open, texts, close) == EnclosedAt(open, texts, DOMAIN texts, close)

Member(key, value) == JsonString(<<key>>) \o <<":">> \o value

\* members: a sequence of keys and the texts of their values.
Object(members) ==
  Enclosed("{", [i \in DOMAIN members |-> Member(members[i][1], members[i][2])],
           "}")

Array(texts) == Enclosed("[", texts, "]")
-----------------------------------------------------------------------------
(* Cutting texts.                                                          *)

\* The first position of a symbol, 0 if there is none.
IndexOf(c, t) == SelectInSeq(t, LAMBDA symbol : symbol = c)

\* Where the pieces begin that memchr finds: a separator at the end opens no
\* further piece.
Starts(t, c) == {i \in DOMAIN t : i = 1 \/ t[i - 1] = c}

PieceAt(t, c, i) ==
  LET rest == SubSeq(t, i, Len(t))
      cut == IndexOf(c, rest)
  IN  IF cut = 0 THEN rest ELSE SubSeq(rest, 1, cut - 1)

TrimEnd(t, C) == SubSeq(t, 1, Max({0} \cup {i \in DOMAIN t : t[i] \notin C}))

Trim(t) ==
  LET kept == {i \in DOMAIN t : t[i] \notin Blank}
  IN  IF kept = {} THEN <<>> ELSE SubSeq(t, Min(kept), Max(kept))
=============================================================================
