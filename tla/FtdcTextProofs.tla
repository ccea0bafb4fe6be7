--------------------------- MODULE FtdcTextProofs ---------------------------
(***************************************************************************)
(* That every sample is the documented object and one JSON value, that no  *)
(* redacted argument is in it, and that no text is written past the memory *)
(* of its buffer: for every reply of the server, every file of the host,   *)
(* every refusal and every failure.                                        *)
(*                                                                         *)
(* JSON is a grammar here: Json(S) is the least set of texts of symbols S  *)
(* that is closed under its rules.  The proof goes from what a text is     *)
(* made of to what is made of it: sequences put one after the other, texts *)
(* with commas between them, the values of INFO and of the host's files,   *)
(* whole replies, and at last the buffer of the collector piece by piece.  *)
(***************************************************************************)
EXTENDS FtdcBuffer, FtdcCollector, SequenceTheorems, WellFoundedInduction,
        FiniteSetTheorems, TLAPS

(* Positions.                                                              *)

\* A set of positions has a first one.
LEMMA FirstIndex ==
  ASSUME NEW at \in SUBSET Nat, at # {}
  PROVE  Min(at) \in at /\ \A j \in at : Min(at) <= j
<1>1. PICK k \in at : \A m \in at : <<m, k>> \notin OpToRel(<, Nat)
  BY NatLessThanWellFounded, WFMin
<1>2. \A m \in at : k <= m
  <2>. SUFFICES ASSUME NEW m \in at, m < k PROVE FALSE
    OBVIOUS
  <2>1. <<m, k>> \in OpToRel(<, Nat)
    BY DEF OpToRel
  <2>. QED BY <2>1, <1>1
<1>. QED BY <1>2 DEF Min

\* A set of positions of a sequence has a last one.
LEMMA LastIndex ==
  ASSUME NEW n \in Nat, NEW at \in SUBSET (0..n), at # {}
  PROVE  Max(at) \in at /\ \A j \in at : j <= Max(at)
<1>. DEFINE left == {n - i : i \in at}
<1>0. \A i \in at : i \in Nat /\ n - i \in Nat
  OBVIOUS
<1>1. left \in SUBSET Nat /\ left # {}
  BY <1>0
<1>2. PICK k \in left : \A m \in left : k <= m
  <2>. HIDE DEF left
  <2>. QED BY <1>1, FirstIndex
<1>3. PICK i \in at : k = n - i
  BY <1>2
<1>4. ASSUME NEW j \in at PROVE i >= j
  <2>1. n - i <= n - j
    BY <1>2, <1>3
  <2>2. i \in Int /\ j \in Int
    OBVIOUS
  <2>. HIDE DEF left
  <2>. QED BY <2>1, <2>2
<1>. HIDE DEF left
<1>5. \A j \in at : Max(at) >= j
  BY <1>4 DEF Max
<1>6. Max(at) \in at
  BY <1>4 DEF Max
<1>. QED BY <1>5, <1>6

\* What holds of the first position and goes on from each to the next holds
\* of all.
LEMMA IndexInduction ==
  ASSUME NEW n \in Nat, NEW G, n > 0 => 1 \in G,
         \A i \in 1..(n - 1) : i \in G => i + 1 \in G
  PROVE  1..n \subseteq G
<1>. DEFINE Bad == (1..n) \ G
<1>. SUFFICES ASSUME Bad # {} PROVE FALSE
  OBVIOUS
<1>1. PICK k \in Bad : \A m \in Bad : k <= m
  <2>1. Bad \in SUBSET Nat
    OBVIOUS
  <2>. HIDE DEF Bad
  <2>. QED BY <2>1, FirstIndex
<1>2. k # 1
  BY <1>1
<1>3. k - 1 \in 1..(n - 1) /\ k - 1 \notin Bad
  BY <1>1, <1>2
<1>4. (k - 1) + 1 \in G
  BY <1>3
<1>. QED BY <1>1, <1>4
-----------------------------------------------------------------------------
(* Sequences put one after the other.                                      *)

\* f[i] is the first i of the sequences.
Flattens(f, seqs, n) ==
  f = [i \in 1..n |-> IF i = 1 THEN seqs[i] ELSE f[i - 1] \o seqs[i]]

LEMMA FlattenExists ==
  ASSUME NEW n \in Nat \ {0}, NEW seqs
  PROVE  \E f : Flattens(f, seqs, n)
<1>. DEFINE G == {k \in 1..n : \E f : Flattens(f, seqs, k)}
<1>1. 1 \in G
  <2>. DEFINE f == [i \in 1..1 |-> seqs[1]]
  <2>1. f = [i \in 1..1 |-> IF i = 1 THEN seqs[i] ELSE f[i - 1] \o seqs[i]]
    OBVIOUS
  <2>2. Flattens(f, seqs, 1)
    <3>. HIDE DEF f
    <3>. QED BY <2>1 DEF Flattens
  <2>. HIDE DEF f
  <2>. QED BY <2>2
<1>2. ASSUME NEW k \in 1..(n - 1), k \in G
      PROVE  k + 1 \in G
  <2>1. PICK f : f = [i \in 1..k |-> IF i = 1 THEN seqs[i] ELSE f[i - 1] \o seqs[i]]
    BY <1>2 DEF Flattens
  <2>. DEFINE g == [i \in 1..(k + 1) |-> IF i = k + 1 THEN f[k] \o seqs[i] ELSE f[i]]
  <2>2. \A i \in 1..k : f[i] = IF i = 1 THEN seqs[i] ELSE f[i - 1] \o seqs[i]
    BY <2>1
  <2>3. ASSUME NEW i \in 1..(k + 1)
        PROVE  g[i] = IF i = 1 THEN seqs[i] ELSE g[i - 1] \o seqs[i]
    <3>1. CASE i = k + 1
      <4>1. i - 1 = k /\ k \in 1..(k + 1) /\ k # k + 1 /\ i # 1
        BY <3>1
      <4>2. g[i] = f[k] \o seqs[i]
        BY <3>1
      <4>3. g[k] = f[k]
        BY <4>1
      <4>. HIDE DEF g
      <4>. QED BY <4>1, <4>2, <4>3
    <3>2. CASE i # k + 1
      <4>1. i \in 1..k /\ g[i] = f[i]
        BY <3>2
      <4>2. i # 1 => g[i - 1] = f[i - 1]
        BY <3>2
      <4>. HIDE DEF g
      <4>. QED BY <4>1, <4>2, <2>2
    <3>. QED BY <3>1, <3>2
  <2>4. g = [i \in 1..(k + 1) |-> g[i]]
    OBVIOUS
  <2>5. Flattens(g, seqs, k + 1)
    <3>. HIDE DEF g
    <3>. QED BY <2>3, <2>4 DEF Flattens
  <2>. HIDE DEF g
  <2>. QED BY <2>5
<1>3. 1..n \subseteq G
  <2>. HIDE DEF G
  <2>. QED BY <1>1, <1>2, IndexInduction
<1>. QED BY <1>3

\* There is such an f, and it ends with all of the sequences.
LEMMA FlattenSeqDef ==
  ASSUME NEW seqs, Len(seqs) \in Nat
  PROVE  /\ Len(seqs) = 0 => FlattenSeq(seqs) = seqs
         /\ Len(seqs) > 0 => \E f : /\ Flattens(f, seqs, Len(seqs))
                                    /\ FlattenSeq(seqs) = f[Len(seqs)]
<1>. DEFINE n == Len(seqs)
            c == CHOOSE f : Flattens(f, seqs, n)
<1>1. Len(seqs) = 0 => FlattenSeq(seqs) = seqs
  BY DEF FlattenSeq
<1>2. ASSUME Len(seqs) > 0
      PROVE  Flattens(c, seqs, n) /\ FlattenSeq(seqs) = c[n]
  <2>1. Flattens(c, seqs, n)
    BY <1>2, FlattenExists
  <2>2. FlattenSeq(seqs) = c[n]
    BY <1>2 DEF FlattenSeq, Flattens
  <2>. QED BY <2>1, <2>2
<1>. QED BY <1>1, <1>2

LEMMA FlattensType ==
  ASSUME NEW S, NEW seqs \in Seq(Seq(S)), NEW f, Flattens(f, seqs, Len(seqs))
  PROVE  \A i \in 1..Len(seqs) : f[i] \in Seq(S)
<1>. DEFINE n == Len(seqs)
            G == {i \in 1..n : f[i] \in Seq(S)}
<1>1. n \in Nat /\ \A i \in 1..n : seqs[i] \in Seq(S)
  BY LenProperties
<1>2. \A i \in 1..n : f[i] = IF i = 1 THEN seqs[i] ELSE f[i - 1] \o seqs[i]
  BY DEF Flattens
<1>3. n > 0 => 1 \in G
  BY <1>1, <1>2
<1>4. ASSUME NEW i \in 1..(n - 1), i \in G
      PROVE  i + 1 \in G
  <2>1. i + 1 \in 1..n /\ i + 1 # 1 /\ (i + 1) - 1 = i
    BY <1>1
  <2>2. f[i + 1] = f[i] \o seqs[i + 1]
    BY <1>2, <2>1
  <2>3. f[i] \in Seq(S) /\ seqs[i + 1] \in Seq(S)
    BY <1>1, <1>4, <2>1
  <2>4. f[i] \o seqs[i + 1] \in Seq(S)
    BY <2>3, ConcatProperties
  <2>. QED BY <2>1, <2>2, <2>4
<1>5. 1..n \subseteq G
  <2>. HIDE DEF G, n
  <2>. QED BY <1>1, <1>3, <1>4, IndexInduction
<1>. QED BY <1>5

LEMMA FlattenSeqType ==
  ASSUME NEW S, NEW seqs \in Seq(Seq(S))
  PROVE  FlattenSeq(seqs) \in Seq(S)
<1>1. Len(seqs) \in Nat /\ (Len(seqs) = 0 => seqs = <<>>)
  BY LenProperties, EmptySeq
<1>2. CASE Len(seqs) = 0
  <2>1. FlattenSeq(seqs) = <<>>
    BY <1>2, FlattenSeqDef
  <2>. QED BY ONLY <2>1
<1>3. CASE Len(seqs) > 0
  <2>1. PICK f : Flattens(f, seqs, Len(seqs)) /\ FlattenSeq(seqs) = f[Len(seqs)]
    BY <1>1, <1>3, FlattenSeqDef
  <2>2. Len(seqs) \in 1..Len(seqs)
    BY <1>1, <1>3
  <2>. QED BY <2>1, <2>2, FlattensType
<1>. QED BY <1>1, <1>2, <1>3

LEMMA FlattenAppend ==
  ASSUME NEW S, NEW seqs \in Seq(Seq(S)), NEW s \in Seq(S)
  PROVE  FlattenSeq(Append(seqs, s)) = FlattenSeq(seqs) \o s
<1>. DEFINE n == Len(seqs)
            t == Append(seqs, s)
<1>1. /\ n \in Nat /\ (n = 0 => seqs = <<>>)
      /\ t \in Seq(Seq(S)) /\ Len(t) = n + 1 /\ t[n + 1] = s
      /\ \A i \in 1..n : t[i] = seqs[i]
  BY LenProperties, EmptySeq, AppendProperties
<1>. HIDE DEF t
<1>2. PICK f : Flattens(f, t, n + 1) /\ FlattenSeq(t) = f[n + 1]
  <2>1. Len(t) \in Nat /\ Len(t) > 0
    BY <1>1
  <2>. QED BY <1>1, <2>1, FlattenSeqDef
<1>3. \A i \in 1..(n + 1) : f[i] = IF i = 1 THEN t[i] ELSE f[i - 1] \o t[i]
  BY <1>2 DEF Flattens
<1>4. CASE n = 0
  <2>1. f[1] = s
    BY <1>1, <1>3, <1>4
  <2>2. FlattenSeq(seqs) = <<>>
    BY <1>1, <1>4, FlattenSeqDef
  <2>3. <<>> \o s = s
    BY ConcatEmptySeq
  <2>. QED BY <1>2, <1>4, <2>1, <2>2, <2>3 DEF t
<1>5. CASE n > 0
  <2>1. PICK g : Flattens(g, seqs, n) /\ FlattenSeq(seqs) = g[n]
    BY <1>1, <1>5, FlattenSeqDef
  <2>2. \A i \in 1..n : g[i] = IF i = 1 THEN seqs[i] ELSE g[i - 1] \o seqs[i]
    BY <2>1 DEF Flattens
  <2>. DEFINE G == {i \in 1..n : f[i] = g[i]}
  <2>3. 1 \in G
    BY <1>1, <1>3, <1>5, <2>2
  <2>4. ASSUME NEW i \in 1..(n - 1), i \in G
        PROVE  i + 1 \in G
    <3>1. i + 1 \in 1..n /\ i + 1 \in 1..(n + 1) /\ i + 1 # 1 /\ (i + 1) - 1 = i
      BY <1>1
    <3>2. f[i + 1] = f[i] \o t[i + 1] /\ g[i + 1] = g[i] \o seqs[i + 1]
      BY <1>3, <2>2, <3>1
    <3>3. t[i + 1] = seqs[i + 1] /\ f[i] = g[i]
      BY <1>1, <2>4, <3>1
    <3>. QED BY <3>1, <3>2, <3>3
  <2>5. 1..n \subseteq G
    <3>. HIDE DEF G, n
    <3>. QED BY <1>1, <2>3, <2>4, IndexInduction
  <2>6. n \in 1..n /\ n + 1 \in 1..(n + 1) /\ n + 1 # 1 /\ (n + 1) - 1 = n
    BY <1>1, <1>5
  <2>7. f[n + 1] = f[n] \o s
    BY <1>1, <1>3, <2>6
  <2>8. f[n] = g[n]
    BY <2>5, <2>6
  <2>. QED BY <1>2, <2>1, <2>7, <2>8 DEF t
<1>. QED BY <1>1, <1>4, <1>5
-----------------------------------------------------------------------------
(* Sequences of symbols.                                                   *)

LEMMA One == ASSUME NEW S, NEW a \in S PROVE <<a>> \in Seq(S)
OBVIOUS

LEMMA Two == ASSUME NEW S, NEW a \in S, NEW b \in S PROVE <<a, b>> \in Seq(S)
OBVIOUS

LEMMA Four ==
  ASSUME NEW S, NEW a \in S, NEW b \in S, NEW c \in S, NEW d \in S
  PROVE  <<a, b, c, d>> \in Seq(S)
OBVIOUS

\* \o, for the provers to see through only where it is said.
s ** t == s \o t

LEMMA GlueAssociative ==
  ASSUME NEW S, NEW s \in Seq(S), NEW t \in Seq(S), NEW u \in Seq(S)
  PROVE  (s ** t) ** u = s ** (t ** u)
BY ConcatAssociative DEF **

LEMMA GlueType ==
  ASSUME NEW S, NEW s \in Seq(S), NEW t \in Seq(S)
  PROVE  s ** t \in Seq(S)
BY ConcatProperties DEF **

\* Texts one after the other, with the text c between them.
Separated(c, q) == FlattenSeq([i \in DOMAIN q |-> IF i = 1 THEN q[i] ELSE c \o q[i]])

LEMMA SeparatedParts ==
  ASSUME NEW S, NEW c \in Seq(S), NEW q \in Seq(Seq(S)), NEW d,
         d = [i \in DOMAIN q |-> IF i = 1 THEN q[i] ELSE c \o q[i]]
  PROVE  d \in Seq(Seq(S)) /\ Len(d) = Len(q)
<1>1. Len(q) \in Nat /\ DOMAIN q = 1..Len(q) /\ \A i \in 1..Len(q) : q[i] \in Seq(S)
  BY LenProperties
<1>2. \A i \in 1..Len(q) : c \o q[i] \in Seq(S)
  BY <1>1, ConcatProperties
<1>. QED BY <1>1, <1>2

LEMMA SeparatedType ==
  ASSUME NEW S, NEW c \in Seq(S), NEW q \in Seq(Seq(S))
  PROVE  Separated(c, q) \in Seq(S)
BY SeparatedParts, FlattenSeqType DEF Separated

LEMMA SeparatedEmpty == ASSUME NEW c PROVE Separated(c, <<>>) = <<>>
<1>1. Len(<<>>) = 0 /\ DOMAIN <<>> = {}
  OBVIOUS
<1>2. FlattenSeq(<<>>) = <<>>
  BY <1>1, FlattenSeqDef
<1>3. \A d : DOMAIN d = {} /\ d = [i \in {} |-> d[i]] => d = <<>>
  OBVIOUS
<1>4. [i \in DOMAIN <<>> |-> IF i = 1 THEN <<>>[i] ELSE c \o <<>>[i]] = <<>>
  BY <1>1, <1>3
<1>. QED BY <1>2, <1>4 DEF Separated

LEMMA ExtendedSeq ==
  ASSUME NEW S, NEW d \in Seq(S), NEW x \in S, NEW n \in Nat, n = Len(d),
         NEW e, e = [i \in 1..(n + 1) |-> IF i = n + 1 THEN x ELSE d[i]]
  PROVE  e = Append(d, x)
<1>1. /\ Append(d, x) \in Seq(S) /\ Len(Append(d, x)) = n + 1
      /\ Append(d, x)[n + 1] = x /\ \A i \in 1..n : Append(d, x)[i] = d[i]
  BY AppendProperties
<1>2. e \in Seq(S) /\ Len(e) = n + 1
  <2>1. \A i \in 1..n : d[i] \in S
    BY LenProperties
  <2>2. \A i \in 1..(n + 1) : (IF i = n + 1 THEN x ELSE d[i]) \in S
    BY <2>1
  <2>. QED BY <2>2
<1>3. \A i \in 1..(n + 1) : e[i] = Append(d, x)[i]
  BY <1>1
<1>. QED BY <1>1, <1>2, <1>3, SeqEqual

LEMMA SeparatedAppend ==
  ASSUME NEW S, NEW c \in Seq(S), NEW q \in Seq(Seq(S)), NEW p \in Seq(S)
  PROVE  Separated(c, Append(q, p)) =
           IF q = <<>> THEN p ELSE Separated(c, q) \o c \o p
<1>1. PICK n \in Nat : n = Len(q)
  BY LenProperties
<1>2. DOMAIN q = 1..n /\ (n = 0 <=> q = <<>>)
  BY <1>1, LenProperties, EmptySeq
<1>3. PICK a : a = Append(q, p)
  OBVIOUS
<1>4. /\ a \in Seq(Seq(S)) /\ Len(a) = n + 1
      /\ a[n + 1] = p /\ \A i \in 1..n : a[i] = q[i]
  BY <1>1, <1>3, AppendProperties
<1>5. DOMAIN a = 1..(n + 1)
  BY <1>4, LenProperties
<1>6. PICK d : d = [i \in DOMAIN q |-> IF i = 1 THEN q[i] ELSE c \o q[i]]
  OBVIOUS
<1>7. PICK e : e = [i \in DOMAIN a |-> IF i = 1 THEN a[i] ELSE c \o a[i]]
  OBVIOUS
<1>8. PICK x : x = IF q = <<>> THEN p ELSE c \o p
  OBVIOUS
<1>9. x \in Seq(S)
  BY <1>8, ConcatProperties
<1>10. d \in Seq(Seq(S)) /\ Len(d) = n
  BY <1>1, <1>6, SeparatedParts
<1>11. e = [i \in 1..(n + 1) |-> IF i = n + 1 THEN x ELSE d[i]]
  <2>1. ASSUME NEW i \in 1..(n + 1)
        PROVE  (IF i = 1 THEN a[i] ELSE c \o a[i]) = IF i = n + 1 THEN x ELSE d[i]
    <3>1. CASE i = n + 1
      <4>1. i = 1 <=> q = <<>>
        BY ONLY n \in Nat, <1>2, <3>1
      <4>2. a[i] = p
        BY <1>4, <3>1
      <4>. QED BY <1>8, <3>1, <4>1, <4>2
    <3>2. CASE i # n + 1
      <4>1. i \in 1..n
        BY ONLY n \in Nat, i \in 1..(n + 1), <3>2
      <4>2. a[i] = q[i]
        BY <1>4, <4>1
      <4>. QED BY <1>2, <1>6, <3>2, <4>1, <4>2
    <3>. QED BY <3>1, <3>2
  <2>. QED BY <1>5, <1>7, <2>1
<1>12. e = Append(d, x)
  BY <1>9, <1>10, <1>11, ExtendedSeq
<1>13. FlattenSeq(e) = FlattenSeq(d) \o x
  BY <1>9, <1>10, <1>12, FlattenAppend
<1>14. Separated(c, a) = FlattenSeq(e) /\ Separated(c, q) = FlattenSeq(d)
  BY <1>6, <1>7 DEF Separated
<1>15. CASE q = <<>>
  <2>1. FlattenSeq(d) = <<>> /\ <<>> \o p = p
    BY <1>14, <1>15, SeparatedEmpty, ConcatEmptySeq
  <2>. QED BY <1>3, <1>8, <1>13, <1>14, <1>15, <2>1
<1>16. CASE q # <<>>
  <2>1. FlattenSeq(d) \in Seq(S)
    BY <1>10, FlattenSeqType
  <2>2. FlattenSeq(d) \o (c \o p) = FlattenSeq(d) \o c \o p
    <3>1. FlattenSeq(d) ** (c ** p) = (FlattenSeq(d) ** c) ** p
      BY ONLY <2>1, c \in Seq(S), p \in Seq(S), GlueAssociative
    <3>. QED BY ONLY <3>1 DEF **
  <2>. QED BY <1>3, <1>8, <1>13, <1>14, <1>16, <2>2
<1>. QED BY <1>15, <1>16

\* One text more.
LEMMA SeparatedStep ==
  ASSUME NEW S, NEW c \in Seq(S), NEW q \in Seq(Seq(S)), NEW t \in Seq(S)
  PROVE  Separated(c, Append(q, t)) =
           Separated(c, q) \o ((IF q # <<>> THEN c ELSE <<>>) \o t)
<1>1. Separated(c, q) \in Seq(S) /\ <<>> \o t = t
  BY SeparatedType, ConcatEmptySeq
<1>2. Separated(c, Append(q, t)) = IF q = <<>> THEN t ELSE Separated(c, q) \o c \o t
  BY SeparatedAppend
<1>3. CASE q = <<>>
  BY <1>1, <1>2, <1>3, SeparatedEmpty
<1>4. CASE q # <<>>
  <2>1. PICK x \in Seq(S) : x = Separated(c, q)
    BY <1>1
  <2>2. x \o (c \o t) = x \o c \o t
    <3>1. x ** (c ** t) = (x ** c) ** t
      BY ONLY c \in Seq(S), t \in Seq(S), x \in Seq(S), GlueAssociative
    <3>. QED BY ONLY <3>1 DEF **
  <2>. QED BY <1>2, <1>4, <2>1, <2>2
<1>. QED BY <1>3, <1>4

LEMMA SeparatedOne ==
  ASSUME NEW S, NEW c \in Seq(S), NEW t \in Seq(S)
  PROVE  Separated(c, Append(<<>>, t)) = t
<1>1. <<>> \in Seq(Seq(S))
  OBVIOUS
<1>. QED BY <1>1, SeparatedAppend

LEMMA SeparatedSkip ==
  ASSUME NEW S, NEW c \in Seq(S), NEW P \in SUBSET Seq(S), NEW q \in Seq(P)
  PROVE  Separated(c, q) \o <<>> = Separated(c, q)
<1>1. q \in Seq(Seq(S))
  BY SeqMonotonic
<1>. QED BY <1>1, SeparatedType, ConcatEmptySeq

\* What is put before the text at a kept position.
Lead(c, kept, i) == IF \E j \in kept : j < i THEN c ELSE <<>>

\* e holds a text at each kept position, with c before each but the first, and
\* nothing elsewhere.
KeptParts(S, c, P, n, kept, e) ==
  /\ c \in Seq(S) /\ P \in SUBSET Seq(S)
  /\ n \in Nat /\ kept \in SUBSET (1..n)
  /\ e \in Seq(Seq(S)) /\ Len(e) = n
  /\ \A i \in kept : \E t \in P : e[i] = Lead(c, kept, i) \o t
  /\ \A i \in (1..n) \ kept : e[i] = <<>>

LEMMA KeptSeparated ==
  ASSUME NEW S, NEW c, NEW P, NEW n, NEW kept, NEW e, KeptParts(S, c, P, n, kept, e)
  PROVE  \E q \in Seq(P) : FlattenSeq(e) = Separated(c, q)
<1>1. /\ c \in Seq(S) /\ P \in SUBSET Seq(S)
      /\ n \in Nat /\ kept \in SUBSET (1..n)
      /\ e \in Seq(Seq(S)) /\ Len(e) = n
      /\ \A i \in kept : \E t \in P : e[i] = Lead(c, kept, i) \o t
      /\ \A i \in (1..n) \ kept : e[i] = <<>>
  BY DEF KeptParts
<1>. USE <1>1
<1>2. <<>> \in Seq(P) /\ Separated(c, <<>>) = <<>>
  BY EmptySeq, SeparatedEmpty
<1>3. CASE n = 0
  <2>1. e = <<>>
    BY <1>3, EmptySeq
  <2>2. FlattenSeq(e) = <<>>
    BY <1>3, <2>1, FlattenSeqDef
  <2>. QED BY <1>2, <2>2
<1>4. CASE n > 0
  <2>1. PICK f : Flattens(f, e, n) /\ FlattenSeq(e) = f[n]
    BY <1>4, FlattenSeqDef
  <2>2. \A i \in 1..n : f[i] = IF i = 1 THEN e[i] ELSE f[i - 1] \o e[i]
    BY <2>1 DEF Flattens
  <2>. DEFINE Seen(i) == \E j \in kept : j <= i
              Reached(i) == \E q \in Seq(P) :
                              f[i] = Separated(c, q) /\ (q = <<>> <=> ~Seen(i))
              G == {i \in 1..n : Reached(i)}
  <2>3. 1 \in G
    <3>1. 1 \in 1..n /\ f[1] = e[1]
      BY <1>4, <2>2
    <3>2. ~\E j \in kept : j < 1
      OBVIOUS
    <3>3. CASE 1 \in kept
      <4>1. PICK t \in P : e[1] = Lead(c, kept, 1) \o t
        BY <3>3
      <4>2. e[1] = <<>> \o t
        BY <3>2, <4>1 DEF Lead
      <4>3. t \in Seq(S)
        OBVIOUS
      <4>4. <<>> \o t = t
        BY <4>3, ConcatEmptySeq
      <4>5. PICK r \in Seq(P) : r # <<>> /\ t = Separated(c, r)
        <5>1. Append(<<>>, t) \in Seq(P) /\ Append(<<>>, t) # <<>>
          BY <1>2, AppendProperties
        <5>2. Separated(c, Append(<<>>, t)) = t
          BY ONLY c \in Seq(S), <4>3, SeparatedOne
        <5>. QED BY <5>1, <5>2
      <4>6. f[1] = Separated(c, r)
        BY <1>2, <3>1, <4>2, <4>4, <4>5
      <4>7. Seen(1)
        BY <3>3
      <4>8. Reached(1)
        <5>. HIDE DEF Seen
        <5>. QED BY <4>5, <4>6, <4>7
      <4>. HIDE DEF Reached
      <4>. QED BY <3>1, <4>8
    <3>4. CASE 1 \notin kept
      <4>1. f[1] = Separated(c, <<>>)
        BY <1>2, <3>1, <3>4
      <4>2. ~Seen(1)
        <5>1. \A j \in kept : j <= 1 => j = 1
          BY ONLY n \in Nat, kept \in SUBSET (1..n)
        <5>. QED BY ONLY <3>4, <5>1
      <4>3. Reached(1)
        <5>. HIDE DEF Seen
        <5>. QED BY <1>2, <4>1, <4>2
      <4>. HIDE DEF Reached
      <4>. QED BY <3>1, <4>3
    <3>. HIDE DEF G
    <3>. QED BY <3>3, <3>4
  <2>4. ASSUME NEW i \in 1..(n - 1), i \in G
        PROVE  i + 1 \in G
    <3>1. PICK q \in Seq(P) : f[i] = Separated(c, q) /\ (q = <<>> <=> ~Seen(i))
      <4>1. Reached(i)
        BY <2>4
      <4>. HIDE DEF Seen
      <4>. QED BY <4>1
    <3>2. i + 1 \in 1..n /\ i + 1 # 1 /\ (i + 1) - 1 = i
      BY ONLY n \in Nat, i \in 1..(n - 1)
    <3>3. f[i + 1] = f[i] \o e[i + 1]
      BY <2>2, <3>2
    <3>4. \A j \in kept : j < i + 1 <=> j <= i
      BY ONLY n \in Nat, kept \in SUBSET (1..n), i \in 1..(n - 1)
    <3>5. (\E j \in kept : j < i + 1) <=> Seen(i)
      BY <3>4
    <3>6. Seen(i) => Seen(i + 1)
      <4>1. \A j \in kept : j <= i => j <= i + 1
        BY ONLY n \in Nat, kept \in SUBSET (1..n), i \in 1..(n - 1)
      <4>. QED BY ONLY <4>1
    <3>7. CASE i + 1 \in kept
      <4>1. PICK t \in P :
              e[i + 1] = Lead(c, kept, i + 1) \o t
        BY ONLY <3>7, \A k \in kept :
             \E t \in P : e[k] = Lead(c, kept, k) \o t
      <4>2. PICK w : w = e[i + 1]
        OBVIOUS
      <4>4. w = (IF q # <<>> THEN c ELSE <<>>) \o t
        <5>. HIDE DEF Seen
        <5>. QED BY ONLY <3>1, <3>5, <4>1, <4>2 DEF Lead
      <4>5. PICK r \in Seq(P) : r # <<>> /\ Separated(c, q) \o w = Separated(c, r)
        <5>1. q \in Seq(Seq(S)) /\ t \in Seq(S)
          BY SeqMonotonic
        <5>2. Append(q, t) \in Seq(P) /\ Append(q, t) # <<>>
          BY ONLY q \in Seq(P), t \in P, AppendProperties
        <5>3. Separated(c, Append(q, t)) =
                Separated(c, q) \o ((IF q # <<>> THEN c ELSE <<>>) \o t)
          BY ONLY c \in Seq(S), <5>1, SeparatedStep
        <5>. QED BY ONLY <4>4, <5>2, <5>3
      <4>6. f[i + 1] = Separated(c, r)
        BY ONLY <3>1, <3>3, <4>2, <4>5
      <4>7. Seen(i + 1)
        <5>1. i + 1 <= i + 1
          BY <3>2
        <5>. QED BY ONLY <3>7, <5>1
      <4>8. Reached(i + 1)
        <5>. HIDE DEF Seen
        <5>. QED BY ONLY <4>5, <4>6, <4>7
      <4>. HIDE DEF Reached
      <4>. QED BY ONLY <3>2, <4>8
    <3>8. CASE i + 1 \notin kept
      <4>1. e[i + 1] = <<>>
        BY <3>2, <3>8
      <4>2. f[i + 1] = Separated(c, q)
        BY <3>1, <3>3, <4>1, SeparatedSkip
      <4>3. Seen(i + 1) => Seen(i)
        <5>1. \A j \in kept : j # i + 1 /\ j <= i + 1 => j <= i
          BY ONLY n \in Nat, kept \in SUBSET (1..n), i \in 1..(n - 1)
        <5>. QED BY ONLY <3>8, <5>1
      <4>4. Reached(i + 1)
        <5>. HIDE DEF Seen
        <5>. QED BY ONLY <3>1, <3>6, <4>2, <4>3
      <4>. HIDE DEF Reached
      <4>. QED BY ONLY <3>2, <4>4
    <3>. HIDE DEF G
    <3>. QED BY <3>7, <3>8
  <2>5. 1..n \subseteq G
    <3>. HIDE DEF G
    <3>. QED BY <2>3, <2>4, IndexInduction
  <2>6. Reached(n)
    <3>1. n \in G
      <4>. HIDE DEF G
      <4>. QED BY <1>4, <2>5
    <3>. HIDE DEF Reached
    <3>. QED BY <3>1
  <2>. QED BY <2>1, <2>6
<1>. QED BY <1>3, <1>4
-----------------------------------------------------------------------------
(* Texts of the symbols S that are JSON.                                   *)

Literals == {<<"true">>, <<"false">>}

\* %lld and the numbers the module passes on: a sign, digits, one point.
Numbers(S) == {t \in Seq(S) : IsNumberText(t)}

\* A symbol of a string, or an escape sequence.
Unit(S) ==
  {<<c>> : c \in S \ (Control \cup {"\\", "\"", "\n", "\r", "\t"})}
  \cup {<<"\\", c>> : c \in {"\\", "\"", "n", "r", "t"}}
  \cup {<<"\\", "u", "00", c>> : c \in Control \cap S}

Strings(S) == {<<"\"">> \o FlattenSeq(u) \o <<"\"">> : u \in Seq(Unit(S))}

Commas(P) == {Separated(<<",">>, q) : q \in Seq(P)}

Members(J, S) == {k \o <<":">> \o v : k \in Strings(S), v \in J}

\* Closed under what makes values of values.
Closed(J, S) ==
  /\ Literals \cup Numbers(S) \cup Strings(S) \subseteq J
  /\ \A m \in Commas(Members(J, S)) : <<"{">> \o m \o <<"}">> \in J
  /\ \A m \in Commas(J) : <<"[">> \o m \o <<"]">> \in J

\* The least closed set.
Json(S) == {t \in Seq(S) : \A J \in SUBSET Seq(S) : Closed(J, S) => t \in J}

\* S has what the module itself writes.
Enough(S) == Vocabulary \subseteq S

LEMMA MarksIn ==
  ASSUME NEW S, Enough(S)
  PROVE  {"{", "}", "[", "]", ":", ",", "\"", "\\", "n", "r", "t", "u", "00", ".", "?",
          "true", "false"} \cup Figure \subseteq S
BY DEF Enough, Vocabulary, Marks

LEMMA BracketsIn ==
  ASSUME NEW S, Enough(S)
  PROVE  /\ <<"{">> \in Seq(S) /\ <<"}">> \in Seq(S) /\ <<"[">> \in Seq(S)
         /\ <<"]">> \in Seq(S) /\ <<":">> \in Seq(S) /\ <<",">> \in Seq(S)
         /\ <<"\"">> \in Seq(S) /\ <<"true">> \in Seq(S) /\ <<"false">> \in Seq(S)
         /\ <<"0">> \in Seq(S) /\ <<"?">> \in Seq(S)
<1>1. /\ "{" \in S /\ "}" \in S /\ "[" \in S /\ "]" \in S /\ ":" \in S /\ "," \in S
      /\ "\"" \in S /\ "true" \in S /\ "false" \in S /\ "0" \in S /\ "?" \in S
  BY MarksIn DEF Figure
<1>. QED BY ONLY <1>1, One

LEMMA UnitType ==
  ASSUME NEW S, Enough(S)
  PROVE  Unit(S) \subseteq Seq(S)
<1>1. "\\" \in S /\ "\"" \in S /\ "n" \in S /\ "r" \in S /\ "t" \in S /\ "u" \in S /\ "00" \in S
  BY MarksIn
<1>2. ASSUME NEW c \in S PROVE <<c>> \in Seq(S)
  BY One
<1>3. ASSUME NEW c \in {"\\", "\"", "n", "r", "t"} PROVE <<"\\", c>> \in Seq(S)
  <2>1. c \in S
    BY <1>1
  <2>. QED BY ONLY <1>1, <2>1, Two
<1>4. ASSUME NEW c \in S PROVE <<"\\", "u", "00", c>> \in Seq(S)
  BY ONLY <1>1, c \in S, Four
<1>. QED BY <1>2, <1>3, <1>4 DEF Unit

LEMMA StringsType ==
  ASSUME NEW S, Enough(S)
  PROVE  Strings(S) \subseteq Seq(S)
<1>1. SUFFICES ASSUME NEW u \in Seq(Unit(S))
      PROVE  <<"\"">> \o FlattenSeq(u) \o <<"\"">> \in Seq(S)
  BY DEF Strings
<1>2. u \in Seq(Seq(S))
  BY UnitType, SeqMonotonic
<1>3. FlattenSeq(u) \in Seq(S)
  BY ONLY <1>2, FlattenSeqType
<1>4. <<"\"">> \in Seq(S)
  BY BracketsIn
<1>. QED BY ONLY <1>3, <1>4, ConcatProperties

LEMMA MemberOf ==
  ASSUME NEW S, NEW J, NEW k \in Strings(S), NEW v \in J
  PROVE  k \o <<":">> \o v \in Members(J, S)
BY DEF Members

LEMMA MembersType ==
  ASSUME NEW S, Enough(S), NEW J \in SUBSET Seq(S)
  PROVE  Members(J, S) \subseteq Seq(S)
<1>1. ASSUME NEW k \in Strings(S), NEW v \in J
      PROVE  k \o <<":">> \o v \in Seq(S)
  <2>1. k \in Seq(S) /\ v \in Seq(S) /\ <<":">> \in Seq(S)
    BY StringsType, BracketsIn
  <2>. QED BY ONLY <2>1, ConcatProperties
<1>2. ASSUME NEW m \in Members(J, S)
      PROVE  m \in Seq(S)
  <2>1. PICK k \in Strings(S), v \in J : m = k \o <<":">> \o v
    BY DEF Members
  <2>. QED BY <1>1, <2>1, Zenon
<1>. QED BY ONLY <1>2

LEMMA CommasType ==
  ASSUME NEW S, Enough(S), NEW P \in SUBSET Seq(S)
  PROVE  Commas(P) \subseteq Seq(S)
<1>1. SUFFICES ASSUME NEW q \in Seq(P) PROVE Separated(<<",">>, q) \in Seq(S)
  BY DEF Commas
<1>2. q \in Seq(Seq(S)) /\ <<",">> \in Seq(S)
  BY SeqMonotonic, BracketsIn
<1>. QED BY ONLY <1>2, SeparatedType

LEMMA CommasMonotonic ==
  ASSUME NEW P, NEW Q, P \subseteq Q
  PROVE  Commas(P) \subseteq Commas(Q)
BY SeqMonotonic DEF Commas

\* The texts of the symbols S are closed, so that the least closed set is one
\* of texts.
LEMMA TextsClosed ==
  ASSUME NEW S, Enough(S)
  PROVE  Closed(Seq(S), S)
<1>1. Literals \cup Numbers(S) \cup Strings(S) \subseteq Seq(S)
  BY StringsType, BracketsIn DEF Literals, Numbers
<1>2. ASSUME NEW m \in Commas(Members(Seq(S), S))
      PROVE  <<"{">> \o m \o <<"}">> \in Seq(S)
  <2>1. m \in Seq(S)
    <3>1. Members(Seq(S), S) \in SUBSET Seq(S)
      BY MembersType
    <3>. QED BY <3>1, CommasType
  <2>2. <<"{">> \in Seq(S) /\ <<"}">> \in Seq(S)
    BY BracketsIn
  <2>. QED BY ONLY <2>1, <2>2, ConcatProperties
<1>3. ASSUME NEW m \in Commas(Seq(S))
      PROVE  <<"[">> \o m \o <<"]">> \in Seq(S)
  <2>1. m \in Seq(S)
    BY CommasType
  <2>2. <<"[">> \in Seq(S) /\ <<"]">> \in Seq(S)
    BY BracketsIn
  <2>. QED BY ONLY <2>1, <2>2, ConcatProperties
<1>. QED BY <1>1, <1>2, <1>3 DEF Closed

LEMMA JsonType == ASSUME NEW S PROVE Json(S) \subseteq Seq(S)
BY DEF Json

LEMMA JsonLeast ==
  ASSUME NEW S, NEW J \in SUBSET Seq(S), Closed(J, S)
  PROVE  Json(S) \subseteq J
BY DEF Json

LEMMA JsonClosed ==
  ASSUME NEW S, Enough(S)
  PROVE  Closed(Json(S), S)
<1>1. ASSUME NEW t \in Literals \cup Numbers(S) \cup Strings(S)
      PROVE  t \in Json(S)
  <2>1. t \in Seq(S)
    BY TextsClosed DEF Closed
  <2>2. \A J \in SUBSET Seq(S) : Closed(J, S) => t \in J
    BY DEF Closed
  <2>. QED BY <2>1, <2>2 DEF Json
<1>2. ASSUME NEW m \in Commas(Members(Json(S), S))
      PROVE  <<"{">> \o m \o <<"}">> \in Json(S)
  <2>1. ASSUME NEW J \in SUBSET Seq(S), Closed(J, S)
        PROVE  <<"{">> \o m \o <<"}">> \in J
    <3>1. Json(S) \subseteq J
      BY <2>1, JsonLeast
    <3>2. Members(Json(S), S) \subseteq Members(J, S)
      BY <3>1 DEF Members
    <3>3. m \in Commas(Members(J, S))
      BY <3>2, CommasMonotonic
    <3>. QED BY <2>1, <3>3 DEF Closed
  <2>2. <<"{">> \o m \o <<"}">> \in Seq(S)
    BY <2>1, TextsClosed
  <2>. QED BY <2>1, <2>2 DEF Json
<1>3. ASSUME NEW m \in Commas(Json(S))
      PROVE  <<"[">> \o m \o <<"]">> \in Json(S)
  <2>1. ASSUME NEW J \in SUBSET Seq(S), Closed(J, S)
        PROVE  <<"[">> \o m \o <<"]">> \in J
    <3>1. Json(S) \subseteq J
      BY <2>1, JsonLeast
    <3>2. m \in Commas(J)
      BY <3>1, CommasMonotonic
    <3>. QED BY <2>1, <3>2 DEF Closed
  <2>2. <<"[">> \o m \o <<"]">> \in Seq(S)
    BY <2>1, TextsClosed
  <2>. QED BY <2>1, <2>2 DEF Json
<1>. QED BY <1>1, <1>2, <1>3 DEF Closed

\* What is escaped has no quote, backslash or control character of its own.
LEMMA EscapeUnits ==
  ASSUME NEW S, Enough(S), NEW t \in Seq(S)
  PROVE  [i \in DOMAIN t |-> EscapeChar(t[i])] \in Seq(Unit(S))
<1>1. Len(t) \in Nat /\ DOMAIN t = 1..Len(t) /\ \A i \in 1..Len(t) : t[i] \in S
  BY LenProperties
<1>2. ASSUME NEW c \in S PROVE EscapeChar(c) \in Unit(S)
  <2>1. CASE c \in {"\\", "\""}
    BY <2>1 DEF EscapeChar, Unit
  <2>2. CASE c \in {"\n", "\r", "\t"}
    BY <2>2 DEF EscapeChar, Unit
  <2>3. CASE c \notin {"\\", "\"", "\n", "\r", "\t"} /\ c \in Control
    <3>1. EscapeChar(c) = <<"\\", "u", "00", c>>
      BY <2>3 DEF EscapeChar
    <3>. QED BY <2>3, <3>1 DEF Unit
  <2>4. CASE c \notin {"\\", "\"", "\n", "\r", "\t"} /\ c \notin Control
    <3>1. EscapeChar(c) = <<c>>
      BY <2>4 DEF EscapeChar
    <3>. QED BY <2>4, <3>1 DEF Unit
  <2>. QED BY <2>1, <2>2, <2>3, <2>4
<1>. QED BY <1>1, <1>2

LEMMA JsonStringIsString ==
  ASSUME NEW S, Enough(S), NEW t \in Seq(S)
  PROVE  JsonString(t) \in Strings(S)
BY EscapeUnits DEF JsonString, Escape, Strings

LEMMA StringsAreJson ==
  ASSUME NEW S, Enough(S)
  PROVE  Strings(S) \subseteq Json(S)
BY JsonClosed DEF Closed

LEMMA MemberIsMember ==
  ASSUME NEW S, Enough(S), NEW key \in S, NEW v \in Json(S)
  PROVE  Member(key, v) \in Members(Json(S), S)
<1>1. <<key>> \in Seq(S)
  BY One
<1>2. JsonString(<<key>>) \in Strings(S)
  BY <1>1, JsonStringIsString
<1>3. JsonString(<<key>>) \o <<":">> \o v \in Members(Json(S), S)
  BY ONLY <1>2, v \in Json(S), MemberOf
<1>. QED BY ONLY <1>3 DEF Member

\* The pieces EnclosedAt puts one after the other.
LEMMA EnclosedPieces ==
  ASSUME NEW S, Enough(S), NEW P \in SUBSET Seq(S), NEW n \in Nat, NEW texts,
         DOMAIN texts = 1..n, NEW kept \in SUBSET (1..n), \A i \in kept : texts[i] \in P
  PROVE  FlattenSeq([i \in DOMAIN texts |->
                       IF i \notin kept THEN <<>>
                       ELSE (IF \E j \in kept : j < i THEN <<",">> ELSE <<>>) \o texts[i]])
           \in Commas(P)
<1>1. PICK c \in Seq(S) : c = <<",">>
  BY BracketsIn
<1>2. PICK e : e = [i \in 1..n |->
                      IF i \notin kept THEN <<>>
                      ELSE (IF \E j \in kept : j < i THEN c ELSE <<>>) \o texts[i]]
  OBVIOUS
<1>3. ASSUME NEW i \in kept
      PROVE  (IF \E j \in kept : j < i THEN c ELSE <<>>) \o texts[i] \in Seq(S)
  <2>1. (IF \E j \in kept : j < i THEN c ELSE <<>>) \in Seq(S) /\ texts[i] \in Seq(S)
    OBVIOUS
  <2>. QED BY ONLY <2>1, ConcatProperties
<1>4. ASSUME NEW i \in 1..n PROVE e[i] \in Seq(S)
  <2>1. CASE i \in kept
    <3>1. e[i] = (IF \E j \in kept : j < i THEN c ELSE <<>>) \o texts[i]
      BY <1>2, <2>1
    <3>. QED BY ONLY <1>3, <2>1, <3>1
  <2>2. CASE i \notin kept
    BY <1>2, <2>2
  <2>. QED BY <2>1, <2>2
<1>5. e \in Seq(Seq(S)) /\ Len(e) = n
  <2>1. e = [i \in 1..n |-> e[i]]
    BY <1>2
  <2>. QED BY ONLY <1>4, <2>1, n \in Nat
<1>6. \A i \in kept :
        \E t \in P : e[i] = Lead(c, kept, i) \o t
  BY <1>2 DEF Lead
<1>7. \A i \in (1..n) \ kept : e[i] = <<>>
  BY <1>2
<1>8. \E q \in Seq(P) : FlattenSeq(e) = Separated(c, q)
  <2>1. KeptParts(S, c, P, n, kept, e)
    BY ONLY n \in Nat, P \in SUBSET Seq(S), c \in Seq(S), kept \in SUBSET (1..n),
            <1>5, <1>6, <1>7 DEF KeptParts
  <2>. QED BY ONLY <2>1, KeptSeparated
<1>. QED BY <1>1, <1>2, <1>8 DEF Commas

LEMMA ObjectAt ==
  ASSUME NEW S, Enough(S), NEW n \in Nat, NEW texts, DOMAIN texts = 1..n,
         NEW kept \in SUBSET (1..n), \A i \in kept : texts[i] \in Members(Json(S), S)
  PROVE  EnclosedAt("{", texts, kept, "}") \in Json(S)
<1>1. Members(Json(S), S) \in SUBSET Seq(S)
  BY JsonType, MembersType
<1>2. FlattenSeq([i \in DOMAIN texts |->
                    IF i \notin kept THEN <<>>
                    ELSE (IF \E j \in kept : j < i THEN <<",">> ELSE <<>>) \o texts[i]])
        \in Commas(Members(Json(S), S))
  BY <1>1, EnclosedPieces
<1>. QED BY <1>2, JsonClosed DEF EnclosedAt, Closed

LEMMA ArrayAt ==
  ASSUME NEW S, Enough(S), NEW n \in Nat, NEW texts, DOMAIN texts = 1..n,
         \A i \in 1..n : texts[i] \in Json(S)
  PROVE  Array(texts) \in Json(S)
<1>1. Json(S) \in SUBSET Seq(S)
  BY JsonType
<1>2. FlattenSeq([i \in DOMAIN texts |->
                    IF i \notin 1..n THEN <<>>
                    ELSE (IF \E j \in 1..n : j < i THEN <<",">> ELSE <<>>) \o texts[i]])
        \in Commas(Json(S))
  BY <1>1, EnclosedPieces
<1>. QED BY <1>2, JsonClosed DEF Array, Enclosed, EnclosedAt, Closed

\* An object of members given by their keys and values.
LEMMA ObjectIsJson ==
  ASSUME NEW S, Enough(S), NEW members \in Seq(S \X Json(S))
  PROVE  Object(members) \in Json(S)
<1>1. PICK n \in Nat : n = Len(members)
  BY LenProperties
<1>2. DOMAIN members = 1..n /\ \A i \in 1..n : members[i] \in S \X Json(S)
  BY <1>1, LenProperties
<1>3. PICK texts : texts = [i \in DOMAIN members |-> Member(members[i][1], members[i][2])]
  OBVIOUS
<1>4. DOMAIN texts = 1..n
  BY <1>2, <1>3
<1>5. \A i \in 1..n : texts[i] \in Members(Json(S), S)
  <2>. SUFFICES ASSUME NEW i \in 1..n PROVE texts[i] \in Members(Json(S), S)
    OBVIOUS
  <2>1. members[i][1] \in S /\ members[i][2] \in Json(S)
    BY <1>2
  <2>2. texts[i] = Member(members[i][1], members[i][2])
    BY <1>2, <1>3
  <2>. QED BY ONLY Enough(S), <2>1, <2>2, MemberIsMember
<1>6. EnclosedAt("{", texts, 1..n, "}") \in Json(S)
  BY ONLY Enough(S), n \in Nat, <1>4, <1>5, ObjectAt
<1>. QED BY <1>3, <1>4, <1>6 DEF Object, Enclosed
-----------------------------------------------------------------------------
(* Cutting texts.                                                          *)

LEMMA CutType ==
  ASSUME NEW S, NEW t \in Seq(S), NEW i \in 1..(Len(t) + 1), NEW j \in 0..Len(t)
  PROVE  SubSeq(t, i, j) \in Seq(S)
<1>1. \A k \in i..j : t[k] \in S
  BY LenProperties
<1>. QED BY <1>1, SubSeqProperties

LEMMA IndexOfRange ==
  ASSUME NEW S, NEW t \in Seq(S), NEW c
  PROVE  /\ IndexOf(c, t) \in 0..Len(t)
         /\ IndexOf(c, t) # 0 => t[IndexOf(c, t)] = c
<1>. DEFINE at == {i \in 1..Len(t) : t[i] = c}
<1>1. IndexOf(c, t) = IF at # {} THEN Min(at) ELSE 0
  BY DEF IndexOf, SelectInSeq
<1>2. Len(t) \in Nat
  BY LenProperties
<1>3. CASE at = {}
  BY <1>1, <1>2, <1>3
<1>4. CASE at # {}
  <2>1. at \in SUBSET Nat
    OBVIOUS
  <2>2. Min(at) \in at
    <3>. HIDE DEF at
    <3>. QED BY <1>4, <2>1, FirstIndex
  <2>. QED BY <1>1, <1>2, <1>4, <2>2
<1>. QED BY <1>3, <1>4

LEMMA TrimType ==
  ASSUME NEW S, NEW t \in Seq(S)
  PROVE  Trim(t) \in Seq(S)
<1>. DEFINE kept == {i \in DOMAIN t : t[i] \notin Blank}
<1>1. Len(t) \in Nat /\ DOMAIN t = 1..Len(t)
  BY LenProperties
<1>2. Trim(t) = IF kept = {} THEN <<>> ELSE SubSeq(t, Min(kept), Max(kept))
  BY DEF Trim
<1>3. CASE kept = {}
  BY <1>2, <1>3
<1>4. CASE kept # {}
  <2>1. kept \in SUBSET Nat /\ kept \in SUBSET (0..Len(t))
    BY <1>1
  <2>2. kept \subseteq 1..Len(t)
    BY <1>1
  <2>3. Min(kept) \in kept /\ Max(kept) \in kept
    <3>. HIDE DEF kept
    <3>. QED BY <1>1, <1>4, <2>1, FirstIndex, LastIndex
  <2>4. Min(kept) \in 1..(Len(t) + 1) /\ Max(kept) \in 0..Len(t)
    <3>1. Min(kept) \in 1..Len(t) /\ Max(kept) \in 1..Len(t)
      <4>. HIDE DEF kept
      <4>. QED BY ONLY <2>2, <2>3
    <3>2. \A k \in 1..Len(t) : k \in 1..(Len(t) + 1) /\ k \in 0..Len(t)
      BY ONLY <1>1
    <3>. HIDE DEF kept
    <3>. QED BY ONLY <3>1, <3>2
  <2>. HIDE DEF kept
  <2>. QED BY ONLY t \in Seq(S), <1>2, <1>4, <2>4, CutType
<1>. QED BY <1>3, <1>4

LEMMA TrimEndType ==
  ASSUME NEW S, NEW t \in Seq(S), NEW C
  PROVE  TrimEnd(t, C) \in Seq(S)
<1>. DEFINE kept == {0} \cup {i \in DOMAIN t : t[i] \notin C}
<1>1. Len(t) \in Nat /\ DOMAIN t = 1..Len(t)
  BY LenProperties
<1>2. kept \in SUBSET (0..Len(t)) /\ kept # {}
  BY <1>1
<1>3. Max(kept) \in 0..Len(t)
  <2>. HIDE DEF kept
  <2>. QED BY <1>1, <1>2, LastIndex
<1>4. 1 \in 1..(Len(t) + 1)
  BY <1>1
<1>5. TrimEnd(t, C) = SubSeq(t, 1, Max(kept))
  BY DEF TrimEnd
<1>. HIDE DEF kept
<1>. QED BY ONLY t \in Seq(S), <1>3, <1>4, <1>5, CutType

\* What is before and after a symbol.
LEMMA CutAt ==
  ASSUME NEW S, NEW t \in Seq(S), NEW c
  PROVE  /\ SubSeq(t, 1, IndexOf(c, t) - 1) \in Seq(S)
         /\ SubSeq(t, IndexOf(c, t) + 1, Len(t)) \in Seq(S)
<1>1. PICK i \in 0..Len(t) : i = IndexOf(c, t)
  BY IndexOfRange
<1>2. Len(t) \in Nat
  BY LenProperties
<1>3. i + 1 \in 1..(Len(t) + 1) /\ Len(t) \in 0..Len(t) /\ 1 \in 1..(Len(t) + 1)
  BY <1>2
<1>4. SubSeq(t, i + 1, Len(t)) \in Seq(S)
  BY ONLY t \in Seq(S), <1>3, CutType
<1>5. SubSeq(t, 1, i - 1) \in Seq(S)
  <2>1. CASE i = 0
    <3>1. SubSeq(t, 1, i - 1) = <<>>
      BY <1>2, <2>1, SubSeqProperties
    <3>. QED BY <3>1
  <2>2. CASE i # 0
    <3>1. i - 1 \in 0..Len(t)
      BY <1>2, <2>2
    <3>. QED BY ONLY t \in Seq(S), <1>3, <3>1, CutType
  <2>. QED BY <2>1, <2>2
<1>. QED BY <1>1, <1>4, <1>5

LEMMA PieceAtType ==
  ASSUME NEW S, NEW t \in Seq(S), NEW c, NEW i \in DOMAIN t
  PROVE  PieceAt(t, c, i) \in Seq(S)
<1>1. Len(t) \in Nat /\ i \in 1..Len(t)
  BY LenProperties
<1>2. PICK rest : rest = SubSeq(t, i, Len(t))
  OBVIOUS
<1>3. rest \in Seq(S)
  <2>1. i \in 1..(Len(t) + 1) /\ Len(t) \in 0..Len(t)
    BY <1>1
  <2>. QED BY ONLY t \in Seq(S), <1>2, <2>1, CutType
<1>4. SubSeq(rest, 1, IndexOf(c, rest) - 1) \in Seq(S)
  BY ONLY <1>3, CutAt
<1>. QED BY <1>2, <1>3, <1>4 DEF PieceAt

LEMMA StartsRange ==
  ASSUME NEW S, NEW t \in Seq(S), NEW c
  PROVE  DOMAIN t = 1..Len(t) /\ Len(t) \in Nat /\ Starts(t, c) \in SUBSET (1..Len(t))
BY LenProperties DEF Starts
-----------------------------------------------------------------------------
(* What src/collector.c makes of the text INFO prints.                     *)

LEMMA ScalarIsJson ==
  ASSUME NEW S, Enough(S), NEW text \in Seq(S)
  PROVE  Scalar(text) \in Json(S)
<1>1. PICK t \in Seq(S) : t = Trim(text)
  BY TrimType
<1>2. JsonString(t) \in Json(S)
  BY JsonStringIsString, StringsAreJson
<1>3. <<"true">> \in Json(S) /\ <<"false">> \in Json(S)
  BY JsonClosed DEF Closed, Literals
<1>4. IsNumberText(t) => t \in Json(S)
  BY JsonClosed DEF Closed, Numbers
<1>5. Scalar(text) \in {<<"true">>, <<"false">>, JsonString(t)}
      \/ (IsNumberText(t) /\ Scalar(text) = t)
  BY <1>1 DEF Scalar
<1>. QED BY <1>2, <1>3, <1>4, <1>5

LEMMA PairTextIsMember ==
  ASSUME NEW S, Enough(S), NEW pair \in Seq(S)
  PROVE  PairText(pair) \in Members(Json(S), S)
<1>1. PICK p \in Seq(S) : p = Trim(pair)
  BY TrimType
<1>2. PICK i : i = IndexOf("=", p)
  OBVIOUS
<1>3. SubSeq(p, 1, i - 1) \in Seq(S) /\ SubSeq(p, i + 1, Len(p)) \in Seq(S)
  BY <1>2, CutAt
<1>4. JsonString(Trim(SubSeq(p, 1, i - 1))) \in Strings(S)
  BY <1>3, TrimType, JsonStringIsString
<1>5. Scalar(SubSeq(p, i + 1, Len(p))) \in Json(S)
  BY <1>3, ScalarIsJson
<1>6. PairText(pair) = JsonString(Trim(SubSeq(p, 1, i - 1))) \o <<":">>
                       \o Scalar(SubSeq(p, i + 1, Len(p)))
  BY <1>1, <1>2 DEF PairText
<1>. QED BY ONLY <1>4, <1>5, <1>6, MemberOf

LEMMA CompoundIsJson ==
  ASSUME NEW S, Enough(S), NEW t \in Seq(S)
  PROVE  Compound(t) \in Json(S)
<1>1. PICK n \in Nat : n = Len(t)
  BY LenProperties
<1>2. DOMAIN t = 1..n /\ Starts(t, ",") \in SUBSET (1..n)
  BY <1>1, StartsRange
<1>3. PICK texts : texts = [i \in DOMAIN t |-> PairText(PieceAt(t, ",", i))]
  OBVIOUS
<1>4. DOMAIN texts = 1..n
  BY <1>2, <1>3
<1>5. \A i \in Starts(t, ",") : texts[i] \in Members(Json(S), S)
  <2>. SUFFICES ASSUME NEW i \in Starts(t, ",") PROVE texts[i] \in Members(Json(S), S)
    OBVIOUS
  <2>1. i \in DOMAIN t
    BY <1>2
  <2>2. PieceAt(t, ",", i) \in Seq(S)
    BY ONLY t \in Seq(S), <2>1, PieceAtType
  <2>3. texts[i] = PairText(PieceAt(t, ",", i))
    BY <1>3, <2>1
  <2>. QED BY ONLY Enough(S), <2>2, <2>3, PairTextIsMember
<1>6. EnclosedAt("{", texts, Starts(t, ","), "}") \in Json(S)
  BY ONLY Enough(S), n \in Nat, <1>2, <1>4, <1>5, ObjectAt
<1>. QED BY <1>3, <1>6 DEF Compound

LEMMA ValueIsJson ==
  ASSUME NEW S, Enough(S), NEW text \in Seq(S)
  PROVE  Value(text) \in Json(S)
BY TrimType, CompoundIsJson, ScalarIsJson DEF Value

LEMMA FieldTextIsMember ==
  ASSUME NEW S, Enough(S), NEW line \in Seq(S)
  PROVE  FieldText(line) \in Members(Json(S), S)
<1>1. PICK i : i = IndexOf(":", line)
  OBVIOUS
<1>2. SubSeq(line, 1, i - 1) \in Seq(S) /\ SubSeq(line, i + 1, Len(line)) \in Seq(S)
  BY <1>1, CutAt
<1>3. JsonString(SubSeq(line, 1, i - 1)) \in Strings(S)
  BY <1>2, JsonStringIsString
<1>4. Value(TrimEnd(SubSeq(line, i + 1, Len(line)), {"\r", "\n"})) \in Json(S)
  <2>1. TrimEnd(SubSeq(line, i + 1, Len(line)), {"\r", "\n"}) \in Seq(S)
    BY <1>2, TrimEndType
  <2>. QED BY <2>1, ValueIsJson
<1>5. FieldText(line) = JsonString(SubSeq(line, 1, i - 1)) \o <<":">>
                        \o Value(TrimEnd(SubSeq(line, i + 1, Len(line)), {"\r", "\n"}))
  BY <1>1 DEF FieldText
<1>. QED BY ONLY <1>3, <1>4, <1>5, MemberOf

\* Whatever INFO answers, the section made of it is JSON
\* (src/collector.c:193-246): the lines, the fields and the pairs may be
\* malformed in any way.
THEOREM SectionIsJson ==
  ASSUME NEW S, Enough(S), NEW payload \in Seq(S)
  PROVE  Section(payload) \in Json(S)
<1>1. PICK n \in Nat : n = Len(payload)
  BY LenProperties
<1>2. DOMAIN payload = 1..n /\ Starts(payload, "\n") \in SUBSET (1..n)
  BY <1>1, StartsRange
<1>3. PICK texts : texts = [i \in DOMAIN payload |-> FieldText(PieceAt(payload, "\n", i))]
  OBVIOUS
<1>4. DOMAIN texts = 1..n
  BY <1>2, <1>3
<1>5. PICK kept : kept = {i \in Starts(payload, "\n") : IsField(PieceAt(payload, "\n", i))}
  OBVIOUS
<1>6. kept \in SUBSET (1..n)
  BY <1>2, <1>5
<1>7. \A i \in kept : texts[i] \in Members(Json(S), S)
  <2>. SUFFICES ASSUME NEW i \in kept PROVE texts[i] \in Members(Json(S), S)
    OBVIOUS
  <2>1. i \in DOMAIN payload
    BY <1>2, <1>6
  <2>2. PieceAt(payload, "\n", i) \in Seq(S)
    BY ONLY payload \in Seq(S), <2>1, PieceAtType
  <2>3. texts[i] = FieldText(PieceAt(payload, "\n", i))
    BY <1>3, <2>1
  <2>. QED BY ONLY Enough(S), <2>2, <2>3, FieldTextIsMember
<1>8. EnclosedAt("{", texts, kept, "}") \in Json(S)
  BY ONLY Enough(S), n \in Nat, <1>4, <1>6, <1>7, ObjectAt
<1>. QED BY <1>3, <1>5, <1>8 DEF Section
-----------------------------------------------------------------------------
(* What src/hoststats_linux.c makes of the files of the host.              *)

LEMMA NumberIsJson ==
  ASSUME NEW S, Enough(S), NEW word \in S, word \in Figure
  PROVE  <<word>> \in Json(S)
<1>1. PICK t : t = <<word>>
  OBVIOUS
<1>2. /\ t \in Seq(S) /\ t # <<>> /\ Len(t) = 1 /\ t[1] = word
      /\ Range(t) = {word} /\ Last(t) = word
  BY <1>1 DEF Range, Last
<1>3. word \notin {"-", "+", "."}
  BY DEF Figure
<1>4. {i \in DOMAIN t : t[i] = "."} = {}
  BY <1>1, <1>3
<1>5. Cardinality({i \in DOMAIN t : t[i] = "."}) <= 1
  BY <1>4, FS_EmptySet
<1>6. (IF t # <<>> /\ t[1] \in {"-", "+"} THEN Tail(t) ELSE t) = t
  BY <1>2, <1>3
<1>7. IsNumberText(t)
  <2>1. Range(t) \subseteq Figure \cup {"."}
    BY <1>2
  <2>2. ~(Len(t) > 1 /\ t[1] = "0" /\ t[2] # ".")
    BY ONLY <1>2
  <2>3. Last(t) # "." /\ t # <<>>
    BY ONLY <1>2, <1>3
  <2>. QED BY ONLY <1>5, <1>6, <2>1, <2>2, <2>3 DEF IsNumberText
<1>. QED BY <1>1, <1>2, <1>7, JsonClosed DEF Closed, Numbers

LEMMA TwoDecimalsIsJson ==
  ASSUME NEW S, Enough(S), NEW word \in S, word \in Figure
  PROVE  TwoDecimals(word) \in Json(S)
<1>1. PICK t : t = TwoDecimals(word)
  OBVIOUS
<1>2. PICK point, zero : point = "." /\ zero = "0"
  OBVIOUS
<1>3. t = <<word, point, zero, zero>>
  BY <1>1, <1>2 DEF TwoDecimals
<1>4. point \in S /\ zero \in S
  BY <1>2, MarksIn DEF Figure
<1>5. t \in Seq(S)
  BY ONLY <1>3, <1>4, word \in S, Four
<1>6. /\ t # <<>> /\ Len(t) = 4 /\ t[1] = word /\ t[2] = point
      /\ Range(t) = {word, point, zero} /\ Last(t) = zero
  BY ONLY <1>3 DEF Range, Last
<1>7. word \notin {"-", "+", "."} /\ zero # point /\ zero \in Figure
  BY <1>2 DEF Figure
<1>8. {i \in DOMAIN t : t[i] = point} = {2}
  BY ONLY <1>2, <1>3, <1>7
<1>9. Cardinality({i \in DOMAIN t : t[i] = "."}) <= 1
  <2>1. {i \in DOMAIN t : t[i] = "."} = {2}
    BY <1>2, <1>8
  <2>2. Cardinality({2}) = 1
    BY FS_Singleton
  <2>. QED BY ONLY <2>1, <2>2
<1>10. (IF t # <<>> /\ t[1] \in {"-", "+"} THEN Tail(t) ELSE t) = t
  BY <1>6, <1>7
<1>11. IsNumberText(t)
  BY <1>2, <1>6, <1>7, <1>9, <1>10 DEF IsNumberText
<1>. QED BY <1>1, <1>5, <1>11, JsonClosed DEF Closed, Numbers

LEMMA KeysIn ==
  ASSUME NEW S, Enough(S)
  PROVE  Keys \subseteq S
BY DEF Enough, Vocabulary

LEMMA Member1 ==
  ASSUME NEW S, NEW J, NEW a \in S, NEW v \in J
  PROVE  << <<a, v>> >> \in Seq(S \X J)
OBVIOUS

LEMMA UnavailableIsJson ==
  ASSUME NEW S, Enough(S)
  PROVE  Unavailable \in Json(S)
<1>1. "available" \in S
  BY KeysIn DEF Keys
<1>2. <<"false">> \in Json(S)
  BY JsonClosed DEF Closed, Literals
<1>3. << <<"available", <<"false">>>> >> \in Seq(S \X Json(S))
  BY ONLY <1>1, <1>2, Member1
<1>. QED BY <1>3, ObjectIsJson DEF Unavailable

LEMMA LineAtType ==
  ASSUME NEW S, NEW t \in Seq(S), NEW i \in DOMAIN t
  PROVE  LineAt(t, i) \in Seq(S)
<1>1. Len(t) \in Nat /\ i \in 1..Len(t) /\ LineCap \in Nat \ {0, 1}
  BY LenProperties, HostAssumption DEF HostLimitsOK
<1>2. PICK last : last = Min({Len(t), i + LineCap - 2})
  OBVIOUS
<1>3. last \in 0..Len(t)
  <2>1. i + LineCap - 2 \in Nat
    BY <1>1
  <2>2. {Len(t), i + LineCap - 2} \in SUBSET Nat /\ {Len(t), i + LineCap - 2} # {}
    BY <1>1, <2>1
  <2>3. last \in {Len(t), i + LineCap - 2} /\ last <= Len(t)
    BY <1>2, <2>2, FirstIndex
  <2>. QED BY <1>1, <2>1, <2>3
<1>4. PICK read : read = SubSeq(t, i, last)
  OBVIOUS
<1>5. read \in Seq(S)
  <2>1. i \in 1..(Len(t) + 1)
    BY <1>1
  <2>. QED BY ONLY t \in Seq(S), <1>3, <1>4, <2>1, CutType
<1>6. IndexOf("\n", read) # 0 => SubSeq(read, 1, IndexOf("\n", read)) \in Seq(S)
  <2>1. IndexOf("\n", read) \in 0..Len(read) /\ 1 \in 1..(Len(read) + 1)
    BY <1>5, IndexOfRange, LenProperties
  <2>. QED BY ONLY <1>5, <2>1, CutType
<1>7. <<>> \in Seq(S)
  OBVIOUS
<1>8. LineAt(t, i) = IF IndexOf("\n", read) = 0 THEN read
                     ELSE SubSeq(read, 1, IndexOf("\n", read))
  BY <1>2, <1>4 DEF LineAt
<1>. QED BY ONLY <1>5, <1>6, <1>8

LEMMA LineTextIsMember ==
  ASSUME NEW S, Enough(S), NEW line \in Seq(S)
  PROVE  LineText(line) \in Members(Json(S), S)
<1>1. PICK i : i = IndexOf(":", line)
  OBVIOUS
<1>2. SubSeq(line, 1, i - 1) \in Seq(S) /\ SubSeq(line, i + 1, Len(line)) \in Seq(S)
  BY <1>1, CutAt
<1>3. JsonString(SubSeq(line, 1, i - 1)) \in Strings(S)
  BY <1>2, JsonStringIsString
<1>4. JsonString(Trim(SubSeq(line, i + 1, Len(line)))) \in Json(S)
  BY <1>2, TrimType, JsonStringIsString, StringsAreJson
<1>5. LineText(line) = JsonString(SubSeq(line, 1, i - 1)) \o <<":">>
                       \o JsonString(Trim(SubSeq(line, i + 1, Len(line))))
  BY <1>1 DEF LineText
<1>. QED BY ONLY <1>3, <1>4, <1>5, MemberOf

LEMMA StringObjectIsJson ==
  ASSUME NEW S, Enough(S), NEW file, file = NoFile \/ file \in Seq(S)
  PROVE  StringObject(file) \in Json(S)
<1>1. CASE file = NoFile
  BY <1>1, UnavailableIsJson DEF StringObject
<1>2. CASE file # NoFile
  <2>1. PICK n \in Nat : n = Len(file)
    BY <1>2, LenProperties
  <2>2. file \in Seq(S) /\ DOMAIN file = 1..n
    BY <1>2, <2>1, LenProperties
  <2>3. PICK texts : texts = [i \in DOMAIN file |-> LineText(LineAt(file, i))]
    OBVIOUS
  <2>4. DOMAIN texts = 1..n
    BY <2>2, <2>3
  <2>5. PICK kept : kept = {i \in LineStarts(file) : IndexOf(":", LineAt(file, i)) # 0}
    OBVIOUS
  <2>6. kept \in SUBSET (1..n)
    BY <2>2, <2>5 DEF LineStarts
  <2>7. \A i \in kept : texts[i] \in Members(Json(S), S)
    <3>. SUFFICES ASSUME NEW i \in kept PROVE texts[i] \in Members(Json(S), S)
      OBVIOUS
    <3>1. i \in DOMAIN file
      BY <2>2, <2>6
    <3>2. LineAt(file, i) \in Seq(S)
      BY <2>2, <3>1, LineAtType
    <3>3. texts[i] = LineText(LineAt(file, i))
      BY <2>3, <3>1
    <3>. QED BY ONLY Enough(S), <3>2, <3>3, LineTextIsMember
  <2>8. EnclosedAt("{", texts, kept, "}") \in Json(S)
    BY ONLY Enough(S), n \in Nat, <2>4, <2>6, <2>7, ObjectAt
  <2>. QED BY <1>2, <2>3, <2>5, <2>8 DEF StringObject
<1>. QED BY <1>1, <1>2

LEMMA BlobIsJson ==
  ASSUME NEW S, Enough(S), NEW file, file = NoFile \/ file \in Seq(S)
  PROVE  Blob(file) \in Json(S)
<1>1. CASE file = NoFile
  <2>1. <<>> \in Seq(S)
    OBVIOUS
  <2>. QED BY <1>1, <2>1, JsonStringIsString, StringsAreJson DEF Blob
<1>2. CASE file # NoFile
  <2>1. file \in Seq(S) /\ Len(file) \in Nat /\ BlobLimit \in Nat
    BY <1>2, LenProperties, HostAssumption DEF HostLimitsOK
  <2>2. {Len(file), BlobLimit} \in SUBSET Nat /\ {Len(file), BlobLimit} # {}
    BY <2>1
  <2>3. PICK last : last = Min({Len(file), BlobLimit})
    OBVIOUS
  <2>4. last \in {Len(file), BlobLimit} /\ last <= Len(file)
    BY <2>2, <2>3, FirstIndex
  <2>5. last \in 0..Len(file) /\ 1 \in 1..(Len(file) + 1)
    BY <2>1, <2>4
  <2>6. SubSeq(file, 1, last) \in Seq(S)
    BY ONLY <2>1, <2>5, CutType
  <2>. QED BY <1>2, <2>3, <2>6, JsonStringIsString, StringsAreJson DEF Blob
<1>. QED BY <1>1, <1>2

LEMMA Member2 ==
  ASSUME NEW S, NEW J, NEW a \in S, NEW v \in J, NEW b \in S, NEW w \in J
  PROVE  << <<a, v>>, <<b, w>> >> \in Seq(S \X J)
OBVIOUS

LEMMA Member4 ==
  ASSUME NEW S, NEW J, NEW a \in S, NEW v \in J, NEW b \in S, NEW w \in J,
         NEW c \in S, NEW x \in J, NEW d \in S, NEW y \in J
  PROVE  << <<a, v>>, <<b, w>>, <<c, x>>, <<d, y>> >> \in Seq(S \X J)
OBVIOUS

LEMMA LiteralsAreJson ==
  ASSUME NEW S, Enough(S)
  PROVE  <<"true">> \in Json(S) /\ <<"false">> \in Json(S)
BY JsonClosed DEF Closed, Literals

LEMMA NumberSymbols ==
  ASSUME NEW S, Enough(S), NEW word \in Number
  PROVE  word \in S /\ word \in Figure
BY MarksIn, HostAssumption DEF HostLimitsOK

LEMMA LoadAvgIsJson ==
  ASSUME NEW S, Enough(S), NEW file
  PROVE  LoadAvg(file) \in Json(S)
<1>1. CASE file = NoFile \/ Len(file) < 3 \/ \E i \in 1..3 : file[i] \notin Number
  BY <1>1, UnavailableIsJson DEF LoadAvg
<1>2. CASE ~(file = NoFile \/ Len(file) < 3 \/ \E i \in 1..3 : file[i] \notin Number)
  <2>1. PICK a, b, c : a = file[1] /\ b = file[2] /\ c = file[3]
    OBVIOUS
  <2>2. a \in Number /\ b \in Number /\ c \in Number
    BY <1>2, <2>1
  <2>3. /\ TwoDecimals(a) \in Json(S) /\ TwoDecimals(b) \in Json(S)
        /\ TwoDecimals(c) \in Json(S)
    BY ONLY Enough(S), <2>2, NumberSymbols, TwoDecimalsIsJson
  <2>4. "available" \in S /\ "1m" \in S /\ "5m" \in S /\ "15m" \in S
    BY KeysIn DEF Keys
  <2>5. <<"true">> \in Json(S)
    BY LiteralsAreJson
  <2>6. << <<"available", <<"true">>>>, <<"1m", TwoDecimals(a)>>,
           <<"5m", TwoDecimals(b)>>, <<"15m", TwoDecimals(c)>> >> \in Seq(S \X Json(S))
    BY ONLY <2>3, <2>4, <2>5, Member4
  <2>7. LoadAvg(file) =
          Object(<< <<"available", <<"true">>>>, <<"1m", TwoDecimals(a)>>,
                    <<"5m", TwoDecimals(b)>>, <<"15m", TwoDecimals(c)>> >>)
    BY <1>2, <2>1 DEF LoadAvg
  <2>. QED BY ONLY Enough(S), <2>6, <2>7, ObjectIsJson
<1>. QED BY <1>1, <1>2

\* A number of a line of /proc/stat, or the 0 in its place.
LEMMA NumberOfIsJson ==
  ASSUME NEW S, Enough(S), NEW line, Len(line) \in Nat \ {0}, NEW i \in Nat \ {0}
  PROVE  NumberOf(line, i) \in Json(S)
<1>1. "0" \in S /\ "0" \in Figure
  BY MarksIn DEF Figure
<1>2. <<"0">> \in Json(S)
  BY <1>1, NumberIsJson
<1>3. CASE i <= Matched(line)
  <2>. DEFINE stops == {j \in 2..(Len(line) + 1) : j > Len(line) \/ line[j] \notin Number}
  <2>1. stops \in SUBSET Nat /\ stops # {}
    <3>1. Len(line) + 1 \in stops
      OBVIOUS
    <3>. QED BY <3>1
  <2>2. Min(stops) \in stops /\ \A j \in stops : Min(stops) <= j
    <3>. HIDE DEF stops
    <3>. QED BY <2>1, FirstIndex
  <2>3. PICK stop \in stops : stop = Min(stops)
    BY <2>2
  <2>4. i <= stop - 2
    BY <1>3, <2>3 DEF Matched
  <2>5. i + 1 \in 2..(Len(line) + 1) /\ i + 1 < stop
    BY <2>4
  <2>6. i + 1 \notin stops
    <3>1. stop \in Int /\ \A j \in stops : stop <= j
      BY <2>2, <2>3
    <3>. HIDE DEF stops
    <3>. QED BY <2>5, <3>1
  <2>7. line[i + 1] \in Number
    BY <2>5, <2>6
  <2>8. <<line[i + 1]>> \in Json(S)
    BY <2>7, NumberSymbols, NumberIsJson
  <2>. QED BY <1>3, <2>8 DEF NumberOf
<1>4. CASE ~(i <= Matched(line))
  BY <1>2, <1>4 DEF NumberOf
<1>. QED BY <1>3, <1>4

LEMMA CpuMembersType ==
  ASSUME NEW S, Enough(S), NEW line, Len(line) \in Nat \ {0}
  PROVE  CpuMembers(line) \in Seq(S \X Json(S))
<1>1. PICK names : names = CpuField
  OBVIOUS
<1>2. DOMAIN names = 1..10
  BY <1>1 DEF CpuField
<1>3. Range(names) \subseteq S
  BY <1>1, KeysIn DEF Keys
<1>4. ASSUME NEW i \in 1..10
      PROVE  <<names[i], NumberOf(line, i)>> \in S \X Json(S)
  <2>1. names[i] \in S
    BY <1>2, <1>3 DEF Range
  <2>2. i \in Nat \ {0}
    OBVIOUS
  <2>3. NumberOf(line, i) \in Json(S)
    BY <2>2, NumberOfIsJson
  <2>. QED BY ONLY <2>1, <2>3
<1>5. CpuMembers(line) = [i \in 1..10 |-> <<names[i], NumberOf(line, i)>>]
  BY <1>1, <1>2 DEF CpuMembers
<1>. QED BY ONLY <1>4, <1>5

LEMMA CountMembersType ==
  ASSUME NEW S, Enough(S), NEW n \in Nat, NEW file, DOMAIN file = 1..n,
         \A i \in 1..n : Len(file[i]) \in Nat \ {0}
  PROVE  CountMembers(file) \in Seq(S \X Json(S))
<1>1. PICK names : names = CountField
  OBVIOUS
<1>2. DOMAIN names = 1..4
  BY <1>1 DEF CountField
<1>3. Range(names) \subseteq S
  BY <1>1, KeysIn DEF Keys
<1>4. ASSUME NEW name PROVE Count(file, name) \in Json(S)
  <2>1. CASE CountLines(file, name) = {}
    <3>1. "0" \in S /\ "0" \in Figure
      BY MarksIn DEF Figure
    <3>2. <<"0">> \in Json(S)
      BY <3>1, NumberIsJson
    <3>. QED BY <2>1, <3>2 DEF Count
  <2>2. CASE CountLines(file, name) # {}
    <3>1. CountLines(file, name) \in SUBSET (1..n) /\ CountLines(file, name) \in SUBSET (0..n)
      BY DEF CountLines
    <3>2. PICK last : last = Max(CountLines(file, name))
      OBVIOUS
    <3>3. last \in 1..n
      BY <2>2, <3>1, <3>2, LastIndex
    <3>4. NumberOf(file[last], 1) \in Json(S)
      BY <3>3, NumberOfIsJson
    <3>. QED BY <2>2, <3>2, <3>4 DEF Count
  <2>. QED BY <2>1, <2>2
<1>5. ASSUME NEW i \in 1..4
      PROVE  <<names[i], Count(file, names[i])>> \in S \X Json(S)
  <2>1. names[i] \in S
    BY <1>2, <1>3 DEF Range
  <2>. QED BY ONLY <1>4, <2>1
<1>6. CountMembers(file) = [i \in 1..4 |-> <<names[i], Count(file, names[i])>>]
  BY <1>1, <1>2 DEF CountMembers
<1>. QED BY ONLY <1>5, <1>6

LEMMA ProcStatIsJson ==
  ASSUME NEW S, Enough(S), NEW T, NEW file, file = NoFile \/ file \in Seq(Seq(T) \ {<<>>})
  PROVE  ProcStat(file) \in Json(S)
<1>1. CASE file = NoFile \/ CpuLines(file) = {}
  BY <1>1, UnavailableIsJson DEF ProcStat
<1>2. CASE ~(file = NoFile \/ CpuLines(file) = {})
  <2>1. PICK n \in Nat : n = Len(file)
    BY <1>2, LenProperties
  <2>2. DOMAIN file = 1..n /\ \A i \in 1..n : file[i] \in Seq(T) /\ file[i] # <<>>
    BY <1>2, <2>1, LenProperties
  <2>3. \A i \in 1..n : Len(file[i]) \in Nat \ {0}
    BY <2>2, LenProperties, EmptySeq
  <2>4. PICK first : first = Min(CpuLines(file))
    OBVIOUS
  <2>5. first \in 1..n
    <3>1. CpuLines(file) \in SUBSET Nat /\ CpuLines(file) \subseteq 1..n
      BY <2>2 DEF CpuLines
    <3>. QED BY <1>2, <2>4, <3>1, FirstIndex
  <2>6. CpuMembers(file[first]) \in Seq(S \X Json(S))
    BY <2>3, <2>5, CpuMembersType
  <2>7. CountMembers(file) \in Seq(S \X Json(S))
    BY ONLY Enough(S), n \in Nat, <2>2, <2>3, CountMembersType
  <2>8. << <<"available", <<"true">>>> >> \in Seq(S \X Json(S))
    <3>1. "available" \in S
      BY KeysIn DEF Keys
    <3>2. <<"true">> \in Json(S)
      BY LiteralsAreJson
    <3>. QED BY ONLY <3>1, <3>2, Member1
  <2>9. << <<"available", <<"true">>>> >> \o CpuMembers(file[first]) \o CountMembers(file)
          \in Seq(S \X Json(S))
    BY ONLY <2>6, <2>7, <2>8, ConcatProperties
  <2>. QED BY <1>2, <2>4, <2>9, ObjectIsJson DEF ProcStat
<1>. QED BY <1>1, <1>2

LEMMA Member7 ==
  ASSUME NEW S, NEW J, NEW a \in S, NEW v \in J, NEW b \in S, NEW w \in J,
         NEW c \in S, NEW x \in J, NEW d \in S, NEW y \in J, NEW e \in S, NEW z \in J,
         NEW f \in S, NEW o \in J, NEW g \in S, NEW p \in J
  PROVE  << <<a, v>>, <<b, w>>, <<c, x>>, <<d, y>>, <<e, z>>, <<f, o>>, <<g, p>> >>
           \in Seq(S \X J)
OBVIOUS

\* Symbols that hold what the server, the host and the module print.
LEMMA SymbolIsEnough ==
  ASSUME NEW S, Symbol \subseteq S
  PROVE  Enough(S) /\ Text \subseteq Seq(S) /\ Numeral \subseteq Json(S)
<1>1. Enough(S)
  BY CollectorAssumption DEF InputsOK, Enough
<1>2. Text \subseteq Seq(S)
  BY SeqMonotonic DEF Text
<1>3. Numeral \subseteq Json(S)
  BY <1>1, <1>2, JsonClosed DEF Closed, Numbers, Numeral
<1>. QED BY <1>1, <1>2, <1>3

LEMMA HostSectionIsJson ==
  ASSUME NEW S, Symbol \subseteq S, NEW host, HostOK(host)
  PROVE  HostSection(host) \in Json(S)
<1>1. Enough(S) /\ Text \subseteq Seq(S)
  BY SymbolIsEnough
<1>2. /\ "supported" \in S /\ "loadavg" \in S /\ "cpu" \in S /\ "memory" \in S
      /\ "disk" \in S /\ "network" \in S /\ "process" \in S /\ "diskstats" \in S
      /\ "net_dev" \in S /\ "status" \in S /\ "io" \in S
  BY <1>1, KeysIn DEF Keys
<1>3. \A file \in File(Text) : file = NoFile \/ file \in Seq(S)
  BY <1>1 DEF File
<1>4. ASSUME NEW file \in File(Text)
      PROVE  StringObject(file) \in Json(S) /\ Blob(file) \in Json(S)
  BY <1>1, <1>3, StringObjectIsJson, BlobIsJson
<1>5. /\ StringObject(host.meminfo) \in Json(S) /\ StringObject(host.status) \in Json(S)
      /\ StringObject(host.io) \in Json(S)
      /\ Blob(host.diskstats) \in Json(S) /\ Blob(host.net_dev) \in Json(S)
  BY <1>4 DEF HostOK
<1>6. ProcStat(host.stat) \in Json(S)
  <2>1. host.stat = NoFile \/ host.stat \in Seq(Seq(Symbol) \ {<<>>})
    BY DEF HostOK, File, Text
  <2>. QED BY <1>1, <2>1, ProcStatIsJson
<1>7. LoadAvg(host.loadavg) \in Json(S) /\ <<"true">> \in Json(S)
  BY <1>1, LoadAvgIsJson, LiteralsAreJson
<1>8. Object(<< <<"diskstats", Blob(host.diskstats)>> >>) \in Json(S)
  <2>1. << <<"diskstats", Blob(host.diskstats)>> >> \in Seq(S \X Json(S))
    BY ONLY <1>2, <1>5, Member1
  <2>. QED BY ONLY <1>1, <2>1, ObjectIsJson
<1>9. Object(<< <<"net_dev", Blob(host.net_dev)>> >>) \in Json(S)
  <2>1. << <<"net_dev", Blob(host.net_dev)>> >> \in Seq(S \X Json(S))
    BY ONLY <1>2, <1>5, Member1
  <2>. QED BY ONLY <1>1, <2>1, ObjectIsJson
<1>10. Object(<< <<"status", StringObject(host.status)>>,
                 <<"io", StringObject(host.io)>> >>) \in Json(S)
  <2>1. << <<"status", StringObject(host.status)>>, <<"io", StringObject(host.io)>> >>
          \in Seq(S \X Json(S))
    BY ONLY <1>2, <1>5, Member2
  <2>. QED BY ONLY <1>1, <2>1, ObjectIsJson
<1>11. << <<"supported", <<"true">>>>,
          <<"loadavg", LoadAvg(host.loadavg)>>,
          <<"cpu", ProcStat(host.stat)>>,
          <<"memory", StringObject(host.meminfo)>>,
          <<"disk", Object(<< <<"diskstats", Blob(host.diskstats)>> >>)>>,
          <<"network", Object(<< <<"net_dev", Blob(host.net_dev)>> >>)>>,
          <<"process", Object(<< <<"status", StringObject(host.status)>>,
                                 <<"io", StringObject(host.io)>> >>)>> >>
         \in Seq(S \X Json(S))
  BY ONLY <1>2, <1>5, <1>6, <1>7, <1>8, <1>9, <1>10, Member7
<1>. QED BY ONLY <1>1, <1>11, ObjectIsJson DEF HostSection

LEMMA HostIsJson ==
  ASSUME NEW S, Symbol \subseteq S, proc \in Proc \cup {NoFile}
  PROVE  Host \in Json(S)
<1>1. Enough(S) /\ <<"false">> \in Json(S)
  BY SymbolIsEnough, LiteralsAreJson
<1>2. "supported" \in S /\ "enabled" \in S
  BY <1>1, KeysIn DEF Keys
<1>3. StubSection \in Json(S)
  <2>1. << <<"supported", <<"false">>>> >> \in Seq(S \X Json(S))
    BY ONLY <1>1, <1>2, Member1
  <2>. QED BY ONLY <1>1, <2>1, ObjectIsJson DEF StubSection
<1>4. DisabledSection \in Json(S)
  <2>1. << <<"enabled", <<"false">>>> >> \in Seq(S \X Json(S))
    BY ONLY <1>1, <1>2, Member1
  <2>. QED BY ONLY <1>1, <2>1, ObjectIsJson DEF DisabledSection
<1>5. proc # NoFile => HostSection(proc) \in Json(S)
  BY HostSectionIsJson, CollectorAssumption DEF InputsOK
<1>. QED BY <1>3, <1>4, <1>5 DEF Host
-----------------------------------------------------------------------------
(* The replies of the server.                                              *)

LEMMA EmptyObjectIsJson ==
  ASSUME NEW S, Enough(S)
  PROVE  Object(<<>>) \in Json(S)
<1>1. <<>> \in Seq(S \X Json(S))
  OBVIOUS
<1>. QED BY <1>1, ObjectIsJson

LEMMA LatencyIsJson ==
  ASSUME NEW S, Symbol \subseteq S, NEW rows \in LatencyRows
  PROVE  LatencyLatest(rows) \in Json(S)
<1>1. Enough(S) /\ Text \subseteq Seq(S) /\ Numeral \subseteq Json(S)
  BY SymbolIsEnough
<1>2. /\ "event" \in S /\ "latest_ms" \in S /\ "max_ms" \in S /\ "all_time_ms" \in S
  BY <1>1, KeysIn DEF Keys
<1>3. PICK n \in Nat : n = Len(rows) /\ DOMAIN rows = 1..n
  BY CollectorAssumption, LenProperties DEF InputsOK
<1>4. \A i \in 1..n : LatencyRowOK(rows[i])
  BY <1>3, CollectorAssumption DEF InputsOK
<1>. DEFINE Row(row) ==
              IF row = ShortRow THEN Object(<<>>)
              ELSE Object(<< <<"event", JsonString(row.event)>>,
                             <<"latest_ms", row.second>>, <<"max_ms", row.third>>,
                             <<"all_time_ms", row.fourth>> >>)
<1>5. ASSUME NEW row, LatencyRowOK(row)
      PROVE  Row(row) \in Json(S)
  <2>1. CASE row = ShortRow
    BY <1>1, <2>1, EmptyObjectIsJson
  <2>2. CASE row # ShortRow
    <3>1. /\ row.event \in Seq(S) /\ row.second \in Json(S) /\ row.third \in Json(S)
          /\ row.fourth \in Json(S)
      BY <1>1, <1>5, <2>2 DEF LatencyRowOK
    <3>2. JsonString(row.event) \in Json(S)
      BY <1>1, <3>1, JsonStringIsString, StringsAreJson
    <3>3. << <<"event", JsonString(row.event)>>, <<"latest_ms", row.second>>,
             <<"max_ms", row.third>>, <<"all_time_ms", row.fourth>> >> \in Seq(S \X Json(S))
      BY ONLY <1>2, <3>1, <3>2, Member4
    <3>. QED BY ONLY <1>1, <2>2, <3>3, ObjectIsJson
  <2>. QED BY <2>1, <2>2
<1>6. PICK texts : texts = [i \in DOMAIN rows |-> Row(rows[i])]
  OBVIOUS
<1>7. DOMAIN texts = 1..n /\ \A i \in 1..n : texts[i] \in Json(S)
  <2>. HIDE DEF Row
  <2>. QED BY <1>3, <1>4, <1>5, <1>6
<1>8. Array(texts) \in Json(S)
  BY ONLY <1>1, n \in Nat, <1>7, ArrayAt
<1>. QED BY <1>6, <1>8 DEF LatencyLatest

\* Arguments may hold the symbols of a secret as long as they are replaced.
LEMMA SlowlogIsJson ==
  ASSUME NEW S, Symbol \subseteq S, config.slowlog_redact \/ Secret \subseteq S,
         server \in Server, NEW rows \in SlowlogRows
  PROVE  Slowlog(rows) \in Json(S)
<1>1. Enough(S) /\ Text \subseteq Seq(S) /\ Numeral \subseteq Json(S)
  BY SymbolIsEnough
<1>2. /\ "id" \in S /\ "ts" \in S /\ "duration_usec" \in S /\ "args" \in S
      /\ "len" \in S /\ "entries" \in S
  BY <1>1, KeysIn DEF Keys
<1>3. PICK n \in Nat : n = Len(rows) /\ DOMAIN rows = 1..n
  BY CollectorAssumption, LenProperties DEF InputsOK
<1>4. \A i \in 1..n : SlowlogRowOK(rows[i])
  BY <1>3, CollectorAssumption DEF InputsOK
<1>5. ASSUME NEW arg \in Seq(Symbol \cup Secret)
      PROVE  SlowlogArg(arg) \in Json(S)
  <2>1. (IF config.slowlog_redact THEN RedactSlowlogArg(arg) ELSE arg) \in Seq(S)
    <3>1. <<"?">> \in Seq(S)
      BY <1>1, BracketsIn
    <3>2. ~config.slowlog_redact => arg \in Seq(S)
      <4>. SUFFICES ASSUME ~config.slowlog_redact PROVE arg \in Seq(S)
        OBVIOUS
      <4>1. Symbol \cup Secret \subseteq S
        OBVIOUS
      <4>. QED BY <4>1, SeqMonotonic
    <3>. QED BY <3>1, <3>2 DEF RedactSlowlogArg
  <2>. QED BY <1>1, <2>1, JsonStringIsString, StringsAreJson DEF SlowlogArg
<1>. DEFINE Args(row) == Array([j \in DOMAIN row.args |-> SlowlogArg(row.args[j])])
            Row(row) ==
              IF row = ShortRow THEN Object(<<>>)
              ELSE Object(<< <<"id", row.id>>, <<"ts", row.ts>>,
                             <<"duration_usec", row.duration>>, <<"args", Args(row)>> >>)
<1>6. ASSUME NEW row, SlowlogRowOK(row)
      PROVE  Row(row) \in Json(S)
  <2>1. CASE row = ShortRow
    BY <1>1, <2>1, EmptyObjectIsJson
  <2>2. CASE row # ShortRow
    <3>1. /\ row.args \in Seq(Seq(Symbol \cup Secret)) /\ row.id \in Json(S)
          /\ row.ts \in Json(S) /\ row.duration \in Json(S)
      BY <1>1, <1>6, <2>2 DEF SlowlogRowOK
    <3>2. Args(row) \in Json(S)
      <4>1. PICK m \in Nat : m = Len(row.args) /\ DOMAIN row.args = 1..m
        BY <3>1, LenProperties
      <4>2. PICK texts : texts = [j \in DOMAIN row.args |-> SlowlogArg(row.args[j])]
        OBVIOUS
      <4>3. \A j \in 1..m : row.args[j] \in Seq(Symbol \cup Secret)
        BY <3>1, <4>1
      <4>4. DOMAIN texts = 1..m /\ \A j \in 1..m : texts[j] \in Json(S)
        BY <1>5, <4>1, <4>2, <4>3
      <4>5. Array(texts) \in Json(S)
        BY ONLY <1>1, m \in Nat, <4>4, ArrayAt
      <4>. QED BY <4>2, <4>5
    <3>. HIDE DEF Args
    <3>3. << <<"id", row.id>>, <<"ts", row.ts>>, <<"duration_usec", row.duration>>,
             <<"args", Args(row)>> >> \in Seq(S \X Json(S))
      BY ONLY <1>2, <3>1, <3>2, Member4
    <3>. QED BY ONLY <1>1, <2>2, <3>3, ObjectIsJson
  <2>. QED BY <2>1, <2>2
<1>7. PICK texts : texts = [i \in DOMAIN rows |-> Row(rows[i])]
  OBVIOUS
<1>8. DOMAIN texts = 1..n /\ \A i \in 1..n : texts[i] \in Json(S)
  <2>. HIDE DEF Row
  <2>. QED BY <1>3, <1>4, <1>6, <1>7
<1>9. Array(texts) \in Json(S)
  BY ONLY <1>1, n \in Nat, <1>8, ArrayAt
<1>10. server.slowlog_len \in Json(S)
  BY <1>1, CollectorAssumption DEF InputsOK, ServerOK
<1>11. << <<"len", server.slowlog_len>> >> \in Seq(S \X Json(S))
  BY ONLY <1>2, <1>10, Member1
<1>12. << <<"entries", Array(texts)>> >> \in Seq(S \X Json(S))
  BY ONLY <1>2, <1>9, Member1
<1>13. << <<"len", server.slowlog_len>> >> \o << <<"entries", Array(texts)>> >>
         \in Seq(S \X Json(S))
  BY ONLY <1>11, <1>12, ConcatProperties
<1>14. /\ Object(<< <<"len", server.slowlog_len>> >>) \in Json(S)
       /\ Object(<< <<"len", server.slowlog_len>> >> \o << <<"entries", Array(texts)>> >>)
            \in Json(S)
  BY ONLY <1>1, <1>11, <1>13, ObjectIsJson
<1>15. Slowlog(rows) =
         Object(IF config.collect_slowlog
                THEN << <<"len", server.slowlog_len>> >> \o << <<"entries", Array(texts)>> >>
                ELSE << <<"len", server.slowlog_len>> >>)
  BY <1>7 DEF Slowlog
<1>. QED BY ONLY <1>14, <1>15

LEMMA Three ==
  ASSUME NEW S, NEW a \in S, NEW b \in S, NEW c \in S PROVE <<a, b, c>> \in Seq(S)
OBVIOUS

LEMMA Five ==
  ASSUME NEW S, NEW a \in S, NEW b \in S, NEW c \in S, NEW d \in S, NEW e \in S
  PROVE  <<a, b, c, d, e>> \in Seq(S)
OBVIOUS

LEMMA Nine ==
  ASSUME NEW S, NEW a \in S, NEW b \in S, NEW c \in S, NEW d \in S, NEW e \in S,
         NEW f \in S, NEW g \in S, NEW h \in S, NEW i \in S
  PROVE  <<a, b, c, d, e, f, g, h, i>> \in Seq(S)
OBVIOUS

LEMMA Ten ==
  ASSUME NEW S, NEW a \in S, NEW b \in S, NEW c \in S, NEW d \in S, NEW e \in S,
         NEW f \in S, NEW g \in S, NEW h \in S, NEW i \in S, NEW j \in S
  PROVE  <<a, b, c, d, e, f, g, h, i, j>> \in Seq(S)
OBVIOUS

LEMMA Member3 ==
  ASSUME NEW S, NEW J, NEW a \in S, NEW v \in J, NEW b \in S, NEW w \in J,
         NEW c \in S, NEW x \in J
  PROVE  << <<a, v>>, <<b, w>>, <<c, x>> >> \in Seq(S \X J)
OBVIOUS

LEMMA Member5 ==
  ASSUME NEW S, NEW J, NEW a \in S, NEW v \in J, NEW b \in S, NEW w \in J,
         NEW c \in S, NEW x \in J, NEW d \in S, NEW y \in J, NEW e \in S, NEW z \in J
  PROVE  << <<a, v>>, <<b, w>>, <<c, x>>, <<d, y>>, <<e, z>> >> \in Seq(S \X J)
OBVIOUS

LEMMA WordsIn ==
  /\ "#" \in Symbol /\ " " \in Symbol /\ "\r" \in Symbol /\ "\n" \in Symbol
  /\ "=" \in Symbol /\ "ip" \in Symbol /\ "w" \in Symbol /\ "state" \in Symbol
  /\ "online" \in Symbol /\ "offset" \in Symbol /\ "lag" \in Symbol
  /\ "calls" \in Symbol /\ "usec_per_call" \in Symbol
  /\ "," \in Symbol /\ "." \in Symbol /\ ":" \in Symbol /\ "0" \in Symbol /\ "7" \in Symbol
BY CollectorAssumption DEF InputsOK, Vocabulary, Words, Marks, Figure

LEMMA NamesIn ==
  /\ "run_id" \in Symbol /\ "process_id" \in Symbol /\ "uptime_in_seconds" \in Symbol
  /\ "config_file" \in Symbol /\ "executable" \in Symbol
  /\ "total_commands_processed" \in Symbol /\ "instantaneous_input_kbps" \in Symbol
  /\ "keyspace_hits" \in Symbol /\ "role" \in Symbol /\ "master_repl_offset" \in Symbol
  /\ "cmdstat_get" \in Symbol /\ "loading" \in Symbol
  /\ Range(Sections) \subseteq Symbol /\ Range(SlaveName) \subseteq Symbol
BY CollectorAssumption DEF InputsOK, Vocabulary, Names

LEMMA SlaveTextType ==
  ASSUME NEW offset \in Text
  PROVE  SlaveText(offset) \in Text
<1>1. <<"ip", "=", "w", ",", "state", "=", "online", ",", "offset", "=">> \in Seq(Symbol)
  BY ONLY WordsIn, Ten
<1>2. <<",", "lag", "=", "0">> \in Seq(Symbol)
  BY ONLY WordsIn, Four
<1>3. offset \in Seq(Symbol)
  BY DEF Text
<1>. QED BY ONLY <1>1, <1>2, <1>3, ConcatProperties DEF SlaveText, Text

LEMMA FieldsType ==
  ASSUME server \in Server, NEW section
  PROVE  InfoFields(section) \in Seq(Symbol \X Text)
<1>1. /\ server.run_id \in Text /\ server.role \in Text /\ server.process_id \in Text
      /\ server.uptime \in Text /\ server.executable \in Text /\ server.commands \in Text
      /\ server.hits \in Text /\ server.offset \in Text
      /\ server.slaves \in Seq(Text) /\ Len(server.slaves) <= Len(SlaveName)
  BY CollectorAssumption DEF InputsOK, ServerOK
<1>2. <<>> \in Text /\ <<"0">> \in Text /\ <<"0", ".", "7">> \in Text
  <2>1. <<>> \in Seq(Symbol)
    OBVIOUS
  <2>2. <<"0">> \in Seq(Symbol)
    BY ONLY WordsIn, One
  <2>3. <<"0", ".", "7">> \in Seq(Symbol)
    BY ONLY WordsIn, Three
  <2>. QED BY ONLY <2>1, <2>2, <2>3 DEF Text
<1>3. << <<"run_id", server.run_id>>, <<"process_id", server.process_id>>,
         <<"uptime_in_seconds", server.uptime>>, <<"config_file", <<>>>>,
         <<"executable", server.executable>> >> \in Seq(Symbol \X Text)
  BY ONLY NamesIn, <1>1, <1>2, Member5
<1>4. << <<"total_commands_processed", server.commands>>,
         <<"instantaneous_input_kbps", <<"0", ".", "7">>>>,
         <<"keyspace_hits", server.hits>> >> \in Seq(Symbol \X Text)
  BY ONLY NamesIn, <1>1, <1>2, Member3
<1>5. [i \in DOMAIN server.slaves |-> <<SlaveName[i], SlaveText(server.slaves[i])>>]
        \in Seq(Symbol \X Text)
  <2>1. PICK n \in Nat : n = Len(server.slaves)
    BY <1>1, LenProperties
  <2>2. DOMAIN server.slaves = 1..n /\ \A i \in 1..n : server.slaves[i] \in Text
    BY <1>1, <2>1, LenProperties
  <2>3. PICK names : names = SlaveName
    OBVIOUS
  <2>4. DOMAIN names = 1..2 /\ Len(names) = 2
    BY <2>3 DEF SlaveName
  <2>5. Range(names) \subseteq Symbol
    BY <2>3, NamesIn
  <2>6. ASSUME NEW i \in 1..n
        PROVE  <<names[i], SlaveText(server.slaves[i])>> \in Symbol \X Text
    <3>1. i \in 1..2
      BY <1>1, <2>1, <2>3, <2>4
    <3>2. names[i] \in Symbol
      BY <2>4, <2>5, <3>1 DEF Range
    <3>3. SlaveText(server.slaves[i]) \in Text
      BY <2>2, SlaveTextType
    <3>. QED BY ONLY <3>2, <3>3
  <2>7. [i \in 1..n |-> <<names[i], SlaveText(server.slaves[i])>>] \in Seq(Symbol \X Text)
    BY ONLY n \in Nat, <2>6
  <2>. QED BY ONLY <2>2, <2>3, <2>7
<1>6. << <<"role", server.role>> >> \in Seq(Symbol \X Text)
  BY ONLY NamesIn, <1>1, Member1
<1>7. << <<"master_repl_offset", server.offset>> >> \in Seq(Symbol \X Text)
  BY ONLY NamesIn, <1>1, Member1
<1>8. << <<"role", server.role>> >>
      \o [i \in DOMAIN server.slaves |-> <<SlaveName[i], SlaveText(server.slaves[i])>>]
      \o << <<"master_repl_offset", server.offset>> >> \in Seq(Symbol \X Text)
  BY ONLY <1>5, <1>6, <1>7, ConcatProperties
<1>9. << <<"cmdstat_get", <<"calls", "=", "7", ",", "usec_per_call", "=",
                            "7", ".", "0">> >> >> \in Seq(Symbol \X Text)
  <2>1. <<"calls", "=", "7", ",", "usec_per_call", "=", "7", ".", "0">> \in Text
    BY ONLY WordsIn, Nine DEF Text
  <2>. QED BY ONLY NamesIn, <2>1, Member1
<1>10. << <<"loading", <<"0">>>> >> \in Seq(Symbol \X Text)
  BY ONLY NamesIn, <1>2, Member1
<1>. QED BY ONLY <1>3, <1>4, <1>8, <1>9, <1>10 DEF InfoFields

LEMMA InfoReplyType ==
  ASSUME server \in Server, NEW section \in Symbol
  PROVE  InfoReply(section) \in Text
<1>1. PICK fields \in Seq(Symbol \X Text) : fields = InfoFields(section)
  BY FieldsType
<1>2. PICK n \in Nat : n = Len(fields)
  BY LenProperties
<1>3. DOMAIN fields = 1..n /\ \A i \in 1..n : fields[i] \in Symbol \X Text
  BY <1>2, LenProperties
<1>4. <<"\r", "\n">> \in Seq(Symbol)
  BY ONLY WordsIn, Two
<1>5. <<"#", " ", section, "\r", "\n">> \in Seq(Symbol)
  BY ONLY WordsIn, section \in Symbol, Five
<1>6. ASSUME NEW i \in 1..n
      PROVE  <<fields[i][1], ":">> \o fields[i][2] \o <<"\r", "\n">> \in Seq(Symbol)
  <2>1. PICK name \in Symbol, value \in Seq(Symbol) :
          name = fields[i][1] /\ value = fields[i][2]
    BY <1>3 DEF Text
  <2>2. <<name, ":">> \in Seq(Symbol)
    BY ONLY WordsIn, name \in Symbol, Two
  <2>3. <<name, ":">> \o value \o <<"\r", "\n">> \in Seq(Symbol)
    BY ONLY <1>4, <2>2, value \in Seq(Symbol), ConcatProperties
  <2>. QED BY ONLY <2>1, <2>3
<1>7. [i \in DOMAIN fields |-> <<fields[i][1], ":">> \o fields[i][2] \o <<"\r", "\n">>]
        \in Seq(Seq(Symbol))
  BY ONLY n \in Nat, <1>3, <1>6
<1>8. FlattenSeq([i \in DOMAIN fields |->
                    <<fields[i][1], ":">> \o fields[i][2] \o <<"\r", "\n">>]) \in Seq(Symbol)
  BY ONLY <1>7, FlattenSeqType
<1>9. InfoReply(section) =
        <<"#", " ", section, "\r", "\n">>
        \o FlattenSeq([i \in DOMAIN fields |->
                         <<fields[i][1], ":">> \o fields[i][2] \o <<"\r", "\n">>])
  BY <1>1 DEF InfoReply
<1>. QED BY ONLY <1>5, <1>8, <1>9, ConcatProperties DEF Text
-----------------------------------------------------------------------------
(* A sample put together.                                                  *)

\* The beginning of a sample, up to the objects "valkey" and "info".
ValkeyHead ==
  <<"{">> \o Member("ts_ms", server.now) \o <<",">> \o JsonString(<<"valkey">>) \o <<":">>
InfoHead == ValkeyHead \o <<"{">> \o JsonString(<<"info">>) \o <<":">>


LEMMA TwoIsOneAndOne ==
  ASSUME NEW S, NEW a \in S, NEW b \in S
  PROVE  <<a, b>> = <<a>> \o <<b>>
<1>. DEFINE c == <<a, b>>
            d == <<a>> \o <<b>>
<1>1. /\ c \in Seq(S) /\ Len(c) = 2 /\ c[1] = a /\ c[2] = b
      /\ d \in Seq(S) /\ Len(d) = 2 /\ d[1] = a /\ d[2] = b
  OBVIOUS
<1>. HIDE DEF c, d
<1>2. \A i \in 1..Len(c) : c[i] = d[i]
  BY <1>1
<1>3. c = d
  BY ONLY <1>1, <1>2, SeqEqual
<1>. QED BY <1>3 DEF c, d

AreTexts(S, texts) == texts \subseteq Seq(S)

\* The object "info" is closed and "latency_latest" follows.
LEMMA RegroupLatency ==
  ASSUME NEW S, NEW x \in Seq(S), NEW o \in Seq(S), NEW m \in Seq(S), NEW z \in Seq(S),
         NEW c \in Seq(S), NEW l \in Seq(S)
  PROVE  ((x ** o) ** m) ** ((z ** c) ** l) = (x ** ((o ** m) ** z)) ** (c ** l)
<1>1. /\ x ** o \in Seq(S) /\ o ** m \in Seq(S) /\ c ** l \in Seq(S)
      /\ (x ** o) ** m \in Seq(S)
  BY GlueType
<1>2. (z ** c) ** l = z ** (c ** l)
  BY GlueAssociative
<1>3. ((x ** o) ** m) ** (z ** (c ** l)) = (((x ** o) ** m) ** z) ** (c ** l)
  BY <1>1, GlueAssociative
<1>4. (x ** o) ** m = x ** (o ** m)
  BY GlueAssociative
<1>5. (x ** (o ** m)) ** z = x ** ((o ** m) ** z)
  BY <1>1, GlueAssociative
<1>. QED BY ONLY <1>2, <1>3, <1>4, <1>5

\* The object "valkey" is closed after "slowlog".
LEMMA RegroupSlowlog ==
  ASSUME NEW S, NEW u, NEW o, NEW i, NEW k, NEW j, NEW c, NEW l, NEW g, NEW z,
         AreTexts(S, {u, o, i, k, j, c, l, g, z})
  PROVE  (((((u ** o) ** i) ** k) ** j) ** (c ** l)) ** ((c ** g) ** z)
           = u ** ((o ** ((((((i ** k) ** j) ** c) ** l) ** c) ** g)) ** z)
<1>. USE DEF AreTexts
<1>1. PICK h \in Seq(S) : h = u ** o
  BY GlueType
<1>2. PICK a \in Seq(S) : a = (i ** k) ** j
  BY GlueType
<1>3. ((h ** i) ** k) ** j = h ** a
  <2>1. i ** k \in Seq(S)
    BY GlueType
  <2>2. (h ** i) ** k = h ** (i ** k)
    BY GlueAssociative
  <2>3. (h ** (i ** k)) ** j = h ** ((i ** k) ** j)
    BY <2>1, GlueAssociative
  <2>. QED BY ONLY <1>2, <2>2, <2>3
<1>4. PICK b \in Seq(S) : b = (a ** c) ** l
  BY GlueType
<1>5. (h ** a) ** (c ** l) = h ** b
  <2>1. c ** l \in Seq(S)
    BY GlueType
  <2>2. (h ** a) ** (c ** l) = h ** (a ** (c ** l))
    BY <2>1, GlueAssociative
  <2>3. (a ** c) ** l = a ** (c ** l)
    BY GlueAssociative
  <2>. QED BY ONLY <1>4, <2>2, <2>3
<1>6. PICK d \in Seq(S) : d = (b ** c) ** g
  BY GlueType
<1>7. (h ** b) ** ((c ** g) ** z) = h ** (d ** z)
  <2>1. c ** g \in Seq(S) /\ (c ** g) ** z \in Seq(S)
    BY GlueType
  <2>2. (h ** b) ** ((c ** g) ** z) = h ** (b ** ((c ** g) ** z))
    BY <2>1, GlueAssociative
  <2>3. (b ** (c ** g)) ** z = b ** ((c ** g) ** z)
    BY <2>1, GlueAssociative
  <2>4. (b ** c) ** g = b ** (c ** g)
    BY GlueAssociative
  <2>. QED BY ONLY <1>6, <2>2, <2>3, <2>4
<1>8. h ** (d ** z) = u ** ((o ** d) ** z)
  <2>1. d ** z \in Seq(S)
    BY GlueType
  <2>2. (u ** o) ** (d ** z) = u ** (o ** (d ** z))
    BY <2>1, GlueAssociative
  <2>3. (o ** d) ** z = o ** (d ** z)
    BY GlueAssociative
  <2>. QED BY ONLY <1>1, <2>2, <2>3
<1>. QED BY ONLY <1>1, <1>2, <1>3, <1>4, <1>5, <1>6, <1>7, <1>8

\* The sample is closed after "host".
LEMMA RegroupHost ==
  ASSUME NEW S, NEW o, NEW a, NEW c, NEW v, NEW k, NEW j, NEW h, NEW z,
         AreTexts(S, {o, a, c, v, k, j, h, z})
  PROVE  (((((o ** a) ** c) ** v) ** k) ** j) ** ((c ** h) ** z)
           = (o ** ((((a ** c) ** ((v ** k) ** j)) ** c) ** h)) ** z
<1>. USE DEF AreTexts
<1>1. PICK e \in Seq(S) : e = (v ** k) ** j
  BY GlueType
<1>2. PICK f \in Seq(S) : f = (a ** c) ** e
  BY GlueType
<1>3. ((((o ** a) ** c) ** v) ** k) ** j = o ** f
  <2>1. /\ (o ** a) ** c \in Seq(S) /\ v ** k \in Seq(S) /\ a ** c \in Seq(S)
    BY GlueType
  <2>2. (((o ** a) ** c) ** v) ** k = ((o ** a) ** c) ** (v ** k)
    BY <2>1, GlueAssociative
  <2>3. (((o ** a) ** c) ** (v ** k)) ** j = ((o ** a) ** c) ** ((v ** k) ** j)
    BY <2>1, GlueAssociative
  <2>4. (o ** a) ** c = o ** (a ** c)
    BY GlueAssociative
  <2>5. (o ** (a ** c)) ** e = o ** ((a ** c) ** e)
    BY <2>1, GlueAssociative
  <2>. QED BY ONLY <1>1, <1>2, <2>2, <2>3, <2>4, <2>5
<1>4. PICK g \in Seq(S) : g = (f ** c) ** h
  BY GlueType
<1>5. (o ** f) ** ((c ** h) ** z) = o ** (g ** z)
  <2>1. c ** h \in Seq(S) /\ (c ** h) ** z \in Seq(S)
    BY GlueType
  <2>2. (o ** f) ** ((c ** h) ** z) = o ** (f ** ((c ** h) ** z))
    BY <2>1, GlueAssociative
  <2>3. (f ** (c ** h)) ** z = f ** ((c ** h) ** z)
    BY <2>1, GlueAssociative
  <2>4. (f ** c) ** h = f ** (c ** h)
    BY GlueAssociative
  <2>. QED BY ONLY <1>4, <2>2, <2>3, <2>4
<1>6. (o ** g) ** z = o ** (g ** z)
  BY GlueAssociative
<1>. QED BY ONLY <1>1, <1>2, <1>3, <1>4, <1>5, <1>6

\* The texts a sample begins with.
LEMMA HeadTypes ==
  ASSUME NEW S, Symbol \subseteq S, server \in Server
  PROVE  /\ Member("ts_ms", server.now) \in Members(Json(S), S)
         /\ JsonString(<<"valkey">>) \in Strings(S)
         /\ JsonString(<<"info">>) \in Strings(S)
         /\ Member("ts_ms", server.now) \in Seq(S)
         /\ JsonString(<<"valkey">>) \in Seq(S)
         /\ JsonString(<<"info">>) \in Seq(S)
         /\ ValkeyHead \in Seq(S) /\ InfoHead \in Seq(S)
<1>1. Enough(S) /\ Text \subseteq Seq(S) /\ Numeral \subseteq Json(S)
  BY SymbolIsEnough
<1>2. "ts_ms" \in S /\ "valkey" \in S /\ "info" \in S
  BY <1>1, KeysIn DEF Keys
<1>3. server.now \in Json(S)
  BY <1>1, CollectorAssumption DEF InputsOK, ServerOK
<1>4. Member("ts_ms", server.now) \in Members(Json(S), S)
  BY ONLY <1>1, <1>2, <1>3, MemberIsMember
<1>5. <<"valkey">> \in Seq(S) /\ <<"info">> \in Seq(S)
  BY ONLY <1>2, One
<1>6. JsonString(<<"valkey">>) \in Strings(S) /\ JsonString(<<"info">>) \in Strings(S)
  BY ONLY <1>1, <1>5, JsonStringIsString
<1>7. /\ Member("ts_ms", server.now) \in Seq(S)
      /\ JsonString(<<"valkey">>) \in Seq(S) /\ JsonString(<<"info">>) \in Seq(S)
  BY <1>1, <1>4, <1>6, StringsType, MembersType, JsonType
<1>8. <<"{">> \in Seq(S) /\ <<",">> \in Seq(S) /\ <<":">> \in Seq(S)
  BY <1>1, BracketsIn
<1>9. ValkeyHead \in Seq(S)
  BY ONLY <1>7, <1>8, ConcatProperties DEF ValkeyHead
<1>10. InfoHead \in Seq(S)
  BY ONLY <1>7, <1>8, <1>9, ConcatProperties DEF InfoHead
<1>. QED BY ONLY <1>4, <1>6, <1>7, <1>9, <1>10

LEMMA OpenIs ==
  ASSUME NEW S, Symbol \subseteq S, server \in Server
  PROVE  Open = InfoHead \o <<"{">>
<1>1. Enough(S)
  BY SymbolIsEnough
<1>2. PICK o, k : o = <<"{">> /\ k = <<":">>
  OBVIOUS
<1>3. o \in Seq(S) /\ k \in Seq(S)
  BY <1>1, <1>2, BracketsIn
<1>4. <<":", "{">> = k \o o
  <2>1. ":" \in S /\ "{" \in S
    BY <1>1, MarksIn
  <2>2. <<":", "{">> = <<":">> \o <<"{">>
    BY ONLY <2>1, TwoIsOneAndOne
  <2>. QED BY ONLY <1>2, <2>2
<1>5. PICK h, i \in Seq(S) :
        /\ h = <<"{">> \o Member("ts_ms", server.now) \o <<",">> \o JsonString(<<"valkey">>)
        /\ i = JsonString(<<"info">>)
  <2>1. /\ Member("ts_ms", server.now) \in Seq(S)
        /\ JsonString(<<"valkey">>) \in Seq(S) /\ JsonString(<<"info">>) \in Seq(S)
    BY HeadTypes
  <2>2. <<"{">> \in Seq(S) /\ <<",">> \in Seq(S)
    BY <1>1, BracketsIn
  <2>3. <<"{">> \o Member("ts_ms", server.now) \o <<",">> \o JsonString(<<"valkey">>)
          \in Seq(S)
    BY ONLY <2>1, <2>2, ConcatProperties
  <2>. QED BY ONLY <2>1, <2>3
<1>6. Open = ((h \o (k \o o)) \o i) \o (k \o o)
  BY ONLY <1>4, <1>5 DEF Open
<1>7. InfoHead \o <<"{">> = ((((h \o k) \o o) \o i) \o k) \o o
  BY ONLY <1>2, <1>5 DEF InfoHead, ValkeyHead
<1>8. ((h ** (k ** o)) ** i) ** (k ** o) = ((((h ** k) ** o) ** i) ** k) ** o
  <2>1. (h ** k) ** o = h ** (k ** o)
    BY <1>3, GlueAssociative
  <2>2. PICK g \in Seq(S) : g = (h ** (k ** o)) ** i
    BY <1>3, GlueType
  <2>3. (g ** k) ** o = g ** (k ** o)
    BY <1>3, GlueAssociative
  <2>. QED BY ONLY <2>1, <2>2, <2>3
<1>9. ((h \o (k \o o)) \o i) \o (k \o o) = ((((h \o k) \o o) \o i) \o k) \o o
  BY ONLY <1>8 DEF **
<1>. QED BY ONLY <1>6, <1>7, <1>9

\* Enclosed texts have the separator between them.
LEMMA EnclosedIs ==
  ASSUME NEW S, Enough(S), NEW q \in Seq(Seq(S))
  PROVE  Enclosed("{", q, "}") = (<<"{">> \o Separated(<<",">>, q)) \o <<"}">>
<1>1. PICK n \in Nat : n = Len(q)
  BY LenProperties
<1>2. DOMAIN q = 1..n /\ \A i \in 1..n : q[i] \in Seq(S)
  BY <1>1, LenProperties
<1>3. PICK c : c = <<",">>
  OBVIOUS
<1>4. ASSUME NEW i \in DOMAIN q
      PROVE  (IF i \notin DOMAIN q THEN <<>>
              ELSE (IF \E j \in DOMAIN q : j < i THEN c ELSE <<>>) \o q[i])
               = IF i = 1 THEN q[i] ELSE c \o q[i]
  <2>1. (\E j \in DOMAIN q : j < i) <=> i # 1
    <3>1. i \in 1..n /\ DOMAIN q = 1..n
      BY <1>2
    <3>2. i # 1 => 1 \in 1..n /\ 1 < i
      BY ONLY <3>1, n \in Nat
    <3>3. \A j \in 1..n : j < i => i # 1
      BY ONLY <3>1, n \in Nat
    <3>. QED BY ONLY <3>1, <3>2, <3>3
  <2>2. <<>> \o q[i] = q[i]
    BY <1>2, ConcatEmptySeq
  <2>. QED BY <2>1, <2>2
<1>5. [i \in DOMAIN q |-> IF i \notin DOMAIN q THEN <<>>
                          ELSE (IF \E j \in DOMAIN q : j < i THEN c ELSE <<>>) \o q[i]]
        = [i \in DOMAIN q |-> IF i = 1 THEN q[i] ELSE c \o q[i]]
  BY <1>4
<1>. QED BY <1>3, <1>5 DEF Enclosed, EnclosedAt, Separated

LEMMA SeqIsItsFunction ==
  ASSUME NEW S, NEW s \in Seq(S) PROVE s = [i \in DOMAIN s |-> s[i]]
OBVIOUS

\* An object of three members.
LEMMA TripleObject ==
  ASSUME NEW S, Enough(S), NEW f \in Seq(S \X Json(S)), Len(f) = 3
  PROVE  /\ Object(f) = (<<"{">> \o ((((Member(f[1][1], f[1][2]) \o <<",">>)
                                       \o Member(f[2][1], f[2][2])) \o <<",">>)
                                     \o Member(f[3][1], f[3][2]))) \o <<"}">>
         /\ Object(f) \in Json(S)
<1>1. Json(S) \in SUBSET Seq(S) /\ Members(Json(S), S) \in SUBSET Seq(S)
  BY JsonType, MembersType
<1>2. /\ DOMAIN f = 1..3
      /\ \A i \in 1..3 : f[i][1] \in S /\ f[i][2] \in Json(S)
  BY LenProperties
<1>3. \A i \in 1..3 : Member(f[i][1], f[i][2]) \in Seq(S)
  BY <1>1, <1>2, MemberIsMember
<1>4. PICK x, y, w \in Seq(S) :
        /\ x = Member(f[1][1], f[1][2]) /\ y = Member(f[2][1], f[2][2])
        /\ w = Member(f[3][1], f[3][2])
  BY <1>3
<1>5. PICK c \in Seq(S) : c = <<",">>
  BY BracketsIn
<1>6. PICK q1 : q1 = Append(<<>>, x) /\ q1 \in Seq(Seq(S)) /\ Len(q1) = 1 /\ q1[1] = x
  <2>1. <<>> \in Seq(Seq(S)) /\ Len(<<>>) = 0
    OBVIOUS
  <2>2. /\ Append(<<>>, x) \in Seq(Seq(S)) /\ Len(Append(<<>>, x)) = 1
        /\ Append(<<>>, x)[1] = x
    BY ONLY <2>1, x \in Seq(S), AppendProperties
  <2>. QED BY ONLY <2>2
<1>7. PICK q2 : /\ q2 = Append(q1, y) /\ q2 \in Seq(Seq(S)) /\ Len(q2) = 2
                /\ q2[1] = x /\ q2[2] = y
  <2>1. /\ Append(q1, y) \in Seq(Seq(S)) /\ Len(Append(q1, y)) = 2
        /\ Append(q1, y)[1] = x /\ Append(q1, y)[2] = y
    BY ONLY <1>6, y \in Seq(S), AppendProperties
  <2>. QED BY ONLY <2>1
<1>8. PICK q3 : /\ q3 = Append(q2, w) /\ q3 \in Seq(Seq(S)) /\ Len(q3) = 3
                /\ q3[1] = x /\ q3[2] = y /\ q3[3] = w
  <2>1. /\ Append(q2, w) \in Seq(Seq(S)) /\ Len(Append(q2, w)) = 3
        /\ Append(q2, w)[1] = x /\ Append(q2, w)[2] = y /\ Append(q2, w)[3] = w
    BY ONLY <1>7, w \in Seq(S), AppendProperties
  <2>. QED BY ONLY <2>1
<1>9. Separated(c, q3) = (((x \o c) \o y) \o c) \o w
  <2>1. Separated(c, q1) = x
    BY ONLY c \in Seq(S), x \in Seq(S), <1>6, SeparatedOne
  <2>2. Separated(c, Append(q1, y)) = IF q1 = <<>> THEN y ELSE Separated(c, q1) \o c \o y
    <3>1. q1 \in Seq(Seq(S))
      BY ONLY <1>6
    <3>. QED BY ONLY <3>1, c \in Seq(S), y \in Seq(S), SeparatedAppend, Zenon
  <2>3. Separated(c, Append(q2, w)) = IF q2 = <<>> THEN w ELSE Separated(c, q2) \o c \o w
    <3>1. q2 \in Seq(Seq(S))
      BY ONLY <1>7
    <3>. QED BY ONLY <3>1, c \in Seq(S), w \in Seq(S), SeparatedAppend, Zenon
  <2>4. q1 # <<>> /\ q2 # <<>>
    BY ONLY <1>6, <1>7
  <2>. QED BY ONLY <1>6, <1>7, <1>8, <2>1, <2>2, <2>3, <2>4
<1>10. [i \in DOMAIN f |-> Member(f[i][1], f[i][2])] = q3
  <2>1. DOMAIN q3 = 1..3
    BY ONLY <1>8, LenProperties
  <2>2. \A i \in 1..3 : Member(f[i][1], f[i][2]) = q3[i]
    <3>1. \A i \in 1..3 : i = 1 \/ i = 2 \/ i = 3
      OBVIOUS
    <3>. QED BY ONLY <1>4, <1>8, <3>1
  <2>3. q3 = [i \in DOMAIN q3 |-> q3[i]]
    BY ONLY <1>8, SeqIsItsFunction
  <2>. QED BY ONLY <1>2, <2>1, <2>2, <2>3
<1>11. Object(f) = (<<"{">> \o Separated(c, q3)) \o <<"}">>
  <2>1. Enclosed("{", q3, "}") = (<<"{">> \o Separated(<<",">>, q3)) \o <<"}">>
    BY ONLY Enough(S), <1>8, EnclosedIs
  <2>2. Object(f) = Enclosed("{", q3, "}")
    BY ONLY <1>10 DEF Object
  <2>. QED BY ONLY <1>5, <2>1, <2>2
<1>. QED BY <1>4, <1>5, <1>9, <1>11, ObjectIsJson

-----------------------------------------------------------------------------
(* The parts of a sample.                                                  *)

\* The state a collection reads, and symbols it may write.
Reads(S) ==
  /\ Symbol \subseteq S /\ (config.slowlog_redact \/ Secret \subseteq S)
  /\ server \in Server /\ proc \in Proc \cup {NoFile}

LEMMA SectionsAre ==
  /\ Sections \in Seq(Symbol) /\ DOMAIN Sections = 1..9 /\ Sections[1] = "server"
  /\ \A i \in 1..9 : Sections[i] \in Range(Sections) /\ Sections[i] \in Symbol
  /\ \A i, j \in 1..9 : Sections[i] = Sections[j] => i = j
<1>1. DOMAIN Sections = 1..9 /\ Sections[1] = "server"
  BY DEF Sections
<1>2. \A i \in 1..9 : Sections[i] \in Range(Sections)
  BY <1>1 DEF Range
<1>3. \A i \in 1..9 : Sections[i] \in Symbol
  BY <1>2, NamesIn
<1>4. \A i, j \in 1..9 : Sections[i] = Sections[j] => i = j
  BY DEF Sections
<1>5. Sections \in Seq(Symbol)
  <2>1. Sections[1] \in Symbol /\ Sections[2] \in Symbol /\ Sections[3] \in Symbol
        /\ Sections[4] \in Symbol /\ Sections[5] \in Symbol /\ Sections[6] \in Symbol
        /\ Sections[7] \in Symbol /\ Sections[8] \in Symbol /\ Sections[9] \in Symbol
    BY <1>3
  <2>2. /\ "server" \in Symbol /\ "clients" \in Symbol /\ "memory" \in Symbol
        /\ "persistence" \in Symbol /\ "stats" \in Symbol /\ "replication" \in Symbol
        /\ "cpu" \in Symbol /\ "commandstats" \in Symbol /\ "cluster" \in Symbol
    BY ONLY <2>1 DEF Sections
  <2>. QED BY ONLY <2>2, Nine DEF Sections
<1>. QED BY <1>1, <1>2, <1>3, <1>4, <1>5

\* The first n sections of INFO.
InfoMembers(n) == [i \in 1..n |-> Member(Sections[i], InfoValue(Sections[i]))]

LEMMA InfoValueIsJson ==
  ASSUME NEW S, Reads(S), NEW section \in Symbol
  PROVE  /\ Object(<<>>) \in Json(S) /\ Section(InfoReply(section)) \in Json(S)
         /\ InfoValue(section) \in Json(S)
         /\ Member(section, InfoValue(section)) \in Members(Json(S), S)
<1>1. Enough(S) /\ Text \subseteq Seq(S)
  BY SymbolIsEnough DEF Reads
<1>2. InfoReply(section) \in Seq(S)
  BY <1>1, InfoReplyType DEF Reads
<1>3. Section(InfoReply(section)) \in Json(S) /\ Object(<<>>) \in Json(S)
  BY <1>1, <1>2, SectionIsJson, EmptyObjectIsJson
<1>4. InfoValue(section) \in Json(S) /\ section \in S
  BY <1>3 DEF InfoValue, Reads
<1>. QED BY ONLY <1>1, <1>3, <1>4, MemberIsMember

LEMMA InfoMembersType ==
  ASSUME NEW S, Reads(S), NEW n \in 0..9
  PROVE  /\ InfoMembers(n) \in Seq(Members(Json(S), S)) /\ InfoMembers(n) \in Seq(Seq(S))
         /\ Len(InfoMembers(n)) = n
<1>1. Enough(S)
  BY SymbolIsEnough DEF Reads
<1>2. PICK P \in SUBSET Seq(S) : P = Members(Json(S), S)
  BY <1>1, JsonType, MembersType
<1>3. \A i \in 1..n : Member(Sections[i], InfoValue(Sections[i])) \in P
  <2>. SUFFICES ASSUME NEW i \in 1..n
                PROVE  Member(Sections[i], InfoValue(Sections[i])) \in P
    OBVIOUS
  <2>1. Sections[i] \in Symbol
    BY SectionsAre
  <2>. QED BY <1>2, <2>1, InfoValueIsJson
<1>4. InfoMembers(n) \in Seq(P) /\ Len(InfoMembers(n)) = n
  BY <1>3 DEF InfoMembers
<1>5. InfoMembers(n) \in Seq(Seq(S))
  BY <1>2, <1>4, SeqMonotonic
<1>. QED BY ONLY <1>2, <1>4, <1>5

LEMMA InfoObjectIs ==
  ASSUME NEW S, Reads(S)
  PROVE  /\ InfoObject \in Json(S)
         /\ InfoObject = (<<"{">> \o Separated(<<",">>, InfoMembers(9))) \o <<"}">>
<1>1. Enough(S)
  BY SymbolIsEnough DEF Reads
<1>2. PICK q \in Seq(Members(Json(S), S)) : q = InfoMembers(9) /\ q \in Seq(Seq(S))
  BY InfoMembersType
<1>3. PICK f : f = [i \in DOMAIN Sections |-> <<Sections[i], InfoValue(Sections[i])>>]
  OBVIOUS
<1>4. DOMAIN f = 1..9 /\ \A i \in 1..9 : /\ f[i] = <<Sections[i], InfoValue(Sections[i])>>
  BY <1>3, SectionsAre
<1>5. [i \in DOMAIN f |-> Member(f[i][1], f[i][2])] = q
  BY <1>2, <1>4 DEF InfoMembers
<1>6. InfoObject = Enclosed("{", q, "}")
  BY ONLY <1>3, <1>5 DEF InfoObject, Object
<1>7. Enclosed("{", q, "}") = (<<"{">> \o Separated(<<",">>, q)) \o <<"}">>
  BY <1>1, <1>2, EnclosedIs
<1>8. (<<"{">> \o Separated(<<",">>, q)) \o <<"}">> \in Json(S)
  <2>1. Separated(<<",">>, q) \in Commas(Members(Json(S), S))
    BY DEF Commas
  <2>. QED BY <1>1, <2>1, JsonClosed DEF Closed
<1>. QED BY ONLY <1>2, <1>6, <1>7, <1>8

LEMMA LatencyMember ==
  ASSUME NEW S, Reads(S), NEW rows \in LatencyRows
  PROVE  /\ LatencyLatest(rows) \in Json(S) /\ "latency_latest" \in S
         /\ Member("latency_latest", LatencyLatest(rows)) \in Members(Json(S), S)
<1>1. Enough(S)
  BY SymbolIsEnough DEF Reads
<1>2. LatencyLatest(rows) \in Json(S) /\ "latency_latest" \in S
  BY <1>1, LatencyIsJson, KeysIn DEF Keys, Reads
<1>. QED BY ONLY <1>1, <1>2, MemberIsMember

LEMMA SlowlogMember ==
  ASSUME NEW S, Reads(S), NEW rows \in SlowlogRows
  PROVE  /\ Slowlog(rows) \in Json(S) /\ "slowlog" \in S
         /\ Member("slowlog", Slowlog(rows)) \in Members(Json(S), S)
<1>1. Enough(S)
  BY SymbolIsEnough DEF Reads
<1>2. Slowlog(rows) \in Json(S) /\ "slowlog" \in S
  BY <1>1, SlowlogIsJson, KeysIn DEF Keys, Reads
<1>. QED BY ONLY <1>1, <1>2, MemberIsMember

LEMMA HostMember ==
  ASSUME NEW S, Reads(S)
  PROVE  /\ Host \in Json(S) /\ "host" \in S
         /\ Member("host", Host) \in Members(Json(S), S)
<1>1. Enough(S)
  BY SymbolIsEnough DEF Reads
<1>2. Host \in Json(S) /\ "host" \in S
  BY <1>1, HostIsJson, KeysIn DEF Keys, Reads
<1>. QED BY ONLY <1>1, <1>2, MemberIsMember

\* The object "valkey", put together from its members' texts.
LEMMA ValkeyIs ==
  ASSUME NEW S, Reads(S), NEW latency \in LatencyRows, NEW slowlog \in SlowlogRows
  PROVE  /\ Valkey(latency, slowlog) \in Json(S)
         /\ Valkey(latency, slowlog) =
              (<<"{">> \o ((((Member("info", InfoObject) \o <<",">>)
                              \o Member("latency_latest", LatencyLatest(latency))) \o <<",">>)
                            \o Member("slowlog", Slowlog(slowlog)))) \o <<"}">>
<1>1. Enough(S)
  BY SymbolIsEnough DEF Reads
<1>2. "info" \in S
  BY <1>1, KeysIn DEF Keys
<1>3. PICK i, l, g \in Json(S) :
        i = InfoObject /\ l = LatencyLatest(latency) /\ g = Slowlog(slowlog)
  BY InfoObjectIs, LatencyMember, SlowlogMember
<1>4. PICK f : f = << <<"info", i>>, <<"latency_latest", l>>, <<"slowlog", g>> >>
  OBVIOUS
<1>5. f \in Seq(S \X Json(S))
  <2>1. "latency_latest" \in S /\ "slowlog" \in S
    BY LatencyMember, SlowlogMember
  <2>2. << <<"info", i>>, <<"latency_latest", l>>, <<"slowlog", g>> >> \in Seq(S \X Json(S))
    BY ONLY <1>2, <2>1, i \in Json(S), l \in Json(S), g \in Json(S), Member3
  <2>. QED BY ONLY <1>4, <2>2
<1>6. /\ Len(f) = 3
      /\ f[1][1] = "info" /\ f[1][2] = i /\ f[2][1] = "latency_latest" /\ f[2][2] = l
      /\ f[3][1] = "slowlog" /\ f[3][2] = g
  BY ONLY <1>4
<1>7. /\ Object(f) \in Json(S)
      /\ Object(f) = (<<"{">> \o ((((Member(f[1][1], f[1][2]) \o <<",">>)
                                     \o Member(f[2][1], f[2][2])) \o <<",">>)
                                   \o Member(f[3][1], f[3][2]))) \o <<"}">>
  BY ONLY <1>1, <1>5, <1>6, TripleObject
<1>8. Valkey(latency, slowlog) = Object(f)
  BY ONLY <1>3, <1>4 DEF Valkey
<1>. QED BY ONLY <1>3, <1>6, <1>7, <1>8

\* The sample, put together from its members' texts.
LEMMA WholeIs ==
  ASSUME NEW S, Reads(S), NEW latency \in LatencyRows, NEW slowlog \in SlowlogRows
  PROVE  /\ WholeSample(latency, slowlog) \in Json(S)
         /\ WholeSample(latency, slowlog) =
              (<<"{">> \o ((((Member("ts_ms", server.now) \o <<",">>)
                              \o Member("valkey", Valkey(latency, slowlog))) \o <<",">>)
                            \o Member("host", Host))) \o <<"}">>
<1>1. Enough(S) /\ Numeral \subseteq Json(S)
  BY SymbolIsEnough DEF Reads
<1>2. "ts_ms" \in S /\ "valkey" \in S
  BY <1>1, KeysIn DEF Keys
<1>3. PICK n, v, h \in Json(S) :
        n = server.now /\ v = Valkey(latency, slowlog) /\ h = Host
  <2>1. server.now \in Json(S)
    BY <1>1, CollectorAssumption DEF InputsOK, ServerOK, Reads
  <2>. QED BY <2>1, ValkeyIs, HostMember
<1>4. PICK f : f = << <<"ts_ms", n>>, <<"valkey", v>>, <<"host", h>> >>
  OBVIOUS
<1>5. f \in Seq(S \X Json(S))
  <2>1. "host" \in S
    BY HostMember
  <2>2. << <<"ts_ms", n>>, <<"valkey", v>>, <<"host", h>> >> \in Seq(S \X Json(S))
    BY ONLY <1>2, <2>1, n \in Json(S), v \in Json(S), h \in Json(S), Member3
  <2>. QED BY ONLY <1>4, <2>2
<1>6. /\ Len(f) = 3
      /\ f[1][1] = "ts_ms" /\ f[1][2] = n /\ f[2][1] = "valkey" /\ f[2][2] = v
      /\ f[3][1] = "host" /\ f[3][2] = h
  BY ONLY <1>4
<1>7. /\ Object(f) \in Json(S)
      /\ Object(f) = (<<"{">> \o ((((Member(f[1][1], f[1][2]) \o <<",">>)
                                     \o Member(f[2][1], f[2][2])) \o <<",">>)
                                   \o Member(f[3][1], f[3][2]))) \o <<"}">>
  BY ONLY <1>1, <1>5, <1>6, TripleObject
<1>8. WholeSample(latency, slowlog) = Object(f)
  BY ONLY <1>3, <1>4 DEF WholeSample
<1>. QED BY ONLY <1>3, <1>6, <1>7, <1>8

-----------------------------------------------------------------------------
(* The buffer from piece to piece.                                         *)

\* After n sections of INFO, after "latency_latest", and after "slowlog".
InfoPart(n) == Open \o Separated(<<",">>, InfoMembers(n))

LatencyPart(latency) ==
  InfoHead \o InfoObject \o (<<",">> \o Member("latency_latest", LatencyLatest(latency)))

ValkeyPart(latency, slowlog) == ValkeyHead \o Valkey(latency, slowlog)

LEMMA PartTypes ==
  ASSUME NEW S, Reads(S)
  PROVE  /\ Open \in Seq(S) /\ \A n \in 0..9 : InfoPart(n) \in Seq(S)
         /\ \A latency \in LatencyRows : LatencyPart(latency) \in Seq(S)
         /\ \A latency \in LatencyRows, slowlog \in SlowlogRows :
              ValkeyPart(latency, slowlog) \in Seq(S)
<1>1. Enough(S) /\ Symbol \subseteq S /\ server \in Server
  BY SymbolIsEnough DEF Reads
<1>2. Json(S) \in SUBSET Seq(S) /\ Members(Json(S), S) \in SUBSET Seq(S)
  BY <1>1, JsonType, MembersType
<1>3. InfoHead \in Seq(S) /\ ValkeyHead \in Seq(S)
  BY <1>1, HeadTypes
<1>4. <<"{">> \in Seq(S) /\ <<",">> \in Seq(S)
  BY <1>1, BracketsIn
<1>5. Open \in Seq(S)
  <2>1. InfoHead \o <<"{">> \in Seq(S)
    BY ONLY <1>3, <1>4, ConcatProperties
  <2>. QED BY <1>1, <2>1, OpenIs
<1>6. ASSUME NEW n \in 0..9 PROVE InfoPart(n) \in Seq(S)
  <2>1. InfoMembers(n) \in Seq(Seq(S))
    BY InfoMembersType
  <2>2. Separated(<<",">>, InfoMembers(n)) \in Seq(S)
    BY ONLY <1>4, <2>1, SeparatedType
  <2>. QED BY ONLY <1>5, <2>2, ConcatProperties DEF InfoPart
<1>7. ASSUME NEW latency \in LatencyRows PROVE LatencyPart(latency) \in Seq(S)
  <2>1. Member("latency_latest", LatencyLatest(latency)) \in Seq(S) /\ InfoObject \in Seq(S)
    BY <1>2, LatencyMember, InfoObjectIs
  <2>2. InfoHead \o InfoObject \in Seq(S)
    BY ONLY <1>3, <2>1, ConcatProperties
  <2>3. <<",">> \o Member("latency_latest", LatencyLatest(latency)) \in Seq(S)
    BY ONLY <1>4, <2>1, ConcatProperties
  <2>. QED BY ONLY <2>2, <2>3, ConcatProperties DEF LatencyPart
<1>8. ASSUME NEW latency \in LatencyRows, NEW slowlog \in SlowlogRows
      PROVE  ValkeyPart(latency, slowlog) \in Seq(S)
  <2>1. Valkey(latency, slowlog) \in Seq(S)
    BY <1>2, ValkeyIs
  <2>. QED BY ONLY <1>3, <2>1, ConcatProperties DEF ValkeyPart
<1>. QED BY ONLY <1>5, <1>6, <1>7, <1>8

\* The first piece.
LEMMA NoInfoIsOpen ==
  ASSUME NEW S, Reads(S)
  PROVE  <<>> \o Open = InfoPart(0)
<1>1. Open \in Seq(S)
  BY PartTypes
<1>2. InfoMembers(0) = <<>>
  <2>1. InfoMembers(0) \in Seq(Seq(S)) /\ Len(InfoMembers(0)) = 0
    BY InfoMembersType
  <2>. QED BY ONLY <2>1, EmptySeq
<1>3. Separated(<<",">>, <<>>) = <<>>
  BY ONLY SeparatedEmpty
<1>4. <<>> \o Open = Open /\ Open \o <<>> = Open
  BY ONLY <1>1, ConcatEmptySeq
<1>. QED BY ONLY <1>2, <1>3, <1>4 DEF InfoPart

\* "info" is closed, and "latency_latest" follows.
LEMMA LatencyAppended ==
  ASSUME NEW S, Reads(S), NEW rows \in LatencyRows
  PROVE  InfoPart(9) \o (<<"}", ",">> \o Member("latency_latest", LatencyLatest(rows)))
           = LatencyPart(rows)
<1>1. Enough(S) /\ Symbol \subseteq S /\ server \in Server
  BY SymbolIsEnough DEF Reads
<1>2. PICK l \in Seq(S) : l = Member("latency_latest", LatencyLatest(rows))
  BY <1>1, JsonType, MembersType, LatencyMember
<1>3. PICK o, z, c, m, x \in Seq(S) :
        /\ o = <<"{">> /\ z = <<"}">> /\ c = <<",">>
        /\ m = Separated(<<",">>, InfoMembers(9)) /\ x = InfoHead
  <2>1. <<"{">> \in Seq(S) /\ <<"}">> \in Seq(S) /\ <<",">> \in Seq(S)
    BY <1>1, BracketsIn
  <2>2. InfoMembers(9) \in Seq(Seq(S))
    BY InfoMembersType
  <2>3. Separated(<<",">>, InfoMembers(9)) \in Seq(S)
    BY ONLY <2>1, <2>2, SeparatedType
  <2>4. InfoHead \in Seq(S)
    BY <1>1, HeadTypes
  <2>. QED BY ONLY <2>1, <2>3, <2>4
<1>4. <<"}", ",">> = z \o c
  <2>1. "}" \in S /\ "," \in S
    BY <1>1, MarksIn
  <2>2. <<"}", ",">> = <<"}">> \o <<",">>
    BY ONLY <2>1, TwoIsOneAndOne
  <2>. QED BY ONLY <1>3, <2>2
<1>5. InfoPart(9) = (x \o o) \o m
  <2>1. Open = InfoHead \o <<"{">>
    BY <1>1, OpenIs
  <2>. QED BY ONLY <1>3, <2>1 DEF InfoPart
<1>6. InfoObject = (o \o m) \o z
  <2>1. InfoObject = (<<"{">> \o Separated(<<",">>, InfoMembers(9))) \o <<"}">>
    BY InfoObjectIs
  <2>. QED BY ONLY <1>3, <2>1
<1>7. LatencyPart(rows) = (x \o ((o \o m) \o z)) \o (c \o l)
  BY ONLY <1>2, <1>3, <1>6 DEF LatencyPart
<1>8. ((x ** o) ** m) ** ((z ** c) ** l) = (x ** ((o ** m) ** z)) ** (c ** l)
  BY ONLY o \in Seq(S), z \in Seq(S), c \in Seq(S), m \in Seq(S), x \in Seq(S), l \in Seq(S),
          RegroupLatency
<1>9. ((x \o o) \o m) \o ((z \o c) \o l) = (x \o ((o \o m) \o z)) \o (c \o l)
  BY ONLY <1>8 DEF **
<1>. QED BY ONLY <1>2, <1>4, <1>5, <1>7, <1>9

\* "valkey" is closed after "slowlog".
LEMMA SlowlogAppended ==
  ASSUME NEW S, Reads(S), NEW latency \in LatencyRows, NEW rows \in SlowlogRows
  PROVE  LatencyPart(latency) \o (<<",">> \o Member("slowlog", Slowlog(rows)) \o <<"}">>)
           = ValkeyPart(latency, rows)
<1>1. Enough(S) /\ Symbol \subseteq S /\ server \in Server
  BY SymbolIsEnough DEF Reads
<1>2. Json(S) \in SUBSET Seq(S) /\ Members(Json(S), S) \in SUBSET Seq(S)
  BY <1>1, JsonType, MembersType
<1>3. PICK l, g, info \in Seq(S) :
        /\ l = Member("latency_latest", LatencyLatest(latency))
        /\ g = Member("slowlog", Slowlog(rows)) /\ info = InfoObject
  BY <1>2, LatencyMember, SlowlogMember, InfoObjectIs
<1>4. PICK o, z, c, k, i, u \in Seq(S) :
        /\ o = <<"{">> /\ z = <<"}">> /\ c = <<",">> /\ k = <<":">>
        /\ i = JsonString(<<"info">>) /\ u = ValkeyHead
  BY <1>1, BracketsIn, HeadTypes
<1>5. Member("info", InfoObject) = (i \o k) \o info
  BY ONLY <1>3, <1>4 DEF Member
<1>6. Valkey(latency, rows) = (o \o ((((((i \o k) \o info) \o c) \o l) \o c) \o g)) \o z
  <2>1. Valkey(latency, rows) =
          (<<"{">> \o ((((Member("info", InfoObject) \o <<",">>)
                          \o Member("latency_latest", LatencyLatest(latency))) \o <<",">>)
                        \o Member("slowlog", Slowlog(rows)))) \o <<"}">>
    BY ValkeyIs
  <2>. QED BY ONLY <1>3, <1>4, <1>5, <2>1
<1>7. ValkeyPart(latency, rows)
        = u \o ((o \o ((((((i \o k) \o info) \o c) \o l) \o c) \o g)) \o z)
  BY ONLY <1>4, <1>6 DEF ValkeyPart
<1>8. LatencyPart(latency) = ((((u \o o) \o i) \o k) \o info) \o (c \o l)
  BY ONLY <1>3, <1>4 DEF LatencyPart, InfoHead
<1>9. (((((u ** o) ** i) ** k) ** info) ** (c ** l)) ** ((c ** g) ** z)
        = u ** ((o ** ((((((i ** k) ** info) ** c) ** l) ** c) ** g)) ** z)
  <2>1. AreTexts(S, {u, o, i, k, info, c, l, g, z})
    BY DEF AreTexts
  <2>. QED BY ONLY <2>1, RegroupSlowlog
<1>10. (((((u \o o) \o i) \o k) \o info) \o (c \o l)) \o ((c \o g) \o z)
         = u \o ((o \o ((((((i \o k) \o info) \o c) \o l) \o c) \o g)) \o z)
  BY ONLY <1>9 DEF **
<1>. QED BY ONLY <1>3, <1>4, <1>7, <1>8, <1>10

\* The sample is closed after "host".
LEMMA HostAppended ==
  ASSUME NEW S, Reads(S), NEW latency \in LatencyRows, NEW slowlog \in SlowlogRows
  PROVE  ValkeyPart(latency, slowlog) \o (<<",">> \o Member("host", Host) \o <<"}">>)
           = WholeSample(latency, slowlog)
<1>1. Enough(S) /\ Symbol \subseteq S /\ server \in Server
  BY SymbolIsEnough DEF Reads
<1>2. Json(S) \in SUBSET Seq(S) /\ Members(Json(S), S) \in SUBSET Seq(S)
  BY <1>1, JsonType, MembersType
<1>3. PICK valkey, h \in Seq(S) :
        valkey = Valkey(latency, slowlog) /\ h = Member("host", Host)
  BY <1>2, ValkeyIs, HostMember
<1>4. PICK o, z, c, k, v, a \in Seq(S) :
        /\ o = <<"{">> /\ z = <<"}">> /\ c = <<",">> /\ k = <<":">>
        /\ v = JsonString(<<"valkey">>) /\ a = Member("ts_ms", server.now)
  BY <1>1, BracketsIn, HeadTypes
<1>5. Member("valkey", Valkey(latency, slowlog)) = (v \o k) \o valkey
  BY ONLY <1>3, <1>4 DEF Member
<1>6. WholeSample(latency, slowlog)
        = (o \o ((((a \o c) \o ((v \o k) \o valkey)) \o c) \o h)) \o z
  <2>1. WholeSample(latency, slowlog) =
          (<<"{">> \o ((((Member("ts_ms", server.now) \o <<",">>)
                          \o Member("valkey", Valkey(latency, slowlog))) \o <<",">>)
                        \o Member("host", Host))) \o <<"}">>
    BY WholeIs
  <2>. QED BY ONLY <1>3, <1>4, <1>5, <2>1
<1>7. ValkeyPart(latency, slowlog) = ((((o \o a) \o c) \o v) \o k) \o valkey
  BY ONLY <1>3, <1>4 DEF ValkeyPart, ValkeyHead
<1>8. (((((o ** a) ** c) ** v) ** k) ** valkey) ** ((c ** h) ** z)
        = (o ** ((((a ** c) ** ((v ** k) ** valkey)) ** c) ** h)) ** z
  <2>1. AreTexts(S, {o, a, c, v, k, valkey, h, z})
    BY DEF AreTexts
  <2>. QED BY ONLY <2>1, RegroupHost
<1>9. (((((o \o a) \o c) \o v) \o k) \o valkey) \o ((c \o h) \o z)
         = (o \o ((((a \o c) \o ((v \o k) \o valkey)) \o c) \o h)) \o z
  BY ONLY <1>8 DEF **
<1>. QED BY ONLY <1>3, <1>4, <1>6, <1>7, <1>9

\* Within a collection the server's state, the configuration and the host's files
\* stay as they are, and so do the texts made of them.
LEMMA SameTexts ==
  ASSUME server' = server, config' = config, proc' = proc
  PROVE  /\ Open' = Open /\ InfoHead' = InfoHead /\ ValkeyHead' = ValkeyHead
         /\ Host' = Host /\ Member("ts_ms", server.now)' = Member("ts_ms", server.now)
         /\ \A rows : Slowlog(rows)' = Slowlog(rows)
         /\ \A section : InfoReply(section)' = InfoReply(section)
         /\ \A S : Reads(S) => Reads(S)'
<1>1. /\ Open' = Open /\ InfoHead' = InfoHead /\ ValkeyHead' = ValkeyHead
      /\ Member("ts_ms", server.now)' = Member("ts_ms", server.now)
  BY DEF Open, InfoHead, ValkeyHead
<1>2. Host' = Host
  BY DEF Host
<1>3. ASSUME NEW rows PROVE Slowlog(rows)' = Slowlog(rows)
  BY DEF Slowlog, SlowlogArg
<1>4. ASSUME NEW section PROVE InfoReply(section)' = InfoReply(section)
  <2>1. InfoFields(section)' = InfoFields(section)
    BY DEF InfoFields
  <2>. QED BY <2>1 DEF InfoReply
<1>5. ASSUME NEW S, Reads(S) PROVE Reads(S)'
  BY <1>5 DEF Reads
<1>. QED BY <1>1, <1>2, <1>3, <1>4, <1>5

LEMMA SameParts ==
  ASSUME server' = server, config' = config, proc' = proc, refused' = refused
  PROVE  /\ InfoObject' = InfoObject
         /\ \A n : InfoPart(n)' = InfoPart(n)
         /\ \A latency : LatencyPart(latency)' = LatencyPart(latency)
         /\ \A latency, slowlog : ValkeyPart(latency, slowlog)' = ValkeyPart(latency, slowlog)
         /\ \A latency, slowlog : WholeSample(latency, slowlog)' = WholeSample(latency, slowlog)
<1>1. ASSUME NEW section PROVE InfoValue(section)' = InfoValue(section)
  BY SameTexts DEF InfoValue
<1>2. InfoObject' = InfoObject
  BY <1>1 DEF InfoObject
<1>3. ASSUME NEW n PROVE InfoPart(n)' = InfoPart(n)
  <2>1. InfoMembers(n)' = InfoMembers(n)
    BY <1>1 DEF InfoMembers
  <2>. QED BY <2>1, SameTexts DEF InfoPart
<1>4. ASSUME NEW latency PROVE LatencyPart(latency)' = LatencyPart(latency)
  BY <1>2, SameTexts DEF LatencyPart
<1>5. ASSUME NEW latency, NEW slowlog
      PROVE  Valkey(latency, slowlog)' = Valkey(latency, slowlog)
  BY <1>2, SameTexts DEF Valkey
<1>6. ASSUME NEW latency, NEW slowlog
      PROVE  ValkeyPart(latency, slowlog)' = ValkeyPart(latency, slowlog)
  BY <1>5, SameTexts DEF ValkeyPart
<1>7. ASSUME NEW latency, NEW slowlog
      PROVE  WholeSample(latency, slowlog)' = WholeSample(latency, slowlog)
  BY <1>5, SameTexts DEF WholeSample
<1>. QED BY <1>2, <1>3, <1>4, <1>6, <1>7

\* One more section of INFO, answered or refused.
LEMMA SectionAppended ==
  ASSUME NEW S, Reads(S), server' = server, config' = config, proc' = proc, NEW n \in 0..8,
         \A i \in 1..n : Sections[i] \in refused' <=> Sections[i] \in refused
  PROVE  InfoPart(n) \o InfoSection(Sections[n + 1], InfoValue(Sections[n + 1])')
           = InfoPart(n + 1)'
<1>1. Enough(S)
  BY SymbolIsEnough DEF Reads
<1>2. PICK c \in Seq(S) : c = <<",">>
  BY <1>1, BracketsIn
<1>3. PICK q \in Seq(Seq(S)) : q = InfoMembers(n) /\ Len(q) = n
  <2>1. n \in 0..9
    OBVIOUS
  <2>. QED BY <2>1, InfoMembersType
<1>4. PICK t \in Seq(S) : t = Member(Sections[n + 1], InfoValue(Sections[n + 1])')
  <2>1. PICK section \in Symbol : section = Sections[n + 1]
    <3>1. n + 1 \in 1..9
      OBVIOUS
    <3>. QED BY <3>1, SectionsAre
  <2>2. InfoValue(section)' \in Json(S)
    <3>1. InfoValue(section)' \in {Object(<<>>), Section(InfoReply(section))}
      BY SameTexts DEF InfoValue
    <3>. QED BY <3>1, InfoValueIsJson
  <2>3. section \in S
    BY DEF Reads
  <2>4. Member(section, InfoValue(section)') \in Members(Json(S), S)
    BY ONLY <1>1, <2>2, <2>3, MemberIsMember
  <2>5. Members(Json(S), S) \in SUBSET Seq(S)
    BY <1>1, JsonType, MembersType
  <2>. QED BY ONLY <2>1, <2>4, <2>5
<1>5. InfoMembers(n + 1)' = Append(q, t)
  <2>1. \A i \in 1..n : InfoValue(Sections[i])' = InfoValue(Sections[i])
    BY SameTexts DEF InfoValue
  <2>2. InfoMembers(n + 1)' = [i \in 1..(n + 1) |-> IF i = n + 1 THEN t ELSE q[i]]
    BY <1>3, <1>4, <2>1 DEF InfoMembers
  <2>. QED BY ONLY <1>3, <2>2, n \in 0..8, t \in Seq(S), q \in Seq(Seq(S)), ExtendedSeq
<1>6. Separated(c, Append(q, t)) = Separated(c, q) \o ((IF q # <<>> THEN c ELSE <<>>) \o t)
  BY ONLY c \in Seq(S), q \in Seq(Seq(S)), t \in Seq(S), SeparatedStep
<1>7. InfoSection(Sections[n + 1], InfoValue(Sections[n + 1])')
        = (IF q # <<>> THEN c ELSE <<>>) \o t
  <2>1. Sections[n + 1] = Sections[1] <=> n = 0
    BY SectionsAre
  <2>2. n = 0 <=> q = <<>>
    BY ONLY <1>3, EmptySeq, q \in Seq(Seq(S))
  <2>. QED BY <1>2, <1>4, <2>1, <2>2 DEF InfoSection
<1>8. PICK o, s, w \in Seq(S) :
        o = Open /\ s = Separated(c, q) /\ w = (IF q # <<>> THEN c ELSE <<>>) \o t
  <2>1. Separated(c, q) \in Seq(S)
    BY ONLY c \in Seq(S), q \in Seq(Seq(S)), SeparatedType
  <2>2. (IF q # <<>> THEN c ELSE <<>>) \in Seq(S)
    OBVIOUS
  <2>3. (IF q # <<>> THEN c ELSE <<>>) \o t \in Seq(S)
    BY ONLY t \in Seq(S), <2>2, ConcatProperties
  <2>. QED BY <2>1, <2>3, PartTypes
<1>9. (o \o s) \o w = o \o (s \o w)
  <2>1. (o ** s) ** w = o ** (s ** w)
    BY ONLY o \in Seq(S), s \in Seq(S), w \in Seq(S), GlueAssociative
  <2>. QED BY ONLY <2>1 DEF **
<1>10. InfoPart(n) = o \o s
  BY ONLY <1>2, <1>3, <1>8 DEF InfoPart
<1>11. InfoPart(n + 1)' = o \o (s \o w)
  <2>1. Open' = Open
    BY SameTexts
  <2>. QED BY ONLY <1>2, <1>5, <1>6, <1>8, <2>1 DEF InfoPart
<1>. QED BY ONLY <1>7, <1>8, <1>9, <1>10, <1>11

-----------------------------------------------------------------------------
(* The collector.                                                          *)

LEMMA PartIs ==
  /\ Len(Part) = 13
  /\ Part[1] = "ts" /\ \A k \in 2..10 : Part[k] = Sections[k - 1]
  /\ Part[11] = "latency" /\ Part[12] = "slowlog" /\ Part[13] = "host"
  /\ \A name \in Range(Sections) : name \notin {"ts", "latency", "slowlog", "host"}
BY DEF Part, Sections, Range

\* What the server refused is of this collection, and of sections already asked for.
RefusedSoFar == \A i \in 1..9 : piece # 0 /\ i > piece - 2 => Sections[i] \notin refused

\* What is there before the next piece.
BufIsPart ==
  /\ piece \in {0, 1} => buf = <<>>
  /\ piece \in 2..11 => buf = InfoPart(piece - 2)
  /\ piece = 12 => \E latency \in LatencyRows : buf = LatencyPart(latency)
  /\ piece = 13 => \E latency \in LatencyRows, slowlog \in SlowlogRows :
                     buf = ValkeyPart(latency, slowlog)

CollectorInv ==
  /\ config \in Config /\ server \in Server /\ proc \in Proc \cup {NoFile}
  /\ piece \in 0..13 /\ RefusedSoFar
  /\ BufIsPart
  /\ piece # 0 => sample = NoSample
  /\ SampleIsWhole

\* What the module may write: of a secret nothing while it is redacted.
Writable == Symbol \cup (IF config.slowlog_redact THEN {} ELSE Secret)

LEMMA ReadsWritable == CollectorInv => Reads(Writable)
BY DEF CollectorInv, Reads, Writable

\* A section of INFO appended, answered or refused.
LEMMA SectionStep ==
  ASSUME CollectorInv, server' = server, config' = config, proc' = proc,
         NEW n \in 0..8, piece - 2 \in {n}, piece \in 2..10,
         refused' \in {refused, refused \cup {Sections[n + 1]}},
         NEW value, value \in {InfoValue(Sections[n + 1])'},
         Appended(InfoSection(Sections[n + 1], value))
  PROVE  CollectorInv'
<1>1. n = piece - 2
  OBVIOUS
<1>2. piece # 0 /\ piece < Len(Part) /\ piece + 1 - 2 = n + 1
  BY <1>1, PartIs
<1>3. /\ buf' = buf \o InfoSection(Sections[n + 1], InfoValue(Sections[n + 1])')
      /\ piece' = piece + 1 /\ sample' = sample
  <2>1. InfoValue(Sections[n + 1])' = value
    OBVIOUS
  <2>2. buf' = buf \o InfoSection(Sections[n + 1], value) /\ piece' = piece + 1 /\ sample' = sample
    BY <1>2 DEF Appended
  <2>. QED BY ONLY <2>1, <2>2
<1>4. \A i \in 1..9 : i # n + 1 => (Sections[i] \in refused' <=> Sections[i] \in refused)
  <2>. SUFFICES ASSUME NEW i \in 1..9, i # n + 1
                PROVE  Sections[i] \in refused' <=> Sections[i] \in refused
    OBVIOUS
  <2>1. n + 1 \in 1..9
    OBVIOUS
  <2>2. Sections[i] # Sections[n + 1]
    BY <2>1, SectionsAre
  <2>. QED BY <1>2, <2>2
<1>5. buf = InfoPart(n)
  BY <1>1 DEF CollectorInv, BufIsPart
<1>6. buf' = InfoPart(n + 1)'
  <2>1. \A i \in 1..n : Sections[i] \in refused' <=> Sections[i] \in refused
    BY <1>4
  <2>2. Reads(Writable)
    BY ReadsWritable
  <2>3. InfoPart(n) \o InfoSection(Sections[n + 1], InfoValue(Sections[n + 1])')
          = InfoPart(n + 1)'
    BY ONLY <2>1, <2>2, server' = server, config' = config, proc' = proc, n \in 0..8,
            SectionAppended
  <2>. QED BY ONLY <1>3, <1>5, <2>3
<1>7. BufIsPart'
  <2>1. piece' \notin {0, 1} /\ piece' # 12 /\ piece' # 13 /\ piece' - 2 = n + 1
    BY <1>1, <1>3
  <2>. QED BY ONLY <1>6, <2>1 DEF BufIsPart
<1>8. RefusedSoFar'
  <2>. SUFFICES ASSUME NEW i \in 1..9, i > piece' - 2 PROVE Sections[i] \notin refused'
    BY DEF RefusedSoFar
  <2>1. i # n + 1 /\ i > piece - 2
    BY <1>1, <1>3
  <2>2. Sections[i] \notin refused
    BY <1>2, <2>1 DEF CollectorInv, RefusedSoFar
  <2>. QED BY <1>4, <2>1, <2>2
<1>9. sample' = NoSample /\ NoSample' = NoSample
  BY <1>2, <1>3 DEF CollectorInv, NoSample
<1>10. SampleIsWhole'
  BY <1>9 DEF SampleIsWhole
<1>11. piece' \in 0..13 /\ config' \in Config /\ server' \in Server /\ proc' \in Proc \cup {NoFile}
  BY <1>3 DEF CollectorInv
<1>. QED BY ONLY <1>7, <1>8, <1>9, <1>10, <1>11 DEF CollectorInv

\* Any other piece appended.
LEMMA PieceStep ==
  ASSUME CollectorInv, UNCHANGED <<server, config, proc, refused>>,
         piece \in {1, 11, 12, 13}, NEW text \in Texts(Part[piece]), Appended(text)
  PROVE  CollectorInv'
<1>. DEFINE S == Writable
<1>1. Reads(S)
  BY ReadsWritable
<1>. HIDE DEF S
<1>2. server' = server /\ config' = config /\ proc' = proc /\ refused' = refused
  OBVIOUS
<1>3. /\ \A n : InfoPart(n)' = InfoPart(n)
      /\ \A latency : LatencyPart(latency)' = LatencyPart(latency)
      /\ \A latency, slowlog : ValkeyPart(latency, slowlog)' = ValkeyPart(latency, slowlog)
      /\ \A latency, slowlog : WholeSample(latency, slowlog)' = WholeSample(latency, slowlog)
  BY ONLY <1>2, SameParts
<1>4. piece' = 0 \/ piece' = piece + 1
  BY DEF Appended
<1>5. piece' \in 0..13 /\ config' \in Config /\ server' \in Server /\ proc' \in Proc \cup {NoFile}
  <2>1. piece < Len(Part) => piece # 13
    BY PartIs
  <2>. QED BY <1>2, <2>1 DEF CollectorInv, Appended
<1>6. RefusedSoFar'
  BY <1>2, <1>4 DEF CollectorInv, RefusedSoFar
<1>7. NoSample' = NoSample /\ sample = NoSample
  BY DEF CollectorInv, NoSample
<1>8. CASE piece = 1
  <2>1. text = Open /\ buf = <<>>
    BY <1>8, PartIs DEF Texts, CollectorInv, BufIsPart
  <2>2. buf' = <<>> \o Open /\ piece' = 2 /\ sample' = NoSample
    BY <1>7, <1>8, <2>1, PartIs DEF Appended
  <2>3. buf' = InfoPart(0)'
    <3>1. <<>> \o Open = InfoPart(0)
      BY <1>1, NoInfoIsOpen
    <3>. QED BY ONLY <1>3, <2>2, <3>1
  <2>4. BufIsPart'
    <3>1. piece' \notin {0, 1} /\ piece' # 12 /\ piece' # 13 /\ piece' - 2 = 0
      BY ONLY <2>2
    <3>. QED BY ONLY <2>3, <3>1 DEF BufIsPart
  <2>5. SampleIsWhole'
    BY ONLY <1>7, <2>2 DEF SampleIsWhole
  <2>. QED BY ONLY <1>5, <1>6, <1>7, <2>2, <2>4, <2>5 DEF CollectorInv
<1>9. CASE piece = 11
  <2>1. PICK rows \in LatencyRows :
          text = <<"}", ",">> \o Member("latency_latest", LatencyLatest(rows))
    BY <1>9, PartIs DEF Texts
  <2>2. buf = InfoPart(9)
    BY <1>9 DEF CollectorInv, BufIsPart
  <2>3. buf' = buf \o text /\ piece' = 12 /\ sample' = NoSample
    BY <1>7, <1>9, PartIs DEF Appended
  <2>4. buf' = LatencyPart(rows)'
    <3>1. InfoPart(9) \o (<<"}", ",">> \o Member("latency_latest", LatencyLatest(rows)))
            = LatencyPart(rows)
      BY <1>1, LatencyAppended
    <3>. QED BY ONLY <1>3, <2>1, <2>2, <2>3, <3>1
  <2>5. BufIsPart'
    <3>1. piece' \notin {0, 1} /\ piece' \notin 2..11 /\ piece' # 13
      BY ONLY <2>3
    <3>. QED BY ONLY <2>4, <3>1, rows \in LatencyRows, Zenon DEF BufIsPart
  <2>6. SampleIsWhole'
    BY ONLY <1>7, <2>3 DEF SampleIsWhole
  <2>. QED BY ONLY <1>5, <1>6, <1>7, <2>3, <2>5, <2>6 DEF CollectorInv
<1>10. CASE piece = 12
  <2>1. PICK rows \in SlowlogRows :
          text = <<",">> \o Member("slowlog", Slowlog(rows)) \o <<"}">>
    BY <1>10, PartIs DEF Texts
  <2>2. PICK latency \in LatencyRows : buf = LatencyPart(latency)
    BY <1>10 DEF CollectorInv, BufIsPart
  <2>3. buf' = buf \o text /\ piece' = 13 /\ sample' = NoSample
    BY <1>7, <1>10, PartIs DEF Appended
  <2>4. buf' = ValkeyPart(latency, rows)'
    <3>1. LatencyPart(latency) \o (<<",">> \o Member("slowlog", Slowlog(rows)) \o <<"}">>)
            = ValkeyPart(latency, rows)
      BY <1>1, SlowlogAppended
    <3>. QED BY ONLY <1>3, <2>1, <2>2, <2>3, <3>1
  <2>5. BufIsPart'
    <3>1. piece' \notin {0, 1} /\ piece' \notin 2..11 /\ piece' # 12
      BY ONLY <2>3
    <3>. QED BY ONLY <2>4, <3>1, rows \in SlowlogRows, latency \in LatencyRows, Zenon
             DEF BufIsPart
  <2>6. SampleIsWhole'
    BY ONLY <1>7, <2>3 DEF SampleIsWhole
  <2>. QED BY ONLY <1>5, <1>6, <1>7, <2>3, <2>5, <2>6 DEF CollectorInv
<1>11. CASE piece = 13
  <2>1. text = <<",">> \o Member("host", Host) \o <<"}">>
    BY <1>11, PartIs DEF Texts
  <2>2. PICK latency \in LatencyRows, slowlog \in SlowlogRows :
          buf = ValkeyPart(latency, slowlog)
    BY <1>11 DEF CollectorInv, BufIsPart
  <2>3. buf' = <<>> /\ piece' = 0 /\ sample' = buf \o text
    BY <1>11, PartIs DEF Appended
  <2>4. sample' = WholeSample(latency, slowlog)'
    <3>1. ValkeyPart(latency, slowlog) \o (<<",">> \o Member("host", Host) \o <<"}">>)
            = WholeSample(latency, slowlog)
      BY <1>1, HostAppended
    <3>. QED BY ONLY <1>3, <2>1, <2>2, <2>3, <3>1
  <2>5. BufIsPart'
    <3>1. piece' \notin 2..11 /\ piece' # 12 /\ piece' # 13
      BY ONLY <2>3
    <3>. QED BY ONLY <2>3, <3>1 DEF BufIsPart
  <2>6. SampleIsWhole'
    BY ONLY <2>4, latency \in LatencyRows, slowlog \in SlowlogRows, Zenon DEF SampleIsWhole
  <2>. QED BY ONLY <1>5, <1>6, <2>3, <2>5, <2>6 DEF CollectorInv
<1>. QED BY <1>8, <1>9, <1>10, <1>11

LEMMA InitInv == CollectorInit => CollectorInv
<1>. SUFFICES ASSUME CollectorInit PROVE CollectorInv
  OBVIOUS
<1>1. config \in Config
  BY DEF CollectorInit, Config
<1>2. server \in Server
  BY CollectorAssumption DEF CollectorInit, InputsOK
<1>3. piece = 0 /\ buf = <<>> /\ sample = NoSample /\ proc = NoFile
  BY DEF CollectorInit
<1>4. BufIsPart
  <2>1. piece \notin 2..11 /\ piece # 12 /\ piece # 13
    BY ONLY <1>3
  <2>. QED BY ONLY <1>3, <2>1, Zenon DEF BufIsPart
<1>5. RefusedSoFar /\ SampleIsWhole
  BY <1>3 DEF RefusedSoFar, SampleIsWhole
<1>. QED BY <1>1, <1>2, <1>3, <1>4, <1>5 DEF CollectorInv

LEMMA NextInv == CollectorInv /\ [CollectorNext]_collectorVars => CollectorInv'
<1>. SUFFICES ASSUME CollectorInv, [CollectorNext]_collectorVars
              PROVE  CollectorInv'
  OBVIOUS
<1>1. /\ config \in Config /\ server \in Server /\ proc \in Proc \cup {NoFile}
      /\ piece \in 0..13 /\ RefusedSoFar /\ BufIsPart
      /\ (piece # 0 => sample = NoSample) /\ SampleIsWhole
  BY DEF CollectorInv
<1>2. NoSample' = NoSample
  BY DEF NoSample
<1>3. CASE Begin
  <2>1. /\ config' \in Config /\ server' \in Server /\ proc' \in Proc /\ refused' = {}
        /\ piece = 0 /\ piece' = 1 /\ buf' = buf /\ sample' = NoSample
    BY <1>3 DEF Begin
  <2>2. BufIsPart'
    <3>1. buf' = <<>>
      BY <1>1, <2>1 DEF BufIsPart
    <3>2. piece' \notin 2..11 /\ piece' # 12 /\ piece' # 13
      BY ONLY <2>1
    <3>. QED BY ONLY <3>1, <3>2, Zenon DEF BufIsPart
  <2>3. RefusedSoFar' /\ SampleIsWhole' /\ piece' \in 0..13
    BY <1>2, <2>1 DEF RefusedSoFar, SampleIsWhole
  <2>. QED BY ONLY <1>2, <2>1, <2>2, <2>3 DEF CollectorInv
<1>4. CASE AppendPiece
  <2>1. PICK text \in Texts(Part[piece]) : Appended(text)
    BY <1>4 DEF AppendPiece
  <2>2. piece # 0 /\ UNCHANGED <<config, server, proc, refused>>
    BY <1>4 DEF AppendPiece
  <2>3. CASE piece \in {1, 11, 12, 13}
    BY <2>1, <2>2, <2>3, PieceStep
  <2>4. CASE piece \in 2..10
    <3>1. PICK n \in 0..8 : piece - 2 \in {n}
      BY <2>4
    <3>2. PICK section : section = Sections[n + 1]
      OBVIOUS
    <3>3. /\ section = Part[piece] /\ section \in Range(Sections)
          /\ section \notin {"ts", "latency", "slowlog", "host"}
      <4>1. piece - 1 \in 1..9 /\ piece - 1 = n + 1
        BY <2>4, <3>1
      <4>. QED BY <2>4, <3>2, <4>1, PartIs, SectionsAre
    <3>4. text = InfoSection(section, Section(InfoReply(section)))
      BY <2>1, <3>3 DEF Texts
    <3>5. section \notin refused
      <4>1. n + 1 \in 1..9 /\ n + 1 > piece - 2
        BY <2>4, <3>1
      <4>. QED BY <1>1, <2>2, <3>2, <4>1 DEF RefusedSoFar
    <3>6. Section(InfoReply(section)) \in {InfoValue(section)'}
      <4>1. InfoReply(section)' = InfoReply(section)
        BY <2>2, SameTexts
      <4>. QED BY <2>2, <3>5, <4>1 DEF InfoValue
    <3>7. Section(InfoReply(section)) \in {InfoValue(Sections[n + 1])'}
      BY ONLY <3>2, <3>6
    <3>8. Appended(InfoSection(Sections[n + 1], Section(InfoReply(section))))
      BY ONLY <2>1, <3>2, <3>4
    <3>. QED BY <2>2, <2>4, <3>1, <3>7, <3>8, SectionStep
  <2>5. piece \in {1, 11, 12, 13} \/ piece \in 2..10
    BY <1>1, <2>2
  <2>. QED BY ONLY <2>3, <2>4, <2>5
<1>5. CASE RefuseInfo
  <2>1. /\ piece # 0 /\ Part[piece] \in MayRefuse /\ refused' = refused \cup {Part[piece]}
        /\ Appended(InfoSection(Part[piece], Object(<<>>)))
        /\ UNCHANGED <<config, server, proc>>
    BY <1>5 DEF RefuseInfo
  <2>2. piece \in 2..10
    <3>1. Part[piece] \in Range(Sections)
      BY <2>1, CollectorAssumption DEF InputsOK
    <3>2. piece \notin {1, 11, 12, 13}
      BY <3>1, PartIs
    <3>. QED BY <1>1, <2>1, <3>2
  <2>3. PICK n \in 0..8 : piece - 2 \in {n}
    BY <2>2
  <2>4. Part[piece] = Sections[n + 1]
    <3>1. piece - 1 = n + 1
      BY <2>2, <2>3
    <3>. QED BY <2>2, <3>1, PartIs
  <2>5. refused' \in {refused, refused \cup {Sections[n + 1]}}
    BY <2>1, <2>4
  <2>6. Object(<<>>) \in {InfoValue(Sections[n + 1])'}
    BY <2>1, <2>4 DEF InfoValue
  <2>7. Appended(InfoSection(Sections[n + 1], Object(<<>>)))
    BY ONLY <2>1, <2>4
  <2>. QED BY <2>1, <2>2, <2>3, <2>5, <2>6, <2>7, SectionStep
<1>6. CASE OutOfMemory
  <2>1. /\ buf' = <<>> /\ piece' = 0 /\ sample' = NoSample
        /\ config' = config /\ server' = server /\ proc' = proc
    BY <1>1, <1>6 DEF OutOfMemory
  <2>2. BufIsPart'
    <3>1. piece' \notin 2..11 /\ piece' # 12 /\ piece' # 13
      BY ONLY <2>1
    <3>. QED BY ONLY <2>1, <3>1, Zenon DEF BufIsPart
  <2>3. RefusedSoFar' /\ SampleIsWhole' /\ piece' \in 0..13
    BY <1>2, <2>1 DEF RefusedSoFar, SampleIsWhole
  <2>. QED BY ONLY <1>1, <1>2, <2>1, <2>2, <2>3 DEF CollectorInv
<1>7. CASE UNCHANGED collectorVars
  <2>1. /\ buf' = buf /\ piece' = piece /\ sample' = sample /\ refused' = refused
        /\ config' = config /\ server' = server /\ proc' = proc
    BY <1>7 DEF collectorVars
  <2>2. BufIsPart' /\ SampleIsWhole'
    <3>1. /\ \A n : InfoPart(n)' = InfoPart(n)
          /\ \A latency : LatencyPart(latency)' = LatencyPart(latency)
          /\ \A latency, slowlog : ValkeyPart(latency, slowlog)' = ValkeyPart(latency, slowlog)
          /\ \A latency, slowlog : WholeSample(latency, slowlog)' = WholeSample(latency, slowlog)
      BY ONLY <2>1, SameParts
    <3>2. BufIsPart'
      BY ONLY <1>1, <2>1, <3>1 DEF BufIsPart
    <3>3. SampleIsWhole'
      BY ONLY <1>1, <1>2, <2>1, <3>1 DEF SampleIsWhole
    <3>. QED BY ONLY <3>2, <3>3
  <2>3. RefusedSoFar'
    BY ONLY <1>1, <2>1 DEF RefusedSoFar
  <2>. QED BY ONLY <1>1, <1>2, <2>1, <2>2, <2>3 DEF CollectorInv
<1>. QED BY <1>3, <1>4, <1>5, <1>6, <1>7 DEF CollectorNext

\* The invariant of a collection (src/collector.c:411-441): what stands in the buffer
\* before each piece is the text of the parts so far, whole, in order and once.
THEOREM CollectorInvHolds == CollectorSpec => []CollectorInv
BY InitInv, NextInv, PTL DEF CollectorSpec

\* A sample that is handed out is the documented object, whatever the server and the
\* host answered, refused or left out, and whatever collections were broken off before
\* (src/collector.c:411-441, README.md:61-77).
THEOREM SamplesAreWhole == CollectorSpec => []SampleIsWhole
<1>1. CollectorInv => SampleIsWhole
  BY DEF CollectorInv
<1>. QED BY <1>1, CollectorInvHolds, PTL

\* It is one JSON value, written in the symbols of the replies and of the vocabulary alone.
SampleIsJson == sample # NoSample => sample \in Json(Writable)

\* Every sample is a JSON value, for every reply, file, refusal and configuration: the
\* escapes, quotes, brackets and commas of src/collector.c:70-408 and
\* src/hoststats_linux.c:40-200 are those of the grammar.
THEOREM SamplesAreJson == CollectorSpec => []SampleIsJson
<1>1. CollectorInv => SampleIsJson
  <2>. SUFFICES ASSUME CollectorInv, sample # NoSample PROVE sample \in Json(Writable)
    BY DEF SampleIsJson
  <2>1. PICK latency \in LatencyRows, slowlog \in SlowlogRows :
          sample = WholeSample(latency, slowlog)
    BY DEF CollectorInv, SampleIsWhole
  <2>2. Reads(Writable)
    BY ReadsWritable
  <2>. QED BY <2>1, <2>2, WholeIs
<1>. QED BY <1>1, CollectorInvHolds, PTL

\* No symbol that only an argument holds reaches the buffer or a sample while arguments
\* are to be redacted (src/collector.c:385-389, README.md:139), whatever else is there.
THEOREM RedactedArgsHold == CollectorSpec => []RedactedArgsStayOut
<1>1. CollectorInv => RedactedArgsStayOut
  <2>. SUFFICES ASSUME CollectorInv, config.slowlog_redact
                PROVE  Range(buf \o sample) \cap Secret = {}
    BY DEF RedactedArgsStayOut
  <2>1. Writable = Symbol /\ Secret \cap Symbol = {}
    BY CollectorAssumption DEF Writable, InputsOK
  <2>2. Reads(Symbol)
    BY <2>1, ReadsWritable
  <2>3. buf \in Seq(Symbol)
    <3>1. piece - 2 \in 0..9 \/ piece \in {0, 1, 12, 13}
      BY DEF CollectorInv
    <3>2. CASE piece \in {0, 1}
      <4>1. buf = <<>>
        BY <3>2 DEF CollectorInv, BufIsPart
      <4>. QED BY <4>1
    <3>3. CASE piece - 2 \in 0..9
      <4>1. piece \in 2..11
        BY <3>3 DEF CollectorInv
      <4>. QED BY <2>2, <3>3, <4>1, PartTypes DEF CollectorInv, BufIsPart
    <3>4. CASE piece = 12
      BY <2>2, <3>4, PartTypes DEF CollectorInv, BufIsPart
    <3>5. CASE piece = 13
      BY <2>2, <3>5, PartTypes DEF CollectorInv, BufIsPart
    <3>. QED BY ONLY <3>1, <3>2, <3>3, <3>4, <3>5
  <2>4. sample \in Seq(Symbol)
    <3>1. CASE sample = NoSample
      BY <3>1 DEF NoSample
    <3>2. CASE sample # NoSample
      <4>1. PICK latency \in LatencyRows, slowlog \in SlowlogRows :
              sample = WholeSample(latency, slowlog)
        BY <3>2 DEF CollectorInv, SampleIsWhole
      <4>2. Enough(Symbol)
        BY SymbolIsEnough
      <4>. QED BY <2>2, <4>1, <4>2, WholeIs, JsonType
    <3>. QED BY <3>1, <3>2
  <2>5. buf \o sample \in Seq(Symbol)
    BY ONLY <2>3, <2>4, ConcatProperties
  <2>6. \A t \in Seq(Symbol) : Range(t) \subseteq Symbol
    BY DEF Range
  <2>. QED BY ONLY <2>1, <2>5, <2>6
<1>. QED BY <1>1, CollectorInvHolds, PTL

-----------------------------------------------------------------------------
(* The buffers.  WritesFit is not inductive: what makes it so is that      *)
(* between appends the capacity is what realloc gave last, although three  *)
(* files keep the account.                                                 *)

BufferTypeOK ==
  /\ writer \in {"collector", "host", "closing", "encoder"}
  /\ pc \in Appending \cup {"idle", "given up"}
  /\ len \in Nat /\ cap \in Nat /\ memory \in Nat /\ extra \in Nat

\* The capacity is the memory's size, but between doubling and reallocating.
CapacityIsMemory == pc \in {"idle", "check", "write"} => cap = memory

\* What was checked, or doubled, is enough.
RoomIsChecked == pc \in {"realloc", "write"} => Need <= cap

TextFits == len > 0 => len < memory

\* The host section never meets the empty buffer its doubling could not grow.
HostHasRoom == writer = "host" => cap > 0

BufferInv ==
  /\ BufferTypeOK /\ CapacityIsMemory /\ RoomIsChecked /\ TextFits /\ HostHasRoom

\* A doubling gives more, whichever file doubles.
LEMMA DoubledIsMore ==
  ASSUME cap \in Nat, writer \in {"collector", "host", "closing", "encoder"},
         writer = "host" => cap > 0
  PROVE  Doubled \in Nat /\ Doubled > cap
<1>1. CollectorFirst \in Nat \ {0} /\ EncoderFirst \in Nat \ {0}
  BY BufferAssumption
<1>. QED BY <1>1 DEF Doubled, CollectorDouble, EncoderDouble, HostDouble

\* The capacity of an empty buffer, and len, are 0 at first.
LEMMA BufferInit == Init => BufferInv
BY DEF Init, BufferInv, BufferTypeOK, CapacityIsMemory, RoomIsChecked, TextFits, HostHasRoom,
       Appending

LEMMA BufferNext == BufferInv /\ [Next]_vars => BufferInv'
<1> SUFFICES ASSUME BufferInv, [Next]_vars PROVE BufferInv'
  OBVIOUS
<1> USE DEF BufferInv, BufferTypeOK, CapacityIsMemory, RoomIsChecked, TextFits, HostHasRoom,
            Appending, Need
<1>1. CASE AppendText
  <2> PICK n \in Size :
        CollectorAppend(n) \/ EncoderAppend(n) \/ HostAppend(n) \/ StubAppend(n)
    BY <1>1 DEF AppendText
  <2>0. n \in Nat
    BY BufferAssumption
  <2>1. UNCHANGED <<writer, len, cap, memory>> /\ pc = "idle" /\ extra' = n
    BY <1>1 DEF AppendText, CollectorAppend, EncoderAppend, HostAppend, StubAppend, Ask
  <2>2. CASE pc' = "check"
    BY <2>0, <2>1, <2>2
  <2>3. CASE StubAppend(n)
    <3>1. CASE pc' = "given up"
      BY <2>0, <2>1, <3>1
    <3>2. CASE pc' = "write" /\ len + n + 1 <= cap
      <4>1. BufferTypeOK'
        BY <2>0, <2>1, <3>2
      <4>2. CapacityIsMemory' /\ TextFits' /\ HostHasRoom'
        BY <2>1
      <4>3. RoomIsChecked'
        BY <2>1, <3>2
      <4> QED
        BY <4>1, <4>2, <4>3
    <3>3. n \in Nat /\ len \in Nat /\ cap \in Nat
      BY <2>0
    <3>4. len + n + 1 > cap \/ len + n + 1 <= cap
      BY ONLY <3>3
    <3> QED
      BY <2>3, <3>1, <3>2, <3>4 DEF StubAppend
  <2> QED
    BY <2>2, <2>3 DEF CollectorAppend, EncoderAppend, HostAppend
<1>2. CASE Check
  BY <1>2 DEF Check
<1>3. CASE Double
  <2>1. cap' \in Nat /\ cap' > cap
    BY <1>3, DoubledIsMore DEF Double
  <2> QED
    BY <1>3, <2>1 DEF Double
<1>4. CASE Reallocate
  BY <1>4 DEF Reallocate
<1>5. CASE ReallocateFails
  BY <1>5 DEF ReallocateFails
<1>6. CASE Write
  BY <1>6 DEF Write
<1>7. CASE HostStarts \/ HostEnds
  <2>1. UNCHANGED <<pc, len, cap, memory, extra>> /\ pc = "idle"
    BY <1>7 DEF HostStarts, HostEnds
  <2>2. writer' = "host" => len > 0
    BY <1>7 DEF HostStarts, HostEnds
  <2>3. HostHasRoom'
    BY <2>1, <2>2
  <2>4. writer' \in {"collector", "host", "closing", "encoder"}
    BY <1>7 DEF HostStarts, HostEnds
  <2> QED
    BY <2>1, <2>3, <2>4
<1>8. CASE UNCHANGED vars
  BY <1>8 DEF vars
<1> QED
  BY <1>1, <1>2, <1>3, <1>4, <1>5, <1>6, <1>7, <1>8 DEF Next, Step

\* The accounts of collector, encoder and host section stay true to the memory
\* (src/collector.c:18-43, src/hoststats_linux.c:14-38, src/delta.c:39-61).
THEOREM BufferInvHolds == Spec => []BufferInv
BY BufferInit, BufferNext, PTL DEF Spec

\* No text is written past the memory realloc gave, its terminator included, whichever
\* file writes, as long as callers give up after a failed reallocation.
THEOREM WritesAlwaysFit == Spec => []WritesFit
<1>1. BufferInv => WritesFit
  BY DEF BufferInv, BufferTypeOK, CapacityIsMemory, RoomIsChecked, TextFits, Need, WritesFit
<1> QED
  BY <1>1, BufferInvHolds, PTL

\* A turn of a doubling loop gives more.
DoublingGrows == [][Double => cap' > cap]_vars

\* Every turn of the doubling loops gives more, the host section's among them, which
\* alone would turn for ever on a capacity of 0 (src/hoststats_linux.c:20-22): what a
\* loop lacks of the room it needs gets less with every turn.
THEOREM DoublingAlwaysGrows == Spec => DoublingGrows
<1>1. BufferInv /\ [Next]_vars => [Double => cap' > cap]_vars
  BY DoubledIsMore DEF BufferInv, BufferTypeOK, HostHasRoom, Double
<1> QED
  BY <1>1, BufferInvHolds, PTL DEF Spec, DoublingGrows

=============================================================================
