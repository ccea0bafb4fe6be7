-------------------------- MODULE FtdcRetentionProofs --------------------------
(***************************************************************************)
(* Proofs about ftdc_rotation_enforce_retention of FtdcRetention: for any  *)
(* files, sizes and modification times, any limit, and any number of       *)
(* changes others make to the directory during the call.                   *)
(*                                                                         *)
(* The properties are about sums, so the sum of sizes is shown first not   *)
(* to depend on the order of its terms; then that the list is sorted; then *)
(* that total is at every step the bytes of what is listed and not         *)
(* removed.                                                                *)
(***************************************************************************)
EXTENDS FtdcRetention, FiniteFolds, SequenceTheorems
-----------------------------------------------------------------------------
(* Sums of sizes, in any order.                                            *)

\* What the scan keeps of a file, whatever its size and age.
Item == [path : Nat, size : Nat, mtime : Int]

\* The element the fold of Bytes takes next.
FirstOf(T) == CHOOSE e \in T : TRUE

\* g is the fold behind Bytes over the subsets of S.
Sums(g, S) ==
  g = [T \in SUBSET S |->
         IF T = {} THEN 0 ELSE FirstOf(T).size + g[T \ {FirstOf(T)}]]

\* The fold takes an element of the set it is at.
LEMMA FirstOfPicks ==
  ASSUME NEW S
  PROVE  \A T \in SUBSET S : T # {} => FirstOf(T) \in T
  BY DEF FirstOf

\* Every such fold sums naturals, and is one in the sense of FiniteFolds.
LEMMA SumsFolds ==
  ASSUME NEW S \in SUBSET Item, IsFiniteSet(S), NEW A \in SUBSET S,
         NEW g, Sums(g, A)
  PROVE  /\ g \in [SUBSET A -> Nat]
         /\ Folds(g, A, 0, [T \in SUBSET S |-> FirstOf(T)],
                  [x \in S \X Nat |-> x[1].size + x[2]])
<1>. DEFINE pick == [T \in SUBSET S |-> FirstOf(T)]
            step == [x \in S \X Nat |-> x[1].size + x[2]]
<1>1. IsFiniteSet(A)
  BY FS_Subset
<1>2. \A T \in SUBSET A :
        g[T] = IF T = {} THEN 0 ELSE FirstOf(T).size + g[T \ {FirstOf(T)}]
  BY DEF Sums
<1>3. Picks(pick, A)
  BY FirstOfPicks DEF Picks
<1>4. g[{}] \in Nat
  <2>1. {} \in SUBSET A
    OBVIOUS
  <2>2. g[{}] = 0
    BY <1>2, <2>1, Zenon
  <2>. QED BY <2>2
<1>5. ASSUME NEW T \in SUBSET A, T # {}, g[T \ {pick[T]}] \in Nat
      PROVE  g[T] \in Nat
  <2>1. FirstOf(T) \in T /\ FirstOf(T).size \in Nat
    BY <1>5, FirstOfPicks DEF Item
  <2>2. g[T] = FirstOf(T).size + g[T \ {FirstOf(T)}]
    BY <1>2, <1>5
  <2>3. g[T \ {FirstOf(T)}] \in Nat
    BY <1>5
  <2>. QED BY <2>1, <2>2, <2>3
<1>6. \A T \in SUBSET A : g[T] \in Nat
  <2>. HIDE DEF pick, step
  <2>. QED BY <1>1, <1>3, <1>4, <1>5, FoldTyped
<1>7. g = [T \in SUBSET A |->
             IF T = {} THEN 0 ELSE step[<<pick[T], g[T \ {pick[T]}]>>]]
  <2>1. ASSUME NEW T \in SUBSET A, T # {}
        PROVE  FirstOf(T).size + g[T \ {FirstOf(T)}]
                 = step[<<pick[T], g[T \ {pick[T]}]>>]
    <3>1. FirstOf(T) \in S /\ pick[T] = FirstOf(T) /\ T \ {FirstOf(T)} \in SUBSET A
      BY <2>1, FirstOfPicks
    <3>2. <<FirstOf(T), g[T \ {FirstOf(T)}]>> \in S \X Nat
      BY <3>1, <1>6
    <3>. QED BY <3>1, <3>2
  <2>. HIDE DEF pick, step
  <2>. QED BY <2>1 DEF Sums
<1>8. g \in [SUBSET A -> Nat]
  BY <1>6 DEF Sums
<1>. HIDE DEF pick, step
<1>9. Folds(g, A, 0, pick, step)
  BY <1>7 DEF Folds
<1>. QED BY <1>8, <1>9 DEF pick, step

\* There is such a fold over every finite set of files.
LEMMA SumsExist ==
  ASSUME NEW S \in SUBSET Item, IsFiniteSet(S)
  PROVE  \E g : Sums(g, S)
<1>. DEFINE pick == [T \in SUBSET S |-> FirstOf(T)]
            step == [x \in S \X Nat |-> x[1].size + x[2]]
<1>1. Picks(pick, S)
  BY FirstOfPicks DEF Picks
<1>2. step \in [S \X Nat -> Nat]
  BY DEF Item
<1>3. PICK g \in [SUBSET S -> Nat] : Folds(g, S, 0, pick, step)
  <2>. HIDE DEF pick, step
  <2>1. 0 \in Nat
    OBVIOUS
  <2>. QED BY <1>1, <1>2, <2>1, FoldDefined
<1>4. \A T \in SUBSET S : T # {} =>
        FirstOf(T).size + g[T \ {FirstOf(T)}]
          = step[<<pick[T], g[T \ {pick[T]}]>>]
  <2>. SUFFICES ASSUME NEW T \in SUBSET S, T # {}
       PROVE  FirstOf(T).size + g[T \ {FirstOf(T)}]
                = step[<<pick[T], g[T \ {pick[T]}]>>]
    OBVIOUS
  <2>1. FirstOf(T) \in S /\ pick[T] = FirstOf(T) /\ T \ {FirstOf(T)} \in SUBSET S
    BY FirstOfPicks
  <2>2. <<FirstOf(T), g[T \ {FirstOf(T)}]>> \in S \X Nat
    BY <2>1
  <2>. QED BY <2>1, <2>2
<1>5. Sums(g, S)
  <2>. HIDE DEF pick, step
  <2>. QED BY <1>3, <1>4 DEF Folds, Sums
<1>. QED BY <1>5

\* Bytes is the value of one.
LEMMA BytesSums ==
  ASSUME NEW S \in SUBSET Item, IsFiniteSet(S)
  PROVE  \E g : Sums(g, S) /\ Bytes(S) = g[S]
<1>. DEFINE g == CHOOSE g : Sums(g, S)
<1>1. Sums(g, S)
  BY SumsExist
<1>2. Bytes(S) = g[S]
  BY DEF Bytes, MapThenSumSet, MapThenFoldSet, SizeOf, Sums, FirstOf
<1>. QED BY <1>1, <1>2

\* Folds over a set and over a part of it agree on the part.
LEMMA SumsAgree ==
  ASSUME NEW S \in SUBSET Item, IsFiniteSet(S), NEW A \in SUBSET S,
         NEW g, Sums(g, S), NEW h, Sums(h, A)
  PROVE  g[A] = h[A]
<1>. DEFINE pick == [T \in SUBSET S |-> FirstOf(T)]
            step == [x \in S \X Nat |-> x[1].size + x[2]]
<1>1. Folds(g, S, 0, pick, step) /\ Folds(h, A, 0, pick, step)
  BY SumsFolds
<1>2. \A T \in SUBSET S : T # {} => pick[T] \in T
  BY FirstOfPicks
<1>3. S \in SUBSET S /\ A \in SUBSET A
  OBVIOUS
<1>. HIDE DEF pick, step
<1>. QED BY <1>1, <1>2, <1>3, FoldUnique

\* No files have no bytes.
LEMMA BytesOfNone == Bytes({}) = 0
<1>1. PICK g : Sums(g, {}) /\ Bytes({}) = g[{}]
  BY BytesSums, FS_EmptySet
<1>. QED BY <1>1 DEF Sums

\* The bytes of finitely many files are a natural number.
LEMMA BytesType ==
  ASSUME NEW S \in SUBSET Item, IsFiniteSet(S)
  PROVE  Bytes(S) \in Nat
<1>1. PICK g : Sums(g, S) /\ Bytes(S) = g[S]
  BY BytesSums
<1>2. S \in SUBSET S
  OBVIOUS
<1>3. g \in [SUBSET S -> Nat]
  BY <1>1, <1>2, SumsFolds
<1>. QED BY <1>1, <1>2, <1>3

\* The fold, unrolled once.
LEMMA BytesOfFirst ==
  ASSUME NEW S \in SUBSET Item, IsFiniteSet(S), S # {}
  PROVE  /\ FirstOf(S) \in S
         /\ Bytes(S) = FirstOf(S).size + Bytes(S \ {FirstOf(S)})
<1>. DEFINE A == S \ {FirstOf(S)}
<1>1. FirstOf(S) \in S
  BY FirstOfPicks
<1>2. A \in SUBSET S /\ A \in SUBSET Item /\ IsFiniteSet(A)
  BY FS_Subset
<1>3. PICK g : Sums(g, S) /\ Bytes(S) = g[S]
  BY BytesSums
<1>. HIDE DEF A
<1>4. PICK h : Sums(h, A) /\ Bytes(A) = h[A]
  BY <1>2, BytesSums
<1>5. g[A] = h[A]
  BY <1>2, <1>3, <1>4, SumsAgree
<1>6. g[S] = FirstOf(S).size + g[A]
  BY <1>3 DEF Sums, A
<1>. QED BY <1>1, <1>3, <1>4, <1>5, <1>6 DEF A

\* Any file may be taken out first: the sum does not depend on the order in
\* which the fold picks (src/rotation.c:326, 337).
LEMMA BytesOfOne ==
  ASSUME NEW S \in SUBSET Item, IsFiniteSet(S), NEW x \in S
  PROVE  Bytes(S) = x.size + Bytes(S \ {x})
<1>. DEFINE G == {T \in SUBSET S : \A e \in T : Bytes(T) = e.size + Bytes(T \ {e})}
<1>1. ASSUME NEW T \in SUBSET S, \A U \in SUBSET T : U # T => U \in G
      PROVE T \in G
  <2>. SUFFICES ASSUME NEW e \in T PROVE Bytes(T) = e.size + Bytes(T \ {e})
    OBVIOUS
  <2>. DEFINE p == FirstOf(T)  A == T \ {p}  B == T \ {e}  C == (T \ {p}) \ {e}
  <2>0. T \in SUBSET Item /\ IsFiniteSet(T)
    BY FS_Subset
  <2>1. p \in T /\ Bytes(T) = p.size + Bytes(A)
    BY <2>0, BytesOfFirst
  <2>2. CASE e = p
    BY <2>1, <2>2
  <2>3. CASE e # p
    <3>1. A \in G /\ B \in G /\ e \in A /\ p \in B
      BY <1>1, <2>1, <2>3
    <3>2. A \ {e} = C /\ B \ {p} = C
      OBVIOUS
    <3>3. Bytes(A) = e.size + Bytes(C)
      BY <3>1, <3>2
    <3>4. Bytes(B) = p.size + Bytes(C)
      BY <3>1, <3>2
    <3>5. e.size \in Nat /\ p.size \in Nat
      BY <2>1 DEF Item
    <3>6. Bytes(C) \in Nat
      <4>1. C \in SUBSET Item /\ IsFiniteSet(C)
        BY <2>0, FS_Subset
      <4>. QED BY <4>1, BytesType
    <3>. HIDE DEF p, A, B, C
    <3>. QED BY <2>1, <3>3, <3>4, <3>5, <3>6 DEF B
  <2>. QED BY <2>2, <2>3
<1>2. SUBSET S \subseteq G
  <2>. HIDE DEF G
  <2>. QED BY <1>1, SubsetInduction
<1>3. S \in G
  BY <1>2
<1>. QED BY <1>3
-----------------------------------------------------------------------------
(* Sorting by age.                                                         *)

\* A scan meets no path twice.
DistinctPaths(S) == \A a, b \in S : a.path = b.path => a = b

\* retention_cmp orders files of different paths strictly and totally
\* (src/rotation.c:277-283).
LEMMA OlderOrders ==
  ASSUME NEW S \in SUBSET Item, DistinctPaths(S)
  PROVE  /\ \A a, b \in S : a = b \/ Older(a, b) \/ Older(b, a)
         /\ \A a, b \in S : ~(Older(a, b) /\ Older(b, a))
         /\ \A a, b, c \in S : Older(a, b) /\ Older(b, c) => Older(a, c)
<1>1. \A a \in S : a.mtime \in Int /\ a.path \in Nat
  BY DEF Item
<1>2. ASSUME NEW a \in S, NEW b \in S
      PROVE  a = b \/ Older(a, b) \/ Older(b, a)
  BY <1>1 DEF Older, DistinctPaths
<1>3. ASSUME NEW a \in S, NEW b \in S
      PROVE  ~(Older(a, b) /\ Older(b, a))
  BY <1>1 DEF Older
<1>4. ASSUME NEW a \in S, NEW b \in S, NEW c \in S, Older(a, b), Older(b, c)
      PROVE  Older(a, c)
  BY <1>1, <1>4 DEF Older
<1>. QED BY <1>2, <1>3, <1>4

\* Counting how many are older than each puts every file in a place of its own:
\* the list has each file once, and positions follow the age.
LEMMA SortedLists ==
  ASSUME NEW S \in SUBSET Item, IsFiniteSet(S), DistinctPaths(S)
  PROVE  /\ Cardinality(S) \in Nat
         /\ Sorted(S) \in [1..Cardinality(S) -> S]
         /\ \A j, k \in 1..Cardinality(S) :
              Older(Sorted(S)[j], Sorted(S)[k]) <=> j < k
         /\ \A e \in S : \E k \in 1..Cardinality(S) : Sorted(S)[k] = e
<1>. DEFINE n == Cardinality(S)
            Below(e) == {a \in S : Older(a, e)}
            r == [e \in S |-> Cardinality(Below(e)) + 1]
            f == Sorted(S)
<1>1. n \in Nat
  BY FS_CardinalityType
<1>2. ASSUME NEW e \in S
      PROVE  /\ IsFiniteSet(Below(e)) /\ Cardinality(Below(e)) \in Nat
             /\ r[e] \in 1..n /\ r[e] = Cardinality(Below(e)) + 1
  <2>1. Below(e) \in SUBSET (S \ {e})
    BY OlderOrders
  <2>2. IsFiniteSet(S \ {e}) /\ Cardinality(S \ {e}) = n - 1
    BY FS_RemoveElement
  <2>. HIDE DEF Below
  <2>3. IsFiniteSet(Below(e)) /\ Cardinality(Below(e)) <= n - 1
    BY <2>1, <2>2, FS_Subset
  <2>4. Cardinality(Below(e)) \in Nat
    BY <2>3, FS_CardinalityType
  <2>. QED BY <1>1, <2>3, <2>4
<1>3. ASSUME NEW a \in S, NEW b \in S, Older(a, b)
      PROVE  r[a] < r[b]
  <2>1. Below(a) \in SUBSET Below(b)
    BY <1>3, OlderOrders
  <2>2. a \in Below(b) /\ a \notin Below(a)
    BY <1>3, OlderOrders
  <2>3. Cardinality(Below(a)) <= Cardinality(Below(b))
        /\ Cardinality(Below(a)) # Cardinality(Below(b))
    <3>1. IsFiniteSet(Below(b))
      BY <1>2
    <3>. HIDE DEF Below
    <3>. QED BY <3>1, <2>1, <2>2, FS_Subset
  <2>. HIDE DEF Below, r
  <2>4. Cardinality(Below(a)) \in Nat /\ Cardinality(Below(b)) \in Nat
        /\ r[a] = Cardinality(Below(a)) + 1 /\ r[b] = Cardinality(Below(b)) + 1
    BY <1>2
  <2>. QED BY <2>3, <2>4
<1>4. ASSUME NEW a \in S, NEW b \in S, r[a] = r[b]
      PROVE  a = b
  <2>. HIDE DEF r, n
  <2>1. r[a] \in 1..n
    BY <1>2
  <2>2. ~Older(a, b) /\ ~Older(b, a)
    BY <1>1, <1>3, <1>4, <2>1
  <2>. QED BY <2>2, OlderOrders
<1>5. r \in Surjection(S, 1..n)
  <2>1. r \in Injection(S, 1..n)
    <3>1. r \in [S -> 1..n]
      BY <1>2
    <3>. HIDE DEF r, n
    <3>. QED BY <3>1, <1>4 DEF Injection, IsInjective
  <2>2. IsFiniteSet(1..n) /\ Cardinality(1..n) = n
    BY <1>1, FS_Interval
  <2>. HIDE DEF r
  <2>. QED BY <2>1, <2>2, FS_Injection
<1>6. ASSUME NEW k \in 1..n
      PROVE  f[k] \in S /\ r[f[k]] = k
  <2>1. PICK e \in S : r[e] = k
    <3>. HIDE DEF r, n
    <3>. QED BY <1>5 DEF Surjection
  <2>2. Cardinality(Below(e)) = k - 1
    <3>1. r[e] = Cardinality(Below(e)) + 1 /\ Cardinality(Below(e)) \in Nat
      BY <1>2
    <3>. HIDE DEF r, Below
    <3>. QED BY <2>1, <3>1
  <2>3. f[k] = CHOOSE a \in S : Cardinality(Below(a)) = k - 1
    BY DEF Sorted
  <2>4. f[k] \in S /\ Cardinality(Below(f[k])) = k - 1
    <3>. HIDE DEF Below, f, n
    <3>. QED BY <2>2, <2>3
  <2>5. r[f[k]] = Cardinality(Below(f[k])) + 1
    <3>. HIDE DEF Below, f, n, r
    <3>. QED BY <2>4, <1>2
  <2>6. k \in Int
    BY <1>1
  <2>. HIDE DEF Below, f, n, r
  <2>. QED BY <2>4, <2>5, <2>6
<1>7. f \in [1..n -> S]
  <2>1. f = [k \in 1..n |-> f[k]]
    BY DEF Sorted
  <2>. HIDE DEF f, n, r
  <2>. QED BY <2>1, <1>6
<1>8. ASSUME NEW j \in 1..n, NEW k \in 1..n
      PROVE  Older(f[j], f[k]) <=> j < k
  <2>1. f[j] \in S /\ f[k] \in S /\ r[f[j]] = j /\ r[f[k]] = k
    BY <1>6
  <2>2. j \in Int /\ k \in Int
    BY <1>1
  <2>. HIDE DEF f, n, r
  <2>3. f[j] = f[k] => j = k
    BY <2>1
  <2>4. Older(f[j], f[k]) => j < k
    BY <1>3, <2>1
  <2>5. Older(f[k], f[j]) => k < j
    BY <1>3, <2>1
  <2>6. f[j] = f[k] \/ Older(f[j], f[k]) \/ Older(f[k], f[j])
    BY <2>1, OlderOrders
  <2>. QED BY <2>2, <2>3, <2>4, <2>5, <2>6
<1>9. ASSUME NEW e \in S
      PROVE  \E k \in 1..n : f[k] = e
  <2>1. r[e] \in 1..n
    BY <1>2
  <2>2. f[r[e]] \in S /\ r[f[r[e]]] = r[e]
    BY <2>1, <1>6
  <2>. HIDE DEF f, n, r
  <2>3. f[r[e]] = e
    BY <2>2, <1>4
  <2>. QED BY <2>1, <2>3
<1>. HIDE DEF f, n
<1>10. n \in Nat /\ f \in [1..n -> S]
       /\ (\A j, k \in 1..n : Older(f[j], f[k]) <=> j < k)
       /\ (\A e \in S : \E k \in 1..n : f[k] = e)
  BY <1>1, <1>7, <1>8, <1>9
<1>. QED BY <1>10 DEF f, n
-----------------------------------------------------------------------------
(* The list and the loop.                                                  *)

\* The types that Retention and the module that extends it have in common.
Kinds ==
  /\ DOMAIN dir \subseteq File
  /\ \A f \in DOMAIN dir : dir[f].size \in Nat /\ dir[f].mtime \in Int
  /\ files \in Seq(Item)
  /\ i \in 1..Len(files) + 1

\* The list of a call: distinct files, oldest first.
Listed ==
  /\ DistinctPaths(Scanned)
  /\ \A j, k \in 1..Len(files) : Older(files[j], files[k]) <=> j < k
  /\ pc = "scan" => files = <<>> /\ i = 1 /\ removed = {}

\* The loop removed nothing but files it passed, and has an answer for each
\* of those.
Passed ==
  /\ \A f \in removed : f # current_file /\ \E j \in 1..i - 1 : files[j].path = f
  /\ \A j \in 1..i - 1 : files[j].path \in {current_file} \cup removed \cup refused

\* The steps of ftdc_rotation_enforce_retention itself.
EnforceStep == Scan \/ ScanFails \/ SkipCurrent \/ Unlink \/ UnlinkFails \/ Finish

\* What is in the directory is a finite set of files of distinct paths.
LEMMA EntriesAreItems ==
  ASSUME Kinds
  PROVE  Entries \in SUBSET Item /\ IsFiniteSet(Entries) /\ DistinctPaths(Entries)
<1>. DEFINE row(f) == [path |-> f, size |-> dir[f].size, mtime |-> dir[f].mtime]
            rows == [f \in DOMAIN dir |-> row(f)]
<1>1. \A f \in DOMAIN dir : row(f) \in Item /\ row(f).path = f
  BY RetentionAssumption DEF Item, Kinds
<1>2. Entries \in SUBSET Item /\ DistinctPaths(Entries)
  BY <1>1 DEF Entries, DistinctPaths
<1>3. IsFiniteSet(DOMAIN dir)
  BY RetentionAssumption, FS_Subset DEF Kinds
<1>4. rows \in Surjection(DOMAIN dir, Entries)
  BY DEF Surjection, Entries
<1>5. IsFiniteSet(Entries)
  <2>. HIDE DEF rows
  <2>. QED BY <1>3, <1>4, FS_Surjection
<1>. QED BY <1>2, <1>5

\* So is what was listed.
LEMMA ScannedAreItems ==
  ASSUME Kinds
  PROVE  Scanned \in SUBSET Item /\ IsFiniteSet(Scanned)
<1>1. Len(files) \in Nat /\ files \in [1..Len(files) -> Item]
  BY DEF Kinds
<1>2. files \in Surjection(1..Len(files), Scanned)
  BY <1>1 DEF Surjection, Scanned
<1>3. IsFiniteSet(1..Len(files))
  BY <1>1, FS_Interval
<1>. QED BY <1>1, <1>2, <1>3, FS_Surjection DEF Scanned

\* The scan lists what is in the directory, oldest first.
LEMMA ScanLists ==
  ASSUME Kinds, files' = Sorted(Entries)
  PROVE  /\ files' \in Seq(Entries)
         /\ Scanned' = Entries
         /\ \A j, k \in 1..Len(files') : Older(files'[j], files'[k]) <=> j < k
<1>. DEFINE n == Cardinality(Entries)
<1>1. /\ n \in Nat /\ Sorted(Entries) \in [1..n -> Entries]
      /\ \A j, k \in 1..n : Older(Sorted(Entries)[j], Sorted(Entries)[k]) <=> j < k
      /\ \A e \in Entries : \E k \in 1..n : Sorted(Entries)[k] = e
  BY EntriesAreItems, SortedLists
<1>. HIDE DEF n
<1>2. files' \in Seq(Entries) /\ Len(files') = n
  BY <1>1
<1>3. Scanned' = Entries
  BY <1>1, <1>2 DEF Scanned
<1>. QED BY <1>1, <1>2, <1>3

\* Every step of the call keeps the list sorted and the loop accountable
\* (src/rotation.c:331-339).
LEMMA ListStep ==
  ASSUME Kinds, Listed, Passed, EnforceStep
  PROVE  Kinds' /\ Listed' /\ Passed'
<1>. USE DEF Kinds, Listed, Passed
<1>0. Len(files) \in Nat
  OBVIOUS
<1>1. CASE Scan
  <2>1. CASE max_dir_bytes <= 0
    BY <1>1, <2>1 DEF Scan, Scanned
  <2>2. CASE ~(max_dir_bytes <= 0)
    <3>1. files' = Sorted(Entries) /\ pc' = "trim" /\ i' = 1 /\ removed' = {}
          /\ dir' = dir
      BY <1>1, <2>2 DEF Scan
    <3>2. /\ files' \in Seq(Entries) /\ Scanned' = Entries
          /\ \A j, k \in 1..Len(files') : Older(files'[j], files'[k]) <=> j < k
      BY <3>1, ScanLists
    <3>3. Entries \in SUBSET Item /\ DistinctPaths(Entries)
      BY EntriesAreItems
    <3>4. Kinds'
      <4>1. files' \in Seq(Item) /\ Len(files') \in Nat
        BY <3>2, <3>3
      <4>. QED BY <3>1, <4>1
    <3>5. Listed'
      BY <3>1, <3>2, <3>3 DEF DistinctPaths
    <3>6. Passed'
      BY <3>1
    <3>. QED BY <3>4, <3>5, <3>6
  <2>. QED BY <2>1, <2>2
<1>2. CASE ScanFails
  BY <1>2 DEF ScanFails, Scanned
<1>3. CASE SkipCurrent
  <2>1. i' = i + 1 /\ i \in 1..Len(files) /\ files[i].path = current_file
        /\ pc' = "trim"
        /\ UNCHANGED <<current_file, dir, files, removed, refused>>
    BY <1>3 DEF SkipCurrent, MoreToTrim
  <2>2. Kinds'
    BY <1>0, <2>1
  <2>3. Listed'
    BY <2>1 DEF Scanned
  <2>4. Passed'
    <3>1. 1..i' - 1 = 1..i - 1 \cup {i}
      BY <2>1, <1>0
    <3>. QED BY <2>1, <3>1
  <2>. QED BY <2>2, <2>3, <2>4
<1>4. CASE Unlink
  <2>1. i' = i + 1 /\ i \in 1..Len(files) /\ files[i].path # current_file
        /\ removed' = removed \cup {files[i].path}
        /\ pc' = "trim"
        /\ UNCHANGED <<current_file, files, refused>>
    BY <1>4 DEF Unlink, MoreToTrim
  <2>2. Kinds'
    <3>1. dir' = Without(files[i].path)
      BY <1>4 DEF Unlink
    <3>2. /\ DOMAIN dir' \in SUBSET DOMAIN dir
          /\ \A f \in DOMAIN dir' : dir'[f] = dir[f]
      BY <3>1 DEF Without
    <3>. QED BY <1>0, <2>1, <3>2
  <2>3. Listed'
    BY <2>1 DEF Scanned
  <2>4. Passed'
    <3>1. 1..i' - 1 = 1..i - 1 \cup {i}
      BY <2>1, <1>0
    <3>. QED BY <2>1, <3>1
  <2>. QED BY <2>2, <2>3, <2>4
<1>5. CASE UnlinkFails
  <2>1. i' = i + 1 /\ i \in 1..Len(files)
        /\ refused' = refused \cup {files[i].path}
        /\ pc' = "trim"
        /\ UNCHANGED <<current_file, dir, files, removed>>
    BY <1>5 DEF UnlinkFails, MoreToTrim
  <2>2. Kinds'
    BY <1>0, <2>1
  <2>3. Listed'
    BY <2>1 DEF Scanned
  <2>4. Passed'
    <3>1. 1..i' - 1 = 1..i - 1 \cup {i}
      BY <2>1, <1>0
    <3>. QED BY <2>1, <3>1
  <2>. QED BY <2>2, <2>3, <2>4
<1>6. CASE Finish
  BY <1>6 DEF Finish, Scanned
<1>. QED BY <1>1, <1>2, <1>3, <1>4, <1>5, <1>6 DEF EnforceStep
-----------------------------------------------------------------------------
(* The account.                                                            *)

\* What was listed and then removed.
Gone == {e \in Scanned : e.path \in removed}

\* total is what is left of the list, and what was listed less what is gone.
Account ==
  /\ total = Bytes(Scanned \ Gone)
  /\ total = Bytes(Scanned) - Bytes(Gone)

\* The loop runs only for a limit, and ends only when it has nothing to do.
Guarded ==
  /\ pc = "trim" => max_dir_bytes > 0
  /\ pc = "done" /\ max_dir_bytes > 0 => ~MoreToTrim

\* While nobody else touches the directory, it holds what is left of the list.
Mirrored ==
  pc \in {"trim", "done"} /\ max_dir_bytes > 0 /\ changes = 0 =>
    Entries = Scanned \ Gone

Inv ==
  /\ TypeOK /\ Listed /\ Passed /\ Account
  /\ RemovesOnlyTheOldest /\ Guarded /\ Mirrored

\* The types of this module are among those.
LEMMA TypedKinds ==
  ASSUME TypeOK
  PROVE  Kinds /\ Entries \in SUBSET Entry /\ Scanned \in SUBSET Entry
<1>1. Entry \in SUBSET Item
  BY RetentionAssumption DEF Entry, Item
<1>2. \A f \in DOMAIN dir : dir[f] \in Stat
  BY DEF TypeOK
<1>3. files \in Seq(Item)
  BY <1>1 DEF TypeOK
<1>4. Kinds
  BY <1>2, <1>3, RetentionAssumption DEF TypeOK, Kinds, Stat
<1>5. Entries \in SUBSET Entry
  BY <1>2 DEF TypeOK, Entries, Entry, Stat
<1>6. Scanned \in SUBSET Entry
  BY DEF TypeOK, Scanned
<1>. QED BY <1>4, <1>5, <1>6

\* What a file that is removed makes of the account.
LEMMA OneMoreGone ==
  ASSUME Kinds, Listed, Passed, Unlink
  PROVE  /\ files[i] \in Scanned \ Gone /\ Scanned' = Scanned
         /\ Gone' = Gone \cup {files[i]}
         /\ Bytes(Scanned \ Gone) = files[i].size + Bytes(Scanned \ Gone')
         /\ Bytes(Gone') = files[i].size + Bytes(Gone)
         /\ files[i].size \in Nat /\ Bytes(Gone) \in Nat /\ Bytes(Scanned) \in Nat
         /\ Bytes(Scanned \ Gone') \in Nat
<1>0. Len(files) \in Nat
  BY DEF Kinds
<1>1. /\ i \in 1..Len(files)
      /\ removed' = removed \cup {files[i].path} /\ files' = files
  BY <1>0 DEF Unlink, MoreToTrim, Kinds
<1>2. files[i] \in Scanned /\ Scanned' = Scanned
  BY <1>1 DEF Scanned
<1>3. files[i].path \notin removed
  <2>. SUFFICES ASSUME files[i].path \in removed PROVE FALSE
    OBVIOUS
  <2>1. PICK j \in 1..i - 1 : files[j].path = files[i].path
    BY DEF Passed
  <2>2. j \in 1..Len(files) /\ j < i
    BY <1>0, <1>1
  <2>3. files[j] = files[i]
    BY <2>1, <2>2, <1>1 DEF Listed, DistinctPaths, Scanned
  <2>4. Older(files[j], files[i]) /\ ~Older(files[i], files[i])
    BY <2>2, <1>0, <1>1 DEF Listed
  <2>. QED BY <2>3, <2>4
<1>4. Gone' = Gone \cup {files[i]} /\ files[i] \in Scanned \ Gone
  BY <1>1, <1>2, <1>3 DEF Gone, Listed, DistinctPaths
<1>5. Scanned \in SUBSET Item /\ IsFiniteSet(Scanned)
  BY ScannedAreItems
<1>. DEFINE A == Scanned \ Gone  B == Gone'  e == files[i]  C == Scanned \ Gone'
<1>6. /\ A \in SUBSET Item /\ IsFiniteSet(A) /\ e \in A /\ A \ {e} = C
      /\ B \in SUBSET Item /\ IsFiniteSet(B) /\ e \in B /\ B \ {e} = Gone
      /\ Gone \in SUBSET Item /\ IsFiniteSet(Gone)
      /\ C \in SUBSET Item /\ IsFiniteSet(C)
  <2>1. B \in SUBSET Scanned /\ Gone \in SUBSET Scanned
    BY <1>2, <1>4 DEF Gone
  <2>. QED BY <2>1, <1>4, <1>5, FS_Subset
<1>7. e.size \in Nat
  BY <1>6 DEF Item
<1>. HIDE DEF A, B, C, e
<1>8. /\ Bytes(A) = e.size + Bytes(C) /\ Bytes(B) = e.size + Bytes(Gone)
      /\ Bytes(Gone) \in Nat /\ Bytes(Scanned) \in Nat /\ Bytes(C) \in Nat
  BY <1>5, <1>6, BytesOfOne, BytesType
<1>. QED BY <1>2, <1>4, <1>7, <1>8 DEF A, B, C, e

\* Every step of the call keeps the account (src/rotation.c:326, 336-338).
LEMMA AccountStep ==
  ASSUME Kinds, Listed, Passed, Account, EnforceStep
  PROVE  Account'
<1>1. CASE Unlink
  <2>1. total' = total - files[i].size
    BY <1>1 DEF Unlink
  <2>2. /\ Scanned' = Scanned
        /\ Bytes(Scanned \ Gone) = files[i].size + Bytes(Scanned \ Gone')
        /\ Bytes(Gone') = files[i].size + Bytes(Gone)
        /\ files[i].size \in Nat /\ Bytes(Gone) \in Nat /\ Bytes(Scanned) \in Nat
        /\ Bytes(Scanned \ Gone') \in Nat
    BY <1>1, OneMoreGone
  <2>3. total = Bytes(Scanned \ Gone) /\ total = Bytes(Scanned) - Bytes(Gone)
    BY DEF Account
  <2>4. /\ Bytes(Scanned \ Gone)' = Bytes(Scanned \ Gone')
        /\ Bytes(Gone)' = Bytes(Gone')
        /\ Bytes(Scanned)' = Bytes(Scanned)
    BY <2>2
  <2>5. total' = Bytes(Scanned \ Gone')
    BY <2>1, <2>2, <2>3
  <2>6. total' = Bytes(Scanned) - Bytes(Gone')
    BY <2>1, <2>2, <2>3
  <2>. QED BY <2>4, <2>5, <2>6 DEF Account
<1>2. CASE Scan
  <2>1. CASE max_dir_bytes <= 0
    BY <1>2, <2>1 DEF Scan, Account, Scanned, Gone
  <2>2. CASE ~(max_dir_bytes <= 0)
    <3>1. files' = Sorted(Entries) /\ removed' = {} /\ total' = Bytes(Entries)
      BY <1>2, <2>2 DEF Scan, Listed
    <3>2. Scanned' = Entries
      BY <3>1, ScanLists
    <3>3. Gone' = {}
      BY <3>1 DEF Gone
    <3>4. Bytes(Entries) \in Nat
      BY EntriesAreItems, BytesType
    <3>5. Scanned' \ Gone' = Entries
      BY <3>2, <3>3
    <3>6. /\ total' = Bytes(Scanned' \ Gone')
          /\ total' = Bytes(Scanned') - Bytes(Gone')
      BY <3>1, <3>2, <3>3, <3>4, <3>5, BytesOfNone
    <3>. QED BY <3>6 DEF Account
  <2>. QED BY <2>1, <2>2
<1>3. CASE ScanFails \/ SkipCurrent \/ UnlinkFails \/ Finish
  BY <1>3 DEF ScanFails, SkipCurrent, UnlinkFails, Finish, Account, Scanned, Gone
<1>. QED BY <1>1, <1>2, <1>3 DEF EnforceStep
-----------------------------------------------------------------------------
(* The invariant and what it means.                                        *)

\* The invariant holds before the call.
LEMMA InitInv == Init => Inv
<1>. SUFFICES ASSUME Init PROVE Inv
  OBVIOUS
<1>. USE DEF Init
<1>1. TypeOK
  BY RetentionAssumption DEF TypeOK
<1>2. Scanned = {} /\ Gone = {}
  BY DEF Scanned, Gone
<1>3. Listed /\ Passed
  BY <1>2 DEF Listed, Passed, DistinctPaths
<1>4. Account
  BY <1>2, BytesOfNone DEF Account
<1>5. RemovesOnlyTheOldest /\ Guarded /\ Mirrored
  BY <1>2 DEF RemovesOnlyTheOldest, Guarded, Mirrored
<1>. QED BY <1>1, <1>3, <1>4, <1>5 DEF Inv

\* Every step keeps the types; that total stays a natural is the account.
LEMMA TypeStep ==
  ASSUME Inv, Next
  PROVE  TypeOK'
<1>. USE DEF TypeOK
<1>0. Len(files) \in Nat /\ TypeOK
  BY DEF Inv
<1>1. CASE Scan
  <2>1. CASE max_dir_bytes <= 0
    BY <1>0, <1>1, <2>1 DEF Scan
  <2>2. CASE ~(max_dir_bytes <= 0)
    <3>1. /\ files' = Sorted(Entries) /\ total' = Bytes(Entries)
          /\ i' = i /\ pc' = "trim"
          /\ UNCHANGED <<max_dir_bytes, current_file, dir, removed, refused,
                         changes>>
      BY <1>1, <2>2 DEF Scan
    <3>2. Kinds /\ Entries \in SUBSET Entry
      BY <1>0, TypedKinds
    <3>3. files' \in Seq(Entries)
      BY <3>1, <3>2, ScanLists
    <3>4. files' \in Seq(Entry) /\ Len(files') \in Nat
      BY <3>2, <3>3
    <3>5. i' = 1
      BY <1>1, <3>1 DEF Inv, Listed, Scan
    <3>6. total' \in Nat
      BY <3>1, <3>2, EntriesAreItems, BytesType
    <3>. QED BY <1>0, <3>1, <3>4, <3>5, <3>6
  <2>. QED BY <2>1, <2>2
<1>2. CASE ScanFails
  BY <1>0, <1>2 DEF ScanFails
<1>3. CASE SkipCurrent
  BY <1>0, <1>3 DEF SkipCurrent, MoreToTrim
<1>4. CASE Unlink
  <2>1. i \in 1..Len(files)
    BY <1>0, <1>4 DEF Unlink, MoreToTrim
  <2>2. files[i] \in Entry
    BY <1>0, <2>1
  <2>3. total' \in Nat
    <3>1. Account'
      BY <1>4, <1>0, TypedKinds, AccountStep DEF Inv, EnforceStep
    <3>2. Bytes(Scanned' \ Gone') \in Nat
      BY <1>0, <1>4, TypedKinds, OneMoreGone DEF Inv
    <3>. QED BY <3>1, <3>2 DEF Account
  <2>3a. removed' \in SUBSET File
    BY <1>0, <1>4, <2>2 DEF Unlink, Entry
  <2>4. dir' = Without(files[i].path)
    BY <1>4 DEF Unlink
  <2>5. DOMAIN dir' \in SUBSET File /\ dir' \in [DOMAIN dir' -> Stat]
    BY <1>0, <2>4 DEF Without
  <2>6. i' \in 1..Len(files') + 1
    BY <1>0, <1>4, <2>1 DEF Unlink
  <2>. QED BY <1>0, <1>4, <2>3, <2>3a, <2>5, <2>6 DEF Unlink
<1>5. CASE UnlinkFails
  <2>1. i \in 1..Len(files)
    BY <1>0, <1>5 DEF UnlinkFails, MoreToTrim
  <2>2. files[i] \in Entry
    BY <1>0, <2>1
  <2>3. refused' \in SUBSET File
    BY <1>0, <1>5, <2>2 DEF UnlinkFails, Entry
  <2>. QED BY <1>0, <1>5, <2>1, <2>3 DEF UnlinkFails
<1>6. CASE Finish
  BY <1>0, <1>6 DEF Finish
<1>7. CASE OthersChange
  <2>1. changes' \in 0..MaxChanges
    BY <1>0, <1>7, RetentionAssumption DEF OthersChange
  <2>2. DOMAIN dir' \in SUBSET File /\ dir' \in [DOMAIN dir' -> Stat]
    BY <1>0, <1>7 DEF OthersChange, Without
  <2>. QED BY <1>0, <1>7, <2>1, <2>2 DEF OthersChange
<1>. QED BY <1>1, <1>2, <1>3, <1>4, <1>5, <1>6, <1>7 DEF Next

\* Where the loop stands, whatever it removed is older than what is left.
LEMMA GoneIsOlder ==
  ASSUME Kinds, Listed, Passed, NEW k \in 1..Len(files), k >= i
  PROVE  {a \in OlderThan(files[k]) : a.path \in removed} = Gone
<1>1. ASSUME NEW a \in Gone
      PROVE  a \in OlderThan(files[k])
  <2>1. a \in Scanned /\ a.path \in removed
    BY DEF Gone
  <2>2. PICK j \in 1..i - 1 : files[j].path = a.path
    BY <2>1 DEF Passed
  <2>3. j \in 1..Len(files) /\ j < k
    BY DEF Kinds
  <2>4. files[j] = a
    BY <2>1, <2>2, <2>3 DEF Listed, DistinctPaths, Scanned
  <2>. QED BY <2>1, <2>3, <2>4 DEF Listed, OlderThan
<1>. QED BY <1>1 DEF OlderThan, Gone

\* A removal was right when it was made and stays right: what the loop removes
\* later is younger (src/rotation.c:331-339).
LEMMA RemovalStep ==
  ASSUME Inv, Next
  PROVE  RemovesOnlyTheOldest'
<1>0. Kinds /\ Listed /\ Passed /\ Account /\ Guarded /\ RemovesOnlyTheOldest
  BY TypedKinds DEF Inv
<1>1. CASE Unlink
  <2>1. /\ i \in 1..Len(files) /\ total > max_dir_bytes
        /\ files[i].path # current_file
        /\ removed' = removed \cup {files[i].path}
        /\ UNCHANGED <<max_dir_bytes, current_file, files>>
    BY <1>0, <1>1 DEF Kinds, Unlink, MoreToTrim
  <2>2. Scanned' = Scanned
    BY <2>1 DEF Scanned
  <2>3. ASSUME NEW j \in 1..i
        PROVE  {a \in OlderThan(files[j]) : a.path \in removed'}
                 = {a \in OlderThan(files[j]) : a.path \in removed}
    <3>1. ASSUME NEW a \in OlderThan(files[j])
          PROVE  a.path # files[i].path
      <4>1. PICK k \in 1..Len(files) : a = files[k]
        BY DEF OlderThan, Scanned
      <4>2. Older(files[k], files[j]) /\ j \in 1..Len(files)
        BY <4>1, <2>1, <1>0 DEF OlderThan, Kinds
      <4>3. k < j
        BY <1>0, <4>2 DEF Listed
      <4>4. a # files[i]
        <5>1. k < i
          BY <4>3, <2>1, <1>0 DEF Kinds
        <5>2. Older(files[k], files[i]) /\ ~Older(files[i], files[i])
          BY <5>1, <2>1, <1>0 DEF Listed, Kinds
        <5>. QED BY <4>1, <5>2
      <4>. QED BY <4>1, <4>4, <2>1, <1>0 DEF Listed, DistinctPaths, Scanned
    <3>. QED BY <3>1, <2>1
  <2>4. SUFFICES ASSUME NEW e \in Scanned, e.path \in removed'
                 PROVE  /\ e.path # current_file
                        /\ Bytes(Scanned)
                             - Bytes({a \in OlderThan(e) : a.path \in removed'})
                             > max_dir_bytes
    <3>1. \A e \in Scanned : OlderThan(e)' = OlderThan(e)
      BY <2>2 DEF OlderThan
    <3>. QED BY <2>1, <2>2, <3>1 DEF RemovesOnlyTheOldest, MustGo
  <2>5. CASE e.path \in removed
    <3>1. MustGo(e)
      BY <1>0, <2>5 DEF RemovesOnlyTheOldest
    <3>2. PICK j \in 1..i - 1 : files[j].path = e.path
      BY <1>0, <2>5 DEF Passed
    <3>3. j \in 1..Len(files) /\ j \in 1..i
      BY <1>0 DEF Kinds
    <3>4. files[j] = e
      BY <1>0, <3>2, <3>3 DEF Listed, DistinctPaths, Scanned
    <3>5. {a \in OlderThan(e) : a.path \in removed'}
            = {a \in OlderThan(e) : a.path \in removed}
      BY <2>3, <3>3, <3>4
    <3>. QED BY <3>1, <3>5 DEF MustGo
  <2>6. CASE e.path = files[i].path
    <3>1. e = files[i] /\ i \in 1..i
      BY <1>0, <2>1, <2>6 DEF Listed, DistinctPaths, Scanned, Kinds
    <3>2. {a \in OlderThan(e) : a.path \in removed'} = Gone
      <4>1. i >= i
        BY <2>1, <1>0 DEF Kinds
      <4>. QED BY <1>0, <2>1, <2>3, <3>1, <4>1, GoneIsOlder
    <3>. QED BY <1>0, <2>1, <2>6, <3>2 DEF Account
  <2>. QED BY <2>1, <2>4, <2>5, <2>6
<1>2. CASE Scan
  <2>1. removed' = {}
    BY <1>2, <1>0 DEF Scan, Listed
  <2>. QED BY <2>1 DEF RemovesOnlyTheOldest
<1>3. CASE ScanFails \/ SkipCurrent \/ UnlinkFails \/ Finish \/ OthersChange
  <2>1. UNCHANGED <<max_dir_bytes, current_file, files, removed>>
    BY <1>3 DEF ScanFails, SkipCurrent, UnlinkFails, Finish, OthersChange
  <2>2. Scanned' = Scanned
    BY <2>1 DEF Scanned
  <2>3. \A e : OlderThan(e)' = OlderThan(e)
    BY <2>2 DEF OlderThan
  <2>. QED BY <1>0, <2>1, <2>2, <2>3 DEF RemovesOnlyTheOldest, MustGo
<1>. QED BY <1>1, <1>2, <1>3 DEF Next

\* Every step keeps the rest of the invariant.
LEMMA MirrorStep ==
  ASSUME Inv, Next
  PROVE  Guarded' /\ Mirrored'
<1>0. Kinds /\ Listed /\ Passed /\ Guarded /\ Mirrored /\ changes \in Nat
  BY TypedKinds, RetentionAssumption DEF Inv, TypeOK
<1>1. Guarded'
  <2>1. max_dir_bytes \in Int
    BY RetentionAssumption DEF Inv, TypeOK
  <2>. QED
    BY <1>0, <2>1
    DEF Guarded, Next, Scan, ScanFails, SkipCurrent, Unlink, UnlinkFails, Finish,
        OthersChange, MoreToTrim
<1>2. ASSUME Scan
      PROVE  Mirrored'
  <2>1. CASE max_dir_bytes <= 0
    <3>1. max_dir_bytes \in Int
      BY RetentionAssumption DEF Inv, TypeOK
    <3>. QED BY <1>2, <2>1, <3>1 DEF Scan, Mirrored
  <2>2. CASE ~(max_dir_bytes <= 0)
    <3>1. files' = Sorted(Entries) /\ removed' = {} /\ dir' = dir
      BY <1>0, <1>2, <2>2 DEF Scan, Listed
    <3>2. Scanned' = Entries /\ Gone' = {} /\ Entries' = Entries
      BY <1>0, <3>1, ScanLists DEF Gone, Entries
    <3>. QED BY <3>2 DEF Mirrored
  <2>. QED BY <2>1, <2>2
<1>3. ASSUME Unlink
      PROVE  Mirrored'
  <2>1. /\ dir' = Without(files[i].path) /\ pc' = "trim" /\ pc = "trim"
        /\ UNCHANGED <<max_dir_bytes, changes>>
    BY <1>3 DEF Unlink
  <2>2. Gone' = Gone \cup {files[i]} /\ Scanned' = Scanned /\ files[i] \in Scanned
    BY <1>0, <1>3, OneMoreGone
  <2>3. Entries' = {e \in Entries : e.path # files[i].path}
    BY <2>1 DEF Entries, Without
  <2>. QED BY <1>0, <2>1, <2>2, <2>3 DEF Mirrored, Listed, DistinctPaths
<1>4. ASSUME OthersChange
      PROVE  Mirrored'
  <2>1. changes' # 0
    BY <1>0, <1>4 DEF OthersChange
  <2>. QED BY <2>1 DEF Mirrored
<1>5. ASSUME ScanFails \/ SkipCurrent \/ UnlinkFails \/ Finish
      PROVE  Mirrored'
  <2>1. /\ UNCHANGED <<max_dir_bytes, files, removed, dir, changes>>
        /\ pc' \in {"trim", "done"} => pc = "trim"
    BY <1>5 DEF ScanFails, SkipCurrent, UnlinkFails, Finish
  <2>2. Entries' = Entries /\ Scanned' = Scanned /\ Gone' = Gone
    BY <2>1 DEF Entries, Scanned, Gone
  <2>. QED BY <1>0, <2>1, <2>2 DEF Mirrored
<1>. QED BY <1>1, <1>2, <1>3, <1>4, <1>5 DEF Next

\* The invariant is inductive.
LEMMA InvStep == Inv /\ [Next]_vars => Inv'
<1>. SUFFICES ASSUME Inv, [Next]_vars PROVE Inv'
  OBVIOUS
<1>1. CASE Next
  <2>1. Kinds /\ Listed /\ Passed /\ Account
    BY TypedKinds DEF Inv
  <2>2. Listed' /\ Passed' /\ Account'
    <3>1. CASE EnforceStep
      BY <2>1, <3>1, ListStep, AccountStep
    <3>2. CASE OthersChange
      <4>1. UNCHANGED <<pc, current_file, files, total, i, removed, refused>>
        BY <3>2 DEF OthersChange
      <4>2. Scanned' = Scanned /\ Gone' = Gone
        BY <4>1 DEF Scanned, Gone
      <4>. QED BY <2>1, <4>1, <4>2 DEF Listed, Passed, Account
    <3>. QED BY <1>1, <3>1, <3>2 DEF Next, EnforceStep
  <2>. QED BY <1>1, <2>2, TypeStep, RemovalStep, MirrorStep DEF Inv
<1>2. CASE UNCHANGED vars
  <2>1. Scanned' = Scanned /\ Gone' = Gone /\ Entries' = Entries
    BY <1>2 DEF vars, Scanned, Gone, Entries
  <2>2. \A e : OlderThan(e)' = OlderThan(e)
    BY <2>1 DEF OlderThan
  <2>. QED BY <1>2, <2>1, <2>2 DEF vars, Inv, TypeOK, Listed, Passed, Account,
         RemovesOnlyTheOldest, MustGo, Guarded, Mirrored, MoreToTrim
<1>. QED BY <1>1, <1>2

\* At the end no file that must go was passed over: of a file the loop did not
\* reach, all that is gone is older, so that total is what MustGo counts.
LEMMA InvTrims == Inv => TrimsEnough
<1>. SUFFICES ASSUME Inv, pc = "done", max_dir_bytes > 0,
                     NEW e \in Scanned, MustGo(e)
     PROVE  e.path \in removed \cup refused
  BY DEF TrimsEnough
<1>1. Kinds /\ Listed /\ Passed /\ Account /\ ~MoreToTrim
  BY TypedKinds DEF Inv, Guarded
<1>2. PICK k \in 1..Len(files) : e = files[k]
  BY DEF Scanned
<1>3. CASE k < i
  <2>1. k \in 1..i - 1
    BY <1>1, <1>3 DEF Kinds
  <2>. QED BY <1>1, <1>2, <2>1 DEF Passed, MustGo
<1>4. CASE k >= i
  <2>1. total <= max_dir_bytes
    <3>1. total \in Nat /\ max_dir_bytes \in Int
      BY RetentionAssumption DEF Inv, TypeOK
    <3>. QED BY <1>1, <1>4, <3>1 DEF MoreToTrim, Kinds
  <2>2. {a \in OlderThan(e) : a.path \in removed} = Gone
    BY <1>1, <1>2, <1>4, GoneIsOlder
  <2>3. total > max_dir_bytes
    BY <1>1, <2>2 DEF MustGo, Account
  <2>4. total \in Nat /\ max_dir_bytes \in Int
      BY RetentionAssumption DEF Inv, TypeOK
  <2>. QED BY <2>1, <2>3, <2>4
<1>. QED BY <1>1, <1>3, <1>4 DEF Kinds

\* At the end an undisturbed directory fits, or every file was passed.
LEMMA InvFits == Inv => FitsOrNothingLeft
<1>. SUFFICES ASSUME Inv, pc = "done", max_dir_bytes > 0,
                     changes = 0, refused = {}, ~(Bytes(Entries) <= max_dir_bytes)
     PROVE  DOMAIN dir \in SUBSET {current_file}
  BY DEF FitsOrNothingLeft
<1>1. Kinds /\ Listed /\ Passed /\ Account /\ ~MoreToTrim
  BY TypedKinds DEF Inv, Guarded
<1>2. Entries = Scanned \ Gone
  BY DEF Inv, Mirrored
<1>3. i = Len(files) + 1
  <2>1. total = Bytes(Entries)
    BY <1>1, <1>2 DEF Account
  <2>2. total \in Nat /\ max_dir_bytes \in Int
      BY RetentionAssumption DEF Inv, TypeOK
  <2>. QED BY <1>1, <2>1, <2>2 DEF MoreToTrim, Kinds
<1>4. ASSUME NEW f \in DOMAIN dir
      PROVE  f = current_file
  <2>. DEFINE e == [path |-> f, size |-> dir[f].size, mtime |-> dir[f].mtime]
  <2>1. e \in Entries /\ e.path = f
    BY DEF Entries
  <2>2. e \in Scanned /\ e.path \notin removed
    BY <1>2, <2>1 DEF Gone
  <2>3. PICK k \in 1..Len(files) : e = files[k]
    BY <2>2 DEF Scanned
  <2>4. k \in 1..i - 1
    BY <1>3, <1>1 DEF Kinds
  <2>. QED BY <1>1, <2>1, <2>2, <2>3, <2>4 DEF Passed
<1>. QED BY <1>4

\* In every state of a call, with whatever others do to the directory meanwhile,
\* the list is sorted and the account right (src/rotation.c:292-341).
THEOREM InvHolds == Spec => []Inv
<1>. QED BY InitInv, InvStep, PTL DEF Spec

\* The variables stay within their types; in particular total never goes below
\* zero, although sizes are those of the scan (src/rotation.c:337).
THEOREM TypeCorrect == Spec => []TypeOK
<1>1. Inv => TypeOK
  BY DEF Inv
<1>. QED BY <1>1, InvHolds, PTL

\* The current file stays, and no file goes that fits after its elders went
\* (src/rotation.c:331-339).
THEOREM OnlyTheOldest == Spec => []RemovesOnlyTheOldest
<1>1. Inv => RemovesOnlyTheOldest
  BY DEF Inv
<1>. QED BY <1>1, InvHolds, PTL

\* When the call returns, every file that is to go went or was refused
\* (src/rotation.c:332-339).
THEOREM AllThatMustGo == Spec => []TrimsEnough
<1>. QED BY InvTrims, InvHolds, PTL

\* If nobody else touches the directory, the call ends with a directory that
\* fits, or with nothing left that may be removed (src/rotation.c:326, 332, 337).
THEOREM LimitOrNothing == Spec => []FitsOrNothingLeft
<1>. QED BY InvFits, InvHolds, PTL
=============================================================================
