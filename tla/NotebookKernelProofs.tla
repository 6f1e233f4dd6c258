------------------------ MODULE NotebookKernelProofs ------------------------
(***************************************************************************)
(* What the notebook extension sends, shows, saves and exports is the      *)
(* notebook's own, for any number of notebooks, cells, edits and runs,     *)
(* while no two notebooks are open at once.  First the lists of cells and  *)
(* the programs made of them, then the invariant, which holds action by    *)
(* action, then the theorems.                                              *)
(***************************************************************************)
EXTENDS NotebookKernel, FiniteSetTheorems, SequenceTheorems, TLAPS

-----------------------------------------------------------------------------
(* Lists with an element more or less. *)

LEMMA RemoveSeq ==
    ASSUME NEW S, NEW s \in Seq(S), NEW i \in 1..Len(s)
    PROVE  /\ RemoveAt(s, i) \in Seq(S)
           /\ Len(RemoveAt(s, i)) = Len(s) - 1
           /\ \A j \in 1..(Len(s) - 1) :
                 RemoveAt(s, i)[j] = IF j < i THEN s[j] ELSE s[j + 1]
<1>1. PICK n \in Nat : n = Len(s)
  BY LenProperties
<1>2. \A j \in 1..n : s[j] \in S
  BY <1>1, ElementOfSeq
<1> DEFINE a == SubSeq(s, 1, i - 1)
           b == SubSeq(s, i + 1, n)
<1>3. a \in Seq(S) /\ Len(a) = i - 1 /\ \A j \in 1..(i - 1) : a[j] = s[j]
  <2>1. \A j \in 1..(i - 1) : s[j] \in S
    BY <1>1, <1>2
  <2>2. /\ a \in Seq(S)
        /\ Len(a) = IF 1 <= i - 1 THEN (i - 1) - 1 + 1 ELSE 0
        /\ \A j \in 1..((i - 1) - 1 + 1) : a[j] = s[1 + j - 1]
    BY <2>1, <1>1, SubSeqProperties
  <2> QED
    BY <2>2, <1>1
<1>4. b \in Seq(S) /\ Len(b) = n - i /\ \A j \in 1..(n - i) : b[j] = s[i + j]
  <2>1. \A j \in (i + 1)..n : s[j] \in S
    BY <1>1, <1>2
  <2>2. /\ b \in Seq(S)
        /\ Len(b) = IF i + 1 <= n THEN n - (i + 1) + 1 ELSE 0
        /\ \A j \in 1..(n - (i + 1) + 1) : b[j] = s[(i + 1) + j - 1]
    BY <2>1, <1>1, SubSeqProperties
  <2> QED
    BY <2>2, <1>1
<1>5. RemoveAt(s, i) = a \o b
  BY <1>1 DEF RemoveAt
<1> HIDE DEF a, b
<1>6. /\ a \o b \in Seq(S) /\ Len(a \o b) = Len(a) + Len(b)
      /\ \A j \in 1..(Len(a) + Len(b)) :
            (a \o b)[j] = IF j <= Len(a) THEN a[j] ELSE b[j - Len(a)]
  BY <1>3, <1>4, ConcatProperties
<1>7. ASSUME NEW j \in 1..(n - 1)
      PROVE  (a \o b)[j] = IF j < i THEN s[j] ELSE s[j + 1]
  <2>1. i \in 1..n /\ (i - 1) + (n - i) = n - 1
    BY <1>1
  <2>2. (a \o b)[j] = IF j <= i - 1 THEN a[j] ELSE b[j - (i - 1)]
    BY <2>1, <1>3, <1>4, <1>6
  <2>3. CASE j < i
    <3>1. j <= i - 1 /\ j \in 1..(i - 1)
      BY <2>3, <2>1
    <3> QED
      BY <2>2, <2>3, <3>1, <1>3
  <2>4. CASE ~(j < i)
    <3>1. /\ ~(j <= i - 1) /\ j - (i - 1) \in 1..(n - i)
          /\ i + (j - (i - 1)) = j + 1
      BY <2>4, <2>1
    <3>2. b[j - (i - 1)] = s[j + 1]
      BY <3>1, <1>4
    <3> QED
      BY <2>2, <2>4, <3>1, <3>2
  <2> QED
    BY <2>3, <2>4
<1> QED
  BY <1>1, <1>3, <1>4, <1>5, <1>6, <1>7

LEMMA InsertSeq ==
    ASSUME NEW S, NEW s \in Seq(S), NEW i \in 0..Len(s), NEW e \in S
    PROVE  /\ InsertAt(s, i + 1, e) \in Seq(S)
           /\ Len(InsertAt(s, i + 1, e)) = Len(s) + 1
           /\ \A j \in 1..(Len(s) + 1) :
                 InsertAt(s, i + 1, e)[j] = IF j <= i THEN s[j]
                                            ELSE IF j = i + 1 THEN e ELSE s[j - 1]
<1>1. PICK n \in Nat : n = Len(s)
  BY LenProperties
<1>2. \A j \in 1..n : s[j] \in S
  BY <1>1, ElementOfSeq
<1> DEFINE a == SubSeq(s, 1, i)
           b == SubSeq(s, i + 1, n)
           x == <<e>>
<1>3. a \in Seq(S) /\ Len(a) = i /\ \A j \in 1..i : a[j] = s[j]
  <2>1. \A j \in 1..i : s[j] \in S
    BY <1>1, <1>2
  <2>2. /\ a \in Seq(S)
        /\ Len(a) = IF 1 <= i THEN i - 1 + 1 ELSE 0
        /\ \A j \in 1..(i - 1 + 1) : a[j] = s[1 + j - 1]
    BY <2>1, <1>1, SubSeqProperties
  <2> QED
    BY <2>2, <1>1
<1>4. b \in Seq(S) /\ Len(b) = n - i /\ \A j \in 1..(n - i) : b[j] = s[i + j]
  <2>1. \A j \in (i + 1)..n : s[j] \in S
    BY <1>1, <1>2
  <2>2. /\ b \in Seq(S)
        /\ Len(b) = IF i + 1 <= n THEN n - (i + 1) + 1 ELSE 0
        /\ \A j \in 1..(n - (i + 1) + 1) : b[j] = s[(i + 1) + j - 1]
    BY <2>1, <1>1, SubSeqProperties
  <2> QED
    BY <2>2, <1>1
<1>5. InsertAt(s, i + 1, e) = a \o x \o b
  <2>1. (i + 1) - 1 = i
    BY <1>1
  <2> QED
    BY <1>1, <2>1 DEF InsertAt
<1>6. x \in Seq(S) /\ Len(x) = 1 /\ x[1] = e
  OBVIOUS
<1> HIDE DEF a, b, x
<1>7. /\ a \o x \in Seq(S) /\ Len(a \o x) = i + 1
      /\ \A j \in 1..(i + 1) : (a \o x)[j] = IF j <= i THEN s[j] ELSE e
  <2>1. /\ a \o x \in Seq(S) /\ Len(a \o x) = Len(a) + Len(x)
        /\ \A j \in 1..(Len(a) + Len(x)) :
              (a \o x)[j] = IF j <= Len(a) THEN a[j] ELSE x[j - Len(a)]
    BY <1>3, <1>6, ConcatProperties
  <2>2. i \in 0..n
    BY <1>1
  <2>3. ASSUME NEW j \in 1..(i + 1) PROVE (a \o x)[j] = IF j <= i THEN s[j] ELSE e
    <3>1. (a \o x)[j] = IF j <= i THEN a[j] ELSE x[j - i]
      BY <2>1, <1>3, <1>6
    <3>2. CASE j <= i
      BY <3>1, <3>2, <2>2, <1>3
    <3>3. CASE ~(j <= i)
      <4>1. j - i = 1
        BY <3>3, <2>2
      <4> QED
        BY <3>1, <3>3, <4>1, <1>6
    <3> QED
      BY <3>2, <3>3
  <2> QED
    BY <2>1, <2>3, <1>3, <1>6
<1> DEFINE y == a \o x
<1> HIDE DEF y
<1>8. /\ y \in Seq(S) /\ Len(y) = i + 1
      /\ \A j \in 1..(i + 1) : y[j] = IF j <= i THEN s[j] ELSE e
  BY <1>7 DEF y
<1>9. /\ y \o b \in Seq(S) /\ Len(y \o b) = Len(y) + Len(b)
      /\ \A j \in 1..(Len(y) + Len(b)) :
            (y \o b)[j] = IF j <= Len(y) THEN y[j] ELSE b[j - Len(y)]
  BY <1>4, <1>8, ConcatProperties
<1>10. ASSUME NEW j \in 1..(n + 1)
       PROVE  (y \o b)[j] = IF j <= i THEN s[j] ELSE IF j = i + 1 THEN e ELSE s[j - 1]
  <2>1. i \in 0..n /\ (i + 1) + (n - i) = n + 1
    BY <1>1
  <2>2. (y \o b)[j] = IF j <= i + 1 THEN y[j] ELSE b[j - (i + 1)]
    BY <2>1, <1>4, <1>8, <1>9
  <2>3. CASE j <= i + 1
    <3>1. j \in 1..(i + 1) /\ (~(j <= i) => j = i + 1)
      BY <2>1, <2>3
    <3> QED
      BY <2>2, <2>3, <3>1, <1>8
  <2>4. CASE ~(j <= i + 1)
    <3>1. /\ j - (i + 1) \in 1..(n - i) /\ i + (j - (i + 1)) = j - 1
          /\ ~(j <= i) /\ j # i + 1
      BY <2>4, <2>1
    <3>2. b[j - (i + 1)] = s[j - 1]
      BY <3>1, <1>4
    <3> QED
      BY <2>2, <2>4, <3>1, <3>2
  <2> QED
    BY <2>3, <2>4
<1>11. InsertAt(s, i + 1, e) = y \o b
  BY <1>5 DEF y
<1>12. Len(y \o b) = n + 1
  BY <1>1, <1>4, <1>8, <1>9
<1>13. \A j \in 1..(n + 1) :
         (y \o b)[j] = IF j <= i THEN s[j] ELSE IF j = i + 1 THEN e ELSE s[j - 1]
  BY <1>10
<1> DEFINE z == y \o b
<1> HIDE DEF z
<1>14. /\ z \in Seq(S) /\ Len(z) = n + 1 /\ InsertAt(s, i + 1, e) = z
       /\ \A j \in 1..(n + 1) :
             z[j] = IF j <= i THEN s[j] ELSE IF j = i + 1 THEN e ELSE s[j - 1]
  BY <1>9, <1>11, <1>12, <1>13 DEF z
<1> QED
  BY <1>1, <1>14

-----------------------------------------------------------------------------
(* The numbers in a set, from the smallest to the greatest. *)

UpTo(S, i) == {j \in S : j <= i}

LEMMA BoundedFinite ==
    ASSUME NEW n \in Nat, NEW S \in SUBSET (1..n)
    PROVE  IsFiniteSet(S) /\ Cardinality(S) \in Nat
<1>1. IsFiniteSet(1..n)
  BY FS_Interval
<1>2. IsFiniteSet(S)
  BY <1>1, FS_Subset
<1> QED
  BY <1>2, FS_CardinalityType

LEMMA RankLemma ==
    ASSUME NEW n \in Nat, NEW S \in SUBSET (1..n)
    PROVE  /\ Cardinality(S) \in Nat
           /\ \A i \in S : Cardinality(UpTo(S, i)) \in 1..Cardinality(S)
           /\ \A i, j \in S : i < j => Cardinality(UpTo(S, i)) < Cardinality(UpTo(S, j))
<1>1. IsFiniteSet(S) /\ Cardinality(S) \in Nat
  BY BoundedFinite
<1>2. ASSUME NEW i \in S
      PROVE  /\ IsFiniteSet(UpTo(S, i)) /\ Cardinality(UpTo(S, i)) \in Nat
             /\ Cardinality(UpTo(S, i)) <= Cardinality(S)
             /\ Cardinality(UpTo(S, i)) # 0
  <2>1. UpTo(S, i) \in SUBSET S /\ i \in UpTo(S, i)
    BY DEF UpTo
  <2> QED
    BY <2>1, <1>1, FS_Subset, FS_CardinalityType, FS_EmptySet
<1>3. ASSUME NEW i \in S, NEW j \in S, i < j
      PROVE  Cardinality(UpTo(S, i)) < Cardinality(UpTo(S, j))
  <2>1. UpTo(S, i) \in SUBSET UpTo(S, j) /\ j \in UpTo(S, j) /\ j \notin UpTo(S, i)
    <3>1. i < j /\ j <= j /\ \A k \in S : k <= i => k <= j
      BY <1>3
    <3>2. ~(j <= i)
      BY <1>3
    <3> QED
      BY <3>1, <3>2 DEF UpTo
  <2>2. /\ Cardinality(UpTo(S, i)) <= Cardinality(UpTo(S, j))
        /\ Cardinality(UpTo(S, i)) # Cardinality(UpTo(S, j))
    BY <2>1, <1>2, FS_Subset
  <2> QED
    BY <2>2, <1>2
<1> QED
  BY <1>1, <1>2, <1>3

LEMMA NthLemma ==
    ASSUME NEW n \in Nat, NEW S \in SUBSET (1..n)
    PROVE  /\ Cardinality(S) \in Nat
           /\ \A k \in 1..Cardinality(S) : Nth(S, k) \in S
           /\ \A i \in S : \E k \in 1..Cardinality(S) : Nth(S, k) = i
           /\ \A k, l \in 1..Cardinality(S) : k < l => Nth(S, k) < Nth(S, l)
<1> DEFINE N == Cardinality(S)
           R == [i \in S |-> Cardinality(UpTo(S, i))]
<1>1. N \in Nat /\ IsFiniteSet(S)
  BY BoundedFinite
<1>2. R \in [S -> 1..N] /\ \A i, j \in S : i < j => R[i] < R[j]
  BY RankLemma
<1> HIDE DEF R
<1>3. R \in Injection(S, 1..N)
  <2>1. ASSUME NEW i \in S, NEW j \in S, R[i] = R[j] PROVE i = j
    <3>1. i \in 1..n /\ j \in 1..n /\ R[i] \in 1..N /\ R[j] \in 1..N
      BY <1>2
    <3>2. ~(R[i] < R[j]) /\ ~(R[j] < R[i])
      BY <2>1, <3>1, <1>1
    <3>3. ~(i < j) /\ ~(j < i)
      BY <3>2, <1>2
    <3> QED
      BY <3>1, <3>3
  <2> QED
    BY <1>2, <2>1 DEF Injection, IsInjective
<1>4. \A k \in 1..N : \E i \in S : R[i] = k
  <2>1. IsFiniteSet(1..N) /\ Cardinality(1..N) = N
    BY <1>1, FS_Interval
  <2>2. R \in Surjection(S, 1..N)
    BY <2>1, <1>3, FS_Injection
  <2> QED
    BY <2>2 DEF Surjection
<1>5. ASSUME NEW k \in 1..N PROVE Nth(S, k) \in S /\ R[Nth(S, k)] = k
  <2>1. \E i \in S : Cardinality({j \in S : j <= i}) = k
    BY <1>4 DEF R, UpTo
  <2>2. Nth(S, k) \in S /\ Cardinality({j \in S : j <= Nth(S, k)}) = k
    BY <2>1 DEF Nth
  <2> QED
    BY <2>2 DEF R, UpTo
<1>6. ASSUME NEW i \in S PROVE \E k \in 1..N : Nth(S, k) = i
  <2>1. R[i] \in 1..N
    BY <1>2
  <2>2. Nth(S, R[i]) \in S /\ R[Nth(S, R[i])] = R[i]
    BY <2>1, <1>5
  <2> QED
    BY <2>1, <2>2, <1>3 DEF Injection, IsInjective
<1>7. ASSUME NEW k \in 1..N, NEW l \in 1..N, k < l PROVE Nth(S, k) < Nth(S, l)
  <2> DEFINE i == Nth(S, k)
             j == Nth(S, l)
  <2>1. i \in S /\ j \in S /\ R[i] = k /\ R[j] = l
    BY <1>5
  <2> HIDE DEF i, j
  <2>2. ~(j < i) /\ j # i
    BY <2>1, <1>1, <1>2, <1>7
  <2>3. i \in 1..n /\ j \in 1..n
    BY <2>1
  <2>4. i < j
    BY <2>2, <2>3
  <2> QED
    BY <2>4 DEF i, j
<1> QED
  BY <1>1, <1>5, <1>6, <1>7

-----------------------------------------------------------------------------
(* The programs made of the cells of a notebook. *)

Distinct(s) == \A i, j \in 1..Len(s) : s[i] = s[j] => i = j

LEMMA IndexLemma ==
    ASSUME NEW nb \in Notebooks, cells \in [Notebooks -> Seq(Cells)]
    PROVE  /\ Len(cells[nb]) \in Nat
           /\ \A i \in 1..Len(cells[nb]) : cells[nb][i] \in ToSet(cells[nb])
           /\ \A c \in ToSet(cells[nb]) :
                 /\ c \in Cells
                 /\ Index(nb, c) \in 1..Len(cells[nb]) /\ cells[nb][Index(nb, c)] = c
           /\ Distinct(cells[nb]) =>
                 \A i \in 1..Len(cells[nb]) : Index(nb, cells[nb][i]) = i
<1>1. /\ Len(cells[nb]) \in Nat /\ DOMAIN cells[nb] = 1..Len(cells[nb])
      /\ \A i \in 1..Len(cells[nb]) : cells[nb][i] \in Cells
  BY ElementOfSeq, LenProperties
<1>2. ASSUME NEW c \in ToSet(cells[nb])
      PROVE  /\ c \in Cells
             /\ Index(nb, c) \in 1..Len(cells[nb]) /\ cells[nb][Index(nb, c)] = c
  <2>1. PICK i \in 1..Len(cells[nb]) : cells[nb][i] = c
    BY <1>1 DEF ToSet
  <2> QED
    BY <1>1, <2>1 DEF Index
<1>3. \A i \in 1..Len(cells[nb]) : cells[nb][i] \in ToSet(cells[nb])
  BY <1>1 DEF ToSet
<1>4. ASSUME Distinct(cells[nb]), NEW i \in 1..Len(cells[nb])
      PROVE  Index(nb, cells[nb][i]) = i
  BY <1>2, <1>3, <1>4 DEF Distinct
<1> QED
  BY <1>1, <1>2, <1>3, <1>4

\* The code among the first n cells, in order, as it reads.
LEMMA ProgramLemma ==
    ASSUME cells \in [Notebooks -> Seq(Cells)], text \in [Cells -> 0..MaxChanges],
           NEW nb \in Notebooks, Distinct(cells[nb]), NEW n \in 0..Len(cells[nb]),
           NEW places, places = {i \in CodePlaces(nb) : i <= n}
    PROVE  /\ Program(nb, places) \in Seq(Line)
           /\ IsCodeOf(Program(nb, places), nb, n)
           /\ n # 0 /\ cells[nb][n] \in Code =>
                 /\ Program(nb, places) # <<>>
                 /\ Last(Program(nb, places)) = [cell |-> cells[nb][n],
                                                 text |-> text[cells[nb][n]]]
<1>1. PICK m \in Nat : m = Len(cells[nb])
  BY IndexLemma
<1>2. /\ n \in 0..m
      /\ \A i \in 1..m : cells[nb][i] \in Cells /\ Index(nb, cells[nb][i]) = i
  BY <1>1, IndexLemma
<1>3. places = {i \in 1..m : cells[nb][i] \in Code /\ i <= n}
  BY <1>1 DEF CodePlaces
<1> DEFINE N == Cardinality(places)
           P == Program(nb, places)
           at(k) == Nth(places, k)
<1>4. /\ N \in Nat
      /\ \A k \in 1..N : at(k) \in places
      /\ \A i \in places : \E k \in 1..N : at(k) = i
      /\ \A k, l \in 1..N : k < l => at(k) < at(l)
  <2>1. places \in SUBSET (1..m)
    BY <1>3
  <2> QED
    BY <2>1, NthLemma, ZenonT(40)
<1>5. P = [k \in 1..N |-> [cell |-> cells[nb][at(k)], text |-> text[cells[nb][at(k)]]]]
  BY DEF Program
<1> HIDE DEF N, P, at
<1>6. ASSUME NEW k \in 1..N
      PROVE  /\ at(k) \in 1..m /\ at(k) <= n /\ cells[nb][at(k)] \in Code
             /\ P[k] = [cell |-> cells[nb][at(k)], text |-> text[cells[nb][at(k)]]]
             /\ P[k].cell = cells[nb][at(k)] /\ P[k] \in Line
             /\ Index(nb, P[k].cell) = at(k)
  <2>1. at(k) \in 1..m /\ at(k) <= n /\ cells[nb][at(k)] \in Code
    BY <1>3, <1>4
  <2>2. P[k] = [cell |-> cells[nb][at(k)], text |-> text[cells[nb][at(k)]]]
    BY <1>5
  <2>3. P[k].cell = cells[nb][at(k)]
    BY <2>2
  <2>4. P[k] \in Line
    BY <2>1, <2>2, <1>2 DEF Line
  <2>5. Index(nb, cells[nb][at(k)]) = at(k)
    BY <2>1, <1>2
  <2> QED
    BY <2>1, <2>2, <2>3, <2>4, <2>5
<1>7. P \in Seq(Line) /\ Len(P) = N
  <2>1. P \in [1..N -> Line]
    BY <1>5, <1>6
  <2> QED
    BY <2>1, <1>4
<1>8. IsCodeOf(P, nb, n)
  <2>1. {P[k].cell : k \in 1..Len(P)} = {cells[nb][i] : i \in 1..n} \cap Code
    <3>1. ASSUME NEW k \in 1..N PROVE P[k].cell \in {cells[nb][i] : i \in 1..n} \cap Code
      <4>1. PICK i \in 1..m : i = at(k)
        BY <1>6
      <4>2. i <= n /\ P[k].cell = cells[nb][i] /\ cells[nb][i] \in Code
        BY <4>1, <1>6
      <4>3. i \in 1..n
        BY <4>2, <1>2
      <4> QED
        BY <4>2, <4>3
    <3>2. ASSUME NEW i \in 1..n, cells[nb][i] \in Code
          PROVE  \E k \in 1..N : P[k].cell = cells[nb][i]
      <4>1. i \in places
        BY <3>2, <1>2, <1>3
      <4>2. PICK k \in 1..N : at(k) = i
        BY <4>1, <1>4
      <4> QED
        BY <4>2, <1>6
    <3>3. \A k \in 1..N : P[k].cell \in {cells[nb][i] : i \in 1..n} \cap Code
      BY <3>1
    <3>4. \A i \in 1..n : cells[nb][i] \in Code => \E k \in 1..N : P[k].cell = cells[nb][i]
      BY <3>2
    <3> DEFINE sent == {P[k].cell : k \in 1..N}
               code == {cells[nb][i] : i \in 1..n} \cap Code
    <3>5. sent \subseteq code
      BY <3>3
    <3>6. ASSUME NEW x \in code PROVE x \in sent
      <4>1. PICK i \in 1..n : x = cells[nb][i] /\ cells[nb][i] \in Code
        BY <3>6
      <4>2. PICK k \in 1..N : P[k].cell = x
        BY <3>4, <4>1
      <4> QED
        BY <4>2
    <3>7. sent = code
      BY <3>5, <3>6
    <3> QED
      BY <3>7, <1>7
  <2>2. \A k \in 1..Len(P) : P[k].text = text[P[k].cell]
    BY SMTT(30), <1>6, <1>7
  <2>3. ASSUME NEW k \in 1..Len(P), NEW l \in 1..Len(P), k < l
        PROVE  Index(nb, P[k].cell) < Index(nb, P[l].cell)
    <3>1. at(k) < at(l)
      BY <2>3, <1>4, <1>7
    <3>2. Index(nb, P[k].cell) = at(k) /\ Index(nb, P[l].cell) = at(l)
      BY <1>2, <1>6, <1>7
    <3> QED
      BY <3>1, <3>2
  <2> QED
    BY <2>1, <2>2, <2>3 DEF IsCodeOf
<1>9. ASSUME n # 0, cells[nb][n] \in Code
      PROVE  P # <<>> /\ Last(P) = [cell |-> cells[nb][n], text |-> text[cells[nb][n]]]
  <2>1. n \in places
    BY SMTT(30), <1>9, <1>2, <1>3
  <2>2. PICK k \in 1..N : at(k) = n
    BY <2>1, <1>4
  <2>3. N \in 1..N
    BY <1>4, <2>2
  <2>4. ~(k < N)
    <3>1. SUFFICES ASSUME k < N PROVE FALSE
      OBVIOUS
    <3>2. at(k) < at(N) /\ at(N) <= n /\ at(N) \in 1..m
      BY <3>1, <2>3, <1>4, <1>6
    <3> QED
      BY <3>2, <2>2, <1>2
  <2>5. k = N
    BY <2>3, <2>4, <1>4
  <2>6. P[N] = [cell |-> cells[nb][n], text |-> text[cells[nb][n]]]
    BY <2>2, <2>5, <1>6
  <2>7. P # <<>>
    BY <2>3, <1>7
  <2> QED
    BY <2>6, <2>7, <1>7 DEF Last
<1> QED
  BY <1>7, <1>8, <1>9 DEF P

\* The code sent to execute a cell of the notebook.
LEMMA SentLemma ==
    ASSUME cells \in [Notebooks -> Seq(Cells)], text \in [Cells -> 0..MaxChanges],
           NEW nb \in Notebooks, Distinct(cells[nb]), NEW c \in Code, c \in ToSet(cells[nb]),
           NEW p, p = AllCellContent(nb, Index(nb, c))
    PROVE  /\ p \in Seq(Line) /\ IsCodeOf(p, nb, Index(nb, c))
           /\ p # <<>> /\ Last(p).cell = c /\ Last(p).text = text[c]
<1> DEFINE n == Index(nb, c)
           places == {i \in CodePlaces(nb) : i <= n}
<1>1. /\ n \in 1..Len(cells[nb]) /\ cells[nb][n] = c
      /\ Len(cells[nb]) \in Nat
  BY IndexLemma
<1> HIDE DEF n
<1>2. {i \in CodePlaces(nb) : \A j \in CodePlaces(nb) : j < i => j < n} = places
  <2>1. n \in CodePlaces(nb) /\ CodePlaces(nb) \subseteq 1..Len(cells[nb])
    BY <1>1 DEF CodePlaces
  <2>2. ASSUME NEW i \in CodePlaces(nb), \A j \in CodePlaces(nb) : j < i => j < n
        PROVE  i <= n
    BY <2>1, <2>2, <1>1
  <2>3. ASSUME NEW i \in CodePlaces(nb), i <= n, NEW j \in CodePlaces(nb), j < i
        PROVE  j < n
    BY <2>1, <2>3, <1>1
  <2> QED
    BY <2>2, <2>3
<1>3. p = Program(nb, places)
  BY <1>2 DEF AllCellContent, n
<1>4. n \in 0..Len(cells[nb]) /\ n # 0
  BY <1>1
<1> HIDE DEF places
<1>5. /\ p \in Seq(Line) /\ IsCodeOf(p, nb, n)
      /\ p # <<>> /\ Last(p) = [cell |-> c, text |-> text[c]]
  <2>1. places = {i \in CodePlaces(nb) : i <= n}
    BY DEF places
  <2> QED
    BY <2>1, <1>1, <1>3, <1>4, ProgramLemma
<1> QED
  BY <1>5 DEF n

-----------------------------------------------------------------------------
(* The invariant.  At most one notebook is open, and only an open one has  *)
(* cells, its own, each once.  A file holds what its notebook showed.      *)
(* Whatever is to be answered, or was, under a cell ends with that cell in *)
(* a text it has or had.                                                   *)

OneOpen == Len(notebookDocuments) <= 1

OwnCells ==
    \A nb \in Notebooks :
        /\ nb \notin Opened => cells[nb] = <<>>
        /\ \A i \in 1..Len(cells[nb]) : Home[cells[nb][i]] = nb
        /\ Distinct(cells[nb])

Texts ==
    /\ \A c \in Cells : text[c] <= changes
    /\ \A nb \in Notebooks : \A i \in 1..Len(displayed[nb]) : displayed[nb][i].text <= changes

Files ==
    \A nb \in Notebooks :
        /\ file[nb] = displayed[nb] \/ (file[nb] = Unreadable /\ displayed[nb] = <<>>)
        /\ \A i \in 1..Len(displayed[nb]) : Home[displayed[nb][i].cell] = nb
        /\ \A i, j \in 1..Len(displayed[nb]) :
              displayed[nb][i].cell = displayed[nb][j].cell => i = j

\* The program p ends with the cell, in a text no later than now.
EndsWith(p, c, now) == p # <<>> /\ Last(p).cell = c /\ Last(p).text <= now

ShownOutputs == \A c \in Code : outputs[c] # None => EndsWith(outputs[c].of, c, text[c])

SavedOutputs ==
    \A nb \in Notebooks : \A i \in 1..Len(displayed[nb]) :
        LET r == displayed[nb][i] IN
        r.cell \in Code /\ r.output # None => EndsWith(r.output.of, r.cell, r.text)

Requested ==
    \A c \in Cells : request[c] # None =>
        /\ c \in Code /\ request[c].editor = Home[c]
        /\ EndsWith(request[c].program, c, text[c])

\* An edit is for the place after the cell, or for the top if the cell was gone.
Edits ==
    \A c \in Cells : edit[c] # None =>
        /\ c \in Code /\ edit[c].editor = Home[c]
        /\ EndsWith(edit[c].program, c, text[c])
        /\ \/ edit[c].at = 0 /\ c \notin ToSet(edit[c].over)
           \/ edit[c].at \in 1..Len(edit[c].over) /\ edit[c].over[edit[c].at] = c

KernelInv ==
    /\ TypeOK /\ OneOpen /\ OwnCells /\ Texts /\ Files
    /\ ShownOutputs /\ SavedOutputs /\ Requested /\ Edits

LEMMA OpenedLemma ==
    ASSUME TypeOK, OneOpen
    PROVE  /\ \A nb \in Opened : /\ nb \in Notebooks /\ Opened = {nb}
                                 /\ Len(notebookDocuments) = 1 /\ notebookDocuments[1] = nb
           /\ notebookDocuments # <<>> => notebookDocuments[1] \in Opened
<1>1. PICK n \in Nat : n = Len(notebookDocuments)
  BY LenProperties DEF TypeOK
<1>2. n <= 1 /\ DOMAIN notebookDocuments = 1..n
  BY <1>1, LenProperties DEF TypeOK, OneOpen
<1>3. Opened = {notebookDocuments[i] : i \in 1..n}
  BY <1>2 DEF Opened, ToSet
<1>4. CASE n = 0
  <2>1. Opened = {}
    BY <1>3, <1>4
  <2>2. notebookDocuments = <<>>
    BY <1>1, <1>4, EmptySeq DEF TypeOK
  <2> QED
    BY <2>1, <2>2
<1>5. CASE n = 1
  <2>1. 1..n = {1}
    BY <1>5
  <2>2. Opened = {notebookDocuments[1]}
    BY <1>3, <2>1
  <2>3. notebookDocuments[1] \in Notebooks
    <3>1. 1 \in 1..Len(notebookDocuments) /\ notebookDocuments \in Seq(Notebooks)
      BY <1>1, <1>5 DEF TypeOK
    <3> QED
      BY <3>1, ElementOfSeq
  <2> QED
    BY <1>1, <1>5, <2>2, <2>3
<1> QED
  BY <1>2, <1>4, <1>5

LEMMA InitKernel ==
    Init => KernelInv
<1> SUFFICES ASSUME Init PROVE KernelInv
  OBVIOUS
<1> DEFINE shown(nb) == [i \in 1..Len(Contents[nb]) |->
                           [cell |-> Contents[nb][i], text |-> 0, output |-> None]]
<1>1. ASSUME NEW nb \in Notebooks
      PROVE  /\ Len(Contents[nb]) \in Nat
             /\ \A i \in 1..Len(Contents[nb]) :
                   Contents[nb][i] \in Cells /\ Home[Contents[nb][i]] = nb
             /\ \A i, j \in 1..Len(Contents[nb]) : Contents[nb][i] = Contents[nb][j] => i = j
             /\ nb \in New => Contents[nb] = <<>>
  <2> DEFINE own == {c \in Cells : Home[c] = nb}
  <2>1. Contents[nb] \in Seq(own)
    BY NotebookAssumption
  <2> HIDE DEF own
  <2>2. Len(Contents[nb]) \in Nat /\ \A i \in 1..Len(Contents[nb]) : Contents[nb][i] \in own
    BY <2>1, LenProperties, ElementOfSeq
  <2> QED
    BY <2>2, NotebookAssumption DEF own
<1>2. ASSUME NEW nb \in Notebooks
      PROVE  /\ displayed[nb] \in Seq(Raw) /\ Len(displayed[nb]) = Len(Contents[nb])
             /\ \A i \in 1..Len(displayed[nb]) :
                   /\ displayed[nb][i].cell = Contents[nb][i]
                   /\ displayed[nb][i].text = 0 /\ displayed[nb][i].output = None
  <2>1. displayed[nb] = shown(nb)
    BY DEF Init
  <2>2. PICK m \in Nat : m = Len(Contents[nb])
    BY <1>1
  <2>3. \A i \in 1..m : [cell |-> Contents[nb][i], text |-> 0, output |-> None] \in Raw
    BY <1>1, <2>2, NotebookAssumption DEF Raw
  <2>4. displayed[nb] \in [1..m -> Raw]
    BY <2>1, <2>2, <2>3
  <2>5. displayed[nb] \in Seq(Raw) /\ Len(displayed[nb]) = m
    BY <2>4
  <2> QED
    BY <2>1, <2>2, <2>5
<1>3. TypeOK
  <2>1. file \in [Notebooks -> Seq(Raw) \cup {Unreadable}] /\ displayed \in [Notebooks -> Seq(Raw)]
    BY <1>2 DEF Init
  <2> QED
    BY <2>1, NotebookAssumption DEF Init, TypeOK
<1>4. OneOpen /\ OwnCells
  BY DEF Init, OneOpen, OwnCells, Distinct
<1>5. Texts
  BY <1>2 DEF Init, Texts
<1>6. Files
  <2>1. ASSUME NEW nb \in Notebooks, nb \in New PROVE displayed[nb] = <<>>
    <3>1. Len(Contents[nb]) = 0
      BY <2>1, <1>1, EmptySeq
    <3> QED
      BY <3>1, <1>2, EmptySeq
  <2>2. ASSUME NEW nb \in Notebooks
        PROVE  \A i, j \in 1..Len(displayed[nb]) :
                   displayed[nb][i].cell = displayed[nb][j].cell => i = j
    <3>1. \A i \in 1..Len(displayed[nb]) : displayed[nb][i].cell = Contents[nb][i]
      BY <1>2
    <3>2. Len(displayed[nb]) = Len(Contents[nb])
      BY <1>2
    <3> QED
      BY <3>1, <3>2, <1>1
  <2>3. ASSUME NEW nb \in Notebooks
        PROVE  \A i \in 1..Len(displayed[nb]) : Home[displayed[nb][i].cell] = nb
    <3>1. \A i \in 1..Len(displayed[nb]) : displayed[nb][i].cell = Contents[nb][i]
      BY <1>2
    <3>2. Len(displayed[nb]) = Len(Contents[nb])
      BY <1>2
    <3> QED
      BY <3>1, <3>2, <1>1
  <2>4. ASSUME NEW nb \in Notebooks
        PROVE  file[nb] = displayed[nb] \/ (file[nb] = Unreadable /\ displayed[nb] = <<>>)
    BY <2>1 DEF Init
  <2> QED
    BY <2>2, <2>3, <2>4 DEF Files
<1>7. ShownOutputs /\ Requested /\ Edits
  BY NotebookAssumption DEF Init, ShownOutputs, Requested, Edits
<1>8. SavedOutputs
  <2>1. \A nb \in Notebooks : \A i \in 1..Len(displayed[nb]) : displayed[nb][i].output = None
    BY <1>2
  <2> QED
    BY <2>1 DEF SavedOutputs
<1> QED
  BY <1>3, <1>4, <1>5, <1>6, <1>7, <1>8 DEF KernelInv

-----------------------------------------------------------------------------
(* The invariant, action by action. *)

LEMMA SameFiles ==
    ASSUME KernelInv, UNCHANGED saved
    PROVE  /\ Files' /\ SavedOutputs'
           /\ file' \in [Notebooks -> Seq(Raw) \cup {Unreadable}]
           /\ displayed' \in [Notebooks -> Seq(Raw)]
  BY DEF KernelInv, TypeOK, saved, Files, SavedOutputs

LEMMA SameLists ==
    ASSUME KernelInv, UNCHANGED <<notebookDocuments, cells>>
    PROVE  OneOpen' /\ OwnCells'
  BY DEF KernelInv, OneOpen, OwnCells, Distinct, Opened

LEMMA SameTexts ==
    ASSUME KernelInv, UNCHANGED <<text, changes, displayed>>
    PROVE  Texts'
  BY DEF KernelInv, Texts

LEMMA SameAnswers ==
    ASSUME KernelInv, UNCHANGED <<text, outputs, request, edit>>
    PROVE  ShownOutputs' /\ Requested' /\ Edits'
  BY DEF KernelInv, ShownOutputs, Requested, Edits

LEMMA SameAll ==
    ASSUME KernelInv,
           UNCHANGED <<notebookDocuments, documents, execution, saved, changes>>,
           extension' \in {"inactive", "starting", "ready"},
           activeNotebookEditor' \in Opened \cup {NoNotebook},
           exporting' \in Seq(Line) \cup {None}
    PROVE  KernelInv'
<1>1. /\ UNCHANGED <<notebookDocuments, cells>> /\ UNCHANGED <<text, outputs, request, edit>>
      /\ UNCHANGED <<text, changes, displayed>>
  BY DEF documents, execution, saved
<1>2. TypeOK'
  <2>1. TypeOK
    BY DEF KernelInv
  <2>2. Opened' = Opened
    BY DEF Opened
  <2> QED
    BY <2>1, <2>2, SameFiles DEF TypeOK, documents, execution
<1> QED
  BY <1>1, <1>2, SameFiles, SameLists, SameTexts, SameAnswers DEF KernelInv

LEMMA ServerStopsKeeps ==
    ASSUME KernelInv, ServerStops
    PROVE  KernelInv'
<1>1. /\ UNCHANGED <<notebookDocuments, cells, text, changes, outputs, edit>> /\ UNCHANGED saved
      /\ UNCHANGED <<activeNotebookEditor, executing, executionOrder, exporting>>
  BY DEF ServerStops, editors, documents, saved
<1>2. ASSUME NEW c \in Cells
      PROVE  /\ request'[c] = None <=> request[c] = None \/ request'[c] = None
             /\ request'[c] \in Request \cup {None}
             /\ request'[c] # None =>
                   /\ request[c] # None /\ request'[c].program = request[c].program
                   /\ request'[c].editor = request[c].editor
  <2>1. CASE request[c] = None
    BY <2>1 DEF ServerStops
  <2>2. CASE request[c] # None
    <3>1. PICK r \in Request : r = request[c]
      BY <2>2 DEF KernelInv, TypeOK
    <3>2. request'[c] = [r EXCEPT !.served = FALSE]
      BY <2>2, <3>1 DEF ServerStops
    <3>3. /\ request'[c] \in Request /\ request'[c].program = r.program
          /\ request'[c].editor = r.editor
      BY <3>1, <3>2 DEF Request
    <3> QED
      BY <2>2, <3>1, <3>3
  <2> QED
    BY <2>1, <2>2
<1>3. TypeOK'
  <2>1. request' \in [Cells -> Request \cup {None}]
    BY <1>2 DEF ServerStops
  <2>2. Opened' = Opened
    BY <1>1 DEF Opened
  <2>3. TypeOK
    BY DEF KernelInv
  <2> QED
    BY <1>1, <2>1, <2>2, <2>3, SameFiles DEF TypeOK, ServerStops
<1>4. Requested'
  BY <1>1, <1>2 DEF KernelInv, Requested
<1>5. ShownOutputs' /\ Edits'
  BY <1>1 DEF KernelInv, ShownOutputs, Edits
<1>6. Texts'
  BY <1>1, SameTexts DEF saved
<1> QED
  BY <1>1, <1>3, <1>4, <1>5, <1>6, SameFiles, SameLists DEF KernelInv

\* One cell more or less in the list of an open notebook.
LEMMA InsertLemma ==
    ASSUME KernelInv, NEW nb \in Opened, NEW c \in Cells, Home[c] = nb,
           c \notin ToSet(cells[nb]), NEW i \in 0..Len(cells[nb]), Insert(nb, c, i),
           UNCHANGED notebookDocuments
    PROVE  /\ cells' \in [Notebooks -> Seq(Cells)] /\ OwnCells'
           /\ text' \in [Cells -> 0..MaxChanges] /\ text'[c] = 0
           /\ \A d \in Cells : d # c => text'[d] = text[d]
           /\ nb \in Notebooks /\ Len(cells'[nb]) = Len(cells[nb]) + 1
           /\ \A j \in 1..i : cells'[nb][j] = cells[nb][j]
           /\ cells'[nb][i + 1] = c
<1>1. nb \in Notebooks /\ Opened = {nb}
  BY OpenedLemma DEF KernelInv
<1>2. /\ cells \in [Notebooks -> Seq(Cells)] /\ text \in [Cells -> 0..MaxChanges]
      /\ cells[nb] \in Seq(Cells)
  BY <1>1 DEF KernelInv, TypeOK
<1>3. PICK n \in Nat : n = Len(cells[nb])
  BY <1>2, LenProperties
<1>0. PICK s \in Seq(Cells) : s = cells[nb]
  BY <1>2
<1> DEFINE z == InsertAt(s, i + 1, c)
<1>4. /\ z \in Seq(Cells) /\ Len(z) = n + 1 /\ i \in 0..n
      /\ \A j \in 1..(n + 1) : z[j] = IF j <= i THEN s[j] ELSE IF j = i + 1 THEN c ELSE s[j - 1]
  <2>0. i \in 0..Len(s)
    BY <1>0
  <2>1. /\ z \in Seq(Cells) /\ Len(z) = Len(s) + 1
        /\ \A j \in 1..(Len(s) + 1) :
              z[j] = IF j <= i THEN s[j] ELSE IF j = i + 1 THEN c ELSE s[j - 1]
    BY <2>0, InsertSeq
  <2> HIDE DEF z
  <2> QED
    BY <2>0, <2>1, <1>3, <1>0
<1>5. cells' = [cells EXCEPT ![nb] = z] /\ text' = [text EXCEPT ![c] = 0]
  BY <1>0 DEF Insert
<1> HIDE DEF z
<1>6. /\ cells' \in [Notebooks -> Seq(Cells)] /\ cells'[nb] = z
      /\ \A b \in Notebooks : b # nb => cells'[b] = cells[b]
  BY <1>1, <1>2, <1>4, <1>5
<1>7. \A j \in 1..n : s[j] # c /\ Home[s[j]] = nb
  BY SMTT(30), <1>1, <1>2, <1>3, <1>0, IndexLemma DEF KernelInv, OwnCells
<1>8. \A j, k \in 1..n : s[j] = s[k] => j = k
  BY <1>1, <1>3, <1>0 DEF KernelInv, OwnCells, Distinct
<1>9. \A j \in 1..(n + 1) : Home[z[j]] = nb
  <2> TAKE j \in 1..(n + 1)
  <2>1. j <= i => j \in 1..n
    BY <1>4
  <2>2. j > i + 1 => j - 1 \in 1..n
    BY <1>4
  <2>3. j <= i \/ j = i + 1 \/ j > i + 1
    BY <1>4
  <2>4. j > i + 1 => ~(j <= i) /\ j # i + 1
    BY <1>4
  <2> QED
    BY <2>1, <2>2, <2>3, <2>4, <1>4, <1>7
<1>10. \A j, k \in 1..(n + 1) : z[j] = z[k] => j = k
  <2>1. ASSUME NEW j \in 1..(n + 1)
        PROVE  \/ j \in 1..i /\ j \in 1..n /\ z[j] = s[j]
               \/ j = i + 1 /\ z[j] = c
               \/ j \in (i + 2)..(n + 1) /\ j - 1 \in 1..n /\ z[j] = s[j - 1]
    <3>1. CASE j <= i
      BY <3>1, <1>4
    <3>2. CASE j = i + 1
      BY <3>2, <1>4
    <3>3. CASE j > i + 1
      BY <3>3, <1>4
    <3> QED
      BY <3>1, <3>2, <3>3, <1>4
  <2>2. SUFFICES ASSUME NEW j \in 1..(n + 1), NEW k \in 1..(n + 1), z[j] = z[k]
                 PROVE  j = k
    OBVIOUS
  <2>3. ASSUME NEW p \in 1..(n + 1), NEW q \in 1..(n + 1), z[p] = z[q], p < q
        PROVE  FALSE
    <3>1. CASE q \in 1..i /\ q \in 1..n /\ z[q] = s[q]
      <4>1. p \in 1..i /\ p \in 1..n /\ z[p] = s[p]
        BY <2>1, <2>3, <3>1, <1>4
      <4>2. s[p] = s[q]
        BY <4>1, <2>3, <3>1
      <4>3. p = q
        BY <4>1, <4>2, <3>1, <1>8
      <4> QED
        BY <4>3, <2>3
    <3>2. CASE q = i + 1 /\ z[q] = c
      <4>1. p \in 1..i
        BY <2>3, <3>2, <1>4
      <4>2. p \in 1..n /\ z[p] = s[p]
        BY <2>1, <4>1, <1>4
      <4> QED
        BY <4>2, <2>3, <3>2, <1>7
    <3>3. CASE q \in (i + 2)..(n + 1) /\ q - 1 \in 1..n /\ z[q] = s[q - 1]
      <4>1. CASE p \in 1..i /\ p \in 1..n /\ z[p] = s[p]
        <5>1. p = q - 1
          BY <4>1, <2>3, <3>3, <1>8
        <5> QED
          BY <4>1, <5>1, <3>3, <1>4
      <4>2. CASE p = i + 1 /\ z[p] = c
        BY <4>2, <2>3, <3>3, <1>7
      <4>3. CASE p \in (i + 2)..(n + 1) /\ p - 1 \in 1..n /\ z[p] = s[p - 1]
        <5>1. p - 1 = q - 1
          BY <4>3, <2>3, <3>3, <1>8
        <5> QED
          BY <4>3, <5>1, <2>3
      <4> QED
        BY <2>1, <4>1, <4>2, <4>3
    <3> QED
      BY <2>1, <3>1, <3>2, <3>3
  <2>4. ~(j < k) /\ ~(k < j)
    BY <2>2, <2>3
  <2> QED
    BY <2>4, <1>3
<1>11. OwnCells'
  <2> SUFFICES ASSUME NEW b \in Notebooks
               PROVE  /\ b \notin Opened' => cells'[b] = <<>>
                      /\ \A j \in 1..Len(cells'[b]) : Home[cells'[b][j]] = b
                      /\ Distinct(cells'[b])
    BY DEF OwnCells, Distinct
  <2>1. Opened' = {nb}
    BY <1>1 DEF Opened
  <2>2. CASE b = nb
    BY <2>1, <2>2, <1>4, <1>6, <1>9, <1>10 DEF Distinct
  <2>3. CASE b # nb
    BY <2>1, <2>3, <1>1, <1>6 DEF KernelInv, OwnCells
  <2> QED
    BY <2>2, <2>3
<1>12. /\ text' \in [Cells -> 0..MaxChanges] /\ text'[c] = 0
       /\ \A d \in Cells : d # c => text'[d] = text[d]
  BY <1>2, <1>5, NotebookAssumption
<1>13. (\A j \in 1..i : z[j] = s[j]) /\ z[i + 1] = c
  BY <1>4
<1> QED
  BY <1>1, <1>3, <1>0, <1>4, <1>6, <1>11, <1>12, <1>13

\* A text it has or had stays one.
LEMMA EndsLater ==
    ASSUME NEW p \in Seq(Line), NEW c, NEW now \in Nat, NEW later \in Nat,
           EndsWith(p, c, now), now <= later
    PROVE  EndsWith(p, c, later)
<1>1. Len(p) \in 1..Len(p)
  BY EmptySeq DEF EndsWith
<1>2. Last(p) \in Line
  BY <1>1, ElementOfSeq DEF Last
<1>3. Last(p).text \in Nat
  BY <1>2, NotebookAssumption DEF Line
<1> QED
  BY <1>3 DEF EndsWith

LEMMA LaterAnswers ==
    ASSUME KernelInv, UNCHANGED <<outputs, request, edit>>,
           \A c \in Code : text'[c] \in Nat /\ text[c] <= text'[c]
    PROVE  ShownOutputs' /\ Requested' /\ Edits'
<1>1. ASSUME NEW c \in Code PROVE c \in Cells /\ text[c] \in Nat
  BY NotebookAssumption DEF KernelInv, TypeOK
<1>2. ASSUME NEW p \in Seq(Line), NEW c \in Code, EndsWith(p, c, text[c])
      PROVE  EndsWith(p, c, text'[c])
  <2>1. PICK now \in Nat : now = text[c]
    BY <1>1
  <2>2. PICK later \in Nat : later = text'[c]
    OBVIOUS
  <2> QED
    BY <1>2, <2>1, <2>2, EndsLater
<1>3. ASSUME NEW c \in Code, outputs[c] # None PROVE outputs[c].of \in Seq(Line)
  BY <1>1, <1>3 DEF KernelInv, TypeOK, Output
<1>4. ASSUME NEW c \in Cells, request[c] # None PROVE request[c].program \in Seq(Line)
  BY <1>4 DEF KernelInv, TypeOK, Request
<1>5. ASSUME NEW c \in Cells, edit[c] # None PROVE edit[c].program \in Seq(Line)
  BY <1>5 DEF KernelInv, TypeOK, CellEdit
<1>6. ShownOutputs'
  BY <1>2, <1>3 DEF KernelInv, ShownOutputs
<1>7. Requested'
  BY <1>2, <1>4 DEF KernelInv, Requested
<1>8. Edits'
  BY <1>2, <1>5 DEF KernelInv, Edits
<1> QED
  BY <1>6, <1>7, <1>8

LEMMA LaterTexts ==
    ASSUME KernelInv, UNCHANGED displayed, changes' \in Nat, changes <= changes',
           \A c \in Cells : text'[c] <= changes'
    PROVE  Texts'
<1>1. ASSUME NEW nb \in Notebooks, NEW i \in 1..Len(displayed[nb])
      PROVE  displayed[nb][i].text \in Nat
  <2>1. displayed[nb][i] \in Raw
    BY ElementOfSeq DEF KernelInv, TypeOK
  <2> QED
    BY <2>1, NotebookAssumption DEF Raw
<1>2. changes \in Nat
  BY NotebookAssumption DEF KernelInv, TypeOK
<1> QED
  BY <1>1, <1>2 DEF KernelInv, Texts

LEMMA EditCellKeeps ==
    ASSUME KernelInv, NEW c \in Cells, EditCell(c)
    PROVE  KernelInv'
<1>1. /\ UNCHANGED <<notebookDocuments, cells>> /\ UNCHANGED <<outputs, request, edit>>
      /\ UNCHANGED saved /\ UNCHANGED displayed
      /\ UNCHANGED <<extension, activeNotebookEditor, executing, executionOrder, exporting>>
  BY DEF EditCell, editors, execution, saved
<1>2. /\ changes \in 0..MaxChanges /\ changes < MaxChanges /\ changes' = changes + 1
      /\ MaxChanges \in Nat
      /\ \A d \in Cells : text[d] \in Nat /\ text[d] <= changes
      /\ text \in [Cells -> 0..MaxChanges] /\ text' = [text EXCEPT ![c] = @ + 1]
  BY NotebookAssumption DEF EditCell, Change, KernelInv, TypeOK, Texts
<1>3. \A d \in Cells : text'[d] \in 0..MaxChanges /\ text'[d] <= changes' /\ text[d] <= text'[d]
  BY <1>2
<1>4. TypeOK'
  <2>1. text' \in [Cells -> 0..MaxChanges] /\ changes' \in 0..MaxChanges
    BY <1>2, <1>3
  <2>2. Opened' = Opened
    BY <1>1 DEF Opened
  <2>3. TypeOK
    BY DEF KernelInv
  <2> QED
    BY <1>1, <2>1, <2>2, <2>3, SameFiles DEF TypeOK
<1>5. Texts'
  BY <1>1, <1>2, <1>3, LaterTexts
<1>6. ShownOutputs' /\ Requested' /\ Edits'
  BY <1>1, <1>3, NotebookAssumption, LaterAnswers
<1> QED
  BY <1>1, <1>4, <1>5, <1>6, SameFiles, SameLists DEF KernelInv

LEMMA DeleteCellKeeps ==
    ASSUME KernelInv, NEW c \in Cells, DeleteCell(c)
    PROVE  KernelInv'
<1> DEFINE nb == Home[c]
<1>1. /\ UNCHANGED notebookDocuments /\ UNCHANGED <<text, outputs, request, edit>>
      /\ UNCHANGED saved /\ UNCHANGED displayed
      /\ UNCHANGED <<extension, activeNotebookEditor, executionOrder, exporting>>
  BY DEF DeleteCell, editors, execution, saved
<1>2. /\ nb \in Notebooks /\ cells \in [Notebooks -> Seq(Cells)]
      /\ cells[nb] \in Seq(Cells) /\ c \in ToSet(cells[nb])
  BY NotebookAssumption DEF DeleteCell, Here, KernelInv, TypeOK
<1> HIDE DEF nb
<1>3. PICK s \in Seq(Cells) : s = cells[nb]
  BY <1>2
<1>4. PICK i \in 1..Len(s) : i = Index(nb, c)
  BY <1>2, <1>3, IndexLemma
<1> DEFINE z == RemoveAt(s, i)
<1>5. /\ z \in Seq(Cells) /\ Len(z) = Len(s) - 1
      /\ \A j \in 1..(Len(s) - 1) : z[j] = IF j < i THEN s[j] ELSE s[j + 1]
  BY RemoveSeq
<1>6. cells' = [cells EXCEPT ![nb] = z]
  BY <1>3, <1>4 DEF DeleteCell, nb
<1> HIDE DEF z
<1>7. PICK n \in Nat : n = Len(s)
  BY LenProperties
<1>8. /\ Len(z) = n - 1 /\ i \in 1..n
      /\ \A j \in 1..(n - 1) : z[j] = IF j < i THEN s[j] ELSE s[j + 1]
  BY <1>5, <1>7
<1>9. /\ \A j \in 1..n : Home[s[j]] = nb
      /\ \A j, k \in 1..n : s[j] = s[k] => j = k
  BY <1>2, <1>3, <1>7 DEF KernelInv, OwnCells, Distinct
<1>10. \A j \in 1..(n - 1) : Home[z[j]] = nb
  <2> TAKE j \in 1..(n - 1)
  <2>1. j \in 1..n /\ j + 1 \in 1..n
    BY <1>8
  <2> QED
    BY <2>1, <1>8, <1>9
<1>11. \A j, k \in 1..(n - 1) : z[j] = z[k] => j = k
  <2>1. ASSUME NEW j \in 1..(n - 1)
        PROVE  \/ j < i /\ j \in 1..n /\ z[j] = s[j]
               \/ ~(j < i) /\ j + 1 \in 1..n /\ z[j] = s[j + 1]
    BY <1>8
  <2>2. SUFFICES ASSUME NEW j \in 1..(n - 1), NEW k \in 1..(n - 1), z[j] = z[k]
                 PROVE  j = k
    OBVIOUS
  <2>3. CASE j < i /\ k < i
    BY <2>1, <2>2, <2>3, <1>9
  <2>4. CASE ~(j < i) /\ ~(k < i)
    <3>1. s[j + 1] = s[k + 1] /\ j + 1 \in 1..n /\ k + 1 \in 1..n
      BY <2>1, <2>2, <2>4
    <3>2. j + 1 = k + 1
      BY <3>1, <1>9
    <3> QED
      BY <3>2
  <2>5. CASE j < i /\ ~(k < i)
    <3>1. s[j] = s[k + 1] /\ j \in 1..n /\ k + 1 \in 1..n
      BY <2>1, <2>2, <2>5
    <3>2. j = k + 1
      BY <3>1, <1>9
    <3> QED
      BY <3>2, <2>5, <1>8
  <2>6. CASE ~(j < i) /\ k < i
    <3>1. s[j + 1] = s[k] /\ j + 1 \in 1..n /\ k \in 1..n
      BY <2>1, <2>2, <2>6
    <3>2. j + 1 = k
      BY <3>1, <1>9
    <3> QED
      BY <3>2, <2>6, <1>8
  <2> QED
    BY <2>3, <2>4, <2>5, <2>6
<1>12. Opened' = Opened
  BY <1>1 DEF Opened
<1>13. nb \in Opened
  <2>1. s # <<>>
    BY <1>7, <1>8, EmptySeq
  <2> QED
    BY <2>1, <1>2, <1>3 DEF KernelInv, OwnCells
<1>14. OwnCells'
  <2> SUFFICES ASSUME NEW b \in Notebooks
               PROVE  /\ b \notin Opened' => cells'[b] = <<>>
                      /\ \A j \in 1..Len(cells'[b]) : Home[cells'[b][j]] = b
                      /\ Distinct(cells'[b])
    BY DEF OwnCells, Distinct
  <2>1. CASE b = nb
    BY <2>1, <1>2, <1>6, <1>8, <1>10, <1>11, <1>12, <1>13 DEF Distinct
  <2>2. CASE b # nb
    BY <2>2, <1>2, <1>6, <1>12 DEF KernelInv, OwnCells
  <2> QED
    BY <2>1, <2>2
<1>15. OneOpen'
  BY <1>1 DEF KernelInv, OneOpen
<1>16. changes' \in 0..MaxChanges /\ changes \in Nat /\ changes <= changes'
  BY SMTT(30), NotebookAssumption DEF DeleteCell, Change, KernelInv, TypeOK
<1>17. TypeOK'
  <2>1. cells' \in [Notebooks -> Seq(Cells)]
    BY <1>2, <1>5, <1>6
  <2>2. executing' \subseteq Code
    BY DEF DeleteCell, KernelInv, TypeOK
  <2>3. TypeOK
    BY DEF KernelInv
  <2> QED
    BY <1>1, <1>12, <1>16, <2>1, <2>2, <2>3, SameFiles DEF TypeOK
<1>18. Texts'
  <2>1. \A d \in Cells : text[d] \in Nat /\ text[d] <= changes
    BY NotebookAssumption DEF KernelInv, TypeOK, Texts
  <2>2. \A d \in Cells : text'[d] <= changes'
    BY <2>1, <1>1, <1>16
  <2> QED
    BY <2>2, <1>1, <1>16, LaterTexts
<1> QED
  BY <1>1, <1>14, <1>15, <1>17, <1>18, SameFiles, SameAnswers DEF KernelInv

LEMMA InsertCellKeeps ==
    ASSUME KernelInv, NEW c \in Cells, NEW i \in 0..Len(cells[Home[c]]), InsertCell(c, i)
    PROVE  KernelInv'
<1> DEFINE nb == Home[c]
<1>1. /\ UNCHANGED notebookDocuments /\ UNCHANGED <<request, edit>>
      /\ UNCHANGED saved /\ UNCHANGED displayed
      /\ UNCHANGED <<extension, activeNotebookEditor, executing, executionOrder, exporting>>
  BY DEF InsertCell, editors, execution, saved
<1>2. /\ nb \in Opened /\ c \notin ToSet(cells[nb]) /\ Insert(nb, c, i)
      /\ request[c] = None /\ edit[c] = None
      /\ outputs' = [outputs EXCEPT ![c] = None]
  BY DEF InsertCell, Here
<1>3. /\ cells' \in [Notebooks -> Seq(Cells)] /\ OwnCells'
      /\ text' \in [Cells -> 0..MaxChanges] /\ text'[c] = 0
      /\ \A d \in Cells : d # c => text'[d] = text[d]
  BY <1>1, <1>2, InsertLemma
<1>4. OneOpen'
  BY <1>1 DEF KernelInv, OneOpen
<1>5. changes' \in 0..MaxChanges /\ changes \in Nat /\ changes <= changes'
  BY NotebookAssumption DEF InsertCell, Change, KernelInv, TypeOK
<1>6. outputs' \in [Cells -> Output \cup {None}] /\ outputs'[c] = None
      /\ \A d \in Cells : d # c => outputs'[d] = outputs[d]
  BY <1>2 DEF KernelInv, TypeOK
<1>7. TypeOK'
  <2>1. Opened' = Opened
    BY <1>1 DEF Opened
  <2>2. TypeOK
    BY DEF KernelInv
  <2> QED
    BY <1>1, <1>3, <1>5, <1>6, <2>1, <2>2, SameFiles DEF TypeOK
<1>8. Texts'
  <2>1. \A d \in Cells : text[d] \in Nat /\ text[d] <= changes
    BY NotebookAssumption DEF KernelInv, TypeOK, Texts
  <2>2. \A d \in Cells : text'[d] <= changes'
    BY <2>1, <1>3, <1>5
  <2> QED
    BY <2>2, <1>1, <1>5, LaterTexts
<1>9. ShownOutputs'
  BY <1>3, <1>6, NotebookAssumption DEF KernelInv, ShownOutputs
<1>10. Requested' /\ Edits'
  BY <1>1, <1>2, <1>3 DEF KernelInv, Requested, Edits
<1> QED
  BY <1>1, <1>3, <1>4, <1>7, <1>8, <1>9, <1>10, SameFiles DEF KernelInv

\* What is read from a file is what its notebook showed.
LEMMA DeserializeLemma ==
    ASSUME KernelInv, NEW nb \in Notebooks, Deserialize(nb)
    PROVE  /\ cells' \in [Notebooks -> Seq(Cells)]
           /\ text' \in [Cells -> 0..MaxChanges]
           /\ outputs' \in [Cells -> Output \cup {None}]
           /\ Len(displayed[nb]) \in Nat /\ Len(cells'[nb]) = Len(displayed[nb])
           /\ \A i \in 1..Len(displayed[nb]) :
                 LET c == displayed[nb][i].cell IN
                 /\ cells'[nb][i] = c /\ c \in Cells
                 /\ displayed[nb][i] = [cell |-> c, text |-> text'[c], output |-> outputs'[c]]
           /\ \A b \in Notebooks : b # nb => cells'[b] = cells[b]
           /\ \A c \in Cells :
                 \/ \E i \in 1..Len(displayed[nb]) : displayed[nb][i].cell = c
                 \/ text'[c] = text[c] /\ outputs'[c] = outputs[c]
<1>1. PICK raw \in Seq(Raw) : raw = displayed[nb]
  BY DEF KernelInv, TypeOK
<1>2. raw = IF file[nb] = Unreadable THEN <<>> ELSE file[nb]
  <2>1. displayed[nb] # Unreadable
    BY <1>1, UnreadableAssumption
  <2> QED
    BY <2>1, <1>1 DEF KernelInv, Files
<1>3. PICK n \in Nat : n = Len(raw)
  BY LenProperties
<1>4. /\ \A i \in 1..n : raw[i] \in Raw
      /\ \A i, j \in 1..n : raw[i].cell = raw[j].cell => i = j
  BY <1>1, <1>3, ElementOfSeq DEF KernelInv, Files
<1> DEFINE At(c) == CHOOSE i \in 1..n : raw[i].cell = c
           In(c) == \E i \in 1..n : raw[i].cell = c
<1>5. /\ cells' = [cells EXCEPT ![nb] = [i \in 1..n |-> raw[i].cell]]
      /\ text' = [c \in Cells |-> IF In(c) THEN raw[At(c)].text ELSE text[c]]
      /\ outputs' = [c \in Cells |-> IF In(c) THEN raw[At(c)].output ELSE outputs[c]]
  BY <1>2, <1>3 DEF Deserialize
<1>6. \A c \in Cells : In(c) => At(c) \in 1..n /\ raw[At(c)].cell = c
  OBVIOUS
<1> HIDE DEF At
<1>7. ASSUME NEW i \in 1..n
      PROVE  /\ raw[i] \in Raw /\ raw[i].cell \in Cells /\ raw[i].text \in 0..MaxChanges
             /\ raw[i].output \in Output \cup {None}
             /\ raw[i] = [cell |-> raw[i].cell, text |-> raw[i].text, output |-> raw[i].output]
             /\ At(raw[i].cell) = i
  <2>1. /\ raw[i] \in Raw /\ raw[i].cell \in Cells /\ raw[i].text \in 0..MaxChanges
        /\ raw[i].output \in Output \cup {None}
        /\ raw[i] = [cell |-> raw[i].cell, text |-> raw[i].text, output |-> raw[i].output]
    BY <1>4 DEF Raw
  <2> QED
    BY <2>1, <1>4, <1>6
<1>8. [i \in 1..n |-> raw[i].cell] \in Seq(Cells) /\ Len([i \in 1..n |-> raw[i].cell]) = n
  <2>1. [i \in 1..n |-> raw[i].cell] \in [1..n -> Cells]
    BY <1>7
  <2> QED
    BY <2>1
<1>9. /\ cells' \in [Notebooks -> Seq(Cells)] /\ Len(cells'[nb]) = n
      /\ \A i \in 1..n : cells'[nb][i] = raw[i].cell
      /\ \A b \in Notebooks : b # nb => cells'[b] = cells[b]
  BY <1>5, <1>8 DEF KernelInv, TypeOK
<1>10. text' \in [Cells -> 0..MaxChanges] /\ outputs' \in [Cells -> Output \cup {None}]
  <2>1. ASSUME NEW c \in Cells
        PROVE  text'[c] \in 0..MaxChanges /\ outputs'[c] \in Output \cup {None}
    <3>1. CASE In(c)
      BY <3>1, <1>5, <1>6, <1>7
    <3>2. CASE ~In(c)
      BY <3>2, <1>5 DEF KernelInv, TypeOK
    <3> QED
      BY <3>1, <3>2
  <2> QED
    BY <2>1, <1>5
<1>11. ASSUME NEW i \in 1..n
       PROVE  text'[raw[i].cell] = raw[i].text /\ outputs'[raw[i].cell] = raw[i].output
  <2>1. In(raw[i].cell)
    OBVIOUS
  <2> QED
    BY <2>1, <1>5, <1>7
<1>12. \A c \in Cells : In(c) \/ (text'[c] = text[c] /\ outputs'[c] = outputs[c])
  BY <1>5
<1>13. ASSUME NEW i \in 1..n
       PROVE  LET c == raw[i].cell IN
              /\ cells'[nb][i] = c /\ c \in Cells
              /\ raw[i] = [cell |-> c, text |-> text'[c], output |-> outputs'[c]]
  BY <1>7, <1>9, <1>11
<1> QED
  BY <1>1, <1>3, <1>9, <1>10, <1>12, <1>13

LEMMA OpenNotebookKeeps ==
    ASSUME MaxOpen = 1, KernelInv, NEW nb \in Notebooks, OpenNotebook(nb)
    PROVE  KernelInv'
<1>1. /\ UNCHANGED <<extension, executing, executionOrder, request, edit, exporting, changes>>
      /\ UNCHANGED saved /\ UNCHANGED displayed
      /\ notebookDocuments' = Append(notebookDocuments, nb) /\ activeNotebookEditor' = nb
      /\ Deserialize(nb)
      /\ \A c \in Cells : Home[c] = nb => request[c] = None /\ edit[c] = None
  BY DEF OpenNotebook, execution, saved
<1>2. notebookDocuments = <<>>
  <2>1. Len(notebookDocuments) < 1 /\ Len(notebookDocuments) \in Nat
    BY LenProperties DEF OpenNotebook, KernelInv, TypeOK
  <2>2. notebookDocuments \in Seq(Notebooks)
    BY DEF KernelInv, TypeOK
  <2> QED
    BY <2>1, <2>2, EmptySeq
<1>3. /\ notebookDocuments' \in Seq(Notebooks) /\ Len(notebookDocuments') = 1
      /\ Opened' = {nb} /\ Opened = {}
  <2>1. notebookDocuments' = <<nb>>
    BY <1>1, <1>2
  <2>2. ToSet(<<nb>>) = {nb} /\ ToSet(<<>>) = {}
    BY DEF ToSet
  <2> QED
    BY <2>1, <2>2, <1>2 DEF Opened
<1>4. PICK n \in Nat : n = Len(displayed[nb])
  BY <1>1, DeserializeLemma
<1>5. /\ cells' \in [Notebooks -> Seq(Cells)] /\ Len(cells'[nb]) = n
      /\ text' \in [Cells -> 0..MaxChanges]
      /\ outputs' \in [Cells -> Output \cup {None}]
      /\ \A b \in Notebooks : b # nb => cells'[b] = cells[b]
  BY <1>1, <1>4, DeserializeLemma
<1>6. ASSUME NEW i \in 1..n
      PROVE  LET c == displayed[nb][i].cell IN
             /\ cells'[nb][i] = c /\ c \in Cells /\ Home[c] = nb
             /\ displayed[nb][i].text = text'[c] /\ displayed[nb][i].output = outputs'[c]
  <2> DEFINE c == displayed[nb][i].cell
  <2>1. /\ cells'[nb][i] = c /\ c \in Cells
        /\ displayed[nb][i] = [cell |-> c, text |-> text'[c], output |-> outputs'[c]]
    BY <1>1, <1>4, DeserializeLemma
  <2>2. Home[c] = nb
    BY <1>4 DEF KernelInv, Files
  <2> HIDE DEF c
  <2>3. displayed[nb][i].text = text'[c] /\ displayed[nb][i].output = outputs'[c]
    BY <2>1
  <2> QED
    BY <2>1, <2>2, <2>3 DEF c
<1>7. \A c \in Cells : \/ \E i \in 1..n : displayed[nb][i].cell = c
                       \/ text'[c] = text[c] /\ outputs'[c] = outputs[c]
  BY <1>1, <1>4, DeserializeLemma
<1>8. TypeOK'
  <2>1. TypeOK
    BY DEF KernelInv
  <2> QED
    BY <2>1, <1>1, <1>3, <1>5, SameFiles DEF TypeOK
<1>9. OneOpen'
  BY <1>3 DEF OneOpen
<1>10. OwnCells'
  <2>1. ASSUME NEW i \in 1..n PROVE Home[cells'[nb][i]] = nb
    BY <1>6
  <2>2. ASSUME NEW i \in 1..n, NEW j \in 1..n, cells'[nb][i] = cells'[nb][j] PROVE i = j
    <3>1. displayed[nb][i].cell = displayed[nb][j].cell
      BY <2>2, <1>6
    <3> QED
      BY <3>1, <1>4 DEF KernelInv, Files
  <2> SUFFICES ASSUME NEW b \in Notebooks
               PROVE  /\ b \notin Opened' => cells'[b] = <<>>
                      /\ \A j \in 1..Len(cells'[b]) : Home[cells'[b][j]] = b
                      /\ Distinct(cells'[b])
    BY DEF OwnCells, Distinct
  <2>3. CASE b = nb
    BY <2>1, <2>2, <2>3, <1>3, <1>5 DEF Distinct
  <2>4. CASE b # nb
    BY SMTT(30), <2>4, <1>3, <1>5 DEF KernelInv, OwnCells
  <2> QED
    BY <2>3, <2>4
<1>11. Texts'
  <2>1. ASSUME NEW c \in Cells PROVE text'[c] <= changes
    <3>1. CASE \E i \in 1..n : displayed[nb][i].cell = c
      <4>1. PICK i \in 1..n : displayed[nb][i].cell = c
        BY <3>1
      <4>2. displayed[nb][i].text <= changes
        BY <1>4 DEF KernelInv, Texts
      <4> QED
        BY <4>1, <4>2, <1>6
    <3>2. CASE text'[c] = text[c]
      BY <3>2 DEF KernelInv, Texts
    <3> QED
      BY <3>1, <3>2, <1>7
  <2> QED
    BY <2>1, <1>1 DEF KernelInv, Texts
<1>12. ShownOutputs'
  <2> SUFFICES ASSUME NEW c \in Code, outputs'[c] # None
               PROVE  EndsWith(outputs'[c].of, c, text'[c])
    BY DEF ShownOutputs
  <2>1. c \in Cells
    BY NotebookAssumption
  <2>2. CASE \E i \in 1..n : displayed[nb][i].cell = c
    <3>1. PICK i \in 1..n : displayed[nb][i].cell = c
      BY <2>2
    <3>2. displayed[nb][i].text = text'[c] /\ displayed[nb][i].output = outputs'[c]
      BY <3>1, <1>6
    <3>3. EndsWith(displayed[nb][i].output.of, displayed[nb][i].cell, displayed[nb][i].text)
      BY <3>1, <3>2, <1>4 DEF KernelInv, SavedOutputs
    <3> QED
      BY <3>1, <3>2, <3>3
  <2>3. CASE text'[c] = text[c] /\ outputs'[c] = outputs[c]
    BY <2>3 DEF KernelInv, ShownOutputs
  <2> QED
    BY <2>1, <2>2, <2>3, <1>7
<1>13. ASSUME NEW c \in Cells, request[c] # None \/ edit[c] # None PROVE text'[c] = text[c]
  <2>1. Home[c] # nb
    BY <1>1, <1>13
  <2> QED
    BY <2>1, <1>6, <1>7
<1>14. Requested' /\ Edits'
  BY <1>1, <1>13 DEF KernelInv, Requested, Edits
<1> QED
  BY <1>1, <1>8, <1>9, <1>10, <1>11, <1>12, <1>14, SameFiles DEF KernelInv

LEMMA CloseNotebookKeeps ==
    ASSUME KernelInv, NEW nb \in Notebooks, CloseNotebook(nb)
    PROVE  KernelInv'
<1> DEFINE Gone(pending, c) == Home[c] = nb /\ pending[c] # None /\ pending[c].editor = nb
<1>1. /\ UNCHANGED <<extension, executionOrder, exporting, changes>>
      /\ UNCHANGED saved /\ UNCHANGED displayed
      /\ nb \in Opened /\ executing' \subseteq executing
      /\ activeNotebookEditor' \in (Opened \ {nb}) \cup {NoNotebook}
      /\ request' = [c \in Cells |-> IF Gone(request, c) THEN None ELSE request[c]]
      /\ edit' = [c \in Cells |-> IF Gone(edit, c) THEN None ELSE edit[c]]
      /\ cells' = [cells EXCEPT ![nb] = <<>>]
      /\ text' = [c \in Cells |-> IF Home[c] = nb THEN 0 ELSE text[c]]
      /\ outputs' = [c \in Cells |-> IF Home[c] = nb THEN None ELSE outputs[c]]
  BY DEF CloseNotebook, saved
<1>2. Opened = {nb} /\ Len(notebookDocuments) = 1 /\ notebookDocuments[1] = nb
  BY <1>1, OpenedLemma DEF KernelInv
<1>3. notebookDocuments' \in Seq(Notebooks) /\ Len(notebookDocuments') = 0
  <2>1. PICK i \in 1..Len(notebookDocuments) : notebookDocuments' = RemoveAt(notebookDocuments, i)
    BY DEF CloseNotebook
  <2>2. PICK s \in Seq(Notebooks) : s = notebookDocuments
    BY DEF KernelInv, TypeOK
  <2>3. i \in 1..Len(s)
    BY <2>2
  <2>4. RemoveAt(s, i) \in Seq(Notebooks) /\ Len(RemoveAt(s, i)) = Len(s) - 1
    BY <2>3, RemoveSeq
  <2> QED
    BY <2>1, <2>2, <2>4, <1>2
<1>4. Opened' = {} /\ activeNotebookEditor' = NoNotebook
  <2>1. notebookDocuments' = <<>>
    BY <1>3, EmptySeq
  <2>2. ToSet(<<>>) = {}
    BY DEF ToSet
  <2> QED
    BY <2>1, <2>2, <1>1, <1>2 DEF Opened
<1>5. /\ cells' \in [Notebooks -> Seq(Cells)]
      /\ \A b \in Notebooks : cells'[b] = <<>>
  BY <1>1, <1>2 DEF KernelInv, TypeOK, OwnCells
<1>6. \A c \in Cells : /\ request'[c] # None => request'[c] = request[c]
                       /\ edit'[c] # None => edit'[c] = edit[c]
  BY <1>1
<1>7. \A c \in Cells : request'[c] # None \/ edit'[c] # None => Home[c] # nb
  BY <1>1 DEF KernelInv, Requested, Edits
<1>8. \A c \in Cells : Home[c] # nb => text'[c] = text[c]
  BY <1>1
<1>9. TypeOK'
  <2>1. TypeOK
    BY DEF KernelInv
  <2>2. request' \in [Cells -> Request \cup {None}] /\ edit' \in [Cells -> CellEdit \cup {None}]
    BY <2>1, <1>1 DEF TypeOK
  <2>3. text' \in [Cells -> 0..MaxChanges] /\ outputs' \in [Cells -> Output \cup {None}]
    BY <2>1, <1>1, NotebookAssumption DEF TypeOK
  <2> QED
    BY <2>1, <2>2, <2>3, <1>1, <1>3, <1>4, <1>5, SameFiles DEF TypeOK
<1>10. OneOpen' /\ OwnCells'
  BY <1>3, <1>5 DEF OneOpen, OwnCells, Distinct
<1>11. Texts'
  <2>1. changes \in Nat /\ \A c \in Cells : text'[c] <= changes
    BY <1>1, NotebookAssumption DEF KernelInv, TypeOK, Texts
  <2> QED
    BY <2>1, <1>1, LaterTexts
<1>12. ShownOutputs'
  BY <1>1, NotebookAssumption DEF KernelInv, ShownOutputs
<1>13. Requested' /\ Edits'
  BY <1>6, <1>7, <1>8 DEF KernelInv, Requested, Edits
<1> QED
  BY <1>1, <1>9, <1>10, <1>11, <1>12, <1>13, SameFiles DEF KernelInv

\* The cells selected of a notebook are ranked from 1 to their number.
LEMMA RankOfCell ==
    ASSUME KernelInv, NEW nb \in Notebooks, NEW selected \in SUBSET ToSet(cells[nb])
    PROVE  /\ Cardinality(selected) \in Nat
           /\ \A c \in selected : Rank(selected, c) \in 1..Cardinality(selected)
<1>1. PICK n \in Nat : n = Len(cells[nb])
  BY IndexLemma DEF KernelInv, TypeOK
<1>2. \A c \in selected : /\ c \in Cells /\ Index(nb, c) \in 1..n
                          /\ cells[nb][Index(nb, c)] = c /\ Home[c] = nb
  <2>1. \A c \in selected : /\ c \in Cells /\ Index(nb, c) \in 1..n
                            /\ cells[nb][Index(nb, c)] = c
    BY <1>1, IndexLemma DEF KernelInv, TypeOK
  <2>2. \A i \in 1..n : Home[cells[nb][i]] = nb
    BY <1>1 DEF KernelInv, OwnCells
  <2> QED
    BY <2>1, <2>2
<1> DEFINE f == [c \in selected |-> Index(nb, c)]
<1>3. f \in Injection(selected, 1..n)
  <2>1. ASSUME NEW c \in selected, NEW d \in selected, f[c] = f[d] PROVE c = d
    BY <2>1, <1>2
  <2> QED
    BY <2>1, <1>2 DEF Injection, IsInjective
<1>4. IsFiniteSet(selected) /\ Cardinality(selected) \in Nat
  <2>1. IsFiniteSet(1..n)
    BY FS_Interval
  <2>2. IsFiniteSet(selected)
    BY <2>1, <1>3, FS_Injection
  <2> QED
    BY <2>2, FS_CardinalityType
<1>5. ASSUME NEW c \in selected PROVE Rank(selected, c) \in 1..Cardinality(selected)
  <2> DEFINE S == {d \in selected : Index(Home[c], d) <= Index(Home[c], c)}
  <2>1. S \in SUBSET selected /\ c \in S
    BY <1>2
  <2> HIDE DEF S
  <2>2. IsFiniteSet(S) /\ Cardinality(S) \in Nat /\ Cardinality(S) <= Cardinality(selected)
    BY <2>1, <1>4, FS_Subset, FS_CardinalityType
  <2>3. Cardinality(S) # 0
    BY <2>1, <2>2, FS_EmptySet
  <2> QED
    BY <2>2, <2>3, <1>4 DEF Rank, S
<1> QED
  BY <1>4, <1>5

\* What executing cells sends: with no active editor, nothing.
LEMMA ExecuteAllSends ==
    ASSUME KernelInv, NEW nb \in Notebooks,
           NEW selected \in SUBSET (ToSet(cells[nb]) \cap Code), ExecuteAll(selected),
           NEW c \in Cells
    PROVE  \/ request'[c] = request[c]
           \/ /\ c \in selected /\ c \in Code /\ Home[c] = nb /\ activeNotebookEditor = nb
              /\ request'[c].program = AllCellContent(nb, Index(nb, c))
              /\ request'[c].editor = nb /\ request'[c] \in Request
              /\ IsCodeOf(request'[c].program, nb, Index(nb, c))
              /\ EndsWith(request'[c].program, c, text[c])
<1>1. CASE ~(c \in selected /\ activeNotebookEditor # NoNotebook)
  BY <1>1 DEF ExecuteAll
<1>2. CASE c \in selected /\ activeNotebookEditor # NoNotebook
  <2>1. /\ cells \in [Notebooks -> Seq(Cells)] /\ text \in [Cells -> 0..MaxChanges]
        /\ Distinct(cells[nb]) /\ text[c] \in Nat
    BY NotebookAssumption DEF KernelInv, TypeOK, OwnCells
  <2>2. c \in Code /\ c \in ToSet(cells[nb]) /\ Home[c] = nb
    BY <1>2, <2>1, IndexLemma DEF KernelInv, OwnCells
  <2>3. nb \in Opened
    <3>1. cells[nb] # <<>>
      BY <2>1, <2>2, IndexLemma, EmptySeq
    <3> QED
      BY <3>1 DEF KernelInv, OwnCells
  <2>4. activeNotebookEditor = nb
    BY <2>3, <1>2, OpenedLemma DEF KernelInv, TypeOK
  <2>5. PICK p \in Seq(Line) : p = AllCellContent(nb, Index(nb, c))
    BY <2>1, <2>2, SentLemma
  <2>6. /\ IsCodeOf(p, nb, Index(nb, c)) /\ p # <<>> /\ Last(p).cell = c /\ Last(p).text = text[c]
    BY <2>1, <2>2, <2>5, SentLemma
  <2>7. PICK k : k = executionOrder + Rank(selected, c)
    OBVIOUS
  <2>8. k \in 1..MaxRuns
    <3>1. /\ Cardinality(selected) \in Nat /\ Rank(selected, c) \in 1..Cardinality(selected)
      BY <1>2, RankOfCell
    <3>2. executionOrder + Cardinality(selected) <= MaxRuns
      BY DEF ExecuteAll, LastOrder
    <3>3. executionOrder \in Nat /\ MaxRuns \in Nat
      BY NotebookAssumption DEF KernelInv, TypeOK
    <3> QED
      BY <3>1, <3>2, <3>3, <2>7
  <2>9. request'[c] = [program |-> p, editor |-> nb, order |-> k, served |-> extension = "ready"]
    BY <1>2, <2>2, <2>4, <2>5, <2>7 DEF ExecuteAll
  <2>10. request'[c].program = p /\ request'[c].editor = nb /\ request'[c] \in Request
    BY <2>8, <2>9 DEF Request
  <2>11. EndsWith(p, c, text[c])
    BY <2>1, <2>6 DEF EndsWith
  <2> QED
    BY <1>2, <2>2, <2>4, <2>5, <2>6, <2>10, <2>11
<1> QED
  BY <1>1, <1>2

LEMMA ExecuteAllKeeps ==
    ASSUME KernelInv, NEW nb \in Notebooks,
           NEW selected \in SUBSET (ToSet(cells[nb]) \cap Code), ExecuteAll(selected)
    PROVE  KernelInv'
<1>1. /\ UNCHANGED <<notebookDocuments, cells>> /\ UNCHANGED <<text, changes, displayed>>
      /\ UNCHANGED <<text, outputs, edit>> /\ UNCHANGED saved
      /\ UNCHANGED <<extension, activeNotebookEditor, exporting>>
  BY DEF ExecuteAll, editors, documents, saved
<1>2. TypeOK'
  <2>1. Opened' = Opened
    BY <1>1 DEF Opened
  <2>2. request' \in [Cells -> Request \cup {None}]
    <3>1. \A c \in Cells : request'[c] \in Request \cup {None}
      BY ExecuteAllSends DEF KernelInv, TypeOK
    <3> QED
      BY <3>1 DEF ExecuteAll
  <2>3. executing' \subseteq Code
    BY DEF ExecuteAll, KernelInv, TypeOK
  <2>4. executionOrder' \in 0..MaxRuns
    <3>1. Cardinality(selected) \in Nat
      BY RankOfCell
    <3>2. /\ executionOrder + Cardinality(selected) <= MaxRuns
          /\ executionOrder' = executionOrder + Cardinality(selected)
      BY DEF ExecuteAll, LastOrder
    <3>3. executionOrder \in Nat /\ MaxRuns \in Nat
      BY NotebookAssumption DEF KernelInv, TypeOK
    <3> QED
      BY <3>1, <3>2, <3>3
  <2>5. TypeOK
    BY DEF KernelInv
  <2> QED
    BY <1>1, <2>1, <2>2, <2>3, <2>4, <2>5, SameFiles DEF TypeOK
<1>3. Requested'
  BY <1>1, ExecuteAllSends DEF KernelInv, Requested
<1>4. ShownOutputs' /\ Edits'
  BY <1>1 DEF KernelInv, ShownOutputs, Edits
<1> QED
  BY <1>1, <1>2, <1>3, <1>4, SameFiles, SameLists, SameTexts DEF KernelInv

\* Ending an execution, with the program that was sent for it.
LEMMA EndLemma ==
    ASSUME KernelInv, NEW c \in Code, NEW success \in BOOLEAN, NEW p \in Seq(Line),
           EndsWith(p, c, text[c]), End(c, success, p)
    PROVE  /\ executing' \subseteq Code
           /\ outputs' \in [Cells -> Output \cup {None}]
           /\ \A d \in Code : outputs'[d] # None => EndsWith(outputs'[d].of, d, text[d])
<1>1. c \in Cells /\ executing' \subseteq Code
  BY NotebookAssumption DEF End, KernelInv, TypeOK
<1>2. CASE c \in executing
  <2> DEFINE o == [success |-> success, of |-> p]
  <2>1. o \in Output /\ o.of = p
    BY DEF Output
  <2>2. outputs' = [outputs EXCEPT ![c] = o]
    BY <1>2 DEF End
  <2> HIDE DEF o
  <2>3. /\ outputs' \in [Cells -> Output \cup {None}] /\ outputs'[c] = o
        /\ \A d \in Cells : d # c => outputs'[d] = outputs[d]
    BY <1>1, <2>1, <2>2 DEF KernelInv, TypeOK
  <2> QED
    BY <1>1, <2>1, <2>3, NotebookAssumption DEF KernelInv, ShownOutputs
<1>3. CASE c \notin executing
  BY <1>1, <1>3 DEF End, KernelInv, TypeOK, ShownOutputs
<1> QED
  BY <1>1, <1>2, <1>3

LEMMA DoExecuteCellKeeps ==
    ASSUME KernelInv, NEW c \in Cells, DoExecuteCell(c)
    PROVE  KernelInv'
<1>1. /\ UNCHANGED <<notebookDocuments, cells>> /\ UNCHANGED <<text, changes, displayed>>
      /\ UNCHANGED saved
      /\ UNCHANGED <<extension, activeNotebookEditor, executionOrder, exporting>>
      /\ request' = [request EXCEPT ![c] = None] /\ request[c] # None
  BY DEF DoExecuteCell, editors, saved
<1>2. PICK r \in Request : r = request[c]
  BY <1>1 DEF KernelInv, TypeOK
<1>3. /\ c \in Code /\ r.editor = Home[c] /\ r.program \in Seq(Line)
      /\ EndsWith(r.program, c, text[c]) /\ Home[c] \in Notebooks
  BY <1>1, <1>2, NotebookAssumption DEF KernelInv, Requested, Request
<1>4. /\ request' \in [Cells -> Request \cup {None}]
      /\ \A d \in Cells : request'[d] # None => request'[d] = request[d]
  BY <1>1 DEF KernelInv, TypeOK
<1>5. Requested'
  BY <1>1, <1>4 DEF KernelInv, Requested
<1>6. /\ executing' \subseteq Code
      /\ outputs' \in [Cells -> Output \cup {None}]
      /\ edit' \in [Cells -> CellEdit \cup {None}]
      /\ ShownOutputs' /\ Edits'
  <2>1. CASE Responded(c)
    <3>1. UNCHANGED edit
      BY <2>1 DEF Responded
    <3>2. PICK success \in BOOLEAN : End(c, success, r.program)
      BY <2>1, <1>2 DEF Responded
    <3>3. /\ executing' \subseteq Code
          /\ outputs' \in [Cells -> Output \cup {None}]
          /\ \A d \in Code : outputs'[d] # None => EndsWith(outputs'[d].of, d, text[d])
      BY <1>3, <3>2, EndLemma
    <3> QED
      BY <1>1, <3>1, <3>3 DEF KernelInv, TypeOK, ShownOutputs, Edits
  <2>2. CASE Transformed(c)
    <3>1. UNCHANGED <<executing, outputs>>
      BY <2>2 DEF Transformed
    <3>2. PICK over \in Seq(Cells) : over = cells[Home[c]]
      BY <1>3 DEF KernelInv, TypeOK
    <3>3. PICK at \in Nat :
             /\ at = IF Here(c) THEN Index(Home[c], c) ELSE 0
             /\ \/ at = 0 /\ c \notin ToSet(over)
                \/ at \in 1..Len(over) /\ over[at] = c
      <4>1. CASE Here(c)
        <5>1. PICK nb \in Notebooks : nb = Home[c]
          BY <1>3
        <5>2. c \in ToSet(cells[nb]) /\ cells \in [Notebooks -> Seq(Cells)]
          BY <4>1, <5>1 DEF Here, KernelInv, TypeOK
        <5>3. /\ Index(nb, c) \in 1..Len(over) /\ over[Index(nb, c)] = c
              /\ Len(over) \in Nat
          BY <5>1, <5>2, <3>2, IndexLemma
        <5>4. PICK at \in 1..Len(over) : at = Index(nb, c)
          BY <5>3
        <5> QED
          BY <4>1, <5>1, <5>3, <5>4
      <4>2. CASE ~Here(c)
        BY <4>2, <3>2 DEF Here
      <4> QED
        BY <4>1, <4>2
    <3> DEFINE e == [program |-> r.program, editor |-> Home[c], at |-> at, over |-> over]
    <3>4. edit' = [edit EXCEPT ![c] = e]
      BY <2>2, <1>2, <1>3, <3>2, <3>3 DEF Transformed
    <3>5. /\ e \in CellEdit /\ e.program = r.program /\ e.editor = Home[c]
          /\ e.at = at /\ e.over = over
      BY <1>3 DEF CellEdit
    <3> HIDE DEF e
    <3>6. /\ edit' \in [Cells -> CellEdit \cup {None}] /\ edit'[c] = e
          /\ \A d \in Cells : d # c => edit'[d] = edit[d]
      BY <3>4, <3>5 DEF KernelInv, TypeOK
    <3>7. Edits'
      <4> SUFFICES ASSUME NEW d \in Cells, edit'[d] # None
                   PROVE  /\ d \in Code /\ edit'[d].editor = Home[d]
                          /\ EndsWith(edit'[d].program, d, text'[d])
                          /\ \/ edit'[d].at = 0 /\ d \notin ToSet(edit'[d].over)
                             \/ /\ edit'[d].at \in 1..Len(edit'[d].over)
                                /\ edit'[d].over[edit'[d].at] = d
        BY DEF Edits
      <4>1. CASE d = c
        BY <4>1, <1>1, <1>3, <3>3, <3>5, <3>6
      <4>2. CASE d # c
        BY <4>2, <1>1, <3>6 DEF KernelInv, Edits
      <4> QED
        BY <4>1, <4>2
    <3> QED
      BY <1>1, <3>1, <3>6, <3>7 DEF KernelInv, TypeOK, ShownOutputs
  <2> QED
    BY <2>1, <2>2 DEF DoExecuteCell
<1>7. TypeOK'
  <2>1. Opened' = Opened
    BY <1>1 DEF Opened
  <2>2. TypeOK
    BY DEF KernelInv
  <2> QED
    BY <2>1, <2>2, <1>1, <1>4, <1>6, SameFiles DEF TypeOK
<1> QED
  BY <1>1, <1>5, <1>6, <1>7, SameFiles, SameLists, SameTexts DEF KernelInv

LEMMA EditResolvedKeeps ==
    ASSUME KernelInv, NEW c \in Cells, EditResolved(c)
    PROVE  KernelInv'
<1>1. /\ UNCHANGED notebookDocuments /\ UNCHANGED <<changes, displayed, request>>
      /\ UNCHANGED saved
      /\ UNCHANGED <<extension, activeNotebookEditor, executionOrder, exporting>>
      /\ edit' = [edit EXCEPT ![c] = None] /\ edit[c] # None
      /\ End(c, TRUE, edit[c].program)
      /\ EditApplied(edit[c]) \/ UNCHANGED <<cells, text>>
  BY DEF EditResolved, editors, saved
<1>2. PICK e \in CellEdit : e = edit[c]
  BY <1>1 DEF KernelInv, TypeOK
<1>3. /\ c \in Code /\ e.program \in Seq(Line) /\ EndsWith(e.program, c, text[c])
      /\ e.at \in Nat
  BY <1>1, <1>2 DEF KernelInv, Edits, CellEdit
<1>4. /\ edit' \in [Cells -> CellEdit \cup {None}]
      /\ \A d \in Cells : edit'[d] # None => edit'[d] = edit[d]
  BY <1>1 DEF KernelInv, TypeOK
<1>5. /\ cells' \in [Notebooks -> Seq(Cells)] /\ OwnCells'
      /\ text' \in [Cells -> 0..MaxChanges]
      /\ \A d \in Cells : text'[d] = text[d] \/ text'[d] = 0
      /\ \A d \in Code : text'[d] = text[d]
  <2>1. CASE UNCHANGED <<cells, text>>
    BY <2>1, <1>1, SameLists, NotebookAssumption DEF KernelInv, TypeOK
  <2>2. CASE EditApplied(e)
    <3>1. PICK m \in Cells \ Code : Home[m] = e.editor /\ ~Here(m) /\ Insert(e.editor, m, e.at)
      BY <2>2 DEF EditApplied
    <3>2. PICK nb \in Opened : nb = e.editor
      BY <2>2 DEF EditApplied
    <3>3. PICK at \in Nat : at = e.at
      BY <1>3
    <3>4. at \in 0..Len(cells[nb])
      <4>1. nb \in Notebooks /\ cells[nb] \in Seq(Cells)
        BY OpenedLemma DEF KernelInv, TypeOK
      <4>2. at <= Len(cells[nb]) /\ Len(cells[nb]) \in Nat
        BY <2>2, <3>2, <3>3, <4>1, LenProperties DEF EditApplied
      <4> QED
        BY <4>2
    <3>5. m \notin ToSet(cells[nb]) /\ Insert(nb, m, at) /\ Home[m] = nb
      BY <3>1, <3>2, <3>3 DEF Here
    <3>6. /\ cells' \in [Notebooks -> Seq(Cells)] /\ OwnCells'
          /\ text' \in [Cells -> 0..MaxChanges] /\ text'[m] = 0
          /\ \A d \in Cells : d # m => text'[d] = text[d]
      BY <1>1, <3>4, <3>5, InsertLemma
    <3> QED
      BY <3>6, NotebookAssumption
  <2> QED
    BY <1>1, <1>2, <2>1, <2>2
<1>6. /\ executing' \subseteq Code
      /\ outputs' \in [Cells -> Output \cup {None}]
      /\ \A d \in Code : outputs'[d] # None => EndsWith(outputs'[d].of, d, text[d])
  <2>1. End(c, TRUE, e.program) /\ TRUE \in BOOLEAN
    BY <1>1, <1>2
  <2> QED
    BY <2>1, <1>3, EndLemma
<1>7. TypeOK'
  <2>1. Opened' = Opened
    BY <1>1 DEF Opened
  <2>2. TypeOK
    BY DEF KernelInv
  <2> QED
    BY <2>1, <2>2, <1>1, <1>4, <1>5, <1>6, SameFiles DEF TypeOK
<1>8. OneOpen'
  BY <1>1 DEF KernelInv, OneOpen
<1>9. Texts'
  <2>1. changes \in Nat /\ \A d \in Cells : text[d] <= changes
    BY NotebookAssumption DEF KernelInv, TypeOK, Texts
  <2>2. changes' \in Nat /\ changes <= changes' /\ \A d \in Cells : text'[d] <= changes'
    BY <2>1, <1>1, <1>5
  <2> QED
    BY <2>2, <1>1, LaterTexts
<1>10. ShownOutputs'
  BY <1>5, <1>6 DEF ShownOutputs
<1>11. Requested' /\ Edits'
  BY <1>1, <1>4, <1>5 DEF KernelInv, Requested, Edits
<1> QED
  BY <1>1, <1>5, <1>7, <1>8, <1>9, <1>10, <1>11, SameFiles DEF KernelInv

LEMMA SerializeNotebookKeeps ==
    ASSUME KernelInv, NEW nb \in Notebooks, SerializeNotebook(nb)
    PROVE  KernelInv'
<1>1. /\ UNCHANGED <<notebookDocuments, cells>> /\ UNCHANGED <<text, outputs, request, edit>>
      /\ UNCHANGED <<extension, activeNotebookEditor, executing, executionOrder, exporting,
                     changes>>
  BY DEF SerializeNotebook, editors, documents, execution
<1>2. nb \in Opened /\ notebookDocuments[1] = nb
  BY OpenedLemma DEF SerializeNotebook, KernelInv
<1> DEFINE D == Display(nb)
<1>3. file' = [file EXCEPT ![nb] = D] /\ displayed' = [displayed EXCEPT ![nb] = D]
  BY <1>2 DEF SerializeNotebook
<1>4. PICK s \in Seq(Cells) : s = cells[nb]
  BY DEF KernelInv, TypeOK
<1>5. PICK n \in Nat : n = Len(s)
  BY LenProperties
<1>6. D = [i \in 1..n |-> [cell |-> s[i], text |-> text[s[i]], output |-> outputs[s[i]]]]
  BY <1>4, <1>5 DEF Display
<1> HIDE DEF D
<1>7. \A i \in 1..n : s[i] \in Cells /\ Home[s[i]] = nb
  BY <1>4, <1>5, ElementOfSeq DEF KernelInv, OwnCells
<1>8. ASSUME NEW i \in 1..n
      PROVE  /\ D[i] \in Raw /\ D[i].cell = s[i] /\ D[i].text = text[s[i]]
             /\ D[i].output = outputs[s[i]]
  BY <1>6, <1>7 DEF Raw, KernelInv, TypeOK
<1>9. D \in Seq(Raw) /\ Len(D) = n
  <2>1. D \in [1..n -> Raw]
    BY <1>6, <1>8
  <2> QED
    BY <2>1
<1>10. /\ file' \in [Notebooks -> Seq(Raw) \cup {Unreadable}] /\ file'[nb] = D
       /\ displayed' \in [Notebooks -> Seq(Raw)] /\ displayed'[nb] = D
       /\ \A b \in Notebooks : b # nb => file'[b] = file[b] /\ displayed'[b] = displayed[b]
  BY <1>3, <1>9 DEF KernelInv, TypeOK
<1>11. TypeOK'
  <2>1. Opened' = Opened
    BY <1>1 DEF Opened
  <2>2. TypeOK
    BY DEF KernelInv
  <2> QED
    BY <2>1, <2>2, <1>1, <1>10 DEF TypeOK
<1>12. Files'
  <2>1. ASSUME NEW i \in 1..n PROVE Home[D[i].cell] = nb
    BY <1>7, <1>8
  <2>2. ASSUME NEW i \in 1..n, NEW j \in 1..n, D[i].cell = D[j].cell PROVE i = j
    BY <2>2, <1>4, <1>5, <1>8 DEF KernelInv, OwnCells, Distinct
  <2> SUFFICES ASSUME NEW b \in Notebooks
               PROVE  /\ \/ file'[b] = displayed'[b]
                         \/ file'[b] = Unreadable /\ displayed'[b] = <<>>
                      /\ \A i \in 1..Len(displayed'[b]) : Home[displayed'[b][i].cell] = b
                      /\ \A i, j \in 1..Len(displayed'[b]) :
                            displayed'[b][i].cell = displayed'[b][j].cell => i = j
    BY DEF Files
  <2>3. CASE b = nb
    BY <2>1, <2>2, <2>3, <1>9, <1>10
  <2>4. CASE b # nb
    BY <2>4, <1>10 DEF KernelInv, Files
  <2> QED
    BY <2>3, <2>4
<1>13. Texts'
  <2>1. ASSUME NEW b \in Notebooks, NEW i \in 1..Len(displayed'[b])
        PROVE  displayed'[b][i].text <= changes
    <3>1. CASE b = nb
      BY SMTT(30), <2>1, <3>1, <1>7, <1>8, <1>9, <1>10 DEF KernelInv, Texts
    <3>2. CASE b # nb
      BY <2>1, <3>2, <1>10 DEF KernelInv, Texts
    <3> QED
      BY <3>1, <3>2
  <2> QED
    BY <2>1, <1>1 DEF KernelInv, Texts
<1>14. SavedOutputs'
  <2> SUFFICES ASSUME NEW b \in Notebooks, NEW i \in 1..Len(displayed'[b]),
                      displayed'[b][i].cell \in Code, displayed'[b][i].output # None
               PROVE  EndsWith(displayed'[b][i].output.of, displayed'[b][i].cell,
                               displayed'[b][i].text)
    BY DEF SavedOutputs
  <2>1. CASE b = nb
    BY <2>1, <1>8, <1>9, <1>10 DEF KernelInv, ShownOutputs
  <2>2. CASE b # nb
    BY <2>2, <1>10 DEF KernelInv, SavedOutputs
  <2> QED
    BY <2>1, <2>2
<1> QED
  BY <1>1, <1>11, <1>12, <1>13, <1>14, SameLists, SameAnswers DEF KernelInv

LEMMA ExportSynthetoKeeps ==
    ASSUME KernelInv, ExportSyntheto
    PROVE  KernelInv'
<1>1. notebookDocuments # <<>>
  BY DEF ExportSyntheto
<1>2. PICK nb \in Notebooks : nb = notebookDocuments[1]
  BY <1>1, OpenedLemma DEF KernelInv
<1>3. /\ exporting' = Program(nb, CodePlaces(nb))
      /\ UNCHANGED <<notebookDocuments, documents, execution, saved, changes>>
      /\ UNCHANGED <<extension, activeNotebookEditor>>
  BY <1>2 DEF ExportSyntheto, WholeProgram, editors
<1>4. PICK n \in Nat : n = Len(cells[nb])
  BY IndexLemma DEF KernelInv, TypeOK
<1>5. n \in 0..Len(cells[nb]) /\ CodePlaces(nb) = {i \in CodePlaces(nb) : i <= n}
  BY <1>4 DEF CodePlaces
<1>6. Program(nb, CodePlaces(nb)) \in Seq(Line)
  BY <1>5, ProgramLemma DEF KernelInv, TypeOK, OwnCells
<1> QED
  BY <1>3, <1>6, SameAll DEF KernelInv, TypeOK

LEMMA KernelStep ==
    ASSUME MaxOpen = 1, KernelInv, [Next]_vars
    PROVE  KernelInv'
<1>0. TypeOK
  BY DEF KernelInv
<1>1. CASE VSCode
  <2>1. CASE Activate \/ ServerReady \/ Focus \/ SaveDialog
    BY <2>1, <1>0, SameAll
       DEF TypeOK, Activate, ServerReady, Focus, SaveDialog, editors
  <2>2. CASE ServerStops
    BY <2>2, ServerStopsKeeps
  <2>3. CASE \E nb \in Notebooks : \/ OpenNotebook(nb) \/ CloseNotebook(nb)
                                   \/ SerializeNotebook(nb)
    BY <2>3, OpenNotebookKeeps, CloseNotebookKeeps, SerializeNotebookKeeps
  <2>4. CASE \E c \in Cells : EditCell(c) \/ DeleteCell(c)
    BY <2>4, EditCellKeeps, DeleteCellKeeps
  <2>5. CASE \E c \in Cells : \E i \in 0..Len(cells[Home[c]]) : InsertCell(c, i)
    BY <2>5, InsertCellKeeps
  <2>6. CASE ExportSyntheto
    BY <2>6, ExportSynthetoKeeps
  <2> QED
    BY <1>1, <2>1, <2>2, <2>3, <2>4, <2>5, <2>6 DEF VSCode
<1>2. CASE \E nb \in Notebooks :
             \E selected \in SUBSET (ToSet(cells[nb]) \cap Code) : ExecuteAll(selected)
  BY <1>2, ExecuteAllKeeps
<1>3. CASE \E c \in Cells : DoExecuteCell(c) \/ EditResolved(c)
  BY <1>3, DoExecuteCellKeeps, EditResolvedKeeps
<1>4. CASE UNCHANGED vars
  BY <1>4, <1>0, SameAll DEF TypeOK, vars, editors
<1> QED
  BY <1>1, <1>2, <1>3, <1>4 DEF Next

-----------------------------------------------------------------------------
(* The theorems. *)

\* While no two notebooks are open at once, the invariant holds.
THEOREM KernelInvariant ==
    ASSUME MaxOpen = 1
    PROVE  Spec => []KernelInv
<1>1. KernelInv /\ [Next]_vars => KernelInv'
  BY KernelStep
<1> QED
  BY <1>1, InitKernel, PTL DEF Spec

(* Every variable of the extension keeps its type: there is an execution order *)
(* for each request, a place in the notebook for each edit, and an editor that *)
(* is in front is one of an open notebook.                                     *)
THEOREM KernelTypes ==
    ASSUME MaxOpen = 1
    PROVE  Spec => []TypeOK
<1>1. KernelInv => TypeOK
  BY DEF KernelInv
<1> QED
  BY <1>1, KernelInvariant, PTL

(* An output stands under the cell whose program it answers, however cells are *)
(* moved, edited, deleted, saved and reopened while it is awaited or shown.    *)
THEOREM OutputsStayWithTheirCells ==
    ASSUME MaxOpen = 1
    PROVE  Spec => []OutputIsTheCells
<1>1. KernelInv => OutputIsTheCells
  BY DEF KernelInv, ShownOutputs, OutputIsTheCells, EndsWith
<1> QED
  BY <1>1, KernelInvariant, PTL

(* Executing a cell sends the code of its notebook up to and including it, as  *)
(* it reads at that moment and in its order, and nothing of another notebook.  *)
THEOREM CellsSendTheirPrograms ==
    ASSUME MaxOpen = 1
    PROVE  Spec => SendsItsProgram
<1> DEFINE Sends ==
             \A c \in Cells :
                 request[c] = None /\ request'[c] # None
                   => IsCodeOf(request'[c].program, Home[c], Index(Home[c], c))
<1>1. ASSUME KernelInv, [Next]_vars PROVE Sends \/ UNCHANGED vars
  <2> SUFFICES ASSUME NEW c \in Cells, request[c] = None, request'[c] # None, Next
               PROVE  IsCodeOf(request'[c].program, Home[c], Index(Home[c], c))
    BY <1>1
  <2>1. CASE VSCode
    <3>1. \/ UNCHANGED request \/ ServerStops
          \/ \E nb \in Notebooks : CloseNotebook(nb)
      BY <2>1 DEF VSCode, Activate, ServerReady, OpenNotebook, SerializeNotebook, Focus,
                  EditCell, DeleteCell, InsertCell, ExportSyntheto, SaveDialog, execution
    <3> QED
      BY <3>1 DEF ServerStops, CloseNotebook
  <2>2. CASE \E nb \in Notebooks :
               \E selected \in SUBSET (ToSet(cells[nb]) \cap Code) : ExecuteAll(selected)
    BY <1>1, <2>2, ExecuteAllSends
  <2>3. CASE \E d \in Cells : DoExecuteCell(d) \/ EditResolved(d)
    <3>1. UNCHANGED request \/ \E d \in Cells : request' = [request EXCEPT ![d] = None]
      BY <2>3 DEF DoExecuteCell, EditResolved
    <3> QED
      BY <1>1, <3>1 DEF KernelInv, TypeOK
  <2> QED
    BY <2>1, <2>2, <2>3 DEF Next
<1>2. KernelInv /\ [Next]_vars => [Sends]_vars
  BY <1>1
<1> QED
  BY <1>2, KernelInvariant, PTL DEF Spec, SendsItsProgram

(* What export collects is all the code of its notebook, as it reads then and  *)
(* in its order.                                                               *)
THEOREM ExportIsTheProgram ==
    ASSUME MaxOpen = 1
    PROVE  Spec => ExportsTheProgram
<1> DEFINE Exports ==
             exporting' # exporting /\ exporting' # None =>
                 LET nb == notebookDocuments[1] IN
                 IsCodeOf(exporting', nb, Len(cells[nb]))
<1>1. ASSUME KernelInv, [Next]_vars PROVE Exports \/ UNCHANGED vars
  <2> SUFFICES ASSUME exporting' # exporting, exporting' # None, Next
               PROVE  IsCodeOf(exporting', notebookDocuments[1], Len(cells[notebookDocuments[1]]))
    BY <1>1
  <2>1. ExportSyntheto
    BY DEF Next, VSCode, Activate, ServerReady, ServerStops, OpenNotebook, CloseNotebook,
           SerializeNotebook, Focus, EditCell, DeleteCell, InsertCell, SaveDialog, ExecuteAll,
           DoExecuteCell, EditResolved
  <2>2. notebookDocuments # <<>>
    BY <2>1 DEF ExportSyntheto
  <2>3. PICK nb \in Notebooks : nb = notebookDocuments[1]
    BY <1>1, <2>2, OpenedLemma DEF KernelInv
  <2>4. exporting' = Program(nb, CodePlaces(nb))
    BY <2>1, <2>3 DEF ExportSyntheto, WholeProgram
  <2>5. PICK n \in Nat : n = Len(cells[nb])
    BY <1>1, IndexLemma DEF KernelInv, TypeOK
  <2>6. n \in 0..Len(cells[nb]) /\ CodePlaces(nb) = {i \in CodePlaces(nb) : i <= n}
    BY <2>5 DEF CodePlaces
  <2>7. IsCodeOf(Program(nb, CodePlaces(nb)), nb, n)
    BY <1>1, <2>6, ProgramLemma DEF KernelInv, TypeOK, OwnCells
  <2> QED
    BY <2>3, <2>4, <2>5, <2>7
<1>2. KernelInv /\ [Next]_vars => [Exports]_vars
  BY <1>1
<1> QED
  BY <1>2, KernelInvariant, PTL DEF Spec, ExportsTheProgram

(* Opening a notebook file shows what the notebook showed when it was saved,   *)
(* an empty file as a notebook without cells.                                  *)
THEOREM NotebooksReopen ==
    ASSUME MaxOpen = 1
    PROVE  Spec => Reopens
<1> DEFINE AsSaved == \A nb \in Notebooks : OpenNotebook(nb) => Display(nb)' = displayed[nb]
<1>1. ASSUME KernelInv PROVE AsSaved
  <2> SUFFICES ASSUME NEW nb \in Notebooks, OpenNotebook(nb)
               PROVE  Display(nb)' = displayed[nb]
    BY <1>1
  <2>1. Deserialize(nb)
    BY DEF OpenNotebook
  <2>2. PICK raw \in Seq(Raw) : raw = displayed[nb]
    BY <1>1 DEF KernelInv, TypeOK
  <2>3. PICK n \in Nat : n = Len(raw)
    BY LenProperties
  <2>4. /\ Len(cells'[nb]) = n
        /\ \A i \in 1..n :
              LET c == raw[i].cell IN
              cells'[nb][i] = c /\ raw[i] = [cell |-> c, text |-> text'[c], output |-> outputs'[c]]
    BY <1>1, <2>1, <2>2, <2>3, DeserializeLemma
  <2>5. Display(nb)' = [i \in 1..n |-> [cell |-> cells'[nb][i], text |-> text'[cells'[nb][i]],
                                        output |-> outputs'[cells'[nb][i]]]]
    BY <2>4 DEF Display
  <2>6. raw = [i \in 1..n |-> raw[i]]
    BY <2>3, LenProperties
  <2>7. \A i \in 1..n : raw[i] = [cell |-> cells'[nb][i], text |-> text'[cells'[nb][i]],
                                  output |-> outputs'[cells'[nb][i]]]
    BY <2>4
  <2> QED
    BY <2>2, <2>5, <2>6, <2>7
<1>2. KernelInv /\ [Next]_vars => [AsSaved]_vars
  BY <1>1
<1> QED
  BY <1>2, KernelInvariant, PTL DEF Spec, Reopens

(* Transformed code goes right below the cell that was run, wherever that is   *)
(* by then.                                                                    *)
THEOREM TransformedCodeIsBelow ==
    ASSUME MaxOpen = 1
    PROVE  Spec => BelowItsCell
<1> DEFINE Below ==
             \A c \in Cells :
                 LET nb == Home[c]
                     i == Index(nb, c)
                 IN  edit[c] # None /\ edit'[c] = None /\ Here(c) /\ Here(c)' /\ cells' # cells
                       => /\ i < Len(cells'[nb]) /\ cells'[nb][i] = c
                          /\ cells'[nb][i + 1] \notin ToSet(cells[nb])
<1>1. ASSUME KernelInv, [Next]_vars PROVE Below \/ UNCHANGED vars
  <2> SUFFICES ASSUME NEW c \in Cells, edit[c] # None, edit'[c] = None, Here(c), Here(c)',
                      cells' # cells, Next
               PROVE  /\ Index(Home[c], c) < Len(cells'[Home[c]])
                      /\ cells'[Home[c]][Index(Home[c], c)] = c
                      /\ cells'[Home[c]][Index(Home[c], c) + 1] \notin ToSet(cells[Home[c]])
    BY <1>1
  <2>1. PICK nb \in Notebooks : nb = Home[c]
    BY NotebookAssumption
  <2>2. c \in ToSet(cells[nb]) /\ c \in ToSet(cells'[nb])
    BY <2>1 DEF Here
  <2>3. PICK d \in Cells : EditResolved(d)
    <3>1. ~ \E b \in Notebooks : CloseNotebook(b)
      <4>1. SUFFICES ASSUME NEW b \in Notebooks, CloseNotebook(b) PROVE FALSE
        OBVIOUS
      <4>2. b = nb
        BY <4>1, <1>1, <2>1 DEF CloseNotebook
      <4>3. cells'[nb] = <<>>
        BY <4>1, <4>2, <1>1 DEF CloseNotebook, KernelInv, TypeOK
      <4>4. ToSet(<<>>) = {}
        BY DEF ToSet
      <4> QED
        BY <2>2, <4>3, <4>4
    <3>2. UNCHANGED edit \/ UNCHANGED cells \/ \E d \in Cells : EditResolved(d)
      BY <3>1 DEF Next, VSCode, Activate, ServerReady, ServerStops, OpenNotebook,
                  SerializeNotebook, Focus, EditCell, DeleteCell, InsertCell, ExportSyntheto,
                  SaveDialog, ExecuteAll, DoExecuteCell, execution, documents
    <3> QED
      BY <3>2
  <2>4. d = c
    BY <2>3, <1>1 DEF EditResolved, KernelInv, TypeOK
  <2>5. EditApplied(edit[c]) /\ UNCHANGED notebookDocuments
    BY <2>3, <2>4 DEF EditResolved, editors
  <2>6. PICK e \in CellEdit : e = edit[c]
    BY <1>1 DEF KernelInv, TypeOK
  <2>7. e.editor = nb /\ nb \in Opened /\ e.over = cells[nb]
    BY <1>1, <2>1, <2>5, <2>6 DEF KernelInv, Edits, EditApplied
  <2>8. PICK i \in 1..Len(cells[nb]) : i = e.at /\ cells[nb][i] = c
    BY <1>1, <2>2, <2>6, <2>7 DEF KernelInv, Edits
  <2>9. Index(nb, c) = i /\ Len(cells[nb]) \in Nat
    BY <1>1, <2>8, IndexLemma DEF KernelInv, TypeOK, OwnCells
  <2>10. PICK m \in Cells : Home[m] = nb /\ m \notin ToSet(cells[nb]) /\ Insert(nb, m, i)
    BY <2>1, <2>5, <2>6, <2>7, <2>8 DEF EditApplied, Here
  <2>11. /\ Len(cells'[nb]) = Len(cells[nb]) + 1
         /\ \A j \in 1..i : cells'[nb][j] = cells[nb][j]
         /\ cells'[nb][i + 1] = m
    <3>1. i \in 0..Len(cells[nb])
      BY <2>9
    <3> QED
      BY <1>1, <2>5, <2>7, <2>10, <3>1, InsertLemma
  <2>12. i < Len(cells'[nb]) /\ cells'[nb][i] = c
    <3>1. PICK n \in Nat : n = Len(cells[nb])
      BY <2>9
    <3>2. i \in 1..n /\ i \in 1..i /\ i < n + 1
      BY <3>1
    <3> QED
      BY <3>1, <3>2, <2>8, <2>11
  <2> QED
    BY <2>1, <2>9, <2>10, <2>11, <2>12
<1>2. KernelInv /\ [Next]_vars => [Below]_vars
  BY <1>1
<1> QED
  BY <1>2, KernelInvariant, PTL DEF Spec, BelowItsCell
=============================================================================
