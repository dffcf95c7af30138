-------------------------- MODULE EnumerateProofs --------------------------
(***************************************************************************)
(* Proofs about Enumerate: what an enumeration reports, for any account,   *)
(* page size and number of changes meanwhile.                              *)
(***************************************************************************)
EXTENDS Enumerate, SequenceTheorems, FiniteSetTheorems, WellFoundedInduction, TLAPS

(* Induction over the numbers, for a property given as the set of those that have it. *)
LEMMA SetInduction ==
  ASSUME NEW S, 0 \in S, \A n \in Nat : n \in S => n + 1 \in S
  PROVE  \A n \in Nat : n \in S
<1>1. SUFFICES ASSUME Nat \ S # {} PROVE FALSE
  OBVIOUS
<1>2. IsWellFoundedOn(OpToRel(<, Nat), Nat)
  BY NatLessThanWellFounded
<1>3. \E x \in Nat \ S : \A y \in Nat \ S : ~ (<<y, x>> \in OpToRel(<, Nat))
  BY <1>1, <1>2, WFMin
<1>4. \E x \in Nat \ S : \A y \in Nat \ S : ~ (y < x)
  BY <1>3 DEF OpToRel
<1>5. PICK x \in Nat \ S : \A y \in Nat \ S : ~ (y < x)
  BY <1>4
<1>6. x # 0 /\ x - 1 \in Nat
  OBVIOUS
<1>7. x - 1 \notin Nat \ S
  BY <1>5, <1>6
<1> QED
  BY <1>5, <1>6, <1>7

-----------------------------------------------------------------------------
(* The loop over a page                                                    *)

(* f holds what the loop has taken of the rows after each of them up to the n-th. *)
IsLoop(f, rows, n) ==
  f = [i \in 0..n |-> IF i = 0 THEN <<>>
                      ELSE IF IsReported(rows[i]) THEN Append(f[i - 1], rows[i]) ELSE f[i - 1]]

(* A loop over rows can be followed to any of them. *)
LEMMA LoopExists ==
  ASSUME NEW rows
  PROVE  \A n \in Nat : \E f : IsLoop(f, rows, n)
<1> DEFINE S == {n \in Nat : \E f : IsLoop(f, rows, n)}
<1>1. 0 \in S
  <2> DEFINE f == [i \in 0..0 |-> <<>>]
  <2>1. IsLoop(f, rows, 0)
    BY DEF IsLoop
  <2> QED
    BY <2>1
<1>2. ASSUME NEW n \in Nat, n \in S PROVE n + 1 \in S
  <2>1. PICK f : IsLoop(f, rows, n)
    BY <1>2
  <2> DEFINE at(i) == IF IsReported(rows[i]) THEN Append(f[i - 1], rows[i]) ELSE f[i - 1]
  <2> DEFINE g == [i \in 0..(n + 1) |-> IF i = 0 THEN <<>> ELSE at(i)]
  <2>2. \A i \in 0..n : f[i] = IF i = 0 THEN <<>> ELSE at(i)
    BY <2>1 DEF IsLoop
  <2>3. \A i \in 0..n : g[i] = f[i]
    BY <2>2
  <2>4. \A i \in 1..(n + 1) : i - 1 \in 0..n /\ i # 0
    OBVIOUS
  <2>5. \A i \in 1..(n + 1) : g[i - 1] = f[i - 1]
    BY <2>3, <2>4
  <2> DEFINE next(i) == IF IsReported(rows[i]) THEN Append(g[i - 1], rows[i]) ELSE g[i - 1]
  <2>6. \A i \in 0..(n + 1) : (IF i = 0 THEN <<>> ELSE at(i)) = IF i = 0 THEN <<>> ELSE next(i)
    <3>1. TAKE i \in 0..(n + 1)
    <3> HIDE DEF g
    <3>2. i # 0 => g[i - 1] = f[i - 1]
      BY <2>5
    <3> QED
      BY <3>2
  <2>7. g = [i \in 0..(n + 1) |-> IF i = 0 THEN <<>> ELSE next(i)]
    <3> HIDE DEF at, next
    <3> QED
      BY <2>6
  <2>8. IsLoop(g, rows, n + 1)
    <3> HIDE DEF g
    <3> QED
      BY <2>7, Zenon DEF IsLoop
  <2> QED
    BY <2>8
<1> HIDE DEF S
<1>3. \A n \in Nat : n \in S
  BY <1>1, <1>2, SetInduction
<1> QED
  BY <1>3 DEF S

\* The loop that Reported is the end of.
LEMMA ReportedIsLoop ==
  ASSUME NEW S, NEW rows \in Seq(S)
  PROVE  \E f : /\ Reported(rows) = f[Len(rows)]
                /\ f[0] = <<>>
                /\ \A n \in 0..(Len(rows) - 1) :
                     f[n + 1] = IF IsReported(rows[n + 1]) THEN Append(f[n], rows[n + 1]) ELSE f[n]
<1> DEFINE f == CHOOSE f : IsLoop(f, rows, Len(rows))
<1>1. Len(rows) \in Nat
  OBVIOUS
<1>2. IsLoop(f, rows, Len(rows))
  BY <1>1, LoopExists, Zenon
<1>3. Reported(rows) = f[Len(rows)]
  BY Zenon DEF Reported, IsLoop
<1> HIDE DEF f
<1>4. \A i \in 0..Len(rows) : f[i] = IF i = 0 THEN <<>>
                      ELSE IF IsReported(rows[i]) THEN Append(f[i - 1], rows[i]) ELSE f[i - 1]
  BY <1>2 DEF IsLoop
<1>5. f[0] = <<>>
  BY <1>1, <1>4
<1>6. \A n \in 0..(Len(rows) - 1) :
        f[n + 1] = IF IsReported(rows[n + 1]) THEN Append(f[n], rows[n + 1]) ELSE f[n]
  <2>1. \A n \in 0..(Len(rows) - 1) : n + 1 \in 0..Len(rows) /\ n + 1 # 0 /\ (n + 1) - 1 = n
    BY <1>1
  <2> QED
    BY <1>4, <2>1
<1> QED
  BY <1>3, <1>5, <1>6

\* What is reported of a page is made of its rows, of those that are to be reported.
LEMMA ReportedRows ==
  ASSUME NEW S, NEW rows \in Seq(S)
  PROVE  Reported(rows) \in Seq({row \in S : IsReported(row)})
<1> DEFINE T == {row \in S : IsReported(row)}
<1>1. PICK f : /\ Reported(rows) = f[Len(rows)]
               /\ f[0] = <<>>
               /\ \A n \in 0..(Len(rows) - 1) :
                    f[n + 1] = IF IsReported(rows[n + 1]) THEN Append(f[n], rows[n + 1]) ELSE f[n]
  BY ReportedIsLoop
<1>2. Len(rows) \in Nat
  OBVIOUS
<1> DEFINE U == {n \in Nat : n <= Len(rows) => f[n] \in Seq(T)}
<1>3. 0 \in U
  BY <1>1, EmptySeq
<1>4. ASSUME NEW n \in Nat, n \in U PROVE n + 1 \in U
  <2>1. SUFFICES ASSUME n + 1 <= Len(rows) PROVE f[n + 1] \in Seq(T)
    OBVIOUS
  <2>2. f[n] \in Seq(T)
    BY <1>2, <1>4, <2>1
  <2>3. f[n + 1] = IF IsReported(rows[n + 1]) THEN Append(f[n], rows[n + 1]) ELSE f[n]
    BY <1>1, <1>2, <2>1
  <2>4. rows[n + 1] \in S
    BY <1>2, <2>1, ElementOfSeq
  <2>5. CASE IsReported(rows[n + 1])
    <3>1. rows[n + 1] \in T
      BY <2>4, <2>5
    <3> HIDE DEF T
    <3> QED
      BY <2>2, <2>3, <2>5, <3>1, AppendProperties
  <2>6. CASE ~ IsReported(rows[n + 1])
    BY <2>2, <2>3, <2>6
  <2> QED
    BY <2>5, <2>6
<1> HIDE DEF U
<1>5. \A n \in Nat : n \in U
  BY <1>3, <1>4, SetInduction
<1> QED
  BY <1>1, <1>2, <1>5 DEF U

\* The names of a list that is extended.
LEMMA NamesOfAppend ==
  ASSUME NEW S, NEW s \in Seq(S), NEW e \in S
  PROVE  Names(Append(s, e)) = Names(s) \cup {e.name}
<1> DEFINE t == Append(s, e)
<1>1. /\ DOMAIN t = 1..(Len(s) + 1) /\ DOMAIN s = 1..Len(s) /\ Len(s) \in Nat
      /\ \A i \in 1..Len(s) : t[i] = s[i]
      /\ t[Len(s) + 1] = e
  BY AppendProperties
<1> HIDE DEF t
<1>2. \A i : i \in DOMAIN t <=> i \in DOMAIN s \/ i = Len(s) + 1
  BY <1>1
<1>3. {t[i].name : i \in DOMAIN t} = {s[i].name : i \in DOMAIN s} \cup {e.name}
  BY <1>1, <1>2
<1> QED
  BY <1>3 DEF Names, t

\* Of a page that lists each domain once, the loop takes as many rows as it takes
\* names, and leaves out no row that is to be reported.
LEMMA ReportedNames ==
  ASSUME NEW S, NEW rows \in Seq(S), ListedOnce(rows)
  PROVE  /\ Names(Reported(rows)) = {rows[i].name : i \in {j \in DOMAIN rows : IsReported(rows[j])}}
         /\ IsFiniteSet(Names(Reported(rows)))
         /\ Cardinality(Names(Reported(rows))) = Len(Reported(rows))
<1> DEFINE To(n) == {rows[i].name : i \in {j \in 1..n : IsReported(rows[j])}}
<1>1. PICK f : /\ Reported(rows) = f[Len(rows)]
               /\ f[0] = <<>>
               /\ \A n \in 0..(Len(rows) - 1) :
                    f[n + 1] = IF IsReported(rows[n + 1]) THEN Append(f[n], rows[n + 1]) ELSE f[n]
  BY ReportedIsLoop
<1>2. Len(rows) \in Nat /\ DOMAIN rows = 1..Len(rows)
  OBVIOUS
<1> DEFINE Holds(n) == /\ f[n] \in Seq(S) /\ Names(f[n]) = To(n)
                       /\ IsFiniteSet(Names(f[n])) /\ Cardinality(Names(f[n])) = Len(f[n])
<1> DEFINE U == {n \in Nat : n <= Len(rows) => Holds(n)}
<1>3. 0 \in U
  <2>1. Names(<<>>) = {} /\ To(0) = {}
    BY DEF Names
  <2> QED
    BY <1>1, <2>1, EmptySeq, FS_EmptySet
<1>4. ASSUME NEW n \in Nat, n \in U PROVE n + 1 \in U
  <2>1. SUFFICES ASSUME n + 1 <= Len(rows) PROVE Holds(n + 1)
    OBVIOUS
  <2>2. Holds(n)
    BY <1>2, <1>4, <2>1
  <2> DEFINE row == rows[n + 1]
  <2>3. f[n + 1] = IF IsReported(row) THEN Append(f[n], row) ELSE f[n]
    BY <1>1, <1>2, <2>1
  <2>4. row \in S /\ n + 1 \in DOMAIN rows
    BY <1>2, <2>1, ElementOfSeq
  <2>5. \A j \in 1..n : j \in DOMAIN rows /\ j # n + 1
    BY <1>2, <2>1
  <2>6. \A j : j \in 1..(n + 1) <=> j \in 1..n \/ j = n + 1
    OBVIOUS
  <2>7. CASE IsReported(row)
    <3>1. To(n + 1) = To(n) \cup {row.name}
      BY <2>6, <2>7
    <3>2. row.name \notin To(n)
      BY <2>4, <2>5, <2>7 DEF ListedOnce, IsReported, IsNamed
    <3>3. f[n + 1] = Append(f[n], row)
      BY <2>3, <2>7
    <3>4. Names(f[n + 1]) = Names(f[n]) \cup {row.name}
      BY <2>2, <2>4, <3>3, NamesOfAppend
    <3>5. f[n + 1] \in Seq(S) /\ Len(f[n + 1]) = Len(f[n]) + 1
      BY <2>2, <2>4, <3>3, AppendProperties
    <3> HIDE DEF To, row
    <3>6. /\ IsFiniteSet(Names(f[n]) \cup {row.name})
          /\ Cardinality(Names(f[n]) \cup {row.name}) = Cardinality(Names(f[n])) + 1
      BY <2>2, <3>2, FS_AddElement
    <3> QED
      BY <2>2, <3>1, <3>4, <3>5, <3>6
  <2>8. CASE ~ IsReported(row)
    <3>1. To(n + 1) = To(n)
      BY <2>6, <2>8
    <3>2. f[n + 1] = f[n]
      BY <2>3, <2>8
    <3> HIDE DEF To
    <3> QED
      BY <2>2, <3>1, <3>2
  <2> QED
    BY <2>7, <2>8
<1> HIDE DEF U
<1>5. \A n \in Nat : n \in U
  BY <1>3, <1>4, SetInduction
<1>6. Holds(Len(rows))
  <2>1. Len(rows) \in U
    BY <1>2, <1>5
  <2> HIDE DEF Holds
  <2> QED
    BY <1>2, <2>1 DEF U
<1> QED
  BY <1>1, <1>2, <1>6

-----------------------------------------------------------------------------
(* Types                                                                   *)

\* Elements keep what all elements of a sequence have.
LEMMA SeqWidens ==
  ASSUME NEW S, NEW T, S \subseteq T, NEW s \in Seq(S)
  PROVE  s \in Seq(T)
OBVIOUS

\* The two parts of a concatenation.
LEMMA ConcatParts ==
  ASSUME NEW S, NEW s \in Seq(S), NEW r \in Seq(S)
  PROVE  /\ s \o r \in Seq(S) /\ Len(s \o r) = Len(s) + Len(r)
         /\ \A k \in 1..Len(s) : (s \o r)[k] = s[k]
         /\ \A k \in 1..Len(r) : (s \o r)[Len(s) + k] = r[k]
<1> DEFINE m == Len(s)
<1> DEFINE n == Len(r)
<1>1. /\ s \o r \in Seq(S) /\ Len(s \o r) = m + n
      /\ \A k \in 1..(m + n) : (s \o r)[k] = IF k <= m THEN s[k] ELSE r[k - m]
  BY ConcatProperties
<1>0. m \in Nat /\ n \in Nat
  OBVIOUS
<1> HIDE DEF m, n
<1>2. \A k \in 1..n : m + k \in 1..(m + n) /\ ~ (m + k <= m) /\ (m + k) - m = k
  BY <1>0
<1>3. \A k \in 1..m : k \in 1..(m + n) /\ k <= m
  BY <1>0
<1>4. \A k \in 1..n : (s \o r)[m + k] = r[k]
  <2>1. TAKE k \in 1..n
  <2>2. (s \o r)[m + k] = r[(m + k) - m]
    BY <1>1, <1>2
  <2> QED
    BY <1>2, <2>2
<1>5. \A k \in 1..m : (s \o r)[k] = s[k]
  BY <1>1, <1>3
<1> QED
  BY <1>1, <1>4, <1>5 DEF m, n

\* A part of a sequence, from m on.
LEMMA SubSeqPart ==
  ASSUME NEW S, NEW s \in Seq(S), NEW m \in Nat, NEW n \in Nat, m + n <= Len(s)
  PROVE  /\ SubSeq(s, m + 1, m + n) \in Seq(S)
         /\ Len(SubSeq(s, m + 1, m + n)) = n
         /\ \A k \in 1..n : SubSeq(s, m + 1, m + n)[k] = s[m + k]
<1>1. Len(s) \in Nat /\ \A k \in 1..Len(s) : s[k] \in S
  BY ElementOfSeq
<1> QED
  BY <1>1, SubSeqProperties

\* t is s with e put in at i: the elements from there on move up.
IsInserted(s, i, e, t) ==
  /\ Len(t) = Len(s) + 1
  /\ \A k \in 1..(i - 1) : t[k] = s[k]
  /\ t[i] = e
  /\ \A k \in i..Len(s) : t[k + 1] = s[k]

\* t is s without its i-th element: those after it move down.
IsRemoved(s, i, t) ==
  /\ Len(t) = Len(s) - 1
  /\ \A k \in 1..(i - 1) : t[k] = s[k]
  /\ \A k \in (i + 1)..Len(s) : t[k - 1] = s[k]

\* What a bought domain does to the list.
LEMMA InsertKeeps ==
  ASSUME NEW S, NEW s \in Seq(S), NEW e \in S, NEW i \in 1..(Len(s) + 1)
  PROVE  InsertAt(s, i, e) \in Seq(S) /\ IsInserted(s, i, e, InsertAt(s, i, e))
<1> DEFINE m == i - 1
<1> DEFINE n == Len(s) - m
<1> DEFINE a == SubSeq(s, 0 + 1, 0 + m)
<1> DEFINE b == SubSeq(s, m + 1, m + n)
<1>0. /\ Len(s) \in Nat /\ m \in Nat /\ n \in Nat /\ m + n = Len(s) /\ i = m + 1
      /\ 0 + 1 = 1 /\ 0 + m = m /\ \A k \in 1..m : 0 + k = k
  OBVIOUS
<1>1. InsertAt(s, i, e) = (a \o <<e>>) \o b
  BY <1>0 DEF InsertAt
<1> HIDE DEF m, n
<1>2. a \in Seq(S) /\ Len(a) = m /\ \A k \in 1..m : a[k] = s[0 + k]
  <2>1. 0 \in Nat /\ 0 + m <= Len(s)
    BY <1>0
  <2> QED
    BY <1>0, <2>1, SubSeqPart
<1>3. b \in Seq(S) /\ Len(b) = n /\ \A k \in 1..n : b[k] = s[m + k]
  <2>1. m + n <= Len(s)
    BY <1>0
  <2> QED
    BY <1>0, <2>1, SubSeqPart
<1> HIDE DEF a, b
<1> DEFINE o == <<e>>
<1>4. o \in Seq(S) /\ Len(o) = 1 /\ o[1] = e /\ 1 \in Nat
  OBVIOUS
<1> HIDE DEF o
<1> DEFINE c == a \o o
<1>5. /\ c \in Seq(S) /\ Len(c) = m + 1 /\ \A k \in 1..m : c[k] = a[k]
      /\ \A k \in 1..1 : c[m + k] = o[k]
  <2>1. /\ c \in Seq(S) /\ Len(c) = Len(a) + Len(o)
        /\ \A k \in 1..Len(a) : c[k] = a[k]
        /\ \A k \in 1..Len(o) : c[Len(a) + k] = o[k]
    <3>1. a \in Seq(S) /\ o \in Seq(S)
      BY <1>2, <1>4
    <3> QED
      BY <3>1, ConcatParts
  <2> HIDE DEF c
  <2> QED
    BY <1>2, <1>4, <2>1, Zenon
<1> HIDE DEF c
<1> DEFINE t == c \o b
<1>6. /\ t \in Seq(S) /\ Len(t) = (m + 1) + n /\ \A k \in 1..(m + 1) : t[k] = c[k]
      /\ \A k \in 1..n : t[(m + 1) + k] = b[k]
  <2>1. /\ t \in Seq(S) /\ Len(t) = Len(c) + Len(b)
        /\ \A k \in 1..Len(c) : t[k] = c[k]
        /\ \A k \in 1..Len(b) : t[Len(c) + k] = b[k]
    <3>1. c \in Seq(S) /\ b \in Seq(S)
      BY <1>3, <1>5
    <3> QED
      BY <3>1, ConcatParts
  <2> HIDE DEF t
  <2> QED
    BY <1>3, <1>5, <2>1, Zenon
<1> HIDE DEF t
<1>7. t = InsertAt(s, i, e)
  BY <1>1 DEF t, c, o
<1>8. t[i] = e
  <2>1. 1 \in 1..1 /\ m + 1 \in 1..(m + 1)
    BY <1>0
  <2> QED
    BY <1>0, <1>4, <1>5, <1>6, <2>1
<1>9. ASSUME NEW k \in 1..(i - 1) PROVE t[k] = s[k]
  <2>1. k \in 1..m /\ k \in 1..(m + 1)
    BY <1>0
  <2> QED
    BY <1>0, <1>2, <1>5, <1>6, <2>1
<1>10. ASSUME NEW k \in i..Len(s) PROVE t[k + 1] = s[k]
  <2>1. k - m \in 1..n /\ (m + 1) + (k - m) = k + 1 /\ m + (k - m) = k
    BY <1>0
  <2>2. t[(m + 1) + (k - m)] = s[m + (k - m)]
    BY <1>3, <1>6, <2>1, Zenon
  <2> QED
    BY <2>1, <2>2
<1>11. Len(t) = Len(s) + 1
  BY <1>0, <1>6
<1> QED
  BY <1>6, <1>7, <1>8, <1>9, <1>10, <1>11 DEF IsInserted

\* What a lost domain does to the list.
LEMMA RemoveKeeps ==
  ASSUME NEW S, NEW s \in Seq(S), NEW i \in DOMAIN s
  PROVE  RemoveAt(s, i) \in Seq(S) /\ IsRemoved(s, i, RemoveAt(s, i))
<1> DEFINE m == i - 1
<1> DEFINE n == Len(s) - i
<1> DEFINE a == SubSeq(s, 0 + 1, 0 + m)
<1> DEFINE b == SubSeq(s, i + 1, i + n)
<1>0. /\ Len(s) \in Nat /\ i \in Nat /\ m \in Nat /\ n \in Nat /\ i + n = Len(s) /\ i = m + 1
      /\ 0 + 1 = 1 /\ 0 + m = m /\ \A k \in 1..m : 0 + k = k
  <2>1. Len(s) \in Nat /\ DOMAIN s = 1..Len(s)
    OBVIOUS
  <2> QED
    BY <2>1
<1>1. RemoveAt(s, i) = a \o b
  BY <1>0 DEF RemoveAt
<1> HIDE DEF m, n
<1>2. a \in Seq(S) /\ Len(a) = m /\ \A k \in 1..m : a[k] = s[0 + k]
  <2>1. 0 \in Nat /\ 0 + m <= Len(s)
    BY <1>0
  <2> QED
    BY <1>0, <2>1, SubSeqPart
<1>3. b \in Seq(S) /\ Len(b) = n /\ \A k \in 1..n : b[k] = s[i + k]
  <2>1. i + n <= Len(s)
    BY <1>0
  <2> QED
    BY <1>0, <2>1, SubSeqPart
<1> HIDE DEF a, b
<1> DEFINE t == a \o b
<1>4. /\ t \in Seq(S) /\ Len(t) = m + n /\ \A k \in 1..m : t[k] = a[k]
      /\ \A k \in 1..n : t[m + k] = b[k]
  <2>1. /\ t \in Seq(S) /\ Len(t) = Len(a) + Len(b)
        /\ \A k \in 1..Len(a) : t[k] = a[k]
        /\ \A k \in 1..Len(b) : t[Len(a) + k] = b[k]
    <3>1. a \in Seq(S) /\ b \in Seq(S)
      BY <1>2, <1>3
    <3> QED
      BY <3>1, ConcatParts
  <2> HIDE DEF t
  <2> QED
    BY <1>2, <1>3, <2>1, Zenon
<1>5. t = RemoveAt(s, i)
  BY <1>1
<1> HIDE DEF t
<1>6. ASSUME NEW k \in 1..(i - 1) PROVE t[k] = s[k]
  <2>1. k \in 1..m
    BY <1>0
  <2> QED
    BY <1>0, <1>2, <1>4, <2>1
<1>7. ASSUME NEW k \in (i + 1)..Len(s) PROVE t[k - 1] = s[k]
  <2>1. k - i \in 1..n /\ m + (k - i) = k - 1 /\ i + (k - i) = k
    BY <1>0
  <2>2. t[m + (k - i)] = s[i + (k - i)]
    BY <1>3, <1>4, <2>1, Zenon
  <2> QED
    BY <2>1, <2>2
<1>8. Len(t) = Len(s) - 1
  BY <1>0, <1>4
<1> QED
  BY <1>4, <1>5, <1>6, <1>7, <1>8 DEF IsRemoved

\* Pages lie side by side.
LEMMA Pages ==
  ASSUME NEW p \in Nat \ {0}
  PROVE  /\ PageSize \in Nat \ {0}
         /\ p * PageSize \in Nat /\ (p - 1) * PageSize \in Nat
         /\ p * PageSize = (p - 1) * PageSize + PageSize
         /\ (p + 1) - 1 = p
BY PageSizeAssumption

\* rows are the elements of s after the first B, at most size of them.
IsCut(s, B, size, rows) ==
  /\ \A i \in DOMAIN rows : B + i \in DOMAIN s /\ i <= size /\ rows[i] = s[B + i]
  /\ \A j \in DOMAIN s : j > B /\ j <= B + size => j - B \in DOMAIN rows
  /\ Len(rows) < size => \A j \in DOMAIN s : j <= B + size

\* What SubSeq cuts out of a list that may end before.
LEMMA CutKeeps ==
  ASSUME NEW S, NEW s \in Seq(S), NEW B \in Nat, NEW size \in Nat \ {0}, NEW to,
         to = IF B + size < Len(s) THEN B + size ELSE Len(s)
  PROVE  SubSeq(s, B + 1, to) \in Seq(S) /\ IsCut(s, B, size, SubSeq(s, B + 1, to))
<1> DEFINE n == Len(s)
<1> DEFINE from == B + 1
<1>1. n \in Nat /\ DOMAIN s = 1..n
  OBVIOUS
<1>2. \A i \in 1..n : s[i] \in S
  BY ElementOfSeq
<1> HIDE DEF n
<1>3. to = IF B + size < n THEN B + size ELSE n
  BY DEF n
<1>4. to \in Int /\ from \in Int /\ from..to \subseteq 1..n
  BY <1>1, <1>3
<1>5. \A i \in from..to : s[i] \in S
  BY <1>2, <1>4
<1> DEFINE rows == SubSeq(s, from, to)
<1> DEFINE len == Len(rows)
<1>6. /\ rows \in Seq(S)
      /\ len = IF from <= to THEN to - from + 1 ELSE 0
      /\ \A i \in 1..(to - from + 1) : rows[i] = s[from + i - 1]
  <2> HIDE DEF from
  <2> QED
    BY <1>4, <1>5, SubSeqProperties
<1> HIDE DEF rows
<1>7. DOMAIN rows = 1..len /\ len \in Nat
  BY <1>6
<1> HIDE DEF len
<1>8. \A i \in 1..len : /\ B + i \in 1..n /\ i <= size
                        /\ i \in 1..(to - from + 1) /\ from + i - 1 = B + i
  BY <1>1, <1>3, <1>6, <1>7
<1>9. \A i \in 1..len : rows[i] = s[B + i]
  BY <1>6, <1>8
<1>10. \A j \in 1..n : j > B /\ j <= B + size => j - B \in 1..len
  BY <1>1, <1>3, <1>6, <1>7
<1>11. len < size => \A j \in 1..n : j <= B + size
  BY <1>1, <1>3, <1>6, <1>7
<1> QED
  BY <1>1, <1>6, <1>7, <1>8, <1>9, <1>10, <1>11, Zenon DEF IsCut, rows, len

\* A page is made of rows of the list: those after the rows of the pages before it,
\* as many as fit on it.
LEMMA PageKeeps ==
  ASSUME NEW S, list \in Seq(S), NEW p \in Nat \ {0}, NEW B, B = (p - 1) * PageSize
  PROVE  /\ Page(p) \in Seq(S)
         /\ \A i \in DOMAIN Page(p) : /\ B + i \in DOMAIN list /\ i <= PageSize
                                     /\ Page(p)[i] = list[B + i]
         /\ \A j \in DOMAIN list : j > B /\ j <= B + PageSize => j - B \in DOMAIN Page(p)
         /\ Len(Page(p)) < PageSize => \A j \in DOMAIN list : j <= B + PageSize
<1> DEFINE end == p * PageSize
<1> DEFINE to == IF B + PageSize < Len(list) THEN B + PageSize ELSE Len(list)
<1>1. end = B + PageSize /\ B \in Nat /\ PageSize \in Nat \ {0}
  BY Pages
<1>2. Page(p) = SubSeq(list, B + 1, to)
  <2>1. Page(p) = SubSeq(list, end - PageSize + 1, IF end < Len(list) THEN end ELSE Len(list))
    BY Zenon DEF Page
  <2> HIDE DEF end
  <2>2. end - PageSize + 1 = B + 1
    BY <1>1
  <2> QED
    BY <1>1, <2>1, <2>2, Zenon
<1> HIDE DEF end
<1>3. to = IF B + PageSize < Len(list) THEN B + PageSize ELSE Len(list)
  OBVIOUS
<1> HIDE DEF to
<1>4. /\ SubSeq(list, B + 1, to) \in Seq(S)
      /\ IsCut(list, B, PageSize, SubSeq(list, B + 1, to))
  BY <1>1, <1>3, CutKeeps
<1> QED
  BY <1>2, <1>4, Zenon DEF IsCut

-----------------------------------------------------------------------------
(* The inductive invariant                                                 *)

\* The rows the account has had that are reported, and their names.
WereReported == {row \in was : IsReported(row)}
Hosted == {row.name : row \in WereReported}

\* The invariant: the account's rows are among those it has had, the rows still
\* to be read are among those that are reported, and so are the domains found.
\* Nothing is found before the call has begun, when its type is not known.
IInv ==
  /\ TypeOK
  /\ list \in Seq(was)
  /\ unread \in Seq(WereReported)
  /\ out \in Seq(Hosted)
  /\ pc = "idle" => unread = <<>> /\ out = <<>>

\* A row that is reported has a name.
LEMMA HostedAreDomains ==
  ASSUME TypeOK
  PROVE  Hosted \subseteq Domains /\ WereReported \subseteq was /\ was \subseteq Rows
BY DEF TypeOK, Rows, Hosted, WereReported, IsReported, IsNamed

\* The invariant holds at the start.
LEMMA InitEstablishes == Init => IInv
<1> SUFFICES ASSUME Init PROVE IInv
  OBVIOUS
<1>1. list \in Seq(Rows)
  BY ListsAssumption DEF Init
<1>2. was \subseteq Rows /\ list \in Seq(was)
  <2>1. was = Range(list)
    BY DEF Init
  <2> QED
    BY <1>1, <2>1, RangeOfSeq, SeqOfRange, Zenon
<1>3. \A i \in DOMAIN list : list[i] \in Rows
  BY <1>1, ElementOfSeq
<1>4. steady \subseteq Domains
  BY <1>3 DEF Init, Names, Rows
<1>5. out \in Seq(Domains) /\ unread \in Seq(Rows)
  BY EmptySeq DEF Init
<1>6. /\ page \in Nat \ {0} /\ last \in BOOLEAN
      /\ removals \in Nat /\ insertions \in Nat /\ switches \in Nat
      /\ type = "none" /\ pc = "idle" /\ answer = "none"
  <2>1. page = 1 /\ last = FALSE /\ removals = 0 /\ insertions = 0 /\ switches = 0
        /\ type = "none" /\ pc = "idle" /\ answer = "none"
    BY Zenon DEF Init
  <2>2. last \in BOOLEAN
    BY <2>1, Zenon
  <2> QED
    BY <2>1, <2>2
<1>7. TypeOK
  BY <1>1, <1>2, <1>4, <1>5, <1>6 DEF TypeOK
<1> QED
  BY <1>2, <1>7, EmptySeq DEF Init, IInv

\* The account only gains rows, and every row it holds is one that it has had.
LEMMA AccountKeeps ==
  ASSUME TypeOK, list \in Seq(was), Account
  PROVE  /\ list' \in Seq(Rows) /\ list' \in Seq(was')
         /\ was \subseteq was' /\ was' \subseteq Rows
         /\ steady' \subseteq Domains
         /\ {removals, insertions, switches}' \subseteq Nat
         /\ UNCHANGED loop
<1> USE DEF TypeOK
<1>0. was \subseteq Rows
  OBVIOUS
<1>1. ASSUME NEW d \in Domains, NEW i \in 1..(Len(list) + 1), Add(d, i)
      PROVE  /\ list' \in Seq(was')
             /\ was \subseteq was' /\ was' \subseteq Rows
  <2>1. PICK row \in Rows : list' = InsertAt(list, i, row) /\ was' = was \cup {row}
    BY <1>1 DEF Add, Rows
  <2>2. list \in Seq(was') /\ row \in was' /\ was \subseteq was' /\ was' \subseteq Rows
    BY <2>1, <1>0, SeqWidens
  <2> QED
    BY <2>1, <2>2, InsertKeeps
<1>2. ASSUME NEW i \in DOMAIN list, Drop(i)
      PROVE  list' \in Seq(was') /\ was' = was
  BY <1>2, RemoveKeeps DEF Drop
<1>3. ASSUME NEW i \in DOMAIN list, Switch(i)
      PROVE  /\ list' \in Seq(was')
             /\ was \subseteq was' /\ was' \subseteq Rows
  <2>1. PICK ours \in {"yes", "no"} :
          /\ list' = [list EXCEPT ![i].ours = ours]
          /\ was' = was \cup {[list[i] EXCEPT !.ours = ours]}
    BY <1>3 DEF Switch
  <2>2. list[i] \in was /\ list[i] \in Rows
    BY <1>0, ElementOfSeq
  <2> DEFINE row == [list[i] EXCEPT !.ours = ours]
  <2>3. row \in Rows
    BY <2>2 DEF Rows
  <2>4. list' = [list EXCEPT ![i] = row] /\ was' = was \cup {row}
    BY <2>1, Zenon
  <2> HIDE DEF row
  <2>5. list \in Seq(was') /\ row \in was' /\ was \subseteq was' /\ was' \subseteq Rows
    BY <1>0, <2>3, <2>4, SeqWidens
  <2> QED
    BY <2>4, <2>5
<1>4. /\ list' \in Seq(was')
      /\ was \subseteq was' /\ was' \subseteq Rows
  BY <1>0, <1>1, <1>2, <1>3 DEF Account
<1>5. steady' \subseteq Domains /\ UNCHANGED loop
  BY DEF Account, Add, Drop, Switch
<1>6. removals' \in Nat /\ insertions' \in Nat /\ switches' \in Nat
  <2>1. removals \in Nat /\ insertions \in Nat /\ switches \in Nat
    OBVIOUS
  <2>2. /\ removals' = removals \/ removals' = removals + 1
        /\ insertions' = insertions \/ insertions' = insertions + 1
        /\ switches' = switches \/ switches' = switches + 1
    BY Zenon DEF Account, Add, Drop, Switch
  <2> QED
    BY <2>1, <2>2
<1> QED
  BY <1>4, <1>5, <1>6, SeqWidens

\* The loop: what is found is among the rows reported, which are among the rows
\* that the account has had.
LEMMA HandlerKeeps ==
  ASSUME IInv, Handler
  PROVE  IInv'
<1> DEFINE Found == WereReported
<1>0. /\ TypeOK /\ list \in Seq(was)
      /\ unread \in Seq(Found) /\ out \in Seq(Hosted)
      /\ Hosted \subseteq Domains /\ Found \subseteq Rows
  BY HostedAreDomains DEF IInv
<1>1. UNCHANGED account /\ type' = type
  BY DEF Handler, GetList, GetListFails, GetListNothing, ReadDelegation, ReadFails, PageDone
<1>2. /\ list' = list /\ was' = was /\ steady' = steady
      /\ removals' = removals /\ insertions' = insertions /\ switches' = switches
  BY <1>1 DEF account
<1>3. WereReported' = WereReported /\ Hosted' = Hosted
  BY <1>1, <1>2 DEF WereReported, Hosted, IsReported, IsNamed
<1>4. /\ unread' \in Seq(Found) /\ out' \in Seq(Hosted)
      /\ last' \in BOOLEAN
  <2>1. CASE GetList
    <3>1. Page(page) \in Seq(was)
      BY <1>0, PageKeeps DEF TypeOK
    <3>2. Reported(Page(page)) \in Seq(Found)
      BY <3>1, ReportedRows, Zenon DEF WereReported
    <3> DEFINE rows == Reported(Page(page))
    <3>3. \A i \in DOMAIN rows : rows[i].name \in Hosted
      BY <3>2, ElementOfSeq DEF Hosted
    <3>4. [i \in DOMAIN rows |-> rows[i].name] \in Seq(Hosted)
      <4>1. rows \in Seq(Found)
        BY <3>2
      <4> HIDE DEF rows
      <4> QED
        BY <3>3, <4>1
    <3>5. out \o [i \in DOMAIN rows |-> rows[i].name] \in Seq(Hosted)
      BY <1>0, <3>4, ConcatProperties
    <3>6. \/ unread' = unread /\ out' = out /\ last' = last
          \/ unread' = unread /\ last' = last /\ out' = out \o [i \in DOMAIN rows |-> rows[i].name]
          \/ unread' = rows /\ last' = IsLast(Page(page)) /\ out' = out
      BY <2>1 DEF GetList
    <3>7. last \in BOOLEAN /\ IsLast(Page(page)) \in BOOLEAN
      BY <1>0 DEF TypeOK, IsLast
    <3> HIDE DEF rows
    <3> QED
      BY <1>0, <3>2, <3>5, <3>6, <3>7, Zenon DEF rows
  <2>2. CASE ReadDelegation
    <3>1. Head(unread) \in Found /\ Tail(unread) \in Seq(Found)
      BY <1>0, <2>2, HeadTailProperties DEF ReadDelegation
    <3>2. Append(out, Head(unread).name) \in Seq(Hosted)
      BY <1>0, <3>1, AppendProperties DEF Hosted
    <3> QED
      BY <1>0, <2>2, <3>1, <3>2 DEF ReadDelegation, TypeOK
  <2>3. CASE GetListFails \/ GetListNothing \/ ReadFails \/ PageDone
    BY <1>0, <2>3 DEF GetListFails, GetListNothing, ReadFails, PageDone, TypeOK
  <2> QED
    BY <2>1, <2>2, <2>3 DEF Handler
<1>5. /\ pc' \in {"asking", "reading", "returned"}
      /\ page' \in Nat \ {0}
      /\ answer' \in {"none", "ok", "invalid", "error", "cut"}
  <2>1. page \in Nat \ {0} /\ answer \in {"none", "ok", "invalid", "error", "cut"}
    BY <1>0 DEF TypeOK
  <2>2. /\ pc' \in {"asking", "reading", "returned"}
        /\ page' = page \/ page' = page + 1
        /\ answer' = answer \/ answer' \in {"ok", "error", "cut"}
    BY DEF Handler, GetList, GetListFails, GetListNothing, ReadDelegation, ReadFails, PageDone,
           TurnPage, PageAfter, Return
  <2> QED
    BY <2>1, <2>2
<1>6. unread' \in Seq(Rows) /\ out' \in Seq(Domains)
  BY <1>0, <1>4, SeqWidens
<1>7. TypeOK'
  BY <1>0, <1>1, <1>2, <1>4, <1>5, <1>6 DEF TypeOK
<1> QED
  BY <1>0, <1>2, <1>3, <1>4, <1>5, <1>7 DEF IInv

\* Every step keeps the invariant.
LEMMA StepPreserves == IInv /\ [Next]_vars => IInv'
<1> SUFFICES ASSUME IInv, [Next]_vars PROVE IInv'
  OBVIOUS
<1>0. /\ TypeOK /\ list \in Seq(was)
      /\ unread \in Seq(WereReported) /\ out \in Seq(Hosted)
      /\ pc = "idle" => unread = <<>> /\ out = <<>>
  BY DEF IInv
<1>1. CASE \E t \in {"infra.dns", "infra.dns_delegation", "infra.domain_transfer"} : Start(t)
  <2>1. unread' = <<>> /\ out' = <<>>
    BY <1>0, <1>1 DEF Start
  <2>2. /\ unread' \in Seq(Rows) /\ unread' \in Seq(WereReported')
        /\ out' \in Seq(Domains) /\ out' \in Seq(Hosted')
    BY <2>1, EmptySeq
  <2>3. /\ type' \in {"infra.dns", "infra.dns_delegation", "infra.domain_transfer"}
        /\ pc' \in {"asking", "returned"}
        /\ answer' = answer \/ answer' = "invalid"
        /\ UNCHANGED <<page, last, list, was, steady, removals, insertions, switches>>
    BY <1>1 DEF Start, Return, account
  <2>4. TypeOK'
    BY <1>0, <2>2, <2>3 DEF TypeOK
  <2> QED
    BY <1>0, <2>2, <2>3, <2>4 DEF IInv
<1>2. CASE Handler
  BY <1>2, HandlerKeeps
<1>3. CASE Account
  <2>1. /\ list' \in Seq(Rows) /\ list' \in Seq(was')
        /\ was \subseteq was' /\ was' \subseteq Rows
        /\ steady' \subseteq Domains
        /\ {removals, insertions, switches}' \subseteq Nat
        /\ UNCHANGED loop
    BY <1>0, <1>3, AccountKeeps
  <2>2. UNCHANGED <<type, pc, page, unread, last, out, answer>>
    BY <2>1 DEF loop
  <2>3. WereReported \subseteq WereReported' /\ Hosted \subseteq Hosted'
    BY <2>1, <2>2 DEF WereReported, Hosted, IsReported, IsNamed
  <2>4. unread' \in Seq(WereReported') /\ out' \in Seq(Hosted')
    BY <1>0, <2>2, <2>3, SeqWidens
  <2>5. TypeOK'
    BY <1>0, <2>1, <2>2 DEF TypeOK
  <2> QED
    BY <1>0, <2>1, <2>2, <2>4, <2>5 DEF IInv
<1>4. CASE UNCHANGED vars
  BY <1>0, <1>4
  DEF vars, loop, account, IInv, TypeOK, WereReported, Hosted, IsReported, IsNamed
<1> QED
  BY <1>1, <1>2, <1>3, <1>4 DEF Next

-----------------------------------------------------------------------------
(* The counts                                                              *)

\* Rows on the pages that were asked for are passed; Ahead are the names on the others.
Border == IF pc = "reading" THEN page * PageSize ELSE (page - 1) * PageSize
Beyond(B) == {list[i].name : i \in {j \in DOMAIN list : j > B}}
Ahead == Beyond(Border)

\* What was taken of the pages so far, whether its delegation is read yet or not.
Found == Range(out) \cup Names(unread)
Taken == Len(out) + Len(unread)

\* Domains that will be found again, and domains that will not be found at all.
Again == Found \cap Ahead
Lost == (Due \ Found) \ (IF last THEN {} ELSE Ahead)

\* The invariant behind EachChangeDamagesOne: it speaks of what the pages still to
\* come can do to the result.  A domain that leaves the account moves one row that
\* was ahead to the pages passed, and one that is added moves one row back.
Counting ==
  /\ IsFiniteSet(steady) /\ IsFiniteSet(Found)
  /\ ListedOnce(list)
  /\ pc = "idle" => page = 1 /\ last = FALSE /\ steady \subseteq Names(list)
  /\ pc = "asking" => unread = <<>> /\ last = FALSE
  /\ Taken - Cardinality(Found) <= insertions
  /\ pc \in {"asking", "reading"} =>
       /\ Taken - Cardinality(Found) + Cardinality(Again) <= insertions
       /\ Cardinality(Lost) <= removals
  /\ answer = "ok" => pc = "returned" /\ Cardinality(Missed) <= removals

\* A set that gains at most one element counts at most one more.
LEMMA OneMore ==
  ASSUME NEW S, IsFiniteSet(S), NEW x, NEW T, T \subseteq S \cup {x}
  PROVE  /\ IsFiniteSet(T) /\ Cardinality(T) \in Nat /\ Cardinality(S) \in Nat
         /\ Cardinality(T) <= Cardinality(S) + 1
<1>1. /\ IsFiniteSet(S \cup {x})
      /\ Cardinality(S \cup {x}) = IF x \in S THEN Cardinality(S) ELSE Cardinality(S) + 1
  BY FS_AddElement
<1>2. IsFiniteSet(T) /\ Cardinality(T) <= Cardinality(S \cup {x})
  BY <1>1, FS_Subset
<1>3. Cardinality(T) \in Nat /\ Cardinality(S) \in Nat
  BY <1>2, FS_CardinalityType
<1> QED
  BY <1>1, <1>2, <1>3

\* A set within another has no more members.
LEMMA NoMore ==
  ASSUME NEW S, IsFiniteSet(S), NEW T, T \subseteq S
  PROVE  /\ IsFiniteSet(T) /\ Cardinality(T) \in Nat /\ Cardinality(S) \in Nat
         /\ Cardinality(T) <= Cardinality(S)
BY FS_Subset, FS_CardinalityType

\* The names on a list can be counted: they are no more than its rows.
LEMMA NamesAreFewer ==
  ASSUME NEW S, NEW rows \in Seq(S)
  PROVE  IsFiniteSet(Names(rows)) /\ Cardinality(Names(rows)) <= Len(rows)
<1> DEFINE T == Names(rows)
<1> DEFINE f == [i \in 1..Len(rows) |-> rows[i].name]
<1>1. Len(rows) \in Nat /\ DOMAIN rows = 1..Len(rows)
  OBVIOUS
<1>2. T = {rows[i].name : i \in 1..Len(rows)}
  BY <1>1 DEF Names
<1>3. f \in [1..Len(rows) -> T] /\ \A x \in T : \E i \in 1..Len(rows) : f[i] = x
  BY <1>2
<1> HIDE DEF f, T
<1>4. f \in Surjection(1..Len(rows), T)
  BY <1>3 DEF Surjection
<1>5. IsFiniteSet(1..Len(rows)) /\ Cardinality(1..Len(rows)) = Len(rows)
  BY <1>1, FS_Interval
<1>6. IsFiniteSet(T) /\ Cardinality(T) <= Cardinality(1..Len(rows))
  BY <1>4, <1>5, FS_Surjection
<1> QED
  BY <1>5, <1>6 DEF T

\* What is left to read has been found already: reading it counts nothing twice.
LEMMA NamesOfHead ==
  ASSUME NEW S, NEW s \in Seq(S), s # <<>>
  PROVE  Names(s) = {Head(s).name} \cup Names(Tail(s))
<1>1. /\ Len(s) \in Nat \ {0} /\ DOMAIN s = 1..Len(s) /\ Head(s) = s[1]
      /\ DOMAIN Tail(s) = 1..(Len(s) - 1)
      /\ \A i \in 1..(Len(s) - 1) : Tail(s)[i] = s[i + 1]
  BY HeadTailProperties
<1>2. \A i \in 1..Len(s) : i = 1 \/ (i - 1 \in 1..(Len(s) - 1) /\ (i - 1) + 1 = i)
  BY <1>1
<1>3. \A i \in 1..(Len(s) - 1) : i + 1 \in 1..Len(s)
  BY <1>1
<1>4. Names(s) \subseteq {Head(s).name} \cup Names(Tail(s))
  <2>1. SUFFICES ASSUME NEW i \in 1..Len(s), i # 1 PROVE s[i].name \in Names(Tail(s))
    BY <1>1 DEF Names
  <2>2. Tail(s)[i - 1] = s[i]
    BY <1>1, <1>2, <2>1
  <2> QED
    BY <1>1, <1>2, <2>1, <2>2, Zenon DEF Names
<1>5. Names(Tail(s)) \subseteq Names(s)
  <2>1. SUFFICES ASSUME NEW i \in 1..(Len(s) - 1) PROVE Tail(s)[i].name \in Names(s)
    BY <1>1 DEF Names
  <2> QED
    BY <1>1, <1>3, <2>1, Zenon DEF Names
<1>6. Head(s).name \in Names(s)
  BY <1>1 DEF Names
<1> QED
  BY <1>4, <1>5, <1>6

\* A domain that has to be found is reported wherever it is listed.
LEMMA DueIsReported ==
  ASSUME IInv, NEW d \in Due, NEW j \in DOMAIN list, list[j].name = d
  PROVE  IsReported(list[j])
<1>1. list[j] \in was /\ list[j] \in Rows /\ Blank \notin Domains
  <2>1. list \in Seq(was) /\ list \in Seq(Rows)
    BY DEF IInv, TypeOK
  <2> QED
    BY <2>1, ElementOfSeq, ListsAssumption
<1>2. d \in Domains
  BY DEF IInv, TypeOK, Due
<1>3. ASSUME type = "infra.dns", list[j].ours = "no" PROVE FALSE
  <2>1. list[j] = [name |-> d, ours |-> "no"]
    BY <1>1, <1>3 DEF Rows
  <2> QED
    BY <1>1, <1>3, <2>1 DEF Due
<1> QED
  BY <1>1, <1>2, <1>3 DEF IsReported, IsNamed

\* What GetList adds to the result: the rows of its page that are reported.
LEMMA PageIsFound ==
  ASSUME IInv, Counting, GetList, Page(page) # <<>>
  PROVE  /\ Found' = Found \cup Names(Reported(Page(page)))
         /\ Taken' = Taken + Len(Reported(Page(page)))
         /\ Taken \in Nat
<1> DEFINE rows == Reported(Page(page))
<1> DEFINE names == [i \in DOMAIN rows |-> rows[i].name]
<1>0. unread = <<>> /\ out \in Seq(Domains) /\ page \in Nat \ {0} /\ list \in Seq(Rows)
  BY DEF Counting, GetList, IInv, TypeOK
<1>1. rows \in Seq(Rows)
  <2>1. Page(page) \in Seq(Rows)
    BY <1>0, PageKeeps
  <2>2. rows \in Seq({row \in Rows : IsReported(row)})
    BY <2>1, ReportedRows, Zenon
  <2>3. {row \in Rows : IsReported(row)} \subseteq Rows
    OBVIOUS
  <2> HIDE DEF rows
  <2> QED
    BY <2>2, <2>3, SeqWidens
<1>2. \/ unread' = <<>> /\ out' = out \o names
      \/ unread' = rows /\ out' = out
  BY <1>0 DEF GetList
<1> HIDE DEF rows
<1>3. /\ names \in Seq(Domains \cup {Blank}) /\ Len(names) = Len(rows)
      /\ Range(names) = Names(rows)
  <2>1. \A i \in DOMAIN rows : rows[i].name \in Domains \cup {Blank}
    <3>1. \A i \in DOMAIN rows : rows[i] \in Rows
      BY <1>1, ElementOfSeq
    <3> QED
      BY <3>1 DEF Rows
  <2>2. DOMAIN rows = 1..Len(rows) /\ Len(rows) \in Nat
    BY <1>1
  <2> QED
    BY <2>1, <2>2 DEF Range, Names
<1> HIDE DEF names
<1>4. out \in Seq(Domains \cup {Blank})
  BY <1>0, SeqWidens
<1>5. /\ Names(<<>>) = {} /\ Len(<<>>) = 0 /\ Len(out) \in Nat /\ Len(rows) \in Nat
  BY <1>0, <1>1 DEF Names
<1>6. CASE unread' = <<>> /\ out' = out \o names
  <2>1. Range(out') = Range(out) \cup Names(rows) /\ Len(out') = Len(out) + Len(rows)
    <3>1. names \in Seq(Domains \cup {Blank})
      BY <1>3
    <3>2. Range(out \o names) = Range(out) \cup Range(names)
      BY <1>4, <3>1, RangeConcatenation
    <3>3. Len(out \o names) = Len(out) + Len(names)
      BY <1>4, <3>1, ConcatProperties
    <3> QED
      BY <1>3, <1>6, <3>2, <3>3, Zenon
  <2> QED
    BY <1>0, <1>5, <1>6, <2>1 DEF Found, Taken, rows
<1>7. CASE unread' = rows /\ out' = out
  <2>1. Found' = Range(out) \cup Names(rows) /\ Taken' = Len(out) + Len(rows)
    BY <1>7 DEF Found, Taken, Names
  <2> QED
    BY <1>0, <1>5, <2>1 DEF Found, Taken, rows
<1> QED
  BY <1>2, <1>6, <1>7

\* A page adds to the names found what it takes away from those ahead, and what it
\* reports again it takes away from those that were to be found again.
LEMMA PageCounts ==
  ASSUME NEW F, IsFiniteSet(F), NEW A, NEW N, IsFiniteSet(N), N \subseteq A,
         NEW A2, A2 \subseteq A, N \cap A2 = {}
  PROVE  /\ IsFiniteSet(F \cup N)
         /\ Cardinality(F) \in Nat /\ Cardinality(N) \in Nat /\ Cardinality(F \cap A) \in Nat
         /\ Cardinality(F \cup N) \in Nat /\ Cardinality((F \cup N) \cap A2) \in Nat
         /\ Cardinality(N) - Cardinality(F \cup N) + Cardinality((F \cup N) \cap A2)
              <= Cardinality(F \cap A) - Cardinality(F)
<1> DEFINE n == Cardinality(F \cap N)
<1>1. /\ IsFiniteSet(F \cup N)
      /\ Cardinality(F \cup N) = Cardinality(F) + Cardinality(N) - n
  BY FS_Union
<1>2. IsFiniteSet(F \cap A) /\ IsFiniteSet(F \cap N)
  BY FS_Intersection
<1>3. (F \cap A) \cap N = F \cap N
  OBVIOUS
<1>4. /\ IsFiniteSet((F \cap A) \ N)
      /\ Cardinality((F \cap A) \ N) = Cardinality(F \cap A) - n
  BY <1>2, <1>3, FS_Difference
<1>5. (F \cup N) \cap A2 \subseteq (F \cap A) \ N
  OBVIOUS
<1>6. /\ IsFiniteSet((F \cup N) \cap A2)
      /\ Cardinality((F \cup N) \cap A2) <= Cardinality((F \cap A) \ N)
  BY <1>4, <1>5, NoMore
<1>7. /\ Cardinality(F) \in Nat /\ Cardinality(N) \in Nat /\ Cardinality(F \cap A) \in Nat
      /\ Cardinality(F \cup N) \in Nat /\ Cardinality((F \cup N) \cap A2) \in Nat /\ n \in Nat
  BY <1>1, <1>2, <1>6, FS_CardinalityType
<1> QED
  BY <1>1, <1>4, <1>6, <1>7

\* Nothing is taken and nothing missed at the start.
LEMMA InitCounts == Init => Counting
<1> SUFFICES ASSUME Init PROVE Counting
  OBVIOUS
<1>1. list \in Lists /\ list \in Seq(Rows)
  BY ListsAssumption DEF Init
<1>2. steady \subseteq Names(list)
  BY DEF Init
<1>3. IsFiniteSet(steady)
  BY <1>1, <1>2, NamesAreFewer, FS_Subset
<1>4. Found = {} /\ Taken = 0
  <2>1. out = <<>> /\ unread = <<>>
    BY DEF Init
  <2> QED
    BY <2>1 DEF Found, Taken, Names, Range
<1>5. IsFiniteSet(Found) /\ Taken - Cardinality(Found) <= insertions
  BY <1>4, FS_EmptySet DEF Init
<1>6. ListedOnce(list)
  BY <1>1, AccountAssumption
<1>7. page = 1 /\ last = FALSE /\ pc = "idle" /\ answer = "none"
  BY Zenon DEF Init
<1> QED
  BY <1>2, <1>3, <1>5, <1>6, <1>7 DEF Counting

\* Before the first page everything is ahead.
LEMMA StartCounts ==
  ASSUME IInv, Counting,
         NEW t \in {"infra.dns", "infra.dns_delegation", "infra.domain_transfer"}, Start(t)
  PROVE  Counting'
<1>1. /\ pc = "idle" /\ pc' \in {"asking", "returned"}
      /\ UNCHANGED <<page, unread, last, out, list, was, steady, removals, insertions>>
      /\ answer' = answer \/ answer' = "invalid"
  BY DEF Start, Return, account
<1>2. /\ page = 1 /\ last = FALSE /\ steady \subseteq Names(list)
      /\ unread = <<>> /\ out = <<>> /\ answer # "ok"
      /\ insertions \in Nat /\ removals \in Nat
  BY <1>1, Zenon DEF Counting, IInv, TypeOK
<1>3. Found' = {} /\ Taken' = 0
  BY <1>1, <1>2 DEF Found, Taken, Names, Range
<1>4. Again' = {} /\ (pc' = "asking" => Lost' = {})
  <2>1. Again' = {}
    BY <1>3 DEF Again
  <2>2. ASSUME pc' = "asking" PROVE Lost' = {}
    <3>1. Border' = 0
      BY <1>1, <1>2, <2>2, PageSizeAssumption DEF Border
    <3>2. \A i \in DOMAIN list : i > 0
      BY DEF IInv, TypeOK
    <3>3. Ahead' = Names(list)
      BY <1>1, <3>1, <3>2 DEF Ahead, Beyond, Names
    <3>4. Due' \subseteq Names(list) /\ last' = FALSE
      BY <1>1, <1>2 DEF Due
    <3> QED
      BY <3>3, <3>4 DEF Lost
  <2> QED
    BY <2>1, <2>2
<1>5. /\ IsFiniteSet(Found') /\ Cardinality(Found') = 0 /\ Cardinality(Again') = 0
      /\ (pc' = "asking" => Cardinality(Lost') = 0)
  BY <1>3, <1>4, FS_EmptySet
<1>6. IsFiniteSet(steady') /\ ListedOnce(list)'
  BY <1>1 DEF Counting, ListedOnce
<1> QED
  BY <1>1, <1>2, <1>3, <1>5, <1>6 DEF Counting

\* The loop reads on: what was taken is neither more nor less.
LEMMA ReadCounts ==
  ASSUME IInv, Counting, ReadDelegation
  PROVE  Counting'
<1>1. /\ pc = "reading" /\ unread # <<>>
      /\ out' = Append(out, Head(unread).name) /\ unread' = Tail(unread)
      /\ UNCHANGED <<type, pc, page, last, answer, list, was, steady, removals, insertions>>
  BY DEF ReadDelegation, account
<1>2. unread \in Seq(Rows) /\ out \in Seq(Domains)
  BY DEF IInv, TypeOK
<1>3. Names(unread) = {Head(unread).name} \cup Names(Tail(unread))
  BY <1>1, <1>2, NamesOfHead
<1>4. Range(out') = Range(out) \cup {Head(unread).name}
  <2>1. DOMAIN out' = 1..(Len(out) + 1) /\ DOMAIN out = 1..Len(out) /\ Len(out) \in Nat
    BY <1>1, <1>2
  <2>2. /\ \A i \in 1..Len(out) : out'[i] = out[i]
        /\ out'[Len(out) + 1] = Head(unread).name
    BY <1>1, <1>2
  <2>3. \A i : i \in 1..(Len(out) + 1) <=> i \in 1..Len(out) \/ i = Len(out) + 1
    BY <2>1
  <2> QED
    BY <2>1, <2>2, <2>3 DEF Range
<1>5. Found' = Found /\ Taken' = Taken
  <2>1. Found' = Found
    BY <1>1, <1>3, <1>4 DEF Found
  <2>2. Len(Tail(unread)) = Len(unread) - 1 /\ Len(unread) \in Nat
    BY <1>1, <1>2, HeadTailProperties
  <2>3. Len(out') = Len(out) + 1 /\ Len(out) \in Nat
    BY <1>1, <1>2
  <2> QED
    BY <1>1, <2>1, <2>2, <2>3 DEF Taken
<1>6. Again' = Again /\ Lost' = Lost
  BY <1>1, <1>5 DEF Again, Lost, Due, Ahead, Beyond, Border
<1> QED
  BY <1>1, <1>5, <1>6 DEF Counting, ListedOnce

\* A call that ends with an error, or that a reply without a list has ended, has
\* counted nothing more.
LEMMA FailCounts ==
  ASSUME IInv, Counting, GetListFails \/ GetListNothing \/ ReadFails
  PROVE  Counting'
<1>1. /\ pc' = "returned" /\ answer' \in {"error", "cut"}
      /\ UNCHANGED <<unread, out, list, steady, insertions>>
  BY DEF GetListFails, GetListNothing, ReadFails, Return, account
<1>2. Found' = Found /\ Taken' = Taken
  BY <1>1 DEF Found, Taken, Names
<1> QED
  BY <1>1, <1>2 DEF Counting, ListedOnce

\* After the last page whatever is not found is lost.
LEMMA PageDoneCounts ==
  ASSUME IInv, Counting, PageDone
  PROVE  Counting'
<1>1. /\ pc = "reading" /\ unread = <<>>
      /\ UNCHANGED <<type, unread, last, out, list, was, steady, removals, insertions>>
  BY DEF PageDone, account
<1>2. /\ Found' = Found /\ Taken' = Taken /\ Found = Range(out)
      /\ Due' = Due
  BY <1>1 DEF Found, Taken, Names, Due
<1>3. last \in BOOLEAN /\ page \in Nat \ {0}
  BY DEF IInv, TypeOK
<1>4. CASE last = TRUE
  <2>1. pc' = "returned"
    BY <1>4 DEF PageDone, TurnPage, Return
  <2>2. Missed' = Lost
    BY <1>1, <1>2, <1>4 DEF Missed, Lost
  <2> QED
    BY <1>1, <1>2, <2>1, <2>2 DEF Counting, ListedOnce
<1>5. CASE last = FALSE
  <2>1. pc' = "asking" /\ page' = page + 1 /\ answer' = answer
    BY <1>5 DEF PageDone, TurnPage, PageAfter
  <2>2. Border' = Border
    <3>1. page' - 1 = page
      BY <1>3, <2>1
    <3> QED
      BY <1>1, <2>1, <3>1 DEF Border
  <2>3. Again' = Again /\ Lost' = Lost
    BY <1>1, <1>2, <2>2 DEF Again, Lost, Ahead, Beyond
  <2> QED
    BY <1>1, <1>2, <1>5, <2>1, <2>3 DEF Counting, ListedOnce
<1> QED
  BY <1>3, <1>4, <1>5

\* A page is read: its names are ahead no longer, and nothing of it is lost.
LEMMA GetListCounts ==
  ASSUME IInv, Counting, GetList
  PROVE  Counting'
<1> DEFINE rows == Page(page)
<1> DEFINE N == Names(Reported(rows))
<1> DEFINE B == (page - 1) * PageSize
<1> DEFINE A2 == Beyond(page * PageSize)
<1>0. /\ pc = "asking" /\ unread = <<>> /\ last = FALSE
      /\ list \in Seq(Rows) /\ page \in Nat \ {0}
      /\ insertions \in Nat /\ removals \in Nat
      /\ ListedOnce(list) /\ IsFiniteSet(Found) /\ IsFiniteSet(steady)
      /\ Taken - Cardinality(Found) + Cardinality(Again) <= insertions
      /\ Cardinality(Lost) <= removals
  BY DEF GetList, Counting, IInv, TypeOK
<1>1. UNCHANGED <<type, list, was, steady, removals, insertions>>
  BY DEF GetList, account
<1>2. Ahead = Beyond(B)
  BY <1>0 DEF Ahead, Border
<1>3. /\ rows \in Seq(Rows)
      /\ \A i \in DOMAIN rows : /\ B + i \in DOMAIN list /\ i <= PageSize
                               /\ rows[i] = list[B + i]
      /\ \A j \in DOMAIN list : j > B /\ j <= B + PageSize => j - B \in DOMAIN rows
      /\ Len(rows) < PageSize => \A j \in DOMAIN list : j <= B + PageSize
  BY <1>0, PageKeeps
<1>4. /\ page * PageSize = B + PageSize /\ B \in Nat /\ PageSize \in Nat \ {0}
      /\ (page + 1) - 1 = page
  BY <1>0, Pages
<1>5. DOMAIN rows \subseteq Nat \ {0} /\ DOMAIN list \subseteq Nat
  BY <1>0, <1>3
<1> HIDE DEF rows, B
<1>6. \A i \in DOMAIN rows : B + i > B /\ ~ (B + i > B + PageSize)
  BY <1>3, <1>4, <1>5
<1>7. ListedOnce(rows)
  <2>1. SUFFICES ASSUME NEW i \in DOMAIN rows, NEW j \in DOMAIN rows,
                        rows[i].name = rows[j].name, rows[i].name # Blank
                 PROVE  i = j
    BY DEF ListedOnce
  <2>2. B + i = B + j
    BY <1>0, <1>3, <2>1 DEF ListedOnce
  <2> QED
    BY <1>4, <1>5, <2>2
<1>8. /\ N = {rows[i].name : i \in {j \in DOMAIN rows : IsReported(rows[j])}}
      /\ IsFiniteSet(N) /\ Cardinality(N) = Len(Reported(rows))
  BY <1>3, <1>7, ReportedNames
<1> HIDE DEF N
<1>9. N \subseteq Ahead
  BY <1>2, <1>3, <1>6, <1>8 DEF Beyond
<1>10. A2 \subseteq Ahead
  <2>1. \A j \in DOMAIN list : j > B + PageSize => j > B
    BY <1>4, <1>5
  <2> QED
    BY <1>2, <1>4, <2>1 DEF Beyond
<1>11. N \cap A2 = {}
  <2>1. SUFFICES ASSUME NEW i \in DOMAIN rows, IsReported(rows[i]),
                        NEW j \in DOMAIN list, j > B + PageSize,
                        rows[i].name = list[j].name
                 PROVE  FALSE
    BY <1>4, <1>8 DEF Beyond
  <2>2. B + i = j
    BY <1>0, <1>3, <2>1 DEF ListedOnce, IsReported, IsNamed
  <2> QED
    BY <1>6, <2>1, <2>2
<1>12. \A d \in Due : d \in Ahead => d \in N \/ d \in A2
  <2>1. SUFFICES ASSUME NEW j \in DOMAIN list, j > B, list[j].name \in Due, ~ (j > B + PageSize)
                 PROVE  list[j].name \in N
    BY <1>2, <1>4 DEF Beyond
  <2>2. IsReported(list[j])
    BY <2>1, DueIsReported
  <2>3. j - B \in DOMAIN rows /\ B + (j - B) = j
    BY <1>3, <1>4, <1>5, <2>1
  <2>4. rows[j - B] = list[j]
    BY <1>3, <2>3
  <2> QED
    BY <1>8, <2>2, <2>3, <2>4
<1>13. ASSUME Len(rows) < PageSize PROVE A2 = {}
  <2>1. \A j \in DOMAIN list : ~ (j > B + PageSize)
    BY <1>3, <1>4, <1>5, <1>13
  <2> QED
    BY <1>4, <2>1 DEF Beyond
<1> HIDE DEF A2
<1>14. CASE rows = <<>>
  <2>1. pc' = "returned" /\ UNCHANGED <<page, unread, last, out>>
    BY <1>14 DEF GetList, Return, rows
  <2>2. Found' = Found /\ Taken' = Taken /\ Found = Range(out) /\ Due' = Due
    BY <1>0, <1>1, <2>1 DEF Found, Taken, Names, Due
  <2>3. N = {} /\ A2 = {}
    <3>1. Len(rows) = 0 /\ DOMAIN rows = {}
      BY <1>14
    <3> QED
      BY <1>4, <1>8, <1>13, <3>1
  <2>4. Missed' = Lost
    BY <1>0, <1>12, <2>1, <2>2, <2>3 DEF Missed, Lost
  <2> QED
    BY <1>0, <1>1, <2>1, <2>2, <2>4 DEF Counting, ListedOnce
<1>15. CASE rows # <<>>
  <2>1. /\ Found' = Found \cup N /\ Taken' = Taken + Cardinality(N) /\ Taken \in Nat
    BY <1>8, <1>15, PageIsFound DEF rows, N
  <2>2. /\ IsFiniteSet(Found \cup N)
        /\ Cardinality(Found) \in Nat /\ Cardinality(N) \in Nat
        /\ Cardinality(Found \cap Ahead) \in Nat /\ Cardinality(Found \cup N) \in Nat
        /\ Cardinality((Found \cup N) \cap A2) \in Nat
        /\ Cardinality(N) - Cardinality(Found \cup N) + Cardinality((Found \cup N) \cap A2)
             <= Cardinality(Found \cap Ahead) - Cardinality(Found)
    <3>1. IsFiniteSet(Found) /\ IsFiniteSet(N) /\ N \subseteq Ahead /\ A2 \subseteq Ahead /\ N \cap A2 = {}
      BY <1>0, <1>8, <1>9, <1>10, <1>11
    <3> QED
      BY <3>1, PageCounts, Zenon
  <2>3. /\ Taken' - Cardinality(Found') + Cardinality(Found' \cap A2) <= insertions
        /\ Taken' - Cardinality(Found') <= insertions
    <3> DEFINE f == Cardinality(Found)
    <3> DEFINE n == Cardinality(N)
    <3> DEFINE g == Cardinality(Found \cap Ahead)
    <3> DEFINE u == Cardinality(Found \cup N)
    <3> DEFINE h == Cardinality((Found \cup N) \cap A2)
    <3>1. /\ f \in Nat /\ n \in Nat /\ g \in Nat /\ u \in Nat /\ h \in Nat
          /\ n - u + h <= g - f
      BY <2>2
    <3>2. Taken - f + g <= insertions
      BY <1>0 DEF Again
    <3> HIDE DEF f, n, g, u, h
    <3>3. (Taken + n) - u + h <= insertions /\ (Taken + n) - u <= insertions
      BY <1>0, <2>1, <3>1, <3>2
    <3> QED
      BY <2>1, <3>3, Zenon DEF n, u, h
  <2>4. Taken' - Cardinality(Found') <= insertions
    BY <2>3
  <2>5. Due' = Due
    BY <1>1 DEF Due
  <2>6. (Due' \ Found') \ A2 \subseteq Lost
    BY <1>0, <1>12, <2>1, <2>5 DEF Lost
  <2>7. IsFiniteSet(Lost)
    <3>1. Lost \subseteq steady
      BY DEF Lost, Due
    <3> QED
      BY <1>0, <3>1, FS_Subset
  <2>8. /\ Cardinality((Due' \ Found') \ A2) <= removals
        /\ (Len(rows) < PageSize => Cardinality(Due' \ Found') <= removals)
    <3>1. /\ Cardinality((Due' \ Found') \ A2) \in Nat /\ Cardinality(Lost) \in Nat
          /\ Cardinality((Due' \ Found') \ A2) <= Cardinality(Lost)
      BY <2>6, <2>7, NoMore
    <3>2. Len(rows) < PageSize => (Due' \ Found') \ A2 = Due' \ Found'
      BY <1>13
    <3>3. Cardinality((Due' \ Found') \ A2) <= removals
      BY <1>0, <3>1
    <3> QED
      BY <3>2, <3>3
  <2>9. IsFiniteSet(Found') /\ IsFiniteSet(steady') /\ ListedOnce(list)'
    BY <1>0, <1>1, <2>1, <2>2 DEF ListedOnce
  <2>10. CASE type = "infra.dns" /\ Len(rows) < PageSize
    <3>1. pc' = "returned" /\ UNCHANGED <<unread, last>>
      BY <1>15, <2>10 DEF GetList, TurnPage, IsLast, Return, rows
    <3>2. Missed' = Due' \ Found'
      BY <1>0, <3>1 DEF Missed, Found, Names
    <3>3. Cardinality(Missed') <= removals' /\ Taken' - Cardinality(Found') <= insertions'
      BY <1>1, <2>4, <2>8, <2>10, <3>2
    <3> QED
      BY <2>9, <3>1, <3>3 DEF Counting
  <2>11. CASE type = "infra.dns" /\ ~ (Len(rows) < PageSize)
    <3>1. pc' = "asking" /\ page' = page + 1 /\ UNCHANGED <<unread, last, answer>>
      BY <1>15, <2>11 DEF GetList, TurnPage, IsLast, PageAfter, rows
    <3>2. Border' = page * PageSize
      BY <1>4, <3>1 DEF Border
    <3>3. Ahead' = A2
      BY <1>1, <3>2 DEF Ahead, Beyond, A2
    <3>4. Again' = Found' \cap A2 /\ Lost' = (Due' \ Found') \ A2
      BY <1>0, <3>1, <3>3 DEF Again, Lost
    <3>5. answer' # "ok"
      BY <1>0, <3>1 DEF Counting
    <3> QED
      BY <1>0, <1>1, <2>3, <2>4, <2>8, <2>9, <3>1, <3>4, <3>5 DEF Counting
  <2>12. CASE type # "infra.dns"
    <3>1. /\ pc' = "reading" /\ page' = page /\ answer' = answer
          /\ last' = (Len(rows) < PageSize)
      BY <1>15, <2>12 DEF GetList, IsLast, rows
    <3>2. Border' = page * PageSize
      BY <3>1 DEF Border
    <3>3. Ahead' = A2
      BY <1>1, <3>2 DEF Ahead, Beyond, A2
    <3>4. Again' = Found' \cap A2 /\ Lost' = (Due' \ Found') \ A2
      <4>1. CASE Len(rows) < PageSize
        BY <1>13, <3>1, <3>3, <4>1 DEF Again, Lost
      <4>2. CASE ~ (Len(rows) < PageSize)
        BY <3>1, <3>3, <4>2 DEF Again, Lost
      <4> QED
        BY <4>1, <4>2
    <3>5. answer' # "ok"
      BY <1>0, <3>1 DEF Counting
    <3>6. pc' = "reading"
      BY <3>1
    <3>7. /\ Taken' - Cardinality(Found') + Cardinality(Again') <= insertions'
          /\ Cardinality(Lost') <= removals'
          /\ Taken' - Cardinality(Found') <= insertions'
      BY <1>1, <2>3, <2>4, <2>8, <3>4, Zenon
    <3> QED
      BY <2>9, <3>5, <3>6, <3>7 DEF Counting
  <2> QED
    BY <2>10, <2>11, <2>12
<1> QED
  BY <1>14, <1>15

\* What a change of the account does to the counts: names of the rows ahead may
\* come and go, one of each.
LEMMA ChangeCounts ==
  ASSUME IInv, Counting, MayChange,
         UNCHANGED loop,
         steady' \subseteq steady, was \subseteq was', ListedOnce(list)',
         NEW x, NEW y, NEW a \in Nat, NEW r \in Nat,
         insertions' = insertions + a, Ahead' \subseteq Ahead \cup (IF a = 0 THEN {} ELSE {x}),
         removals' = removals + r,
         Ahead \cap Due' \subseteq Ahead' \cup (IF r = 0 THEN {} ELSE {y})
  PROVE  Counting'
<1>0. /\ pc \in {"asking", "reading"} /\ insertions \in Nat /\ removals \in Nat
      /\ IsFiniteSet(steady) /\ IsFiniteSet(Found)
      /\ pc = "asking" => unread = <<>> /\ last = FALSE
      /\ Taken - Cardinality(Found) <= insertions
      /\ Taken - Cardinality(Found) + Cardinality(Again) <= insertions
      /\ Cardinality(Lost) <= removals
      /\ answer # "ok"
  BY DEF MayChange, Counting, IInv, TypeOK
<1>1. UNCHANGED <<type, pc, page, unread, last, out, answer>>
  BY DEF loop
<1>2. Found' = Found /\ Taken' = Taken /\ Taken \in Nat /\ Cardinality(Found) \in Nat
  <2>1. Len(out) \in Nat /\ Len(unread) \in Nat
    BY DEF IInv, TypeOK
  <2> QED
    BY <1>0, <1>1, <2>1, FS_CardinalityType DEF Found, Taken, Names
<1>3. Due' \subseteq Due
  BY <1>1 DEF Due
<1>4. IsFiniteSet(Again) /\ IsFiniteSet(Lost)
  <2>1. Again \subseteq Found /\ Lost \subseteq steady
    BY DEF Again, Lost, Due
  <2> QED
    BY <1>0, <2>1, FS_Subset
<1>5. /\ Cardinality(Again') \in Nat /\ Cardinality(Again) \in Nat
      /\ Cardinality(Again') <= Cardinality(Again) + a
  <2>1. CASE a = 0
    <3>1. Again' \subseteq Again
      BY <1>2, <2>1 DEF Again
    <3> QED
      BY <1>4, <2>1, <3>1, NoMore
  <2>2. CASE a # 0
    <3>1. Again' \subseteq Again \cup {x}
      BY <1>2, <2>2 DEF Again
    <3>2. /\ Cardinality(Again') \in Nat /\ Cardinality(Again) \in Nat
          /\ Cardinality(Again') <= Cardinality(Again) + 1
      BY <1>4, <3>1, OneMore
    <3> QED
      BY <2>2, <3>2
  <2> QED
    BY <2>1, <2>2
<1>6. /\ Cardinality(Lost') \in Nat /\ Cardinality(Lost) \in Nat
      /\ Cardinality(Lost') <= Cardinality(Lost) + r
  <2>1. CASE r = 0
    <3>1. Lost' \subseteq Lost
      BY <1>1, <1>2, <1>3, <2>1 DEF Lost
    <3> QED
      BY <1>4, <2>1, <3>1, NoMore
  <2>2. CASE r # 0
    <3>1. Lost' \subseteq Lost \cup {y}
      BY <1>1, <1>2, <1>3, <2>2 DEF Lost
    <3>2. /\ Cardinality(Lost') \in Nat /\ Cardinality(Lost) \in Nat
          /\ Cardinality(Lost') <= Cardinality(Lost) + 1
      BY <1>4, <3>1, OneMore
    <3> QED
      BY <2>2, <3>2
  <2> QED
    BY <2>1, <2>2
<1>7. /\ Taken' - Cardinality(Found') <= insertions'
      /\ Taken' - Cardinality(Found') + Cardinality(Again') <= insertions'
      /\ Cardinality(Lost') <= removals'
  <2>1. /\ Taken - Cardinality(Found) <= insertions + a
        /\ Taken - Cardinality(Found) + Cardinality(Again') <= insertions + a
        /\ Cardinality(Lost') <= removals + r
    BY <1>0, <1>2, <1>5, <1>6
  <2> QED
    BY <1>2, <2>1, Zenon
<1>8. IsFiniteSet(steady') /\ IsFiniteSet(Found')
  BY <1>0, <1>2, FS_Subset
<1> QED
  BY <1>0, <1>1, <1>7, <1>8 DEF Counting

\* A domain that is added is ahead itself, or moves the last row passed back.
LEMMA AddCounts ==
  ASSUME IInv, Counting, NEW d \in Domains, NEW i \in 1..(Len(list) + 1), Add(d, i)
  PROVE  Counting'
<1> DEFINE B == Border
<1>1. PICK row \in Rows : list' = InsertAt(list, i, row) /\ row.name = d
  BY DEF Add, Rows
<1>2. /\ MayChange /\ d \notin Names(list) /\ UNCHANGED loop
      /\ steady' = steady /\ was \subseteq was'
      /\ insertions' = insertions + 1 /\ removals' = removals
  BY DEF Add
<1>3. /\ list \in Seq(Rows) /\ Len(list) \in Nat /\ ListedOnce(list) /\ removals \in Nat
      /\ DOMAIN list = 1..Len(list)
  BY DEF IInv, TypeOK, Counting
<1>4. /\ list' \in Seq(Rows) /\ Len(list') = Len(list) + 1
      /\ \A k \in 1..(i - 1) : list'[k] = list[k]
      /\ list'[i] = row
      /\ \A k \in i..Len(list) : list'[k + 1] = list[k]
  <2>1. list \in Seq(Rows) /\ row \in Rows /\ i \in 1..(Len(list) + 1)
    BY <1>3
  <2>2. InsertAt(list, i, row) \in Seq(Rows) /\ IsInserted(list, i, row, InsertAt(list, i, row))
    BY <2>1, InsertKeeps
  <2> QED
    BY <1>1, <2>2, Zenon DEF IsInserted
<1>5. DOMAIN list' = 1..(Len(list) + 1)
  BY <1>4
\* Where the rows of the new list come from.
<1> DEFINE from(k) == IF k < i THEN k ELSE k - 1
<1>6. \A k \in DOMAIN list' : k # i => from(k) \in DOMAIN list /\ list'[k] = list[from(k)]
  <2>1. SUFFICES ASSUME NEW k \in 1..(Len(list) + 1), k # i
                 PROVE  from(k) \in DOMAIN list /\ list'[k] = list[from(k)]
    BY <1>5
  <2>2. CASE k < i
    BY <1>3, <1>4, <2>1, <2>2
  <2>3. CASE k > i
    <3>1. k - 1 \in i..Len(list) /\ (k - 1) + 1 = k /\ ~ (k < i)
      BY <1>3, <2>1, <2>3
    <3>2. list'[(k - 1) + 1] = list[k - 1]
      BY <1>4, <3>1
    <3>3. k - 1 \in DOMAIN list
      BY <1>3, <3>1
    <3> QED
      BY <3>1, <3>2, <3>3
  <2> QED
    BY <2>1, <2>2, <2>3
<1>7. ListedOnce(list')
  <2>1. SUFFICES ASSUME NEW k \in DOMAIN list', NEW l \in DOMAIN list',
                        list'[k].name = list'[l].name, list'[k].name # Blank
                 PROVE  k = l
    BY DEF ListedOnce
  <2>2. \A m \in DOMAIN list' : m # i => list'[m].name \in Names(list)
    BY <1>6 DEF Names
  <2>3. CASE k = i \/ l = i
    BY <1>1, <1>2, <1>4, <2>1, <2>2, <2>3
  <2>4. CASE k # i /\ l # i
    <3>1. from(k) = from(l)
      BY <1>3, <1>6, <2>1, <2>4 DEF ListedOnce
    <3> QED
      BY <1>5, <2>1, <2>4, <3>1
  <2> QED
    BY <2>3, <2>4
<1>8. B \in Nat /\ Border' = B
  <2>1. page \in Nat \ {0}
    BY DEF IInv, TypeOK
  <2>2. B \in Nat
    BY <2>1, Pages DEF Border
  <2> QED
    BY <1>2, <2>2 DEF Border, loop
<1> HIDE DEF B
<1>9. Ahead = {list[k].name : k \in {j \in DOMAIN list : j > B}}
  BY DEF Ahead, Beyond, B
<1>10. Ahead' = {list'[k].name : k \in {j \in DOMAIN list' : j > B}}
  BY <1>8 DEF Ahead, Beyond
<1> DEFINE x == IF i > B THEN d ELSE list[B].name
<1>11. Ahead' \subseteq Ahead \cup {x}
  <2>1. SUFFICES ASSUME NEW k \in DOMAIN list', k > B, list'[k].name # x
                 PROVE  list'[k].name \in Ahead
    BY <1>10
  <2>2. k # i
    BY <1>1, <1>4, <2>1
  <2>3. from(k) > B
    <3>1. CASE k < i
      BY <2>1, <3>1
    <3>2. CASE k > i
      <4>1. k - 1 # B
        <5>1. SUFFICES ASSUME k - 1 = B PROVE FALSE
          OBVIOUS
        <5>2. ~ (i > B) /\ from(k) = B
          BY <1>5, <1>8, <2>1, <3>2, <5>1
        <5> QED
          BY <1>6, <2>1, <2>2, <5>2
      <4> QED
        BY <1>5, <1>8, <2>1, <3>2, <4>1
    <3> QED
      BY <1>5, <2>2, <3>1, <3>2
  <2> QED
    BY <1>6, <1>9, <2>1, <2>2, <2>3
<1>12. Ahead \subseteq Ahead'
  <2>1. SUFFICES ASSUME NEW k \in DOMAIN list, k > B PROVE list[k].name \in Ahead'
    BY <1>9
  <2>2. CASE k < i
    <3>1. k \in DOMAIN list' /\ list'[k] = list[k]
      BY <1>3, <1>4, <1>5, <2>1, <2>2
    <3> QED
      BY <1>10, <2>1, <3>1
  <2>3. CASE ~ (k < i)
    <3>1. k + 1 \in DOMAIN list' /\ k + 1 > B /\ list'[k + 1] = list[k]
      BY <1>3, <1>4, <1>5, <1>8, <2>1, <2>3
    <3> QED
      BY <1>10, <3>1
  <2> QED
    BY <2>2, <2>3
<1> HIDE DEF x
<1>13. /\ insertions' = insertions + 1 /\ Ahead' \subseteq Ahead \cup (IF 1 = 0 THEN {} ELSE {x})
       /\ removals' = removals + 0
       /\ Ahead \cap Due' \subseteq Ahead' \cup (IF 0 = 0 THEN {} ELSE {x})
  BY <1>2, <1>3, <1>11, <1>12
<1> QED
  BY <1>2, <1>7, <1>13, ChangeCounts

\* A domain that leaves was not steady; the row after the last one passed moves to it.
LEMMA DropCounts ==
  ASSUME IInv, Counting, NEW i \in DOMAIN list, Drop(i)
  PROVE  Counting'
<1> DEFINE B == Border
<1>2. /\ MayChange /\ UNCHANGED loop /\ list' = RemoveAt(list, i)
      /\ steady' = steady \ {list[i].name} /\ was' = was
      /\ insertions' = insertions /\ removals' = removals + 1
  BY DEF Drop
<1>3. /\ list \in Seq(Rows) /\ Len(list) \in Nat /\ ListedOnce(list) /\ insertions \in Nat
      /\ DOMAIN list = 1..Len(list)
  BY DEF IInv, TypeOK, Counting
<1>4. /\ list' \in Seq(Rows) /\ Len(list') = Len(list) - 1
      /\ \A k \in 1..(i - 1) : list'[k] = list[k]
      /\ \A k \in (i + 1)..Len(list) : list'[k - 1] = list[k]
  <2>1. list \in Seq(Rows) /\ i \in DOMAIN list
    BY <1>3
  <2>2. RemoveAt(list, i) \in Seq(Rows) /\ IsRemoved(list, i, RemoveAt(list, i))
    BY <2>1, RemoveKeeps
  <2> QED
    BY <1>2, <2>2, Zenon DEF IsRemoved
<1>5. DOMAIN list' = 1..(Len(list) - 1)
  BY <1>4
\* Where the rows of the new list come from.
<1> DEFINE from(k) == IF k < i THEN k ELSE k + 1
<1>6. \A k \in DOMAIN list' : from(k) \in DOMAIN list /\ list'[k] = list[from(k)]
  <2>1. SUFFICES ASSUME NEW k \in 1..(Len(list) - 1)
                 PROVE  from(k) \in DOMAIN list /\ list'[k] = list[from(k)]
    BY <1>5
  <2>2. CASE k < i
    BY <1>3, <1>4, <2>1, <2>2
  <2>3. CASE ~ (k < i)
    <3>1. k + 1 \in (i + 1)..Len(list) /\ (k + 1) - 1 = k
      BY <1>3, <2>1, <2>3
    <3>2. list'[(k + 1) - 1] = list[k + 1]
      BY <1>4, <3>1
    <3>3. k + 1 \in DOMAIN list
      BY <1>3, <3>1
    <3> QED
      BY <2>3, <3>1, <3>2, <3>3
  <2> QED
    BY <2>2, <2>3
<1>7. ListedOnce(list')
  <2>1. SUFFICES ASSUME NEW k \in DOMAIN list', NEW l \in DOMAIN list',
                        list'[k].name = list'[l].name, list'[k].name # Blank
                 PROVE  k = l
    BY DEF ListedOnce
  <2>2. from(k) = from(l)
    BY <1>3, <1>6, <2>1 DEF ListedOnce
  <2> QED
    BY <1>3, <1>5, <2>1, <2>2
<1>8. B \in Nat /\ Border' = B
  <2>1. page \in Nat \ {0}
    BY DEF IInv, TypeOK
  <2>2. B \in Nat
    BY <2>1, Pages DEF Border
  <2> QED
    BY <1>2, <2>2 DEF Border, loop
<1> HIDE DEF B
<1>9. Ahead = {list[k].name : k \in {j \in DOMAIN list : j > B}}
  BY DEF Ahead, Beyond, B
<1>10. Ahead' = {list'[k].name : k \in {j \in DOMAIN list' : j > B}}
  BY <1>8 DEF Ahead, Beyond
<1>11. Ahead' \subseteq Ahead
  <2>1. SUFFICES ASSUME NEW k \in DOMAIN list', k > B
                 PROVE  list'[k].name \in Ahead
    BY <1>10
  <2>2. from(k) > B
    BY <1>5, <1>8, <2>1
  <2> QED
    BY <1>6, <1>9, <2>1, <2>2
<1> DEFINE y == list[B + 1].name
<1>12. Ahead \cap Due' \subseteq Ahead' \cup {y}
  <2>1. SUFFICES ASSUME NEW k \in DOMAIN list, k > B, list[k].name # y, list[k].name \in Due'
                 PROVE  list[k].name \in Ahead'
    BY <1>9
  <2>2. k # i /\ k # B + 1
    BY <1>2, <2>1 DEF Due
  <2>3. CASE k < i
    <3>1. k \in DOMAIN list' /\ list'[k] = list[k]
      BY <1>3, <1>4, <1>5, <2>1, <2>3
    <3> QED
      BY <1>10, <2>1, <3>1
  <2>4. CASE k > i
    <3>1. k - 1 \in DOMAIN list' /\ k - 1 > B /\ list'[k - 1] = list[k]
      BY <1>3, <1>4, <1>5, <1>8, <2>1, <2>2, <2>4
    <3> QED
      BY <1>10, <3>1
  <2> QED
    BY <1>3, <2>1, <2>2, <2>3, <2>4
<1> HIDE DEF y
<1>13. /\ insertions' = insertions + 0 /\ Ahead' \subseteq Ahead \cup (IF 0 = 0 THEN {} ELSE {y})
       /\ removals' = removals + 1
       /\ Ahead \cap Due' \subseteq Ahead' \cup (IF 1 = 0 THEN {} ELSE {y})
       /\ steady' \subseteq steady /\ was \subseteq was'
  BY <1>2, <1>3, <1>11, <1>12
<1> QED
  BY <1>2, <1>7, <1>13, ChangeCounts

\* A change of nameservers moves no row.
LEMMA SwitchCounts ==
  ASSUME IInv, Counting, NEW i \in DOMAIN list, Switch(i)
  PROVE  Counting'
<1>1. PICK ours \in {"yes", "no"} :
        /\ list' = [list EXCEPT ![i].ours = ours]
        /\ was' = was \cup {[list[i] EXCEPT !.ours = ours]}
  BY DEF Switch
<1>2. /\ MayChange /\ UNCHANGED loop
      /\ steady' = steady /\ was \subseteq was'
      /\ insertions' = insertions /\ removals' = removals
  BY <1>1 DEF Switch
<1>3. /\ list \in Seq(Rows) /\ ListedOnce(list) /\ insertions \in Nat /\ removals \in Nat
      /\ \A k \in DOMAIN list : list[k] \in Rows
  <2>1. list \in Seq(Rows)
    BY DEF IInv, TypeOK
  <2> QED
    BY <2>1, ElementOfSeq DEF IInv, TypeOK, Counting
<1>4. DOMAIN list' = DOMAIN list /\ \A k \in DOMAIN list : list'[k].name = list[k].name
  <2> DEFINE row == [list[i] EXCEPT !.ours = ours]
  <2>1. list' = [list EXCEPT ![i] = row]
    BY <1>1, Zenon
  <2>2. row.name = list[i].name
    BY <1>3 DEF Rows
  <2> HIDE DEF row
  <2> QED
    BY <2>1, <2>2
<1>5. ListedOnce(list')
  BY <1>3, <1>4 DEF ListedOnce
<1>6. Border' = Border
  BY <1>2 DEF Border, loop
<1>7. Ahead' = Ahead
  BY <1>4, <1>6 DEF Ahead, Beyond
<1>8. /\ insertions' = insertions + 0 /\ Ahead' \subseteq Ahead \cup (IF 0 = 0 THEN {} ELSE {Blank})
      /\ removals' = removals + 0
      /\ Ahead \cap Due' \subseteq Ahead' \cup (IF 0 = 0 THEN {} ELSE {Blank})
      /\ steady' \subseteq steady
  BY <1>2, <1>3, <1>7
<1> QED
  BY <1>2, <1>5, <1>8, ChangeCounts

\* Every step keeps the counts.
LEMMA StepCounts == IInv /\ Counting /\ [Next]_vars => Counting'
<1> SUFFICES ASSUME IInv, Counting, [Next]_vars PROVE Counting'
  OBVIOUS
<1>1. CASE \E t \in {"infra.dns", "infra.dns_delegation", "infra.domain_transfer"} : Start(t)
  BY <1>1, StartCounts
<1>2. CASE Handler
  BY <1>2, GetListCounts, ReadCounts, FailCounts, PageDoneCounts DEF Handler
<1>3. CASE Account
  BY <1>3, AddCounts, DropCounts, SwitchCounts DEF Account
<1>4. CASE UNCHANGED vars
  <2>1. UNCHANGED <<type, pc, page, unread, last, out, answer,
                    list, was, steady, removals, insertions>>
    BY <1>4 DEF vars, loop, account
  <2>2. /\ Found' = Found /\ Taken' = Taken /\ Again' = Again /\ Lost' = Lost /\ Missed' = Missed
    BY <2>1 DEF Found, Taken, Again, Lost, Missed, Due, Names, Ahead, Beyond, Border
  <2> QED
    BY <2>1, <2>2 DEF Counting, ListedOnce, Names
<1> QED
  BY <1>1, <1>2, <1>3, <1>4 DEF Next

-----------------------------------------------------------------------------
(* How long an enumeration can be                                          *)

\* The pages asked for so far and found full were full of rows that are in the
\* account or have left it.
PagesAreBounded == (page - 1) * PageSize <= Len(list) + removals

\* With the page in hand counted too, once it has been seen to be full.
FullPages ==
  /\ PagesAreBounded
  /\ pc = "reading" /\ ~last => page * PageSize <= Len(list) + removals

\* No change of the account takes a row back that was counted.
LEMMA RowsStayCounted ==
  ASSUME IInv, Account
  PROVE  Len(list) + removals <= Len(list') + removals'
<1>1. list \in Seq(Rows) /\ removals \in Nat /\ Len(list) \in Nat
  BY DEF IInv, TypeOK
<1>2. ASSUME NEW d \in Domains, NEW i \in 1..(Len(list) + 1), Add(d, i)
      PROVE  Len(list') = Len(list) + 1 /\ removals' = removals
  <2>1. PICK row \in Rows : list' = InsertAt(list, i, row)
    BY <1>2 DEF Add, Rows
  <2> QED
    BY <1>1, <1>2, <2>1, InsertKeeps DEF IsInserted, Add
<1>3. ASSUME NEW i \in DOMAIN list, Drop(i)
      PROVE  Len(list') = Len(list) - 1 /\ removals' = removals + 1
  BY <1>1, <1>3, RemoveKeeps DEF IsRemoved, Drop
<1>4. ASSUME NEW i \in DOMAIN list, Switch(i)
      PROVE  Len(list') = Len(list) /\ removals' = removals
  <2>1. PICK ours : list' = [list EXCEPT ![i].ours = ours]
    BY <1>4 DEF Switch
  <2> DEFINE row == [list[i] EXCEPT !.ours = ours]
  <2>2. list' = [list EXCEPT ![i] = row]
    BY <2>1, Zenon
  <2> HIDE DEF row
  <2>3. Len(list') = Len(list)
    BY <1>1, <2>2
  <2> QED
    BY <1>4, <2>3 DEF Switch
<1>5. Len(list') - Len(list) + (removals' - removals) \in {0, 1}
      /\ Len(list') \in Int /\ removals' \in Int
  BY <1>1, <1>2, <1>3, <1>4 DEF Account
<1> QED
  BY <1>1, <1>5

\* Every step of the loop keeps the count, and so does the account.
LEMMA FullPagesKept == IInv /\ FullPages /\ [Next]_vars => FullPages'
<1> DEFINE B == (page - 1) * PageSize
           E == page * PageSize
           N == Len(list) + removals
<1> SUFFICES ASSUME IInv, FullPages, [Next]_vars PROVE FullPages'
  OBVIOUS
<1>1. /\ list \in Seq(Rows) /\ page \in Nat \ {0} /\ (page + 1) - 1 = page
      /\ Len(list) \in Nat /\ removals \in Nat
  BY DEF IInv, TypeOK
<1>2. B \in Nat /\ E \in Nat /\ E = B + PageSize /\ PageSize \in Nat \ {0}
  BY <1>1, Pages
<1>3. B <= N /\ (pc = "reading" /\ ~last => E <= N)
  BY DEF FullPages, PagesAreBounded
<1>4. CASE Handler
  <2>1. list' = list /\ removals' = removals
    BY <1>4 DEF Handler, GetList, GetListFails, GetListNothing, ReadDelegation, ReadFails, PageDone, account
  <2>2. ASSUME ~ IsLast(Page(page)) PROVE E <= N
    <3>1. Page(page) \in Seq(Rows) /\ \A i \in DOMAIN Page(page) : B + i \in DOMAIN list
      BY <1>1, PageKeeps
    <3>2. PageSize \in DOMAIN Page(page)
      BY <1>2, <2>2, <3>1 DEF IsLast
    <3>3. B + PageSize \in 1..Len(list)
      BY <1>1, <3>1, <3>2
    <3> HIDE DEF B, E
    <3> QED
      BY <1>1, <1>2, <3>3
  <2>3. \/ page' = page /\ (pc' = "reading" /\ ~last' => E <= N)
        \/ page' = page + 1 /\ pc' = "asking" /\ E <= N
    <3> HIDE DEF B, E, N
    <3>1. CASE GetList
      BY <2>2, <3>1 DEF GetList, TurnPage, PageAfter, Return
    <3>2. CASE PageDone
      BY <1>3, <3>2 DEF PageDone, TurnPage, PageAfter, Return
    <3>3. CASE GetListFails \/ GetListNothing \/ ReadFails
      BY <3>3 DEF GetListFails, GetListNothing, ReadFails, Return
    <3>4. CASE ReadDelegation
      BY <1>3, <3>4 DEF ReadDelegation
    <3> QED
      BY <1>4, <3>1, <3>2, <3>3, <3>4 DEF Handler
  <2>4. CASE page' = page /\ (pc' = "reading" /\ ~last' => E <= N)
    BY <1>3, <2>1, <2>4 DEF FullPages, PagesAreBounded
  <2>5. CASE page' = page + 1 /\ pc' = "asking" /\ E <= N
    <3>1. (page' - 1) * PageSize = E
      BY <1>1, <2>5
    <3> HIDE DEF E
    <3> QED
      BY <2>1, <2>5, <3>1 DEF FullPages, PagesAreBounded
  <2> QED
    BY <2>3, <2>4, <2>5
<1>5. CASE Account
  <2>1. UNCHANGED loop
    BY <1>1, <1>5, AccountKeeps DEF IInv
  <2>2. N <= Len(list') + removals' /\ Len(list') \in Nat /\ removals' \in Nat
    <3>1. list' \in Seq(Rows) /\ removals' \in Nat
      BY <1>5, AccountKeeps DEF IInv
    <3> QED
      BY <1>5, <3>1, RowsStayCounted
  <2>3. B' = B /\ E' = E /\ pc' = pc /\ last' = last
    BY <2>1 DEF loop
  <2> HIDE DEF B, E
  <2>4. B <= Len(list') + removals' /\ (pc' = "reading" /\ ~last' => E <= Len(list') + removals')
    BY <1>1, <1>2, <1>3, <2>2, <2>3
  <2> QED
    BY <2>3, <2>4 DEF FullPages, PagesAreBounded, B, E
<1>6. CASE UNCHANGED vars
  BY <1>6 DEF vars, loop, account, FullPages, PagesAreBounded
<1>7. CASE \E t \in {"infra.dns", "infra.dns_delegation", "infra.domain_transfer"} : Start(t)
  <2>1. UNCHANGED <<page, last, list, removals>> /\ pc' # "reading"
    BY <1>7 DEF Start, Return, account
  <2> QED
    BY <2>1 DEF FullPages, PagesAreBounded
<1> QED
  BY <1>4, <1>5, <1>6, <1>7 DEF Next

-----------------------------------------------------------------------------
(* The theorems                                                            *)

\* The inductive invariant holds in every reachable state.
THEOREM Invariance == Spec => []IInv
BY InitEstablishes, StepPreserves, PTL DEF Spec

\* Whatever the account does meanwhile, EnumerateAll reports domains and nothing
\* else, and its account stays a list of rows.
THEOREM TypeCorrect == Spec => []TypeOK
<1>1. IInv => TypeOK
  BY DEF IInv
<1> QED
  BY <1>1, Invariance, PTL

\* EnumerateAll reports only domains that the account had during the call and,
\* for infra.dns, that were not known to have foreign DNS; for any page size, and
\* however often the account changes between two pages.
THEOREM OnlyHostedAreReported == Spec => []ReportedWereHosted
<1>1. ASSUME IInv PROVE ReportedWereHosted
  <2>1. Range(out) \subseteq Hosted
    BY <1>1, RangeOfSeq DEF IInv
  <2> QED
    BY <2>1 DEF ReportedWereHosted, Hosted, WereReported, IsReported, IsNamed
<1> QED
  BY <1>1, Invariance, PTL

\* The counts are kept, whatever the account does between two pages.
THEOREM CountsKept == Spec => []Counting
BY InitCounts, StepCounts, Invariance, PTL DEF Spec

\* An enumeration that ends well has missed no more of the domains that it had to
\* find than have left the account meanwhile, and it never reports more of them again
\* than were added: EnumerateAll loses nothing by its pages themselves, for any number
\* of domains, pages and changes.
THEOREM DamageIsBounded == Spec => []EachChangeDamagesOne
<1>1. ASSUME IInv, Counting PROVE EachChangeDamagesOne
  <2>1. answer = "ok" => Cardinality(Missed) <= removals
    BY <1>1 DEF Counting
  <2> DEFINE R == Range(out)
  <2> DEFINE U == Names(unread)
  <2>2. /\ out \in Seq(Domains) /\ unread \in Seq(Rows) /\ insertions \in Nat
        /\ IsFiniteSet(R \cup U) /\ (Len(out) + Len(unread)) - Cardinality(R \cup U) <= insertions
    BY <1>1 DEF IInv, TypeOK, Counting, Found, Taken
  <2>3. IsFiniteSet(U) /\ Cardinality(U) <= Len(unread)
    BY <2>2, NamesAreFewer
  <2> HIDE DEF R, U
  <2>4. IsFiniteSet(R)
    BY <2>2, FS_Subset
  <2>5. Cardinality(R \cup U) = Cardinality(R) + Cardinality(U) - Cardinality(R \cap U)
    BY <2>3, <2>4, FS_Union
  <2>6. Cardinality(R \cap U) \in Nat /\ Cardinality(R) \in Nat /\ Cardinality(U) \in Nat
    BY <2>3, <2>4, FS_Intersection, FS_CardinalityType
  <2>7. Len(out) \in Nat /\ Len(unread) \in Nat
    BY <2>2
  <2>8. Len(out) - Cardinality(R) <= insertions
    BY <2>2, <2>3, <2>5, <2>6, <2>7
  <2> QED
    BY <2>1, <2>8 DEF EachChangeDamagesOne, R
<1> QED
  BY <1>1, Invariance, CountsKept, PTL

\* EnumerateAll asks for a page more only after one that was full of rows: however
\* the account changes meanwhile, the pages asked for so far fit into the rows there
\* are and those that have left.  Only an account that keeps growing can keep it going.
THEOREM LoopIsBounded == Spec => []PagesAreBounded
<1>1. Init => FullPages
  <2> SUFFICES ASSUME Init PROVE FullPages
    OBVIOUS
  <2>1. list \in Seq(Rows) /\ removals = 0 /\ page = 1 /\ pc = "idle"
    BY ListsAssumption DEF Init
  <2>2. (page - 1) * PageSize = 0
    BY <2>1, PageSizeAssumption
  <2> QED
    BY <2>1, <2>2 DEF FullPages, PagesAreBounded
<1>2. FullPages => PagesAreBounded
  BY DEF FullPages
<1> QED
  BY <1>1, <1>2, FullPagesKept, Invariance, PTL DEF Spec
=============================================================================
