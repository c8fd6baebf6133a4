---------------------------- MODULE LoaderLemmas ----------------------------
(***************************************************************************)
(* The inductive invariant of Loader and what its steps need of it: sums   *)
(* and parts of batches, the programs of the iterators, and how the queues *)
(* of items and of requests, the count of outstanding rows and the window  *)
(* change.  LoaderProofs has the steps of each iterator and the theorems.  *)
(***************************************************************************)
EXTENDS Loader, FiniteSetTheorems, SequenceTheorems, TLAPS

(***************************************************************************)
(* Sums and the parts of a batch                                           *)
(***************************************************************************)
\* The pairs that SumUpTo counts.
Cells(s, k) == UNION {{i} \X (1..s[i]) : i \in 1..k}

\* A row of n cells has n of them.
LEMMA RowCount ==
    ASSUME NEW a, NEW n \in Nat
    PROVE /\ IsFiniteSet({a} \X (1..n))
          /\ Cardinality({a} \X (1..n)) = n
<1>1. IsFiniteSet({a}) /\ Cardinality({a}) = 1
  BY FS_Singleton
<1>2. IsFiniteSet(1..n) /\ Cardinality(1..n) = n
  BY FS_Interval
<1>3. /\ IsFiniteSet({a} \X (1..n))
      /\ Cardinality({a} \X (1..n)) = Cardinality({a}) * Cardinality(1..n)
  BY <1>1, <1>2, FS_Product, Zenon
<1>4. Cardinality({a} \X (1..n)) = 1 * n
  BY <1>1, <1>2, <1>3
<1> QED BY <1>3, <1>4

\* Where the numbers are bounded the cells are finitely many.
LEMMA CellsFinite ==
    ASSUME NEW k \in Nat, NEW B \in Nat, NEW s,
           \A i \in 1..k : s[i] \in Nat /\ s[i] <= B
    PROVE IsFiniteSet(Cells(s, k)) /\ Cardinality(Cells(s, k)) \in Nat
<1>1. IsFiniteSet(1..k) /\ IsFiniteSet(1..B)
  BY FS_Interval
<1>2. IsFiniteSet((1..k) \X (1..B))
  BY <1>1, FS_Product
<1>3. Cells(s, k) \subseteq (1..k) \X (1..B)
  BY DEF Cells
<1>4. IsFiniteSet(Cells(s, k))
  BY <1>2, <1>3, FS_Subset
<1> QED BY <1>4, FS_CardinalityType

\* SumUpTo is the sum: nothing for 0, and the next number for the next index.
LEMMA SumStep ==
    ASSUME NEW k \in Nat, NEW B \in Nat, NEW s,
           \A i \in 1..(k + 1) : s[i] \in Nat /\ s[i] <= B
    PROVE /\ SumUpTo(s, k) \in Nat
          /\ SumUpTo(s, k + 1) = SumUpTo(s, k) + s[k + 1]
<1>0. s[k + 1] \in Nat
  OBVIOUS
<1>1. IsFiniteSet(Cells(s, k)) /\ Cardinality(Cells(s, k)) \in Nat
  BY CellsFinite
<1>2. /\ IsFiniteSet({k + 1} \X (1..s[k + 1]))
      /\ Cardinality({k + 1} \X (1..s[k + 1])) = s[k + 1]
  BY <1>0, RowCount, Zenon
<1>3. Cells(s, k + 1) = Cells(s, k) \cup ({k + 1} \X (1..s[k + 1]))
  BY DEF Cells
<1>4. Cells(s, k) \cap ({k + 1} \X (1..s[k + 1])) = {}
  BY DEF Cells
<1>5. Cardinality(Cells(s, k + 1))
        = Cardinality(Cells(s, k)) + Cardinality({k + 1} \X (1..s[k + 1]))
          - Cardinality(Cells(s, k) \cap ({k + 1} \X (1..s[k + 1])))
  BY <1>1, <1>2, <1>3, FS_Union, Zenon
<1>6. Cardinality(Cells(s, k) \cap ({k + 1} \X (1..s[k + 1]))) = 0
  BY <1>4, FS_EmptySet, Zenon
<1>7. Cardinality(Cells(s, k + 1)) = Cardinality(Cells(s, k)) + s[k + 1]
  BY <1>0, <1>1, <1>2, <1>5, <1>6
<1> QED BY <1>1, <1>7 DEF SumUpTo, Cells

LEMMA SumZero == \A s : SumUpTo(s, 0) = 0
<1>1. \A s : Cells(s, 0) = {}
  BY DEF Cells
<1> QED BY <1>1, FS_EmptySet DEF SumUpTo, Cells

\* Fewer numbers, no larger sum.
LEMMA SumMonotone ==
    ASSUME NEW k \in Nat, NEW m \in Nat, k <= m, NEW B \in Nat, NEW s,
           \A i \in 1..m : s[i] \in Nat /\ s[i] <= B
    PROVE /\ SumUpTo(s, k) \in Nat
          /\ SumUpTo(s, m) \in Nat
          /\ SumUpTo(s, k) <= SumUpTo(s, m)
<1>1. IsFiniteSet(Cells(s, m)) /\ Cardinality(Cells(s, m)) \in Nat
  BY CellsFinite
<1>2. Cells(s, k) \subseteq Cells(s, m)
  BY DEF Cells
<1>3. IsFiniteSet(Cells(s, k)) /\ Cardinality(Cells(s, k)) <= Cardinality(Cells(s, m))
  BY <1>1, <1>2, FS_Subset
<1>4. Cardinality(Cells(s, k)) \in Nat
  BY <1>3, FS_CardinalityType
<1> QED BY <1>1, <1>3, <1>4 DEF SumUpTo, Cells

\* What is used of division.
LEMMA DivMod ==
    ASSUME NEW n \in Nat, NEW k \in Nat \ {0}
    PROVE /\ n \div k \in Nat
          /\ n % k \in 0..(k - 1)
          /\ n = k * (n \div k) + (n % k)
<1>1. n \div k \in Nat
  OBVIOUS
<1>2. n % k \in 0..(k - 1)
  OBVIOUS
<1>3. n = k * (n \div k) + (n % k)
  OBVIOUS
<1> QED BY <1>1, <1>2, <1>3

LEMMA DivPositive ==
    ASSUME NEW n \in Nat, NEW k \in Nat \ {0}, k <= n
    PROVE n \div k >= 1
<1>1. n \div k \in Nat /\ n % k < k /\ n = k * (n \div k) + (n % k)
  BY DivMod
<1>2. CASE n \div k = 0
  <2>1. k * (n \div k) = 0
    BY <1>2
  <2> QED BY <1>1, <2>1
<1> QED BY <1>1, <1>2

\* _split_ranges divides the rows: every range has some, and together they
\* are all of them.
LEMMA SplitParts ==
    ASSUME NEW n \in Nat \ {0}
    PROVE /\ SplitSizes(n) \in Seq(Nat \ {0})
          /\ Len(SplitSizes(n)) >= 1
          /\ \A i \in 1..Len(SplitSizes(n)) : SplitSizes(n)[i] <= n
          /\ SumUpTo(SplitSizes(n), Len(SplitSizes(n))) = n
<1> DEFINE k == MinOf(Split, n)
           q == n \div k
           r == n % k
           s == SplitSizes(n)
<1>1. k \in Nat \ {0} /\ k <= n
  BY LoaderAssumption DEF MinOf
<1> HIDE DEF k
<1>2. q \in Nat /\ r \in 0..(k - 1) /\ n = k * q + r /\ q >= 1
  BY <1>1, DivMod, DivPositive
<1>3. s = [i \in 1..k |-> q + (IF i <= r THEN 1 ELSE 0)]
  BY DEF SplitSizes, k
<1> HIDE DEF q, r, s
<1>4. s \in Seq(Nat \ {0}) /\ Len(s) = k
  BY <1>1, <1>2, <1>3
<1> DEFINE A == (1..k) \X (1..q)
           C == (1..r) \X {q + 1}
<1>5. Cells(s, k) = A \cup C
  BY <1>1, <1>2, <1>3 DEF Cells
<1>6. IsFiniteSet(A) /\ Cardinality(A) = k * q
  <2>1. IsFiniteSet(1..k) /\ Cardinality(1..k) = k
    BY <1>1, FS_Interval
  <2>2. IsFiniteSet(1..q) /\ Cardinality(1..q) = q
    BY <1>2, FS_Interval
  <2>3. IsFiniteSet(A) /\ Cardinality(A) = Cardinality(1..k) * Cardinality(1..q)
    BY <2>1, <2>2, FS_Product, Zenon
  <2> QED BY <2>1, <2>2, <2>3
<1>7. IsFiniteSet(C) /\ Cardinality(C) = r
  <2>1. IsFiniteSet({q + 1}) /\ Cardinality({q + 1}) = 1
    BY FS_Singleton
  <2>2. IsFiniteSet(1..r) /\ Cardinality(1..r) = r
    BY <1>2, FS_Interval
  <2>3. IsFiniteSet(C) /\ Cardinality(C) = Cardinality(1..r) * Cardinality({q + 1})
    BY <2>1, <2>2, FS_Product, Zenon
  <2>4. Cardinality(C) = r * 1
    BY <2>1, <2>2, <2>3
  <2> QED BY <1>2, <2>3, <2>4
<1>8. A \cap C = {}
  BY <1>2
<1> HIDE DEF A, C
<1>9. Cardinality(A \cup C) = n
  <2>1. Cardinality(A \cup C) = Cardinality(A) + Cardinality(C) - Cardinality(A \cap C)
    BY <1>6, <1>7, FS_Union
  <2>2. Cardinality(A \cap C) = 0
    BY <1>8, FS_EmptySet
  <2> QED BY <1>1, <1>2, <1>6, <1>7, <2>1, <2>2
<1>10. SumUpTo(s, k) = n
  BY <1>5, <1>9 DEF SumUpTo, Cells
<1>11. \A i \in 1..k : s[i] <= n
  <2>1. k * q >= q
    BY <1>1, <1>2
  <2>2. CASE r = 0
    BY <1>1, <1>2, <1>3, <2>1, <2>2
  <2>3. CASE r > 0
    BY <1>1, <1>2, <1>3, <2>1, <2>3
  <2> QED BY <1>2, <2>2, <2>3
<1> QED BY <1>1, <1>4, <1>10, <1>11 DEF s

\* CIDS _split_batch does as well.
LEMMA ChunkParts ==
    ASSUME NEW n \in Nat \ {0}
    PROVE /\ ChunkSizes(n) \in Seq(Nat \ {0})
          /\ Len(ChunkSizes(n)) >= 1
          /\ \A i \in 1..Len(ChunkSizes(n)) : ChunkSizes(n)[i] <= n
          /\ SumUpTo(ChunkSizes(n), Len(ChunkSizes(n))) = n
<1> DEFINE k == MinOf(Split, n)
           c == CeilDiv(n, k)
           m == CeilDiv(n, c)
           s == ChunkSizes(n)
<1>1. k \in Nat \ {0} /\ k <= n
  BY LoaderAssumption DEF MinOf
<1> HIDE DEF k
<1>2. c \in Nat \ {0}
  <2>1. n + k - 1 \in Nat /\ k <= n + k - 1
    BY <1>1
  <2> QED BY <1>1, <2>1, DivMod, DivPositive DEF CeilDiv
<1> HIDE DEF c
<1>3. m \in Nat \ {0} /\ (n + c - 1) % c \in 0..(c - 1) /\ n + c - 1 = c * m + ((n + c - 1) % c)
  <2>1. n + c - 1 \in Nat /\ c <= n + c - 1
    BY <1>2
  <2> QED BY <1>2, <2>1, DivMod, DivPositive DEF CeilDiv
<1>4. s = [i \in 1..m |-> MinOf(c, n - (i - 1) * c)]
  BY DEF ChunkSizes, c, k
<1> HIDE DEF m, s
<1> DEFINE last == n - c * m + c
<1>5. last \in 1..c /\ last <= n
  <2>1. c * m >= c
    BY <1>2, <1>3
  <2> QED BY <1>2, <1>3, <2>1
<1>6. \A i \in 1..m : s[i] = IF i = m THEN last ELSE c
  <2> SUFFICES ASSUME NEW i \in 1..m
               PROVE s[i] = IF i = m THEN last ELSE c
    OBVIOUS
  <2>1. s[i] = MinOf(c, n - (i - 1) * c)
    BY <1>4
  <2>2. CASE i = m
    <3>1. n - (i - 1) * c = last
      BY <1>2, <1>3, <2>2
    <3> QED BY <1>2, <1>5, <2>1, <2>2, <3>1 DEF MinOf
  <2>3. CASE i < m
    <3>1. \E j \in Nat : m = i + 1 + j
      <4>1. m - i - 1 \in Nat /\ m = i + 1 + (m - i - 1)
        BY <1>3, <2>3
      <4> QED BY <4>1
    <3>2. PICK j \in Nat : m = i + 1 + j
      BY <3>1
    <3>3. c * m = c * i + c + c * j /\ (i - 1) * c = c * i - c /\ c * j >= 0 /\ c * i >= c
      BY <1>2, <1>3, <3>2
    <3>4. c * i \in Nat /\ c * j \in Nat /\ c * m \in Nat
      BY <1>2, <1>3, <3>2
    <3>5. n - (i - 1) * c > c
      BY <1>2, <1>5, <3>3, <3>4
    <3>6. n - (i - 1) * c \in Int
      BY <1>2, <3>3, <3>4
    <3> HIDE DEF last
    <3> QED BY <1>2, <2>1, <2>3, <3>5, <3>6 DEF MinOf
  <2> QED BY <1>3, <2>2, <2>3
<1>7. c <= n \/ m = 1
  <2>1. CASE m >= 2
    <3>1. c * m >= c * 2
      BY <1>2, <1>3, <2>1
    <3> QED BY <1>2, <1>3, <3>1
  <2> QED BY <1>3, <2>1
<1>8. s \in Seq(Nat \ {0}) /\ Len(s) = m
  <2>1. s = [i \in 1..m |-> s[i]]
    BY <1>4
  <2>2. \A i \in 1..m : s[i] \in Nat \ {0}
    BY <1>2, <1>5, <1>6
  <2> QED BY <1>3, <2>1, <2>2
<1>9. \A i \in 1..m : s[i] <= n
  BY <1>2, <1>3, <1>5, <1>6, <1>7
<1> DEFINE A == (1..(m - 1)) \X (1..c)
           C == {m} \X (1..last)
<1>10. Cells(s, m) = A \cup C
  <2> HIDE DEF last
  <2> QED BY <1>2, <1>3, <1>5, <1>6 DEF Cells
<1>11. IsFiniteSet(A) /\ Cardinality(A) = (m - 1) * c
  <2>1. IsFiniteSet(1..(m - 1)) /\ Cardinality(1..(m - 1)) = m - 1
    <3>1. m - 1 \in Int /\ 1 \in Int
      BY <1>3
    <3>2. /\ IsFiniteSet(1..(m - 1))
          /\ Cardinality(1..(m - 1)) = IF 1 > m - 1 THEN 0 ELSE (m - 1) - 1 + 1
      BY <3>1, FS_Interval, Zenon
    <3> QED BY <1>3, <3>2
  <2>2. IsFiniteSet(1..c) /\ Cardinality(1..c) = c
    BY <1>2, FS_Interval
  <2>3. IsFiniteSet(A) /\ Cardinality(A) = Cardinality(1..(m - 1)) * Cardinality(1..c)
    BY <2>1, <2>2, FS_Product, Zenon
  <2> QED BY <2>1, <2>2, <2>3
<1>12. IsFiniteSet(C) /\ Cardinality(C) = last
  <2>1. last \in Nat
    BY <1>5
  <2> HIDE DEF last
  <2> QED BY <2>1, RowCount, Zenon
<1>13. A \cap C = {}
  BY <1>3
<1> HIDE DEF A, C
<1>14. Cardinality(A \cup C) = n
  <2>1. Cardinality(A \cup C) = Cardinality(A) + Cardinality(C) - Cardinality(A \cap C)
    BY <1>11, <1>12, FS_Union
  <2>2. Cardinality(A \cap C) = 0
    BY <1>13, FS_EmptySet
  <2>3. (m - 1) * c = c * m - c /\ c * m \in Nat
    BY <1>2, <1>3
  <2> QED BY <1>2, <1>3, <1>11, <1>12, <2>1, <2>2, <2>3
<1>15. SumUpTo(s, m) = n
  BY <1>10, <1>14 DEF SumUpTo, Cells
<1> QED BY <1>3, <1>8, <1>9, <1>15 DEF s

\* However a batch is divided.
LEMMA Parts ==
    ASSUME NEW n \in Nat \ {0}
    PROVE /\ PartsOf(n) \in Seq(Nat \ {0})
          /\ Len(PartsOf(n)) >= 1
          /\ \A i \in 1..Len(PartsOf(n)) : PartsOf(n)[i] <= n
          /\ SumUpTo(PartsOf(n), Len(PartsOf(n))) = n
          /\ cfg.mode \notin {"split", "cids"} => PartsOf(n) = <<n>>
<1>1. CASE cfg.mode = "split"
  BY <1>1, SplitParts DEF PartsOf
<1>2. CASE cfg.mode = "cids"
  BY <1>2, ChunkParts DEF PartsOf
<1>3. CASE cfg.mode \notin {"split", "cids"}
  <2>1. PartsOf(n) = <<n>>
    BY <1>3 DEF PartsOf
  <2>2. Len(<<n>>) = 1 /\ <<n>>[1] = n /\ <<n>> \in Seq(Nat \ {0})
    OBVIOUS
  <2>3. SumUpTo(<<n>>, 0 + 1) = SumUpTo(<<n>>, 0) + <<n>>[0 + 1]
    BY <2>2, SumStep
  <2>4. SumUpTo(<<n>>, 1) = n
    BY <2>2, <2>3, SumZero
  <2> QED BY <1>3, <2>1, <2>2, <2>4
<1> QED BY <1>1, <1>2, <1>3

(***************************************************************************)
(* Sequences                                                               *)
(***************************************************************************)
LEMMA PutFirst ==
    ASSUME NEW T, NEW a \in T, NEW s \in Seq(T)
    PROVE /\ <<a>> \o s \in Seq(T)
          /\ <<a>> \o s # <<>>
          /\ Head(<<a>> \o s) = a
          /\ Tail(<<a>> \o s) = s
<1>1. <<a>> \in Seq(T) /\ Len(<<a>>) = 1 /\ <<a>>[1] = a
  OBVIOUS
<1> DEFINE Y == <<a>>
<1> HIDE DEF Y
<1>2. /\ Y \o s \in Seq(T) /\ Len(Y \o s) = 1 + Len(s) /\ (Y \o s)[1] = a
      /\ \A i \in 1..Len(s) : (Y \o s)[i + 1] = s[i]
  BY <1>1, ConcatProperties DEF Y
<1> DEFINE Z == Y \o s
<1> HIDE DEF Z
<1>3. /\ Z \in Seq(T) /\ Len(Z) = 1 + Len(s) /\ Z[1] = a
      /\ \A i \in 1..Len(s) : Z[i + 1] = s[i]
  BY <1>2 DEF Z
<1>4. Z # <<>> /\ Head(Z) = a
  BY <1>3
<1>5. Tail(Z) \in Seq(T) /\ Len(Tail(Z)) = Len(s)
  BY <1>3
<1>6. \A i \in 1..Len(s) : Tail(Z)[i] = s[i]
  BY <1>3
<1>7. Tail(Z) = s
  BY <1>5, <1>6
<1> QED BY <1>3, <1>4, <1>7 DEF Z, Y

\* What concatenation does, in a form that suits the provers.
LEMMA ConcatIs ==
    \A T : \A s, t \in Seq(T) :
        /\ s \o t \in Seq(T)
        /\ Len(s \o t) = Len(s) + Len(t)
        /\ \A i \in 1..(Len(s) + Len(t)) :
               (s \o t)[i] = IF i <= Len(s) THEN s[i] ELSE t[i - Len(s)]
  BY ConcatProperties, Zenon

LEMMA SameSeq ==
    ASSUME NEW T, NEW s \in Seq(T), NEW t \in Seq(T), NEW q \in Seq(T),
           Len(q) = 1, Len(t) = Len(s) + 1,
           \A i \in 1..Len(s) : t[i] = s[i], t[Len(s) + 1] = q[1]
    PROVE t = s \o q
<1> DEFINE c == s \o q
<1>1. /\ c \in Seq(T)
      /\ Len(c) = Len(s) + Len(q)
      /\ \A i \in 1..(Len(s) + Len(q)) : c[i] = IF i <= Len(s) THEN s[i] ELSE q[i - Len(s)]
  BY ConcatIs, Zenon
<1> HIDE DEF c
<1>2. Len(t) = Len(c) /\ Len(s) \in Nat
  BY <1>1
<1>3. \A i \in 1..Len(t) : t[i] = c[i]
  BY <1>1, <1>2
<1>4. t = c
  BY <1>1, <1>2, <1>3, SeqEqual, Zenon
<1> QED BY <1>4 DEF c

\* Replacing the last element, as the code writes it.
LEMMA LastReplaced ==
    ASSUME NEW T, NEW s \in Seq(T), s # <<>>, NEW x \in T
    PROVE Front(s) \o <<x>> = [s EXCEPT ![Len(s)] = x]
<1>1. Len(s) \in Nat /\ Len(s) >= 1
  BY EmptySeq, LenProperties
<1>2. \A i \in 1..(Len(s) - 1) : s[i] \in T
  OBVIOUS
<1> DEFINE m == Len(s) - 1
           f == SubSeq(s, 1, m)
<1>2a. m \in Nat /\ m + 1 = Len(s) /\ 1 \in Int /\ m \in Int
  BY <1>1
<1> HIDE DEF m
<1>2b. \A i \in 1..m : s[i] \in T
  BY <1>2a
<1>2c. /\ f \in Seq(T)
       /\ Len(f) = IF 1 <= m THEN m - 1 + 1 ELSE 0
       /\ \A i \in 1 .. m - 1 + 1 : f[i] = s[1 + i - 1]
  <2>1. f \in Seq(T)
    BY <1>2a, <1>2b, SubSeqProperties
  <2>2. Len(f) = IF 1 <= m THEN m - 1 + 1 ELSE 0
    BY <1>2a, <1>2b, SubSeqProperties
  <2>3. \A i \in 1 .. m - 1 + 1 : f[i] = s[1 + i - 1]
    BY <1>2a, <1>2b
  <2> QED BY <2>1, <2>2, <2>3
<1>2d. f = Front(s)
  BY DEF Front, m
<1> HIDE DEF f
<1>3. f \in Seq(T) /\ Len(f) = m /\ \A i \in 1..m : f[i] = s[i]
  BY <1>2a, <1>2c
<1>4. <<x>> \in Seq(T) /\ Len(<<x>>) = 1 /\ <<x>>[1] = x
  OBVIOUS
<1> DEFINE X == <<x>>
<1> HIDE DEF X
<1> DEFINE Y == [s EXCEPT ![Len(s)] = x]
<1>6. /\ Y \in Seq(T) /\ Len(Y) = Len(s)
      /\ \A i \in 1..Len(s) : Y[i] = IF i = Len(s) THEN x ELSE s[i]
  BY <1>1, ExceptSeq
<1> HIDE DEF Y
<1>7. Y = f \o X
  <2>1. X \in Seq(T) /\ Len(X) = 1 /\ X[1] = x
    BY <1>4 DEF X
  <2>2. \A i \in 1..Len(f) : Y[i] = f[i]
    BY <1>2a, <1>3, <1>6
  <2>3. Len(Y) = Len(f) + 1 /\ Y[Len(f) + 1] = X[1]
    BY <1>2a, <1>3, <1>6, <2>1
  <2> QED BY <1>3, <1>6, <2>1, <2>2, <2>3, SameSeq, Zenon
<1>8. Y = Front(s) \o X
  BY <1>2d, <1>7
<1> QED BY <1>8 DEF X, Y

\* The same for Append, Tail and a single element.
LEMMA AppendIs ==
    \A T : \A s \in Seq(T) : \A x \in T :
        /\ Append(s, x) \in Seq(T)
        /\ Append(s, x) # <<>>
        /\ Len(Append(s, x)) = Len(s) + 1
        /\ \A i \in 1..Len(s) : Append(s, x)[i] = s[i]
        /\ Append(s, x)[Len(s) + 1] = x
  OBVIOUS

LEMMA TailIs ==
    \A T : \A s \in Seq(T) : s # <<>> =>
        /\ Tail(s) \in Seq(T)
        /\ Len(s) \in Nat /\ Len(s) >= 1
        /\ Len(Tail(s)) = Len(s) - 1
        /\ \A i \in 1..(Len(s) - 1) : Tail(s)[i] = s[i + 1]
        /\ Head(s) = s[1] /\ s[1] \in T
  OBVIOUS

LEMMA OneIs ==
    \A T : \A x \in T : <<x>> \in Seq(T) /\ Len(<<x>>) = 1 /\ <<x>>[1] = x /\ <<x>> # <<>>
  OBVIOUS

LEMMA EmptyIs == \A T : <<>> \in Seq(T) /\ Len(<<>>) = 0
  OBVIOUS

LEMMA LenIs == \A T : \A s \in Seq(T) : Len(s) \in Nat /\ (s = <<>> <=> Len(s) = 0)
  OBVIOUS

LEMMA ElementIs == \A T : \A s \in Seq(T) : \A i \in 1..Len(s) : s[i] \in T
  OBVIOUS

(***************************************************************************)
(* The programs of the iterators                                           *)
(***************************************************************************)
\* Every value it.todo takes, per iterator: in the constructor, in __next__
\* before it holds the batch it will return, and after.
SplitLoop == <<"micro", "pop", "fill", "drain", "return">>
CidsLoop == <<"sub", "fill", "return">>
Windowed(j) == [i \in 1..j |-> "wb"] \o <<"init", "wb", "read", "return">>

WarmTodo(m) ==
    CASE m = "async" -> {<<"submit", "poll", "fill">>, <<"poll", "fill">>, <<"fill">>}
      [] m = "single" -> {<<"submit">>}
      [] m = "split" -> {<<"submit", "ensure", "fill">>, <<"ensure", "fill">>, <<"fill">>}
      [] m = "cids" -> {<<"fill">>}
      [] m = "pipeline" -> {<<"block", "poll", "get", "nowait">>, <<"poll", "get", "nowait">>,
                            <<"get", "nowait">>, <<"nowait">>}
      [] OTHER -> {}

\* __next__ of the split iterator once the front batch is fully submitted
SubmittedTodo == {<<"fill", "drain", "micro", "pop", "fill", "drain", "return">>,
                  <<"drain", "micro", "pop", "fill", "drain", "return">>,
                  Before("fill", Before("drain", SplitLoop)), Before("drain", SplitLoop),
                  Before("poll", Before("mat", SplitLoop)), Before("mat", SplitLoop),
                  SplitLoop, <<"pop", "fill", "drain", "return">>}

PreTodo(m) ==
    CASE m = "async" -> {<<"poll", "get", "poll", "fill", "return">>,
                         <<"get", "poll", "fill", "return">>}
      [] m = "single" -> {<<"poll", "service", "get", "fill", "return">>,
                          <<"service", "get", "fill", "return">>, <<"get", "fill", "return">>}
      [] m = "split" -> {<<"fill", "drain", "ensure", "fill", "drain",
                           "micro", "pop", "fill", "drain", "return">>,
                         <<"drain", "ensure", "fill", "drain",
                           "micro", "pop", "fill", "drain", "return">>,
                         <<"ensure", "fill", "drain",
                           "micro", "pop", "fill", "drain", "return">>}
                        \cup SubmittedTodo
      [] m = "cids" -> {<<"service", "take", "sub", "fill", "return">>,
                        <<"take", "sub", "fill", "return">>}
      [] m = "pipeline" -> {<<"block", "poll", "get", "hand", "nowait", "return">>,
                            <<"poll", "get", "hand", "nowait", "return">>,
                            <<"get", "hand", "nowait", "return">>,
                            <<"hand", "nowait", "return">>}
      [] OTHER -> {Windowed(j) : j \in 0..WbSize} \cup
                  {<<"wb", "read", "return">>, <<"read", "return">>,
                   Before("acc", <<"read", "return">>)}

\* the loop of CIDS over the parts of the batch it holds
PartTodo == {CidsLoop, Before("poll", Before("cat", Before("service", Before("fill", CidsLoop)))),
             Before("cat", Before("service", Before("fill", CidsLoop))),
             Before("service", Before("fill", CidsLoop)), Before("fill", CidsLoop)}

PostTodo(m) ==
    CASE m = "async" -> {<<"poll", "fill", "return">>, <<"fill", "return">>, <<"return">>}
      [] m = "single" -> {<<"fill", "return">>, <<"return">>}
      [] m = "split" -> {<<"fill", "drain", "return">>, <<"drain", "return">>, <<"return">>}
      [] m = "cids" -> PartTodo \cup {<<"fill", "return">>, <<"return">>}
      [] m = "pipeline" -> {<<"nowait", "return">>, <<"return">>}
      [] OTHER -> {<<"return">>}

StepNames == {"submit", "fill", "ensure", "poll", "get", "drain", "micro", "mat", "pop", "take",
              "sub", "cat", "service", "block", "nowait", "hand", "wb", "init", "read", "acc",
              "return"}

\* Putting a step before a program.
LEMMA PutBefore ==
    \A a \in StepNames : \A s \in Seq(StepNames) :
        /\ Before(a, s) \in Seq(StepNames)
        /\ Before(a, s) # <<>>
        /\ Head(Before(a, s)) = a
        /\ Tail(Before(a, s)) = s
<1> TAKE a \in StepNames
<1> TAKE s \in Seq(StepNames)
<1> QED BY PutFirst DEF Before

LEMMA SplitBefore ==
    /\ \A s \in {SplitLoop, Before("drain", SplitLoop), Before("mat", SplitLoop),
                 Before("fill", Before("drain", SplitLoop)),
                 Before("poll", Before("mat", SplitLoop))} : s \in Seq(StepNames) /\ s # <<>>
    /\ Head(SplitLoop) = "micro" /\ Tail(SplitLoop) = <<"pop", "fill", "drain", "return">>
    /\ Head(Before("drain", SplitLoop)) = "drain" /\ Tail(Before("drain", SplitLoop)) = SplitLoop
    /\ Head(Before("mat", SplitLoop)) = "mat" /\ Tail(Before("mat", SplitLoop)) = SplitLoop
    /\ Head(Before("fill", Before("drain", SplitLoop))) = "fill"
    /\ Tail(Before("fill", Before("drain", SplitLoop))) = Before("drain", SplitLoop)
    /\ Head(Before("poll", Before("mat", SplitLoop))) = "poll"
    /\ Tail(Before("poll", Before("mat", SplitLoop))) = Before("mat", SplitLoop)
<1>1. /\ SplitLoop \in Seq(StepNames) /\ SplitLoop # <<>> /\ Head(SplitLoop) = "micro"
      /\ Tail(SplitLoop) = <<"pop", "fill", "drain", "return">>
  BY DEF SplitLoop, StepNames
<1>2. "drain" \in StepNames /\ "mat" \in StepNames /\ "fill" \in StepNames /\ "poll" \in StepNames
  BY DEF StepNames
<1> HIDE DEF SplitLoop
<1>3. /\ Before("drain", SplitLoop) \in Seq(StepNames) /\ Before("drain", SplitLoop) # <<>>
      /\ Head(Before("drain", SplitLoop)) = "drain"
      /\ Tail(Before("drain", SplitLoop)) = SplitLoop
  BY <1>1, <1>2, PutBefore, SMT
<1>4. /\ Before("mat", SplitLoop) \in Seq(StepNames) /\ Before("mat", SplitLoop) # <<>>
      /\ Head(Before("mat", SplitLoop)) = "mat"
      /\ Tail(Before("mat", SplitLoop)) = SplitLoop
  BY <1>1, <1>2, PutBefore, SMT
<1>5. /\ Before("fill", Before("drain", SplitLoop)) \in Seq(StepNames)
      /\ Before("fill", Before("drain", SplitLoop)) # <<>>
      /\ Head(Before("fill", Before("drain", SplitLoop))) = "fill"
      /\ Tail(Before("fill", Before("drain", SplitLoop))) = Before("drain", SplitLoop)
  BY <1>2, <1>3, PutBefore, SMT
<1>6. /\ Before("poll", Before("mat", SplitLoop)) \in Seq(StepNames)
      /\ Before("poll", Before("mat", SplitLoop)) # <<>>
      /\ Head(Before("poll", Before("mat", SplitLoop))) = "poll"
      /\ Tail(Before("poll", Before("mat", SplitLoop))) = Before("mat", SplitLoop)
  BY <1>2, <1>4, PutBefore, SMT
<1> QED BY <1>1, <1>3, <1>4, <1>5, <1>6, Zenon

\* First step and rest of every program.

LEMMA AsyncStepsWarm ==
    \A t \in WarmTodo("async") : t # <<>> /\
       (\/ Head(t) = "submit" /\ Tail(t) = <<"poll", "fill">>
        \/ Head(t) = "poll" /\ Tail(t) = <<"fill">>
        \/ Head(t) = "fill" /\ Tail(t) = <<>>)
<1>1. WarmTodo("async") = {<<"submit", "poll", "fill">>, <<"poll", "fill">>, <<"fill">>}
  BY DEF WarmTodo
<1>2. <<"submit", "poll", "fill">> # <<>> /\ Head(<<"submit", "poll", "fill">>) = "submit" /\ Tail(<<"submit", "poll", "fill">>) = <<"poll", "fill">>
  OBVIOUS
<1>3. <<"poll", "fill">> # <<>> /\ Head(<<"poll", "fill">>) = "poll" /\ Tail(<<"poll", "fill">>) = <<"fill">>
  OBVIOUS
<1>4. <<"fill">> # <<>> /\ Head(<<"fill">>) = "fill" /\ Tail(<<"fill">>) = <<>>
  OBVIOUS
<1> QED BY <1>1, <1>2, <1>3, <1>4, Zenon


LEMMA AsyncStepsPre ==
    \A t \in PreTodo("async") : t # <<>> /\
       (\/ Head(t) = "poll" /\ Tail(t) = <<"get", "poll", "fill", "return">>
        \/ Head(t) = "get" /\ Tail(t) = <<"poll", "fill", "return">>)
<1>1. PreTodo("async") = {<<"poll", "get", "poll", "fill", "return">>, <<"get", "poll", "fill", "return">>}
  BY DEF PreTodo
<1>2. <<"poll", "get", "poll", "fill", "return">> # <<>> /\ Head(<<"poll", "get", "poll", "fill", "return">>) = "poll" /\ Tail(<<"poll", "get", "poll", "fill", "return">>) = <<"get", "poll", "fill", "return">>
  OBVIOUS
<1>3. <<"get", "poll", "fill", "return">> # <<>> /\ Head(<<"get", "poll", "fill", "return">>) = "get" /\ Tail(<<"get", "poll", "fill", "return">>) = <<"poll", "fill", "return">>
  OBVIOUS
<1> QED BY <1>1, <1>2, <1>3, Zenon


LEMMA AsyncStepsPost ==
    \A t \in PostTodo("async") : t # <<>> /\
       (\/ Head(t) = "poll" /\ Tail(t) = <<"fill", "return">>
        \/ Head(t) = "fill" /\ Tail(t) = <<"return">>
        \/ Head(t) = "return" /\ Tail(t) = <<>>)
<1>1. PostTodo("async") = {<<"poll", "fill", "return">>, <<"fill", "return">>, <<"return">>}
  BY DEF PostTodo
<1>2. <<"poll", "fill", "return">> # <<>> /\ Head(<<"poll", "fill", "return">>) = "poll" /\ Tail(<<"poll", "fill", "return">>) = <<"fill", "return">>
  OBVIOUS
<1>3. <<"fill", "return">> # <<>> /\ Head(<<"fill", "return">>) = "fill" /\ Tail(<<"fill", "return">>) = <<"return">>
  OBVIOUS
<1>4. <<"return">> # <<>> /\ Head(<<"return">>) = "return" /\ Tail(<<"return">>) = <<>>
  OBVIOUS
<1> QED BY <1>1, <1>2, <1>3, <1>4, Zenon


LEMMA SingleStepsWarm ==
    \A t \in WarmTodo("single") : t # <<>> /\
       (\/ Head(t) = "submit" /\ Tail(t) = <<>>)
<1>1. WarmTodo("single") = {<<"submit">>}
  BY DEF WarmTodo
<1>2. <<"submit">> # <<>> /\ Head(<<"submit">>) = "submit" /\ Tail(<<"submit">>) = <<>>
  OBVIOUS
<1> QED BY <1>1, <1>2, Zenon


LEMMA SingleStepsPre ==
    \A t \in PreTodo("single") : t # <<>> /\
       (\/ Head(t) = "poll" /\ Tail(t) = <<"service", "get", "fill", "return">>
        \/ Head(t) = "service" /\ Tail(t) = <<"get", "fill", "return">>
        \/ Head(t) = "get" /\ Tail(t) = <<"fill", "return">>)
<1>1. PreTodo("single") = {<<"poll", "service", "get", "fill", "return">>, <<"service", "get", "fill", "return">>, <<"get", "fill", "return">>}
  BY DEF PreTodo
<1>2. <<"poll", "service", "get", "fill", "return">> # <<>> /\ Head(<<"poll", "service", "get", "fill", "return">>) = "poll" /\ Tail(<<"poll", "service", "get", "fill", "return">>) = <<"service", "get", "fill", "return">>
  OBVIOUS
<1>3. <<"service", "get", "fill", "return">> # <<>> /\ Head(<<"service", "get", "fill", "return">>) = "service" /\ Tail(<<"service", "get", "fill", "return">>) = <<"get", "fill", "return">>
  OBVIOUS
<1>4. <<"get", "fill", "return">> # <<>> /\ Head(<<"get", "fill", "return">>) = "get" /\ Tail(<<"get", "fill", "return">>) = <<"fill", "return">>
  OBVIOUS
<1> QED BY <1>1, <1>2, <1>3, <1>4, Zenon


LEMMA SingleStepsPost ==
    \A t \in PostTodo("single") : t # <<>> /\
       (\/ Head(t) = "fill" /\ Tail(t) = <<"return">>
        \/ Head(t) = "return" /\ Tail(t) = <<>>)
<1>1. PostTodo("single") = {<<"fill", "return">>, <<"return">>}
  BY DEF PostTodo
<1>2. <<"fill", "return">> # <<>> /\ Head(<<"fill", "return">>) = "fill" /\ Tail(<<"fill", "return">>) = <<"return">>
  OBVIOUS
<1>3. <<"return">> # <<>> /\ Head(<<"return">>) = "return" /\ Tail(<<"return">>) = <<>>
  OBVIOUS
<1> QED BY <1>1, <1>2, <1>3, Zenon


LEMMA PipelineStepsWarm ==
    \A t \in WarmTodo("pipeline") : t # <<>> /\
       (\/ Head(t) = "block" /\ Tail(t) = <<"poll", "get", "nowait">>
        \/ Head(t) = "poll" /\ Tail(t) = <<"get", "nowait">>
        \/ Head(t) = "get" /\ Tail(t) = <<"nowait">>
        \/ Head(t) = "nowait" /\ Tail(t) = <<>>)
<1>1. WarmTodo("pipeline") = {<<"block", "poll", "get", "nowait">>, <<"poll", "get", "nowait">>, <<"get", "nowait">>, <<"nowait">>}
  BY DEF WarmTodo
<1>2. <<"block", "poll", "get", "nowait">> # <<>> /\ Head(<<"block", "poll", "get", "nowait">>) = "block" /\ Tail(<<"block", "poll", "get", "nowait">>) = <<"poll", "get", "nowait">>
  OBVIOUS
<1>3. <<"poll", "get", "nowait">> # <<>> /\ Head(<<"poll", "get", "nowait">>) = "poll" /\ Tail(<<"poll", "get", "nowait">>) = <<"get", "nowait">>
  OBVIOUS
<1>4. <<"get", "nowait">> # <<>> /\ Head(<<"get", "nowait">>) = "get" /\ Tail(<<"get", "nowait">>) = <<"nowait">>
  OBVIOUS
<1>5. <<"nowait">> # <<>> /\ Head(<<"nowait">>) = "nowait" /\ Tail(<<"nowait">>) = <<>>
  OBVIOUS
<1> QED BY <1>1, <1>2, <1>3, <1>4, <1>5, Zenon


LEMMA PipelineStepsPre ==
    \A t \in PreTodo("pipeline") : t # <<>> /\
       (\/ Head(t) = "block" /\ Tail(t) = <<"poll", "get", "hand", "nowait", "return">>
        \/ Head(t) = "poll" /\ Tail(t) = <<"get", "hand", "nowait", "return">>
        \/ Head(t) = "get" /\ Tail(t) = <<"hand", "nowait", "return">>
        \/ Head(t) = "hand" /\ Tail(t) = <<"nowait", "return">>)
<1>1. PreTodo("pipeline") = {<<"block", "poll", "get", "hand", "nowait", "return">>, <<"poll", "get", "hand", "nowait", "return">>, <<"get", "hand", "nowait", "return">>, <<"hand", "nowait", "return">>}
  BY DEF PreTodo
<1>2. <<"block", "poll", "get", "hand", "nowait", "return">> # <<>> /\ Head(<<"block", "poll", "get", "hand", "nowait", "return">>) = "block" /\ Tail(<<"block", "poll", "get", "hand", "nowait", "return">>) = <<"poll", "get", "hand", "nowait", "return">>
  OBVIOUS
<1>3. <<"poll", "get", "hand", "nowait", "return">> # <<>> /\ Head(<<"poll", "get", "hand", "nowait", "return">>) = "poll" /\ Tail(<<"poll", "get", "hand", "nowait", "return">>) = <<"get", "hand", "nowait", "return">>
  OBVIOUS
<1>4. <<"get", "hand", "nowait", "return">> # <<>> /\ Head(<<"get", "hand", "nowait", "return">>) = "get" /\ Tail(<<"get", "hand", "nowait", "return">>) = <<"hand", "nowait", "return">>
  OBVIOUS
<1>5. <<"hand", "nowait", "return">> # <<>> /\ Head(<<"hand", "nowait", "return">>) = "hand" /\ Tail(<<"hand", "nowait", "return">>) = <<"nowait", "return">>
  OBVIOUS
<1> QED BY <1>1, <1>2, <1>3, <1>4, <1>5, Zenon


LEMMA PipelineStepsPost ==
    \A t \in PostTodo("pipeline") : t # <<>> /\
       (\/ Head(t) = "nowait" /\ Tail(t) = <<"return">>
        \/ Head(t) = "return" /\ Tail(t) = <<>>)
<1>1. PostTodo("pipeline") = {<<"nowait", "return">>, <<"return">>}
  BY DEF PostTodo
<1>2. <<"nowait", "return">> # <<>> /\ Head(<<"nowait", "return">>) = "nowait" /\ Tail(<<"nowait", "return">>) = <<"return">>
  OBVIOUS
<1>3. <<"return">> # <<>> /\ Head(<<"return">>) = "return" /\ Tail(<<"return">>) = <<>>
  OBVIOUS
<1> QED BY <1>1, <1>2, <1>3, Zenon


LEMMA SplitStepsWarm ==
    \A t \in WarmTodo("split") : t # <<>> /\
       (\/ Head(t) = "submit" /\ Tail(t) = <<"ensure", "fill">>
        \/ Head(t) = "ensure" /\ Tail(t) = <<"fill">>
        \/ Head(t) = "fill" /\ Tail(t) = <<>>)
<1>1. WarmTodo("split") = {<<"submit", "ensure", "fill">>, <<"ensure", "fill">>, <<"fill">>}
  BY DEF WarmTodo
<1>2. <<"submit", "ensure", "fill">> # <<>> /\ Head(<<"submit", "ensure", "fill">>) = "submit" /\ Tail(<<"submit", "ensure", "fill">>) = <<"ensure", "fill">>
  OBVIOUS
<1>3. <<"ensure", "fill">> # <<>> /\ Head(<<"ensure", "fill">>) = "ensure" /\ Tail(<<"ensure", "fill">>) = <<"fill">>
  OBVIOUS
<1>4. <<"fill">> # <<>> /\ Head(<<"fill">>) = "fill" /\ Tail(<<"fill">>) = <<>>
  OBVIOUS
<1> QED BY <1>1, <1>2, <1>3, <1>4, Zenon


LEMMA SplitStepsPre ==
    \A t \in PreTodo("split") : t \in SubmittedTodo \/ (t # <<>> /\
       (\/ Head(t) = "fill" /\ Tail(t) = <<"drain", "ensure", "fill", "drain", "micro", "pop", "fill", "drain", "return">>
        \/ Head(t) = "drain" /\ Tail(t) = <<"ensure", "fill", "drain", "micro", "pop", "fill", "drain", "return">>
        \/ Head(t) = "ensure" /\ Tail(t) = <<"fill", "drain", "micro", "pop", "fill", "drain", "return">>))
<1>1. PreTodo("split") = {<<"fill", "drain", "ensure", "fill", "drain", "micro", "pop", "fill", "drain", "return">>, <<"drain", "ensure", "fill", "drain", "micro", "pop", "fill", "drain", "return">>, <<"ensure", "fill", "drain", "micro", "pop", "fill", "drain", "return">>} \cup SubmittedTodo
  BY DEF PreTodo
<1>2. <<"fill", "drain", "ensure", "fill", "drain", "micro", "pop", "fill", "drain", "return">> # <<>> /\ Head(<<"fill", "drain", "ensure", "fill", "drain", "micro", "pop", "fill", "drain", "return">>) = "fill" /\ Tail(<<"fill", "drain", "ensure", "fill", "drain", "micro", "pop", "fill", "drain", "return">>) = <<"drain", "ensure", "fill", "drain", "micro", "pop", "fill", "drain", "return">>
  OBVIOUS
<1>3. <<"drain", "ensure", "fill", "drain", "micro", "pop", "fill", "drain", "return">> # <<>> /\ Head(<<"drain", "ensure", "fill", "drain", "micro", "pop", "fill", "drain", "return">>) = "drain" /\ Tail(<<"drain", "ensure", "fill", "drain", "micro", "pop", "fill", "drain", "return">>) = <<"ensure", "fill", "drain", "micro", "pop", "fill", "drain", "return">>
  OBVIOUS
<1>4. <<"ensure", "fill", "drain", "micro", "pop", "fill", "drain", "return">> # <<>> /\ Head(<<"ensure", "fill", "drain", "micro", "pop", "fill", "drain", "return">>) = "ensure" /\ Tail(<<"ensure", "fill", "drain", "micro", "pop", "fill", "drain", "return">>) = <<"fill", "drain", "micro", "pop", "fill", "drain", "return">>
  OBVIOUS
<1> QED BY <1>1, <1>2, <1>3, <1>4, Zenon


LEMMA SplitStepsSubmitted ==
    \A t \in SubmittedTodo : t # <<>> /\
       (\/ t = <<"fill", "drain", "micro", "pop", "fill", "drain", "return">> /\ Head(t) = "fill" /\ Tail(t) = <<"drain", "micro", "pop", "fill", "drain", "return">>
        \/ t = <<"drain", "micro", "pop", "fill", "drain", "return">> /\ Head(t) = "drain" /\ Tail(t) = <<"micro", "pop", "fill", "drain", "return">>
        \/ t = Before("fill", Before("drain", SplitLoop)) /\ Head(t) = "fill" /\ Tail(t) = Before("drain", SplitLoop)
        \/ t = Before("drain", SplitLoop) /\ Head(t) = "drain" /\ Tail(t) = SplitLoop
        \/ t = Before("poll", Before("mat", SplitLoop)) /\ Head(t) = "poll" /\ Tail(t) = Before("mat", SplitLoop)
        \/ t = Before("mat", SplitLoop) /\ Head(t) = "mat" /\ Tail(t) = SplitLoop
        \/ t = SplitLoop /\ Head(t) = "micro" /\ Tail(t) = <<"pop", "fill", "drain", "return">>
        \/ t = <<"pop", "fill", "drain", "return">> /\ Head(t) = "pop" /\ Tail(t) = <<"fill", "drain", "return">>)
<1> SUFFICES ASSUME NEW t \in SubmittedTodo
             PROVE t # <<>> /\
       (\/ t = <<"fill", "drain", "micro", "pop", "fill", "drain", "return">> /\ Head(t) = "fill" /\ Tail(t) = <<"drain", "micro", "pop", "fill", "drain", "return">>
        \/ t = <<"drain", "micro", "pop", "fill", "drain", "return">> /\ Head(t) = "drain" /\ Tail(t) = <<"micro", "pop", "fill", "drain", "return">>
        \/ t = Before("fill", Before("drain", SplitLoop)) /\ Head(t) = "fill" /\ Tail(t) = Before("drain", SplitLoop)
        \/ t = Before("drain", SplitLoop) /\ Head(t) = "drain" /\ Tail(t) = SplitLoop
        \/ t = Before("poll", Before("mat", SplitLoop)) /\ Head(t) = "poll" /\ Tail(t) = Before("mat", SplitLoop)
        \/ t = Before("mat", SplitLoop) /\ Head(t) = "mat" /\ Tail(t) = SplitLoop
        \/ t = SplitLoop /\ Head(t) = "micro" /\ Tail(t) = <<"pop", "fill", "drain", "return">>
        \/ t = <<"pop", "fill", "drain", "return">> /\ Head(t) = "pop" /\ Tail(t) = <<"fill", "drain", "return">>)
  OBVIOUS
<1>1. t = <<"fill", "drain", "micro", "pop", "fill", "drain", "return">> => t # <<>> /\ Head(t) = "fill" /\ Tail(t) = <<"drain", "micro", "pop", "fill", "drain", "return">>
  BY SMT
<1>2. t = <<"drain", "micro", "pop", "fill", "drain", "return">> => t # <<>> /\ Head(t) = "drain" /\ Tail(t) = <<"micro", "pop", "fill", "drain", "return">>
  BY SMT
<1>3. t = Before("fill", Before("drain", SplitLoop)) => t # <<>> /\ Head(t) = "fill" /\ Tail(t) = Before("drain", SplitLoop)
  BY SplitBefore
<1>4. t = Before("drain", SplitLoop) => t # <<>> /\ Head(t) = "drain" /\ Tail(t) = SplitLoop
  BY SplitBefore
<1>5. t = Before("poll", Before("mat", SplitLoop)) => t # <<>> /\ Head(t) = "poll" /\ Tail(t) = Before("mat", SplitLoop)
  BY SplitBefore
<1>6. t = Before("mat", SplitLoop) => t # <<>> /\ Head(t) = "mat" /\ Tail(t) = SplitLoop
  BY SplitBefore
<1>7. t = SplitLoop => t # <<>> /\ Head(t) = "micro" /\ Tail(t) = <<"pop", "fill", "drain", "return">>
  BY SplitBefore
<1>8. t = <<"pop", "fill", "drain", "return">> => t # <<>> /\ Head(t) = "pop" /\ Tail(t) = <<"fill", "drain", "return">>
  BY SMT
<1> QED BY <1>1, <1>2, <1>3, <1>4, <1>5, <1>6, <1>7, <1>8 DEF SubmittedTodo


LEMMA SplitStepsPost ==
    \A t \in PostTodo("split") : t # <<>> /\
       (\/ Head(t) = "fill" /\ Tail(t) = <<"drain", "return">>
        \/ Head(t) = "drain" /\ Tail(t) = <<"return">>
        \/ Head(t) = "return" /\ Tail(t) = <<>>)
<1>1. PostTodo("split") = {<<"fill", "drain", "return">>, <<"drain", "return">>, <<"return">>}
  BY DEF PostTodo
<1>2. <<"fill", "drain", "return">> # <<>> /\ Head(<<"fill", "drain", "return">>) = "fill" /\ Tail(<<"fill", "drain", "return">>) = <<"drain", "return">>
  OBVIOUS
<1>3. <<"drain", "return">> # <<>> /\ Head(<<"drain", "return">>) = "drain" /\ Tail(<<"drain", "return">>) = <<"return">>
  OBVIOUS
<1>4. <<"return">> # <<>> /\ Head(<<"return">>) = "return" /\ Tail(<<"return">>) = <<>>
  OBVIOUS
<1> QED BY <1>1, <1>2, <1>3, <1>4, Zenon


LEMMA CidsBefore ==
    /\ CidsLoop # <<>> /\ Head(CidsLoop) = "sub" /\ Tail(CidsLoop) = <<"fill", "return">>
    /\ Before("fill", CidsLoop) # <<>>
    /\ Head(Before("fill", CidsLoop)) = "fill"
    /\ Tail(Before("fill", CidsLoop)) = CidsLoop
    /\ Before("service", Before("fill", CidsLoop)) # <<>>
    /\ Head(Before("service", Before("fill", CidsLoop))) = "service"
    /\ Tail(Before("service", Before("fill", CidsLoop))) = Before("fill", CidsLoop)
    /\ Before("cat", Before("service", Before("fill", CidsLoop))) # <<>>
    /\ Head(Before("cat", Before("service", Before("fill", CidsLoop)))) = "cat"
    /\ Tail(Before("cat", Before("service", Before("fill", CidsLoop)))) = Before("service", Before("fill", CidsLoop))
    /\ Before("poll", Before("cat", Before("service", Before("fill", CidsLoop)))) # <<>>
    /\ Head(Before("poll", Before("cat", Before("service", Before("fill", CidsLoop))))) = "poll"
    /\ Tail(Before("poll", Before("cat", Before("service", Before("fill", CidsLoop))))) = Before("cat", Before("service", Before("fill", CidsLoop)))
<1>1. /\ CidsLoop \in Seq(StepNames) /\ CidsLoop # <<>> /\ Head(CidsLoop) = "sub"
      /\ Tail(CidsLoop) = <<"fill", "return">>
  BY DEF CidsLoop, StepNames
<1>2. "fill" \in StepNames /\ "service" \in StepNames /\ "cat" \in StepNames /\ "poll" \in StepNames
  BY DEF StepNames
<1>3. /\ Before("fill", CidsLoop) \in Seq(StepNames)
      /\ Before("fill", CidsLoop) # <<>>
      /\ Head(Before("fill", CidsLoop)) = "fill"
      /\ Tail(Before("fill", CidsLoop)) = CidsLoop
  BY <1>2, <1>1, PutBefore, SMT
<1>4. /\ Before("service", Before("fill", CidsLoop)) \in Seq(StepNames)
      /\ Before("service", Before("fill", CidsLoop)) # <<>>
      /\ Head(Before("service", Before("fill", CidsLoop))) = "service"
      /\ Tail(Before("service", Before("fill", CidsLoop))) = Before("fill", CidsLoop)
  BY <1>2, <1>3, PutBefore, SMT
<1>5. /\ Before("cat", Before("service", Before("fill", CidsLoop))) \in Seq(StepNames)
      /\ Before("cat", Before("service", Before("fill", CidsLoop))) # <<>>
      /\ Head(Before("cat", Before("service", Before("fill", CidsLoop)))) = "cat"
      /\ Tail(Before("cat", Before("service", Before("fill", CidsLoop)))) = Before("service", Before("fill", CidsLoop))
  BY <1>2, <1>4, PutBefore, SMT
<1>6. /\ Before("poll", Before("cat", Before("service", Before("fill", CidsLoop)))) \in Seq(StepNames)
      /\ Before("poll", Before("cat", Before("service", Before("fill", CidsLoop)))) # <<>>
      /\ Head(Before("poll", Before("cat", Before("service", Before("fill", CidsLoop))))) = "poll"
      /\ Tail(Before("poll", Before("cat", Before("service", Before("fill", CidsLoop))))) = Before("cat", Before("service", Before("fill", CidsLoop)))
  BY <1>2, <1>5, PutBefore, SMT
<1> QED BY <1>1, <1>3, <1>4, <1>5, <1>6, Zenon


LEMMA CidsStepsWarm ==
    \A t \in WarmTodo("cids") : t # <<>> /\
       (\/ Head(t) = "fill" /\ Tail(t) = <<>>)
<1>1. WarmTodo("cids") = {<<"fill">>}
  BY DEF WarmTodo
<1>2. <<"fill">> # <<>> /\ Head(<<"fill">>) = "fill" /\ Tail(<<"fill">>) = <<>>
  OBVIOUS
<1> QED BY <1>1, <1>2, Zenon


LEMMA CidsStepsPre ==
    \A t \in PreTodo("cids") : t # <<>> /\
       (\/ Head(t) = "service" /\ Tail(t) = <<"take", "sub", "fill", "return">>
        \/ Head(t) = "take" /\ Tail(t) = CidsLoop)
<1>1. PreTodo("cids") = {<<"service", "take", "sub", "fill", "return">>, <<"take", "sub", "fill", "return">>}
  BY DEF PreTodo
<1>2. /\ <<"service", "take", "sub", "fill", "return">> # <<>>
      /\ Head(<<"service", "take", "sub", "fill", "return">>) = "service"
      /\ Tail(<<"service", "take", "sub", "fill", "return">>) = <<"take", "sub", "fill", "return">>
  OBVIOUS
<1>3. /\ <<"take", "sub", "fill", "return">> # <<>>
      /\ Head(<<"take", "sub", "fill", "return">>) = "take"
      /\ Tail(<<"take", "sub", "fill", "return">>) = CidsLoop
  BY DEF CidsLoop
<1> QED BY <1>1, <1>2, <1>3, Zenon


LEMMA CidsStepsPart ==
    \A t \in PartTodo : t # <<>> /\
       (\/ Head(t) = "sub" /\ Tail(t) = <<"fill", "return">>
        \/ Head(t) = "poll" /\ Tail(t) = Before("cat", Before("service", Before("fill", CidsLoop)))
        \/ Head(t) = "cat" /\ Tail(t) = Before("service", Before("fill", CidsLoop))
        \/ Head(t) = "service" /\ Tail(t) = Before("fill", CidsLoop)
        \/ Head(t) = "fill" /\ Tail(t) = CidsLoop)
  BY CidsBefore DEF PartTodo

LEMMA CidsStepsPost ==
    \A t \in PostTodo("cids") : t \in PartTodo \/ (t # <<>> /\
       (\/ Head(t) = "fill" /\ Tail(t) = <<"return">>
        \/ Head(t) = "return" /\ Tail(t) = <<>>))
<1>1. PostTodo("cids") = PartTodo \cup {<<"fill", "return">>, <<"return">>}
  BY DEF PostTodo
<1>2. <<"fill", "return">> # <<>> /\ Head(<<"fill", "return">>) = "fill" /\ Tail(<<"fill", "return">>) = <<"return">>
  OBVIOUS
<1>3. <<"return">> # <<>> /\ Head(<<"return">>) = "return" /\ Tail(<<"return">>) = <<>>
  OBVIOUS
<1> QED BY <1>1, <1>2, <1>3, Zenon


LEMMA WindowSteps ==
    \A j \in Nat :
        /\ Windowed(j) # <<>>
        /\ j = 0 => Head(Windowed(j)) = "init" /\ Tail(Windowed(j)) = <<"wb", "read", "return">>
        /\ j > 0 => Head(Windowed(j)) = "wb" /\ Tail(Windowed(j)) = Windowed(j - 1)
<1> DEFINE W == <<"init", "wb", "read", "return">>
           F(j) == [i \in 1..j |-> "wb"]
<1>1. /\ W \in Seq(StepNames) /\ Len(W) = 4 /\ W # <<>> /\ Head(W) = "init"
      /\ Tail(W) = <<"wb", "read", "return">> /\ W[1] = "init"
  BY DEF StepNames
<1> HIDE DEF W
<1>2. \A j \in Nat : /\ F(j) \in Seq(StepNames) /\ Len(F(j)) = j
                     /\ \A i \in 1..j : F(j)[i] = "wb"
  BY DEF StepNames
<1> HIDE DEF F
<1>3. \A j \in Nat : Windowed(j) = F(j) \o W
  BY DEF Windowed, F, W
<1>4. \A j \in Nat : /\ Windowed(j) \in Seq(StepNames) /\ Len(Windowed(j)) = j + 4
                     /\ \A i \in 1..(j + 4) :
                          Windowed(j)[i] = IF i <= j THEN "wb" ELSE W[i - j]
  <2> TAKE j \in Nat
  <2> DEFINE c == F(j) \o W
  <2>1. F(j) \in Seq(StepNames) /\ Len(F(j)) = j /\ (\A i \in 1..j : F(j)[i] = "wb")
    BY <1>2
  <2>2. /\ c \in Seq(StepNames) /\ Len(c) = Len(F(j)) + Len(W)
        /\ \A i \in 1..(Len(F(j)) + Len(W)) :
              c[i] = IF i <= Len(F(j)) THEN F(j)[i] ELSE W[i - Len(F(j))]
    BY <1>1, <2>1, ConcatIs, Zenon
  <2>3. c = Windowed(j)
    BY <1>3
  <2> HIDE DEF c
  <2>4. /\ c \in Seq(StepNames) /\ Len(c) = j + 4
        /\ \A i \in 1..(j + 4) : c[i] = IF i <= j THEN "wb" ELSE W[i - j]
    BY <1>1, <2>1, <2>2
  <2> QED BY <2>3, <2>4
<1>5. Windowed(0) = W
  <2> DEFINE z == Windowed(0)
  <2>1. 0 \in Nat
    OBVIOUS
  <2>2. /\ z \in Seq(StepNames) /\ Len(z) = 0 + 4
        /\ \A i \in 1..(0 + 4) : z[i] = IF i <= 0 THEN "wb" ELSE W[i - 0]
    BY <1>4, <2>1, Zenon
  <2> HIDE DEF z
  <2>3. Len(z) = Len(W) /\ \A i \in 1..Len(z) : z[i] = W[i]
    BY <1>1, <2>2
  <2>4. z = W
    BY <1>1, <2>2, <2>3, SeqEqual
  <2> QED BY <2>4 DEF z
<1>6. ASSUME NEW j \in Nat, j > 0
      PROVE /\ Windowed(j) # <<>> /\ Head(Windowed(j)) = "wb"
            /\ Tail(Windowed(j)) = Windowed(j - 1)
  <2> DEFINE s == Windowed(j)
             t == Windowed(j - 1)
  <2>1. /\ s \in Seq(StepNames) /\ Len(s) = j + 4
        /\ \A i \in 1..(j + 4) : s[i] = IF i <= j THEN "wb" ELSE W[i - j]
    BY <1>4
  <2>2. j - 1 \in Nat
    BY <1>6
  <2>3. /\ t \in Seq(StepNames) /\ Len(t) = (j - 1) + 4
        /\ \A i \in 1..((j - 1) + 4) : t[i] = IF i <= j - 1 THEN "wb" ELSE W[i - (j - 1)]
    BY <1>4, <2>2
  <2> HIDE DEF s, t
  <2>4. s # <<>> /\ Head(s) = "wb"
    BY <1>6, <2>1
  <2>5. Tail(s) \in Seq(StepNames) /\ Len(Tail(s)) = Len(t)
    BY <2>1, <2>3
  <2>6. \A i \in 1..Len(Tail(s)) : Tail(s)[i] = t[i]
    <3>1. \A i \in 1..(j + 3) : Tail(s)[i] = s[i + 1]
      BY <2>1
    <3>2. \A i \in 1..(j + 3) : s[i + 1] = t[i]
      <4> TAKE i \in 1..(j + 3)
      <4>1. s[i + 1] = IF i + 1 <= j THEN "wb" ELSE W[(i + 1) - j]
        BY <2>1
      <4>2. t[i] = IF i <= j - 1 THEN "wb" ELSE W[i - (j - 1)]
        BY <2>3
      <4>3. (i + 1) - j = i - (j - 1) /\ (i + 1 <= j <=> i <= j - 1)
        OBVIOUS
      <4> QED BY <4>1, <4>2, <4>3
    <3> QED BY <2>3, <2>5, <3>1, <3>2
  <2>7. Tail(s) = t
    BY <2>3, <2>5, <2>6, SeqEqual
  <2> QED BY <2>4, <2>7 DEF s, t
<1>7. W # <<>> /\ Head(W) = "init" /\ Tail(W) = <<"wb", "read", "return">>
  BY <1>1
<1> QED
  <2> TAKE j \in Nat
  <2>1. CASE j = 0
    BY <1>5, <1>7, <2>1
  <2>2. CASE j > 0
    BY <1>6, <2>2
  <2> QED BY <2>1, <2>2


LEMMA SyncStepsPre ==
    \A m \in Synchronous : WarmTodo(m) = {} /\
      \A t \in PreTodo(m) : t # <<>> /\
       (\/ Head(t) = "wb" /\ (Tail(t) = <<"read", "return">> \/ \E j \in 0..WbSize : Tail(t) = Windowed(j))
        \/ Head(t) = "init" /\ Tail(t) = <<"wb", "read", "return">>
        \/ Head(t) = "read" /\ Tail(t) = <<"return">> /\ t = <<"read", "return">>
        \/ Head(t) = "acc" /\ Tail(t) = <<"read", "return">>)
<1>1. ASSUME NEW j \in 0..WbSize
      PROVE Windowed(j) # <<>> /\
        (\/ Head(Windowed(j)) = "wb" /\ \E k \in 0..WbSize : Tail(Windowed(j)) = Windowed(k)
         \/ Head(Windowed(j)) = "init" /\ Tail(Windowed(j)) = <<"wb", "read", "return">>)
  <2>1. j \in Nat /\ (j > 0 => j - 1 \in 0..WbSize)
    BY LoaderAssumption
  <2>2. CASE j = 0
    BY <2>1, <2>2, WindowSteps
  <2>3. CASE j > 0
    <3>1. /\ Windowed(j) # <<>> /\ Head(Windowed(j)) = "wb"
          /\ Tail(Windowed(j)) = Windowed(j - 1)
      BY <2>1, <2>3, WindowSteps
    <3> QED BY <2>1, <2>3, <3>1
  <2> QED BY <2>2, <2>3
<1>2. /\ Before("acc", <<"read", "return">>) # <<>>
      /\ Head(Before("acc", <<"read", "return">>)) = "acc"
      /\ Tail(Before("acc", <<"read", "return">>)) = <<"read", "return">>
  <2>1. "acc" \in StepNames /\ <<"read", "return">> \in Seq(StepNames)
    BY DEF StepNames
  <2> QED BY <2>1, PutBefore
<1>3. ASSUME NEW m \in Synchronous
      PROVE /\ WarmTodo(m) = {}
            /\ PreTodo(m) = {Windowed(j) : j \in 0..WbSize} \cup
                  {<<"wb", "read", "return">>, <<"read", "return">>,
                   Before("acc", <<"read", "return">>)}
  BY DEF WarmTodo, PreTodo, Synchronous
<1>4. /\ <<"wb", "read", "return">> # <<>> /\ Head(<<"wb", "read", "return">>) = "wb"
      /\ Tail(<<"wb", "read", "return">>) = <<"read", "return">>
      /\ <<"read", "return">> # <<>> /\ Head(<<"read", "return">>) = "read"
      /\ Tail(<<"read", "return">>) = <<"return">>
  OBVIOUS
<1> QED
  <2> TAKE m \in Synchronous
  <2>1. WarmTodo(m) = {}
    BY <1>3
  <2>2. ASSUME NEW t \in PreTodo(m)
        PROVE t # <<>> /\
       (\/ Head(t) = "wb" /\ (Tail(t) = <<"read", "return">> \/ \E j \in 0..WbSize : Tail(t) = Windowed(j))
        \/ Head(t) = "init" /\ Tail(t) = <<"wb", "read", "return">>
        \/ Head(t) = "read" /\ Tail(t) = <<"return">> /\ t = <<"read", "return">>
        \/ Head(t) = "acc" /\ Tail(t) = <<"read", "return">>)
    <3>1. CASE \E j \in 0..WbSize : t = Windowed(j)
      BY <1>1, <3>1
    <3>2. CASE t = <<"wb", "read", "return">>
      BY <1>4, <3>2
    <3>3. CASE t = <<"read", "return">>
      BY <1>4, <3>3
    <3>4. CASE t = Before("acc", <<"read", "return">>)
      BY <1>2, <3>4
    <3> QED BY <1>3, <3>1, <3>2, <3>3, <3>4
  <2> QED BY <2>1, <2>2


LEMMA SyncStepsPost ==
    \A m \in Synchronous : \A t \in PostTodo(m) : t # <<>> /\ Head(t) = "return" /\ Tail(t) = <<>>
<1>1. \A m \in Synchronous : PostTodo(m) = {<<"return">>}
  BY DEF PostTodo, Synchronous
<1>2. <<"return">> # <<>> /\ Head(<<"return">>) = "return" /\ Tail(<<"return">>) = <<>>
  OBVIOUS
<1> QED BY <1>1, <1>2, Zenon


(***************************************************************************)
(* The inductive invariant                                                 *)
(***************************************************************************)
Prefetched == {"async", "single", "split", "cids"}
Queued == Prefetched \cup {"pipeline"}
OnePart == {"async", "single", "pipeline"}
InParts == {"split", "cids"}

Item == [batch : Nat \ {0}, parts : Seq(Nat \ {0}), ids : Seq(Nat), mat : Nat, used : Nat,
         polled : BOOLEAN, rows : Seq(Nat \X Nat)]
Outstanding == [id : Nat, batch : Nat \ {0}, first : Nat, n : Nat \ {0},
                ready : BOOLEAN, done : BOOLEAN]

Config == [mode : Modes, depth : Depths, budget : Budgets, rows : [1..EpochLen -> Sizes]]
Iterator == [queue : Seq(Item), pend : Seq(Item), current : Seq(Item), hand : Seq(Item),
             exhausted : BOOLEAN, ios : Nat, todo : Seq(StepNames),
             out : {"ok", "stop", "error"}]
SamplerThread == [queue : Seq(Nat), held : Seq(Nat), ended : BOOLEAN, exc : BOOLEAN]
WindowBuffer == [window : Seq(Nat \ {0}), tensors : Seq(Seq(Nat \X Nat)), init : BOOLEAN,
                 iter : Nat, cpu : Nat]

TypeOK ==
    /\ cfg \in Config /\ (cfg.mode \in Budgeted \/ cfg.budget = 0)
    /\ stack \in Seq(Outstanding) /\ nextId \in Nat
    /\ it \in Iterator /\ smp \in SamplerThread /\ wb \in WindowBuffer
    /\ drawn \in Nat /\ epoch \in Nat /\ due \in Seq(Nat \ {0}) /\ stale \in BOOLEAN

(* The items of prefetch_queue, and the batch in hand. *)

\* An item has the parts of its batch; of those a prefix was submitted, of
\* that a prefix fetched, of that a prefix used; what was fetched is in place.
ItemOK(x) ==
    /\ x.parts = PartsOf(RowsOf(x.batch))
    /\ Len(x.ids) <= Len(x.parts) /\ x.mat <= Len(x.ids) /\ x.used <= x.mat
    /\ \A k \in 1..Len(x.ids) : x.ids[k] < nextId
    /\ \A j, k \in 1..Len(x.ids) : j < k => x.ids[j] < x.ids[k]

RowsOK(x) ==
    /\ cfg.mode \in InParts => \A r \in 1..SumUpTo(x.parts, x.mat) : x.rows[r] = <<x.batch, r>>
    /\ cfg.mode = "split" => Len(x.rows) = RowsOf(x.batch)
    /\ cfg.mode = "cids" => Len(x.rows) = SumUpTo(x.parts, x.mat)

Items ==
    /\ \A i \in 1..Len(it.queue) : ItemOK(it.queue[i]) /\ RowsOK(it.queue[i])
                                   /\ Len(it.queue[i].ids) >= 1
    /\ \A i \in 1..Len(it.hand) : ItemOK(it.hand[i]) /\ RowsOK(it.hand[i]) /\ Full(it.hand[i])
    /\ \A i \in 1..Len(it.current) : ItemOK(it.current[i]) /\ Full(it.current[i])
                                     /\ it.current[i].mat = Len(it.current[i].ids)
    /\ cfg.mode # "split" => \A i \in 1..Len(it.queue) : it.queue[i].mat = 0
    /\ cfg.mode # "cids" => \A i \in 1..Len(it.hand) : it.hand[i].mat = Len(it.hand[i].ids)

\* Only the last item may be incomplete, and only while nothing is pending.
Complete1 ==
    /\ Len(it.pend) <= 1
    /\ \A i \in 1..Len(it.pend) : it.pend[i] = NewItem(it.pend[i].batch)
    /\ cfg.mode \notin Budgeted => it.pend = <<>>
    /\ \A i \in 1..Len(it.queue) : i < Len(it.queue) => Full(it.queue[i])
    /\ cfg.mode # "split" => \A i \in 1..Len(it.queue) : Full(it.queue[i])
    /\ it.pend # <<>> => /\ Len(it.queue) < cfg.depth
                         /\ \A i \in 1..Len(it.queue) : Full(it.queue[i])
    /\ Len(it.queue) <= cfg.depth

\* exhausted is set when the sampler has no more and nothing is pending.
Exhausted ==
    it.exhausted => /\ ~HasMore /\ it.pend = <<>>
                    /\ \A i \in 1..Len(it.queue) : Full(it.queue[i])

(* The two queues of requests. *)

Base == nextId - Len(stack)

\* Identifiers are consecutive in the stack, and ascend along the items.
Numbering ==
    /\ Len(stack) < nextId
    /\ \A j \in 1..Len(stack) : /\ stack[j].id = Base + j - 1
                                /\ stack[j].ready => stack[j].done
Order ==
    /\ \A i, j \in 1..Len(it.queue) : i < j =>
         \A a \in 1..Len(it.queue[i].ids) : \A b \in 1..Len(it.queue[j].ids) :
             it.queue[i].ids[a] < it.queue[j].ids[b]
    /\ \A i \in 1..Len(it.hand) : \A j \in 1..Len(it.queue) :
         \A a \in 1..Len(it.hand[i].ids) : \A b \in 1..Len(it.queue[j].ids) :
             it.hand[i].ids[a] < it.queue[j].ids[b]
    /\ \A i \in 1..Len(it.current) : \A j \in 1..Len(it.queue) :
         \A a \in 1..Len(it.current[i].ids) : \A b \in 1..Len(it.queue[j].ids) :
             it.current[i].ids[a] < it.queue[j].ids[b]

\* A request that was not fetched is in the stack, with its batch and rows.
Linked(x) ==
    \A k \in 1..Len(x.ids) : k > x.mat =>
        /\ x.ids[k] >= Base
        /\ stack[x.ids[k] - Base + 1].batch = x.batch
        /\ stack[x.ids[k] - Base + 1].n = x.parts[k]
        /\ stack[x.ids[k] - Base + 1].first = SumUpTo(x.parts, k - 1)

Link ==
    /\ cfg.mode \in Registered \/ ~stale =>
         /\ \A i \in 1..Len(it.queue) : Linked(it.queue[i])
         /\ \A i \in 1..Len(it.hand) : Linked(it.hand[i])
    /\ cfg.mode \in OnePart => Len(it.queue) <= Len(stack)

\* Until an iterator is abandoned, the stack has no other requests.
Cover ==
    ~stale => \A j \in 1..Len(stack) :
         \/ \E i \in 1..Len(it.queue) : Base + j - 1 \in Unfetched(it.queue[i])
         \/ \E i \in 1..Len(it.hand) : Base + j - 1 \in Unfetched(it.hand[i])

\* outstanding_io_count counts the rows submitted and not fetched.
ItemRows(x) == UNION {{x.ids[k]} \X (1..x.parts[k]) : k \in (x.mat + 1)..Len(x.ids)}
PendingRows == UNION {ItemRows(it.queue[i]) : i \in 1..Len(it.queue)}
Ios ==
    /\ cfg.mode \notin Budgeted => it.ios = 0
    /\ cfg.mode \in Budgeted =>
         /\ IsFiniteSet(PendingRows)
         /\ it.ios = Cardinality(PendingRows)
         /\ ~stale => cfg.budget = 0 \/ it.ios <= cfg.budget \/ Len(stack) = 1

\* Without registration: only the front is polled, and it was answered.
Polled ==
    cfg.mode \notin Registered =>
      \A i \in 1..Len(it.queue) : it.queue[i].polled => i = 1 /\ stack[1].done

\* One request per batch: what was fetched is the batch.
OwnBatch(x) == x.rows = OwnRows(x.batch)
Fetched1 ==
    cfg.mode \in OnePart /\ (cfg.mode = "single" \/ ~stale) =>
      /\ \A i \in 1..Len(it.hand) : OwnBatch(it.hand[i])
      /\ \A i \in 1..Len(it.current) : OwnBatch(it.current[i])

(* Where a call is, and what it relies on there. *)

Supplied == it.queue # <<>> \/ it.exhausted

IdleP == /\ it.todo = <<>> /\ it.hand = <<>>
         /\ it.out = "ok" => Supplied
WarmP == /\ it.todo \in WarmTodo(cfg.mode) /\ it.out = "ok" /\ it.hand = <<>>
         /\ At("submit") => it.queue = <<>> /\ it.pend = <<>> /\ ~it.exhausted
PreP == /\ it.todo \in PreTodo(cfg.mode) /\ it.out = "ok" /\ it.hand = <<>>
        /\ it.queue # <<>>
        /\ cfg.mode = "async" /\ At("get") => it.queue[1].polled
        /\ cfg.mode = "single" /\ (At("get") \/ At("service")) => FrontIsExpected(stack)
        /\ cfg.mode = "split" =>
             \/ it.todo \notin SubmittedTodo
             \/ /\ it.todo \in SubmittedTodo /\ Full(it.queue[1])
                /\ At("poll") \/ At("mat") => /\ it.queue[1].used = it.queue[1].mat
                                              /\ it.queue[1].mat < Len(it.queue[1].parts)
                /\ At("mat") => FrontIsExpected(stack)
                /\ At("pop") => it.queue[1].used = Len(it.queue[1].parts)
PostP == /\ it.todo \in PostTodo(cfg.mode) /\ it.out = "ok" /\ Len(it.hand) = 1
         /\ At("return") \/ At("drain") => Supplied
         /\ cfg.mode = "cids" =>
              \/ /\ it.todo \in PartTodo
                 /\ At("poll") \/ At("cat") => it.hand[1].mat < Len(it.hand[1].ids)
                 /\ At("cat") => FrontIsExpected(stack)
              \/ /\ it.todo \in {<<"fill", "return">>, <<"return">>}
                 /\ it.hand[1].mat = Len(it.hand[1].ids)
PrefetchPhase == IdleP \/ WarmP \/ PreP \/ PostP

\* The batches that are due are in hand, queued, pending, in this order.
BatchesDue(hand, queue, pend, d) ==
    LET h == Len(hand)
        q == h + Len(queue)
    IN /\ Len(d) = q + Len(pend)
       /\ \A i \in 1..Len(hand) : d[i] = hand[i].batch
       /\ \A i \in 1..Len(queue) : d[h + i] = queue[i].batch
       /\ \A i \in 1..Len(pend) : d[q + i] = pend[i].batch

PrefetchDue == BatchesDue(it.hand, it.queue, it.pend, due)

PrefetchStop == it.out = "stop" => it.exhausted /\ it.queue = <<>>
PrefetchError == it.out = "error" => /\ cfg.mode = "split" /\ it.queue # <<>>
                                     /\ RowsOf(it.queue[1].batch) > cfg.budget

PrefetchInv ==
    cfg.mode \in Prefetched =>
      /\ PrefetchPhase /\ Complete1 /\ Exhausted
      /\ it.out # "error" => PrefetchDue
      /\ PrefetchStop /\ PrefetchError
      /\ it.current = <<>> /\ smp = NewSampler

(* The pipeline iterator. *)

PipelinePhase ==
    \/ it.todo = <<>> /\ it.hand = <<>>
    \/ /\ it.todo \in WarmTodo("pipeline") \cup PreTodo("pipeline")
       /\ it.out = "ok" /\ it.hand = <<>>
       /\ At("block") \/ At("poll") \/ At("get") => it.current = <<>>
       /\ At("poll") \/ At("get") => Supplied
       /\ At("get") /\ it.queue # <<>> => it.queue[1].polled
       /\ At("hand") => it.current # <<>> \/ (it.queue = <<>> /\ it.exhausted)
    \/ it.todo \in PostTodo("pipeline") /\ it.out = "ok" /\ Len(it.hand) = 1

\* sampled_queue and the batch the thread holds: the sentinel is last, and
\* exhausted says that it was taken.
Sampler ==
    /\ Len(smp.held) <= 1
    /\ \A i \in 1..Len(smp.queue) :
         smp.queue[i] = Sentinel <=> smp.ended /\ smp.held = <<>> /\ i = Len(smp.queue)
    /\ \A i \in 1..Len(smp.held) : smp.held[i] = Sentinel <=> smp.ended
    /\ smp.ended => smp.exc \/ ~HasMore
    /\ it.exhausted <=> smp.ended /\ smp.queue = <<>> /\ smp.held = <<>>
    /\ it.exhausted => it.queue = <<>>
    /\ it.exhausted /\ smp.exc => it.out = "error"

DueOf(hand, current, queue, sampled, held, ended, d) ==
    LET h == Len(hand)
        c == h + Len(current)
        q == c + Len(queue)
        s == q + Len(sampled)
    IN /\ Len(d) = s + Len(held) - (IF ended THEN 1 ELSE 0)
       /\ \A i \in 1..Len(hand) : d[i] = hand[i].batch
       /\ \A i \in 1..Len(current) : d[h + i] = current[i].batch
       /\ \A i \in 1..Len(queue) : d[c + i] = queue[i].batch
       /\ \A i \in 1..Len(sampled) : sampled[i] # Sentinel => d[q + i] = sampled[i]
       /\ \A i \in 1..Len(held) : held[i] # Sentinel => d[s + i] = held[i]

PipelineDue == DueOf(it.hand, it.current, it.queue, smp.queue, smp.held,
                     smp.ended /\ ~it.exhausted, due)

PipelineInv ==
    cfg.mode = "pipeline" =>
      /\ PipelinePhase /\ Sampler
      /\ it.pend = <<>> /\ Len(it.queue) <= 1 /\ Len(it.current) <= 1
      /\ it.out # "error" => PipelineDue
      /\ it.out = "stop" => it.exhausted /\ it.current = <<>>
      /\ it.out = "error" => smp.exc

(* The window buffer. *)

SyncPhase ==
    \/ it.todo = <<>> /\ it.hand = <<>>
    \/ /\ it.todo \in PreTodo(cfg.mode) /\ it.out = "ok" /\ it.hand = <<>>
       /\ At("read") \/ At("acc") => wb.window # <<>>
       /\ At("acc") => cfg.mode = "accum" /\ wb.tensors = <<>> /\ wb.iter <= Len(wb.window)
    \/ it.todo \in PostTodo(cfg.mode) /\ it.out = "ok" /\ Len(it.hand) = 1

SyncQuiet == /\ stack = <<>> /\ it.queue = <<>> /\ it.pend = <<>> /\ it.current = <<>>
             /\ ~it.exhausted /\ it.out # "error" /\ smp = NewSampler
SyncRows == /\ \A i \in 1..Len(it.hand) : OwnBatch(it.hand[i]) /\ it.hand[i].ids = <<>>
            /\ cfg.mode = "sync" => wb.tensors = <<>>
            /\ Len(wb.tensors) <= Len(wb.window)
            /\ \A i \in 1..Len(wb.tensors) : wb.tensors[i] = OwnRows(wb.window[i])
SyncDue == /\ Len(due) = Len(it.hand) + Len(wb.window)
           /\ \A i \in 1..Len(it.hand) : due[i] = it.hand[i].batch
           /\ \A i \in 1..Len(wb.window) : due[Len(it.hand) + i] = wb.window[i]

SyncInv == cfg.mode \in Synchronous => SyncPhase /\ SyncQuiet /\ SyncRows /\ SyncDue

QueueInv ==
    cfg.mode \in Queued =>
      /\ Items /\ Order /\ Link /\ Cover /\ Ios /\ Polled /\ Fetched1

LoaderInv == TypeOK /\ Numbering /\ QueueInv /\ PrefetchInv /\ PipelineInv /\ SyncInv
             /\ ReturnsOwn

(***************************************************************************)
(* Batches and items                                                       *)
(***************************************************************************)
\* The fields of an item, its requests, and what ItemOK says of them.
LEMMA ItemFields ==
    \A x \in Item :
        /\ x.rows \in Seq(Nat \X Nat) /\ x.ids \in Seq(Nat) /\ x.mat \in Nat
        /\ Len(x.rows) \in Nat /\ Len(x.ids) \in Nat
        /\ \A k \in 1..Len(x.ids) : x.ids[k] \in Nat
  BY DEF Item

LEMMA ItemIds ==
    \A x \in Item : ItemOK(x) => \A k \in 1..Len(x.ids) : x.ids[k] \in Nat /\ x.ids[k] < nextId
  BY ItemFields, Zenon DEF ItemOK

\* An item that was returned depends on the batches only.
LEMMA OwnBatchSame ==
    ASSUME cfg' = cfg PROVE \A x : OwnBatch(x)' <=> OwnBatch(x)
  BY Zenon DEF OwnBatch, OwnRows, RowsOf

LEMMA BatchRows ==
    ASSUME TypeOK, NEW b \in Nat \ {0}
    PROVE RowsOf(b) \in Nat \ {0}
<1>1. EpochLen \in Nat \ {0} /\ Sizes \subseteq Nat \ {0}
  BY LoaderAssumption
<1>2. (b - 1) % EpochLen \in 0..(EpochLen - 1)
  BY <1>1, DivMod
<1>3. ((b - 1) % EpochLen) + 1 \in 1..EpochLen
  BY <1>1, <1>2
<1>4. cfg.rows \in [1..EpochLen -> Sizes]
  BY DEF TypeOK, Config
<1>5. cfg.rows[((b - 1) % EpochLen) + 1] \in Sizes
  BY <1>3, <1>4
<1> QED BY <1>1, <1>5 DEF RowsOf

LEMMA BatchParts ==
    ASSUME TypeOK, NEW b \in Nat \ {0}
    PROVE /\ PartsOf(RowsOf(b)) \in Seq(Nat \ {0})
          /\ Len(PartsOf(RowsOf(b))) >= 1
          /\ \A i \in 1..Len(PartsOf(RowsOf(b))) : PartsOf(RowsOf(b))[i] <= RowsOf(b)
          /\ SumUpTo(PartsOf(RowsOf(b)), Len(PartsOf(RowsOf(b)))) = RowsOf(b)
          /\ cfg.mode \notin InParts => PartsOf(RowsOf(b)) = <<RowsOf(b)>>
  BY BatchRows, Parts DEF InParts

LEMMA Own ==
    ASSUME TypeOK, NEW b \in Nat \ {0}
    PROVE /\ OwnRows(b) \in Seq(Nat \X Nat)
          /\ Len(OwnRows(b)) = RowsOf(b)
          /\ \A i \in 1..RowsOf(b) : OwnRows(b)[i] = <<b, i>>
  BY BatchRows DEF OwnRows

LEMMA Fresh ==
    ASSUME TypeOK, NEW b \in Nat \ {0}
    PROVE /\ NewItem(b) \in Item
          /\ NewItem(b).batch = b /\ NewItem(b).parts = PartsOf(RowsOf(b))
          /\ NewItem(b).ids = <<>> /\ NewItem(b).mat = 0 /\ NewItem(b).used = 0
          /\ NewItem(b).polled = FALSE
          /\ cfg.mode = "cids" => NewItem(b).rows = <<>>
          /\ cfg.mode # "cids" => Len(NewItem(b).rows) = RowsOf(b)
<1>1. RowsOf(b) \in Nat /\ PartsOf(RowsOf(b)) \in Seq(Nat \ {0})
  BY BatchRows, BatchParts
<1> DEFINE r == IF cfg.mode = "cids" THEN <<>> ELSE [i \in 1..RowsOf(b) |-> <<0, 0>>]
<1>2. /\ r \in Seq(Nat \X Nat)
      /\ cfg.mode = "cids" => r = <<>>
      /\ cfg.mode # "cids" => Len(r) = RowsOf(b)
  BY <1>1
<1>3. NewItem(b) = [batch |-> b, parts |-> PartsOf(RowsOf(b)), ids |-> <<>>, mat |-> 0,
                    used |-> 0, polled |-> FALSE, rows |-> r]
  BY DEF NewItem
<1> HIDE DEF r
<1> QED BY <1>1, <1>2, <1>3 DEF Item

\* The sums of the parts of a batch.
LEMMA PartSums ==
    ASSUME TypeOK, NEW b \in Nat \ {0}, NEW k \in Nat, k <= Len(PartsOf(RowsOf(b)))
    PROVE /\ SumUpTo(PartsOf(RowsOf(b)), k) \in Nat
          /\ SumUpTo(PartsOf(RowsOf(b)), k) <= RowsOf(b)
          /\ k < Len(PartsOf(RowsOf(b))) =>
               SumUpTo(PartsOf(RowsOf(b)), k + 1)
                 = SumUpTo(PartsOf(RowsOf(b)), k) + PartsOf(RowsOf(b))[k + 1]
<1> DEFINE p == PartsOf(RowsOf(b))
           B == RowsOf(b)
<1>a. /\ p \in Seq(Nat \ {0}) /\ B \in Nat
      /\ SumUpTo(p, Len(p)) = B /\ \A i \in 1..Len(p) : p[i] <= B
  BY BatchRows, BatchParts
<1> HIDE DEF p, B
<1>1. /\ p \in Seq(Nat \ {0}) /\ Len(p) \in Nat /\ B \in Nat
      /\ SumUpTo(p, Len(p)) = B /\ \A i \in 1..Len(p) : p[i] \in Nat /\ p[i] <= B
  BY <1>a
<1>2. k <= Len(p)
  BY DEF p
<1>3. \A i \in 1..Len(p) : p[i] \in 0..B
  BY <1>1
<1>4. SumUpTo(p, k) \in Nat /\ SumUpTo(p, k) <= SumUpTo(p, Len(p))
  BY <1>1, <1>2, <1>3, SumMonotone
<1>5. ASSUME k < Len(p) PROVE SumUpTo(p, k + 1) = SumUpTo(p, k) + p[k + 1]
  <2>1. \A i \in 1..(k + 1) : p[i] \in 0..B
    BY <1>1, <1>3, <1>5
  <2> QED BY <1>1, <2>1, SumStep
<1> QED BY <1>1, <1>4, <1>5 DEF p, B

(***************************************************************************)
(* Which step of the program every action is                               *)
(***************************************************************************)
LEMMA ActionSteps ==
    /\ Submit => At("submit")
    /\ Fill => At("fill")
    /\ Ensure => At("ensure")
    /\ PollUnregistered => At("poll") /\ cfg.mode \notin Registered
    /\ PollTryService => At("poll") /\ cfg.mode \in Budgeted
    /\ PollCids => At("poll") /\ cfg.mode = "cids"
    /\ Service => At("service")
    /\ Get => At("get")
    /\ Drain => At("drain")
    /\ Micro => At("micro")
    /\ MatFront => At("mat")
    /\ PopFront => At("pop") \/ At("take")
    /\ SubBatch => At("sub")
    /\ Concat => At("cat")
    /\ SubmitSampled => At("block") \/ At("nowait")
    /\ Hand => At("hand")
    /\ FillWindow => At("wb")
    /\ WindowFilled => At("init")
    /\ Read => At("read")
    /\ Accumulate => At("acc")
    /\ Return => At("return")
<1>1. (Submit => At("submit")) /\ (Fill => At("fill")) /\ (Ensure => At("ensure"))
  BY Zenon DEF Submit, Fill, Ensure
<1>2. /\ PollUnregistered => At("poll") /\ cfg.mode \notin Registered
      /\ PollTryService => At("poll") /\ cfg.mode \in Budgeted
      /\ PollCids => At("poll") /\ cfg.mode = "cids"
  BY Zenon DEF PollUnregistered, PollTryService, PollCids
<1>3. (Service => At("service")) /\ (Get => At("get")) /\ (Drain => At("drain"))
  BY Zenon DEF Service, Get, Drain
<1>4. /\ Micro => At("micro")
      /\ MatFront => At("mat")
      /\ PopFront => At("pop") \/ At("take")
      /\ SubBatch => At("sub")
      /\ Concat => At("cat")
  BY Zenon DEF Micro, MatFront, PopFront, SubBatch, Concat
<1>5. /\ SubmitSampled => At("block") \/ At("nowait")
      /\ Hand => At("hand")
      /\ FillWindow => At("wb")
      /\ WindowFilled => At("init")
  BY Zenon DEF SubmitSampled, Hand, FillWindow, WindowFilled
<1>6. (Read => At("read")) /\ (Accumulate => At("acc")) /\ (Return => At("return"))
  BY Zenon DEF Read, Accumulate, Return
<1> QED BY <1>1, <1>2, <1>3, <1>4, <1>5, <1>6, Zenon

LEMMA AtOne ==
    ASSUME NEW a, NEW b, At(a), At(b) PROVE a = b
  BY DEF At

\* All the invariant says is of the state.
LEMMA Unchanged == ASSUME LoaderInv, UNCHANGED vars PROVE LoaderInv'
<1>1. /\ cfg' = cfg /\ stack' = stack /\ nextId' = nextId /\ it' = it /\ smp' = smp
      /\ wb' = wb /\ drawn' = drawn /\ epoch' = epoch /\ due' = due /\ got' = got
      /\ stale' = stale
  BY DEF vars
<1>2. TypeOK' = TypeOK /\ Numbering' = Numbering
  BY <1>1, Zenon DEF TypeOK, Numbering, Base
<1>3. Items' = Items
  BY <1>1 DEF Items, ItemOK, RowsOK, Full, RowsOf, PartsOf
<1>4. /\ Order' = Order
      /\ Link' = Link
      /\ Cover' = Cover
  <2>1. Order' = Order
    BY <1>1 DEF Order
  <2>2. Link' = Link
    BY <1>1 DEF Link, Linked, Base
  <2>3. Cover' = Cover
    BY <1>1 DEF Cover, Base, Unfetched
  <2> QED BY <2>1, <2>2, <2>3
<1>5. Ios' = Ios /\ Polled' = Polled /\ Fetched1' = Fetched1
  <2>1. Ios' = Ios
    BY <1>1 DEF Ios, PendingRows, ItemRows
  <2>2. Polled' = Polled
    BY <1>1 DEF Polled
  <2>3. Fetched1' = Fetched1
    BY <1>1 DEF Fetched1, OwnBatch, OwnRows, RowsOf
  <2> QED BY <2>1, <2>2, <2>3
<1>6. PrefetchPhase' = PrefetchPhase
  BY <1>1, Zenon DEF PrefetchPhase, IdleP, WarmP, PreP, PostP, At, Supplied, FrontIsExpected,
                     Expected, Full
<1>7. /\ Complete1' = Complete1 /\ Exhausted' = Exhausted /\ PrefetchDue' = PrefetchDue
      /\ PrefetchStop' = PrefetchStop /\ PrefetchError' = PrefetchError
  BY <1>1, Zenon DEF Complete1, Exhausted, PrefetchDue, PrefetchStop, PrefetchError, Full, HasMore,
                     RowsOf, NewItem, PartsOf
<1>8. PrefetchInv' = PrefetchInv
  BY <1>1, <1>6, <1>7, Zenon DEF PrefetchInv
<1>9. PipelineInv' = PipelineInv
  <2>1. PipelinePhase' = PipelinePhase
    BY <1>1, Zenon DEF PipelinePhase, At, Supplied
  <2>2. Sampler' = Sampler
    BY <1>1 DEF Sampler, HasMore
  <2>3. PipelineDue' = PipelineDue
    BY <1>1 DEF PipelineDue
  <2> QED BY <1>1, <2>1, <2>2, <2>3, Zenon DEF PipelineInv
<1>10. SyncInv' = SyncInv
  <2>1. SyncPhase' = SyncPhase /\ SyncQuiet' = SyncQuiet
    BY <1>1, Zenon DEF SyncPhase, SyncQuiet, At
  <2>2. SyncRows' = SyncRows
    BY <1>1 DEF SyncRows, OwnBatch, OwnRows, RowsOf
  <2>3. SyncDue' = SyncDue
    BY <1>1 DEF SyncDue
  <2> QED BY <1>1, <2>1, <2>2, <2>3, Zenon DEF SyncInv
<1>11. ReturnsOwn' = ReturnsOwn
  BY <1>1, Zenon DEF ReturnsOwn, OwnRows, RowsOf
<1>12. QueueInv' = QueueInv
  BY <1>1, <1>3, <1>4, <1>5, Zenon DEF QueueInv
<1> QED BY <1>2, <1>8, <1>9, <1>10, <1>11, <1>12, Zenon DEF LoaderInv

LEMMA ModeKinds ==
    ASSUME TypeOK
    PROVE \/ cfg.mode \in Synchronous
          \/ cfg.mode = "pipeline"
          \/ cfg.mode = "async"
          \/ cfg.mode = "single"
          \/ cfg.mode = "split"
          \/ cfg.mode = "cids"
<1>1. cfg.mode \in Modes
  BY DEF TypeOK, Config
<1> QED BY <1>1, LoaderAssumption DEF Registered

(***************************************************************************)
(* The window buffer                                                       *)
(***************************************************************************)
LEMMA SyncLabels ==
    ASSUME LoaderInv, cfg.mode \in Synchronous
    PROVE \/ it.todo = <<>> /\ it.hand = <<>>
          \/ /\ it.out = "ok" /\ it.hand = <<>> /\ it.todo # <<>>
             /\ it.todo \in PreTodo(cfg.mode)
             /\ \/ /\ At("wb")
                   /\ Rest = <<"read", "return">> \/ \E j \in 0..WbSize : Rest = Windowed(j)
                \/ At("init") /\ Rest = <<"wb", "read", "return">>
                \/ /\ At("read") /\ Rest = <<"return">> /\ wb.window # <<>>
                   /\ it.todo = <<"read", "return">>
                \/ /\ At("acc") /\ Rest = <<"read", "return">> /\ wb.window # <<>>
                   /\ cfg.mode = "accum" /\ wb.tensors = <<>> /\ wb.iter <= Len(wb.window)
          \/ /\ it.out = "ok" /\ Len(it.hand) = 1 /\ it.todo # <<>>
             /\ At("return") /\ Rest = <<>>
<1>1. SyncPhase
  BY DEF LoaderInv, SyncInv
<1>2. CASE /\ it.todo \in PreTodo(cfg.mode) /\ it.out = "ok" /\ it.hand = <<>>
           /\ At("read") \/ At("acc") => wb.window # <<>>
           /\ At("acc") => cfg.mode = "accum" /\ wb.tensors = <<>> /\ wb.iter <= Len(wb.window)
  <2> DEFINE t == it.todo
  <2>1. t # <<>> /\
       (\/ Head(t) = "wb" /\ (Tail(t) = <<"read", "return">> \/ \E j \in 0..WbSize : Tail(t) = Windowed(j))
        \/ Head(t) = "init" /\ Tail(t) = <<"wb", "read", "return">>
        \/ Head(t) = "read" /\ Tail(t) = <<"return">> /\ t = <<"read", "return">>
        \/ Head(t) = "acc" /\ Tail(t) = <<"read", "return">>)
    BY <1>2, SyncStepsPre, Zenon
  <2> QED BY <1>2, <2>1, Zenon DEF At, Rest
<1>3. CASE it.todo \in PostTodo(cfg.mode) /\ it.out = "ok" /\ Len(it.hand) = 1
  BY <1>3, SyncStepsPost, Zenon DEF At, Rest
<1> QED BY <1>1, <1>2, <1>3, Zenon DEF SyncPhase

LEMMA SyncActions ==
    ASSUME LoaderInv, cfg.mode \in Synchronous, Next
    PROVE FillWindow \/ WindowFilled \/ Read \/ Accumulate \/ Return
          \/ Call \/ NewEpoch \/ Over
<1>1. /\ At("wb") \/ At("init") \/ At("read") \/ At("acc") \/ At("return") \/ it.todo = <<>>
      /\ stack = <<>> /\ smp = NewSampler
  BY SyncLabels, Zenon DEF LoaderInv, SyncInv, SyncQuiet
<1>2. ~At("submit") /\ ~At("fill") /\ ~At("ensure") /\ ~At("poll") /\ ~At("service")
      /\ ~At("get") /\ ~At("drain") /\ ~At("micro") /\ ~At("mat") /\ ~At("pop") /\ ~At("take")
      /\ ~At("sub") /\ ~At("cat") /\ ~At("block") /\ ~At("nowait") /\ ~At("hand")
  BY <1>1 DEF At
<1>3. IterStep => FillWindow \/ WindowFilled \/ Read \/ Accumulate \/ Return
  BY <1>2, ActionSteps, Zenon DEF IterStep
<1>4. ~SamplerNext
  BY DEF SamplerNext, Synchronous
<1>5. ~SamplerPut
  BY <1>1 DEF SamplerPut, NewSampler
<1>6. ~Complete
  <2>1. Len(stack) = 0
    BY <1>1
  <2>2. ASSUME NEW i \in DOMAIN stack PROVE FALSE
    BY <1>1, <2>1
  <2> QED BY <2>2, Zenon DEF Complete
<1> QED BY <1>3, <1>4, <1>5, <1>6, Zenon DEF Next

LEMMA SyncPrograms ==
    ASSUME NEW m \in Synchronous
    PROVE /\ \A j \in 0..WbSize : Windowed(j) \in PreTodo(m) /\ Windowed(j) \in Seq(StepNames)
                                  /\ Head(Windowed(j)) \in {"wb", "init"}
          /\ <<"wb", "read", "return">> \in PreTodo(m) /\ <<"wb", "read", "return">> \in Seq(StepNames)
          /\ Head(<<"wb", "read", "return">>) = "wb"
          /\ <<"read", "return">> \in PreTodo(m) /\ <<"read", "return">> \in Seq(StepNames)
          /\ Head(<<"read", "return">>) = "read"
          /\ Before("acc", <<"read", "return">>) \in PreTodo(m)
          /\ Before("acc", <<"read", "return">>) \in Seq(StepNames)
          /\ Head(Before("acc", <<"read", "return">>)) = "acc"
          /\ <<"return">> \in PostTodo(m) /\ <<"return">> \in Seq(StepNames)
          /\ <<>> \in Seq(StepNames)
<1>1. /\ PreTodo(m) = {Windowed(j) : j \in 0..WbSize} \cup
                  {<<"wb", "read", "return">>, <<"read", "return">>,
                   Before("acc", <<"read", "return">>)}
      /\ PostTodo(m) = {<<"return">>}
  BY DEF PreTodo, PostTodo, Synchronous
<1>2. ASSUME NEW j \in 0..WbSize
      PROVE Windowed(j) \in Seq(StepNames) /\ Head(Windowed(j)) \in {"wb", "init"}
  <2>1. j \in Nat
    BY LoaderAssumption
  <2>2. Head(Windowed(j)) \in {"wb", "init"}
    <3>1. CASE j = 0
      BY <2>1, <3>1, WindowSteps
    <3>2. CASE j > 0
      BY <2>1, <3>2, WindowSteps
    <3> QED BY <2>1, <3>1, <3>2
  <2>3. [i \in 1..j |-> "wb"] \in Seq(StepNames) /\ <<"init", "wb", "read", "return">> \in Seq(StepNames)
    BY <2>1 DEF StepNames
  <2>4. Windowed(j) \in Seq(StepNames)
    BY <2>3, ConcatIs, Zenon DEF Windowed
  <2> QED BY <2>2, <2>4
<1>3. /\ <<"wb", "read", "return">> \in Seq(StepNames) /\ <<"read", "return">> \in Seq(StepNames)
      /\ <<"return">> \in Seq(StepNames) /\ "acc" \in StepNames /\ <<>> \in Seq(StepNames)
      /\ Head(<<"wb", "read", "return">>) = "wb" /\ Head(<<"read", "return">>) = "read"
  BY DEF StepNames
<1>4. /\ Before("acc", <<"read", "return">>) \in Seq(StepNames)
      /\ Head(Before("acc", <<"read", "return">>)) = "acc"
  BY <1>3, PutBefore
<1> QED BY <1>1, <1>2, <1>3, <1>4, Zenon

LEMMA SyncNext ==
    ASSUME cfg' = cfg, cfg.mode \in Synchronous, TypeOK', SyncPhase', SyncQuiet', SyncRows',
           SyncDue', nextId' = nextId, nextId >= 1, ReturnsOwn'
    PROVE LoaderInv'
<1>1. Numbering'
  <2>1. stack' = <<>> /\ nextId \in Nat
    BY DEF SyncQuiet, TypeOK
  <2>2. Len(stack') = 0
    BY <2>1
  <2> QED BY <2>1, <2>2 DEF Numbering, Base
<1>2. (cfg.mode \in Synchronous)' /\ ~(cfg.mode \in Queued)' /\ ~(cfg.mode \in Prefetched)'
      /\ ~(cfg.mode = "pipeline")'
  BY DEF Synchronous, Queued, Prefetched
<1> QED BY <1>1, <1>2, Zenon DEF LoaderInv, SyncInv, QueueInv, PrefetchInv, PipelineInv

\* The facts of a state between two calls or in one.
LEMMA SyncFacts ==
    ASSUME LoaderInv, cfg.mode \in Synchronous
    PROVE /\ TypeOK /\ SyncPhase /\ SyncQuiet /\ SyncRows /\ SyncDue /\ ReturnsOwn
          /\ it \in Iterator /\ wb \in WindowBuffer /\ drawn \in Nat /\ due \in Seq(Nat \ {0})
          /\ nextId >= 1
<1>1. TypeOK /\ SyncPhase /\ SyncQuiet /\ SyncRows /\ SyncDue /\ ReturnsOwn /\ Numbering
  BY Zenon DEF LoaderInv, SyncInv
<1>2. nextId >= 1
  BY <1>1 DEF Numbering, SyncQuiet, TypeOK
<1> QED BY <1>1, <1>2 DEF TypeOK

\* ReturnsOwn depends on what was returned only.
LEMMA SameReturns ==
    ASSUME ReturnsOwn, cfg' = cfg, got' = got, stale => stale' PROVE ReturnsOwn'
  BY DEF ReturnsOwn, OwnRows, RowsOf

LEMMA WindowGrows ==
    ASSUME wb.window \in Seq(Nat \ {0}), drawn \in Nat, wb'.window = Append(wb.window, drawn + 1)
    PROVE /\ wb'.window # <<>> /\ Len(wb'.window) = Len(wb.window) + 1
          /\ \A i \in 1..Len(wb.window) : wb'.window[i] = wb.window[i]
          /\ wb'.window[Len(wb.window) + 1] = drawn + 1
<1> DEFINE v == wb'.window
           w == wb.window
           x == drawn + 1
<1>1. v = Append(w, x) /\ w \in Seq(Nat \ {0}) /\ x \in Nat \ {0}
  OBVIOUS
<1> HIDE DEF v, w, x
<1>2. /\ v # <<>> /\ Len(v) = Len(w) + 1
      /\ \A i \in 1..Len(w) : v[i] = w[i]
      /\ v[Len(w) + 1] = x
  BY <1>1
<1> QED BY <1>2 DEF v, w, x

LEMMA TensorsStay ==
    ASSUME cfg' = cfg, wb'.tensors = wb.tensors,
           \A i \in 1..Len(wb.tensors) : wb'.window[i] = wb.window[i],
           \A i \in 1..Len(wb.tensors) : wb.tensors[i] = OwnRows(wb.window[i])
    PROVE (\A i \in 1..Len(wb.tensors) : wb.tensors[i] = OwnRows(wb.window[i]))'
  BY DEF OwnRows, RowsOf

\* The window is extended by the next batch, or the sampler has ended.
GrowWindow(left) ==
    /\ it.hand = <<>> /\ it.out = "ok" /\ left \in PreTodo(cfg.mode) /\ left \in Seq(StepNames)
    /\ Head(left) = "acc" => cfg.mode = "accum" /\ wb.tensors = <<>> /\ wb.iter <= Len(wb.window)
    /\ Window(left) /\ UNCHANGED <<cfg, stack, nextId, smp, epoch, got, stale>>

LEMMA SyncWindow ==
    ASSUME LoaderInv, cfg.mode \in Synchronous, NEW left, GrowWindow(left)
    PROVE LoaderInv'
<1>h. it.hand = <<>> /\ it.out = "ok"
  BY DEF GrowWindow
<1>l. left \in PreTodo(cfg.mode) /\ left \in Seq(StepNames)
  BY DEF GrowWindow
<1>k. Head(left) = "acc" => cfg.mode = "accum" /\ wb.tensors = <<>> /\ wb.iter <= Len(wb.window)
  BY DEF GrowWindow
<1>1. TypeOK /\ SyncPhase /\ SyncQuiet /\ SyncRows /\ SyncDue /\ ReturnsOwn /\ nextId >= 1
  BY SyncFacts
<1>a. it \in Iterator
  BY SyncFacts
<1>b. wb \in WindowBuffer
  BY SyncFacts
<1>c. drawn \in Nat /\ due \in Seq(Nat \ {0})
  BY SyncFacts
<1>d. cfg' = cfg /\ stack' = stack /\ nextId' = nextId /\ smp' = smp /\ got' = got
      /\ stale' = stale /\ epoch' = epoch
  BY DEF GrowWindow
<1>2. ReturnsOwn'
  BY <1>1, <1>d, SameReturns
<1>3. CASE HasMore /\ Draw /\ wb' = [wb EXCEPT !.window = Append(@, drawn + 1)] /\ Goto(left)
  <2>0. it' = [it EXCEPT !.todo = left] /\ wb' = [wb EXCEPT !.window = Append(@, drawn + 1)]
    BY <1>3 DEF Goto
  <2>1. /\ it'.queue = it.queue /\ it'.pend = it.pend /\ it'.current = it.current
        /\ it'.hand = it.hand /\ it'.exhausted = it.exhausted /\ it'.todo = left /\ it'.out = "ok"
    BY <1>a, <1>h, <2>0 DEF Iterator
  <2>1a. it' \in Iterator
    BY <1>a, <1>l, <2>0 DEF Iterator
  <2>2. /\ wb'.window = Append(wb.window, drawn + 1) /\ wb'.tensors = wb.tensors
        /\ wb'.iter = wb.iter
    BY <1>b, <1>c, <2>0 DEF WindowBuffer
  <2>3. wb.window \in Seq(Nat \ {0}) /\ wb.iter \in Nat
    BY <1>b DEF WindowBuffer
  <2>3b. wb.tensors \in Seq(Seq(Nat \X Nat))
    BY <1>b DEF WindowBuffer
  <2>3c. Len(wb.tensors) \in Nat /\ Len(wb.window) \in Nat /\ drawn + 1 \in Nat \ {0}
    BY <1>c, <2>3, <2>3b, LenIs
  <2>3a. Append(wb.window, drawn + 1) \in Seq(Nat \ {0})
    BY <1>c, <2>3
  <2>2a. wb' \in WindowBuffer
    BY <1>b, <2>0, <2>3a DEF WindowBuffer
  <2>4. /\ wb'.window # <<>> /\ Len(wb'.window) = Len(wb.window) + 1
        /\ \A i \in 1..Len(wb.window) : wb'.window[i] = wb.window[i]
        /\ wb'.window[Len(wb.window) + 1] = drawn + 1
    BY <1>c, <2>2, <2>3, WindowGrows
  <2>5. /\ drawn' = drawn + 1 /\ due' \in Seq(Nat \ {0}) /\ Len(due') = Len(due) + 1
        /\ \A i \in 1..Len(due) : due'[i] = due[i]
        /\ due'[Len(due) + 1] = drawn + 1
    BY <1>c, <1>3 DEF Draw
  <2>6. TypeOK'
    BY <1>1, <1>d, <2>1a, <2>2a, <2>5 DEF TypeOK
  <2>7. SyncPhase'
    <3>1. At("acc")' => Head(left) = "acc"
      BY <2>1 DEF At
    <3>2. wb'.iter <= Len(wb.window) => wb'.iter <= Len(wb'.window)
      BY <2>2, <2>3, <2>4
    <3> QED BY <1>d, <1>h, <1>l, <1>k, <2>1, <2>2, <2>4, <3>1, <3>2 DEF SyncPhase
  <2>8. SyncQuiet'
    BY <1>1, <1>d, <2>1 DEF SyncQuiet
  <2>9. SyncRows'
    <3>1. \A i \in 1..Len(wb.tensors) : wb.tensors[i] = OwnRows(wb.window[i])
      BY <1>1 DEF SyncRows
    <3>2. (\A i \in 1..Len(wb.tensors) : wb.tensors[i] = OwnRows(wb.window[i]))'
      <4>1. Len(wb.tensors) <= Len(wb.window) /\ Len(wb.tensors) \in Nat /\ Len(wb.window) \in Nat
        BY <1>1, <2>3c DEF SyncRows
      <4>2. \A i \in 1..Len(wb.tensors) : wb'.window[i] = wb.window[i]
        BY <2>4, <4>1
      <4> QED BY <1>d, <2>2, <3>1, <4>2, TensorsStay
    <3>3. Len(wb'.tensors) <= Len(wb'.window)
      BY <1>1, <2>2, <2>3c, <2>4 DEF SyncRows
    <3>4. Len(it'.hand) = 0
      BY <1>h, <2>1
    <3>5. (cfg.mode = "sync" => wb.tensors = <<>>)'
      BY <1>1, <1>d, <2>2 DEF SyncRows
    <3> QED BY <3>2, <3>3, <3>4, <3>5 DEF SyncRows
  <2>10. SyncDue'
    <3>1. Len(it.hand) = 0 /\ Len(it'.hand) = 0
      BY <1>h, <2>1
    <3>2. Len(due) = Len(wb.window) /\ \A i \in 1..Len(wb.window) : due[i] = wb.window[i]
      BY <1>1, <2>3c, <3>1 DEF SyncDue
    <3>a. Len(due') = Len(wb'.window)
      BY <2>3c, <2>4, <2>5, <3>2
    <3>b. ASSUME NEW i \in 1..Len(wb'.window) PROVE due'[i] = wb'.window[i]
      <4>1. CASE i \in 1..Len(wb.window)
        BY <2>3c, <2>4, <2>5, <3>2, <4>1
      <4>2. CASE i = Len(wb.window) + 1
        BY <2>3c, <2>4, <2>5, <3>2, <4>2
      <4> QED BY <2>3c, <2>4, <4>1, <4>2
    <3>3. Len(due') = Len(wb'.window) /\ \A i \in 1..Len(wb'.window) : due'[i] = wb'.window[i]
      BY <3>a, <3>b
    <3>4. \A i \in 1..Len(wb'.window) : Len(it'.hand) + i = i
      BY <3>1
    <3>5. Len(due') = Len(it'.hand) + Len(wb'.window)
      BY <1>c, <2>5, <3>1, <3>3
    <3> QED BY <3>1, <3>3, <3>4, <3>5 DEF SyncDue
  <2> QED BY <1>1, <1>2, <1>d, <2>6, <2>7, <2>8, <2>9, <2>10, SyncNext
<1>4. CASE ~HasMore /\ NoDraw /\ it' = [it EXCEPT !.todo = <<>>, !.out = "stop"] /\ UNCHANGED wb
  <2>0. it' = [it EXCEPT !.todo = <<>>, !.out = "stop"] /\ wb' = wb /\ drawn' = drawn /\ due' = due
    BY <1>4 DEF NoDraw
  <2>1. /\ it'.queue = it.queue /\ it'.pend = it.pend /\ it'.current = it.current
        /\ it'.hand = it.hand /\ it'.exhausted = it.exhausted /\ it'.todo = <<>> /\ it'.out = "stop"
    BY <1>a, <1>h, <2>0 DEF Iterator
  <2>1a. it' \in Iterator
    <3>1. <<>> \in Seq(StepNames)
      OBVIOUS
    <3> QED BY <1>a, <2>0, <3>1 DEF Iterator
  <2>2. TypeOK'
    BY <1>1, <1>d, <2>0, <2>1a DEF TypeOK
  <2>3. SyncPhase' /\ SyncQuiet'
    BY <1>1, <1>h, <1>d, <2>1 DEF SyncPhase, SyncQuiet
  <2>4. SyncRows'
    BY <1>1, <1>d, <2>0, <2>1 DEF SyncRows, OwnBatch, OwnRows, RowsOf
  <2>5. SyncDue'
    BY <1>1, <2>0, <2>1 DEF SyncDue
  <2> QED BY <1>1, <1>2, <1>d, <2>2, <2>3, <2>4, <2>5, SyncNext
<1> QED BY <1>3, <1>4, Zenon DEF GrowWindow, Window

LEMMA SyncKeep ==
    ASSUME SyncRows, SyncDue, cfg' = cfg, due' = due, it'.hand = it.hand,
           wb'.window = wb.window, wb'.tensors = wb.tensors
    PROVE SyncRows' /\ SyncDue'
<1>1. SyncRows'
  BY DEF SyncRows, OwnBatch, OwnRows, RowsOf
<1>2. SyncDue'
  BY DEF SyncDue
<1> QED BY <1>1, <1>2

\* A step of the call only, perhaps with a flag or counter of the window buffer.
SyncMoves(t, o) ==
    /\ it' = [it EXCEPT !.todo = t, !.out = o]
    /\ t \in Seq(StepNames) /\ o \in {"ok", "stop"} /\ SyncPhase'
    /\ wb'.window = wb.window /\ wb'.tensors = wb.tensors /\ wb' \in WindowBuffer
    /\ UNCHANGED <<cfg, stack, nextId, smp, drawn, epoch, due, got, stale>>

LEMMA SyncMoved ==
    ASSUME LoaderInv, cfg.mode \in Synchronous, NEW t, NEW o, SyncMoves(t, o)
    PROVE LoaderInv'
<1>1. TypeOK /\ SyncPhase /\ SyncQuiet /\ SyncRows /\ SyncDue /\ ReturnsOwn /\ nextId >= 1
  BY SyncFacts
<1>2. it \in Iterator /\ it' = [it EXCEPT !.todo = t, !.out = o]
  BY SyncFacts DEF SyncMoves
<1>3. t \in Seq(StepNames) /\ o \in {"ok", "stop"}
  BY DEF SyncMoves
<1>4. /\ it'.queue = it.queue /\ it'.pend = it.pend /\ it'.current = it.current
      /\ it'.hand = it.hand /\ it'.exhausted = it.exhausted /\ it'.out = o
  BY <1>2 DEF Iterator
<1>5. it' \in Iterator
  BY <1>2, <1>3 DEF Iterator
<1>6. /\ cfg' = cfg /\ stack' = stack /\ nextId' = nextId /\ smp' = smp /\ got' = got
      /\ stale' = stale /\ epoch' = epoch /\ drawn' = drawn /\ due' = due
      /\ wb'.window = wb.window /\ wb'.tensors = wb.tensors /\ wb' \in WindowBuffer
      /\ SyncPhase'
  BY DEF SyncMoves
<1>7. TypeOK'
  BY <1>1, <1>5, <1>6 DEF TypeOK
<1>8. SyncRows' /\ SyncDue'
  BY <1>1, <1>4, <1>6, SyncKeep
<1>9. SyncQuiet'
  BY <1>1, <1>3, <1>4, <1>6 DEF SyncQuiet
<1>10. ReturnsOwn'
  BY <1>1, <1>6, SameReturns
<1> QED BY <1>1, <1>6, <1>7, <1>8, <1>9, <1>10, SyncNext

\* The call holds the head of the window with its rows.
SyncHands(rows, ts) ==
    /\ wb.window # <<>> /\ it.hand = <<>> /\ it.out = "ok"
    /\ rows = OwnRows(wb.window[1])
    /\ it' = [it EXCEPT !.hand = <<[NewItem(Head(wb.window)) EXCEPT !.rows = rows]>>,
                        !.todo = <<"return">>]
    /\ wb' = [wb EXCEPT !.window = Tail(@), !.tensors = ts]
    /\ ts \in Seq(Seq(Nat \X Nat)) /\ (cfg.mode = "sync" => ts = <<>>)
    /\ Len(ts) < Len(wb.window) /\ \A i \in 1..Len(ts) : ts[i] = OwnRows(wb.window[i + 1])
    /\ UNCHANGED <<cfg, stack, nextId, smp, drawn, epoch, due, got, stale>>

LEMMA SyncHanded ==
    ASSUME LoaderInv, cfg.mode \in Synchronous, NEW rows, NEW ts, SyncHands(rows, ts)
    PROVE LoaderInv'
<1>1. TypeOK /\ SyncPhase /\ SyncQuiet /\ SyncRows /\ SyncDue /\ ReturnsOwn /\ nextId >= 1
  BY SyncFacts
<1>2. it \in Iterator
  BY SyncFacts
<1>3. wb \in WindowBuffer /\ wb.window # <<>>
  BY SyncFacts DEF SyncHands
<1>4. wb.window \in Seq(Nat \ {0})
  BY <1>3 DEF WindowBuffer
<1> DEFINE b == wb.window[1]
           x == [NewItem(b) EXCEPT !.rows = rows]
           h == <<x>>
<1>5. b \in Nat \ {0} /\ b = Head(wb.window)
  BY <1>3, <1>4, TailIs
<1>6. rows = OwnRows(b) /\ rows \in Seq(Nat \X Nat)
  BY <1>1, <1>5, Own DEF SyncHands
<1>7. x \in Item /\ x.batch = b /\ x.rows = rows /\ x.ids = <<>>
  <2>1. NewItem(b) \in Item /\ NewItem(b).batch = b /\ NewItem(b).ids = <<>>
    BY <1>1, <1>5, Fresh
  <2> DEFINE y == NewItem(b)
  <2> HIDE DEF y
  <2>2. y \in Item /\ y.batch = b /\ y.ids = <<>>
    BY <2>1 DEF y
  <2>3. [y EXCEPT !.rows = rows] \in Item /\ [y EXCEPT !.rows = rows].batch = b
        /\ [y EXCEPT !.rows = rows].rows = rows /\ [y EXCEPT !.rows = rows].ids = <<>>
    BY <1>6, <2>2 DEF Item
  <2> QED BY <2>3 DEF y
<1>8. it' = [it EXCEPT !.hand = h, !.todo = <<"return">>]
  BY <1>5 DEF SyncHands
<1> HIDE DEF x
<1>9. h \in Seq(Item) /\ Len(h) = 1 /\ h[1] = x /\ h # <<>>
  BY <1>7
<1> HIDE DEF h
<1>10. <<"return">> \in Seq(StepNames) /\ <<"return">> \in PostTodo(cfg.mode)
  BY SyncPrograms
<1>11. /\ it'.queue = it.queue /\ it'.pend = it.pend /\ it'.current = it.current
       /\ it'.hand = h /\ it'.exhausted = it.exhausted /\ it'.out = it.out
       /\ it'.todo = <<"return">>
  BY <1>2, <1>8 DEF Iterator
<1>12. it' \in Iterator
  BY <1>2, <1>8, <1>9, <1>10 DEF Iterator
<1>13. /\ cfg' = cfg /\ stack' = stack /\ nextId' = nextId /\ smp' = smp /\ got' = got
       /\ stale' = stale /\ epoch' = epoch /\ drawn' = drawn /\ due' = due
       /\ it.hand = <<>> /\ it.out = "ok"
  BY DEF SyncHands
<1>14. wb' = [wb EXCEPT !.window = Tail(@), !.tensors = ts] /\ ts \in Seq(Seq(Nat \X Nat))
  BY DEF SyncHands
<1>15. wb'.window = Tail(wb.window) /\ wb'.tensors = ts
  BY <1>3, <1>14 DEF WindowBuffer
<1>16. Tail(wb.window) \in Seq(Nat \ {0})
  BY <1>3, <1>4, TailIs
<1>17. wb' \in WindowBuffer
  BY <1>3, <1>14, <1>16 DEF WindowBuffer
<1>18. /\ Len(wb.window) \in Nat /\ Len(wb'.window) = Len(wb.window) - 1
       /\ \A i \in 1..(Len(wb.window) - 1) : wb'.window[i] = wb.window[i + 1]
  BY <1>3, <1>4, <1>15, TailIs
<1>19. TypeOK'
  BY <1>1, <1>12, <1>13, <1>17 DEF TypeOK
<1>20. SyncPhase'
  BY <1>9, <1>10, <1>11, <1>13 DEF SyncPhase
<1>21. SyncQuiet'
  BY <1>1, <1>11, <1>13 DEF SyncQuiet
<1>22. SyncRows'
  <2>1. Len(ts) < Len(wb.window) /\ (\A i \in 1..Len(ts) : ts[i] = OwnRows(wb.window[i + 1]))
    BY DEF SyncHands
  <2>2. Len(ts) \in Nat
    BY <1>14, LenIs
  <2>3. Len(wb'.tensors) <= Len(wb'.window)
    BY <1>15, <1>18, <2>1, <2>2
  <2>4. \A i \in 1..Len(ts) : wb'.window[i] = wb.window[i + 1]
    BY <1>18, <2>1, <2>2
  <2>5. (\A i \in 1..Len(wb.tensors) : wb.tensors[i] = OwnRows(wb.window[i]))'
    BY <1>13, <1>15, <2>1, <2>4, Zenon DEF OwnRows, RowsOf
  <2>6. (OwnRows(it.hand[1].batch))' = OwnRows(b)
    BY <1>7, <1>9, <1>11, <1>13 DEF OwnRows, RowsOf
  <2>7. (\A i \in 1..Len(it.hand) : OwnBatch(it.hand[i]) /\ it.hand[i].ids = <<>>)'
    <3>0. Len(it'.hand) = 1
      BY <1>9, <1>11
    <3>1. \A i \in 1..Len(it'.hand) : i = 1
      BY <3>0
    <3>2. it'.hand[1].rows = (OwnRows(it.hand[1].batch))' /\ it'.hand[1].ids = <<>>
      BY <1>6, <1>7, <1>9, <1>11, <2>6
    <3> QED BY <3>1, <3>2, Zenon DEF OwnBatch
  <2>8. (cfg.mode = "sync" => wb.tensors = <<>>)'
    BY <1>13, <1>15 DEF SyncHands
  <2> QED BY <2>3, <2>5, <2>7, <2>8, Zenon DEF SyncRows
<1>23. SyncDue'
  <2>1. Len(it.hand) = 0
    BY <1>13
  <2>2. Len(due) = Len(wb.window) /\ \A i \in 1..Len(wb.window) : due[i] = wb.window[i]
    BY <1>1, <1>18, <2>1 DEF SyncDue
  <2>3. Len(wb.window) >= 1
    BY <1>3, <1>4, TailIs
  <2>4. due'[1] = h[1].batch /\ Len(due') = 1 + Len(wb'.window)
    BY <1>7, <1>9, <1>13, <1>18, <2>2, <2>3
  <2>5. \A i \in 1..Len(wb'.window) : due'[1 + i] = wb'.window[i]
    BY <1>13, <1>18, <2>2, <2>3
  <2>6. Len(it'.hand) = 1 /\ it'.hand[1] = h[1] /\ \A i \in 1..Len(it'.hand) : i = 1
    BY <1>9, <1>11
  <2> QED BY <2>4, <2>5, <2>6, Zenon DEF SyncDue
<1>24. ReturnsOwn'
  BY <1>1, <1>13, SameReturns
<1> QED BY <1>1, <1>13, <1>19, <1>20, <1>21, <1>22, <1>23, <1>24, SyncNext

LEMMA SyncFillWindow ==
    ASSUME LoaderInv, cfg.mode \in Synchronous, FillWindow PROVE LoaderInv'
<1>1. At("wb")
  BY DEF FillWindow
<1>2. ~At("init") /\ ~At("read") /\ ~At("acc") /\ ~At("return") /\ it.todo # <<>>
  BY <1>1 DEF At
<1>3. /\ it.out = "ok" /\ it.hand = <<>>
      /\ Rest = <<"read", "return">> \/ \E j \in 0..WbSize : Rest = Windowed(j)
  BY <1>2, SyncLabels, Zenon
<1>4. Rest \in PreTodo(cfg.mode) /\ Rest \in Seq(StepNames) /\ Head(Rest) # "acc"
  <2>1. CASE Rest = <<"read", "return">>
    BY <2>1, SyncPrograms
  <2>2. ASSUME NEW j \in 0..WbSize, Rest = Windowed(j)
        PROVE Rest \in PreTodo(cfg.mode) /\ Rest \in Seq(StepNames) /\ Head(Rest) # "acc"
    <3>1. Windowed(j) \in PreTodo(cfg.mode) /\ Windowed(j) \in Seq(StepNames)
          /\ Head(Windowed(j)) \in {"wb", "init"}
      BY SyncPrograms, Zenon
    <3> QED BY <2>2, <3>1
  <2> QED BY <1>3, <2>1, <2>2, Zenon
<1>5. GrowWindow(Rest)
  BY <1>3, <1>4, Zenon DEF FillWindow, GrowWindow
<1> QED BY <1>5, SyncWindow

LEMMA SyncWindowFilled ==
    ASSUME LoaderInv, cfg.mode \in Synchronous, WindowFilled PROVE LoaderInv'
<1>1. At("init")
  BY DEF WindowFilled
<1>2. ~At("wb") /\ ~At("read") /\ ~At("acc") /\ ~At("return") /\ it.todo # <<>>
  BY <1>1 DEF At
<1>3. it.out = "ok" /\ it.hand = <<>> /\ Rest = <<"wb", "read", "return">>
  BY <1>2, SyncLabels, Zenon
<1>4. /\ <<"wb", "read", "return">> \in PreTodo(cfg.mode)
      /\ <<"wb", "read", "return">> \in Seq(StepNames)
      /\ Head(<<"wb", "read", "return">>) = "wb"
  BY SyncPrograms
<1> DEFINE t == <<"wb", "read", "return">>
<1> HIDE DEF t
<1>5. t \in PreTodo(cfg.mode) /\ t \in Seq(StepNames) /\ Head(t) = "wb" /\ Rest = t
  BY <1>3, <1>4 DEF t
<1>6. it \in Iterator /\ wb \in WindowBuffer
  BY SyncFacts
<1>7. it' = [it EXCEPT !.todo = t] /\ wb' = [wb EXCEPT !.init = TRUE]
  BY <1>5 DEF WindowFilled, Goto
<1>8. it' = [it EXCEPT !.todo = t, !.out = "ok"]
  BY <1>3, <1>6, <1>7 DEF Iterator
<1>9. wb'.window = wb.window /\ wb'.tensors = wb.tensors /\ wb' \in WindowBuffer
  BY <1>6, <1>7 DEF WindowBuffer
<1>10. UNCHANGED <<cfg, stack, nextId, smp, drawn, epoch, due, got, stale>>
  BY DEF WindowFilled
<1>11. it'.todo = t /\ it'.out = "ok" /\ it'.hand = it.hand
  BY <1>6, <1>8 DEF Iterator
<1>12. SyncPhase'
  <2>1. ~At("read")' /\ ~At("acc")'
    BY <1>5, <1>11 DEF At
  <2> QED BY <1>3, <1>5, <1>10, <1>11, <2>1 DEF SyncPhase
<1>13. SyncMoves(t, "ok")
  BY <1>5, <1>8, <1>9, <1>10, <1>12 DEF SyncMoves
<1> QED BY <1>13, SyncMoved

LEMMA SyncRead ==
    ASSUME LoaderInv, cfg.mode \in Synchronous, Read PROVE LoaderInv'
<1>1. At("read")
  BY DEF Read
<1>2. ~At("wb") /\ ~At("init") /\ ~At("acc") /\ ~At("return") /\ it.todo # <<>>
  BY <1>1 DEF At
<1>3. it.out = "ok" /\ it.hand = <<>> /\ Rest = <<"return">> /\ wb.window # <<>>
      /\ it.todo = <<"read", "return">>
  BY <1>2, SyncLabels, Zenon
<1>4. it \in Iterator /\ TypeOK /\ SyncRows
  BY SyncFacts
<1>5. wb \in WindowBuffer
  BY SyncFacts
<1>6. wb.window \in Seq(Nat \ {0}) /\ wb.tensors \in Seq(Seq(Nat \X Nat))
  BY <1>5 DEF WindowBuffer
<1>7. Head(wb.window) = wb.window[1] /\ Len(wb.window) \in Nat /\ Len(wb.window) >= 1
  BY <1>3, <1>6, TailIs
<1>8. UNCHANGED <<cfg, stack, nextId, smp, drawn, epoch, due, got, stale>>
  BY DEF Read
<1>9. CASE /\ cfg.mode = "sync"
           /\ it' = Handed(OwnRows(Head(wb.window)))
           /\ wb' = [wb EXCEPT !.window = Tail(@)]
  <2>1. wb.tensors = <<>>
    BY <1>4, <1>9 DEF SyncRows
  <2>2. it' = Handed(OwnRows(wb.window[1])) /\ wb' = [wb EXCEPT !.window = Tail(@)]
    BY <1>7, <1>9
  <2>3. wb' = [wb EXCEPT !.window = Tail(@), !.tensors = <<>>]
    BY <1>5, <2>1, <2>2 DEF WindowBuffer
  <2>4. <<>> \in Seq(Seq(Nat \X Nat)) /\ Len(<<>>) = 0
    OBVIOUS
  <2>5. Len(<<>>) < Len(wb.window) /\ \A i \in 1..Len(<<>>) : <<>>[i] = OwnRows(wb.window[i + 1])
    BY <1>7, <2>4
  <2>6. SyncHands(OwnRows(wb.window[1]), <<>>)
    BY <1>3, <1>8, <2>2, <2>3, <2>4, <2>5, Zenon DEF SyncHands, Handed
  <2> QED BY <2>6, SyncHanded
<1>10. CASE /\ cfg.mode = "accum" /\ wb.tensors # <<>>
            /\ it' = Handed(Head(wb.tensors))
            /\ wb' = [wb EXCEPT !.window = Tail(@), !.tensors = Tail(@)]
  <2> DEFINE ts == Tail(wb.tensors)
  <2>1. /\ ts \in Seq(Seq(Nat \X Nat)) /\ Len(wb.tensors) \in Nat /\ Len(wb.tensors) >= 1
        /\ Len(ts) = Len(wb.tensors) - 1
        /\ \A i \in 1..(Len(wb.tensors) - 1) : ts[i] = wb.tensors[i + 1]
        /\ Head(wb.tensors) = wb.tensors[1]
    BY <1>6, <1>10, TailIs
  <2>2. /\ Len(wb.tensors) <= Len(wb.window)
        /\ \A i \in 1..Len(wb.tensors) : wb.tensors[i] = OwnRows(wb.window[i])
    BY <1>4 DEF SyncRows
  <2>3. wb' = [wb EXCEPT !.window = Tail(@), !.tensors = ts]
    BY <1>10
  <2>4. it' = Handed(wb.tensors[1]) /\ wb.tensors[1] = OwnRows(wb.window[1])
    <3>1. 1 \in 1..Len(wb.tensors)
      BY <2>1
    <3> QED BY <1>10, <2>1, <2>2, <3>1, Zenon
  <2> HIDE DEF ts
  <2>5. Len(ts) < Len(wb.window) /\ \A i \in 1..Len(ts) : ts[i] = OwnRows(wb.window[i + 1])
    BY <1>7, <2>1, <2>2
  <2>6. cfg.mode # "sync"
    BY <1>10
  <2>7. SyncHands(wb.tensors[1], ts)
    BY <1>3, <1>8, <2>1, <2>3, <2>4, <2>5, <2>6, Zenon DEF SyncHands, Handed
  <2> QED BY <2>7, SyncHanded
<1>11. CASE /\ cfg.mode = "accum" /\ wb.tensors = <<>>
            /\ Goto(Before("acc", it.todo))
            /\ wb' = [wb EXCEPT !.iter = 0]
  <2> DEFINE t == Before("acc", <<"read", "return">>)
  <2>1. t \in PreTodo(cfg.mode) /\ t \in Seq(StepNames) /\ Head(t) = "acc"
    BY SyncPrograms
  <2>2. it' = [it EXCEPT !.todo = t] /\ wb' = [wb EXCEPT !.iter = 0]
    BY <1>3, <1>11 DEF Goto
  <2> HIDE DEF t
  <2>3. it' = [it EXCEPT !.todo = t, !.out = "ok"]
    BY <1>3, <1>4, <2>2 DEF Iterator
  <2>4. wb'.window = wb.window /\ wb'.tensors = wb.tensors /\ wb'.iter = 0
    BY <1>5, <2>2 DEF WindowBuffer
  <2>5. wb' \in WindowBuffer
    BY <1>5, <2>2 DEF WindowBuffer
  <2>6. it'.todo = t /\ it'.out = "ok" /\ it'.hand = it.hand
    BY <1>4, <2>3 DEF Iterator
  <2>7. SyncPhase'
    BY <1>3, <1>7, <1>8, <1>11, <2>1, <2>4, <2>6 DEF SyncPhase
  <2>8. SyncMoves(t, "ok")
    BY <1>8, <2>1, <2>3, <2>4, <2>5, <2>7 DEF SyncMoves
  <2> QED BY <2>8, SyncMoved
<1> QED BY <1>9, <1>10, <1>11, Zenon DEF Read

LEMMA SyncAccumulate ==
    ASSUME LoaderInv, cfg.mode \in Synchronous, Accumulate PROVE LoaderInv'
<1>1. At("acc")
  BY DEF Accumulate
<1>2. ~At("wb") /\ ~At("init") /\ ~At("read") /\ ~At("return") /\ it.todo # <<>>
  BY <1>1 DEF At
<1>3. it.out = "ok" /\ it.hand = <<>> /\ Rest = <<"read", "return">> /\ wb.window # <<>>
      /\ it.todo \in PreTodo(cfg.mode)
      /\ cfg.mode = "accum" /\ wb.tensors = <<>> /\ wb.iter <= Len(wb.window)
  BY <1>2, SyncLabels, Zenon
<1>4. it \in Iterator
  BY SyncFacts
<1>5. wb \in WindowBuffer
  BY SyncFacts
<1>6. it.todo \in Seq(StepNames)
  BY <1>4 DEF Iterator
<1>7. wb.window \in Seq(Nat \ {0}) /\ wb.iter \in Nat
  BY <1>5 DEF WindowBuffer
<1>8. UNCHANGED <<cfg, stack, nextId, smp, epoch, got, stale>>
  BY DEF Accumulate
<1>9. CASE ~Enough /\ wb.iter >= Len(wb.window) /\ Window(it.todo)
  <2>1. GrowWindow(it.todo)
    BY <1>3, <1>6, <1>8, <1>9, Zenon DEF GrowWindow
  <2> QED BY <2>1, SyncWindow
<1>10. CASE ~Enough /\ wb.iter < Len(wb.window) /\ NoDraw
            /\ wb' = [wb EXCEPT !.iter = @ + 1] /\ UNCHANGED it
  <2>1. it' = [it EXCEPT !.todo = it.todo, !.out = "ok"]
    BY <1>3, <1>4, <1>10 DEF Iterator
  <2>2. wb'.window = wb.window /\ wb'.tensors = wb.tensors /\ wb'.iter = wb.iter + 1
    BY <1>5, <1>10 DEF WindowBuffer
  <2>3. wb' \in WindowBuffer
    BY <1>5, <1>10 DEF WindowBuffer
  <2>4. Len(wb.window) \in Nat
    BY <1>7, LenIs
  <2>5. wb'.iter <= Len(wb'.window)
    BY <1>7, <1>10, <2>2, <2>4
  <2>6. SyncPhase'
    BY <1>3, <1>8, <1>10, <2>2, <2>5 DEF SyncPhase
  <2>7. UNCHANGED <<cfg, stack, nextId, smp, drawn, epoch, due, got, stale>>
    BY <1>8, <1>10 DEF NoDraw
  <2>8. SyncMoves(it.todo, "ok")
    BY <1>6, <2>1, <2>2, <2>3, <2>6, <2>7 DEF SyncMoves
  <2> QED BY <2>8, SyncMoved
<1>11. ASSUME Enough, NoDraw, NEW c \in 0..MaxCpu,
              wb' = [wb EXCEPT !.cpu = c,
                         !.tensors = [i \in 1..wb.iter |-> OwnRows(wb.window[i])]],
              Goto(Rest)
       PROVE LoaderInv'
  <2> DEFINE ts == [i \in 1..wb.iter |-> OwnRows(wb.window[i])]
             t == <<"read", "return">>
  <2>1. t \in PreTodo(cfg.mode) /\ t \in Seq(StepNames) /\ Head(t) = "read"
    BY SyncPrograms
  <2>2. it' = [it EXCEPT !.todo = t]
    BY <1>3, <1>11 DEF Goto
  <2>3. TypeOK /\ SyncQuiet /\ SyncRows /\ SyncDue /\ ReturnsOwn /\ nextId >= 1
    BY SyncFacts
  <2>4. \A i \in 1..wb.iter : wb.window[i] \in Nat \ {0}
    BY <1>3, <1>7
  <2>5. \A i \in 1..wb.iter : OwnRows(wb.window[i]) \in Seq(Nat \X Nat)
    BY <2>3, <2>4, Own
  <2>6. /\ ts \in Seq(Seq(Nat \X Nat)) /\ Len(ts) = wb.iter
        /\ \A i \in 1..wb.iter : ts[i] = OwnRows(wb.window[i])
    <3> DEFINE T == Seq(Nat \X Nat)
               n == wb.iter
    <3>1. ts \in [1..n -> T] /\ n \in Nat
      BY <1>7, <2>5, Zenon
    <3>2. \A i \in 1..wb.iter : ts[i] = OwnRows(wb.window[i])
      BY Zenon
    <3> HIDE DEF ts, T, n
    <3>3. ts \in Seq(T) /\ Len(ts) = n
      BY <3>1
    <3> QED BY <3>2, <3>3 DEF T, n
  <2>7. wb' = [wb EXCEPT !.cpu = c, !.tensors = ts]
    BY <1>11
  <2> HIDE DEF ts, t
  <2>8. wb'.window = wb.window /\ wb'.tensors = ts
    BY <1>5, <2>7 DEF WindowBuffer
  <2>9. wb' \in WindowBuffer
    <3>1. c \in Nat
      BY LoaderAssumption
    <3> QED BY <1>5, <2>6, <2>7, <3>1 DEF WindowBuffer
  <2>10. /\ it'.queue = it.queue /\ it'.pend = it.pend /\ it'.current = it.current
         /\ it'.hand = it.hand /\ it'.exhausted = it.exhausted /\ it'.out = "ok" /\ it'.todo = t
    BY <1>3, <1>4, <2>2 DEF Iterator
  <2>11. it' \in Iterator
    BY <1>4, <2>1, <2>2 DEF Iterator
  <2>12. drawn' = drawn /\ due' = due
    BY <1>11 DEF NoDraw
  <2>13. TypeOK'
    BY <1>8, <2>3, <2>9, <2>11, <2>12 DEF TypeOK
  <2>14. SyncPhase'
    <3>1. ~At("acc")'
      BY <2>1, <2>10 DEF At
    <3> QED BY <1>3, <1>8, <2>1, <2>8, <2>10, <3>1 DEF SyncPhase
  <2>15. SyncQuiet'
    BY <1>8, <2>3, <2>10 DEF SyncQuiet
  <2>16. SyncRows'
    <3>1. Len(wb'.tensors) <= Len(wb'.window)
      BY <1>3, <2>6, <2>8
    <3>2. (\A i \in 1..Len(wb.tensors) : wb.tensors[i] = OwnRows(wb.window[i]))'
      BY <1>8, <2>6, <2>8, Zenon DEF OwnRows, RowsOf
    <3>3. Len(it'.hand) = 0
      BY <1>3, <2>10
    <3>4. (cfg.mode = "sync" => wb.tensors = <<>>)'
      BY <1>3, <1>8
    <3> QED BY <3>1, <3>2, <3>3, <3>4 DEF SyncRows
  <2>17. SyncDue'
    BY <2>3, <2>8, <2>10, <2>12 DEF SyncDue
  <2>18. ReturnsOwn'
    BY <1>8, <2>3, SameReturns
  <2> QED BY <1>8, <2>3, <2>13, <2>14, <2>15, <2>16, <2>17, <2>18, SyncNext
<1> QED BY <1>9, <1>10, <1>11, Zenon DEF Accumulate

LEMMA SyncReturn ==
    ASSUME LoaderInv, cfg.mode \in Synchronous, Return PROVE LoaderInv'
<1>1. At("return")
  BY DEF Return
<1>2. ~At("wb") /\ ~At("init") /\ ~At("read") /\ ~At("acc") /\ it.todo # <<>>
  BY <1>1 DEF At
<1>3. it.out = "ok" /\ Len(it.hand) = 1 /\ Rest = <<>>
  BY <1>2, SyncLabels, Zenon
<1>4. TypeOK /\ SyncQuiet /\ SyncRows /\ SyncDue /\ nextId >= 1
  BY SyncFacts
<1>5. it \in Iterator
  BY SyncFacts
<1>6. wb \in WindowBuffer /\ due \in Seq(Nat \ {0})
  BY SyncFacts
<1>7. /\ cfg' = cfg /\ stack' = stack /\ nextId' = nextId /\ smp' = smp /\ wb' = wb
      /\ drawn' = drawn /\ epoch' = epoch /\ stale' = stale
      /\ it' = [it EXCEPT !.hand = <<>>, !.todo = <<>>]
      /\ due' = Tail(due)
      /\ got' = [want |-> Head(due), batch |-> it.hand[1].batch, rows |-> it.hand[1].rows]
  BY <1>3 DEF Return
<1>8. /\ it'.queue = it.queue /\ it'.pend = it.pend /\ it'.current = it.current
      /\ it'.hand = <<>> /\ it'.exhausted = it.exhausted /\ it'.out = "ok" /\ it'.todo = <<>>
  BY <1>3, <1>5, <1>7 DEF Iterator
<1>9. it' \in Iterator
  <2>1. <<>> \in Seq(StepNames) /\ <<>> \in Seq(Item)
    OBVIOUS
  <2>2. it' = [it EXCEPT !.hand = <<>>, !.todo = <<>>]
    BY <1>7
  <2> QED BY <1>5, <2>1, <2>2 DEF Iterator
<1>10. wb.window \in Seq(Nat \ {0}) /\ Len(wb.window) \in Nat
  BY <1>6, LenIs DEF WindowBuffer
<1>11. Len(due) = 1 + Len(wb.window) /\ due[1] = it.hand[1].batch
       /\ \A i \in 1..Len(wb.window) : due[1 + i] = wb.window[i]
  BY <1>3, <1>4 DEF SyncDue
<1>12. due # <<>>
  BY <1>6, <1>10, <1>11
<1>13. /\ Tail(due) \in Seq(Nat \ {0}) /\ Len(Tail(due)) = Len(due) - 1
       /\ \A i \in 1..(Len(due) - 1) : Tail(due)[i] = due[i + 1]
       /\ Head(due) = due[1]
  BY <1>6, <1>12, TailIs
<1>14. TypeOK'
  BY <1>4, <1>7, <1>9, <1>13 DEF TypeOK
<1>15. SyncPhase' /\ SyncQuiet'
  BY <1>4, <1>7, <1>8 DEF SyncPhase, SyncQuiet
<1>16. Len(it'.hand) = 0
  BY <1>8
<1>17. SyncRows'
  <2>1. (\A i \in 1..Len(wb.tensors) : wb.tensors[i] = OwnRows(wb.window[i]))'
    BY <1>4, <1>7, TensorsStay DEF SyncRows
  <2> QED BY <1>4, <1>7, <1>16, <2>1 DEF SyncRows
<1>18. SyncDue'
  <2>1. Len(due') = Len(wb'.window)
    BY <1>7, <1>10, <1>11, <1>13
  <2>2. \A i \in 1..Len(wb.window) : due'[i] = wb'.window[i]
    <3> TAKE i \in 1..Len(wb.window)
    <3>1. i \in 1..(Len(due) - 1) /\ i + 1 = 1 + i
      BY <1>10, <1>11
    <3>2. due'[i] = due[1 + i] /\ due[1 + i] = wb.window[i]
      BY <1>7, <1>11, <1>13, <3>1
    <3> QED BY <1>7, <3>2
  <2>3. Len(due') = 0 + Len(wb'.window) /\ \A i \in 1..Len(wb'.window) : 0 + i = i
    BY <1>7, <1>10, <2>1
  <2> QED BY <1>7, <1>16, <2>2, <2>3 DEF SyncDue
<1>19. ReturnsOwn'
  <2>1. it.hand[1].rows = OwnRows(it.hand[1].batch)
    BY <1>3, <1>4 DEF SyncRows, OwnBatch
  <2>2. got'.want = it.hand[1].batch /\ got'.batch = it.hand[1].batch
        /\ got'.rows = it.hand[1].rows
    BY <1>7, <1>11, <1>13
  <2>3. (OwnRows(got.want))' = OwnRows(it.hand[1].batch)
    BY <1>7, <2>2 DEF OwnRows, RowsOf
  <2> QED BY <2>1, <2>2, <2>3 DEF ReturnsOwn
<1> QED BY <1>4, <1>7, <1>14, <1>15, <1>17, <1>18, <1>19, SyncNext

LEMMA SyncCall ==
    ASSUME LoaderInv, cfg.mode \in Synchronous, Call PROVE LoaderInv'
<1>1. it.todo = <<>> /\ it.out = "ok" /\ ~Finished
  BY DEF Call, Finished, Prefetching
<1>2. it.hand = <<>>
  <2>1. ~At("wb") /\ ~At("init") /\ ~At("read") /\ ~At("acc") /\ ~At("return")
    BY <1>1 DEF At
  <2> QED BY <2>1, SyncLabels, Zenon
<1>3. /\ UNCHANGED <<cfg, stack, nextId, smp, drawn, epoch, due, got, stale>> /\ wb' = wb
      /\ it' = [it EXCEPT !.todo = NextCall]
  BY <1>1 DEF Call
<1>4. it \in Iterator /\ wb \in WindowBuffer
  BY SyncFacts
<1>5. /\ NextCall \in PreTodo(cfg.mode) /\ NextCall \in Seq(StepNames)
      /\ Head(NextCall) \in {"wb", "init"}
  <2>1. NextCall = IF wb.init THEN <<"wb", "read", "return">> ELSE Windowed(WbSize)
    BY DEF NextCall, Windowed, Synchronous
  <2>2. WbSize \in 0..WbSize
    BY LoaderAssumption
  <2>3. CASE wb.init
    BY <2>1, <2>3, SyncPrograms
  <2>4. CASE ~wb.init
    BY <2>1, <2>2, <2>4, SyncPrograms, Zenon
  <2> QED BY <2>3, <2>4
<1> DEFINE t == NextCall
<1>6. it' = [it EXCEPT !.todo = t, !.out = "ok"]
  BY <1>1, <1>3, <1>4 DEF Iterator
<1>7. it'.todo = t /\ it'.out = "ok" /\ it'.hand = it.hand
  BY <1>4, <1>6 DEF Iterator
<1>8. SyncPhase'
  <2>1. ~At("read")' /\ ~At("acc")'
    BY <1>5, <1>7 DEF At
  <2> QED BY <1>2, <1>3, <1>5, <1>7, <2>1 DEF SyncPhase
<1>9. SyncMoves(t, "ok")
  BY <1>3, <1>4, <1>5, <1>6, <1>8, Zenon DEF SyncMoves
<1> QED BY <1>9, SyncMoved

LEMMA SyncNewEpoch ==
    ASSUME LoaderInv, cfg.mode \in Synchronous, NewEpoch PROVE LoaderInv'
<1>1. it.todo = <<>>
  BY DEF NewEpoch
<1>2. it.hand = <<>>
  <2>1. ~At("wb") /\ ~At("init") /\ ~At("read") /\ ~At("acc") /\ ~At("return")
    BY <1>1 DEF At
  <2> QED BY <2>1, SyncLabels, Zenon
<1>3. TypeOK /\ SyncQuiet /\ SyncRows /\ SyncDue /\ ReturnsOwn /\ nextId >= 1
  BY SyncFacts
<1>4. /\ cfg' = cfg /\ stack' = stack /\ nextId' = nextId /\ wb' = wb /\ got' = got
      /\ epoch' = epoch + 1 /\ drawn' = epoch * EpochLen /\ smp' = NewSampler /\ due' = due
      /\ stale' = (stale \/ stack # <<>>) /\ it' = NewIter(cfg.mode)
  BY DEF NewEpoch
<1>5. NewIter(cfg.mode) = [queue |-> <<>>, pend |-> <<>>, current |-> <<>>, hand |-> <<>>,
                  exhausted |-> FALSE, ios |-> 0, todo |-> <<>>, out |-> "ok"]
  <2>1. cfg.mode = "sync" \/ cfg.mode = "accum"
    BY DEF Synchronous
  <2>2. Warmup["sync"] = <<>> /\ Warmup["accum"] = <<>>
    BY DEF Warmup
  <2>3. Warmup[cfg.mode] = <<>>
    BY <2>1, <2>2, Zenon
  <2> QED BY <2>3, Zenon DEF NewIter
<1>6. /\ it'.queue = <<>> /\ it'.pend = <<>> /\ it'.current = <<>>
      /\ it'.hand = <<>> /\ it'.exhausted = FALSE /\ it'.out = "ok" /\ it'.todo = <<>>
  BY <1>4, <1>5
<1>7. it' \in Iterator
  <2>1. <<>> \in Seq(StepNames) /\ <<>> \in Seq(Item)
    OBVIOUS
  <2> QED BY <1>4, <1>5, <2>1 DEF Iterator
<1>8. TypeOK'
  <2>1. epoch' \in Nat /\ drawn' \in Nat
    BY <1>3, <1>4, LoaderAssumption DEF TypeOK
  <2>2. stale' \in BOOLEAN
    BY <1>4
  <2>3. smp' \in SamplerThread
    <3>1. <<>> \in Seq(Nat)
      OBVIOUS
    <3> QED BY <1>4, <3>1 DEF NewSampler, SamplerThread
  <2> QED BY <1>3, <1>4, <1>7, <2>1, <2>2, <2>3 DEF TypeOK
<1>9. SyncPhase' /\ SyncQuiet'
  BY <1>3, <1>4, <1>6 DEF SyncPhase, SyncQuiet, NewSampler
<1>10. SyncRows' /\ SyncDue'
  BY <1>2, <1>3, <1>4, <1>6, SyncKeep
<1>11. ReturnsOwn'
  BY <1>3, <1>4, SameReturns
<1> QED BY <1>3, <1>4, <1>8, <1>9, <1>10, <1>11, SyncNext

LEMMA SyncStep ==
    ASSUME LoaderInv, cfg.mode \in Synchronous, Next PROVE LoaderInv'
<1>1. CASE Over
  <2>1. UNCHANGED vars
    BY <1>1 DEF Over
  <2> QED BY <2>1, Unchanged
<1> QED BY <1>1, SyncActions, SyncFillWindow, SyncWindowFilled, SyncRead, SyncAccumulate, SyncReturn,
           SyncCall, SyncNewEpoch, Zenon

(***************************************************************************)
(* The queues of items and of requests                                     *)
(***************************************************************************)
\* Only the flags of requests change.
SameRequests ==
    /\ Len(stack') = Len(stack)
    /\ \A j \in 1..Len(stack) :
         /\ stack'[j].id = stack[j].id /\ stack'[j].batch = stack[j].batch
         /\ stack'[j].n = stack[j].n /\ stack'[j].first = stack[j].first
         /\ stack[j].done => stack'[j].done
         /\ stack'[j].ready => stack'[j].done

SameItems ==
    /\ it'.queue = it.queue /\ it'.hand = it.hand /\ it'.current = it.current
    /\ it'.ios = it.ios /\ cfg' = cfg /\ nextId' = nextId /\ stale' = stale

LEMMA ItemsSame ==
    ASSUME Items, SameItems PROVE Items'
<1>1. it'.queue = it.queue /\ it'.hand = it.hand /\ it'.current = it.current
      /\ cfg' = cfg /\ nextId' = nextId
  BY DEF SameItems
<1>2. Items' = Items
  BY <1>1 DEF Items, ItemOK, RowsOK, Full, RowsOf, PartsOf
<1> QED BY <1>2

\* An identifier in the stack.
LEMMA InStack ==
    ASSUME TypeOK, Numbering
    PROVE /\ Len(stack) \in Nat /\ nextId \in Nat /\ Base \in Nat /\ Base >= 1
          /\ Base + Len(stack) = nextId
          /\ \A id \in Nat : id >= Base /\ id < nextId => id - Base + 1 \in 1..Len(stack)
<1>1. Len(stack) \in Nat /\ nextId \in Nat
  BY LenIs DEF TypeOK
<1>2. Len(stack) < nextId
  BY DEF Numbering
<1> QED BY <1>1, <1>2 DEF Base

\* Linked items stay linked while their requests keep their places ...
OldRequests ==
    /\ Base' = Base
    /\ \A j \in 1..Len(stack) : /\ stack'[j].batch = stack[j].batch
                                /\ stack'[j].n = stack[j].n
                                /\ stack'[j].first = stack[j].first

LEMMA LinkedKept ==
    ASSUME TypeOK, Numbering, OldRequests, NEW x \in Item, ItemOK(x), Linked(x)
    PROVE Linked(x)'
<1>1. SUFFICES ASSUME NEW k \in 1..Len(x.ids), k > x.mat
               PROVE /\ x.ids[k] >= Base'
                     /\ stack'[x.ids[k] - Base' + 1].batch = x.batch
                     /\ stack'[x.ids[k] - Base' + 1].n = x.parts[k]
                     /\ stack'[x.ids[k] - Base' + 1].first = SumUpTo(x.parts, k - 1)
  BY DEF Linked
<1>2. x.ids[k] \in Nat /\ x.ids[k] >= Base /\ x.ids[k] < nextId
  BY <1>1, ItemIds, Zenon DEF Linked
<1>3. x.ids[k] - Base + 1 \in 1..Len(stack)
  BY <1>2, InStack
<1>4. /\ stack[x.ids[k] - Base + 1].batch = x.batch
      /\ stack[x.ids[k] - Base + 1].n = x.parts[k]
      /\ stack[x.ids[k] - Base + 1].first = SumUpTo(x.parts, k - 1)
  BY <1>1 DEF Linked
<1> QED BY <1>2, <1>3, <1>4 DEF OldRequests

\* ... and when the front request, of another item, is popped.
Popped == /\ stack # <<>> /\ stack' = Tail(stack) /\ nextId' = nextId

LEMMA PoppedIs ==
    ASSUME TypeOK, Numbering, Popped
    PROVE /\ Base' = Base + 1 /\ stack[1].id = Base /\ Len(stack) >= 1
          /\ stack' \in Seq(Outstanding) /\ Len(stack') = Len(stack) - 1
          /\ \A j \in 1..(Len(stack) - 1) : stack'[j] = stack[j + 1]
          /\ Numbering'
<1>1. stack \in Seq(Outstanding) /\ stack # <<>> /\ stack' = Tail(stack) /\ nextId' = nextId
  BY DEF TypeOK, Popped
<1>2. /\ Len(stack) >= 1 /\ stack' \in Seq(Outstanding) /\ Len(stack') = Len(stack) - 1
      /\ \A j \in 1..(Len(stack) - 1) : stack'[j] = stack[j + 1]
  BY <1>1, TailIs
<1>3. Len(stack) \in Nat /\ nextId \in Nat
  BY InStack
<1>4. Base' = Base + 1
  BY <1>1, <1>2, <1>3 DEF Base
<1>5. \A j \in 1..Len(stack) : stack[j].id = Base + j - 1 /\ (stack[j].ready => stack[j].done)
  BY DEF Numbering
<1>6. stack[1].id = Base
  BY <1>2, <1>3, <1>5, InStack
<1>7. Numbering'
  <2>1. Len(stack') < nextId'
    BY <1>1, <1>2, <1>3 DEF Numbering
  <2>2. ASSUME NEW j \in 1..Len(stack')
        PROVE stack'[j].id = Base' + j - 1 /\ (stack'[j].ready => stack'[j].done)
    <3>1. j + 1 \in 1..Len(stack) /\ j \in 1..(Len(stack) - 1)
      BY <1>2, <1>3
    <3>2. stack'[j] = stack[j + 1]
      BY <1>2, <3>1
    <3>3. stack[j + 1].id = Base + (j + 1) - 1 /\ (stack[j + 1].ready => stack[j + 1].done)
      BY <1>5, <3>1
    <3> QED BY <1>4, <3>2, <3>3, InStack
  <2> QED BY <2>1, <2>2 DEF Numbering
<1> QED BY <1>2, <1>4, <1>6, <1>7

LEMMA LinkedPopped ==
    ASSUME TypeOK, Numbering, Popped, NEW x \in Item, ItemOK(x), Linked(x),
           Base \notin Unfetched(x)
    PROVE Linked(x)'
<1>1. SUFFICES ASSUME NEW k \in 1..Len(x.ids), k > x.mat
               PROVE /\ x.ids[k] >= Base'
                     /\ stack'[x.ids[k] - Base' + 1].batch = x.batch
                     /\ stack'[x.ids[k] - Base' + 1].n = x.parts[k]
                     /\ stack'[x.ids[k] - Base' + 1].first = SumUpTo(x.parts, k - 1)
  BY DEF Linked
<1>2. x.ids[k] \in Nat /\ x.ids[k] >= Base /\ x.ids[k] < nextId /\ x.mat \in Nat
      /\ Len(x.ids) \in Nat
  BY <1>1, ItemIds, ItemFields, Zenon DEF Linked
<1>3. x.ids[k] # Base
  BY <1>1, <1>2 DEF Unfetched
<1>4. /\ stack[x.ids[k] - Base + 1].batch = x.batch
      /\ stack[x.ids[k] - Base + 1].n = x.parts[k]
      /\ stack[x.ids[k] - Base + 1].first = SumUpTo(x.parts, k - 1)
  BY <1>1 DEF Linked
<1> DEFINE j == x.ids[k] - Base
<1>5. j \in 1..(Len(stack) - 1) /\ x.ids[k] - Base' + 1 = j /\ x.ids[k] >= Base'
  <2>1. Base \in Nat /\ Len(stack) \in Nat /\ Base + Len(stack) = nextId /\ Base' = Base + 1
    BY InStack, PoppedIs
  <2> QED BY <1>2, <1>3, <2>1
<1>6. stack'[j] = stack[j + 1]
  BY <1>5, PoppedIs
<1> QED BY <1>4, <1>5, <1>6

LEMMA QueueSame ==
    ASSUME TypeOK, Numbering, QueueInv, cfg.mode \in Queued, SameRequests, SameItems
    PROVE QueueInv' /\ Numbering'
<1>1. /\ it'.queue = it.queue /\ it'.hand = it.hand /\ it'.current = it.current
      /\ it'.ios = it.ios /\ cfg' = cfg /\ nextId' = nextId /\ stale' = stale
  BY DEF SameItems
<1>2. Items /\ Order /\ Link /\ Cover /\ Ios /\ Polled /\ Fetched1
  BY DEF QueueInv
<1>3. Len(stack') = Len(stack) /\ Base' = Base
  BY <1>1 DEF SameRequests, Base
<1>4. Items'
  BY <1>2, ItemsSame
<1>5. Order'
  BY <1>1, <1>2 DEF Order
<1>6. Link'
  <2>1. OldRequests
    BY <1>3 DEF SameRequests, OldRequests
  <2>2. it.queue \in Seq(Item) /\ it.hand \in Seq(Item)
    BY DEF TypeOK, Iterator
  <2>3. ASSUME cfg.mode \in Registered \/ ~stale, NEW i \in 1..Len(it.queue)
        PROVE Linked(it.queue[i])'
    <3>1. it.queue[i] \in Item /\ ItemOK(it.queue[i]) /\ Linked(it.queue[i])
      BY <1>2, <2>2, <2>3 DEF Items, Link
    <3> QED BY <1>1, <2>1, <3>1, LinkedKept
  <2>4. ASSUME cfg.mode \in Registered \/ ~stale, NEW i \in 1..Len(it.hand)
        PROVE Linked(it.hand[i])'
    <3>1. it.hand[i] \in Item /\ ItemOK(it.hand[i]) /\ Linked(it.hand[i])
      BY <1>2, <2>2, <2>4 DEF Items, Link
    <3> QED BY <1>1, <2>1, <3>1, LinkedKept
  <2>5. cfg.mode \in OnePart => Len(it'.queue) <= Len(stack')
    BY <1>1, <1>2, <1>3 DEF Link
  <2> QED BY <1>1, <2>3, <2>4, <2>5 DEF Link
<1>7. Cover'
  <2>1. \A i : Unfetched(it.queue[i])' = Unfetched(it.queue[i])
    BY <1>1, Zenon DEF Unfetched
  <2>2. \A i : Unfetched(it.hand[i])' = Unfetched(it.hand[i])
    BY <1>1, Zenon DEF Unfetched
  <2>3. Cover
    BY <1>2
  <2> QED BY <1>1, <1>3, <2>1, <2>2, <2>3, Zenon DEF Cover
<1>8. Ios'
  BY <1>1, <1>2, <1>3 DEF Ios, PendingRows, ItemRows
<1>9. Polled'
  <2>1. SUFFICES ASSUME cfg.mode \notin Registered, NEW i \in 1..Len(it.queue),
                        it.queue[i].polled
                 PROVE i = 1 /\ stack'[1].done
    BY <1>1 DEF Polled
  <2>2. i = 1 /\ stack[1].done
    BY <1>2, <2>1 DEF Polled
  <2>3. cfg.mode \in OnePart
    BY <2>1 DEF Queued, Prefetched, OnePart, Registered
  <2>4. Len(it.queue) <= Len(stack) /\ Len(it.queue) \in Nat /\ Len(stack) \in Nat
    BY <1>2, <2>3, InStack, LenIs DEF Link, TypeOK, Iterator
  <2>5. 1 \in 1..Len(stack)
    BY <2>1, <2>4
  <2> QED BY <2>2, <2>5 DEF SameRequests
<1>10. Fetched1'
  <2>1. \A x : OwnBatch(x)' <=> OwnBatch(x)
    BY <1>1, Zenon DEF OwnBatch, OwnRows, RowsOf
  <2>2. Fetched1
    BY <1>2
  <2> QED BY <1>1, <2>1, <2>2, Zenon DEF Fetched1
<1>11. Numbering'
  BY <1>1, <1>3 DEF Numbering, SameRequests
<1> QED BY <1>1, <1>4, <1>5, <1>6, <1>7, <1>8, <1>9, <1>10, <1>11 DEF QueueInv

(***************************************************************************)
(* Submitting the next k parts of an item, the last of the queue           *)
(***************************************************************************)
Submission(x, y, k, p) ==
    /\ x \in Item /\ y \in Item /\ k \in Nat \ {0}
    /\ ItemOK(x) /\ RowsOK(x) /\ Len(x.ids) + k <= Len(x.parts)
    /\ cfg.mode # "split" => x.mat = 0
    /\ p \in Nat /\ Len(it'.queue) = p
    /\ \/ p = Len(it.queue) + 1 /\ x.ids = <<>> /\ x.polled = FALSE
       \/ p = Len(it.queue) /\ p >= 1 /\ x = it.queue[p] /\ cfg.mode = "split"
    /\ \A i \in 1..(p - 1) : it'.queue[i] = it.queue[i]
    /\ it'.queue[p] = y
    /\ y.batch = x.batch /\ y.parts = x.parts /\ y.mat = x.mat /\ y.used = x.used
    /\ y.polled = x.polled /\ y.rows = x.rows
    /\ Len(y.ids) = Len(x.ids) + k
    /\ \A j \in 1..Len(x.ids) : y.ids[j] = x.ids[j]
    /\ \A j \in 1..k : y.ids[Len(x.ids) + j] = nextId + j - 1
    /\ stack' \in Seq(Outstanding) /\ Len(stack') = Len(stack) + k
    /\ \A j \in 1..Len(stack) : stack'[j] = stack[j]
    /\ \A j \in 1..k : stack'[Len(stack) + j] = Request(x, Len(x.ids) + j, nextId + j - 1)
    /\ nextId' = nextId + k
    /\ it'.hand = it.hand /\ it'.current = it.current /\ cfg' = cfg /\ stale' = stale
    /\ cfg.mode \notin Budgeted => it'.ios = 0
    /\ cfg.mode \in Budgeted => /\ k = 1 /\ it'.ios = it.ios + x.parts[Len(x.ids) + 1]
                                /\ Fits(x.parts[Len(x.ids) + 1])

LEMMA SubmissionStack ==
    ASSUME TypeOK, Numbering, NEW x, NEW y, NEW k, NEW p, Submission(x, y, k, p)
    PROVE OldRequests /\ Numbering'
<1>1. /\ k \in Nat \ {0} /\ Len(stack') = Len(stack) + k
      /\ \A j \in 1..Len(stack) : stack'[j] = stack[j]
      /\ nextId' = nextId + k
  BY DEF Submission
<1>2. Len(stack) \in Nat /\ nextId \in Nat /\ Base \in Nat /\ Base + Len(stack) = nextId
  BY InStack
<1>3. Base' = Base
  BY <1>1, <1>2 DEF Base
<1>4. OldRequests
  BY <1>1, <1>3 DEF OldRequests
<1>5. ASSUME NEW j \in 1..Len(stack')
      PROVE stack'[j].id = Base' + j - 1 /\ (stack'[j].ready => stack'[j].done)
  <2>1. CASE j \in 1..Len(stack)
    BY <1>1, <1>3, <2>1 DEF Numbering
  <2>2. CASE j > Len(stack)
    <3> DEFINE i == j - Len(stack)
    <3>1. i \in 1..k /\ Len(stack) + i = j
      BY <1>1, <1>2, <2>2
    <3>2. stack'[Len(stack) + i] = Request(x, Len(x.ids) + i, nextId + i - 1)
      BY <3>1 DEF Submission
    <3>3. stack'[j].id = nextId + i - 1 /\ stack'[j].ready = FALSE
      BY <3>1, <3>2 DEF Request
    <3> QED BY <1>2, <1>3, <3>1, <3>3
  <2> QED BY <1>1, <1>2, <2>1, <2>2
<1>6. Len(stack') < nextId'
  BY <1>1, <1>2 DEF Numbering
<1> QED BY <1>4, <1>5, <1>6 DEF Numbering

\* The item is well-formed and linked to its new requests.
LEMMA SubmissionItem ==
    ASSUME TypeOK, Numbering, NEW x, NEW y, NEW k, NEW p, Submission(x, y, k, p),
           x.ids = <<>> \/ (cfg.mode \in Registered \/ ~stale => Linked(x))
    PROVE /\ ItemOK(y)' /\ RowsOK(y)'
          /\ cfg.mode \in Registered \/ ~stale => Linked(y)'
<1>1. /\ x \in Item /\ y \in Item /\ k \in Nat \ {0}
      /\ ItemOK(x) /\ RowsOK(x) /\ Len(x.ids) + k <= Len(x.parts)
      /\ y.batch = x.batch /\ y.parts = x.parts /\ y.mat = x.mat /\ y.used = x.used
      /\ y.polled = x.polled /\ y.rows = x.rows
      /\ Len(y.ids) = Len(x.ids) + k
      /\ \A j \in 1..Len(x.ids) : y.ids[j] = x.ids[j]
      /\ \A j \in 1..k : y.ids[Len(x.ids) + j] = nextId + j - 1
      /\ nextId' = nextId + k /\ cfg' = cfg
  BY DEF Submission
<1>2. x.ids \in Seq(Nat) /\ Len(x.ids) \in Nat /\ x.mat \in Nat /\ x.used \in Nat
  BY <1>1, LenIs DEF Item
<1>3. Len(stack) \in Nat /\ nextId \in Nat /\ Base \in Nat /\ Base + Len(stack) = nextId
  BY InStack
<1>k. k \in Nat \ {0} /\ nextId' = nextId + k /\ Len(y.ids) = Len(x.ids) + k
  BY <1>1
<1>4. \A j \in 1..Len(x.ids) : x.ids[j] \in Nat /\ x.ids[j] < nextId
  BY <1>1, <1>2 DEF ItemOK
<1> DEFINE n == Len(x.ids)
           z == y.ids
<1>n. n \in Nat
  BY <1>2
<1>m. Len(z) = n + k /\ \A j \in 1..n : z[j] = x.ids[j] /\ z[j] \in Nat /\ z[j] < nextId
  BY <1>1, <1>4
<1>o. \A j \in 1..k : z[n + j] = nextId + j - 1
  BY <1>1
<1> HIDE DEF n, z
<1>5. \A j \in 1..(n + k) : j > n => j - n \in 1..k /\ z[j] = nextId + (j - n) - 1
  <2>1. SUFFICES ASSUME NEW j \in 1..(n + k), j > n
                 PROVE j - n \in 1..k /\ z[j] = nextId + (j - n) - 1
    OBVIOUS
  <2>2. j - n \in 1..k /\ n + (j - n) = j
    BY <1>k, <1>n, <2>1
  <2> QED BY <1>o, <2>2
<1>6. ItemOK(y)'
  <2>1. y.parts = (PartsOf(RowsOf(y.batch)))'
    BY <1>1 DEF ItemOK, PartsOf, RowsOf
  <2>2. Len(y.ids) <= Len(y.parts) /\ y.mat <= Len(y.ids) /\ y.used <= y.mat
    BY <1>1, <1>2 DEF ItemOK
  <2>3. \A j \in 1..(n + k) : z[j] < nextId + k
    <3> TAKE j \in 1..(n + k)
    <3>1. CASE j \in 1..n
      BY <1>3, <1>m, <1>k, <3>1
    <3>2. CASE j > n
      BY <1>3, <1>5, <1>k, <1>n, <3>2
    <3> QED BY <1>k, <1>n, <3>1, <3>2
  <2>4. \A i, j \in 1..(n + k) : i < j => z[i] < z[j]
    <3> TAKE i, j \in 1..(n + k)
    <3>1. CASE i < j /\ j \in 1..n
      <4>1. i \in 1..n
        BY <1>k, <1>n, <3>1
      <4>2. x.ids[i] < x.ids[j]
        BY <1>1, <3>1, <4>1 DEF ItemOK, n
      <4> QED BY <1>m, <3>1, <4>1, <4>2
    <3>2. CASE i < j /\ j > n /\ i \in 1..n
      BY <1>3, <1>5, <1>k, <1>m, <1>n, <3>2
    <3>3. CASE i < j /\ j > n /\ i > n
      <4>1. z[i] = nextId + (i - n) - 1 /\ z[j] = nextId + (j - n) - 1
        BY <1>5, <3>3
      <4> QED BY <1>3, <1>n, <3>3, <4>1
    <3> QED BY <1>k, <1>n, <3>1, <3>2, <3>3
  <2> QED BY <1>k, <1>m, <2>1, <2>2, <2>3, <2>4 DEF ItemOK, z
<1>7. RowsOK(y)'
  BY <1>1 DEF RowsOK, RowsOf
<1>8. ASSUME cfg.mode \in Registered \/ ~stale PROVE Linked(y)'
  <2>1. SUFFICES ASSUME NEW j \in 1..Len(y.ids), j > y.mat
                 PROVE /\ y.ids[j] >= Base'
                       /\ stack'[y.ids[j] - Base' + 1].batch = y.batch
                       /\ stack'[y.ids[j] - Base' + 1].n = y.parts[j]
                       /\ stack'[y.ids[j] - Base' + 1].first = SumUpTo(y.parts, j - 1)
    BY DEF Linked
  <2>2. Base' = Base
    BY SubmissionStack DEF OldRequests
  <2>3. CASE j \in 1..n
    <3>0. j \in 1..Len(x.ids) /\ y.ids[j] = x.ids[j]
      BY <1>m, <2>3 DEF n, z
    <3>1. Linked(x)
      BY <1>8, <1>2, <3>0
    <3>2. Linked(x)'
      BY <1>1, <3>1, SubmissionStack, LinkedKept
    <3> QED BY <1>1, <2>1, <3>0, <3>2 DEF Linked
  <2>4. CASE j > n
    <3> DEFINE i == j - n
    <3>1. i \in 1..k /\ z[j] = nextId + i - 1
      BY <1>5, <1>m, <2>1, <2>4 DEF z
    <3>2. n + i = j
      BY <1>n
    <3> HIDE DEF i
    <3>3. z[j] - Base' + 1 = Len(stack) + i /\ z[j] >= Base'
      BY <1>3, <2>2, <3>1
    <3>4. stack'[Len(stack) + i] = Request(x, n + i, nextId + i - 1)
      BY <3>1 DEF Submission, n
    <3>5. /\ stack'[Len(stack) + i].batch = x.batch
          /\ stack'[Len(stack) + i].n = x.parts[j]
          /\ stack'[Len(stack) + i].first = SumUpTo(x.parts, j - 1)
      BY <3>2, <3>4 DEF Request
    <3> QED BY <1>1, <3>3, <3>5 DEF z
  <2> QED BY <1>m, <1>n, <2>1, <2>3, <2>4 DEF z
<1> QED BY <1>6, <1>7, <1>8

\* The rows outstanding.
LEMMA RowsIn ==
    \A q, r : r \in ItemRows(q) <=>
               \E j \in (q.mat + 1)..Len(q.ids) : r \in {q.ids[j]} \X (1..q.parts[j])
  BY Zenon DEF ItemRows

LEMMA PendingIn ==
    \A r : r \in PendingRows <=> \E i \in 1..Len(it.queue) : r \in ItemRows(it.queue[i])
  BY Zenon DEF PendingRows

LEMMA PendingInNext ==
    \A r : r \in PendingRows' <=> \E i \in 1..Len(it'.queue) : r \in ItemRows(it'.queue[i])
<1>1. PendingRows' = UNION {ItemRows(it'.queue[i]) : i \in 1..Len(it'.queue)}
  BY DEF PendingRows, ItemRows
<1> QED BY <1>1, Zenon

LEMMA PendingGrows ==
    ASSUME TypeOK, Numbering, Items, NEW x, NEW y, NEW k, NEW p, Submission(x, y, k, p), k = 1
    PROVE /\ PendingRows' = PendingRows \cup ({nextId} \X (1..x.parts[Len(x.ids) + 1]))
          /\ PendingRows \cap ({nextId} \X (1..x.parts[Len(x.ids) + 1])) = {}
<1> DEFINE n == Len(x.ids)
           N == {nextId} \X (1..x.parts[n + 1])
<1>1. /\ x \in Item /\ y.parts = x.parts /\ y.mat = x.mat /\ x.mat <= n
      /\ Len(y.ids) = n + 1 /\ n \in Nat /\ x.mat \in Nat
      /\ \A j \in 1..n : y.ids[j] = x.ids[j]
  BY LenIs DEF Submission, Item, ItemOK
<1>2. y.ids[n + 1] = nextId
  <2>1. y.ids[n + 1] = nextId + 1 - 1 /\ nextId \in Nat
    BY InStack DEF Submission
  <2> QED BY <2>1
<1>3. \A r : r \in ItemRows(y) <=> r \in ItemRows(x) \/ r \in N
  <2>1. (y.mat + 1)..Len(y.ids) = ((x.mat + 1)..n) \cup {n + 1}
    BY <1>1
  <2>2. \A j \in (x.mat + 1)..n : {y.ids[j]} \X (1..y.parts[j]) = {x.ids[j]} \X (1..x.parts[j])
    BY <1>1
  <2>3. {y.ids[n + 1]} \X (1..y.parts[n + 1]) = N
    BY <1>1, <1>2
  <2> DEFINE R(j) == {x.ids[j]} \X (1..x.parts[j])
             S(j) == {y.ids[j]} \X (1..y.parts[j])
  <2>5. /\ \A j \in (x.mat + 1)..n : S(j) = R(j)
        /\ S(n + 1) = N
    BY <2>2, <2>3, Zenon
  <2>6. \A r : r \in ItemRows(x) <=> \E j \in (x.mat + 1)..n : r \in R(j)
    BY RowsIn, Zenon
  <2>7. \A r : r \in ItemRows(y) <=> \E j \in ((x.mat + 1)..n) \cup {n + 1} : r \in S(j)
    BY <2>1, RowsIn, Zenon
  <2> DEFINE A == (x.mat + 1)..n
  <2> HIDE DEF R, S, N, n, A
  <2>8. \A r : r \in ItemRows(y) <=> \E j \in A \cup {n + 1} : r \in S(j)
    BY <2>7 DEF A
  <2>9. \A r : r \in ItemRows(x) <=> \E j \in A : r \in R(j)
    BY <2>6 DEF A
  <2>10. (\A j \in A : S(j) = R(j)) /\ S(n + 1) = N
    BY <2>5 DEF A
  <2> QED BY <2>8, <2>9, <2>10
<1>4. /\ it.queue \in Seq(Item) /\ Len(it.queue) \in Nat /\ p \in Nat
      /\ \A i \in 1..Len(it.queue) : ItemOK(it.queue[i]) /\ it.queue[i] \in Item
  <2>1. it.queue \in Seq(Item)
    BY DEF TypeOK, Iterator
  <2>2. p \in Nat
    BY Zenon DEF Submission
  <2>3. \A i \in 1..Len(it.queue) : ItemOK(it.queue[i])
    BY Zenon DEF Items
  <2>4. \A i \in 1..Len(it.queue) : it.queue[i] \in Item
    BY <2>1, ElementIs, Zenon
  <2>5. Len(it.queue) \in Nat
    BY <2>1
  <2> QED BY <2>1, <2>2, <2>3, <2>4, <2>5, Zenon
<1>5. /\ Len(it'.queue) = p /\ it'.queue[p] = y
      /\ \A i \in 1..(p - 1) : it'.queue[i] = it.queue[i]
      /\ \/ p = Len(it.queue) + 1 /\ x.ids = <<>>
         \/ p = Len(it.queue) /\ p >= 1 /\ x = it.queue[p]
  BY DEF Submission
<1>6. 1..p = (1..(p - 1)) \cup {p}
  BY <1>4, <1>5
<1>7. \A r : r \in PendingRows' <=> (\E i \in 1..(p - 1) : r \in ItemRows(it.queue[i]))
                                  \/ r \in ItemRows(y)
  <2> DEFINE A == 1..(p - 1)
             R(i) == ItemRows(it.queue[i])
             S(i) == ItemRows(it'.queue[i])
  <2>1. \A r : r \in PendingRows' <=> \E i \in A \cup {p} : r \in S(i)
    BY <1>5, <1>6, PendingInNext, Zenon
  <2>2. (\A i \in A : S(i) = R(i)) /\ S(p) = ItemRows(y)
    BY <1>5, Zenon
  <2>3. (\A r : r \in PendingRows' <=> (\E i \in A : r \in R(i)) \/ r \in ItemRows(y))
    <3> HIDE DEF A, R, S
    <3> QED BY <2>1, <2>2
  <2> QED BY <2>3, Zenon
<1>8. \A r : r \in PendingRows <=> (\E i \in 1..(p - 1) : r \in ItemRows(it.queue[i]))
                                 \/ r \in ItemRows(x)
  <2>1. CASE p = Len(it.queue) + 1 /\ x.ids = <<>>
    <3>1. \A r : ~(r \in ItemRows(x))
      <4>1. (x.mat + 1)..Len(x.ids) = {}
        BY <1>1, <2>1
      <4> QED BY <4>1, RowsIn, Zenon
    <3>2. p - 1 = Len(it.queue)
      BY <1>4, <2>1
    <3> QED BY <3>1, <3>2, PendingIn, Zenon
  <2>2. CASE p = Len(it.queue) /\ p >= 1 /\ x = it.queue[p]
    <3> DEFINE A == 1..(p - 1)
               R(i) == ItemRows(it.queue[i])
    <3>1. 1..Len(it.queue) = A \cup {p}
      BY <1>4, <2>2
    <3>2. \A r : r \in PendingRows <=> \E i \in A \cup {p} : r \in R(i)
      BY <3>1, PendingIn, Zenon
    <3>3. R(p) = ItemRows(x)
      BY <2>2
    <3>4. (\A r : r \in PendingRows <=> (\E i \in A : r \in R(i)) \/ r \in ItemRows(x))
      <4> HIDE DEF A, R
      <4> QED BY <3>2, <3>3
    <3> QED BY <3>4, Zenon
  <2> QED BY <1>5, <2>1, <2>2, Zenon
<1>9. PendingRows' = PendingRows \cup N
  <2> HIDE DEF N
  <2>1. \A r : r \in PendingRows' <=> r \in PendingRows \/ r \in N
    BY <1>3, <1>7, <1>8, Zenon
  <2> QED BY <2>1, Zenon
<1>10. \A r \in PendingRows : r[1] # nextId
  <2>1. SUFFICES ASSUME NEW i \in 1..Len(it.queue), NEW r \in ItemRows(it.queue[i])
                 PROVE r[1] # nextId
    BY PendingIn
  <2> DEFINE q == it.queue[i]
  <2>2. PICK j \in (q.mat + 1)..Len(q.ids) : r \in {q.ids[j]} \X (1..q.parts[j])
    BY <2>1, RowsIn, Zenon
  <2>3. r[1] = q.ids[j]
    BY <2>2
  <2>4. q \in Item /\ ItemOK(q)
    BY <1>4
  <2> HIDE DEF q
  <2>5. q.mat \in Nat /\ q.ids \in Seq(Nat)
    BY <2>4 DEF Item
  <2>6. j \in 1..Len(q.ids)
    BY <2>2, <2>5, LenIs
  <2>7. q.ids[j] < nextId /\ q.ids[j] \in Nat /\ nextId \in Nat
    <3>1. q.ids[j] \in Nat
      BY <2>5, <2>6
    <3>2. q.ids[j] < nextId
      BY <2>4, <2>6 DEF ItemOK
    <3> QED BY <3>1, <3>2, InStack
  <2> QED BY <2>3, <2>7
<1>11. \A r \in N : r[1] = nextId
  OBVIOUS
<1>12. PendingRows \cap N = {}
  <2> HIDE DEF N
  <2> QED BY <1>10, <1>11, Zenon
<1> QED BY <1>9, <1>12, Zenon

\* Where nothing is outstanding the stack is empty.
LEMMA EmptyStack ==
    ASSUME TypeOK, Numbering, Items, Cover, Ios, cfg.mode \in Budgeted, ~stale, it.ios = 0
    PROVE Len(stack) = 0
<1>1. PendingRows = {}
  <2>1. IsFiniteSet(PendingRows) /\ Cardinality(PendingRows) = 0
    BY DEF Ios
  <2> QED BY <2>1, FS_EmptySet
<1>2. SUFFICES ASSUME Len(stack) # 0 PROVE FALSE
  OBVIOUS
<1>3. 1 \in 1..Len(stack) /\ Base \in Nat /\ Base + 1 - 1 = Base
  BY <1>2, InStack
<1>4. \/ \E i \in 1..Len(it.queue) : Base \in Unfetched(it.queue[i])
      \/ \E i \in 1..Len(it.hand) : Base \in Unfetched(it.hand[i])
  BY <1>3 DEF Cover
<1>5. ASSUME NEW i \in 1..Len(it.hand), Base \in Unfetched(it.hand[i]) PROVE FALSE
  <2>1. it.hand[i].mat = Len(it.hand[i].ids)
    BY <1>5 DEF Items, Budgeted
  <2>2. it.hand \in Seq(Item)
    BY DEF TypeOK, Iterator
  <2>3. it.hand[i] \in Item
    BY <2>2
  <2>4. Len(it.hand[i].ids) \in Nat
    BY <2>3, LenIs DEF Item
  <2>5. (it.hand[i].mat + 1)..Len(it.hand[i].ids) = {}
    BY <2>1, <2>4
  <2> QED BY <1>5, <2>5, Zenon DEF Unfetched
<1>6. ASSUME NEW i \in 1..Len(it.queue), Base \in Unfetched(it.queue[i]) PROVE FALSE
  <2> DEFINE q == it.queue[i]
  <2>1. q \in Item /\ ItemOK(q)
    <3>1. it.queue \in Seq(Item)
      BY DEF TypeOK, Iterator
    <3> QED BY <3>1 DEF Items
  <2>2. PICK k \in (q.mat + 1)..Len(q.ids) : Base = q.ids[k]
    BY <1>6 DEF Unfetched
  <2> HIDE DEF q
  <2>3. q.mat \in Nat /\ Len(q.ids) \in Nat /\ q.parts \in Seq(Nat \ {0}) /\ Len(q.ids) <= Len(q.parts)
    BY <2>1, LenIs DEF Item, ItemOK
  <2>4. k \in 1..Len(q.parts)
    BY <2>2, <2>3, LenIs
  <2>5. q.parts[k] \in Nat \ {0}
    BY <2>3, <2>4
  <2>6. <<q.ids[k], 1>> \in {q.ids[k]} \X (1..q.parts[k])
    BY <2>5
  <2>7. <<q.ids[k], 1>> \in ItemRows(q)
    BY <2>2, <2>6, RowsIn, Zenon
  <2>8. <<q.ids[k], 1>> \in PendingRows
    BY <2>7, PendingIn, Zenon DEF q
  <2> QED BY <1>1, <2>8, Zenon
<1> QED BY <1>4, <1>5, <1>6, Zenon

LEMMA IosGrow ==
    ASSUME TypeOK, Numbering, Items, Cover, Ios, NEW x, NEW y, NEW k, NEW p, Submission(x, y, k, p)
    PROVE Ios'
<1>1. cfg' = cfg /\ stale' = stale /\ Len(stack') = Len(stack) + k
  BY DEF Submission
<1>2. CASE cfg.mode \notin Budgeted
  BY <1>1, <1>2 DEF Submission, Ios
<1>3. CASE cfg.mode \in Budgeted
  <2> DEFINE m == x.parts[Len(x.ids) + 1]
             N == {nextId} \X (1..m)
  <2>1. k = 1 /\ it'.ios = it.ios + m /\ Fits(m)
    BY <1>3 DEF Submission
  <2>2. PendingRows' = PendingRows \cup N /\ PendingRows \cap N = {}
    BY <2>1, PendingGrows
  <2>3. m \in Nat /\ it.ios \in Nat
    <3>1. x \in Item /\ Len(x.ids) + k <= Len(x.parts)
      BY DEF Submission
    <3>2. Len(x.ids) \in Nat /\ x.parts \in Seq(Nat \ {0}) /\ Len(x.parts) \in Nat
      BY <3>1, LenIs DEF Item
    <3>3. Len(x.ids) + 1 \in 1..Len(x.parts)
      BY <2>1, <3>1, <3>2
    <3>4. m \in Nat \ {0}
      BY <3>2, <3>3, ElementIs
    <3> QED BY <3>4 DEF TypeOK, Iterator
  <2> HIDE DEF m
  <2>4. IsFiniteSet(N) /\ Cardinality(N) = m
    BY <2>3, RowCount, Zenon
  <2>5. IsFiniteSet(PendingRows) /\ it.ios = Cardinality(PendingRows)
    BY <1>3 DEF Ios
  <2> HIDE DEF N
  <2>6. IsFiniteSet(PendingRows \cup N)
        /\ Cardinality(PendingRows \cup N)
             = Cardinality(PendingRows) + Cardinality(N) - Cardinality(PendingRows \cap N)
    BY <2>4, <2>5, FS_Union, Zenon
  <2>7. Cardinality(PendingRows \cap N) = 0
    BY <2>2, FS_EmptySet, Zenon
  <2>8. IsFiniteSet(PendingRows') /\ it'.ios = Cardinality(PendingRows')
    BY <2>1, <2>2, <2>3, <2>4, <2>5, <2>6, <2>7
  <2>9. ~stale => cfg.budget = 0 \/ it'.ios <= cfg.budget \/ Len(stack') = 1
    <3>1. cfg.budget = 0 \/ it.ios = 0 \/ it.ios + m <= cfg.budget
      BY <2>1 DEF Fits
    <3>2. ~stale /\ it.ios = 0 => Len(stack') = 1
      BY <1>1, <1>3, <2>1, EmptyStack
    <3> QED BY <2>1, <3>1, <3>2
  <2> QED BY <1>1, <1>3, <2>8, <2>9 DEF Ios
<1> QED BY <1>2, <1>3

LEMMA ItemKept ==
    ASSUME NEW x \in Item, ItemOK(x), cfg' = cfg, nextId \in Nat, nextId' \in Nat,
           nextId <= nextId'
    PROVE ItemOK(x)'
<1>1. \A j \in 1..Len(x.ids) : x.ids[j] \in Nat /\ x.ids[j] < nextId
  BY ItemIds, Zenon
<1>2. \A j \in 1..Len(x.ids) : x.ids[j] < nextId'
  BY <1>1
<1>3. (PartsOf(RowsOf(x.batch)))' = PartsOf(RowsOf(x.batch))
  BY DEF PartsOf, RowsOf
<1> QED BY <1>2, <1>3 DEF ItemOK

\* The new identifiers come after all others.
LEMMA SubmissionOrder ==
    ASSUME TypeOK, Numbering, Items, Order, NEW x, NEW y, NEW k, NEW p, Submission(x, y, k, p)
    PROVE Order'
<1>1. /\ it'.hand = it.hand /\ it'.current = it.current
      /\ p \in Nat /\ Len(it'.queue) = p /\ it'.queue[p] = y
      /\ \A i \in 1..(p - 1) : it'.queue[i] = it.queue[i]
      /\ x \in Item /\ k \in Nat \ {0}
      /\ Len(y.ids) = Len(x.ids) + k
      /\ \A j \in 1..Len(x.ids) : y.ids[j] = x.ids[j]
      /\ \A j \in 1..k : y.ids[Len(x.ids) + j] = nextId + j - 1
      /\ \/ p = Len(it.queue) + 1 /\ x.ids = <<>>
         \/ p = Len(it.queue) /\ p >= 1 /\ x = it.queue[p]
  BY DEF Submission
<1>2. Len(x.ids) \in Nat /\ nextId \in Nat /\ Len(it.queue) \in Nat
  BY <1>1, InStack, LenIs DEF Item, TypeOK, Iterator
<1>q. it.queue \in Seq(Item) /\ it.hand \in Seq(Item) /\ it.current \in Seq(Item)
  BY DEF TypeOK, Iterator
<1>3. ASSUME NEW z \in Item, ItemOK(z), p <= Len(it.queue) =>
               \A a \in 1..Len(z.ids) : \A b \in 1..Len(it.queue[p].ids) :
                   z.ids[a] < it.queue[p].ids[b]
      PROVE \A a \in 1..Len(z.ids) : \A b \in 1..Len(y.ids) : z.ids[a] < y.ids[b]
  <2> TAKE a \in 1..Len(z.ids)
  <2> TAKE b \in 1..Len(y.ids)
  <2>1. z.ids[a] \in Nat /\ z.ids[a] < nextId
    BY <1>3, ItemIds, Zenon
  <2> DEFINE n == Len(x.ids)
  <2>2. CASE b <= n
    <3>1. b \in 1..n /\ y.ids[b] = x.ids[b]
      BY <1>1, <1>2, <2>2
    <3>2. p = Len(it.queue) /\ x = it.queue[p]
      BY <1>1, <3>1
    <3> QED BY <1>2, <1>3, <3>1, <3>2
  <2>3. CASE b > n
    <3>1. b - n \in 1..k /\ n + (b - n) = b
      BY <1>1, <1>2, <2>3
    <3>2. y.ids[b] = nextId + (b - n) - 1
      BY <1>1, <3>1
    <3>3. b - n \in Nat /\ b - n >= 1
      BY <1>2, <2>3
    <3> HIDE DEF n
    <3>4. nextId <= nextId + (b - n) - 1
      BY <1>2, <3>3
    <3> QED BY <1>2, <2>1, <3>2, <3>3, <3>4
  <2> QED BY <1>2, <2>2, <2>3
<1>4. ASSUME NEW i \in 1..Len(it'.queue), NEW j \in 1..Len(it'.queue), i < j
      PROVE \A a \in 1..Len(it'.queue[i].ids) : \A b \in 1..Len(it'.queue[j].ids) :
                it'.queue[i].ids[a] < it'.queue[j].ids[b]
  <2>1. i \in 1..(p - 1) /\ i \in 1..Len(it.queue)
    BY <1>1, <1>2, <1>4
  <2>2. it'.queue[i] = it.queue[i] /\ it.queue[i] \in Item /\ ItemOK(it.queue[i])
    BY <1>1, <1>q, <2>1 DEF Items
  <2>3. CASE j \in 1..(p - 1)
    <3>1. it'.queue[j] = it.queue[j] /\ j \in 1..Len(it.queue)
      BY <1>1, <1>2, <2>3
    <3> QED BY <1>4, <2>1, <2>2, <3>1 DEF Order
  <2>4. CASE j = p
    <3>1. p <= Len(it.queue) =>
            \A a \in 1..Len(it.queue[i].ids) : \A b \in 1..Len(it.queue[p].ids) :
                it.queue[i].ids[a] < it.queue[p].ids[b]
      BY <1>1, <1>4, <2>1, <2>4 DEF Order
    <3>2. \A a \in 1..Len(it.queue[i].ids) : \A b \in 1..Len(y.ids) :
            it.queue[i].ids[a] < y.ids[b]
      BY <1>3, <2>2, <3>1, Zenon
    <3>3. it'.queue[j] = y
      BY <1>1, <2>4
    <3> QED BY <2>2, <3>2, <3>3, Zenon
  <2> QED BY <1>1, <2>3, <2>4
<1>5. ASSUME NEW z \in Item, ItemOK(z), NEW j \in 1..Len(it'.queue),
             \A q \in 1..Len(it.queue) :
                \A a \in 1..Len(z.ids) : \A b \in 1..Len(it.queue[q].ids) :
                   z.ids[a] < it.queue[q].ids[b]
      PROVE \A a \in 1..Len(z.ids) : \A b \in 1..Len(it'.queue[j].ids) :
                z.ids[a] < it'.queue[j].ids[b]
  <2>1. CASE j \in 1..(p - 1)
    <3>1. it'.queue[j] = it.queue[j] /\ j \in 1..Len(it.queue)
      BY <1>1, <1>2, <2>1
    <3> QED BY <1>5, <3>1
  <2>2. CASE j = p
    <3>1. p <= Len(it.queue) => p \in 1..Len(it.queue)
      BY <1>1, <1>2
    <3>2. it'.queue[j] = y
      BY <1>1, <2>2
    <3>3. p <= Len(it.queue) => \A a \in 1..Len(z.ids) : \A b \in 1..Len(it.queue[p].ids) :
                                    z.ids[a] < it.queue[p].ids[b]
      BY <1>5, <3>1, Zenon
    <3>4. \A a \in 1..Len(z.ids) : \A b \in 1..Len(y.ids) : z.ids[a] < y.ids[b]
      BY <1>3, <1>5, <3>3, Zenon
    <3> QED BY <3>2, <3>4, Zenon
  <2> QED BY <1>1, <2>1, <2>2
<1>6. ASSUME NEW i \in 1..Len(it.hand), NEW j \in 1..Len(it'.queue)
      PROVE \A a \in 1..Len(it.hand[i].ids) : \A b \in 1..Len(it'.queue[j].ids) :
                it.hand[i].ids[a] < it'.queue[j].ids[b]
  <2>1. it.hand[i] \in Item /\ ItemOK(it.hand[i])
    BY <1>q DEF Items
  <2>2. \A q \in 1..Len(it.queue) :
          \A a \in 1..Len(it.hand[i].ids) : \A b \in 1..Len(it.queue[q].ids) :
             it.hand[i].ids[a] < it.queue[q].ids[b]
    BY DEF Order
  <2> QED BY <1>5, <2>1, <2>2
<1>7. ASSUME NEW i \in 1..Len(it.current), NEW j \in 1..Len(it'.queue)
      PROVE \A a \in 1..Len(it.current[i].ids) : \A b \in 1..Len(it'.queue[j].ids) :
                it.current[i].ids[a] < it'.queue[j].ids[b]
  <2>1. it.current[i] \in Item /\ ItemOK(it.current[i])
    BY <1>q DEF Items
  <2>2. \A q \in 1..Len(it.queue) :
          \A a \in 1..Len(it.current[i].ids) : \A b \in 1..Len(it.queue[q].ids) :
             it.current[i].ids[a] < it.queue[q].ids[b]
    BY DEF Order
  <2> QED BY <1>5, <2>1, <2>2
<1> QED BY <1>1, <1>4, <1>6, <1>7 DEF Order

\* The stack gains the requests the item gains.
LEMMA SubmissionCover ==
    ASSUME TypeOK, Numbering, Items, Cover, NEW x, NEW y, NEW k, NEW p, Submission(x, y, k, p)
    PROVE Cover'
<1>1. /\ it'.hand = it.hand /\ stale' = stale
      /\ p \in Nat /\ Len(it'.queue) = p /\ it'.queue[p] = y
      /\ \A i \in 1..(p - 1) : it'.queue[i] = it.queue[i]
      /\ x \in Item /\ k \in Nat \ {0} /\ ItemOK(x)
      /\ Len(y.ids) = Len(x.ids) + k /\ y.mat = x.mat
      /\ \A j \in 1..Len(x.ids) : y.ids[j] = x.ids[j]
      /\ \A j \in 1..k : y.ids[Len(x.ids) + j] = nextId + j - 1
      /\ \/ p = Len(it.queue) + 1 /\ x.ids = <<>>
         \/ p = Len(it.queue) /\ p >= 1 /\ x = it.queue[p]
      /\ Len(stack') = Len(stack) + k
  BY DEF Submission
<1>2. /\ Len(x.ids) \in Nat /\ x.mat \in Nat /\ x.mat <= Len(x.ids) /\ Len(it.queue) \in Nat
      /\ nextId \in Nat /\ Base \in Nat /\ Len(stack) \in Nat /\ Base + Len(stack) = nextId
  BY <1>1, InStack, LenIs DEF Item, ItemOK, TypeOK, Iterator
<1>3. Base' = Base
  BY SubmissionStack DEF OldRequests
<1>4. p \in 1..Len(it'.queue)
  BY <1>1, <1>2
<1>5. Unfetched(x) \subseteq Unfetched(y)
  <2>1. SUFFICES ASSUME NEW j \in (x.mat + 1)..Len(x.ids) PROVE x.ids[j] \in Unfetched(y)
    BY DEF Unfetched
  <2>2. j \in (y.mat + 1)..Len(y.ids) /\ y.ids[j] = x.ids[j]
    BY <1>1, <1>2
  <2> QED BY <2>2 DEF Unfetched
<1>6. SUFFICES ASSUME ~stale, NEW j \in 1..Len(stack')
               PROVE \/ \E i \in 1..Len(it'.queue) : Base + j - 1 \in Unfetched(it'.queue[i])
                     \/ \E i \in 1..Len(it.hand) : Base + j - 1 \in Unfetched(it.hand[i])
  <2>1. /\ \A i \in 1..Len(it'.queue) : Unfetched(it.queue[i])' = Unfetched(it'.queue[i])
        /\ \A i \in 1..Len(it'.hand) : Unfetched(it.hand[i])' = Unfetched(it'.hand[i])
    BY DEF Unfetched
  <2> QED BY <1>1, <1>3, <2>1, Zenon DEF Cover
<1>7. CASE j \in 1..Len(stack)
  <2>1. CASE \E i \in 1..Len(it.hand) : Base + j - 1 \in Unfetched(it.hand[i])
    BY <2>1
  <2>2. ASSUME NEW i \in 1..Len(it.queue), Base + j - 1 \in Unfetched(it.queue[i])
        PROVE \E m \in 1..Len(it'.queue) : Base + j - 1 \in Unfetched(it'.queue[m])
    <3>1. CASE i \in 1..(p - 1)
      <4>1. i \in 1..Len(it'.queue) /\ it'.queue[i] = it.queue[i]
        BY <1>1, <3>1
      <4> QED BY <2>2, <4>1
    <3>2. CASE i = p
      <4>1. x = it.queue[p]
        BY <1>1, <1>2, <3>2
      <4> QED BY <1>1, <1>4, <1>5, <2>2, <3>2, <4>1
    <3> QED BY <1>1, <1>2, <3>1, <3>2
  <2>3. \/ \E i \in 1..Len(it.queue) : Base + j - 1 \in Unfetched(it.queue[i])
        \/ \E i \in 1..Len(it.hand) : Base + j - 1 \in Unfetched(it.hand[i])
    BY <1>6, <1>7 DEF Cover
  <2> QED BY <2>1, <2>2, <2>3, Zenon
<1>8. CASE j > Len(stack)
  <2> DEFINE m == j - Len(stack)
             n == Len(x.ids)
  <2>1. m \in 1..k /\ Base + j - 1 = nextId + m - 1
    <3>1. k \in Nat \ {0} /\ Len(stack') = Len(stack) + k
      BY <1>1
    <3>2. j \in Nat /\ j <= Len(stack) + k
      BY <1>2, <1>6, <3>1
    <3> QED BY <1>2, <1>8, <3>1, <3>2
  <2>2. y.ids[n + m] = Base + j - 1
    BY <1>1, <2>1
  <2>3. n + m \in (y.mat + 1)..Len(y.ids)
    <3>1. k \in Nat \ {0} /\ Len(y.ids) = n + k /\ y.mat = x.mat
      BY <1>1
    <3>2. n \in Nat /\ x.mat \in Nat /\ x.mat <= n
      BY <1>2
    <3> HIDE DEF m, n
    <3> QED BY <2>1, <3>1, <3>2
  <2>4. Base + j - 1 \in Unfetched(y)
    BY <2>2, <2>3 DEF Unfetched
  <2> QED BY <1>1, <1>4, <2>4
<1> QED BY <1>1, <1>2, <1>6, <1>7, <1>8

LEMMA QueueSubmitted ==
    ASSUME TypeOK, Numbering, QueueInv, cfg.mode \in Queued,
           NEW x, NEW y, NEW k, NEW p, Submission(x, y, k, p)
    PROVE QueueInv' /\ Numbering'
<1>1. /\ it'.hand = it.hand /\ it'.current = it.current /\ stale' = stale /\ cfg' = cfg
      /\ p \in Nat /\ Len(it'.queue) = p /\ it'.queue[p] = y
      /\ \A i \in 1..(p - 1) : it'.queue[i] = it.queue[i]
      /\ \/ p = Len(it.queue) + 1 /\ x.ids = <<>>
         \/ p = Len(it.queue) /\ p >= 1 /\ x = it.queue[p] /\ cfg.mode = "split"
  BY DEF Submission
<1>2. Items /\ Order /\ Link /\ Cover /\ Ios /\ Polled /\ Fetched1
  BY DEF QueueInv
<1>q. /\ it.queue \in Seq(Item) /\ it.hand \in Seq(Item) /\ it.current \in Seq(Item)
      /\ Len(it.queue) \in Nat
  BY LenIs DEF TypeOK, Iterator
<1>n. nextId \in Nat /\ nextId' \in Nat /\ nextId <= nextId'
  <2>1. k \in Nat /\ nextId' = nextId + k
    BY DEF Submission
  <2> QED BY <2>1, InStack
<1>p. p - 1 <= Len(it.queue) /\ 1 <= p
  BY <1>1, <1>q
<1>3. OldRequests /\ Numbering'
  BY SubmissionStack
<1>l. x.ids = <<>> \/ (cfg.mode \in Registered \/ ~stale => Linked(x))
  <2>1. ASSUME p = Len(it.queue), p >= 1, x = it.queue[p], cfg.mode \in Registered \/ ~stale
        PROVE Linked(x)
    <3>1. p \in 1..Len(it.queue)
      BY <1>q, <2>1
    <3> QED BY <1>2, <2>1, <3>1 DEF Link
  <2> QED BY <1>1, <2>1
<1>4. /\ ItemOK(y)' /\ RowsOK(y)'
      /\ cfg.mode \in Registered \/ ~stale => Linked(y)'
  BY <1>l, SubmissionItem
<1>y. /\ Len(y.ids) >= 1 /\ (cfg.mode # "split" => y.mat = 0)
  <2>1. x \in Item /\ k \in Nat \ {0} /\ Len(y.ids) = Len(x.ids) + k /\ y.mat = x.mat
        /\ (cfg.mode # "split" => x.mat = 0)
    BY DEF Submission
  <2>2. Len(x.ids) \in Nat
    BY <2>1, LenIs DEF Item
  <2> QED BY <2>1, <2>2
<1>5. Items'
  <2>1. ASSUME NEW i \in 1..Len(it'.queue)
        PROVE (ItemOK(it.queue[i]) /\ RowsOK(it.queue[i]))'
              /\ Len(it'.queue[i].ids) >= 1 /\ (cfg.mode # "split" => it'.queue[i].mat = 0)
    <3>1. CASE i \in 1..(p - 1)
      <4>1. i \in 1..Len(it.queue) /\ it'.queue[i] = it.queue[i]
        BY <1>1, <1>p, <1>q, <3>1
      <4>2. /\ it.queue[i] \in Item /\ ItemOK(it.queue[i]) /\ RowsOK(it.queue[i])
            /\ Len(it.queue[i].ids) >= 1 /\ (cfg.mode # "split" => it.queue[i].mat = 0)
        BY <1>2, <1>q, <4>1 DEF Items
      <4> DEFINE z == it.queue[i]
      <4>3. ItemOK(it.queue[i])'
        <5>1. z \in Item /\ ItemOK(z) /\ it'.queue[i] = z
          BY <4>1, <4>2
        <5> QED BY <1>1, <1>n, <4>1, <4>2, ItemKept
      <4>4. RowsOK(it.queue[i])'
        BY <1>1, <4>1, <4>2 DEF RowsOK, RowsOf
      <4> QED BY <4>1, <4>2, <4>3, <4>4
    <3>2. CASE i = p
      BY <1>1, <1>4, <1>y, <3>2
    <3> QED BY <1>1, <3>1, <3>2
  <2>2. ASSUME NEW i \in 1..Len(it.hand)
        PROVE (ItemOK(it.hand[i]) /\ RowsOK(it.hand[i]) /\ Full(it.hand[i]))'
    <3>1. it.hand[i] \in Item /\ ItemOK(it.hand[i]) /\ RowsOK(it.hand[i]) /\ Full(it.hand[i])
      BY <1>2, <1>q DEF Items
    <3>2. ItemOK(it.hand[i])'
      BY <1>1, <1>n, <3>1, ItemKept
    <3>3. RowsOK(it.hand[i])' /\ Full(it.hand[i])'
      BY <1>1, <3>1 DEF RowsOK, RowsOf, Full
    <3> QED BY <3>2, <3>3
  <2>3. ASSUME NEW i \in 1..Len(it.current)
        PROVE (ItemOK(it.current[i]) /\ Full(it.current[i]))'
              /\ it'.current[i].mat = Len(it'.current[i].ids)
    <3>1. it.current[i] \in Item /\ ItemOK(it.current[i]) /\ Full(it.current[i])
          /\ it.current[i].mat = Len(it.current[i].ids)
      BY <1>2, <1>q DEF Items
    <3>2. ItemOK(it.current[i])'
      BY <1>1, <1>n, <3>1, ItemKept
    <3>3. Full(it.current[i])'
      BY <1>1, <3>1 DEF Full
    <3> QED BY <1>1, <3>1, <3>2, <3>3
  <2>4. cfg.mode # "cids" => \A i \in 1..Len(it.hand) : it.hand[i].mat = Len(it.hand[i].ids)
    BY <1>2 DEF Items
  <2> QED BY <1>1, <2>1, <2>2, <2>3, <2>4 DEF Items
<1>6. Order'
  BY <1>2, SubmissionOrder
<1>7. Link'
  <2>1. ASSUME cfg.mode \in Registered \/ ~stale, NEW i \in 1..Len(it'.queue)
        PROVE Linked(it.queue[i])'
    <3>1. CASE i \in 1..(p - 1)
      <4>1. i \in 1..Len(it.queue) /\ it'.queue[i] = it.queue[i]
        BY <1>1, <1>p, <1>q, <3>1
      <4>2. it.queue[i] \in Item /\ ItemOK(it.queue[i]) /\ Linked(it.queue[i])
        BY <1>2, <1>q, <2>1, <4>1 DEF Items, Link
      <4> QED BY <1>3, <4>1, <4>2, LinkedKept
    <3>2. CASE i = p
      BY <1>1, <1>4, <2>1, <3>2
    <3> QED BY <1>1, <3>1, <3>2
  <2>2. ASSUME cfg.mode \in Registered \/ ~stale, NEW i \in 1..Len(it.hand)
        PROVE Linked(it.hand[i])'
    <3>1. it.hand[i] \in Item /\ ItemOK(it.hand[i]) /\ Linked(it.hand[i])
      BY <1>2, <1>q, <2>2 DEF Items, Link
    <3> QED BY <1>1, <1>3, <3>1, LinkedKept
  <2>3. cfg.mode \in OnePart => Len(it'.queue) <= Len(stack')
    <3>1. k \in Nat \ {0} /\ Len(stack') = Len(stack) + k /\ Len(stack) \in Nat
      BY InStack DEF Submission
    <3>2. cfg.mode \in OnePart => Len(it.queue) <= Len(stack)
      BY <1>2 DEF Link
    <3>3. Len(it'.queue) <= Len(it.queue) + 1
      BY <1>1, <1>q
    <3> QED BY <1>1, <1>q, <3>1, <3>2, <3>3
  <2> QED BY <1>1, <2>1, <2>2, <2>3 DEF Link
<1>8. Cover'
  BY <1>2, SubmissionCover
<1>9. Ios'
  BY <1>2, IosGrow
<1>10. Polled'
  <2>1. SUFFICES ASSUME cfg.mode \notin Registered, NEW i \in 1..Len(it'.queue),
                        it'.queue[i].polled
                 PROVE i = 1 /\ stack'[1].done
    BY <1>1 DEF Polled
  <2>2. cfg.mode \in OnePart /\ cfg.mode # "split"
    BY <2>1 DEF Queued, Prefetched, OnePart, Registered
  <2>3. y.polled = FALSE
    BY <2>2 DEF Submission
  <2>4. i \in 1..(p - 1) /\ i \in 1..Len(it.queue) /\ it'.queue[i] = it.queue[i]
    BY <1>1, <1>p, <1>q, <2>1, <2>3
  <2>5. i = 1 /\ stack[1].done
    BY <1>2, <2>1, <2>4 DEF Polled
  <2>6. Len(it.queue) <= Len(stack) /\ Len(stack) \in Nat
    BY <1>2, <2>2, InStack DEF Link
  <2>7. 1 \in 1..Len(stack)
    BY <1>q, <2>4, <2>5, <2>6
  <2> QED BY <2>5, <2>7 DEF Submission
<1>11. Fetched1'
  <2>1. it'.hand = it.hand /\ it'.current = it.current /\ stale' = stale /\ cfg' = cfg
    BY <1>1
  <2> QED BY <1>2, <2>1 DEF Fetched1, OwnBatch, OwnRows, RowsOf
<1> QED BY <1>1, <1>3, <1>5, <1>6, <1>7, <1>8, <1>9, <1>10, <1>11 DEF QueueInv

(***************************************************************************)
(* Fetching and handing on: items move and make progress, none is new      *)
(***************************************************************************)
Keeps(y, x) == y.batch = x.batch /\ y.parts = x.parts /\ y.ids = x.ids

\* What an item has to be after the step, said of the requests before it.
Sound(y) ==
    /\ y \in Item /\ ItemOK(y) /\ RowsOK(y)
    /\ cfg.mode \in Registered \/ ~stale =>
         Linked(y) /\ (Base \in Unfetched(y) => stack' = stack)

Moved(s) ==
    /\ cfg' = cfg /\ nextId' = nextId /\ stale' = stale /\ (stack' = stack \/ Popped)
    /\ s \in {0, 1} /\ s <= Len(it.queue) /\ Len(it'.queue) = Len(it.queue) - s
    /\ it'.queue \in Seq(Item) /\ it'.hand \in Seq(Item) /\ it'.current \in Seq(Item)
    /\ \A j \in 1..Len(it'.queue) :
         /\ Keeps(it'.queue[j], it.queue[j + s]) /\ Sound(it'.queue[j])
         /\ cfg.mode # "split" => it'.queue[j].mat = 0
    /\ \A j \in 1..Len(it'.hand) :
         /\ \/ j \in 1..Len(it.hand) /\ Keeps(it'.hand[j], it.hand[j])
            \/ j \in 1..Len(it.current) /\ Keeps(it'.hand[j], it.current[j])
            \/ s = 1 /\ Keeps(it'.hand[j], it.queue[1])
         /\ Sound(it'.hand[j]) /\ Full(it'.hand[j])
         /\ cfg.mode # "cids" => it'.hand[j].mat = Len(it'.hand[j].ids)
    /\ \A j \in 1..Len(it'.current) :
         /\ \/ j \in 1..Len(it.current) /\ Keeps(it'.current[j], it.current[j])
            \/ s = 1 /\ Keeps(it'.current[j], it.queue[1])
         /\ ItemOK(it'.current[j]) /\ Full(it'.current[j])
         /\ it'.current[j].mat = Len(it'.current[j].ids)

LEMMA SoundKept ==
    ASSUME TypeOK, Numbering, cfg' = cfg, nextId' = nextId, stack' = stack \/ Popped,
           NEW y, Sound(y)
    PROVE /\ ItemOK(y)' /\ RowsOK(y)'
          /\ cfg.mode \in Registered \/ ~stale => Linked(y)'
<1>1. y \in Item /\ ItemOK(y) /\ RowsOK(y)
  BY DEF Sound
<1>2. ItemOK(y)'
  BY <1>1, ItemKept, InStack
<1>3. RowsOK(y)'
  BY <1>1 DEF RowsOK, RowsOf
<1>4. ASSUME cfg.mode \in Registered \/ ~stale PROVE Linked(y)'
  <2>1. Linked(y) /\ (Base \in Unfetched(y) => stack' = stack)
    BY <1>4 DEF Sound
  <2>2. CASE stack' = stack
    <3>1. OldRequests
      BY <2>2 DEF OldRequests, Base
    <3> QED BY <1>1, <2>1, <3>1, LinkedKept
  <2>3. CASE Popped
    <3>1. stack' # stack
      BY <2>3, PoppedIs, InStack
    <3> QED BY <1>1, <2>1, <2>3, <3>1, LinkedPopped
  <2> QED BY <2>2, <2>3
<1> QED BY <1>2, <1>3, <1>4

LEMMA MovedItems ==
    ASSUME TypeOK, Numbering, Items, NEW s, Moved(s)
    PROVE Items'
<1>1. cfg' = cfg /\ nextId' = nextId /\ (stack' = stack \/ Popped)
  BY DEF Moved
<1>2. ASSUME NEW j \in 1..Len(it'.queue)
      PROVE (ItemOK(it.queue[j]) /\ RowsOK(it.queue[j]))' /\ Len(it'.queue[j].ids) >= 1
            /\ (cfg.mode # "split" => it'.queue[j].mat = 0)
  <2>1. Keeps(it'.queue[j], it.queue[j + s]) /\ Sound(it'.queue[j])
        /\ (cfg.mode # "split" => it'.queue[j].mat = 0)
    BY DEF Moved
  <2>2. j + s \in 1..Len(it.queue)
    <3>1. s \in {0, 1} /\ Len(it'.queue) = Len(it.queue) - s
      BY DEF Moved
    <3>2. Len(it.queue) \in Nat
      BY LenIs DEF TypeOK, Iterator
    <3> QED BY <3>1, <3>2
  <2>3. Len(it.queue[j + s].ids) >= 1
    BY <2>2 DEF Items
  <2>4. (ItemOK(it.queue[j]) /\ RowsOK(it.queue[j]))'
    BY <1>1, <2>1, SoundKept
  <2> QED BY <2>1, <2>3, <2>4 DEF Keeps
<1>3. ASSUME NEW j \in 1..Len(it'.hand)
      PROVE (ItemOK(it.hand[j]) /\ RowsOK(it.hand[j]) /\ Full(it.hand[j]))'
            /\ (cfg.mode # "cids" => it'.hand[j].mat = Len(it'.hand[j].ids))
  <2>1. Sound(it'.hand[j]) /\ Full(it'.hand[j])
        /\ (cfg.mode # "cids" => it'.hand[j].mat = Len(it'.hand[j].ids))
    BY DEF Moved
  <2>2. (ItemOK(it.hand[j]) /\ RowsOK(it.hand[j]))'
    BY <1>1, <2>1, SoundKept
  <2>3. Full(it.hand[j])'
    BY <2>1 DEF Full
  <2> QED BY <2>1, <2>2, <2>3
<1>4. ASSUME NEW j \in 1..Len(it'.current)
      PROVE (ItemOK(it.current[j]) /\ Full(it.current[j]))'
            /\ it'.current[j].mat = Len(it'.current[j].ids)
  <2>1. it'.current[j] \in Item /\ ItemOK(it'.current[j]) /\ Full(it'.current[j])
        /\ it'.current[j].mat = Len(it'.current[j].ids)
    BY DEF Moved
  <2>2. ItemOK(it.current[j])'
    BY <1>1, <2>1, ItemKept, InStack
  <2>3. Full(it.current[j])'
    BY <2>1 DEF Full
  <2> QED BY <2>1, <2>2, <2>3
<1> QED BY <1>1, <1>2, <1>3, <1>4 DEF Items

LEMMA MovedOrder ==
    ASSUME TypeOK, Items, Order, NEW s, Moved(s)
    PROVE Order'
<1>1. /\ s \in {0, 1} /\ Len(it'.queue) = Len(it.queue) - s
      /\ \A j \in 1..Len(it'.queue) : Keeps(it'.queue[j], it.queue[j + s])
  BY DEF Moved
<1>2. Len(it.queue) \in Nat /\ s <= Len(it.queue)
  BY LenIs DEF TypeOK, Iterator, Moved
<1>3. \A j \in 1..Len(it'.queue) : j + s \in 1..Len(it.queue) /\ it'.queue[j].ids = it.queue[j + s].ids
                                   /\ (s = 1 => 1 < j + s)
  BY <1>1, <1>2 DEF Keeps
<1>4. ASSUME NEW i \in 1..Len(it'.queue), NEW j \in 1..Len(it'.queue), i < j
      PROVE \A a \in 1..Len(it'.queue[i].ids) : \A b \in 1..Len(it'.queue[j].ids) :
                it'.queue[i].ids[a] < it'.queue[j].ids[b]
  <2>1. i + s < j + s
    BY <1>1, <1>2, <1>4
  <2> QED BY <1>3, <2>1 DEF Order
<1>5. ASSUME NEW z, NEW y, Keeps(y, z), NEW j \in 1..Len(it'.queue),
             \/ \E i \in 1..Len(it.hand) : z = it.hand[i]
             \/ \E i \in 1..Len(it.current) : z = it.current[i]
             \/ s = 1 /\ z = it.queue[1]
      PROVE \A a \in 1..Len(y.ids) : \A b \in 1..Len(it'.queue[j].ids) :
                y.ids[a] < it'.queue[j].ids[b]
  <2>1. y.ids = z.ids
    BY <1>5 DEF Keeps
  <2>2. CASE \E i \in 1..Len(it.hand) : z = it.hand[i]
    BY <1>3, <2>1, <2>2 DEF Order
  <2>3. CASE \E i \in 1..Len(it.current) : z = it.current[i]
    BY <1>3, <2>1, <2>3 DEF Order
  <2>4. CASE s = 1 /\ z = it.queue[1]
    <3>1. 1 \in 1..Len(it.queue) /\ j + s \in 1..Len(it.queue) /\ 1 < j + s
      BY <1>2, <1>3, <2>4
    <3> QED BY <1>3, <2>1, <2>4, <3>1 DEF Order
  <2> QED BY <1>5, <2>2, <2>3, <2>4
<1>6. ASSUME NEW i \in 1..Len(it'.hand), NEW j \in 1..Len(it'.queue)
      PROVE \A a \in 1..Len(it'.hand[i].ids) : \A b \in 1..Len(it'.queue[j].ids) :
                it'.hand[i].ids[a] < it'.queue[j].ids[b]
  <2>1. \/ i \in 1..Len(it.hand) /\ Keeps(it'.hand[i], it.hand[i])
        \/ i \in 1..Len(it.current) /\ Keeps(it'.hand[i], it.current[i])
        \/ s = 1 /\ Keeps(it'.hand[i], it.queue[1])
    BY DEF Moved
  <2> QED BY <1>5, <2>1
<1>7. ASSUME NEW i \in 1..Len(it'.current), NEW j \in 1..Len(it'.queue)
      PROVE \A a \in 1..Len(it'.current[i].ids) : \A b \in 1..Len(it'.queue[j].ids) :
                it'.current[i].ids[a] < it'.queue[j].ids[b]
  <2>1. \/ i \in 1..Len(it.current) /\ Keeps(it'.current[i], it.current[i])
        \/ s = 1 /\ Keeps(it'.current[i], it.queue[1])
    BY DEF Moved
  <2> QED BY <1>5, <2>1
<1> QED BY <1>4, <1>6, <1>7 DEF Order

LEMMA MovedLink ==
    ASSUME TypeOK, Numbering, Link, NEW s, Moved(s), Popped => s = 1 \/ cfg.mode \notin OnePart
    PROVE Link' /\ Numbering'
<1>1. cfg' = cfg /\ nextId' = nextId /\ stale' = stale /\ (stack' = stack \/ Popped)
  BY DEF Moved
<1>2. ASSUME cfg.mode \in Registered \/ ~stale, NEW j \in 1..Len(it'.queue)
      PROVE Linked(it.queue[j])'
  <2>1. Sound(it'.queue[j])
    BY DEF Moved
  <2> QED BY <1>1, <1>2, <2>1, SoundKept
<1>3. ASSUME cfg.mode \in Registered \/ ~stale, NEW j \in 1..Len(it'.hand)
      PROVE Linked(it.hand[j])'
  <2>1. Sound(it'.hand[j])
    BY DEF Moved
  <2> QED BY <1>1, <1>3, <2>1, SoundKept
<1>4. ASSUME cfg.mode \in OnePart PROVE Len(it'.queue) <= Len(stack')
  <2>1. Len(it.queue) <= Len(stack) /\ Len(stack) \in Nat /\ Len(it.queue) \in Nat
    BY <1>4, InStack, LenIs DEF Link, TypeOK, Iterator
  <2>2. s \in {0, 1} /\ Len(it'.queue) = Len(it.queue) - s
    BY DEF Moved
  <2>3. CASE Popped
    <3>1. Len(stack') = Len(stack) - 1 /\ s = 1
      BY <1>4, <2>3, PoppedIs
    <3> QED BY <2>1, <2>2, <3>1
  <2> QED BY <1>1, <2>1, <2>2, <2>3
<1>5. Numbering'
  <2>1. CASE stack' = stack
    BY <1>1, <2>1 DEF Numbering, Base
  <2>2. CASE Popped
    BY <2>2, PoppedIs
  <2> QED BY <1>1, <2>1, <2>2
<1> QED BY <1>1, <1>2, <1>3, <1>4, <1>5 DEF Link

\* What stays in the stack stays wanted.
StillWanted ==
    \A id \in Nat :
       (\/ \E i \in 1..Len(it.queue) : id \in Unfetched(it.queue[i])
        \/ \E i \in 1..Len(it.hand) : id \in Unfetched(it.hand[i]))
       => \/ \E i \in 1..Len(it'.queue) : id \in Unfetched(it'.queue[i])
          \/ \E i \in 1..Len(it'.hand) : id \in Unfetched(it'.hand[i])
          \/ Popped /\ id = Base

LEMMA MovedCover ==
    ASSUME TypeOK, Numbering, Cover, stale' = stale, nextId' = nextId, stack' = stack \/ Popped,
           ~stale => StillWanted
    PROVE Cover'
<1>0. Base \in Nat /\ Len(stack) \in Nat
  BY InStack
<1>1. SUFFICES ASSUME ~stale, NEW j \in 1..Len(stack')
               PROVE \/ \E i \in 1..Len(it'.queue) : Base' + j - 1 \in Unfetched(it'.queue[i])
                     \/ \E i \in 1..Len(it'.hand) : Base' + j - 1 \in Unfetched(it'.hand[i])
  <2>1. /\ \A i \in 1..Len(it'.queue) : Unfetched(it.queue[i])' = Unfetched(it'.queue[i])
        /\ \A i \in 1..Len(it'.hand) : Unfetched(it.hand[i])' = Unfetched(it'.hand[i])
    BY DEF Unfetched
  <2> QED BY <2>1, Zenon DEF Cover
<1>2. CASE stack' = stack
  <2>1. Base' = Base /\ j \in 1..Len(stack) /\ Base + j - 1 \in Nat
    BY <1>0, <1>1, <1>2 DEF Base
  <2>2. ~Popped
    BY <1>0, <1>2, PoppedIs
  <2>3. \/ \E i \in 1..Len(it.queue) : Base + j - 1 \in Unfetched(it.queue[i])
        \/ \E i \in 1..Len(it.hand) : Base + j - 1 \in Unfetched(it.hand[i])
    BY <1>1, <2>1 DEF Cover
  <2> QED BY <1>1, <2>1, <2>2, <2>3, Zenon DEF StillWanted
<1>3. CASE Popped
  <2>1. Base' = Base + 1 /\ Len(stack') = Len(stack) - 1
    BY <1>3, PoppedIs
  <2> DEFINE m == j + 1
  <2>2. m \in 1..Len(stack) /\ Base' + j - 1 = Base + m - 1 /\ Base + m - 1 \in Nat
        /\ Base + m - 1 # Base
    BY <1>0, <1>1, <2>1
  <2> HIDE DEF m
  <2>3. \/ \E i \in 1..Len(it.queue) : Base + m - 1 \in Unfetched(it.queue[i])
        \/ \E i \in 1..Len(it.hand) : Base + m - 1 \in Unfetched(it.hand[i])
    BY <1>1, <2>2 DEF Cover
  <2> QED BY <1>1, <2>2, <2>3, Zenon DEF StillWanted
<1> QED BY <1>2, <1>3

(***************************************************************************)
(* The count of outstanding rows                                           *)
(***************************************************************************)
Wanted(id) == \E i \in 1..Len(it.queue) : id \in Unfetched(it.queue[i])
RequestRows(j) == {Base + j - 1} \X (1..stack[j].n)
PendingMatches ==
    \A r : r \in PendingRows
             <=> \E j \in 1..Len(stack) : Wanted(Base + j - 1) /\ r \in RequestRows(j)

LEMMA Pendings ==
    TypeOK /\ Numbering /\ Items /\ Link /\ cfg.mode \in Budgeted => PendingMatches
<1>1. SUFFICES ASSUME TypeOK, Numbering, Items, Link, cfg.mode \in Budgeted, NEW r
               PROVE r \in PendingRows
                       <=> \E j \in 1..Len(stack) : Wanted(Base + j - 1) /\ r \in RequestRows(j)
  BY DEF PendingMatches
<1>2. ASSUME NEW i \in 1..Len(it.queue), NEW k \in (it.queue[i].mat + 1)..Len(it.queue[i].ids)
      PROVE \E j \in 1..Len(stack) :
              /\ it.queue[i].ids[k] = Base + j - 1
              /\ RequestRows(j) = {it.queue[i].ids[k]} \X (1..it.queue[i].parts[k])
  <2> DEFINE q == it.queue[i]
  <2>1. q \in Item /\ ItemOK(q) /\ Linked(q)
    <3>1. it.queue \in Seq(Item)
      BY <1>1 DEF TypeOK, Iterator
    <3>2. cfg.mode \in Registered
      BY <1>1 DEF Budgeted, Registered
    <3> QED BY <1>1, <3>1, <3>2 DEF Items, Link
  <2>k. k \in (q.mat + 1)..Len(q.ids)
    OBVIOUS
  <2> HIDE DEF q
  <2>2. q.mat \in Nat /\ q.ids \in Seq(Nat) /\ Len(q.ids) \in Nat
    BY <2>1, LenIs DEF Item
  <2>3. k \in 1..Len(q.ids) /\ k > q.mat
    BY <2>2, <2>k
  <2>4. q.ids[k] \in Nat /\ q.ids[k] < nextId
    BY <2>1, <2>2, <2>3, ElementIs DEF ItemOK
  <2>5. q.ids[k] >= Base /\ stack[q.ids[k] - Base + 1].n = q.parts[k]
    BY <2>1, <2>3 DEF Linked
  <2> DEFINE j == q.ids[k] - Base + 1
  <2>6. j \in 1..Len(stack)
    BY <1>1, <2>4, <2>5, InStack
  <2>7. Base \in Nat
    BY <1>1, InStack
  <2>8. q.ids[k] = Base + j - 1
    BY <2>4, <2>7
  <2>9. RequestRows(j) = {q.ids[k]} \X (1..q.parts[k])
    BY <2>5, <2>8 DEF RequestRows
  <2> QED BY <2>6, <2>8, <2>9 DEF q
<1>3. ASSUME r \in PendingRows
      PROVE \E j \in 1..Len(stack) : Wanted(Base + j - 1) /\ r \in RequestRows(j)
  <2>1. PICK i \in 1..Len(it.queue) : r \in ItemRows(it.queue[i])
    BY <1>3, PendingIn
  <2>2. PICK k \in (it.queue[i].mat + 1)..Len(it.queue[i].ids) :
                 r \in {it.queue[i].ids[k]} \X (1..it.queue[i].parts[k])
    BY <2>1, RowsIn, Zenon
  <2>3. it.queue[i].ids[k] \in Unfetched(it.queue[i])
    BY Zenon DEF Unfetched
  <2>4. PICK j \in 1..Len(stack) :
              /\ it.queue[i].ids[k] = Base + j - 1
              /\ RequestRows(j) = {it.queue[i].ids[k]} \X (1..it.queue[i].parts[k])
    BY <1>2
  <2>5. Wanted(Base + j - 1)
    BY <2>3, <2>4, Zenon DEF Wanted
  <2> QED BY <2>2, <2>4, <2>5, Zenon
<1>4. ASSUME NEW j \in 1..Len(stack), Wanted(Base + j - 1), r \in RequestRows(j)
      PROVE r \in PendingRows
  <2>1. PICK i \in 1..Len(it.queue) : Base + j - 1 \in Unfetched(it.queue[i])
    BY <1>4 DEF Wanted
  <2>2. PICK k \in (it.queue[i].mat + 1)..Len(it.queue[i].ids) : Base + j - 1 = it.queue[i].ids[k]
    BY <2>1 DEF Unfetched
  <2>3. PICK m \in 1..Len(stack) :
              /\ it.queue[i].ids[k] = Base + m - 1
              /\ RequestRows(m) = {it.queue[i].ids[k]} \X (1..it.queue[i].parts[k])
    BY <1>2
  <2>4. m = j
    <3>1. Base \in Nat /\ Base + j - 1 = Base + m - 1
      BY <1>1, <2>2, <2>3, InStack
    <3> QED BY <3>1
  <2>5. r \in ItemRows(it.queue[i])
    BY <1>4, <2>2, <2>3, <2>4, RowsIn, Zenon
  <2> QED BY <2>5, PendingIn, Zenon
<1> QED BY <1>3, <1>4, Zenon

\* The next state's rows, by the next state's requests.
WantedNext(id) == \E i \in 1..Len(it'.queue) : id \in Unfetched(it'.queue[i])

LEMMA PendingsNext ==
    ASSUME TypeOK', Numbering', Items', Link', cfg' = cfg, cfg.mode \in Budgeted
    PROVE \A r : r \in PendingRows'
             <=> \E j \in 1..Len(stack') :
                   WantedNext(Base' + j - 1) /\ r \in {Base' + j - 1} \X (1..stack'[j].n)
<1>1. (cfg.mode \in Budgeted)'
  BY DEF Budgeted
<1>2. PendingMatches'
  BY <1>1, Pendings, PTL
<1>3. (\A r : r \in PendingRows
         <=> \E j \in 1..Len(stack) :
               (\E i \in 1..Len(it.queue) : Base + j - 1 \in Unfetched(it.queue[i]))
               /\ r \in {Base + j - 1} \X (1..stack[j].n))'
  BY <1>2 DEF PendingMatches, Wanted, RequestRows
<1>4. \A i \in 1..Len(it'.queue) : Unfetched(it.queue[i])' = Unfetched(it'.queue[i])
  BY DEF Unfetched
<1> QED BY <1>3, <1>4, Zenon DEF WantedNext

\* A get takes the rows of the front request off the count.
LEMMA IosFetched ==
    ASSUME TypeOK, Numbering, Items, Link, Ios, TypeOK', Numbering', Items', Link',
           cfg' = cfg, stale' = stale, Popped, cfg.mode \in Budgeted,
           Wanted(Base), \A id \in Nat : WantedNext(id) <=> Wanted(id) /\ id # Base,
           it'.ios = IF it.ios < stack[1].n THEN 0 ELSE it.ios - stack[1].n
    PROVE Ios'
<1>0. /\ Base \in Nat /\ Len(stack) \in Nat /\ Base' = Base + 1 /\ Len(stack) >= 1
      /\ Len(stack') = Len(stack) - 1 /\ \A j \in 1..(Len(stack) - 1) : stack'[j] = stack[j + 1]
  BY InStack, PoppedIs
<1>1. \A r : r \in PendingRows
         <=> \E j \in 1..Len(stack) : Wanted(Base + j - 1) /\ r \in {Base + j - 1} \X (1..stack[j].n)
  BY Pendings DEF PendingMatches, RequestRows
<1>2. \A r : r \in PendingRows'
         <=> \E j \in 1..Len(stack') :
               WantedNext(Base' + j - 1) /\ r \in {Base' + j - 1} \X (1..stack'[j].n)
  BY PendingsNext
<1> DEFINE n == stack[1].n
           N == {Base} \X (1..n)
<1>3. \A r : r \in PendingRows <=> r \in PendingRows' \/ r \in N
  <2> TAKE r
  <2>1. ASSUME r \in PendingRows PROVE r \in PendingRows' \/ r \in N
    <3>1. PICK j \in 1..Len(stack) : Wanted(Base + j - 1) /\ r \in {Base + j - 1} \X (1..stack[j].n)
      BY <1>1, <2>1
    <3>2. CASE j = 1
      <4>1. Base + j - 1 = Base
        BY <1>0, <3>2
      <4> QED BY <3>1, <3>2, <4>1
    <3>3. CASE j # 1
      <4> DEFINE m == j - 1
      <4>1. m \in 1..Len(stack') /\ m \in 1..(Len(stack) - 1) /\ m + 1 = j
            /\ Base' + m - 1 = Base + j - 1 /\ Base + j - 1 # Base /\ Base + j - 1 \in Nat
        BY <1>0, <3>3
      <4> HIDE DEF m
      <4>2. stack'[m] = stack[j] /\ WantedNext(Base' + m - 1)
        BY <1>0, <3>1, <4>1
      <4>3. WantedNext(Base' + m - 1) /\ r \in {Base' + m - 1} \X (1..stack'[m].n)
        BY <3>1, <4>1, <4>2
      <4> QED BY <1>2, <4>1, <4>3, Zenon
    <3> QED BY <3>2, <3>3
  <2>2. ASSUME r \in PendingRows' PROVE r \in PendingRows
    <3>1. PICK j \in 1..Len(stack') :
               WantedNext(Base' + j - 1) /\ r \in {Base' + j - 1} \X (1..stack'[j].n)
      BY <1>2, <2>2
    <3> DEFINE m == j + 1
    <3>2. m \in 1..Len(stack) /\ j \in 1..(Len(stack) - 1) /\ Base' + j - 1 = Base + m - 1
          /\ Base + m - 1 \in Nat
      BY <1>0
    <3>3. stack'[j] = stack[m] /\ Wanted(Base + m - 1)
      BY <1>0, <3>1, <3>2
    <3> HIDE DEF m
    <3>4. Wanted(Base + m - 1) /\ r \in {Base + m - 1} \X (1..stack[m].n)
      BY <3>1, <3>2, <3>3
    <3> QED BY <1>1, <3>2, <3>4, Zenon
  <2>3. ASSUME r \in N PROVE r \in PendingRows
    <3>1. 1 \in 1..Len(stack) /\ Base + 1 - 1 = Base
      BY <1>0
    <3>2. Wanted(Base + 1 - 1) /\ r \in {Base + 1 - 1} \X (1..stack[1].n)
      BY <2>3, <3>1
    <3> QED BY <1>1, <3>1, <3>2, Zenon
  <2> QED BY <2>1, <2>2, <2>3
<1>4. \A r : r \in PendingRows' => r \notin N
  <2> SUFFICES ASSUME NEW r, r \in PendingRows', r \in N PROVE FALSE
    OBVIOUS
  <2>1. PICK j \in 1..Len(stack') :
               WantedNext(Base' + j - 1) /\ r \in {Base' + j - 1} \X (1..stack'[j].n)
    BY <1>2
  <2>2. r[1] = Base' + j - 1 /\ r[1] = Base
    BY <2>1
  <2> QED BY <1>0, <2>2
<1>5. n \in Nat /\ it.ios \in Nat
  <2>1. stack \in Seq(Outstanding) /\ 1 \in 1..Len(stack)
    BY <1>0 DEF TypeOK
  <2>2. stack[1] \in Outstanding
    BY <2>1, ElementIs
  <2> QED BY <2>2 DEF Outstanding, TypeOK, Iterator
<1> HIDE DEF n
<1>6. IsFiniteSet(N) /\ Cardinality(N) = n
  BY <1>5, RowCount, Zenon
<1> HIDE DEF N
<1>7. IsFiniteSet(PendingRows) /\ it.ios = Cardinality(PendingRows)
  BY DEF Ios
<1>8. IsFiniteSet(PendingRows')
  <2>1. PendingRows' \subseteq PendingRows
    BY <1>3, Zenon
  <2> QED BY <1>7, <2>1, FS_Subset, Zenon
<1>9. Cardinality(PendingRows) = Cardinality(PendingRows') + n /\ Cardinality(PendingRows') \in Nat
  <2>1. PendingRows = PendingRows' \cup N /\ PendingRows' \cap N = {}
    BY <1>3, <1>4, Zenon
  <2>2. Cardinality(PendingRows' \cup N)
          = Cardinality(PendingRows') + Cardinality(N) - Cardinality(PendingRows' \cap N)
    BY <1>6, <1>8, FS_Union, Zenon
  <2>3. Cardinality(PendingRows' \cap N) = 0
    BY <2>1, FS_EmptySet, Zenon
  <2>4. Cardinality(PendingRows') \in Nat
    BY <1>8, FS_CardinalityType
  <2> QED BY <1>5, <1>6, <2>1, <2>2, <2>3, <2>4
<1>10. it'.ios = Cardinality(PendingRows') /\ it'.ios \in Nat /\ it'.ios <= it.ios
  <2>1. it'.ios = IF it.ios < n THEN 0 ELSE it.ios - n
    BY DEF n
  <2> QED BY <1>5, <1>7, <1>9, <2>1
<1>11. ASSUME ~stale PROVE cfg.budget = 0 \/ it'.ios <= cfg.budget \/ Len(stack') = 1
  <2>1. cfg.budget \in Nat
    <3>1. cfg.budget \in Budgets
      BY DEF TypeOK, Config
    <3> QED BY <3>1, LoaderAssumption
  <2>2. cfg.budget = 0 \/ it.ios <= cfg.budget \/ Len(stack) = 1
    BY <1>11 DEF Ios
  <2>3. CASE Len(stack) = 1
    <3>1. 1..Len(stack') = {}
      BY <1>0, <2>3
    <3>2. PendingRows' = {}
      BY <1>2, <3>1, Zenon
    <3>3. it'.ios = 0
      BY <1>10, <3>2, FS_EmptySet
    <3> QED BY <2>1, <3>3
  <2>4. CASE it.ios <= cfg.budget
    BY <1>5, <1>10, <2>1, <2>4
  <2> QED BY <2>2, <2>3, <2>4
<1> QED BY <1>8, <1>10, <1>11 DEF Ios

LEMMA IosKept ==
    ASSUME TypeOK, Numbering, Items, Link, Ios, TypeOK', Numbering', Items', Link',
           cfg' = cfg, stale' = stale, stack' = stack, nextId' = nextId, it'.ios = it.ios,
           cfg.mode \in Budgeted => \A id \in Nat : WantedNext(id) <=> Wanted(id)
    PROVE Ios'
<1>1. CASE cfg.mode \notin Budgeted
  BY <1>1 DEF Ios
<1>2. CASE cfg.mode \in Budgeted
  <2>1. \A r : r \in PendingRows
         <=> \E j \in 1..Len(stack) : Wanted(Base + j - 1) /\ r \in {Base + j - 1} \X (1..stack[j].n)
    BY <1>2, Pendings DEF PendingMatches, RequestRows
  <2>2. Base' = Base
    BY DEF Base
  <2>3. \A r : r \in PendingRows'
         <=> \E j \in 1..Len(stack) :
               WantedNext(Base + j - 1) /\ r \in {Base + j - 1} \X (1..stack[j].n)
    BY <1>2, <2>2, PendingsNext
  <2>4. \A j \in 1..Len(stack) : WantedNext(Base + j - 1) <=> Wanted(Base + j - 1)
    <3>1. \A j \in 1..Len(stack) : Base + j - 1 \in Nat
      BY InStack
    <3> QED BY <1>2, <3>1, Zenon
  <2>5. PendingRows' = PendingRows
    <3>1. \A r : r \in PendingRows' <=> r \in PendingRows
      BY <2>1, <2>3, <2>4, Zenon
    <3> QED BY <3>1, Zenon
  <2> QED BY <2>5 DEF Ios
<1> QED BY <1>1, <1>2

(***************************************************************************)
(* The get of an iterator with one request per batch                       *)
(***************************************************************************)
\* An item with one part is one request.
LEMMA OneRequest ==
    ASSUME TypeOK, Items, cfg.mode \in OnePart, NEW i \in 1..Len(it.queue)
    PROVE /\ it.queue[i] \in Item /\ ItemOK(it.queue[i])
          /\ it.queue[i].parts = <<RowsOf(it.queue[i].batch)>>
          /\ Len(it.queue[i].parts) = 1
          /\ Len(it.queue[i].ids) = 1 /\ it.queue[i].ids[1] \in Nat
          /\ it.queue[i].mat = 0 /\ it.queue[i].used = 0
          /\ Unfetched(it.queue[i]) = {it.queue[i].ids[1]}
<1> DEFINE q == it.queue[i]
<1>1. q \in Item /\ ItemOK(q) /\ q.mat = 0 /\ Len(q.ids) >= 1
  <2>1. it.queue \in Seq(Item)
    BY DEF TypeOK, Iterator
  <2>2. cfg.mode # "split"
    BY DEF OnePart
  <2> QED BY <2>1, <2>2 DEF Items
<1> HIDE DEF q
<1>2. q.batch \in Nat \ {0} /\ q.ids \in Seq(Nat) /\ Len(q.ids) \in Nat /\ q.used \in Nat
  BY <1>1, LenIs DEF Item
<1>3. q.parts = <<RowsOf(q.batch)>>
  <2>1. PartsOf(RowsOf(q.batch)) = <<RowsOf(q.batch)>>
    BY <1>2, BatchParts DEF OnePart, InParts
  <2> QED BY <1>1, <2>1 DEF ItemOK
<1>4. Len(q.parts) = 1
  BY <1>3
<1>5. Len(q.ids) = 1 /\ q.used = 0
  <2>1. Len(q.ids) <= Len(q.parts) /\ q.used <= q.mat
    BY <1>1 DEF ItemOK
  <2>2. q.mat = 0 /\ Len(q.ids) >= 1
    BY <1>1
  <2> DEFINE n == Len(q.ids)
             u == q.used
  <2>3. n \in Nat /\ u \in Nat /\ n <= 1 /\ n >= 1 /\ u <= 0
    BY <1>2, <1>4, <2>1, <2>2
  <2> HIDE DEF n, u
  <2>4. n = 1 /\ u = 0
    BY <2>3
  <2> QED BY <2>4 DEF n, u
<1>6. q.ids[1] \in Nat
  BY <1>2, <1>5
<1>7. Unfetched(q) = {q.ids[1]}
  <2>1. (q.mat + 1)..Len(q.ids) = {1}
    BY <1>1, <1>5
  <2> QED BY <2>1, Zenon DEF Unfetched
<1> QED BY <1>1, <1>3, <1>4, <1>5, <1>6, <1>7 DEF q

\* Where the front of the stack is the batch's own.
Matched == cfg.mode = "single" \/ ~stale

LEMMA OneFront ==
    ASSUME TypeOK, Numbering, QueueInv, cfg.mode \in OnePart, it.queue # <<>>,
           cfg.mode = "single" => FrontIsExpected(stack)
    PROVE /\ 1 \in 1..Len(it.queue) /\ 1 \in 1..Len(stack)
          /\ Matched => /\ it.queue[1].ids[1] = Base
                        /\ stack[1].batch = it.queue[1].batch
                        /\ stack[1].n = it.queue[1].parts[1]
                        /\ stack[1].first = 0
<1>1. Items /\ Order /\ Link /\ Cover
  BY DEF QueueInv, OnePart, Queued, Prefetched
<1>2. 1 \in 1..Len(it.queue) /\ 1 \in 1..Len(stack)
  <2>1. Len(it.queue) \in Nat /\ Len(it.queue) # 0 /\ Len(stack) \in Nat
    BY InStack, LenIs DEF TypeOK, Iterator
  <2>2. Len(it.queue) <= Len(stack)
    BY <1>1 DEF Link
  <2> QED BY <2>1, <2>2
<1>3. ASSUME Matched
      PROVE /\ it.queue[1].ids[1] = Base
            /\ stack[1].batch = it.queue[1].batch
            /\ stack[1].n = it.queue[1].parts[1]
            /\ stack[1].first = 0
  <2>1. Linked(it.queue[1])
    BY <1>1, <1>2, <1>3 DEF Matched, Link, Registered
  <2>2. /\ Len(it.queue[1].ids) = 1 /\ it.queue[1].mat = 0 /\ it.queue[1].ids[1] \in Nat
    BY <1>1, <1>2, OneRequest
  <2>3. /\ it.queue[1].ids[1] >= Base
        /\ stack[it.queue[1].ids[1] - Base + 1].batch = it.queue[1].batch
        /\ stack[it.queue[1].ids[1] - Base + 1].n = it.queue[1].parts[1]
        /\ stack[it.queue[1].ids[1] - Base + 1].first = SumUpTo(it.queue[1].parts, 1 - 1)
    <3>1. 1 \in 1..Len(it.queue[1].ids) /\ 1 > it.queue[1].mat
      BY <2>2
    <3> QED BY <2>1, <3>1 DEF Linked
  <2>4. Base \in Nat /\ Base + 1 - 1 = Base
    BY InStack
  <2>5. it.queue[1].ids[1] = Base
    <3>1. CASE cfg.mode = "single"
      <4>1. stack[1].id = it.queue[1].ids[1]
        BY <3>1 DEF FrontIsExpected, Expected
      <4>2. stack[1].id = Base
        BY <1>2, <2>4 DEF Numbering
      <4> QED BY <4>1, <4>2
    <3>2. CASE ~stale
      <4>1. \/ \E i \in 1..Len(it.queue) : Base \in Unfetched(it.queue[i])
            \/ \E i \in 1..Len(it.hand) : Base \in Unfetched(it.hand[i])
        BY <1>1, <1>2, <2>4, <3>2 DEF Cover
      <4>2. ASSUME NEW i \in 1..Len(it.hand), Base \in Unfetched(it.hand[i]) PROVE FALSE
        <5>1. it.hand[i].mat = Len(it.hand[i].ids)
          BY <1>1 DEF Items, OnePart
        <5>2. it.hand \in Seq(Item)
          BY DEF TypeOK, Iterator
        <5>3. it.hand[i] \in Item
          BY <5>2
        <5>4. Len(it.hand[i].ids) \in Nat
          BY <5>3, LenIs DEF Item
        <5>5. (it.hand[i].mat + 1)..Len(it.hand[i].ids) = {}
          BY <5>1, <5>4
        <5> QED BY <4>2, <5>5, Zenon DEF Unfetched
      <4>3. PICK i \in 1..Len(it.queue) : Base \in Unfetched(it.queue[i])
        BY <4>1, <4>2
      <4>4. Base = it.queue[i].ids[1] /\ Len(it.queue[i].ids) = 1
        BY <1>1, <4>3, OneRequest
      <4>5. i > 1 => it.queue[1].ids[1] < Base
        <5>1. 1 \in 1..Len(it.queue[1].ids) /\ 1 \in 1..Len(it.queue[i].ids)
          BY <2>2, <4>4
        <5>2. i > 1 => it.queue[1].ids[1] < it.queue[i].ids[1]
          BY <1>1, <1>2, <5>1 DEF Order
        <5> QED BY <4>4, <5>2
      <4>6. i = 1 \/ i > 1
        OBVIOUS
      <4> QED BY <2>2, <2>3, <2>4, <4>4, <4>5, <4>6
    <3> QED BY <1>3, <3>1, <3>2 DEF Matched
  <2>6. it.queue[1].ids[1] - Base + 1 = 1 /\ 1 - 1 = 0
    BY <2>4, <2>5
  <2> QED BY <2>3, <2>5, <2>6, SumZero
<1> QED BY <1>2, <1>3

Gotten(y) ==
    /\ it.queue # <<>> /\ cfg.mode \in OnePart
    /\ y \in Item /\ Keeps(y, it.queue[1]) /\ y.mat = 1 /\ y.used = 0
    /\ Matched => y.rows = OwnRows(y.batch)
    /\ it'.queue = Tail(it.queue) /\ stack' = Tail(stack) /\ nextId' = nextId
    /\ cfg' = cfg /\ stale' = stale
    /\ \/ cfg.mode = "pipeline" /\ it'.hand = it.hand /\ it'.current = <<y>>
       \/ cfg.mode # "pipeline" /\ it'.hand = <<y>> /\ it'.current = it.current
    /\ it.hand = <<>> /\ it.current = <<>>
    /\ it'.ios = IF it.ios < it.queue[1].parts[1] THEN 0 ELSE it.ios - it.queue[1].parts[1]
    /\ cfg.mode = "single" => FrontIsExpected(stack)

LEMMA GottenMoves ==
    ASSUME TypeOK, Numbering, QueueInv, NEW y, Gotten(y)
    PROVE Moved(1) /\ Popped
<1>1. Items /\ Order /\ Link /\ cfg.mode \in OnePart
  BY DEF QueueInv, Gotten, OnePart, Queued, Prefetched
<1>2. 1 \in 1..Len(it.queue) /\ 1 \in 1..Len(stack) /\ (Matched => it.queue[1].ids[1] = Base)
  BY <1>1, OneFront DEF Gotten
<1>3. Popped
  BY <1>2, InStack DEF Popped, Gotten
<1>4. /\ it.queue \in Seq(Item) /\ it.queue # <<>> /\ Len(it.queue) \in Nat /\ Len(it.queue) >= 1
      /\ it'.queue \in Seq(Item) /\ Len(it'.queue) = Len(it.queue) - 1
      /\ \A j \in 1..(Len(it.queue) - 1) : it'.queue[j] = it.queue[j + 1]
  BY TailIs, LenIs DEF TypeOK, Iterator, Gotten
<1>n. cfg.mode \in Registered \/ ~stale => Matched
  BY <1>1 DEF Matched, Registered, OnePart
<1>5. ASSUME NEW j \in 1..Len(it'.queue)
      PROVE /\ Keeps(it'.queue[j], it.queue[j + 1]) /\ Sound(it'.queue[j])
            /\ it'.queue[j].mat = 0
  <2>1. j + 1 \in 1..Len(it.queue) /\ 1 < j + 1 /\ it'.queue[j] = it.queue[j + 1]
    BY <1>4
  <2> DEFINE m == j + 1
  <2> HIDE DEF m
  <2>m. m \in 1..Len(it.queue) /\ 1 < m /\ it'.queue[j] = it.queue[m]
    BY <2>1 DEF m
  <2>2. /\ it.queue[m] \in Item /\ ItemOK(it.queue[m]) /\ it.queue[m].mat = 0
        /\ Len(it.queue[m].ids) = 1 /\ it.queue[m].ids[1] \in Nat
        /\ Unfetched(it.queue[m]) = {it.queue[m].ids[1]}
    BY <1>1, <2>m, OneRequest
  <2>3. RowsOK(it.queue[m])
    BY <1>1, <2>m DEF Items
  <2>4. ASSUME Matched PROVE Linked(it.queue[m]) /\ Base \notin Unfetched(it.queue[m])
    <3>1. Linked(it.queue[m])
      BY <1>1, <2>m, <2>4 DEF Link, Matched, Registered
    <3>2. Len(it.queue[1].ids) = 1
      BY <1>1, <1>2, OneRequest
    <3>3. 1 \in 1..Len(it.queue[1].ids) /\ 1 \in 1..Len(it.queue[m].ids)
      BY <2>2, <3>2
    <3>4. it.queue[1].ids[1] < it.queue[m].ids[1]
      BY <1>1, <1>2, <2>m, <3>3 DEF Order
    <3>5. Base \in Nat
      BY InStack
    <3> QED BY <1>2, <2>2, <2>4, <3>1, <3>4, <3>5
  <2>5. Sound(it.queue[m])
    BY <1>n, <2>2, <2>3, <2>4 DEF Sound
  <2> QED BY <2>m, <2>2, <2>5 DEF Keeps, m
<1>6. /\ Sound(y) /\ ItemOK(y) /\ Full(y) /\ y.mat = Len(y.ids) /\ y \in Item
      /\ Keeps(y, it.queue[1])
  <2>1. y \in Item /\ Keeps(y, it.queue[1]) /\ y.mat = 1 /\ y.used = 0
    BY DEF Gotten
  <2>2. /\ it.queue[1] \in Item /\ ItemOK(it.queue[1]) /\ Len(it.queue[1].ids) = 1
        /\ Len(it.queue[1].parts) = 1
    BY <1>1, <1>2, OneRequest
  <2>3. ItemOK(y)
    BY <2>1, <2>2 DEF ItemOK, Keeps
  <2>4. RowsOK(y)
    BY <1>1 DEF RowsOK, OnePart, InParts
  <2>5. Unfetched(y) = {}
    <3>1. (y.mat + 1)..Len(y.ids) = {}
      BY <2>1, <2>2 DEF Keeps
    <3> QED BY <3>1, Zenon DEF Unfetched
  <2>6. Linked(y)
    <3>1. \A k \in 1..Len(y.ids) : ~(k > y.mat)
      BY <2>1, <2>2 DEF Keeps
    <3> QED BY <3>1 DEF Linked
  <2> QED BY <2>1, <2>2, <2>3, <2>4, <2>5, <2>6 DEF Sound, Full, Keeps
<1>7. /\ it'.hand \in Seq(Item) /\ it'.current \in Seq(Item)
      /\ \A j \in 1..Len(it'.hand) : it'.hand[j] = y
      /\ \A j \in 1..Len(it'.current) : it'.current[j] = y
  <2>1. \/ it'.hand = <<>> /\ it'.current = <<y>>
        \/ it'.hand = <<y>> /\ it'.current = <<>>
    BY DEF Gotten
  <2>2. /\ <<y>> \in Seq(Item) /\ \A j \in 1..Len(<<y>>) : <<y>>[j] = y
        /\ <<>> \in Seq(Item) /\ \A j \in 1..Len(<<>>) : <<>>[j] = y
    BY <1>6
  <2> QED BY <2>1, <2>2, Zenon
<1>8. cfg' = cfg /\ nextId' = nextId /\ stale' = stale
  BY DEF Gotten
<1> QED BY <1>3, <1>4, <1>5, <1>6, <1>7, <1>8 DEF Moved

LEMMA QueueGot ==
    ASSUME TypeOK, Numbering, QueueInv, TypeOK', NEW y, Gotten(y)
    PROVE QueueInv' /\ Numbering'
<1>1. Items /\ Order /\ Link /\ Cover /\ Ios /\ Polled /\ Fetched1
      /\ cfg.mode \in OnePart
  BY DEF QueueInv, Gotten, OnePart, Queued, Prefetched
<1>2. Moved(1) /\ Popped
  BY GottenMoves
<1>3. /\ 1 \in 1..Len(it.queue) /\ 1 \in 1..Len(stack)
      /\ Matched => it.queue[1].ids[1] = Base /\ stack[1].n = it.queue[1].parts[1]
  BY <1>1, OneFront DEF Gotten
<1>4. Items' /\ Order' /\ Link' /\ Numbering'
  BY <1>1, <1>2, MovedItems, MovedOrder, MovedLink
<1>5. /\ Len(it.queue) \in Nat /\ Len(it'.queue) = Len(it.queue) - 1
      /\ \A j \in 1..(Len(it.queue) - 1) : it'.queue[j] = it.queue[j + 1]
  BY TailIs, LenIs DEF TypeOK, Iterator, Gotten
<1>6. ASSUME NEW i \in 1..Len(it.queue), i # 1
      PROVE i - 1 \in 1..Len(it'.queue) /\ it'.queue[i - 1] = it.queue[i]
  <2>1. i - 1 \in 1..(Len(it.queue) - 1) /\ (i - 1) + 1 = i
    BY <1>5, <1>6
  <2> QED BY <1>5, <2>1
<1>w. cfg' = cfg /\ stale' = stale /\ nextId' = nextId
  BY DEF Gotten
<1>7. Cover'
  <2>1. ASSUME ~stale PROVE StillWanted
    <3>1. \A i \in 1..Len(it.hand) : FALSE
      BY DEF Gotten
    <3>2. Unfetched(it.queue[1]) = {Base}
      BY <1>1, <1>3, <2>1, OneRequest DEF Matched
    <3>3. ASSUME NEW id \in Nat, NEW i \in 1..Len(it.queue), id \in Unfetched(it.queue[i])
          PROVE (\E m \in 1..Len(it'.queue) : id \in Unfetched(it'.queue[m])) \/ id = Base
      <4>1. CASE i = 1
        BY <3>2, <3>3, <4>1
      <4>2. CASE i # 1
        BY <1>6, <3>3, <4>2
      <4> QED BY <4>1, <4>2
    <3> QED BY <1>2, <3>1, <3>3, Zenon DEF StillWanted
  <2> QED BY <1>1, <1>2, <1>w, <2>1, MovedCover
<1>8. Ios'
  <2>1. CASE cfg.mode \notin Budgeted
    <3>1. it.ios = 0 /\ it.queue[1].parts[1] \in Nat
      <4>1. it.ios = 0
        BY <1>1, <2>1 DEF Ios
      <4>2. it.queue[1] \in Item /\ Len(it.queue[1].parts) = 1
        BY <1>1, <1>3, OneRequest
      <4>3. it.queue[1].parts \in Seq(Nat \ {0})
        BY <4>2 DEF Item
      <4> QED BY <4>1, <4>2, <4>3
    <3>2. it'.ios = IF it.ios < it.queue[1].parts[1] THEN 0 ELSE it.ios - it.queue[1].parts[1]
      BY DEF Gotten
    <3>3. it'.ios = 0
      BY <3>1, <3>2
    <3> QED BY <1>w, <2>1, <3>3 DEF Ios
  <2>2. CASE cfg.mode \in Budgeted
    <3>1. Matched
      BY <1>1, <2>2 DEF Matched, Budgeted, OnePart
    <3>2. it'.ios = IF it.ios < stack[1].n THEN 0 ELSE it.ios - stack[1].n
      BY <1>3, <3>1 DEF Gotten
    <3>3. Unfetched(it.queue[1]) = {Base}
      BY <1>1, <1>3, <3>1, OneRequest
    <3>4. Wanted(Base)
      BY <1>3, <3>3 DEF Wanted
    <3>5. ASSUME NEW id \in Nat, Wanted(id), id # Base PROVE WantedNext(id)
      <4>1. PICK i \in 1..Len(it.queue) : id \in Unfetched(it.queue[i])
        BY <3>5 DEF Wanted
      <4>2. i # 1
        BY <3>3, <3>5, <4>1
      <4> QED BY <1>6, <4>1, <4>2 DEF WantedNext
    <3>6. ASSUME NEW id \in Nat, WantedNext(id) PROVE Wanted(id) /\ id # Base
      <4>1. PICK i \in 1..Len(it'.queue) : id \in Unfetched(it'.queue[i])
        BY <3>6 DEF WantedNext
      <4>2. i + 1 \in 1..Len(it.queue) /\ it'.queue[i] = it.queue[i + 1]
        BY <1>5
      <4>3. Wanted(id)
        BY <4>1, <4>2 DEF Wanted
      <4>4. Sound(it'.queue[i])
        BY <1>2 DEF Moved
      <4>5. stack' # stack
        BY <1>2, PoppedIs, InStack
      <4>6. id # Base
        BY <2>2, <4>1, <4>4, <4>5 DEF Sound, Budgeted, Registered
      <4> QED BY <4>3, <4>6
    <3> QED BY <1>1, <1>2, <1>4, <1>w, <2>2, <3>2, <3>4, <3>5, <3>6, IosFetched
  <2> QED BY <2>1, <2>2
<1>9. Polled'
  <2>1. SUFFICES ASSUME cfg.mode \notin Registered, NEW i \in 1..Len(it'.queue),
                        it'.queue[i].polled
                 PROVE FALSE
    BY <1>w DEF Polled
  <2>2. i + 1 \in 1..Len(it.queue) /\ it'.queue[i] = it.queue[i + 1] /\ i + 1 # 1
    BY <1>5
  <2> QED BY <1>1, <2>1, <2>2 DEF Polled
<1>10. Fetched1'
  <2>1. SUFFICES ASSUME Matched
                 PROVE /\ \A i \in 1..Len(it'.hand) : OwnBatch(it.hand[i])'
                       /\ \A i \in 1..Len(it'.current) : OwnBatch(it.current[i])'
    BY <1>w DEF Fetched1, Matched
  <2>2. y.rows = OwnRows(y.batch)
    BY <2>1 DEF Gotten
  <2>3. \/ it'.hand = <<>> /\ it'.current = <<y>>
        \/ it'.hand = <<y>> /\ it'.current = <<>>
    BY DEF Gotten
  <2>4. /\ \A j \in 1..Len(it'.hand) : it'.hand[j] = y
        /\ \A j \in 1..Len(it'.current) : it'.current[j] = y
    BY <2>3
  <2>5. OwnBatch(y)'
    BY <1>w, <2>2, Zenon DEF OwnBatch, OwnRows, RowsOf
  <2> QED BY <2>4, <2>5, Zenon DEF OwnBatch
<1> QED BY <1>w, <1>4, <1>7, <1>8, <1>9, <1>10 DEF QueueInv

(***************************************************************************)
(* Items that change or move while the stack stays                         *)
(***************************************************************************)
LEMMA QueueMoved ==
    ASSUME TypeOK, Numbering, QueueInv, TypeOK', NEW s, Moved(s), cfg.mode \in Queued,
           stack' = stack, it'.ios = it.ios, ~stale => StillWanted,
           cfg.mode \in Budgeted => \A id \in Nat : WantedNext(id) <=> Wanted(id),
           Polled', Fetched1'
    PROVE QueueInv' /\ Numbering'
<1>1. Items /\ Order /\ Link /\ Cover /\ Ios
  BY DEF QueueInv
<1>2. cfg' = cfg /\ stale' = stale /\ nextId' = nextId
  BY DEF Moved
<1>3. ~Popped
  BY PoppedIs, InStack
<1>4. Items' /\ Order' /\ Link' /\ Numbering'
  BY <1>1, <1>3, MovedItems, MovedOrder, MovedLink
<1>5. Cover'
  BY <1>1, <1>2, MovedCover
<1>6. Ios'
  BY <1>1, <1>2, <1>4, IosKept
<1> QED BY <1>2, <1>4, <1>5, <1>6 DEF QueueInv

LEMMA FetchedSame ==
    ASSUME Fetched1, it'.hand = it.hand, it'.current = it.current, cfg' = cfg, stale' = stale
    PROVE Fetched1'
  BY DEF Fetched1, OwnBatch, OwnRows, RowsOf

\* An item that has nothing left to fetch.
LEMMA Done ==
    ASSUME NEW x \in Item, x.mat = Len(x.ids)
    PROVE Unfetched(x) = {} /\ Linked(x)
<1>1. Len(x.ids) \in Nat
  BY LenIs DEF Item
<1>2. (x.mat + 1)..Len(x.ids) = {} /\ \A k \in 1..Len(x.ids) : ~(k > x.mat)
  BY <1>1
<1> QED BY <1>2, Zenon DEF Unfetched, Linked

LEMMA SoundHand ==
    ASSUME TypeOK, Items, cfg.mode # "cids", NEW i \in 1..Len(it.hand)
    PROVE /\ Sound(it.hand[i]) /\ Full(it.hand[i])
          /\ it.hand[i].mat = Len(it.hand[i].ids) /\ Unfetched(it.hand[i]) = {}
<1>1. it.hand \in Seq(Item)
  BY DEF TypeOK, Iterator
<1>2. /\ it.hand[i] \in Item /\ ItemOK(it.hand[i]) /\ RowsOK(it.hand[i]) /\ Full(it.hand[i])
      /\ it.hand[i].mat = Len(it.hand[i].ids)
  BY <1>1 DEF Items
<1>3. Unfetched(it.hand[i]) = {} /\ Linked(it.hand[i])
  BY <1>2, Done
<1> QED BY <1>2, <1>3 DEF Sound

LEMMA SoundQueue ==
    ASSUME TypeOK, Items, Link, stack' = stack, NEW i \in 1..Len(it.queue)
    PROVE Sound(it.queue[i])
<1>1. it.queue \in Seq(Item)
  BY DEF TypeOK, Iterator
<1>2. it.queue[i] \in Item /\ ItemOK(it.queue[i]) /\ RowsOK(it.queue[i])
  BY <1>1 DEF Items
<1> QED BY <1>2 DEF Sound, Link

\* Only the marks of an item change: polled, or how much of it was used.
Touched(i, y) ==
    /\ i \in 1..Len(it.queue) /\ y \in Item /\ Keeps(y, it.queue[i])
    /\ y.mat = it.queue[i].mat /\ y.rows = it.queue[i].rows /\ y.used <= y.mat
    /\ y.polled => it.queue[i].polled \/ cfg.mode \in Registered \/ (i = 1 /\ stack[1].done)
    /\ it'.queue = [it.queue EXCEPT ![i] = y]
    /\ it'.hand = it.hand /\ it'.current = it.current /\ it'.ios = it.ios
    /\ stack' = stack /\ nextId' = nextId /\ cfg' = cfg /\ stale' = stale
    /\ cfg.mode \in Queued \ {"cids"}

LEMMA QueueTouched ==
    ASSUME TypeOK, Numbering, QueueInv, TypeOK', NEW i, NEW y, Touched(i, y)
    PROVE QueueInv' /\ Numbering'
<1>1. Items /\ Order /\ Link /\ Cover /\ Ios /\ Polled /\ Fetched1 /\ cfg.mode \in Queued
  BY DEF QueueInv, Touched
<1>2. /\ it.queue \in Seq(Item) /\ it.hand \in Seq(Item) /\ it.current \in Seq(Item)
      /\ Len(it.queue) \in Nat
  BY LenIs DEF TypeOK, Iterator
<1>3. /\ i \in 1..Len(it.queue) /\ y \in Item /\ Keeps(y, it.queue[i])
      /\ y.mat = it.queue[i].mat /\ y.rows = it.queue[i].rows /\ y.used <= y.mat
      /\ it'.queue = [it.queue EXCEPT ![i] = y]
      /\ it'.hand = it.hand /\ it'.current = it.current /\ it'.ios = it.ios
      /\ stack' = stack /\ nextId' = nextId /\ cfg' = cfg /\ stale' = stale
      /\ cfg.mode # "cids"
  BY DEF Touched
<1>4. /\ it'.queue \in Seq(Item) /\ Len(it'.queue) = Len(it.queue)
      /\ \A j \in 1..Len(it.queue) : it'.queue[j] = IF j = i THEN y ELSE it.queue[j]
  BY <1>2, <1>3
<1>5. Sound(y) /\ (cfg.mode # "split" => y.mat = 0)
  <2>1. /\ it.queue[i] \in Item /\ ItemOK(it.queue[i]) /\ RowsOK(it.queue[i])
        /\ (cfg.mode # "split" => it.queue[i].mat = 0)
    BY <1>1, <1>2, <1>3 DEF Items
  <2>2. ItemOK(y)
    BY <1>3, <2>1 DEF ItemOK, Keeps
  <2>3. RowsOK(y)
    BY <1>3, <2>1 DEF RowsOK, Keeps
  <2>4. cfg.mode \in Registered \/ ~stale => Linked(y)
    BY <1>1, <1>3 DEF Link, Linked, Keeps
  <2> QED BY <1>3, <2>1, <2>2, <2>3, <2>4 DEF Sound
<1>6. ASSUME NEW j \in 1..Len(it'.queue)
      PROVE /\ Keeps(it'.queue[j], it.queue[j + 0]) /\ Sound(it'.queue[j])
            /\ cfg.mode # "split" => it'.queue[j].mat = 0
            /\ Unfetched(it'.queue[j]) = Unfetched(it.queue[j])
  <2>0. j + 0 = j /\ j \in 1..Len(it.queue)
    BY <1>4
  <2>1. CASE j = i
    BY <1>3, <1>4, <1>5, <2>0, <2>1 DEF Keeps, Unfetched
  <2>2. CASE j # i
    <3>1. it'.queue[j] = it.queue[j]
      BY <1>4, <2>0, <2>2
    <3>2. Sound(it.queue[j]) /\ (cfg.mode # "split" => it.queue[j].mat = 0)
      BY <1>1, <1>3, <2>0, SoundQueue DEF Items
    <3> QED BY <2>0, <3>1, <3>2 DEF Keeps
  <2> QED BY <2>1, <2>2
<1>7. Moved(0)
  <2>1. 0 \in {0, 1} /\ 0 <= Len(it.queue) /\ Len(it'.queue) = Len(it.queue) - 0
    BY <1>2, <1>4
  <2>2. ASSUME NEW j \in 1..Len(it'.hand)
        PROVE /\ j \in 1..Len(it.hand) /\ Keeps(it'.hand[j], it.hand[j])
              /\ Sound(it'.hand[j]) /\ Full(it'.hand[j])
              /\ it'.hand[j].mat = Len(it'.hand[j].ids)
    BY <1>1, <1>3, SoundHand DEF Keeps
  <2>3. ASSUME NEW j \in 1..Len(it'.current)
        PROVE /\ j \in 1..Len(it.current) /\ Keeps(it'.current[j], it.current[j])
              /\ ItemOK(it'.current[j]) /\ Full(it'.current[j])
              /\ it'.current[j].mat = Len(it'.current[j].ids)
    BY <1>1, <1>3 DEF Keeps, Items
  <2> QED BY <1>2, <1>3, <1>4, <1>6, <2>1, <2>2, <2>3 DEF Moved
<1>8. \A id : WantedNext(id) <=> Wanted(id)
  BY <1>4, <1>6 DEF WantedNext, Wanted
<1>9. StillWanted
  BY <1>3, <1>8, Zenon DEF StillWanted, WantedNext, Wanted
<1>10. Polled'
  <2>1. SUFFICES ASSUME cfg.mode \notin Registered, NEW j \in 1..Len(it'.queue),
                        it'.queue[j].polled
                 PROVE j = 1 /\ stack[1].done
    BY <1>3 DEF Polled
  <2>2. j \in 1..Len(it.queue) /\ it'.queue[j] = IF j = i THEN y ELSE it.queue[j]
    BY <1>4
  <2>3. it.queue[j].polled \/ (j = 1 /\ stack[1].done)
    BY <2>1, <2>2 DEF Touched
  <2> QED BY <1>1, <2>1, <2>2, <2>3 DEF Polled
<1>11. Fetched1'
  BY <1>1, <1>3, FetchedSame
<1> QED BY <1>1, <1>3, <1>7, <1>8, <1>9, <1>10, <1>11, QueueMoved

\* The batch in hand is returned, or current_batch is taken.
Passed ==
    /\ it'.queue = it.queue /\ it'.ios = it.ios
    /\ stack' = stack /\ nextId' = nextId /\ cfg' = cfg /\ stale' = stale
    /\ \A i \in 1..Len(it.hand) : it.hand[i].mat = Len(it.hand[i].ids)
    /\ \/ it'.hand = <<>> /\ it'.current = it.current
       \/ cfg.mode = "pipeline" /\ it'.hand = it.current /\ it'.current = <<>>

LEMMA QueuePassed ==
    ASSUME TypeOK, Numbering, QueueInv, TypeOK', cfg.mode \in Queued, Passed
    PROVE QueueInv' /\ Numbering'
<1>1. Items /\ Order /\ Link /\ Cover /\ Ios /\ Polled /\ Fetched1
  BY DEF QueueInv
<1>2. /\ it.queue \in Seq(Item) /\ it.hand \in Seq(Item) /\ it.current \in Seq(Item)
      /\ Len(it.queue) \in Nat
  BY LenIs DEF TypeOK, Iterator
<1>3. /\ it'.queue = it.queue /\ it'.ios = it.ios
      /\ stack' = stack /\ nextId' = nextId /\ cfg' = cfg /\ stale' = stale
  BY DEF Passed
<1>4. \/ it'.hand = <<>> /\ it'.current = it.current
      \/ cfg.mode = "pipeline" /\ it'.hand = it.current /\ it'.current = <<>>
  BY DEF Passed
<1>5. ASSUME NEW j \in 1..Len(it'.queue)
      PROVE /\ Keeps(it'.queue[j], it.queue[j + 0]) /\ Sound(it'.queue[j])
            /\ cfg.mode # "split" => it'.queue[j].mat = 0
  <2>0. j + 0 = j /\ j \in 1..Len(it.queue) /\ it'.queue[j] = it.queue[j]
    BY <1>3
  <2>2. Sound(it.queue[j]) /\ (cfg.mode # "split" => it.queue[j].mat = 0)
    BY <1>1, <1>3, <2>0, SoundQueue DEF Items
  <2> QED BY <2>0, <2>2 DEF Keeps
<1>6. ASSUME NEW j \in 1..Len(it'.hand)
      PROVE /\ j \in 1..Len(it.current) /\ Keeps(it'.hand[j], it.current[j])
            /\ Sound(it'.hand[j]) /\ Full(it'.hand[j])
            /\ it'.hand[j].mat = Len(it'.hand[j].ids)
  <2>1. cfg.mode = "pipeline" /\ it'.hand = it.current
    BY <1>4, <1>6
  <2>2. /\ it.current[j] \in Item /\ ItemOK(it.current[j]) /\ Full(it.current[j])
        /\ it.current[j].mat = Len(it.current[j].ids)
    BY <1>1, <1>2, <2>1 DEF Items
  <2>3. RowsOK(it.current[j])
    BY <2>1 DEF RowsOK, InParts
  <2>4. Sound(it.current[j])
    BY <2>2, <2>3, Done DEF Sound
  <2> QED BY <2>1, <2>2, <2>4 DEF Keeps
<1>7. ASSUME NEW j \in 1..Len(it'.current)
      PROVE /\ j \in 1..Len(it.current) /\ Keeps(it'.current[j], it.current[j])
            /\ ItemOK(it'.current[j]) /\ Full(it'.current[j])
            /\ it'.current[j].mat = Len(it'.current[j].ids)
  <2>1. it'.current = it.current
    BY <1>4, <1>7
  <2> QED BY <1>1, <2>1 DEF Keeps, Items
<1>8. Moved(0)
  <2>1. 0 \in {0, 1} /\ 0 <= Len(it.queue) /\ Len(it'.queue) = Len(it.queue) - 0
    BY <1>2, <1>3
  <2>2. it'.hand \in Seq(Item) /\ it'.current \in Seq(Item)
    BY <1>2, <1>4, EmptyIs
  <2> QED BY <1>2, <1>3, <1>5, <1>6, <1>7, <2>1, <2>2 DEF Moved
<1>9. \A id : WantedNext(id) <=> Wanted(id)
  BY <1>3 DEF WantedNext, Wanted
<1>10. StillWanted
  <2>1. \A i \in 1..Len(it.hand) : Unfetched(it.hand[i]) = {}
    BY <1>2, Done DEF Passed
  <2> QED BY <1>9, <2>1 DEF StillWanted, WantedNext, Wanted
<1>11. Polled'
  BY <1>1, <1>3 DEF Polled
<1>12. Fetched1'
  <2>1. SUFFICES ASSUME cfg.mode \in OnePart, cfg.mode = "single" \/ ~stale
                 PROVE /\ \A i \in 1..Len(it'.hand) : OwnBatch(it.hand[i])'
                       /\ \A i \in 1..Len(it'.current) : OwnBatch(it.current[i])'
    BY <1>3 DEF Fetched1
  <2>2. \A i \in 1..Len(it.current) : OwnBatch(it.current[i])
    BY <1>1, <2>1 DEF Fetched1
  <2>c. cfg' = cfg
    BY <1>3
  <2>3. ASSUME it'.current = it.current
        PROVE \A i \in 1..Len(it'.current) : OwnBatch(it.current[i])'
    BY <2>c, <2>2, <2>3, Zenon DEF OwnBatch, OwnRows, RowsOf
  <2>4. ASSUME it'.hand = it.current
        PROVE \A i \in 1..Len(it'.hand) : OwnBatch(it.hand[i])'
    BY <2>c, <2>2, <2>4, Zenon DEF OwnBatch, OwnRows, RowsOf
  <2>5. /\ it'.hand = <<>> => \A i \in 1..Len(it'.hand) : FALSE
        /\ it'.current = <<>> => \A i \in 1..Len(it'.current) : FALSE
    OBVIOUS
  <2> QED BY <1>4, <2>3, <2>4, <2>5, Zenon
<1> QED BY <1>3, <1>8, <1>9, <1>10, <1>11, <1>12, QueueMoved

\* The front item is popped and held.
Held ==
    /\ it.queue # <<>> /\ it.hand = <<>> /\ Full(it.queue[1])
    /\ cfg.mode \in InParts /\ (cfg.mode = "split" => it.queue[1].mat = Len(it.queue[1].ids))
    /\ it'.queue = Tail(it.queue) /\ it'.hand = <<it.queue[1]>> /\ it'.current = it.current
    /\ it'.ios = it.ios
    /\ stack' = stack /\ nextId' = nextId /\ cfg' = cfg /\ stale' = stale

LEMMA QueueHeld ==
    ASSUME TypeOK, Numbering, QueueInv, TypeOK', Held
    PROVE QueueInv' /\ Numbering'
<1>0. cfg.mode \in Queued
  BY DEF Held, InParts, Queued, Prefetched
<1>1. Items /\ Order /\ Link /\ Cover /\ Ios /\ Polled /\ Fetched1
  BY <1>0 DEF QueueInv
<1>2. /\ it.queue # <<>> /\ it.hand = <<>> /\ Full(it.queue[1])
      /\ cfg.mode \in InParts /\ (cfg.mode = "split" => it.queue[1].mat = Len(it.queue[1].ids))
      /\ it'.queue = Tail(it.queue) /\ it'.hand = <<it.queue[1]>> /\ it'.current = it.current
      /\ it'.ios = it.ios
      /\ stack' = stack /\ nextId' = nextId /\ cfg' = cfg /\ stale' = stale
  BY DEF Held
<1>3. it.queue \in Seq(Item) /\ it.current \in Seq(Item)
  BY DEF TypeOK, Iterator
<1>4. /\ Len(it.queue) \in Nat /\ Len(it.queue) >= 1
      /\ it'.queue \in Seq(Item) /\ Len(it'.queue) = Len(it.queue) - 1
      /\ \A j \in 1..(Len(it.queue) - 1) : it'.queue[j] = it.queue[j + 1]
  BY <1>2, <1>3, TailIs
<1>5. 1 \in 1..Len(it.queue) /\ it.queue[1] \in Item
  BY <1>3, <1>4
<1>6. it'.hand \in Seq(Item) /\ Len(it'.hand) = 1 /\ it'.hand[1] = it.queue[1]
  BY <1>2, <1>5
<1>7. ASSUME NEW i \in 1..Len(it.queue), i # 1
      PROVE i - 1 \in 1..Len(it'.queue) /\ it'.queue[i - 1] = it.queue[i]
  <2>1. i - 1 \in 1..(Len(it.queue) - 1) /\ (i - 1) + 1 = i
    BY <1>4, <1>7
  <2> QED BY <1>4, <2>1
<1>8. ASSUME NEW j \in 1..Len(it'.queue)
      PROVE j + 1 \in 1..Len(it.queue) /\ it'.queue[j] = it.queue[j + 1]
  BY <1>4
<1>9. ASSUME NEW j \in 1..Len(it'.queue)
      PROVE /\ Keeps(it'.queue[j], it.queue[j + 1]) /\ Sound(it'.queue[j])
            /\ cfg.mode # "split" => it'.queue[j].mat = 0
  <2> DEFINE m == j + 1
  <2>1. m \in 1..Len(it.queue) /\ it'.queue[j] = it.queue[m]
    BY <1>8
  <2> HIDE DEF m
  <2>2. Sound(it.queue[m]) /\ (cfg.mode # "split" => it.queue[m].mat = 0)
    BY <1>1, <1>2, <2>1, SoundQueue DEF Items
  <2> QED BY <2>1, <2>2 DEF Keeps, m
<1>10. ASSUME NEW j \in 1..Len(it'.hand)
       PROVE /\ Keeps(it'.hand[j], it.queue[1]) /\ Sound(it'.hand[j]) /\ Full(it'.hand[j])
             /\ cfg.mode # "cids" => it'.hand[j].mat = Len(it'.hand[j].ids)
  <2>1. it'.hand[j] = it.queue[1]
    BY <1>6
  <2>2. Sound(it.queue[1])
    BY <1>1, <1>2, <1>5, SoundQueue
  <2>3. cfg.mode # "cids" => cfg.mode = "split"
    BY <1>2 DEF InParts
  <2> QED BY <1>2, <2>1, <2>2, <2>3 DEF Keeps
<1>11. ASSUME NEW j \in 1..Len(it'.current)
      PROVE /\ j \in 1..Len(it.current) /\ Keeps(it'.current[j], it.current[j])
            /\ ItemOK(it'.current[j]) /\ Full(it'.current[j])
            /\ it'.current[j].mat = Len(it'.current[j].ids)
  BY <1>1, <1>2 DEF Keeps, Items
<1>12. Moved(1)
  BY <1>2, <1>3, <1>4, <1>6, <1>9, <1>10, <1>11 DEF Moved
<1>13. ASSUME cfg.mode \in Budgeted, NEW id \in Nat PROVE WantedNext(id) <=> Wanted(id)
  <2>1. cfg.mode = "split"
    BY <1>2, <1>13 DEF InParts, Budgeted
  <2>2. Unfetched(it.queue[1]) = {}
    BY <1>2, <1>5, <2>1, Done
  <2> QED BY <1>7, <1>8, <2>2 DEF WantedNext, Wanted
<1>14. StillWanted
  <2>1. SUFFICES ASSUME NEW id \in Nat, NEW i \in 1..Len(it.queue), id \in Unfetched(it.queue[i])
                 PROVE \/ \E m \in 1..Len(it'.queue) : id \in Unfetched(it'.queue[m])
                       \/ \E m \in 1..Len(it'.hand) : id \in Unfetched(it'.hand[m])
    <3>1. \A i \in 1..Len(it.hand) : FALSE
      BY <1>2
    <3> QED BY <3>1, Zenon DEF StillWanted
  <2>2. CASE i = 1
    <3>1. 1 \in 1..Len(it'.hand) /\ id \in Unfetched(it'.hand[1])
      BY <1>6, <2>1, <2>2
    <3> QED BY <3>1
  <2>3. CASE i # 1
    BY <1>7, <2>1, <2>3
  <2> QED BY <2>2, <2>3
<1>15. Polled' /\ Fetched1'
  BY <1>2 DEF Polled, Fetched1, InParts, Registered, OnePart
<1> QED BY <1>0, <1>2, <1>12, <1>13, <1>14, <1>15, QueueMoved

(***************************************************************************)
(* The get of one part of a batch                                          *)
(***************************************************************************)
\* The next part of x is at the front of the stack.
NextPart(x) ==
    /\ x \in Item /\ ItemOK(x) /\ RowsOK(x) /\ Linked(x) /\ cfg.mode \in InParts
    /\ x.mat < Len(x.ids) /\ stack # <<>> /\ x.ids[x.mat + 1] = stack[1].id

LEMMA NextPartIs ==
    ASSUME TypeOK, Numbering, NEW x, NextPart(x)
    PROVE /\ 1 \in 1..Len(stack) /\ x.ids[x.mat + 1] = Base /\ Base \in Unfetched(x)
          /\ stack[1].batch = x.batch /\ stack[1].n = x.parts[x.mat + 1]
          /\ stack[1].first = SumUpTo(x.parts, x.mat)
          /\ x.mat \in Nat /\ x.mat + 1 <= Len(x.ids) /\ x.mat + 1 <= Len(x.parts)
          /\ x.parts[x.mat + 1] \in Nat \ {0} /\ SumUpTo(x.parts, x.mat) \in Nat
          /\ SumUpTo(x.parts, x.mat + 1) = SumUpTo(x.parts, x.mat) + x.parts[x.mat + 1]
          /\ SumUpTo(x.parts, x.mat + 1) <= RowsOf(x.batch)
          /\ x.batch \in Nat \ {0} /\ RowsOf(x.batch) \in Nat
<1>1. /\ x \in Item /\ ItemOK(x) /\ Linked(x) /\ x.mat < Len(x.ids) /\ stack # <<>>
      /\ x.ids[x.mat + 1] = stack[1].id
  BY DEF NextPart
<1>2. /\ x.mat \in Nat /\ Len(x.ids) \in Nat /\ x.batch \in Nat \ {0} /\ x.ids \in Seq(Nat)
      /\ x.parts \in Seq(Nat \ {0}) /\ Len(x.parts) \in Nat
  BY <1>1, LenIs DEF Item
<1>3. Len(x.ids) <= Len(x.parts) /\ x.parts = PartsOf(RowsOf(x.batch))
  BY <1>1 DEF ItemOK
<1> DEFINE k == x.mat + 1
<1>4. k \in 1..Len(x.ids) /\ k > x.mat /\ k \in 1..Len(x.parts) /\ k - 1 = x.mat /\ k \in Nat
  <2> DEFINE m == x.mat
             l == Len(x.ids)
             p == Len(x.parts)
  <2>1. m \in Nat /\ l \in Nat /\ p \in Nat /\ m < l /\ l <= p
    BY <1>1, <1>2, <1>3
  <2> HIDE DEF m, l, p
  <2>2. k = m + 1
    BY DEF m
  <2> HIDE DEF k
  <2>3. k \in 1..l /\ k > m /\ k \in 1..p /\ k - 1 = m /\ k \in Nat
    BY <2>1, <2>2
  <2> QED BY <2>3 DEF m, l, p
<1>5. 1 \in 1..Len(stack) /\ Base \in Nat /\ Base + 1 - 1 = Base
  BY <1>1, InStack, LenIs DEF TypeOK
<1>6. stack[1].id = Base
  BY <1>5 DEF Numbering
<1>7. x.ids[k] = Base
  BY <1>1, <1>6
<1>8. x.ids[k] - Base + 1 = 1
  BY <1>5, <1>7
<1>9. /\ stack[x.ids[k] - Base + 1].batch = x.batch
      /\ stack[x.ids[k] - Base + 1].n = x.parts[k]
      /\ stack[x.ids[k] - Base + 1].first = SumUpTo(x.parts, k - 1)
  BY <1>1, <1>4 DEF Linked
<1>10. x.parts[k] \in Nat \ {0}
  BY <1>2, <1>4, ElementIs
<1>11. RowsOf(x.batch) \in Nat
  BY <1>2, BatchRows
<1>12. Base \in Unfetched(x)
  <2>1. k \in (x.mat + 1)..Len(x.ids)
    BY <1>2, <1>4
  <2> QED BY <1>7, <2>1, Zenon DEF Unfetched
<1>13. /\ SumUpTo(x.parts, x.mat) \in Nat
       /\ SumUpTo(x.parts, x.mat + 1) = SumUpTo(x.parts, x.mat) + x.parts[x.mat + 1]
  <2>1. x.mat <= Len(x.parts) /\ x.mat < Len(x.parts)
    BY <1>1, <1>2, <1>3
  <2> QED BY <1>2, <1>3, <2>1, PartSums
<1>14. SumUpTo(x.parts, x.mat + 1) <= RowsOf(x.batch)
  <2>1. k <= Len(x.parts)
    BY <1>4
  <2> QED BY <1>2, <1>3, <1>4, <2>1, PartSums
<1> HIDE DEF k
<1>15. x.mat + 1 <= Len(x.ids) /\ x.mat + 1 <= Len(x.parts)
  BY <1>4 DEF k
<1> QED BY <1>2, <1>4, <1>5, <1>7, <1>8, <1>9, <1>10, <1>11, <1>12, <1>13, <1>14, <1>15 DEF k

\* x with its next part fetched.
PartOf(y, x) ==
    /\ y \in Item /\ Keeps(y, x) /\ y.mat = x.mat + 1 /\ y.used <= y.mat
    /\ cfg.mode = "split" =>
         /\ Len(y.rows) = Len(x.rows)
         /\ \A r \in 1..Len(x.rows) :
              y.rows[r] = IF r \in (SumUpTo(x.parts, x.mat) + 1)
                                      ..(SumUpTo(x.parts, x.mat) + x.parts[x.mat + 1])
                          THEN <<stack[1].batch, stack[1].first + (r - SumUpTo(x.parts, x.mat))>>
                          ELSE x.rows[r]
    /\ cfg.mode = "cids" =>
         /\ Len(y.rows) = Len(x.rows) + stack[1].n
         /\ \A r \in 1..Len(y.rows) :
              y.rows[r] = IF r <= Len(x.rows) THEN x.rows[r]
                          ELSE <<stack[1].batch, stack[1].first + (r - Len(x.rows))>>

LEMMA PartFetched ==
    ASSUME TypeOK, Numbering, NEW x, NextPart(x), NEW y, PartOf(y, x)
    PROVE /\ ItemOK(y) /\ RowsOK(y) /\ Linked(y) /\ Sound(y)
          /\ \A id : id \in Unfetched(y) <=> id \in Unfetched(x) /\ id # Base
<1>1. /\ x \in Item /\ ItemOK(x) /\ RowsOK(x) /\ Linked(x) /\ cfg.mode \in InParts
  BY DEF NextPart
<1>2. y \in Item /\ y.batch = x.batch /\ y.parts = x.parts /\ y.ids = x.ids
      /\ y.mat = x.mat + 1 /\ y.used <= y.mat
  BY DEF PartOf, Keeps
<1>3. /\ 1 \in 1..Len(stack) /\ x.ids[x.mat + 1] = Base /\ Base \in Unfetched(x)
      /\ stack[1].batch = x.batch /\ stack[1].n = x.parts[x.mat + 1]
      /\ stack[1].first = SumUpTo(x.parts, x.mat)
      /\ x.mat \in Nat /\ x.mat + 1 <= Len(x.ids) /\ x.mat + 1 <= Len(x.parts)
      /\ x.parts[x.mat + 1] \in Nat \ {0} /\ SumUpTo(x.parts, x.mat) \in Nat
      /\ SumUpTo(x.parts, x.mat + 1) = SumUpTo(x.parts, x.mat) + x.parts[x.mat + 1]
      /\ SumUpTo(x.parts, x.mat + 1) <= RowsOf(x.batch)
      /\ x.batch \in Nat \ {0} /\ RowsOf(x.batch) \in Nat
  BY NextPartIs
<1>4. x.ids \in Seq(Nat) /\ Len(x.ids) \in Nat /\ x.rows \in Seq(Nat \X Nat) /\ Len(x.rows) \in Nat
  BY <1>1, LenIs DEF Item
<1>5. ItemOK(y)
  BY <1>1, <1>2, <1>3 DEF ItemOK
<1>6. Linked(y)
  <2>1. \A k \in 1..Len(x.ids) : k > y.mat => k > x.mat
    BY <1>2, <1>3
  <2> QED BY <1>1, <1>2, <2>1 DEF Linked
<1>7. RowsOK(y)
  <2> DEFINE f == SumUpTo(x.parts, x.mat)
             n == x.parts[x.mat + 1]
  <2>1. f \in Nat /\ n \in Nat \ {0} /\ SumUpTo(x.parts, x.mat + 1) = f + n
        /\ stack[1].batch = x.batch /\ stack[1].first = f /\ stack[1].n = n
    BY <1>3
  <2>2. \A r \in 1..f : x.rows[r] = <<x.batch, r>>
    BY <1>1 DEF RowsOK
  <2>3. SumUpTo(y.parts, y.mat) = f + n
    BY <1>2, <2>1
  <2>4. CASE cfg.mode = "split"
    <3>1. Len(x.rows) = RowsOf(x.batch) /\ f + n <= RowsOf(x.batch)
      BY <1>1, <1>3, <2>4 DEF RowsOK
    <3>2. Len(y.rows) = Len(x.rows)
      BY <2>4 DEF PartOf
    <3>3. \A r \in 1..Len(x.rows) :
              y.rows[r] = IF r \in (f + 1)..(f + n)
                          THEN <<stack[1].batch, stack[1].first + (r - f)>> ELSE x.rows[r]
      BY <2>4 DEF PartOf
    <3> HIDE DEF f, n
    <3>4. ASSUME NEW r \in 1..(f + n) PROVE y.rows[r] = <<x.batch, r>>
      <4>1. r \in 1..Len(x.rows)
        BY <1>3, <2>1, <3>1
      <4>2. CASE r \in 1..f
        <5>1. r \notin (f + 1)..(f + n)
          BY <2>1, <4>2
        <5> QED BY <2>2, <3>3, <4>1, <4>2, <5>1
      <4>3. CASE r \in (f + 1)..(f + n)
        <5>1. f + (r - f) = r
          BY <2>1, <4>3
        <5> QED BY <2>1, <3>3, <4>1, <4>3, <5>1
      <4> QED BY <2>1, <4>2, <4>3
    <3> QED BY <1>2, <2>3, <2>4, <3>1, <3>2, <3>4 DEF RowsOK
  <2>5. CASE cfg.mode = "cids"
    <3>1. Len(x.rows) = f
      BY <1>1, <2>5 DEF RowsOK
    <3>2. Len(y.rows) = f + n
      BY <2>1, <2>5, <3>1 DEF PartOf
    <3>3. \A r \in 1..Len(y.rows) :
              y.rows[r] = IF r <= Len(x.rows) THEN x.rows[r]
                          ELSE <<stack[1].batch, stack[1].first + (r - Len(x.rows))>>
      BY <2>5 DEF PartOf
    <3> HIDE DEF f, n
    <3>4. ASSUME NEW r \in 1..(f + n) PROVE y.rows[r] = <<x.batch, r>>
      <4>2. CASE r <= f
        <5>1. r \in 1..f
          BY <2>1, <4>2
        <5> QED BY <2>2, <3>1, <3>2, <3>3, <4>2, <5>1
      <4>3. CASE ~(r <= f)
        <5>1. f + (r - f) = r
          BY <2>1
        <5> QED BY <2>1, <3>1, <3>2, <3>3, <4>3, <5>1
      <4> QED BY <4>2, <4>3
    <3> QED BY <1>2, <2>3, <2>5, <3>2, <3>4 DEF RowsOK
  <2> QED BY <1>1, <2>4, <2>5 DEF InParts
<1>8. \A id : id \in Unfetched(y) <=> id \in Unfetched(x) /\ id # Base
  <2> DEFINE A == (x.mat + 2)..Len(x.ids)
             k == x.mat + 1
  <2>1. /\ (x.mat + 1)..Len(x.ids) = A \cup {k} /\ (y.mat + 1)..Len(y.ids) = A
        /\ \A j \in A : j \in 1..Len(x.ids) /\ k < j /\ k \in 1..Len(x.ids)
    <3> DEFINE m == x.mat
               l == Len(x.ids)
    <3>1. m \in Nat /\ l \in Nat /\ m + 1 <= l /\ y.mat = m + 1 /\ Len(y.ids) = l
      BY <1>2, <1>3, <1>4
    <3> HIDE DEF m, l
    <3>2. /\ (m + 1)..l = (m + 2)..l \cup {m + 1} /\ (y.mat + 1)..Len(y.ids) = (m + 2)..l
          /\ \A j \in (m + 2)..l : j \in 1..l /\ m + 1 < j /\ m + 1 \in 1..l
      BY <3>1
    <3> QED BY <3>2 DEF m, l
  <2>2. \A j \in A : x.ids[j] # x.ids[k]
    <3>1. \A i, j \in 1..Len(x.ids) : i < j => x.ids[i] < x.ids[j]
      BY <1>1 DEF ItemOK
    <3>2. \A j \in 1..Len(x.ids) : x.ids[j] \in Nat
      BY <1>4
    <3> SUFFICES ASSUME NEW j \in A PROVE x.ids[j] # x.ids[k]
      OBVIOUS
    <3> HIDE DEF A, k
    <3>3. x.ids[k] < x.ids[j] /\ x.ids[k] \in Nat /\ x.ids[j] \in Nat
      BY <2>1, <3>1, <3>2
    <3> QED BY <3>3
  <2>3. x.ids[k] = Base
    BY <1>3
  <2> HIDE DEF A, k
  <2>4. /\ Unfetched(y) = {x.ids[j] : j \in A}
        /\ Unfetched(x) = {x.ids[j] : j \in A \cup {k}}
    BY <1>2, <2>1, Zenon DEF Unfetched
  <2> QED BY <2>2, <2>3, <2>4
<1>9. Sound(y)
  BY <1>2, <1>5, <1>6, <1>7, <1>8 DEF Sound
<1> QED BY <1>5, <1>6, <1>7, <1>8, <1>9

\* A request belongs to one item.
LEMMA UnfetchedIs ==
    ASSUME NEW x \in Item, NEW id, id \in Unfetched(x)
    PROVE \E k \in 1..Len(x.ids) : id = x.ids[k] /\ x.ids[k] \in Nat
<1>1. PICK k \in (x.mat + 1)..Len(x.ids) : id = x.ids[k]
  BY DEF Unfetched
<1>2. x.mat \in Nat /\ x.ids \in Seq(Nat) /\ Len(x.ids) \in Nat
  BY LenIs DEF Item
<1>3. k \in 1..Len(x.ids)
  BY <1>2
<1> QED BY <1>1, <1>2, <1>3

LEMMA OneOwner ==
    ASSUME TypeOK, Items, Order, NEW j \in 1..Len(it.queue), NEW id, id \in Unfetched(it.queue[j])
    PROVE /\ \A i \in 1..Len(it.queue) : i # j => id \notin Unfetched(it.queue[i])
          /\ \A i \in 1..Len(it.hand) : id \notin Unfetched(it.hand[i])
<1>1. it.queue \in Seq(Item) /\ it.hand \in Seq(Item)
  BY DEF TypeOK, Iterator
<1>2. it.queue[j] \in Item
  BY <1>1
<1>3. PICK b \in 1..Len(it.queue[j].ids) : id = it.queue[j].ids[b] /\ id \in Nat
  BY <1>2, UnfetchedIs
<1>4. ASSUME NEW i \in 1..Len(it.queue), i # j, id \in Unfetched(it.queue[i]) PROVE FALSE
  <2>1. it.queue[i] \in Item
    BY <1>1
  <2>2. PICK a \in 1..Len(it.queue[i].ids) : id = it.queue[i].ids[a]
    BY <1>4, <2>1, UnfetchedIs
  <2>3. i < j => it.queue[i].ids[a] < it.queue[j].ids[b]
    BY DEF Order
  <2>4. j < i => it.queue[j].ids[b] < it.queue[i].ids[a]
    BY DEF Order
  <2>5. i < j \/ j < i
    BY <1>4
  <2> QED BY <1>3, <2>2, <2>3, <2>4, <2>5
<1>5. ASSUME NEW i \in 1..Len(it.hand), id \in Unfetched(it.hand[i]) PROVE FALSE
  <2>1. it.hand[i] \in Item
    BY <1>1
  <2>2. PICK a \in 1..Len(it.hand[i].ids) : id = it.hand[i].ids[a]
    BY <1>5, <2>1, UnfetchedIs
  <2>3. it.hand[i].ids[a] < it.queue[j].ids[b]
    BY DEF Order
  <2> QED BY <1>3, <2>2, <2>3
<1> QED BY <1>4, <1>5

LEMMA QueueFetched ==
    ASSUME TypeOK, Numbering, QueueInv, TypeOK', Moved(0), Popped, cfg.mode \in InParts,
           ~stale => StillWanted,
           cfg.mode \in Budgeted =>
             /\ Wanted(Base) /\ \A id \in Nat : WantedNext(id) <=> Wanted(id) /\ id # Base
             /\ it'.ios = IF it.ios < stack[1].n THEN 0 ELSE it.ios - stack[1].n,
           cfg.mode \notin Budgeted => it'.ios = it.ios
    PROVE QueueInv' /\ Numbering'
<1>1. Items /\ Order /\ Link /\ Cover /\ Ios /\ cfg.mode \notin OnePart /\ cfg.mode \in Registered
  BY DEF QueueInv, InParts, Queued, Prefetched, OnePart, Registered
<1>2. cfg' = cfg /\ stale' = stale /\ nextId' = nextId
  BY DEF Moved
<1>4. Items' /\ Order' /\ Link' /\ Numbering'
  BY <1>1, MovedItems, MovedOrder, MovedLink
<1>5. Cover'
  BY <1>1, <1>2, MovedCover
<1>6. Ios'
  <2>1. CASE cfg.mode \in Budgeted
    BY <1>1, <1>2, <1>4, <2>1, IosFetched
  <2>2. CASE cfg.mode \notin Budgeted
    BY <1>1, <1>2, <2>2 DEF Ios
  <2> QED BY <2>1, <2>2
<1>7. Polled' /\ Fetched1'
  BY <1>1, <1>2 DEF Polled, Fetched1
<1> QED BY <1>2, <1>4, <1>5, <1>6, <1>7 DEF QueueInv

\* _materialize_split_micro
FetchedInto(i, y) ==
    /\ cfg.mode = "split" /\ i \in 1..Len(it.queue)
    /\ NextPart(it.queue[i]) /\ PartOf(y, it.queue[i])
    /\ it'.queue = [it.queue EXCEPT ![i] = y] /\ it'.hand = it.hand /\ it'.current = it.current
    /\ it'.ios = IF it.ios < stack[1].n THEN 0 ELSE it.ios - stack[1].n
    /\ stack' = Tail(stack) /\ nextId' = nextId /\ cfg' = cfg /\ stale' = stale

LEMMA QueueFetchedInto ==
    ASSUME TypeOK, Numbering, QueueInv, TypeOK', NEW i, NEW y, FetchedInto(i, y)
    PROVE QueueInv' /\ Numbering'
<1>1. Items /\ Order /\ Link /\ Cover /\ Ios /\ cfg.mode = "split"
  BY DEF QueueInv, FetchedInto, Queued, Prefetched
<1>2. /\ it.queue \in Seq(Item) /\ it.hand \in Seq(Item) /\ it.current \in Seq(Item)
      /\ Len(it.queue) \in Nat
  BY LenIs DEF TypeOK, Iterator
<1>3. /\ i \in 1..Len(it.queue) /\ NextPart(it.queue[i]) /\ PartOf(y, it.queue[i])
      /\ it'.queue = [it.queue EXCEPT ![i] = y]
      /\ it'.hand = it.hand /\ it'.current = it.current
      /\ it'.ios = IF it.ios < stack[1].n THEN 0 ELSE it.ios - stack[1].n
      /\ stack' = Tail(stack) /\ nextId' = nextId /\ cfg' = cfg /\ stale' = stale
  BY DEF FetchedInto
<1>4. y \in Item /\ Keeps(y, it.queue[i]) /\ Popped
  BY <1>3 DEF PartOf, NextPart, Popped
<1>5. /\ it'.queue \in Seq(Item) /\ Len(it'.queue) = Len(it.queue)
      /\ \A j \in 1..Len(it.queue) : it'.queue[j] = IF j = i THEN y ELSE it.queue[j]
  BY <1>2, <1>3, <1>4
<1>6. /\ Sound(y) /\ Base \in Unfetched(it.queue[i])
      /\ \A id : id \in Unfetched(y) <=> id \in Unfetched(it.queue[i]) /\ id # Base
  BY <1>3, PartFetched, NextPartIs
<1>7. ASSUME NEW j \in 1..Len(it'.queue)
      PROVE /\ Keeps(it'.queue[j], it.queue[j + 0]) /\ Sound(it'.queue[j])
            /\ \A id : id \in Unfetched(it'.queue[j]) <=> id \in Unfetched(it.queue[j]) /\ id # Base
  <2>0. j + 0 = j /\ j \in 1..Len(it.queue)
    BY <1>5
  <2>1. CASE j = i
    BY <1>4, <1>5, <1>6, <2>0, <2>1
  <2>2. CASE j # i
    <3>1. it'.queue[j] = it.queue[j]
      BY <1>5, <2>0, <2>2
    <3>2. it.queue[j] \in Item /\ ItemOK(it.queue[j]) /\ RowsOK(it.queue[j]) /\ Linked(it.queue[j])
      BY <1>1, <1>2, <2>0 DEF Items, Link, Registered
    <3>3. Base \notin Unfetched(it.queue[j])
      BY <1>1, <1>3, <1>6, <2>0, <2>2, OneOwner
    <3>4. Sound(it.queue[j])
      BY <3>2, <3>3 DEF Sound
    <3> QED BY <2>0, <3>1, <3>3, <3>4 DEF Keeps
  <2> QED BY <2>1, <2>2
<1>8. ASSUME NEW j \in 1..Len(it'.hand)
      PROVE /\ j \in 1..Len(it.hand) /\ Keeps(it'.hand[j], it.hand[j])
            /\ Sound(it'.hand[j]) /\ Full(it'.hand[j])
            /\ it'.hand[j].mat = Len(it'.hand[j].ids)
  BY <1>1, <1>3, SoundHand DEF Keeps
<1>9. ASSUME NEW j \in 1..Len(it'.current)
      PROVE /\ j \in 1..Len(it.current) /\ Keeps(it'.current[j], it.current[j])
            /\ ItemOK(it'.current[j]) /\ Full(it'.current[j])
            /\ it'.current[j].mat = Len(it'.current[j].ids)
  BY <1>1, <1>3 DEF Keeps, Items
<1>10. Moved(0)
  <2>1. 0 \in {0, 1} /\ 0 <= Len(it.queue) /\ Len(it'.queue) = Len(it.queue) - 0
    BY <1>2, <1>5
  <2> QED BY <1>1, <1>2, <1>3, <1>4, <1>5, <1>7, <1>8, <1>9, <2>1 DEF Moved
<1>11. \A id : WantedNext(id) <=> Wanted(id) /\ id # Base
  BY <1>5, <1>7 DEF WantedNext, Wanted
<1>12. Wanted(Base)
  BY <1>3, <1>6 DEF Wanted
<1>13. StillWanted
  BY <1>3, <1>4, <1>11, Zenon DEF StillWanted, WantedNext, Wanted
<1>14. cfg.mode \in InParts /\ cfg.mode \in Budgeted
  BY <1>1 DEF InParts, Budgeted
<1> QED BY <1>3, <1>4, <1>10, <1>11, <1>12, <1>13, <1>14, QueueFetched

\* _merge_return_batches
Merged(y) ==
    /\ cfg.mode = "cids" /\ Len(it.hand) = 1
    /\ NextPart(it.hand[1]) /\ PartOf(y, it.hand[1])
    /\ it'.hand = [it.hand EXCEPT ![1] = y] /\ it'.queue = it.queue /\ it'.current = it.current
    /\ it'.ios = it.ios
    /\ stack' = Tail(stack) /\ nextId' = nextId /\ cfg' = cfg /\ stale' = stale

LEMMA QueueMerged ==
    ASSUME TypeOK, Numbering, QueueInv, TypeOK', NEW y, Merged(y)
    PROVE QueueInv' /\ Numbering'
<1>1. Items /\ Order /\ Link /\ Cover /\ Ios /\ cfg.mode = "cids"
  BY DEF QueueInv, Merged, Queued, Prefetched
<1>2. /\ it.queue \in Seq(Item) /\ it.hand \in Seq(Item) /\ it.current \in Seq(Item)
      /\ Len(it.queue) \in Nat
  BY LenIs DEF TypeOK, Iterator
<1>3. /\ Len(it.hand) = 1 /\ NextPart(it.hand[1]) /\ PartOf(y, it.hand[1])
      /\ it'.hand = [it.hand EXCEPT ![1] = y]
      /\ it'.queue = it.queue /\ it'.current = it.current /\ it'.ios = it.ios
      /\ stack' = Tail(stack) /\ nextId' = nextId /\ cfg' = cfg /\ stale' = stale
  BY DEF Merged
<1>4. y \in Item /\ Keeps(y, it.hand[1]) /\ Popped
  BY <1>3 DEF PartOf, NextPart, Popped
<1>5. it'.hand \in Seq(Item) /\ Len(it'.hand) = 1 /\ it'.hand[1] = y
  BY <1>2, <1>3, <1>4
<1>6. /\ Sound(y) /\ Base \in Unfetched(it.hand[1])
      /\ \A id : id \in Unfetched(y) <=> id \in Unfetched(it.hand[1]) /\ id # Base
  BY <1>3, PartFetched, NextPartIs
<1>7. ASSUME NEW j \in 1..Len(it'.queue)
      PROVE /\ Keeps(it'.queue[j], it.queue[j + 0]) /\ Sound(it'.queue[j])
            /\ it'.queue[j].mat = 0
  <2>0. j + 0 = j /\ j \in 1..Len(it.queue) /\ it'.queue[j] = it.queue[j]
    BY <1>3
  <2>2. /\ it.queue[j] \in Item /\ ItemOK(it.queue[j]) /\ RowsOK(it.queue[j]) /\ Linked(it.queue[j])
        /\ it.queue[j].mat = 0
    BY <1>1, <1>2, <2>0 DEF Items, Link, Registered
  <2>3. Base \notin Unfetched(it.queue[j])
    <3>1. 1 \in 1..Len(it.hand)
      BY <1>3
    <3> QED BY <1>1, <1>6, <2>0, <3>1, OneOwner
  <2> QED BY <2>0, <2>2, <2>3 DEF Keeps, Sound
<1>8. ASSUME NEW j \in 1..Len(it'.hand)
      PROVE /\ j \in 1..Len(it.hand) /\ Keeps(it'.hand[j], it.hand[j])
            /\ Sound(it'.hand[j]) /\ Full(it'.hand[j])
  <2>1. j = 1 /\ j \in 1..Len(it.hand)
    BY <1>3, <1>5
  <2>2. Full(it.hand[1])
    BY <1>1, <2>1 DEF Items
  <2> QED BY <1>4, <1>5, <1>6, <2>1, <2>2 DEF Full, Keeps
<1>9. ASSUME NEW j \in 1..Len(it'.current)
      PROVE /\ j \in 1..Len(it.current) /\ Keeps(it'.current[j], it.current[j])
            /\ ItemOK(it'.current[j]) /\ Full(it'.current[j])
            /\ it'.current[j].mat = Len(it'.current[j].ids)
  BY <1>1, <1>3 DEF Keeps, Items
<1>10. Moved(0)
  <2>1. 0 \in {0, 1} /\ 0 <= Len(it.queue) /\ Len(it'.queue) = Len(it.queue) - 0
    BY <1>2, <1>3
  <2> QED BY <1>1, <1>2, <1>3, <1>4, <1>5, <1>7, <1>8, <1>9, <2>1 DEF Moved
<1>13. StillWanted
  <2>1. 1 \in 1..Len(it'.hand) /\ \A j \in 1..Len(it.hand) : j = 1
    BY <1>3, <1>5
  <2>2. \A id : id \in Unfetched(it.hand[1]) => id \in Unfetched(it'.hand[1]) \/ id = Base
    BY <1>5, <1>6, Zenon
  <2> QED BY <1>3, <1>4, <2>1, <2>2, Zenon DEF StillWanted
<1>14. cfg.mode \in InParts /\ cfg.mode \notin Budgeted
  BY <1>1 DEF InParts, Budgeted
<1> QED BY <1>3, <1>4, <1>10, <1>13, <1>14, QueueFetched

(***************************************************************************)
(* What the iterators with a prefetch_queue share                          *)
(***************************************************************************)
LEMMA QueuedFacts ==
    ASSUME LoaderInv, cfg.mode \in Queued
    PROVE /\ TypeOK /\ Numbering /\ QueueInv /\ PrefetchInv /\ PipelineInv /\ ReturnsOwn
          /\ it \in Iterator /\ smp \in SamplerThread /\ drawn \in Nat /\ due \in Seq(Nat \ {0})
          /\ stack \in Seq(Outstanding) /\ nextId \in Nat /\ epoch \in Nat
          /\ Items /\ Order /\ Link /\ Cover /\ Ios /\ Polled /\ Fetched1
<1>1. TypeOK /\ Numbering /\ QueueInv /\ PrefetchInv /\ PipelineInv /\ ReturnsOwn
  BY Zenon DEF LoaderInv
<1>2. Items /\ Order /\ Link /\ Cover /\ Ios /\ Polled /\ Fetched1
  BY <1>1 DEF QueueInv
<1> QED BY <1>1, <1>2 DEF TypeOK

LEMMA QueuedNext ==
    ASSUME cfg' = cfg, cfg.mode \in Queued, TypeOK', Numbering', QueueInv', PrefetchInv',
           PipelineInv', ReturnsOwn'
    PROVE LoaderInv'
<1>1. ~(cfg.mode \in Synchronous)'
  BY DEF Synchronous, Queued, Prefetched
<1> QED BY <1>1, Zenon DEF LoaderInv, SyncInv

\* A step that only moves on in the program.
LEMMA GotoIs ==
    ASSUME it \in Iterator, NEW t \in Seq(StepNames), Goto(t)
    PROVE /\ it' \in Iterator /\ it'.todo = t
          /\ it'.queue = it.queue /\ it'.pend = it.pend /\ it'.current = it.current
          /\ it'.hand = it.hand /\ it'.exhausted = it.exhausted /\ it'.ios = it.ios
          /\ it'.out = it.out
  BY DEF Goto, Iterator

LEMMA StackSame ==
    ASSUME TypeOK, Numbering, stack' = stack PROVE SameRequests
  BY DEF SameRequests, Numbering

\* The SSDs answer: a flag is set.
LEMMA Answered ==
    ASSUME TypeOK, Numbering, Complete
    PROVE /\ SameRequests /\ stack' \in Seq(Outstanding)
          /\ \A j \in 1..Len(stack) : stack'[j].ready = stack[j].ready
<1>1. stack \in Seq(Outstanding) /\ DOMAIN stack = 1..Len(stack)
  BY DEF TypeOK
<1>2. PICK i \in 1..Len(stack) : stack' = [stack EXCEPT ![i].done = TRUE]
  BY <1>1 DEF Complete
<1>3. stack[i] \in Outstanding
  BY <1>1
<1> DEFINE y == [stack[i] EXCEPT !.done = TRUE]
<1>4. /\ y \in Outstanding /\ y.id = stack[i].id /\ y.batch = stack[i].batch
      /\ y.n = stack[i].n /\ y.first = stack[i].first /\ y.ready = stack[i].ready
      /\ y.done = TRUE
  BY <1>3 DEF Outstanding
<1>5. stack' = [stack EXCEPT ![i] = y]
  BY <1>2
<1> HIDE DEF y
<1>6. /\ stack' \in Seq(Outstanding) /\ Len(stack') = Len(stack)
      /\ \A j \in 1..Len(stack) : stack'[j] = IF j = i THEN y ELSE stack[j]
  BY <1>1, <1>4, <1>5
<1> QED BY <1>4, <1>6 DEF SameRequests, Numbering

\* try-polling the front and servicing the window behind it set flags too.
LEMMA TriedIs ==
    ASSUME TypeOK, Numbering, stack' = Tried(stack)
    PROVE /\ SameRequests /\ stack' \in Seq(Outstanding)
          /\ \A j \in 1..Len(stack) : stack[j].ready => stack'[j].ready
<1>1. stack \in Seq(Outstanding) /\ Len(stack) \in Nat
  BY InStack DEF TypeOK
<1>2. CASE stack # <<>> /\ stack[1].done
  <2>1. stack' = [stack EXCEPT ![1].ready = TRUE]
    BY <1>2 DEF Tried
  <2>2. 1 \in 1..Len(stack) /\ stack[1] \in Outstanding
    BY <1>1, <1>2
  <2> DEFINE y == [stack[1] EXCEPT !.ready = TRUE]
  <2>3. /\ y \in Outstanding /\ y.id = stack[1].id /\ y.batch = stack[1].batch
        /\ y.n = stack[1].n /\ y.first = stack[1].first /\ y.ready = TRUE
        /\ y.done = stack[1].done
    BY <2>2 DEF Outstanding
  <2>4. stack' = [stack EXCEPT ![1] = y]
    BY <2>1
  <2> HIDE DEF y
  <2>5. /\ stack' \in Seq(Outstanding) /\ Len(stack') = Len(stack)
        /\ \A j \in 1..Len(stack) : stack'[j] = IF j = 1 THEN y ELSE stack[j]
    <3>1. y \in Outstanding
      BY <2>3
    <3> QED BY <1>1, <2>2, <2>4, <3>1
  <2> QED BY <1>2, <2>3, <2>5 DEF SameRequests, Numbering
<1>3. CASE ~(stack # <<>> /\ stack[1].done)
  <2>1. stack' = stack
    BY <1>3 DEF Tried
  <2> QED BY <1>1, <2>1, StackSame
<1> QED BY <1>2, <1>3

\* A new iterator has no requests; those of the old one make it stale.
Renewed ==
    /\ it'.queue = <<>> /\ it'.hand = <<>> /\ it'.current = <<>> /\ it'.ios = 0
    /\ stack' = stack /\ nextId' = nextId /\ cfg' = cfg
    /\ stale' = (stale \/ stack # <<>>)

LEMMA QueueRenewed ==
    ASSUME TypeOK, Numbering, QueueInv, Renewed
    PROVE QueueInv' /\ Numbering'
<1>1. /\ it'.queue = <<>> /\ it'.hand = <<>> /\ it'.current = <<>> /\ it'.ios = 0
      /\ stack' = stack /\ nextId' = nextId /\ cfg' = cfg
      /\ stale' = (stale \/ stack # <<>>)
  BY DEF Renewed
<1>2. Len(it'.queue) = 0 /\ Len(it'.hand) = 0 /\ Len(it'.current) = 0 /\ 1..0 = {}
  BY <1>1
<1>n. /\ \A i \in 1..Len(it'.queue) : FALSE
      /\ \A i \in 1..Len(it'.hand) : FALSE
      /\ \A i \in 1..Len(it'.current) : FALSE
  BY <1>2
<1>3. Items' /\ Order' /\ Polled' /\ Fetched1'
  BY <1>n DEF Items, Order, Polled, Fetched1
<1>4. Link'
  BY <1>1, <1>2, <1>n, InStack DEF Link
<1>5. Cover'
  <2>1. ~stale' => Len(stack') = 0
    BY <1>1
  <2>2. ~stale' => \A j \in 1..Len(stack') : FALSE
    BY <2>1
  <2> QED BY <2>2 DEF Cover
<1>6. Ios'
  <2>1. PendingRows' = {}
    BY <1>n, PendingInNext, Zenon
  <2>2. IsFiniteSet(PendingRows') /\ Cardinality(PendingRows') = 0
    BY <2>1, FS_EmptySet
  <2>3. cfg.budget \in Nat
    <3>1. cfg.budget \in Budgets
      BY DEF TypeOK, Config
    <3> QED BY <3>1, LoaderAssumption
  <2>4. it'.ios <= cfg.budget
    BY <1>1, <2>3
  <2> QED BY <1>1, <2>2, <2>4 DEF Ios
<1>7. Numbering'
  BY <1>1 DEF Numbering, Base
<1> QED BY <1>3, <1>4, <1>5, <1>6, <1>7 DEF QueueInv
=============================================================================
