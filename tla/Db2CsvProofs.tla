---------------------------- MODULE Db2CsvProofs ----------------------------
(***************************************************************************)
(* Proofs about Db2Csv, for any number of loggers and of exporters.        *)
(***************************************************************************)
EXTENDS Db2Csv, DbStoreProofs, FunctionTheorems

-----------------------------------------------------------------------------
\* Counting.

\* What is matched one to one is equally many.
LEMMA SameCardinality ==
  ASSUME NEW A, NEW B, IsFiniteSet(A), NEW f \in [A -> B],
         \A a, b \in A : f[a] = f[b] => a = b,
         \A b \in B : \E a \in A : f[a] = b
  PROVE  IsFiniteSet(B) /\ Cardinality(A) = Cardinality(B)
<1>1. f \in Bijection(A, B)
  BY Fun_IsBij
<1>2. ExistsBijection(A, B)
  BY <1>1 DEF ExistsBijection
<1> QED
  BY <1>2, FS_Bijection

Where(s, x) == {i \in DOMAIN s : s[i] = x}

LEMMA CountIs ==
  ASSUME NEW S, NEW s \in Seq(S), NEW x
  PROVE  /\ Count(s, x) = Cardinality(Where(s, x))
         /\ IsFiniteSet(Where(s, x))
         /\ Where(s, x) \subseteq 1 .. Len(s)
         /\ Count(s, x) \in Nat
<1>1. Len(s) \in Nat /\ Where(s, x) \subseteq 1 .. Len(s)
  BY DEF Where
<1>2. IsFiniteSet(1 .. Len(s))
  BY <1>1, FS_Interval
<1>3. IsFiniteSet(Where(s, x))
  BY <1>1, <1>2, FS_Subset
<1>4. Count(s, x) = Cardinality(Where(s, x))
  BY DEF Count, Where
<1> QED
  BY <1>1, <1>3, <1>4, FS_CardinalityType

LEMMA CountOfNone == ASSUME NEW x PROVE Count(<<>>, x) = 0
<1>1. {i \in DOMAIN <<>> : <<>>[i] = x} = {}
  OBVIOUS
<1> QED
  BY <1>1, FS_EmptySet DEF Count

\* The elements of two sequences are in their concatenation.
LEMMA CountOfConcat ==
  ASSUME NEW S, NEW s \in Seq(S), NEW t \in Seq(S), NEW x
  PROVE  Count(s \o t, x) = Count(s, x) + Count(t, x)
<1> DEFINE n == Len(s)
           m == Len(t)
           A == Where(s, x)
           B == Where(t, x)
           C == {i \in n + 1 .. n + m : t[i - n] = x}
           f == [i \in B |-> i + n]
<1>1. /\ s \o t \in Seq(S)
      /\ Len(s \o t) = n + m
      /\ \A i \in 1 .. n + m : (s \o t)[i] = IF i <= n THEN s[i] ELSE t[i - n]
  BY ConcatProperties
<1>2. n \in Nat /\ m \in Nat /\ DOMAIN s = 1 .. n /\ DOMAIN t = 1 .. m
  OBVIOUS
<1>3. Where(s \o t, x) = A \cup C
  <2>1. DOMAIN (s \o t) = 1 .. n + m
    BY <1>1
  <2> DEFINE st == s \o t
  <2>2. /\ DOMAIN st = 1 .. n + m
        /\ \A i \in 1 .. n + m : st[i] = IF i <= n THEN s[i] ELSE t[i - n]
    BY <1>1, <2>1
  <2> HIDE DEF st, n, m
  <2>3. Where(st, x) = A \cup C
    BY <1>2, <2>2 DEF Where
  <2> QED
    BY <2>3 DEF st, n, m
<1> HIDE DEF n, m
<1>4. A \cap C = {}
  BY <1>2 DEF Where
<1>5. IsFiniteSet(A) /\ IsFiniteSet(B)
  BY CountIs
<1>6. IsFiniteSet(C) /\ Cardinality(B) = Cardinality(C)
  <2>1. f \in [B -> C]
    BY <1>2 DEF Where
  <2>2. \A a, b \in B : f[a] = f[b] => a = b
    BY <1>2 DEF Where
  <2>3. \A c \in C : c - n \in B /\ f[c - n] = c
    BY <1>2 DEF Where
  <2> HIDE DEF B, C, f
  <2>4. \A c \in C : \E b \in B : f[b] = c
    BY <2>3
  <2> QED
    BY <1>5, <2>1, <2>2, <2>4, SameCardinality
<1>7. Cardinality(A \cup C) = Cardinality(A) + Cardinality(C)
  <2> HIDE DEF A, C
  <2>1. Cardinality(A \cup C) = Cardinality(A) + Cardinality(C) - Cardinality(A \cap C)
    BY <1>5, <1>6, FS_Union
  <2>2. Cardinality(A \cap C) = 0
    BY <1>4, FS_EmptySet
  <2>3. Cardinality(A) \in Nat /\ Cardinality(C) \in Nat
    BY <1>5, <1>6, FS_CardinalityType
  <2> QED
    BY <2>1, <2>2, <2>3
<1>8. /\ Count(s, x) = Cardinality(A)
      /\ Count(t, x) = Cardinality(B)
      /\ Count(s \o t, x) = Cardinality(Where(s \o t, x))
  BY <1>1, CountIs
<1> QED
  BY <1>3, <1>6, <1>7, <1>8

\* A sequence that another one begins with has no more of anything.
LEMMA CountOfStart ==
  ASSUME NEW S, NEW s \in Seq(S), NEW t \in Seq(S), NEW x,
         \A k \in DOMAIN s : k \in DOMAIN t /\ t[k] = s[k]
  PROVE  Count(s, x) <= Count(t, x)
<1>1. Where(s, x) \subseteq Where(t, x)
  BY DEF Where
<1>2. IsFiniteSet(Where(t, x))
  BY CountIs
<1>3. Cardinality(Where(s, x)) <= Cardinality(Where(t, x))
  BY <1>1, <1>2, FS_Subset
<1> QED
  BY <1>3, CountIs

-----------------------------------------------------------------------------
\* What the loop of load_impl() makes of the selected rows.

\* The device at hand is that of the row, although the loop keeps it from the
\* row before when the id is the same: the first row for which it would not be
\* is neither the first one of a device nor one that follows.
LEMMA DevicesAreTheirs ==
  ASSUME NEW s, NEW n \in Nat, DOMAIN s = 1 .. n
  PROVE  Devices(s) = [k \in DOMAIN s |-> deviceTable[readingTable[s[k]].deviceId]]
<1> DEFINE row == [k \in DOMAIN s |-> readingTable[s[k]]]
           own == [k \in DOMAIN s |-> deviceTable[row[k].deviceId]]
           Rec(f) == [k \in DOMAIN s |->
                        IF k > 1 /\ row[k].deviceId = row[k - 1].deviceId
                        THEN f[k - 1]
                        ELSE deviceTable[row[k].deviceId]]
           dev == CHOOSE f : f = Rec(f)
<1>1. Devices(s) = dev
  BY DEF Devices
<1>2. own = Rec(own)
  <2>1. \A k \in DOMAIN s : k > 1 => k - 1 \in DOMAIN s
    OBVIOUS
  <2> QED
    BY <2>1
<1>3. dev = Rec(dev)
  BY <1>2
<1>4. ASSUME NEW f, f = Rec(f) PROVE f = own
  <2> DEFINE Bad == {k \in 1 .. n : f[k] # own[k]}
  <2>1. f = [k \in DOMAIN s |-> f[k]]
    BY <1>4
  <2> SUFFICES ASSUME Bad # {} PROVE FALSE
    BY <2>1
  <2>2. Bad \in SUBSET Nat
    OBVIOUS
  <2>3. PICK k \in Bad : \A m \in Bad : k <= m
    <3> HIDE DEF Bad
    <3> QED
      BY <2>2, LeastNumber
  <2>4. k \in 1 .. n
    OBVIOUS
  <2>5. CASE k > 1 /\ row[k].deviceId = row[k - 1].deviceId
    <3>1. k - 1 \in 1 .. n /\ k - 1 \notin Bad
      BY <2>3, <2>4, <2>5
    <3>2. f[k - 1] = own[k - 1]
      BY <3>1
    <3>3. f[k] = f[k - 1]
      BY <1>4, <2>4, <2>5
    <3>4. own[k - 1] = own[k]
      BY <2>4, <2>5, <3>1
    <3> QED
      BY <3>2, <3>3, <3>4
  <2>6. CASE ~(k > 1 /\ row[k].deviceId = row[k - 1].deviceId)
    <3>1. f[k] = own[k]
      BY <1>4, <2>4, <2>6
    <3> QED
      BY <3>1
  <2> QED
    BY <2>5, <2>6
<1>5. dev = own
  <2> HIDE DEF dev, Rec, own
  <2> QED
    BY <1>3, <1>4
<1> QED
  BY <1>1, <1>5

\* The readings that load_impl() returns for the rows s.
Returned(s) ==
  [k \in DOMAIN s |-> [dev  |-> Devices(s)[k],
                       type |-> readingTable[s[k]].type,
                       time |-> readingTable[s[k]].date]]

\* They are the readings of the join, each once, of the type asked for.
LEMMA ReturnedAreJoined ==
  ASSUME DbInv, NEW t, NEW s \in SelectedRows(t)
  PROVE  /\ Returned(s) \in Seq(Reading)
         /\ \A k \in DOMAIN Returned(s) : Returned(s)[k].type = t
         /\ \A x : Count(Returned(s), x) = IF x.type = t THEN Count(Joined, x) ELSE 0
<1> DEFINE rows == {k \in DOMAIN readingTable :
                      /\ readingTable[k].type = t
                      /\ readingTable[k].deviceId \in DOMAIN deviceTable}
           n == Cardinality(rows)
           d == Returned(s)
<1>1. Joined \in Seq(Reading) /\ DOMAIN Joined = DOMAIN readingTable
  BY JoinedReadings DEF Joined
<1>2. readingTable \in Seq(ReadingRow) /\ Len(readingTable) \in Nat
  BY DEF DbInv, TypeInv, TypeOK
<1>3. rows = {k \in DOMAIN readingTable : readingTable[k].type = t}
  BY DEF DbInv, ReadingsResolve
<1>4. IsFiniteSet(rows) /\ n \in Nat
  <2>1. rows \subseteq 1 .. Len(readingTable)
    BY <1>2
  <2>2. IsFiniteSet(1 .. Len(readingTable))
    BY <1>2, FS_Interval
  <2> HIDE DEF rows
  <2>3. IsFiniteSet(rows)
    BY <2>1, <2>2, FS_Subset
  <2> QED
    BY <2>3, FS_CardinalityType
<1>5. s \in [1 .. n -> rows] /\ \A i, j \in 1 .. n : s[i] = s[j] => i = j
  <2>1. s \in SetToSeqs(rows)
    BY DEF SelectedRows
  <2> HIDE DEF rows
  <2> QED
    BY <2>1 DEF SetToSeqs
<1> HIDE DEF n, rows
<1>6. \A b \in rows : \E k \in 1 .. n : s[k] = b
  <2>1. s \in Injection(1 .. n, rows)
    BY <1>5, Fun_IsInj
  <2>2. Cardinality(1 .. n) = Cardinality(rows)
    <3>1. IsFiniteSet(1 .. n) /\ Cardinality(1 .. n) = n
      BY <1>4, FS_Interval
    <3> QED
      BY <3>1 DEF n
  <2>3. s \in Surjection(1 .. n, rows)
    BY <1>4, <2>1, <2>2, FS_Injection
  <2> QED
    BY <2>3 DEF Surjection
<1>7. \A k \in 1 .. n : d[k] = Joined[s[k]] /\ s[k] \in DOMAIN Joined /\ d[k].type = t
  <2>1. Devices(s) = [k \in DOMAIN s |-> deviceTable[readingTable[s[k]].deviceId]]
    BY <1>4, <1>5, DevicesAreTheirs
  <2>2. \A k \in 1 .. n : s[k] \in DOMAIN readingTable /\ readingTable[s[k]].type = t
    BY <1>3, <1>5
  <2> QED
    BY <1>1, <1>5, <2>1, <2>2 DEF Returned, Joined
<1>8. DOMAIN d = 1 .. n
  BY <1>5 DEF Returned
<1>9. d \in Seq(Reading)
  <2>1. \A k \in 1 .. n : d[k] \in Reading
    <3>1. ASSUME NEW i \in DOMAIN Joined PROVE Joined[i] \in Reading
      BY <1>1, ElementOfSeq
    <3> QED
      BY <1>7, <3>1
  <2>2. d = [k \in 1 .. n |-> d[k]]
    BY <1>5 DEF Returned
  <2> HIDE DEF d
  <2> QED
    BY <1>4, <2>1, <2>2
<1> HIDE DEF d
<1>10. ASSUME NEW x PROVE Count(d, x) = IF x.type = t THEN Count(Joined, x) ELSE 0
  <2> DEFINE A == Where(d, x)
             B == Where(Joined, x)
             f == [k \in A |-> s[k]]
  <2>1. CASE x.type = t
    <3>1. f \in [A -> B]
      BY <1>7, <1>8 DEF Where
    <3>2. \A a, b \in A : f[a] = f[b] => a = b
      BY <1>5, <1>8 DEF Where
    <3>3. \A b \in B : b \in rows
      BY <1>1, <1>3, <2>1 DEF Where, Joined
    <3>4. \A k \in 1 .. n : s[k] \in B => k \in A
      BY <1>7, <1>8 DEF Where
    <3>5. \A b \in B : \E a \in A : f[a] = b
      <4> SUFFICES ASSUME NEW b \in B PROVE \E a \in A : f[a] = b
        OBVIOUS
      <4>1. PICK k \in 1 .. n : s[k] = b
        BY <1>6, <3>3
      <4> QED
        BY <3>4, <4>1
    <3>6. IsFiniteSet(A)
      BY <1>9, CountIs
    <3> HIDE DEF A, B, f
    <3>7. Cardinality(A) = Cardinality(B)
      BY <3>1, <3>2, <3>5, <3>6, SameCardinality
    <3>8. Count(d, x) = Cardinality(A) /\ Count(Joined, x) = Cardinality(B)
      BY <1>1, <1>9, CountIs DEF A, B
    <3> QED
      BY <2>1, <3>7, <3>8
  <2>2. CASE x.type # t
    <3>1. A = {}
      BY <1>7, <1>8, <2>2 DEF Where
    <3>2. Count(d, x) = Cardinality(A)
      BY <1>9, CountIs
    <3> QED
      BY <2>2, <3>1, <3>2, FS_EmptySet
  <2> QED
    BY <2>1, <2>2
<1> QED
  BY <1>7, <1>8, <1>9, <1>10 DEF d

-----------------------------------------------------------------------------
\* Fragments and rows.

Fragment == [of : Reading, part : {"head", "tail"}]

LEMMA PieceOf ==
  ASSUME NEW d \in Seq(Reading), NEW k \in 1 .. 2 * Len(d)
  PROVE  Piece(d, k) \in Fragment
<1>1. (k + 1) \div 2 \in 1 .. Len(d)
  OBVIOUS
<1>2. d[(k + 1) \div 2] \in Reading
  BY <1>1, ElementOfSeq
<1> QED
  BY <1>2 DEF Piece, Fragment

\* The two fragments of a reading.
LEMMA BothPieces ==
  ASSUME NEW d, NEW j \in Nat, j > 0
  PROVE  /\ Piece(d, 2 * j - 1) = [of |-> d[j], part |-> "head"]
         /\ Piece(d, 2 * j) = [of |-> d[j], part |-> "tail"]
<1>1. /\ (2 * j - 1 + 1) \div 2 = j /\ (2 * j - 1) % 2 = 1
      /\ (2 * j + 1) \div 2 = j /\ (2 * j) % 2 = 0
  OBVIOUS
<1> QED
  BY <1>1 DEF Piece

LEMMA OddOrEven ==
  ASSUME NEW k \in Nat, k > 0
  PROVE  \E j \in Nat : j > 0 /\ k \in {2 * j - 1, 2 * j}
<1>1. /\ (k + 1) \div 2 \in Nat /\ (k + 1) \div 2 > 0
      /\ k \in {2 * ((k + 1) \div 2) - 1, 2 * ((k + 1) \div 2)}
  OBVIOUS
<1> QED
  BY <1>1

\* The first m fragments of the readings d.
Beginning(d, m) == [k \in 1 .. m |-> Piece(d, k)]

LEMMA BeginningIs ==
  ASSUME NEW d \in Seq(Reading), NEW m \in 0 .. 2 * Len(d)
  PROVE  /\ Beginning(d, m) \in Seq(Fragment)
         /\ Len(Beginning(d, m)) = m
         /\ DOMAIN Beginning(d, m) = 1 .. m
         /\ \A k \in 1 .. m : Beginning(d, m)[k] = Piece(d, k)
<1>1. m \in Nat /\ \A k \in 1 .. m : k \in 1 .. 2 * Len(d)
  OBVIOUS
<1>2. \A k \in 1 .. m : Piece(d, k) \in Fragment
  BY <1>1, PieceOf
<1> QED
  BY <1>1, <1>2 DEF Beginning

\* The whole rows in it are those of which both fragments are there.
LEMMA RowsOfBeginning ==
  ASSUME NEW d \in Seq(Reading), NEW m \in 0 .. 2 * Len(d)
  PROVE  /\ \A i : i \in RowsAt(Beginning(d, m)) <=>
                     \E j \in 1 .. Len(d) : 2 * j <= m /\ i = 2 * j - 1
         /\ \A i \in DOMAIN Beginning(d, m) :
              Beginning(d, m)[i].part = "tail" => i - 1 \in RowsAt(Beginning(d, m))
<1> DEFINE f == Beginning(d, m)
<1>1. /\ Len(d) \in Nat /\ m \in Nat /\ m <= 2 * Len(d)
      /\ Len(f) = m /\ DOMAIN f = 1 .. m /\ \A k \in 1 .. m : f[k] = Piece(d, k)
  BY BeginningIs
<1> HIDE DEF f
<1>2. ASSUME NEW j \in Nat, j > 0, 2 * j <= m
      PROVE  2 * j - 1 \in RowsAt(f) /\ j \in 1 .. Len(d)
  <2>1. f[2 * j - 1] = [of |-> d[j], part |-> "head"] /\ f[2 * j] = [of |-> d[j], part |-> "tail"]
    BY <1>1, <1>2, BothPieces
  <2>2. 2 * j - 1 > 1 => f[2 * j - 1 - 1].part = "tail"
    <3> SUFFICES ASSUME 2 * j - 1 > 1 PROVE f[2 * j - 1 - 1].part = "tail"
      OBVIOUS
    <3>1. j - 1 \in Nat /\ j - 1 > 0 /\ 2 * (j - 1) = 2 * j - 1 - 1 /\ 2 * (j - 1) \in 1 .. m
      BY <1>1, <1>2
    <3>2. f[2 * (j - 1)] = [of |-> d[j - 1], part |-> "tail"]
      BY <1>1, <3>1, BothPieces
    <3> QED
      BY <3>1, <3>2
  <2>3. 2 * j - 1 \in 1 .. m /\ 2 * j - 1 < m /\ 2 * j - 1 + 1 = 2 * j
    BY <1>1, <1>2
  <2> QED
    BY <1>1, <1>2, <2>1, <2>2, <2>3 DEF RowsAt
<1>3. ASSUME NEW i \in RowsAt(f)
      PROVE  \E j \in 1 .. Len(d) : 2 * j <= m /\ i = 2 * j - 1
  <2>1. i \in 1 .. m /\ f[i].part = "head" /\ i < m
    BY <1>1 DEF RowsAt
  <2>2. PICK j \in Nat : j > 0 /\ i \in {2 * j - 1, 2 * j}
    <3>1. i \in Nat /\ i > 0
      BY <1>1, <2>1
    <3> QED
      BY <3>1, OddOrEven
  <2>3. i # 2 * j
    <3>1. Piece(d, 2 * j) = [of |-> d[j], part |-> "tail"]
      BY <2>2, BothPieces
    <3> QED
      BY <1>1, <2>1, <3>1
  <2>4. 2 * j <= m /\ i = 2 * j - 1
    BY <1>1, <2>1, <2>2, <2>3
  <2> QED
    BY <1>2, <2>2, <2>4
<1>4. ASSUME NEW i \in 1 .. m, f[i].part = "tail" PROVE i - 1 \in RowsAt(f)
  <2>1. PICK j \in Nat : j > 0 /\ i \in {2 * j - 1, 2 * j}
    <3>1. i \in Nat /\ i > 0
      BY <1>1
    <3> QED
      BY <3>1, OddOrEven
  <2>2. i # 2 * j - 1
    <3>1. Piece(d, 2 * j - 1) = [of |-> d[j], part |-> "head"]
      BY <2>1, BothPieces
    <3> QED
      BY <1>1, <1>4, <3>1
  <2>3. 2 * j <= m /\ i - 1 = 2 * j - 1
    BY <1>1, <2>1, <2>2
  <2> QED
    BY <1>2, <2>1, <2>3
<1>5. \A j \in 1 .. Len(d) : j \in Nat /\ j > 0
  BY <1>1
<1> QED
  BY <1>1, <1>2, <1>3, <1>4, <1>5 DEF f

\* So there is no row but one for a reading, and when all is written one for
\* each.
LEMMA RowCountOfBeginning ==
  ASSUME NEW d \in Seq(Reading), NEW m \in 0 .. 2 * Len(d), NEW x
  PROVE  /\ RowCount(Beginning(d, m), x) <= Count(d, x)
         /\ m = 2 * Len(d) => RowCount(Beginning(d, m), x) = Count(d, x)
<1> DEFINE f == Beginning(d, m)
           A == {j \in Where(d, x) : 2 * j <= m}
           B == {i \in RowsAt(f) : f[i].of = x}
           g == [j \in A |-> 2 * j - 1]
<1>1. /\ Len(d) \in Nat /\ m \in Nat /\ DOMAIN d = 1 .. Len(d)
      /\ DOMAIN f = 1 .. m /\ \A k \in 1 .. m : f[k] = Piece(d, k)
  BY BeginningIs
<1>2. /\ Count(d, x) = Cardinality(Where(d, x))
      /\ IsFiniteSet(Where(d, x))
      /\ Where(d, x) \subseteq 1 .. Len(d)
  BY CountIs
<1>3. \A i : i \in RowsAt(f) <=> \E j \in 1 .. Len(d) : 2 * j <= m /\ i = 2 * j - 1
  BY RowsOfBeginning
<1> HIDE DEF f
<1>4. ASSUME NEW j \in 1 .. Len(d), 2 * j <= m
      PROVE  2 * j - 1 \in RowsAt(f) /\ f[2 * j - 1].of = d[j]
  <2>1. j \in Nat /\ j > 0 /\ 2 * j - 1 \in 1 .. m
    BY <1>1, <1>4
  <2>2. f[2 * j - 1] = [of |-> d[j], part |-> "head"]
    BY <1>1, <2>1, BothPieces
  <2> QED
    BY <1>3, <1>4, <2>2
<1>5. /\ g \in [A -> B]
      /\ \A a, b \in A : g[a] = g[b] => a = b
      /\ \A b \in B : \E a \in A : g[a] = b
  <2>1. \A j \in A : j \in 1 .. Len(d) /\ 2 * j <= m /\ d[j] = x /\ j \in Nat
    BY <1>1, <1>2 DEF Where
  <2>2. \A j \in A : 2 * j - 1 \in B
    BY <1>4, <2>1
  <2>3. \A a, b \in A : g[a] = g[b] => a = b
    BY <2>1
  <2>4. ASSUME NEW b \in B PROVE \E a \in A : g[a] = b
    <3>1. PICK j \in 1 .. Len(d) : 2 * j <= m /\ b = 2 * j - 1
      BY <1>3
    <3>2. d[j] = x
      BY <1>4, <3>1
    <3>3. j \in A
      BY <1>1, <3>1, <3>2 DEF Where
    <3> QED
      BY <3>1, <3>3
  <2> QED
    BY <2>2, <2>3, <2>4
<1>6. A \subseteq Where(d, x)
  OBVIOUS
<1>7. m = 2 * Len(d) => A = Where(d, x)
  BY <1>1, <1>2
<1> HIDE DEF A, B, g
<1>8. IsFiniteSet(A) /\ Cardinality(A) <= Cardinality(Where(d, x))
  BY <1>2, <1>6, FS_Subset
<1>9. Cardinality(A) = Cardinality(B)
  BY <1>5, <1>8, SameCardinality
<1>10. RowCount(f, x) = Cardinality(B)
  BY DEF RowCount, B
<1> QED
  BY <1>2, <1>7, <1>8, <1>9, <1>10 DEF f

LEMMA HalfOfSum ==
  ASSUME NEW n \in Nat, NEW k \in Nat
  PROVE  /\ (2 * n + k + 1) \div 2 = n + (k + 1) \div 2
         /\ (2 * n + k) % 2 = k % 2
OBVIOUS

\* All fragments of one vector, and behind them the first ones of another: that
\* is how the fragments of both together begin.
LEMMA BeginningOfBoth ==
  ASSUME NEW s \in Seq(Reading), NEW d \in Seq(Reading), NEW m \in 0 .. 2 * Len(d)
  PROVE  /\ s \o d \in Seq(Reading)
         /\ Len(s \o d) = Len(s) + Len(d)
         /\ \A k \in 1 .. 2 * Len(s) : Piece(s \o d, k) = Piece(s, k)
         /\ \A k \in 1 .. m : Piece(s \o d, 2 * Len(s) + k) = Piece(d, k)
<1>1. /\ Len(s) \in Nat /\ Len(d) \in Nat
      /\ s \o d \in Seq(Reading)
      /\ Len(s \o d) = Len(s) + Len(d)
      /\ \A i \in 1 .. Len(s) + Len(d) :
           (s \o d)[i] = IF i <= Len(s) THEN s[i] ELSE d[i - Len(s)]
  BY ConcatProperties
<1> DEFINE sd == s \o d
           n == Len(s)
<1>2. /\ n \in Nat /\ Len(d) \in Nat
      /\ \A i \in 1 .. n + Len(d) : sd[i] = IF i <= n THEN s[i] ELSE d[i - n]
  BY <1>1
<1> HIDE DEF sd, n
<1>3. ASSUME NEW k \in 1 .. 2 * n PROVE Piece(sd, k) = Piece(s, k)
  <2>1. (k + 1) \div 2 \in 1 .. n
    BY <1>2
  <2>2. sd[(k + 1) \div 2] = s[(k + 1) \div 2]
    BY <1>2, <2>1
  <2> QED
    BY <2>2 DEF Piece
<1>4. ASSUME NEW k \in 1 .. m PROVE Piece(sd, 2 * n + k) = Piece(d, k)
  <2>1. PICK h \in 1 .. Len(d) : h = (k + 1) \div 2
    BY <1>2
  <2>2. (2 * n + k + 1) \div 2 = n + h /\ (2 * n + k) % 2 = k % 2
    <3>1. k \in Nat
      BY <1>2
    <3> QED
      BY <1>2, <2>1, <3>1, HalfOfSum
  <2>3. n + h \in 1 .. n + Len(d) /\ ~(n + h <= n) /\ n + h - n = h
    BY <1>2
  <2>4. sd[n + h] = d[h]
    BY <1>2, <2>3
  <2> QED
    BY <2>1, <2>2, <2>4 DEF Piece
<1> QED
  BY <1>1, <1>3, <1>4 DEF sd, n

\* What Write appends to a file that holds all of s and the first m fragments
\* of d.
LEMMA BeginningGrows ==
  ASSUME NEW s \in Seq(Reading), NEW d \in Seq(Reading),
         NEW m \in 0 .. 2 * Len(d), NEW k \in m + 1 .. 2 * Len(d)
  PROVE  Beginning(s \o d, 2 * Len(s) + m) \o Pieces(d, m, k)
           = Beginning(s \o d, 2 * Len(s) + k)
<1> DEFINE n == 2 * Len(s)
           a == Beginning(s \o d, n + m)
           b == Pieces(d, m, k)
           c == Beginning(s \o d, n + k)
<1>1. Len(s) \in Nat /\ Len(d) \in Nat /\ n \in Nat /\ m \in Nat /\ k \in Nat /\ m < k /\ k <= 2 * Len(d)
  OBVIOUS
<1>2. /\ s \o d \in Seq(Reading) /\ Len(s \o d) = Len(s) + Len(d)
      /\ \A i \in 1 .. k : Piece(s \o d, n + i) = Piece(d, i)
  BY <1>1, BeginningOfBoth
<1>3. n + m \in 0 .. 2 * Len(s \o d) /\ n + k \in 0 .. 2 * Len(s \o d)
  BY <1>1, <1>2
<1>4. /\ a \in Seq(Fragment) /\ Len(a) = n + m
      /\ \A i \in 1 .. n + m : a[i] = Piece(s \o d, i)
      /\ c \in Seq(Fragment) /\ Len(c) = n + k
      /\ \A i \in 1 .. n + k : c[i] = Piece(s \o d, i)
  BY <1>2, <1>3, BeginningIs
<1>5. /\ b \in Seq(Fragment) /\ Len(b) = k - m
      /\ \A j \in 1 .. k - m : b[j] = Piece(d, m + j)
  <2>1. \A j \in 1 .. k - m : m + j \in 1 .. 2 * Len(d)
    BY <1>1
  <2>2. \A j \in 1 .. k - m : Piece(d, m + j) \in Fragment
    BY <2>1, PieceOf
  <2> QED
    BY <1>1, <2>2 DEF Pieces
<1>6. \A i \in 1 .. n + k : i > n + m => b[i - (n + m)] = Piece(s \o d, i)
  <2> SUFFICES ASSUME NEW i \in 1 .. n + k, i > n + m
               PROVE  b[i - (n + m)] = Piece(s \o d, i)
    OBVIOUS
  <2>1. PICK j \in 1 .. k - m : j = i - (n + m)
    <3>1. i - (n + m) \in 1 .. k - m
      BY <1>1
    <3> QED
      BY <3>1
  <2>2. m + j \in 1 .. k /\ n + (m + j) = i
    BY <1>1, <2>1
  <2>3. b[j] = Piece(d, m + j) /\ Piece(s \o d, i) = Piece(d, m + j)
    BY <1>2, <1>5, <2>2
  <2> QED
    BY <2>1, <2>3
<1> HIDE DEF n, a, b, c
<1>7. /\ a \o b \in Seq(Fragment)
      /\ Len(a \o b) = n + k
      /\ \A i \in 1 .. n + k : (a \o b)[i] = IF i <= n + m THEN a[i] ELSE b[i - (n + m)]
  <2>1. /\ a \o b \in Seq(Fragment)
        /\ Len(a \o b) = Len(a) + Len(b)
        /\ \A i \in 1 .. Len(a) + Len(b) :
             (a \o b)[i] = IF i <= Len(a) THEN a[i] ELSE b[i - Len(a)]
    BY <1>4, <1>5, ConcatProperties
  <2>2. (n + m) + (k - m) = n + k
    BY <1>1
  <2> QED
    BY <1>4, <1>5, <2>1, <2>2
<1>8. \A i \in 1 .. n + k : (a \o b)[i] = c[i]
  <2>1. \A i \in 1 .. n + k : i <= n + m => i \in 1 .. n + m
    BY <1>1
  <2>2. \A i \in 1 .. n + k : i <= n + m \/ i > n + m
    BY <1>1
  <2> QED
    BY <1>4, <1>6, <1>7, <2>1, <2>2
<1>9. a \o b = c
  BY <1>4, <1>7, <1>8, SeqEqual
<1> QED
  BY <1>9 DEF n, a, b, c

\* All fragments of s are the same, whatever follows.
LEMMA BeginningOfFirst ==
  ASSUME NEW s \in Seq(Reading), NEW d \in Seq(Reading)
  PROVE  Beginning(s \o d, 2 * Len(s)) = Beginning(s, 2 * Len(s))
<1>1. \A k \in 1 .. 2 * Len(s) : Piece(s \o d, k) = Piece(s, k)
  <2>1. 0 \in 0 .. 2 * Len(d)
    OBVIOUS
  <2> QED
    BY <2>1, BeginningOfBoth
<1> QED
  BY <1>1 DEF Beginning

LEMMA BeginningOfNone == ASSUME NEW d PROVE Beginning(d, 0) = <<>>
<1>1. Beginning(d, 0) = [k \in 1 .. 0 |-> Piece(d, k)]
  BY DEF Beginning
<1>2. 1 .. 0 = {}
  OBVIOUS
<1>3. [k \in 1 .. 0 |-> Piece(d, k)] = <<>>
  BY <1>2
<1> QED
  BY <1>1, <1>3

-----------------------------------------------------------------------------
\* The exporters.

ExportTypes ==
  /\ epc \in [Exporter -> {"start", "load", "csv_name", "open", "write", "end"}]
  /\ etype \in [Exporter -> ReadingType]
  /\ data \in [Exporter -> Seq(Reading)]
  /\ sent \in [Exporter -> Nat]
  /\ counter \in [Exporter -> Name]
  /\ exit \in [Exporter -> {"none", "ok", "failure"}]
  /\ present \in SUBSET Name
  /\ csv \in [Name -> Seq(Fragment)]
  /\ writers \in [Name -> SUBSET Exporter]
  /\ atStart \in [Exporter -> Seq(Reading)]
  /\ before \in [Exporter -> SUBSET Name]

\* The thermal readings come first, and only for them a name is looked for.
FlowOK(e) ==
  /\ epc[e] \in {"start", "csv_name", "end"} => etype[e] = "thermal"
  /\ exit[e] # "none" => epc[e] = "end"

\* No CSV file is deleted; and the name that was free stays the one used.
OlderOK(e) ==
  /\ before[e] \subseteq present
  /\ epc[e] \in {"open", "write"} \/ etype[e] = "load" => counter[e] \notin before[e]

\* What an exporter has found in the database is still there.
FoundOK(e) ==
  \A k \in DOMAIN atStart[e] : k \in DOMAIN Joined /\ Joined[k] = atStart[e][k]

\* The readings in memory are of the type at hand: what was in the database at
\* the start, and no more than what is there.
DataOK(e) ==
  /\ epc[e] \notin {"csv_name", "open", "write"} => data[e] = <<>>
  /\ epc[e] # "write" => sent[e] = 0
  /\ sent[e] <= 2 * Len(data[e])
  /\ \A x \in Reading :
       /\ x.type # etype[e] => Count(data[e], x) = 0
       /\ x.type = etype[e] => Count(data[e], x) <= Count(Joined, x)
       /\ epc[e] \in {"csv_name", "open", "write"} /\ x.type = etype[e] =>
            Count(data[e], x) >= Count(atStart[e], x)

\* An exporter is a writer of its file from its first Open on.
OpenedOK(e) ==
  /\ epc[e] = "write" \/ etype[e] = "load" => e \in writers[counter[e]]
  /\ etype[e] = "thermal" /\ epc[e] \notin {"write", "end"} =>
       \A n \in Name : e \notin writers[n]

\* The file of e holds all fragments of s and then those of the readings in
\* memory that are sent; s are the thermal readings when e is at the load.
Behind(e, s) ==
  /\ etype[e] = "thermal" => s = <<>>
  /\ \A x \in Reading :
       /\ x.type # "thermal" => Count(s, x) = 0
       /\ x.type = "thermal" => Count(s, x) <= Count(Joined, x)
       /\ x.type = "thermal" /\ etype[e] = "load" => Count(s, x) >= Count(atStart[e], x)
  /\ csv[counter[e]] = Beginning(s \o data[e], 2 * Len(s) + sent[e])

OwnOK(e) ==
  (epc[e] = "write" \/ etype[e] = "load") /\ writers[counter[e]] \subseteq {e} =>
    \E s \in Seq(Reading) : Behind(e, s)

SuccessOK(e) == writers[counter[e]] \subseteq {e} => WroteAll(e)

\* A file without a writer is empty; one with a single writer holds the
\* fragments of readings that are in the database, each once, up to some point.
Holds(n, s, m) ==
  /\ csv[n] = Beginning(s, m)
  /\ \A x \in Reading : Count(s, x) <= Count(Joined, x)

FileOK(n) ==
  /\ writers[n] = {} => csv[n] = <<>>
  /\ \A e \in Exporter :
       writers[n] \subseteq {e} =>
         \E s \in Seq(Reading) : \E m \in 0 .. 2 * Len(s) : Holds(n, s, m)

BasicOK(e) == FlowOK(e) /\ OlderOK(e) /\ FoundOK(e) /\ DataOK(e) /\ OpenedOK(e)

ExportInv ==
  /\ DbInv
  /\ ExportTypes
  /\ \A e \in Exporter : BasicOK(e) /\ OwnOK(e) /\ SuccessOK(e)
  /\ \A n \in Name : FileOK(n)

ExporterStep(e) == ExportStep(e) \/ (KillExporter(e) /\ UNCHANGED dbVars)

-----------------------------------------------------------------------------
\* What a step of an exporter does.

Ended(e) ==
  /\ epc'[e] = "end" /\ etype'[e] = "thermal"
  /\ data'[e] = <<>> /\ sent'[e] = 0 /\ before'[e] = {}
  /\ UNCHANGED files
  /\ \/ exit'[e] = "failure" /\ atStart'[e] = <<>>
     \/ /\ exit'[e] = "ok"
        /\ epc[e] = "write" /\ sent[e] = 2 * Len(data[e]) /\ etype[e] = "load"
        /\ counter'[e] = counter[e] /\ atStart'[e] = atStart[e]

Started(e) ==
  /\ epc[e] = "start" /\ epc'[e] = "load"
  /\ atStart'[e] = Joined /\ before'[e] = present
  /\ UNCHANGED <<etype, data, sent, counter, exit, files>>

GotRows(e) ==
  /\ epc[e] = "load"
  /\ epc'[e] = IF etype[e] = "thermal" THEN "csv_name" ELSE "open"
  /\ \E s \in SelectedRows(etype[e]) : data'[e] = Returned(s)
  /\ UNCHANGED <<etype, sent, counter, exit, atStart, before, files>>

LookedForName(e) ==
  /\ epc[e] = "csv_name"
  /\ \/ epc'[e] = "csv_name"
     \/ epc'[e] = "open" /\ counter[e] \notin present /\ UNCHANGED counter
  /\ UNCHANGED <<etype, data, sent, exit, atStart, before, files>>

OpenedFile(e) ==
  /\ epc[e] = "open" /\ epc'[e] = "write"
  /\ present' = present \union {counter[e]}
  /\ writers' = [writers EXCEPT ![counter[e]] = @ \union {e}]
  /\ UNCHANGED <<etype, data, sent, counter, exit, csv, atStart, before>>

Wrote(e) ==
  /\ epc[e] = "write"
  /\ \E k \in sent[e] + 1 .. 2 * Len(data[e]) :
       /\ csv' = [csv EXCEPT ![counter[e]] =
                    @ \o Pieces(data[e], sent[e], k)]
       /\ sent'[e] = k
  /\ UNCHANGED <<epc, etype, data, counter, exit, present, writers, atStart, before>>

ClosedFile(e) ==
  /\ epc[e] = "write" /\ sent[e] = 2 * Len(data[e]) /\ etype[e] = "thermal"
  /\ epc'[e] = "load" /\ etype'[e] = "load"
  /\ data'[e] = <<>> /\ sent'[e] = 0
  /\ UNCHANGED <<counter, exit, atStart, before, files>>

LEMMA ExitEffect ==
  ASSUME ExportTypes, NEW e \in Exporter, Exit(e, "failure")
  PROVE  Ended(e)
BY DEF Exit, ExporterGoto, Ended, ExportTypes

LEMMA StepEffect ==
  ASSUME ExportTypes, NEW e \in Exporter, ExporterStep(e)
  PROVE  /\ UNCHANGED dbVars
         /\ \/ Ended(e)
            \/ Started(e)
            \/ GotRows(e)
            \/ LookedForName(e)
            \/ OpenedFile(e)
            \/ Wrote(e)
            \/ ClosedFile(e)
<1>1. UNCHANGED dbVars
  BY DEF ExporterStep, ExportStep
<1>2. CASE Exit(e, "failure")
  BY <1>1, <1>2, ExitEffect
<1>3. CASE StartExport(e) /\ ~Exit(e, "failure")
  <2>1. Started(e)
    BY <1>3 DEF StartExport, ExporterGoto, Started, ExportTypes
  <2> QED
    BY <1>1, <2>1
<1>4. CASE Load(e) /\ ~Exit(e, "failure")
  <2>1. PICK s \in SelectedRows(etype[e]) : data' = [data EXCEPT ![e] = Returned(s)]
    BY <1>4 DEF Load, Returned
  <2>2. GotRows(e)
    BY <1>4, <2>1 DEF Load, ExporterGoto, GotRows, ExportTypes
  <2> QED
    BY <1>1, <2>2
<1>5. CASE CsvName(e) /\ ~Exit(e, "failure")
  <2>1. LookedForName(e)
    BY <1>5 DEF CsvName, ExporterGoto, LookedForName, ExportTypes
  <2> QED
    BY <1>1, <2>1
<1>6. CASE Open(e) /\ ~Exit(e, "failure")
  <2>1. OpenedFile(e)
    BY <1>6 DEF Open, Opened, ExporterGoto, OpenedFile, ExportTypes
  <2> QED
    BY <1>1, <2>1
<1>7. CASE Write(e) /\ ~Exit(e, "failure")
  <2>1. Wrote(e)
    BY <1>7 DEF Write, Wrote, ExportTypes
  <2> QED
    BY <1>1, <2>1
<1>8. CASE Close(e) /\ ~Exit(e, "failure")
  <2>1. CASE etype[e] = "thermal"
    <3>1. ClosedFile(e)
      BY <1>8, <2>1 DEF Close, ExporterGoto, ClosedFile, ExportTypes
    <3> QED
      BY <1>1, <3>1
  <2>2. CASE etype[e] # "thermal"
    <3>1. epc[e] = "write" /\ sent[e] = 2 * Len(data[e]) /\ etype[e] = "load" /\ Exit(e, "ok")
      BY <1>8, <2>2 DEF Close
    <3>2. Ended(e)
      BY <3>1 DEF Exit, ExporterGoto, Ended, ExportTypes
    <3> QED
      BY <1>1, <3>2
  <2> QED
    BY <2>1, <2>2
<1> QED
  BY <1>2, <1>3, <1>4, <1>5, <1>6, <1>7, <1>8
  DEF ExporterStep, ExportStep, KillExporter

\* A step of an exporter touches no variable of another one and no file but its
\* own, of which it then is a writer.
LEMMA ExporterFrame ==
  ASSUME ExportTypes, NEW e \in Exporter, OpenedOK(e), ExporterStep(e)
  PROVE  /\ \A q \in Exporter : q # e =>
              /\ epc'[q] = epc[q]
              /\ etype'[q] = etype[q]
              /\ data'[q] = data[q]
              /\ sent'[q] = sent[q]
              /\ counter'[q] = counter[q]
              /\ exit'[q] = exit[q]
              /\ atStart'[q] = atStart[q]
              /\ before'[q] = before[q]
         /\ present \subseteq present'
         /\ \A n \in Name :
              /\ writers[n] \subseteq writers'[n]
              /\ writers'[n] \subseteq writers[n] \union {e}
              /\ \/ csv'[n] = csv[n] /\ writers'[n] = writers[n]
                 \/ n = counter[e] /\ e \in writers'[n]
<1> USE DEF ExportTypes, ExporterGoto
<1>1. CASE Exit(e, "failure") \/ Exit(e, "ok")
  BY <1>1 DEF Exit, files
<1>2. CASE StartExport(e) /\ ~Exit(e, "failure")
  BY <1>2 DEF StartExport, files
<1>3. CASE Load(e) /\ ~Exit(e, "failure")
  BY <1>3 DEF Load, files
<1>4. CASE CsvName(e) /\ ~Exit(e, "failure")
  BY <1>4 DEF CsvName, files
<1>5. CASE Open(e) /\ ~Exit(e, "failure")
  BY <1>5 DEF Open, Opened
<1>6. CASE Write(e) /\ ~Exit(e, "failure")
  <2>1. e \in writers[counter[e]]
    BY <1>6 DEF Write, OpenedOK
  <2> QED
    BY <1>6, <2>1 DEF Write
<1>7. CASE Close(e) /\ ~Exit(e, "ok")
  BY <1>7 DEF Close, files
<1> QED
  BY <1>1, <1>2, <1>3, <1>4, <1>5, <1>6, <1>7
  DEF ExporterStep, ExportStep, KillExporter

LEMMA TypesStep ==
  ASSUME DbInv, ExportTypes, NEW e \in Exporter, ExporterStep(e)
  PROVE  ExportTypes'
<1>1. Joined \in Seq(Reading) /\ <<>> \in Seq(Reading)
  BY JoinedReadings
<1>2. ASSUME NEW how \in {"ok", "failure"}, Exit(e, how)
      PROVE  ExportTypes'
  <2>1. 0 \in Name /\ (IF how = "ok" THEN counter[e] ELSE 0) \in Name
    BY MaxNameAssumption DEF Name, ExportTypes
  <2>2. (IF how = "ok" THEN atStart[e] ELSE <<>>) \in Seq(Reading)
    BY <1>1 DEF ExportTypes
  <2> QED
    BY <1>1, <1>2, <2>1, <2>2 DEF Exit, ExporterGoto, ExportTypes, ReadingType, files
<1>3. CASE StartExport(e) /\ ~Exit(e, "failure")
  <2>1. /\ epc' = [epc EXCEPT ![e] = "load"]
        /\ atStart' = [atStart EXCEPT ![e] = Joined]
        /\ before' = [before EXCEPT ![e] = present]
        /\ UNCHANGED <<etype, data, sent, counter, exit, present, csv, writers>>
    BY <1>3 DEF StartExport, ExporterGoto, files
  <2> QED
    BY <1>1, <2>1 DEF ExportTypes
<1>4. CASE Load(e) /\ ~Exit(e, "failure")
  <2>1. PICK s \in SelectedRows(etype[e]) : data' = [data EXCEPT ![e] = Returned(s)]
    BY <1>4 DEF Load, Returned
  <2>2. Returned(s) \in Seq(Reading)
    BY ReturnedAreJoined
  <2>3. epc' = [epc EXCEPT ![e] = IF etype[e] = "thermal" THEN "csv_name" ELSE "open"]
        /\ UNCHANGED <<etype, sent, counter, exit, atStart, before, present, csv, writers>>
    BY <1>4 DEF Load, ExporterGoto, files
  <2> QED
    BY <2>1, <2>2, <2>3 DEF ExportTypes
<1>5. CASE CsvName(e) /\ ~Exit(e, "failure")
  <2>1. counter[e] < MaxName => counter[e] + 1 \in Name
    BY MaxNameAssumption DEF ExportTypes, Name
  <2>2. /\ \/ counter' = counter
           \/ counter[e] < MaxName /\ counter' = [counter EXCEPT ![e] = @ + 1]
        /\ \/ epc' = epc
           \/ epc' = [epc EXCEPT ![e] = "open"]
        /\ UNCHANGED <<etype, data, sent, exit, atStart, before, present, csv, writers>>
    BY <1>5 DEF CsvName, ExporterGoto, files
  <2>3. counter' \in [Exporter -> Name]
    BY <2>1, <2>2 DEF ExportTypes
  <2>4. epc' \in [Exporter -> {"start", "load", "csv_name", "open", "write", "end"}]
    BY <2>2 DEF ExportTypes
  <2> QED
    BY <2>2, <2>3, <2>4 DEF ExportTypes
<1>6. CASE Open(e) /\ ~Exit(e, "failure")
  <2>1. /\ epc' = [epc EXCEPT ![e] = "write"]
        /\ present' = present \union {counter[e]}
        /\ writers' = [writers EXCEPT ![counter[e]] = @ \union {e}]
        /\ UNCHANGED <<etype, data, sent, counter, exit, csv, atStart, before>>
    BY <1>6 DEF Open, Opened, ExporterGoto
  <2>2. counter[e] \in Name /\ writers[counter[e]] \union {e} \in SUBSET Exporter
    BY DEF ExportTypes
  <2>3. writers' \in [Name -> SUBSET Exporter]
    BY <2>1, <2>2 DEF ExportTypes
  <2> QED
    BY <2>1, <2>2, <2>3 DEF ExportTypes
<1>7. CASE Write(e) /\ ~Exit(e, "failure")
  <2>1. PICK k \in sent[e] + 1 .. 2 * Len(data[e]) :
          /\ csv' = [csv EXCEPT ![counter[e]] =
                       @ \o Pieces(data[e], sent[e], k)]
          /\ sent' = [sent EXCEPT ![e] = k]
          /\ UNCHANGED <<epc, etype, data, counter, exit, present, writers,
                         atStart, before>>
    BY <1>7 DEF Write
  <2>2. /\ data[e] \in Seq(Reading) /\ sent[e] \in Nat /\ k \in Nat
        /\ counter[e] \in Name /\ csv[counter[e]] \in Seq(Fragment)
        /\ \A j \in 1 .. k - sent[e] : sent[e] + j \in 1 .. 2 * Len(data[e])
    BY DEF ExportTypes
  <2>3. \A j \in 1 .. k - sent[e] : Piece(data[e], sent[e] + j) \in Fragment
    BY <2>2, PieceOf
  <2>4. Pieces(data[e], sent[e], k) \in Seq(Fragment)
    BY <2>2, <2>3 DEF Pieces
  <2>5. csv[counter[e]] \o Pieces(data[e], sent[e], k) \in Seq(Fragment)
    BY <2>2, <2>4, ConcatProperties
  <2> QED
    BY <2>1, <2>2, <2>5 DEF ExportTypes
<1>8. CASE Close(e) /\ ~Exit(e, "ok")
  <2>1. /\ epc' = [epc EXCEPT ![e] = "load"]
        /\ etype' = [etype EXCEPT ![e] = "load"]
        /\ data' = [data EXCEPT ![e] = <<>>]
        /\ sent' = [sent EXCEPT ![e] = 0]
        /\ UNCHANGED <<counter, exit, present, csv, writers, atStart, before>>
    BY <1>8 DEF Close, ExporterGoto, files
  <2>2. "load" \in ReadingType
    BY DEF ReadingType
  <2> QED
    BY <1>1, <2>1, <2>2 DEF ExportTypes
<1> QED
  BY <1>2, <1>3, <1>4, <1>5, <1>6, <1>7, <1>8
  DEF ExporterStep, ExportStep, KillExporter

LEMMA CountsAreNumbers ==
  ASSUME DbInv, ExportTypes
  PROVE  /\ \A x : Count(Joined, x) \in Nat
         /\ \A e \in Exporter : \A x : Count(data[e], x) \in Nat /\ Count(atStart[e], x) \in Nat
<1>1. \A s \in Seq(Reading) : \A x : Count(s, x) \in Nat
  BY CountIs
<1> QED
  BY <1>1, JoinedReadings DEF ExportTypes

\* Everything that was in the database at the start of e still is.
LEMMA FoundCounts ==
  ASSUME DbInv, ExportTypes, NEW e \in Exporter, FoundOK(e), NEW x
  PROVE  Count(atStart[e], x) <= Count(Joined, x)
<1>1. atStart[e] \in Seq(Reading) /\ Joined \in Seq(Reading)
  BY JoinedReadings DEF ExportTypes
<1>2. \A k \in DOMAIN atStart[e] : k \in DOMAIN Joined /\ Joined[k] = atStart[e][k]
  BY DEF FoundOK
<1> QED
  BY <1>1, <1>2, CountOfStart

\* The others keep theirs: who writes to a file of another one is a writer of
\* it, and then nothing is promised.
LEMMA OthersKeep ==
  ASSUME ExportInv, NEW e \in Exporter, ExporterStep(e), NEW q \in Exporter, q # e
  PROVE  BasicOK(q)' /\ OwnOK(q)' /\ SuccessOK(q)'
<1>1. /\ ExportTypes /\ OpenedOK(e) /\ counter[q] \in Name
      /\ BasicOK(q) /\ OwnOK(q) /\ SuccessOK(q)
  BY DEF ExportInv, BasicOK, ExportTypes
<1>2. /\ epc'[q] = epc[q]
      /\ etype'[q] = etype[q]
      /\ data'[q] = data[q]
      /\ sent'[q] = sent[q]
      /\ counter'[q] = counter[q]
      /\ exit'[q] = exit[q]
      /\ atStart'[q] = atStart[q]
      /\ before'[q] = before[q]
      /\ present \subseteq present'
      /\ \A n \in Name :
           /\ writers[n] \subseteq writers'[n]
           /\ writers'[n] \subseteq writers[n] \union {e}
           /\ \/ csv'[n] = csv[n] /\ writers'[n] = writers[n]
              \/ n = counter[e] /\ e \in writers'[n]
  BY <1>1, ExporterFrame
<1>3. Joined' = Joined
  BY DEF ExporterStep, ExportStep, dbVars, Joined
<1>4. writers'[counter[q]] \subseteq {q} =>
        csv'[counter[q]] = csv[counter[q]] /\ writers[counter[q]] \subseteq {q}
  BY <1>1, <1>2
<1>5. FlowOK(q)' /\ OlderOK(q)' /\ FoundOK(q)' /\ DataOK(q)'
  BY <1>1, <1>2, <1>3 DEF BasicOK, FlowOK, OlderOK, FoundOK, DataOK
<1>6. OpenedOK(q)'
  BY <1>1, <1>2 DEF BasicOK, OpenedOK
<1>7. OwnOK(q)'
  <2> SUFFICES ASSUME epc'[q] = "write" \/ etype'[q] = "load", writers'[counter'[q]] \subseteq {q}
               PROVE  \E s \in Seq(Reading) : Behind(q, s)'
    BY DEF OwnOK
  <2>1. PICK s \in Seq(Reading) : Behind(q, s)
    BY <1>1, <1>2, <1>4 DEF OwnOK
  <2>2. Behind(q, s)'
    BY <1>2, <1>3, <1>4, <2>1 DEF Behind
  <2> QED
    BY <2>2
<1>8. SuccessOK(q)'
  BY <1>1, <1>2, <1>4 DEF SuccessOK, WroteAll
<1> QED
  BY <1>5, <1>6, <1>7, <1>8 DEF BasicOK

\* What the exporter of a step knows of itself.
LEMMA BasicStep ==
  ASSUME ExportInv, NEW e \in Exporter, ExporterStep(e)
  PROVE  BasicOK(e)'
<1>1. ExportTypes /\ DbInv /\ BasicOK(e)
  BY DEF ExportInv
<1>2. UNCHANGED dbVars /\ Joined' = Joined
  BY <1>1, StepEffect DEF dbVars, Joined
<1>3. /\ etype[e] \in {"thermal", "load"} /\ counter[e] \in Name
      /\ data[e] \in Seq(Reading) /\ Len(data[e]) \in Nat /\ sent[e] \in Nat
      /\ Len(<<>>) = 0
      /\ \A x : Count(<<>>, x) = 0
      /\ \A x : Count(Joined, x) \in Nat /\ Count(atStart[e], x) \in Nat /\ Count(data[e], x) \in Nat
  BY <1>1, CountsAreNumbers, CountOfNone DEF ExportTypes, ReadingType
<1> USE DEF BasicOK, FlowOK, OlderOK, FoundOK, DataOK, OpenedOK
<1>4. CASE Ended(e)
  <2>1. \A k \in DOMAIN <<>> : FALSE
    OBVIOUS
  <2> QED
    BY <1>1, <1>2, <1>3, <1>4, <2>1 DEF Ended, files
<1>5. CASE Started(e)
  BY <1>1, <1>2, <1>3, <1>5 DEF Started, files
<1>6. CASE GotRows(e)
  <2>1. PICK s \in SelectedRows(etype[e]) : data'[e] = Returned(s)
    BY <1>6 DEF GotRows
  <2>2. /\ Returned(s) \in Seq(Reading)
        /\ \A x : Count(Returned(s), x) = IF x.type = etype[e] THEN Count(Joined, x) ELSE 0
    BY <1>1, ReturnedAreJoined
  <2>3. \A x \in Reading : Count(atStart[e], x) <= Count(Joined, x)
    BY <1>1, FoundCounts
  <2>4. Len(data'[e]) \in Nat /\ sent'[e] = 0
    BY <1>1, <1>6, <2>1, <2>2 DEF GotRows
  <2> QED
    BY <1>1, <1>2, <1>3, <1>6, <2>1, <2>2, <2>3, <2>4 DEF GotRows, files
<1>7. CASE LookedForName(e)
  BY <1>1, <1>2, <1>3, <1>7 DEF LookedForName, files
<1>8. CASE OpenedFile(e)
  <2>1. e \in writers'[counter[e]]
    BY <1>1, <1>3, <1>8 DEF OpenedFile, ExportTypes
  <2> QED
    BY <1>1, <1>2, <1>3, <1>8, <2>1 DEF OpenedFile
<1>9. CASE Wrote(e)
  <2>1. sent'[e] <= 2 * Len(data[e])
    BY <1>3, <1>9 DEF Wrote
  <2> QED
    BY <1>1, <1>2, <1>3, <1>9, <2>1 DEF Wrote
<1>10. CASE ClosedFile(e)
  BY <1>1, <1>2, <1>3, <1>10 DEF ClosedFile, files
<1> QED
  BY <1>1, <1>4, <1>5, <1>6, <1>7, <1>8, <1>9, <1>10, StepEffect

\* The file of an exporter that shares it with nobody.
LEMMA OwnStep ==
  ASSUME ExportInv, NEW e \in Exporter, ExporterStep(e)
  PROVE  OwnOK(e)'
<1>1. ExportTypes /\ DbInv /\ BasicOK(e) /\ OwnOK(e) /\ FileOK(counter[e])
  BY DEF ExportInv, ExportTypes
<1>2. UNCHANGED dbVars /\ Joined' = Joined
  BY <1>1, StepEffect DEF dbVars, Joined
<1>3. /\ etype[e] \in {"thermal", "load"} /\ counter[e] \in Name
      /\ data[e] \in Seq(Reading) /\ Len(data[e]) \in Nat /\ sent[e] \in Nat
      /\ <<>> \in Seq(Reading) /\ Len(<<>>) = 0
      /\ \A x : Count(<<>>, x) = 0
      /\ \A x : Count(Joined, x) \in Nat /\ Count(atStart[e], x) \in Nat /\ Count(data[e], x) \in Nat
  BY <1>1, CountsAreNumbers, CountOfNone DEF ExportTypes, ReadingType
<1> SUFFICES ASSUME epc'[e] = "write" \/ etype'[e] = "load", writers'[counter'[e]] \subseteq {e}
             PROVE  \E s \in Seq(Reading) : Behind(e, s)'
  BY DEF OwnOK
<1>4. ~Ended(e)
  BY DEF Ended
<1>5. ~Started(e) /\ ~LookedForName(e)
  BY <1>1, <1>3 DEF Started, LookedForName, BasicOK, FlowOK
<1>6. CASE GotRows(e)
  <2>1. /\ epc[e] = "load" /\ etype[e] = "load"
        /\ UNCHANGED <<etype, sent, counter, atStart, csv, writers>>
    BY <1>6 DEF GotRows, files
  <2>2. PICK s \in Seq(Reading) : Behind(e, s)
    BY <1>1, <2>1 DEF OwnOK
  <2>3. data[e] = <<>> /\ sent[e] = 0
    BY <1>1, <2>1 DEF BasicOK, DataOK
  <2>4. data'[e] \in Seq(Reading)
    BY <1>1, TypesStep DEF ExportTypes
  <2>5. Len(s) \in Nat /\ 2 * Len(s) + sent[e] = 2 * Len(s)
    BY <2>3
  <2>6. csv[counter[e]] = Beginning(s \o data'[e], 2 * Len(s))
    <3>1. csv[counter[e]] = Beginning(s \o data[e], 2 * Len(s))
      BY <2>2, <2>5 DEF Behind
    <3> QED
      BY <1>3, <2>4, <3>1, BeginningOfFirst
  <2>7. Behind(e, s)'
    BY <1>2, <2>1, <2>2, <2>5, <2>6 DEF Behind
  <2> QED
    BY <2>7
<1>7. CASE OpenedFile(e)
  <2>1. /\ epc[e] = "open"
        /\ writers' = [writers EXCEPT ![counter[e]] = @ \union {e}]
        /\ UNCHANGED <<etype, data, sent, counter, atStart, csv>>
    BY <1>7 DEF OpenedFile
  <2>2. writers[counter[e]] \subseteq {e}
    BY <1>1, <1>3, <2>1 DEF ExportTypes
  <2>3. CASE etype[e] = "load"
    <3>1. PICK s \in Seq(Reading) : Behind(e, s)
      BY <1>1, <2>2, <2>3 DEF OwnOK
    <3>2. Behind(e, s)'
      BY <1>2, <2>1, <3>1 DEF Behind
    <3> QED
      BY <3>2
  <2>4. CASE etype[e] = "thermal"
    <3>1. writers[counter[e]] = {}
      BY <1>1, <1>3, <2>1, <2>2, <2>4 DEF BasicOK, OpenedOK
    <3>2. csv[counter[e]] = <<>> /\ sent[e] = 0
      BY <1>1, <2>1, <3>1 DEF FileOK, BasicOK, DataOK
    <3>3. csv[counter[e]] = Beginning(<<>> \o data[e], 2 * Len(<<>>) + sent[e])
      BY <1>3, <3>2, BeginningOfNone
    <3>4. Behind(e, <<>>)'
      BY <1>2, <1>3, <2>1, <2>4, <3>3 DEF Behind
    <3> QED
      BY <1>3, <3>4
  <2> QED
    BY <1>3, <2>3, <2>4
<1>8. CASE Wrote(e)
  <2>1. PICK k \in sent[e] + 1 .. 2 * Len(data[e]) :
          /\ csv' = [csv EXCEPT ![counter[e]] = @ \o Pieces(data[e], sent[e], k)]
          /\ sent'[e] = k
    BY <1>8 DEF Wrote
  <2>2. /\ epc[e] = "write"
        /\ UNCHANGED <<etype, data, counter, atStart, writers>>
    BY <1>8 DEF Wrote
  <2>3. PICK s \in Seq(Reading) : Behind(e, s)
    BY <1>1, <2>2 DEF OwnOK
  <2>4. csv[counter[e]] = Beginning(s \o data[e], 2 * Len(s) + sent[e])
    BY <2>3 DEF Behind
  <2>5. csv'[counter[e]] = Beginning(s \o data[e], 2 * Len(s) + k)
    <3>1. sent[e] \in 0 .. 2 * Len(data[e])
      BY <1>1, <1>3 DEF BasicOK, DataOK
    <3>2. csv'[counter[e]] = csv[counter[e]] \o Pieces(data[e], sent[e], k)
      BY <1>1, <1>3, <2>1 DEF ExportTypes
    <3>3. Beginning(s \o data[e], 2 * Len(s) + sent[e]) \o Pieces(data[e], sent[e], k)
            = Beginning(s \o data[e], 2 * Len(s) + k)
      BY <1>3, <3>1, BeginningGrows
    <3> QED
      BY <2>4, <3>2, <3>3
  <2>6. Behind(e, s)'
    BY <1>2, <2>1, <2>2, <2>3, <2>5 DEF Behind
  <2> QED
    BY <2>6
<1>9. CASE ClosedFile(e)
  <2>1. /\ epc[e] = "write" /\ sent[e] = 2 * Len(data[e]) /\ etype[e] = "thermal"
        /\ etype'[e] = "load" /\ data'[e] = <<>> /\ sent'[e] = 0
        /\ UNCHANGED <<counter, atStart, csv, writers>>
    BY <1>9 DEF ClosedFile, files
  <2>2. csv[counter[e]] = Beginning(<<>> \o data[e], 2 * Len(<<>>) + sent[e])
    BY <1>1, <2>1 DEF OwnOK, Behind
  <2>3. <<>> \o data[e] = data[e] \o <<>> /\ 2 * Len(<<>>) + sent[e] = 2 * Len(data[e]) + 0
    <3>1. <<>> \o data[e] = data[e] /\ data[e] \o <<>> = data[e]
      BY <1>3, ConcatEmptySeq
    <3> QED
      BY <1>3, <2>1, <3>1
  <2>4. PICK s \in Seq(Reading) : s = data[e]
    BY <1>3
  <2>5. \A x \in Reading :
          /\ x.type # "thermal" => Count(s, x) = 0
          /\ x.type = "thermal" => Count(s, x) <= Count(Joined, x)
          /\ x.type = "thermal" => Count(s, x) >= Count(atStart[e], x)
    BY <1>1, <2>1, <2>4 DEF BasicOK, DataOK
  <2>6. csv'[counter'[e]] = Beginning(s \o data'[e], 2 * Len(s) + sent'[e])
    BY <2>1, <2>2, <2>3, <2>4
  <2>7. Behind(e, s)'
    BY <1>2, <2>1, <2>5, <2>6 DEF Behind
  <2> QED
    BY <2>7
<1> QED
  BY <1>1, <1>4, <1>5, <1>6, <1>7, <1>8, <1>9, StepEffect

\* At the end of an export everything is in the file.
LEMMA SuccessStep ==
  ASSUME ExportInv, NEW e \in Exporter, ExporterStep(e)
  PROVE  SuccessOK(e)'
<1>1. ExportTypes /\ DbInv /\ BasicOK(e) /\ OwnOK(e)
  BY DEF ExportInv
<1>2. CASE ~Ended(e)
  <2>1. exit[e] = "none"
    BY <1>1, <1>2, StepEffect
    DEF BasicOK, FlowOK, Started, GotRows, LookedForName, OpenedFile, Wrote, ClosedFile
  <2>2. exit'[e] = exit[e]
    BY <1>1, <1>2, StepEffect
    DEF Started, GotRows, LookedForName, OpenedFile, Wrote, ClosedFile
  <2> QED
    BY <2>1, <2>2 DEF SuccessOK, WroteAll
<1>3. CASE Ended(e)
  <2> SUFFICES ASSUME exit'[e] = "ok", writers'[counter'[e]] \subseteq {e}, NEW x \in Reading
               PROVE  RowCount(csv'[counter'[e]], x) >= Count(atStart'[e], x)
    BY DEF SuccessOK, WroteAll
  <2>1. /\ epc[e] = "write" /\ sent[e] = 2 * Len(data[e]) /\ etype[e] = "load"
        /\ counter'[e] = counter[e] /\ atStart'[e] = atStart[e]
        /\ UNCHANGED <<csv, writers>>
    BY <1>3 DEF Ended, files
  <2>2. PICK s \in Seq(Reading) : Behind(e, s)
    BY <1>1, <2>1 DEF OwnOK
  <2> DEFINE all == s \o data[e]
  <2>3. /\ all \in Seq(Reading) /\ Len(all) = Len(s) + Len(data[e])
        /\ data[e] \in Seq(Reading) /\ Len(data[e]) \in Nat /\ Len(s) \in Nat
        /\ Count(all, x) = Count(s, x) + Count(data[e], x)
    <3>1. data[e] \in Seq(Reading)
      BY <1>1 DEF ExportTypes
    <3> QED
      BY <3>1, ConcatProperties, CountOfConcat
  <2>4. csv[counter[e]] = Beginning(all, 2 * Len(s) + sent[e])
    BY <2>2 DEF Behind
  <2> HIDE DEF all
  <2>5. 2 * Len(s) + sent[e] = 2 * Len(all) /\ 2 * Len(all) \in 0 .. 2 * Len(all)
    <3>1. PICK i \in Nat, j \in Nat : i = Len(s) /\ j = Len(data[e])
      BY <2>3
    <3>2. Len(all) = i + j /\ sent[e] = 2 * j
      BY <2>1, <2>3, <3>1
    <3>3. 2 * i + 2 * j = 2 * (i + j) /\ 2 * (i + j) \in 0 .. 2 * (i + j)
      OBVIOUS
    <3> QED
      BY <3>1, <3>2, <3>3
  <2>6. RowCount(csv[counter[e]], x) = Count(all, x)
    BY <2>3, <2>4, <2>5, RowCountOfBeginning
  <2>7. /\ Count(s, x) \in Nat /\ Count(data[e], x) \in Nat /\ Count(atStart[e], x) \in Nat
        /\ x.type \in {"thermal", "load"}
    BY <1>1, <2>3, CountIs, CountsAreNumbers DEF Reading, ReadingType
  <2>8. \/ Count(s, x) >= Count(atStart[e], x)
        \/ Count(data[e], x) >= Count(atStart[e], x)
    BY <1>1, <2>1, <2>2, <2>7 DEF Behind, BasicOK, DataOK
  <2> QED
    BY <2>1, <2>3, <2>6, <2>7, <2>8
<1> QED
  BY <1>2, <1>3

\* The files, one at a time: the one that e writes to, and the others.
LEMMA FilesStep ==
  ASSUME ExportInv, NEW e \in Exporter, ExporterStep(e), NEW n \in Name
  PROVE  FileOK(n)'
<1>1. ExportTypes /\ DbInv /\ BasicOK(e) /\ OpenedOK(e) /\ OwnOK(e) /\ FileOK(n)
  BY DEF ExportInv, BasicOK
<1>2. UNCHANGED dbVars /\ Joined' = Joined
  BY <1>1, StepEffect DEF dbVars, Joined
<1>3. /\ writers[n] \subseteq writers'[n]
      /\ \/ csv'[n] = csv[n] /\ writers'[n] = writers[n]
         \/ n = counter[e] /\ e \in writers'[n]
  BY <1>1, ExporterFrame
<1>4. CASE csv'[n] = csv[n]
  <2>1. ASSUME NEW s, NEW m, Holds(n, s, m) PROVE Holds(n, s, m)'
    BY <1>2, <1>4, <2>1 DEF Holds
  <2>2. writers'[n] = {} => csv'[n] = <<>>
    BY <1>1, <1>3, <1>4 DEF FileOK
  <2>3. ASSUME NEW q \in Exporter, writers'[n] \subseteq {q}
        PROVE  \E s \in Seq(Reading) : \E m \in 0 .. 2 * Len(s) : Holds(n, s, m)'
    <3>1. writers[n] \subseteq {q}
      BY <1>3, <2>3
    <3>2. PICK s \in Seq(Reading) : \E m \in 0 .. 2 * Len(s) : Holds(n, s, m)
      BY <1>1, <3>1 DEF FileOK
    <3>3. PICK m \in 0 .. 2 * Len(s) : Holds(n, s, m)
      BY <3>2
    <3>4. Holds(n, s, m)'
      BY <2>1, <3>3
    <3> QED
      BY <3>4
  <2> QED
    BY <2>2, <2>3 DEF FileOK
<1>5. CASE csv'[n] # csv[n]
  <2>1. n = counter[e] /\ e \in writers'[n]
    BY <1>3, <1>5
  <2>2. Wrote(e)
    BY <1>1, <1>5, StepEffect
    DEF Ended, Started, GotRows, LookedForName, OpenedFile, ClosedFile, files
  <2>3. UNCHANGED <<epc, etype, data, counter, writers>> /\ epc[e] = "write"
    BY <2>2 DEF Wrote
  <2>4. ASSUME writers'[n] \subseteq {e}
        PROVE  \E s \in Seq(Reading) : \E m \in 0 .. 2 * Len(s) : Holds(n, s, m)'
    <3>1. OwnOK(e)' /\ BasicOK(e)' /\ ExportTypes'
      BY <1>1, OwnStep, BasicStep, TypesStep
    <3>2. PICK s \in Seq(Reading) : Behind(e, s)'
      BY <2>1, <2>3, <2>4, <3>1 DEF OwnOK
    <3>3. PICK d \in Seq(Reading) : d = data[e]
      BY <1>1 DEF ExportTypes
    <3>4. PICK k \in Nat : k = sent'[e]
      BY <3>1 DEF ExportTypes
    <3>5. k <= 2 * Len(d)
      BY <2>3, <3>1, <3>3, <3>4 DEF BasicOK, DataOK
    <3>6. PICK all \in Seq(Reading) : all = s \o d
      BY ConcatProperties
    <3>7. /\ Len(all) = Len(s) + Len(d)
          /\ \A x : Count(all, x) = Count(s, x) + Count(d, x)
      BY <3>6, ConcatProperties, CountOfConcat
    <3>8. PICK m \in 0 .. 2 * Len(all) : m = 2 * Len(s) + k
      BY <3>5, <3>7
    <3>9. csv'[n] = Beginning(all, m)
      BY <2>1, <2>3, <3>2, <3>3, <3>4, <3>6, <3>8 DEF Behind
    <3>10. ASSUME NEW x \in Reading PROVE Count(all, x) <= Count(Joined, x)
      <4>1. /\ etype[e] \in {"thermal", "load"} /\ x.type \in {"thermal", "load"}
            /\ Count(Joined, x) \in Nat
            /\ \A y : Count(<<>>, y) = 0
        BY <1>1, CountsAreNumbers, CountOfNone DEF ExportTypes, ReadingType, Reading
      <4>2. Count(s, x) \in Nat /\ Count(d, x) \in Nat
        BY CountIs
      <4>3. /\ etype[e] = "thermal" => Count(s, x) = 0
            /\ x.type # "thermal" => Count(s, x) = 0
            /\ x.type = "thermal" => Count(s, x) <= Count(Joined, x)
        BY <1>2, <2>3, <3>2, <4>1 DEF Behind
      <4>4. /\ x.type # etype[e] => Count(d, x) = 0
            /\ x.type = etype[e] => Count(d, x) <= Count(Joined, x)
        BY <1>1, <3>3 DEF BasicOK, DataOK
      <4> QED
        BY <3>7, <4>1, <4>2, <4>3, <4>4
    <3>11. Holds(n, all, m)'
      BY <1>2, <3>9, <3>10 DEF Holds
    <3> QED
      BY <3>11
  <2> QED
    BY <2>1, <2>4 DEF FileOK
<1> QED
  BY <1>4, <1>5

LEMMA ExporterKeeps ==
  ASSUME ExportInv, NEW e \in Exporter, ExporterStep(e)
  PROVE  ExportInv'
<1>1. [Next]_dbVars
  BY DEF ExporterStep, ExportStep
<1>2. DbInv'
  BY <1>1, DbInvNext DEF ExportInv
<1>3. ExportTypes'
  BY TypesStep DEF ExportInv
<1>4. \A q \in Exporter : BasicOK(q)' /\ OwnOK(q)' /\ SuccessOK(q)'
  BY OthersKeep, BasicStep, OwnStep, SuccessStep
<1>5. \A n \in Name : FileOK(n)'
  BY FilesStep
<1> QED
  BY <1>2, <1>3, <1>4, <1>5 DEF ExportInv

-----------------------------------------------------------------------------
\* What a step of a logger leaves.

\* The same of the next state.
LEMMA JoinedNext == DbInv' => Joined' \in Seq(Reading)
<1>1. DbInv => Joined \in Seq(Reading)
  BY JoinedReadings
<1>2. (DbInv => Joined \in Seq(Reading))'
  BY <1>1, PTL
<1> QED
  BY <1>2

LEMMA SavingKeeps ==
  ASSUME ExportInv, [Next]_dbVars, UNCHANGED <<exporter, files>>
  PROVE  ExportInv'
<1>1. DbInv' /\ ExportTypes'
  BY DbInvNext DEF ExportInv, ExportTypes, exporter, files
<1>2. ASSUME NEW x
      PROVE  /\ Count(Joined, x) <= Count(Joined', x)
             /\ Count(Joined, x) \in Nat /\ Count(Joined', x) \in Nat
             /\ \A s \in Seq(Reading) : Count(s, x) \in Nat
  <2>1. Joined \in Seq(Reading)
    BY JoinedReadings DEF ExportInv
  <2>2. Joined' \in Seq(Reading)
    BY <1>1, JoinedNext
  <2>3. \A k \in DOMAIN Joined : k \in DOMAIN Joined' /\ Joined'[k] = Joined[k]
    BY JoinedKept DEF ExportInv
  <2>4. \A s, t \in Seq(Reading) :
          (\A k \in DOMAIN s : k \in DOMAIN t /\ t[k] = s[k]) => Count(s, x) <= Count(t, x)
    BY CountOfStart
  <2>5. \A s \in Seq(Reading) : Count(s, x) \in Nat
    BY CountIs
  <2> QED
    BY <2>1, <2>2, <2>3, <2>4, <2>5
<1>3. ASSUME NEW e \in Exporter PROVE BasicOK(e)' /\ OwnOK(e)' /\ SuccessOK(e)'
  <2>1. BasicOK(e) /\ OwnOK(e) /\ SuccessOK(e) /\ data[e] \in Seq(Reading)
    BY DEF ExportInv, ExportTypes
  <2>2. FlowOK(e)' /\ OlderOK(e)' /\ OpenedOK(e)' /\ SuccessOK(e)'
    BY <2>1 DEF BasicOK, FlowOK, OlderOK, OpenedOK, SuccessOK, WroteAll, exporter, files
  <2>3. FoundOK(e)'
    BY <2>1, JoinedKept DEF BasicOK, FoundOK, ExportInv, exporter
  <2>4. DataOK(e)'
    BY <1>2, <2>1 DEF BasicOK, DataOK, exporter
  <2>5. OwnOK(e)'
    <3> SUFFICES ASSUME epc[e] = "write" \/ etype[e] = "load", writers[counter[e]] \subseteq {e}
                 PROVE  \E s \in Seq(Reading) : Behind(e, s)'
      BY DEF OwnOK, exporter, files
    <3>1. PICK s \in Seq(Reading) : Behind(e, s)
      BY <2>1 DEF OwnOK
    <3>2. Behind(e, s)'
      BY <1>2, <3>1 DEF Behind, exporter, files
    <3> QED
      BY <3>2
  <2> QED
    BY <2>2, <2>3, <2>4, <2>5 DEF BasicOK
<1>4. ASSUME NEW n \in Name PROVE FileOK(n)'
  <2>1. ASSUME NEW s \in Seq(Reading), NEW m, Holds(n, s, m) PROVE Holds(n, s, m)'
    BY <1>2, <2>1 DEF Holds, files
  <2>2. FileOK(n)
    BY DEF ExportInv
  <2> QED
    BY <2>1, <2>2 DEF FileOK, files
<1> QED
  BY <1>1, <1>3, <1>4 DEF ExportInv

LEMMA ExportInvInit == ExportInit => ExportInv
<1> SUFFICES ASSUME ExportInit PROVE ExportInv
  OBVIOUS
<1>1. DbInv
  BY DbInvInit DEF ExportInit
<1>2. <<>> \in Seq(Reading) /\ Len(<<>>) = 0 /\ 0 \in Name /\ Earlier \subseteq Name
  BY MaxNameAssumption, EarlierAssumption DEF Name
<1>3. ExportTypes
  <2>1. <<>> \in Seq(Fragment)
    OBVIOUS
  <2> QED
    BY <1>2, <2>1 DEF ExportInit, ExportTypes, ReadingType
<1>4. \A x : Count(<<>>, x) = 0
  BY CountOfNone
<1>5. \A k \in DOMAIN <<>> : FALSE
  OBVIOUS
<1>6. \A x : Count(Joined, x) \in Nat
  BY <1>1, <1>3, CountsAreNumbers
<1>7. ASSUME NEW e \in Exporter PROVE BasicOK(e) /\ OwnOK(e) /\ SuccessOK(e)
  BY <1>2, <1>4, <1>5, <1>6, <1>7
  DEF ExportInit, BasicOK, FlowOK, OlderOK, FoundOK, DataOK, OpenedOK, OwnOK, SuccessOK, WroteAll
<1>8. ASSUME NEW n \in Name PROVE FileOK(n)
  <2>1. csv[n] = <<>> /\ Beginning(<<>>, 0) = <<>> /\ 0 \in 0 .. 2 * Len(<<>>)
    BY <1>2, <1>8, BeginningOfNone DEF ExportInit
  <2>2. Holds(n, <<>>, 0)
    BY <1>4, <1>6, <2>1 DEF Holds
  <2> QED
    BY <1>2, <2>1, <2>2 DEF FileOK
<1> QED
  BY <1>1, <1>3, <1>7, <1>8 DEF ExportInv

LEMMA ExportInvNext == ExportInv /\ [ExportNext]_exportVars => ExportInv'
<1> SUFFICES ASSUME ExportInv, [ExportNext]_exportVars PROVE ExportInv'
  OBVIOUS
<1>1. CASE UNCHANGED exportVars
  BY <1>1, SavingKeeps DEF exportVars
<1>2. CASE Next /\ UNCHANGED <<exporter, files>>
  BY <1>2, SavingKeeps
<1>3. ASSUME NEW e \in Exporter, ExportStep(e) \/ (KillExporter(e) /\ UNCHANGED dbVars)
      PROVE  ExportInv'
  BY <1>3, ExporterKeeps DEF ExporterStep
<1> QED
  BY <1>1, <1>2, <1>3 DEF ExportNext

-----------------------------------------------------------------------------
\* Earlier exports stay as they are: whatever file an exporter writes to, it
\* was not there when the exporter started, however many exporters pick names
\* at the same time.
THEOREM OlderExportsKept == ExportSpec => []OlderFilesKept
<1>1. ExportInv => OlderFilesKept
  BY DEF ExportInv, BasicOK, OlderOK, OlderFilesKept
<1> QED
  BY ExportInvInit, ExportInvNext, <1>1, PTL DEF ExportSpec

\* Success means that every reading of both types that was in the database at
\* the start is a row of the CSV file, as often as it was there: wherever the
\* buffer is flushed, and although loggers save meanwhile, as long as no other
\* exporter opens the same file.
THEOREM ExportsAreComplete == ExportSpec => []ExportComplete
<1>1. ExportInv => ExportComplete
  BY DEF ExportInv, SuccessOK, ExportComplete
<1> QED
  BY ExportInvInit, ExportInvNext, <1>1, PTL DEF ExportSpec

\* The file of a single exporter, also of one that failed or was killed in the
\* middle of a row, has no row more than the database has for a reading, and no
\* line that is torn and ended.
THEOREM NothingMadeUp == ExportSpec => []NothingInvented
<1>1. ASSUME ExportInv, NEW n \in Name, NEW e \in Exporter, writers[n] \subseteq {e}
      PROVE  /\ \A x \in Reading : RowCount(csv[n], x) <= Count(Joined, x)
             /\ \A i \in DOMAIN csv[n] :
                  csv[n][i].part = "tail" => i - 1 \in RowsAt(csv[n])
  <2>1. PICK s \in Seq(Reading) : \E m \in 0 .. 2 * Len(s) : Holds(n, s, m)
    BY <1>1 DEF ExportInv, FileOK
  <2>2. PICK m \in 0 .. 2 * Len(s) : Holds(n, s, m)
    BY <2>1
  <2>3. csv[n] = Beginning(s, m) /\ \A x \in Reading : Count(s, x) <= Count(Joined, x)
    BY <2>2 DEF Holds
  <2>4. ASSUME NEW x \in Reading PROVE RowCount(csv[n], x) <= Count(Joined, x)
    <3>1. RowCount(csv[n], x) <= Count(s, x) /\ Count(s, x) <= Count(Joined, x)
      BY <2>3, RowCountOfBeginning
    <3>2. Count(s, x) \in Nat /\ Count(Joined, x) \in Nat
      BY <1>1, CountIs, CountsAreNumbers DEF ExportInv
    <3>3. RowCount(csv[n], x) \in Int
      <4>1. IsFiniteSet({i \in RowsAt(csv[n]) : csv[n][i].of = x})
        <5>1. csv[n] \in Seq(Fragment) /\ Len(csv[n]) \in Nat
          BY <1>1 DEF ExportInv, ExportTypes
        <5>2. IsFiniteSet(1 .. Len(csv[n]))
          <6>1. 1 \in Int /\ Len(csv[n]) \in Int
            BY <5>1
          <6> QED
            BY <6>1, FS_Interval
        <5>3. {i \in RowsAt(csv[n]) : csv[n][i].of = x} \subseteq 1 .. Len(csv[n])
          BY <5>1 DEF RowsAt
        <5> QED
          BY <5>2, <5>3, FS_Subset
      <4>2. RowCount(csv[n], x) \in Nat
        BY <4>1, FS_CardinalityType DEF RowCount
      <4> QED
        BY <4>2
    <3> QED
      BY <3>1, <3>2, <3>3
  <2>5. \A i \in DOMAIN csv[n] : csv[n][i].part = "tail" => i - 1 \in RowsAt(csv[n])
    BY <2>3, RowsOfBeginning
  <2> QED
    BY <2>4, <2>5
<1>2. ExportInv => NothingInvented
  BY <1>1 DEF NothingInvented
<1> QED
  BY ExportInvInit, ExportInvNext, <1>2, PTL DEF ExportSpec
=============================================================================
