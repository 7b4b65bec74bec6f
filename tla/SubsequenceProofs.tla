------------------------- MODULE SubsequenceProofs -------------------------
(***************************************************************************)
(* What the proofs about the stores need to know of subsequences: a start  *)
(* of s that is stored in t stays stored when t grows, and grows with t.   *)
(* And that a set of numbers has a least one: what recursive functions and *)
(* loops compute is proved from a least counterexample.                    *)
(***************************************************************************)
EXTENDS Subsequence, SequenceTheorems, FiniteSetTheorems, TLAPS

\* A set of natural numbers has a least one: the least of the intervals from 1
\* to one of them, as inclusion of finite sets is well founded.
LEMMA LeastNumber ==
  ASSUME NEW B \in SUBSET Nat, B # {}
  PROVE  \E k \in B : \A m \in B : k <= m
<1>1. PICK n \in B : TRUE
  OBVIOUS
<1> DEFINE T == {1 .. k : k \in {k \in B : k <= n}}
<1>2. T \subseteq FiniteSubsetsOf(1 .. n)
  <2>1. ASSUME NEW k \in B, k <= n PROVE 1 .. k \in FiniteSubsetsOf(1 .. n)
    <3>1. k \in Nat /\ n \in Nat
      OBVIOUS
    <3>2. 1 .. k \in SUBSET (1 .. n)
      BY <2>1, <3>1
    <3>3. IsFiniteSet(1 .. k)
      BY <3>1, FS_Interval
    <3> QED
      BY <3>2, <3>3 DEF FiniteSubsetsOf
  <2> QED
    BY <2>1
<1>3. 1 .. n \in T
  OBVIOUS
<1>4. IsWellFoundedOn(StrictSubsetOrdering(1 .. n), FiniteSubsetsOf(1 .. n))
  BY FS_StrictSubsetOrderingWellFounded
<1>5. PICK X \in T : \A Y \in T : ~(<<Y, X>> \in StrictSubsetOrdering(1 .. n))
  <2> HIDE DEF T
  <2>1. T # {}
    BY <1>3
  <2> QED
    BY <1>2, <1>4, <2>1, WFMin
<1>6. PICK k \in B : k <= n /\ X = 1 .. k
  OBVIOUS
<1>7. ASSUME NEW m \in B, m < k PROVE FALSE
  <2>1. m \in Nat /\ k \in Nat /\ n \in Nat /\ m <= n
    BY <1>6, <1>7
  <2>2. 1 .. m \in T
    BY <2>1
  <2>3. 1 .. m \subseteq 1 .. k /\ k \in 1 .. k /\ k \notin 1 .. m
    BY <1>7, <2>1
  <2>4. X \in SUBSET (1 .. n)
    BY <1>2 DEF FiniteSubsetsOf
  <2>5. <<1 .. m, X>> \in StrictSubsetOrdering(1 .. n)
    BY <1>6, <2>3, <2>4 DEF StrictSubsetOrdering
  <2> QED
    BY <1>5, <2>2, <2>5
<1> QED
  BY <1>6, <1>7

\* Of no element at all nothing needs to be stored.
LEMMA NothingStored ==
  ASSUME NEW s, NEW t
  PROVE  StartStored(s, 0, t)
<1> DEFINE f == [i \in 1 .. 0 |-> i]
<1>1. f \in [1 .. 0 -> DOMAIN t]
  OBVIOUS
<1>2. \A i \in 1 .. 0 : FALSE
  OBVIOUS
<1> QED
  BY <1>1, <1>2 DEF StartStored

\* A start that is as long as s is all of s.
LEMMA AllStored ==
  ASSUME NEW S, NEW s \in Seq(S), NEW t, StartStored(s, Len(s), t)
  PROVE  IsSubsequence(s, t)
<1>1. DOMAIN s = 1 .. Len(s)
  OBVIOUS
<1> QED
  BY <1>1 DEF StartStored, IsSubsequence

\* Only the start matters, not what follows it.
LEMMA SameStart ==
  ASSUME NEW s, NEW r, NEW k \in Nat, NEW t,
         \A i \in 1 .. k : s[i] = r[i], StartStored(s, k, t)
  PROVE  StartStored(r, k, t)
BY DEF StartStored

\* What is appended to t, by whomever, leaves the start stored.
LEMMA StillStored ==
  ASSUME NEW S, NEW s, NEW k \in Nat, NEW t \in Seq(S), NEW u \in Seq(S),
         StartStored(s, k, t)
  PROVE  StartStored(s, k, t \o u)
<1>1. PICK f \in [1 .. k -> DOMAIN t] :
        /\ \A i \in 1 .. k : t[f[i]] = s[i]
        /\ \A i, j \in 1 .. k : i < j => f[i] < f[j]
  BY DEF StartStored
<1>2. /\ DOMAIN t = 1 .. Len(t)
      /\ DOMAIN (t \o u) = 1 .. Len(t) + Len(u)
      /\ Len(t) \in Nat /\ Len(u) \in Nat
  BY ConcatProperties, LenProperties
<1>3. \A i \in DOMAIN t : (t \o u)[i] = t[i]
  BY <1>2, ConcatProperties
<1>4. f \in [1 .. k -> DOMAIN (t \o u)]
  BY <1>2
<1>5. \A i \in 1 .. k : (t \o u)[f[i]] = s[i]
  <2>1. \A i \in 1 .. k : f[i] \in DOMAIN t
    OBVIOUS
  <2> QED
    BY <2>1, <1>1, <1>3
<1> QED
  BY <1>1, <1>4, <1>5 DEF StartStored

\* When the next n elements of s are appended, the start grows by them.
LEMMA MoreStored ==
  ASSUME NEW S, NEW s \in Seq(S), NEW t \in Seq(S), NEW k \in Nat, NEW n \in Nat,
         k + n <= Len(s), StartStored(s, k, t)
  PROVE  StartStored(s, k + n, t \o SubSeq(s, k + 1, k + n))
<1> DEFINE u == SubSeq(s, k + 1, k + n)
           m == Len(t)
<1>1. PICK f \in [1 .. k -> DOMAIN t] :
        /\ \A i \in 1 .. k : t[f[i]] = s[i]
        /\ \A i, j \in 1 .. k : i < j => f[i] < f[j]
  BY DEF StartStored
<1>2. /\ u \in Seq(S)
      /\ Len(u) = n
      /\ \A i \in 1 .. n : u[i] = s[k + i]
  <2>1. \A i \in k + 1 .. k + n : s[i] \in S
    BY ElementOfSeq, LenProperties
  <2>2. /\ u \in Seq(S)
        /\ Len(u) = IF k + 1 <= k + n THEN (k + n) - (k + 1) + 1 ELSE 0
        /\ \A i \in 1 .. (k + n) - (k + 1) + 1 : u[i] = s[(k + 1) + i - 1]
    BY <2>1, SubSeqProperties
  <2> QED
    BY <2>2
<1>3. /\ m \in Nat
      /\ DOMAIN t = 1 .. m
      /\ DOMAIN (t \o u) = 1 .. m + n
      /\ \A i \in 1 .. m + n : (t \o u)[i] = IF i <= m THEN t[i] ELSE u[i - m]
  <2>1. m \in Nat /\ DOMAIN t = 1 .. m
    BY LenProperties
  <2> HIDE DEF u
  <2>2. /\ t \o u \in Seq(S)
        /\ Len(t \o u) = Len(t) + n
        /\ \A i \in 1 .. Len(t) + n :
             (t \o u)[i] = IF i <= Len(t) THEN t[i] ELSE u[i - Len(t)]
    BY <1>2, ConcatProperties
  <2>3. DOMAIN (t \o u) = 1 .. Len(t) + n
    BY <2>2, LenProperties
  <2> QED
    BY <2>1, <2>2, <2>3
<1> DEFINE g == [i \in 1 .. k + n |-> IF i <= k THEN f[i] ELSE m + (i - k)]
<1> HIDE DEF u, m
<1>4. \A i \in 1 .. k : f[i] \in 1 .. m
  BY <1>3
<1>5. g \in [1 .. k + n -> DOMAIN (t \o u)]
  BY <1>3, <1>4
<1>6. ASSUME NEW i \in 1 .. k + n
      PROVE  (t \o u)[g[i]] = s[i]
  <2>1. CASE i <= k
    <3>1. i \in 1 .. k /\ g[i] = f[i] /\ f[i] \in 1 .. m
      BY <2>1, <1>4
    <3> QED
      BY <3>1, <1>1, <1>3
  <2>2. CASE i > k
    <3>1. g[i] = m + (i - k) /\ i - k \in 1 .. n
      BY <2>2
    <3> DEFINE j == i - k
    <3>2. k + j = i /\ j \in 1 .. n /\ g[i] = m + j
      BY <3>1
    <3> HIDE DEF g, j
    <3>3. m + j \in 1 .. m + n /\ ~(m + j <= m) /\ (m + j) - m = j
      BY <3>2, <1>3
    <3>4. (t \o u)[g[i]] = u[j]
      BY <3>2, <3>3, <1>3
    <3>5. u[j] = s[i]
      BY <3>2, <1>2
    <3> QED
      BY <3>4, <3>5
  <2>3. i <= k \/ i > k
    OBVIOUS
  <2> HIDE DEF g
  <2> QED
    BY <2>1, <2>2, <2>3
<1>7. ASSUME NEW i \in 1 .. k + n, NEW j \in 1 .. k + n, i < j
      PROVE  g[i] < g[j]
  <2>1. CASE j <= k
    BY <2>1, <1>1, <1>7
  <2>2. CASE i <= k /\ j > k
    <3>1. f[i] \in 1 .. m /\ g[i] = f[i] /\ g[j] = m + (j - k)
      BY <2>2, <1>4
    <3> QED
      BY <3>1, <2>2, <1>3
  <2>3. CASE i > k
    BY <2>3, <1>3, <1>7
  <2> QED
    BY <2>1, <2>2, <2>3
<1> QED
  BY <1>5, <1>6, <1>7 DEF StartStored, u

-----------------------------------------------------------------------------
\* What is left of s after its first k elements, u, begins with the elements
\* from k + 1 on; after n of them follows what is left of s after k + n.
LEMMA StretchOfRest ==
  ASSUME NEW S, NEW s \in Seq(S), NEW k \in Nat, NEW n \in 1 .. Len(s) - k,
         NEW u, u = SubSeq(s, k + 1, Len(s))
  PROVE  /\ u \in Seq(S)
         /\ Len(u) = Len(s) - k
         /\ SubSeq(u, 1, n) = SubSeq(s, k + 1, k + n)
         /\ SubSeq(u, n + 1, Len(u)) = SubSeq(s, k + n + 1, Len(s))
<1>1. Len(s) \in Nat /\ \A i \in 1 .. Len(s) : s[i] \in S
  BY ElementOfSeq, LenProperties
<1>2. /\ u \in Seq(S) /\ Len(u) = Len(s) - k
      /\ \A i \in 1 .. Len(s) - k : u[i] = s[k + i]
  <2>1. \A i \in k + 1 .. Len(s) : s[i] \in S
    BY <1>1
  <2>2. /\ u \in Seq(S)
        /\ Len(u) = IF k + 1 <= Len(s) THEN Len(s) - (k + 1) + 1 ELSE 0
        /\ \A i \in 1 .. Len(s) - (k + 1) + 1 : u[i] = s[(k + 1) + i - 1]
    BY <1>1, <2>1, SubSeqProperties
  <2> QED
    BY <1>1, <2>2
<1>3. SubSeq(u, 1, n) = SubSeq(s, k + 1, k + n)
  <2> DEFINE left == SubSeq(u, 1, n)
             right == SubSeq(s, k + 1, k + n)
  <2>1. (\A i \in 1 .. n : u[i] \in S) /\ (\A i \in k + 1 .. k + n : s[i] \in S)
    BY <1>1, <1>2
  <2>2. /\ left \in Seq(S) /\ Len(left) = n
        /\ \A i \in 1 .. n : left[i] = u[i]
    BY <2>1, SubSeqProperties
  <2>3. /\ right \in Seq(S) /\ Len(right) = n
        /\ \A i \in 1 .. n : right[i] = s[k + i]
    BY <2>1, SubSeqProperties
  <2> HIDE DEF left, right
  <2>4. \A i \in 1 .. Len(left) : left[i] = right[i]
    <3>1. ASSUME NEW i \in 1 .. n
          PROVE  left[i] = right[i]
      <4>1. i \in 1 .. Len(s) - k
        BY <1>1
      <4> QED
        BY <1>2, <2>2, <2>3, <4>1
    <3> QED
      BY <2>2, <3>1
  <2>5. left = right
    BY <2>2, <2>3, <2>4, SeqEqual
  <2> QED
    BY <2>5 DEF left, right
<1>4. SubSeq(u, n + 1, Len(u)) = SubSeq(s, k + n + 1, Len(s))
  <2> DEFINE left == SubSeq(u, n + 1, Len(u))
             right == SubSeq(s, k + n + 1, Len(s))
             m == Len(s) - k - n
  <2>1. /\ \A i \in n + 1 .. Len(u) : u[i] \in S
        /\ \A i \in k + n + 1 .. Len(s) : s[i] \in S
        /\ m \in Nat
    BY <1>1, <1>2
  <2>2. /\ left \in Seq(S) /\ Len(left) = m
        /\ \A i \in 1 .. m : left[i] = u[n + i]
    <3>1. /\ left \in Seq(S)
          /\ Len(left) = IF n + 1 <= Len(u) THEN Len(u) - (n + 1) + 1 ELSE 0
          /\ \A i \in 1 .. Len(u) - (n + 1) + 1 : left[i] = u[(n + 1) + i - 1]
      BY <1>1, <1>2, <2>1, SubSeqProperties
    <3>2. /\ Len(u) - (n + 1) + 1 = m
          /\ (IF n + 1 <= Len(u) THEN Len(u) - (n + 1) + 1 ELSE 0) = m
          /\ \A i \in 1 .. m : (n + 1) + i - 1 = n + i
      BY <1>1, <1>2
    <3> HIDE DEF left, m
    <3> QED
      BY <3>1, <3>2
  <2>3. /\ right \in Seq(S) /\ Len(right) = m
        /\ \A i \in 1 .. m : right[i] = s[k + n + i]
    <3>1. /\ right \in Seq(S)
          /\ Len(right) = IF k + n + 1 <= Len(s) THEN Len(s) - (k + n + 1) + 1 ELSE 0
          /\ \A i \in 1 .. Len(s) - (k + n + 1) + 1 : right[i] = s[(k + n + 1) + i - 1]
      BY <1>1, <2>1, SubSeqProperties
    <3> HIDE DEF right
    <3> QED
      BY <1>1, <3>1
  <2> HIDE DEF left, right
  <2>4. \A i \in 1 .. Len(left) : left[i] = right[i]
    <3>1. ASSUME NEW i \in 1 .. m
          PROVE  left[i] = right[i]
      <4>1. n + i \in 1 .. Len(s) - k /\ k + (n + i) = k + n + i
        BY <1>1
      <4> QED
        BY <1>2, <2>2, <2>3, <4>1
    <3> QED
      BY <2>2, <3>1
  <2>5. left = right
    BY <2>2, <2>3, <2>4, SeqEqual
  <2> QED
    BY <2>5 DEF left, right
<1> QED
  BY <1>2, <1>3, <1>4
=============================================================================
