--------------------------- MODULE TemplateProofs ---------------------------
(***************************************************************************)
(* Proofs about TemplateText, for any files and any values: what its       *)
(* recursive functions and its loop of search and replacement compute.     *)
(***************************************************************************)
EXTENDS TemplateText, SubsequenceProofs

-----------------------------------------------------------------------------
\* Texts in pieces.

\* What holds at first and carries over to the next number holds for all.
LEMMA Upwards ==
  ASSUME NEW n \in Nat, NEW G, 0 \in G, \A k \in 0 .. n - 1 : k \in G => k + 1 \in G
  PROVE  \A k \in 0 .. n : k \in G
<1> DEFINE Bad == {k \in 0 .. n : k \notin G}
<1> SUFFICES ASSUME Bad # {} PROVE FALSE
  OBVIOUS
<1>1. PICK k \in Bad : \A m \in Bad : k <= m
  <2>1. Bad \in SUBSET Nat
    OBVIOUS
  <2> HIDE DEF Bad
  <2> QED
    BY <2>1, LeastNumber
<1>2. k \in 1 .. n
  OBVIOUS
<1>3. k - 1 \in 0 .. n - 1 /\ k - 1 \notin Bad /\ k - 1 \in 0 .. n
  BY <1>1, <1>2
<1> QED
  BY <1>2, <1>3

\* The starts and the rests of a text that is given in pieces: F[i] is made of
\* the first i pieces, S[i] of the others.
Parts(P, F, S) ==
  /\ DOMAIN F = 0 .. Len(P)
  /\ DOMAIN S = 0 .. Len(P)
  /\ F[0] = <<>>
  /\ S[Len(P)] = <<>>
  /\ \A i \in 1 .. Len(P) : F[i] = F[i - 1] \o P[i] /\ S[i - 1] = P[i] \o S[i]
  /\ \A i \in 0 .. Len(P) : F[i] \o S[i] = FlattenSeq(P)

\* Joining the pieces one after the other gives the starts of a text.
LEMMA StartsExist ==
  ASSUME NEW C, NEW P \in Seq(Seq(C))
  PROVE  \E F \in [0 .. Len(P) -> Seq(C)] :
           F[0] = <<>> /\ \A i \in 1 .. Len(P) : F[i] = F[i - 1] \o P[i]
<1> DEFINE n == Len(P)
           Good(k, F) == F[0] = <<>> /\ \A i \in 1 .. k : F[i] = F[i - 1] \o P[i]
           G == {k \in 0 .. n : \E F \in [0 .. k -> Seq(C)] : Good(k, F)}
<1>1. n \in Nat /\ \A i \in 1 .. n : P[i] \in Seq(C)
  OBVIOUS
<1> HIDE DEF n
<1>2. 0 \in G
  <2> DEFINE F == [i \in 0 .. 0 |-> <<>>]
  <2>1. F \in [0 .. 0 -> Seq(C)]
    OBVIOUS
  <2>2. Good(0, F)
    <3>1. \A i \in 1 .. 0 : FALSE
      OBVIOUS
    <3> QED
      BY <3>1
  <2>3. 0 \in 0 .. n
    BY <1>1
  <2> HIDE DEF F, Good
  <2> QED
    BY <2>1, <2>2, <2>3
<1>3. ASSUME NEW k \in 0 .. n - 1, k \in G PROVE k + 1 \in G
  <2>1. PICK F \in [0 .. k -> Seq(C)] : Good(k, F)
    BY <1>3
  <2> DEFINE H == [i \in 0 .. k + 1 |-> IF i = k + 1 THEN F[k] \o P[k + 1] ELSE F[i]]
  <2>2. k \in Nat /\ k + 1 \in 1 .. n /\ k + 1 \in 0 .. n
    BY <1>1
  <2>3. F[k] \in Seq(C) /\ P[k + 1] \in Seq(C)
    BY <1>1, <2>2
  <2>4. F[k] \o P[k + 1] \in Seq(C)
    BY <2>3
  <2>5. H \in [0 .. k + 1 -> Seq(C)]
    BY <2>2, <2>4
  <2>6. H[0] = <<>>
    BY <2>1, <2>2
  <2>7. ASSUME NEW i \in 1 .. k + 1 PROVE H[i] = H[i - 1] \o P[i]
    <3>1. CASE i = k + 1
      <4>1. H[i] = F[k] \o P[k + 1]
        BY <2>2, <3>1
      <4>2. i - 1 = k /\ k \in 0 .. k + 1 /\ k # k + 1
        BY <2>2, <3>1
      <4>3. H[i - 1] = F[k]
        BY <4>2
      <4> HIDE DEF H
      <4> QED
        BY <3>1, <4>1, <4>3
    <3>2. CASE i \in 1 .. k
      <4>1. /\ i \in 0 .. k + 1 /\ i # k + 1
            /\ i - 1 \in 0 .. k + 1 /\ i - 1 # k + 1
        BY <2>2, <3>2
      <4>2. H[i] = F[i] /\ H[i - 1] = F[i - 1]
        BY <4>1
      <4> HIDE DEF H
      <4> QED
        BY <2>1, <3>2, <4>2
    <3>3. i = k + 1 \/ i \in 1 .. k
      BY <2>2
    <3> HIDE DEF H
    <3> QED
      BY <3>1, <3>2, <3>3
  <2>8. Good(k + 1, H)
    BY <2>6, <2>7
  <2> HIDE DEF H, Good
  <2> QED
    BY <2>2, <2>5, <2>8
<1>4. n \in G
  <2> HIDE DEF G
  <2>1. \A k \in 0 .. n : k \in G
    BY <1>1, <1>2, <1>3, Upwards
  <2> QED
    BY <1>1, <2>1
<1> QED
  BY <1>4 DEF n

\* The last of the starts is what FlattenSeq() makes of the pieces.
LEMMA LastStart ==
  ASSUME NEW C, NEW P \in Seq(Seq(C)), NEW F \in [0 .. Len(P) -> Seq(C)],
         F[0] = <<>>, \A i \in 1 .. Len(P) : F[i] = F[i - 1] \o P[i]
  PROVE  F[Len(P)] = FlattenSeq(P)
<1> DEFINE n == Len(P)
           Rec(f) == [i \in 1 .. n |-> IF i = 1 THEN P[i] ELSE f[i - 1] \o P[i]]
           flatten == CHOOSE f : f = Rec(f)
<1>1. n \in Nat /\ \A i \in 1 .. n : P[i] \in Seq(C) /\ F[i] = F[i - 1] \o P[i]
  <2>1. n \in Nat /\ \A i \in 1 .. n : P[i] \in Seq(C)
    OBVIOUS
  <2> QED
    BY <2>1
<1>2. FlattenSeq(P) = IF n = 0 THEN P ELSE flatten[n]
  BY DEF FlattenSeq
<1>3. n = 0 => P = <<>>
  OBVIOUS
<1> HIDE DEF n
<1>4. n > 0 => F[1] = P[1]
  <2> SUFFICES ASSUME n > 0 PROVE F[1] = P[1]
    OBVIOUS
  <2>1. 1 \in 1 .. n /\ 1 - 1 = 0
    BY <1>1
  <2>2. F[1] = F[0] \o P[1] /\ P[1] \in Seq(C)
    BY <1>1, <2>1
  <2> QED
    BY <2>2
<1>5. CASE n > 0
  <2> DEFINE own == [i \in 1 .. n |-> F[i]]
  <2>1. ASSUME NEW i \in 1 .. n
        PROVE  own[i] = IF i = 1 THEN P[i] ELSE own[i - 1] \o P[i]
    <3>1. CASE i = 1
      BY <1>4, <1>5, <3>1
    <3>2. CASE i # 1
      <4>1. i - 1 \in 1 .. n
        BY <1>1, <3>2
      <4>2. own[i - 1] = F[i - 1] /\ own[i] = F[i]
        BY <4>1
      <4> QED
        BY <1>1, <3>2, <4>2
    <3> QED
      BY <3>1, <3>2
  <2>2. own = Rec(own)
    BY <2>1
  <2>3. flatten = Rec(flatten)
    BY <2>2
  <2> HIDE DEF flatten, own
  <2> DEFINE G == {k \in 0 .. n : k > 0 => flatten[k] = F[k]}
  <2>4. 0 \in G
    BY <1>1
  <2>5. ASSUME NEW k \in 0 .. n - 1, k \in G PROVE k + 1 \in G
    <3>1. k \in Nat /\ k + 1 \in 1 .. n /\ k + 1 \in 0 .. n /\ (k + 1) - 1 = k
      BY <1>1
    <3>2. flatten[k + 1] = IF k + 1 = 1 THEN P[k + 1] ELSE flatten[(k + 1) - 1] \o P[k + 1]
      <4> DEFINE j == k + 1
      <4>1. j \in 1 .. n
        BY <3>1
      <4> HIDE DEF j
      <4>2. flatten[j] = IF j = 1 THEN P[j] ELSE flatten[j - 1] \o P[j]
        BY <2>3, <4>1
      <4> QED
        BY <4>2 DEF j
    <3>3. CASE k = 0
      BY <1>4, <1>5, <3>1, <3>2, <3>3
    <3>4. CASE k # 0
      <4>1. flatten[k] = F[k]
        BY <2>5, <3>1, <3>4
      <4>2. F[k + 1] = F[(k + 1) - 1] \o P[k + 1]
        BY <1>1, <3>1
      <4>3. k + 1 # 1
        BY <3>1, <3>4
      <4>4. flatten[k + 1] = F[k + 1]
        BY <3>1, <3>2, <4>1, <4>2, <4>3
      <4> QED
        BY <3>1, <4>4
    <3> QED
      BY <3>3, <3>4
  <2>6. n \in G
    <3> HIDE DEF G
    <3>1. \A k \in 0 .. n : k \in G
      BY <1>1, <2>4, <2>5, Upwards
    <3> QED
      BY <1>1, <3>1
  <2>7. F[n] = flatten[n]
    BY <1>5, <2>6
  <2> QED
    BY <1>2, <1>5, <2>7 DEF n
<1>6. CASE n = 0
  BY <1>2, <1>3, <1>6 DEF n
<1> QED
  BY <1>1, <1>5, <1>6

\* Joining them from the last one on gives its rests.
LEMMA RestsExist ==
  ASSUME NEW C, NEW P \in Seq(Seq(C))
  PROVE  \E S \in [0 .. Len(P) -> Seq(C)] :
           S[Len(P)] = <<>> /\ \A i \in 1 .. Len(P) : S[i - 1] = P[i] \o S[i]
<1> DEFINE n == Len(P)
           Good(k, S) == S[n] = <<>> /\ \A i \in n - k + 1 .. n : S[i - 1] = P[i] \o S[i]
           G == {k \in 0 .. n : \E S \in [n - k .. n -> Seq(C)] : Good(k, S)}
<1>1. n \in Nat /\ \A i \in 1 .. n : P[i] \in Seq(C)
  OBVIOUS
<1> HIDE DEF n
<1>2. 0 \in G
  <2> DEFINE S == [i \in n - 0 .. n |-> <<>>]
  <2>1. S \in [n - 0 .. n -> Seq(C)]
    OBVIOUS
  <2>2. Good(0, S)
    <3>1. \A i \in n - 0 + 1 .. n : FALSE
      BY <1>1
    <3>2. S[n] = <<>>
      BY <1>1
    <3> QED
      BY <3>1, <3>2
  <2>3. 0 \in 0 .. n
    BY <1>1
  <2> HIDE DEF S, Good
  <2> QED
    BY <2>1, <2>2, <2>3
<1>3. ASSUME NEW k \in 0 .. n - 1, k \in G PROVE k + 1 \in G
  <2>1. PICK S \in [n - k .. n -> Seq(C)] : Good(k, S)
    BY <1>3
  <2> DEFINE j == n - k
             H == [i \in j - 1 .. n |-> IF i = j - 1 THEN P[j] \o S[j] ELSE S[i]]
  <2>2. /\ k \in Nat /\ k + 1 \in 0 .. n
        /\ j \in 1 .. n /\ n - (k + 1) = j - 1 /\ j \in n - k .. n
        /\ n - (k + 1) + 1 = j /\ n - k + 1 = j + 1
    BY <1>1
  <2>3. S[j] \in Seq(C) /\ P[j] \in Seq(C)
    BY <1>1, <2>2
  <2>4. P[j] \o S[j] \in Seq(C)
    BY <2>3
  <2> HIDE DEF j
  <2>5. H \in [j - 1 .. n -> Seq(C)]
    <3>1. \A i \in j - 1 .. n : i = j - 1 \/ i \in n - k .. n
      BY <1>1, <2>2
    <3> QED
      BY <2>4, <3>1
  <2>6. H[n] = <<>>
    <3>1. n \in j - 1 .. n /\ n # j - 1
      BY <1>1, <2>2
    <3> QED
      BY <2>1, <3>1
  <2>7. ASSUME NEW i \in j .. n PROVE H[i - 1] = P[i] \o H[i]
    <3>1. CASE i = j
      <4>1. j - 1 \in j - 1 .. n /\ j \in j - 1 .. n /\ j # j - 1
        BY <1>1, <2>2
      <4>2. H[j - 1] = P[j] \o S[j] /\ H[j] = S[j]
        BY <4>1
      <4> HIDE DEF H
      <4> QED
        BY <3>1, <4>2
    <3>2. CASE i \in j + 1 .. n
      <4>1. /\ i \in j - 1 .. n /\ i # j - 1
            /\ i - 1 \in j - 1 .. n /\ i - 1 # j - 1
        BY <1>1, <2>2, <3>2
      <4>2. H[i] = S[i] /\ H[i - 1] = S[i - 1]
        BY <4>1
      <4> HIDE DEF H
      <4> QED
        BY <2>1, <2>2, <3>2, <4>2
    <3>3. i = j \/ i \in j + 1 .. n
      BY <1>1, <2>2
    <3> HIDE DEF H
    <3> QED
      BY <3>1, <3>2, <3>3
  <2>8. Good(k + 1, H)
    BY <2>2, <2>6, <2>7
  <2> HIDE DEF H, Good
  <2> QED
    BY <2>2, <2>5, <2>8
<1>4. n \in G
  <2> HIDE DEF G
  <2>1. \A k \in 0 .. n : k \in G
    BY <1>1, <1>2, <1>3, Upwards
  <2> QED
    BY <1>1, <2>1
<1>5. n - n = 0 /\ n - n + 1 = 1
  BY <1>1
<1> QED
  BY <1>4, <1>5 DEF n

\* Every text in pieces has starts and rests, which fit together.
LEMMA PartsExist ==
  ASSUME NEW C, NEW P \in Seq(Seq(C))
  PROVE  \E F, S : /\ F \in [0 .. Len(P) -> Seq(C)]
                   /\ S \in [0 .. Len(P) -> Seq(C)]
                   /\ Parts(P, F, S)
<1> DEFINE n == Len(P)
<1>1. PICK F \in [0 .. n -> Seq(C)] :
        F[0] = <<>> /\ \A i \in 1 .. n : F[i] = F[i - 1] \o P[i]
  BY StartsExist
<1>2. PICK S \in [0 .. n -> Seq(C)] :
        S[n] = <<>> /\ \A i \in 1 .. n : S[i - 1] = P[i] \o S[i]
  BY RestsExist
<1>3. F[n] = FlattenSeq(P)
  BY <1>1, LastStart
<1>4. n \in Nat /\ \A i \in 1 .. n : P[i] \in Seq(C)
  OBVIOUS
<1> HIDE DEF n
<1> DEFINE G == {k \in 0 .. n : F[k] \o S[k] = F[0] \o S[0]}
<1>5. 0 \in G
  BY <1>4
<1>6. ASSUME NEW k \in 0 .. n - 1, k \in G PROVE k + 1 \in G
  <2>1. k \in 0 .. n /\ k + 1 \in 1 .. n /\ k + 1 \in 0 .. n /\ (k + 1) - 1 = k
    BY <1>4
  <2>2. F[k + 1] = F[k] \o P[k + 1] /\ S[k] = P[k + 1] \o S[k + 1]
    BY <1>1, <1>2, <2>1
  <2>3. F[k] \in Seq(C) /\ P[k + 1] \in Seq(C) /\ S[k + 1] \in Seq(C)
    BY <1>4, <2>1
  <2>4. (F[k] \o P[k + 1]) \o S[k + 1] = F[k] \o (P[k + 1] \o S[k + 1])
    <3> DEFINE f == F[k]
               p == P[k + 1]
               s == S[k + 1]
    <3> f \in Seq(C) /\ p \in Seq(C) /\ s \in Seq(C)
      BY <2>3
    <3> HIDE DEF f, p, s
    <3>1. (f \o p) \o s = f \o (p \o s)
      BY ConcatAssociative, SMTT(30)
    <3> QED
      BY <3>1 DEF f, p, s
  <2> QED
    BY <1>6, <2>1, <2>2, <2>4
<1>7. \A k \in 0 .. n : F[k] \o S[k] = F[0] \o S[0]
  <2> HIDE DEF G
  <2>1. \A k \in 0 .. n : k \in G
    BY <1>4, <1>5, <1>6, Upwards
  <2> QED
    BY <2>1 DEF G
<1>8. F[n] \o S[n] = F[n]
  BY <1>2, <1>4
<1>9. n \in 0 .. n
  BY <1>4
<1>10. \A k \in 0 .. n : F[k] \o S[k] = FlattenSeq(P)
  BY <1>3, <1>7, <1>8, <1>9
<1>11. DOMAIN F = 0 .. n /\ DOMAIN S = 0 .. n
  OBVIOUS
<1>12. Parts(P, F, S)
  BY <1>1, <1>2, <1>10, <1>11 DEF Parts, n
<1>13. F \in [0 .. Len(P) -> Seq(C)] /\ S \in [0 .. Len(P) -> Seq(C)]
  BY DEF n
<1> QED
  BY <1>12, <1>13
-----------------------------------------------------------------------------
\* Search and replacement.

\* Three texts may be joined in either order.
LEMMA Regroup ==
  ASSUME NEW C, NEW s \in Seq(C), NEW t \in Seq(C), NEW u \in Seq(C)
  PROVE  (s \o t) \o u = s \o (t \o u)
BY ConcatAssociative

\* What is in a text with one more character at its end.
LEMMA OneMore ==
  ASSUME NEW C, NEW g \in Seq(C), NEW e \in C
  PROVE  /\ g \o <<e>> \in Seq(C)
         /\ Len(g \o <<e>>) = Len(g) + 1
         /\ \A i \in 1 .. Len(g) : (g \o <<e>>)[i] = g[i]
         /\ (g \o <<e>>)[Len(g) + 1] = e
<1> DEFINE o == <<e>>
<1>1. o \in Seq(C) /\ Len(o) = 1 /\ o[1] = e
  OBVIOUS
<1> HIDE DEF o
<1>2. /\ g \o o \in Seq(C)
      /\ Len(g \o o) = Len(g) + Len(o)
      /\ \A i \in 1 .. Len(g) : (g \o o)[i] = g[i]
      /\ \A i \in 1 .. Len(o) : (g \o o)[Len(g) + i] = o[i]
  BY <1>1, ConcatProperties, SMTT(30)
<1> QED
  BY <1>1, <1>2 DEF o

\* What two texts have when they are joined.
LEMMA Joined ==
  ASSUME NEW C, NEW g \in Seq(C), NEW r \in Seq(C)
  PROVE  /\ g \o r \in Seq(C)
         /\ Len(g \o r) = Len(g) + Len(r)
         /\ \A i \in 1 .. Len(g) : (g \o r)[i] = g[i]
         /\ \A i \in 1 .. Len(r) : (g \o r)[Len(g) + i] = r[i]
BY ConcatProperties

\* What is in a part of a text.
LEMMA Cut ==
  ASSUME NEW C, NEW s \in Seq(C), NEW i \in Nat \ {0}, NEW j \in 0 .. Len(s), i <= j + 1
  PROVE  /\ SubSeq(s, i, j) \in Seq(C)
         /\ Len(SubSeq(s, i, j)) = j - i + 1
         /\ \A k \in 1 .. j - i + 1 : SubSeq(s, i, j)[k] = s[i + k - 1]
<1>1. \A k \in i .. j : s[k] \in C
  OBVIOUS
<1> QED
  BY <1>1, SubSeqProperties

\* A text with x between g and r, taken apart.
LEMMA TakenApart ==
  ASSUME NEW C, NEW g \in Seq(C), NEW x \in Seq(C), NEW r \in Seq(C), Len(x) > 0,
         NEW s, s = g \o (x \o r)
  PROVE  /\ s \in Seq(C)
         /\ Len(s) = Len(g) + Len(x) + Len(r)
         /\ SubSeq(s, 1, Len(g)) = g
         /\ SubSeq(s, Len(g) + 1, Len(g) + Len(x)) = x
         /\ SubSeq(s, Len(g) + Len(x) + 1, Len(s)) = r
<1>1. Len(g) \in Nat /\ Len(x) \in Nat /\ Len(r) \in Nat
  OBVIOUS
<1>2. /\ x \o r \in Seq(C)
      /\ Len(x \o r) = Len(x) + Len(r)
      /\ \A i \in 1 .. Len(x) : (x \o r)[i] = x[i]
      /\ \A i \in 1 .. Len(r) : (x \o r)[Len(x) + i] = r[i]
  BY Joined
<1> DEFINE xr == x \o r
<1> HIDE DEF xr
<1>3. /\ s \in Seq(C)
      /\ Len(s) = Len(g) + Len(xr)
      /\ \A i \in 1 .. Len(g) : s[i] = g[i]
      /\ \A i \in 1 .. Len(xr) : s[Len(g) + i] = xr[i]
  BY <1>2, Joined DEF xr
<1>4. Len(s) = Len(g) + Len(x) + Len(r)
  BY <1>1, <1>2, <1>3 DEF xr
<1>5. \A i \in 1 .. Len(x) : s[Len(g) + i] = x[i]
  BY <1>1, <1>2, <1>3 DEF xr
<1>6. \A i \in 1 .. Len(r) : s[Len(g) + Len(x) + i] = r[i]
  <2> SUFFICES ASSUME NEW i \in 1 .. Len(r)
               PROVE  s[Len(g) + Len(x) + i] = r[i]
    OBVIOUS
  <2>1. Len(x) + i \in 1 .. Len(xr) /\ Len(g) + (Len(x) + i) = Len(g) + Len(x) + i
    BY <1>1, <1>2 DEF xr
  <2>2. s[Len(g) + (Len(x) + i)] = xr[Len(x) + i]
    BY <1>3, <2>1
  <2> QED
    BY <1>2, <2>1, <2>2 DEF xr
<1>7. SubSeq(s, 1, Len(g)) = g
  <2> DEFINE u == SubSeq(s, 1, Len(g))
  <2>1. u \in Seq(C) /\ Len(u) = Len(g) /\ \A k \in 1 .. Len(g) : u[k] = s[1 + k - 1]
    <3>1. 1 \in Nat \ {0} /\ Len(g) \in 0 .. Len(s) /\ 1 <= Len(g) + 1 /\ Len(g) - 1 + 1 = Len(g)
      BY <1>1, <1>4
    <3> QED
      BY <1>3, <3>1, Cut
  <2>2. \A k \in 1 .. Len(g) : u[k] = g[k]
    BY <1>3, <2>1
  <2> HIDE DEF u
  <2>3. u = g
    BY <2>1, <2>2, SeqEqual
  <2> QED
    BY <2>3 DEF u
<1>8. SubSeq(s, Len(g) + 1, Len(g) + Len(x)) = x
  <2> DEFINE b == Len(g) + 1
             e == Len(g) + Len(x)
             u == SubSeq(s, b, e)
  <2>1. b \in Nat \ {0} /\ e \in 0 .. Len(s) /\ b <= e + 1 /\ e - b + 1 = Len(x)
    BY <1>1, <1>4
  <2>2. \A k \in 1 .. Len(x) : b + k - 1 = Len(g) + k
    BY <1>1
  <2> HIDE DEF b, e
  <2>3. u \in Seq(C) /\ Len(u) = Len(x) /\ \A k \in 1 .. Len(x) : u[k] = s[b + k - 1]
    <3>1. /\ u \in Seq(C)
          /\ Len(u) = e - b + 1
          /\ \A k \in 1 .. e - b + 1 : u[k] = s[b + k - 1]
      BY <1>3, <2>1, Cut, SMTT(30)
    <3> HIDE DEF u
    <3> QED
      BY <2>1, <3>1
  <2>4. \A k \in 1 .. Len(x) : u[k] = x[k]
    BY <1>5, <2>2, <2>3
  <2> HIDE DEF u
  <2>5. u = x
    BY <2>3, <2>4, SeqEqual
  <2> QED
    BY <2>5 DEF u, b, e
<1>9. SubSeq(s, Len(g) + Len(x) + 1, Len(s)) = r
  <2> DEFINE b == Len(g) + Len(x) + 1
             e == Len(s)
             u == SubSeq(s, b, e)
  <2>1. b \in Nat \ {0} /\ e \in 0 .. Len(s) /\ b <= e + 1 /\ e - b + 1 = Len(r)
    BY <1>1, <1>4
  <2>2. \A k \in 1 .. Len(r) : b + k - 1 = Len(g) + Len(x) + k
    BY <1>1
  <2> HIDE DEF b, e
  <2>3. u \in Seq(C) /\ Len(u) = Len(r) /\ \A k \in 1 .. Len(r) : u[k] = s[b + k - 1]
    <3>1. /\ u \in Seq(C)
          /\ Len(u) = e - b + 1
          /\ \A k \in 1 .. e - b + 1 : u[k] = s[b + k - 1]
      BY <1>3, <2>1, Cut, SMTT(30)
    <3> HIDE DEF u
    <3> QED
      BY <2>1, <3>1
  <2>4. \A k \in 1 .. Len(r) : u[k] = r[k]
    BY <1>6, <2>2, <2>3
  <2> HIDE DEF u
  <2>5. u = r
    BY <2>3, <2>4, SeqEqual
  <2> QED
    BY <2>5 DEF u, b, e
<1> QED
  BY <1>3, <1>4, <1>7, <1>8, <1>9

\* x is in s at i.
IsAt(s, x, i) == i + Len(x) - 1 <= Len(s) /\ SubSeq(s, i, i + Len(x) - 1) = x

\* Where x is in a text, there is the first character of x.
LEMMA FirstOfMatch ==
  ASSUME NEW C, NEW s \in Seq(C), NEW x \in Seq(C), Len(x) > 0, NEW i \in Nat \ {0},
         IsAt(s, x, i)
  PROVE  i \in 1 .. Len(s) /\ s[i] = x[1]
<1> DEFINE e == i + Len(x) - 1
<1>1. /\ Len(s) \in Nat /\ Len(x) \in Nat
      /\ e <= Len(s) /\ SubSeq(s, i, e) = x
      /\ e \in 0 .. Len(s) /\ i <= e + 1 /\ 1 \in 1 .. e - i + 1 /\ i + 1 - 1 = i
      /\ i <= Len(s)
  BY DEF IsAt
<1> HIDE DEF e
<1>2. SubSeq(s, i, e)[1] = s[i + 1 - 1]
  BY <1>1, Cut
<1> QED
  BY <1>1, <1>2

\* Where x is in a text, there follows the second character of x, if it has one.
LEMMA SecondOfMatch ==
  ASSUME NEW C, NEW s \in Seq(C), NEW x \in Seq(C), Len(x) > 1, NEW i \in Nat \ {0},
         IsAt(s, x, i)
  PROVE  s[i + 1] = x[2]
<1> DEFINE e == i + Len(x) - 1
<1>1. /\ Len(s) \in Nat /\ Len(x) \in Nat
      /\ e <= Len(s) /\ SubSeq(s, i, e) = x
      /\ e \in 0 .. Len(s) /\ i <= e + 1 /\ 2 \in 1 .. e - i + 1 /\ i + 2 - 1 = i + 1
  BY DEF IsAt
<1> HIDE DEF e
<1>2. SubSeq(s, i, e)[2] = s[i + 2 - 1]
  BY <1>1, Cut
<1> QED
  BY <1>1, <1>2

\* Find() finds the first place from pos on.
LEMMA FindsFirst ==
  ASSUME NEW C, NEW s \in Seq(C), NEW x \in Seq(C), NEW pos \in Nat, NEW i \in Nat,
         pos <= i, IsAt(s, x, i), \A j \in pos .. i - 1 : ~IsAt(s, x, j)
  PROVE  Find(s, x, pos) = i
<1> DEFINE at == {k \in pos .. Len(s) - Len(x) + 1 : SubSeq(s, k, k + Len(x) - 1) = x}
<1>1. Len(s) \in Nat /\ Len(x) \in Nat
  OBVIOUS
<1>2. i \in at
  BY <1>1 DEF IsAt
<1>3. \A k \in at : k \in Int /\ i <= k
  <2> SUFFICES ASSUME NEW k \in at, k < i PROVE FALSE
    BY <1>1
  <2>1. k \in pos .. i - 1 /\ IsAt(s, x, k)
    BY <1>1 DEF IsAt
  <2> QED
    BY <2>1
<1> HIDE DEF at
<1>4. (CHOOSE k \in at : \A j \in at : k <= j) = i
  <2> DEFINE c == CHOOSE k \in at : \A j \in at : k <= j
  <2>1. c \in at /\ \A j \in at : c <= j
    BY <1>2, <1>3
  <2> HIDE DEF c
  <2>2. c \in Int /\ i <= c /\ c <= i
    BY <1>2, <1>3, <2>1
  <2>3. c = i
    BY <2>2
  <2> QED
    BY <2>3 DEF c
<1> QED
  BY <1>2, <1>4 DEF Find, at

\* Find() gives zero when there is no place from pos on.
LEMMA FindsNothing ==
  ASSUME NEW C, NEW s \in Seq(C), NEW x \in Seq(C), NEW pos \in Nat,
         \A j \in pos .. Len(s) : ~IsAt(s, x, j), Len(x) > 0
  PROVE  Find(s, x, pos) = 0
<1> DEFINE at == {k \in pos .. Len(s) - Len(x) + 1 : SubSeq(s, k, k + Len(x) - 1) = x}
<1>1. Len(s) \in Nat /\ Len(x) \in Nat
  OBVIOUS
<1>2. at = {}
  <2> SUFFICES ASSUME NEW k \in at PROVE FALSE
    OBVIOUS
  <2>1. k \in pos .. Len(s) /\ IsAt(s, x, k)
    BY <1>1 DEF IsAt
  <2> QED
    BY <2>1
<1> QED
  BY <1>2 DEF Find

\* One round of the loop of Replace.
Round(x, new, a, l) ==
  LET i == Find(l.out, x, l.pos)
  IN  IF i = 0 THEN l
      ELSE [out |-> SubSeq(l.out, 1, i - 1) \o new \o SubSeq(l.out, i + Len(x), Len(l.out)),
            pos |-> i + a]

\* Replace is what its rounds lead to, one after the other.
LEMMA ReplaceRuns ==
  ASSUME NEW s, Len(s) \in Nat, NEW x, NEW new, NEW a
  PROVE  \E f : /\ f[0] = [out |-> s, pos |-> 1]
                /\ \A k \in 1 .. Len(s) : f[k] = Round(x, new, a, f[k - 1])
                /\ Replace(s, x, new, a) =
                     [out |-> f[Len(s)].out,
                      ends |-> Find(f[Len(s)].out, x, f[Len(s)].pos) = 0]
<1> DEFINE n == Len(s)
           l0 == [out |-> s, pos |-> 1]
           Rec(f) == [k \in 0 .. Len(s) |->
                        IF k = 0 THEN l0 ELSE Round(x, new, a, f[k - 1])]
           Good(k, f) == /\ DOMAIN f = 0 .. k
                         /\ f[0] = l0
                         /\ \A i \in 1 .. k : f[i] = Round(x, new, a, f[i - 1])
           G == {k \in 0 .. n : \E f : Good(k, f)}
<1> n \in Nat
  OBVIOUS
<1> HIDE DEF l0, n
<1>1. 0 \in G
  <2> DEFINE f == [i \in 0 .. 0 |-> l0]
  <2>1. DOMAIN f = 0 .. 0 /\ f[0] = l0 /\ \A i \in 1 .. 0 : FALSE
    OBVIOUS
  <2> HIDE DEF f
  <2>2. Good(0, f)
    BY <2>1
  <2> QED
    BY <2>2
<1>2. ASSUME NEW k \in 0 .. n - 1, k \in G PROVE k + 1 \in G
  <2>1. PICK f : Good(k, f)
    BY <1>2
  <2> DEFINE v == Round(x, new, a, f[k])
             H == [i \in 0 .. k + 1 |-> IF i = k + 1 THEN v ELSE f[i]]
  <2> HIDE DEF v
  <2>2. k \in Nat /\ k + 1 \in 0 .. n
    OBVIOUS
  <2>3. DOMAIN H = 0 .. k + 1 /\ H[0] = l0
    BY <2>1, <2>2
  <2>4. \A i \in 0 .. k : H[i] = f[i]
    <3>1. \A i \in 0 .. k : i \in 0 .. k + 1 /\ i # k + 1
      BY <2>2
    <3> QED
      BY <3>1
  <2>5. H[k + 1] = v
    BY <2>2
  <2> HIDE DEF H
  <2>6. ASSUME NEW i \in 1 .. k + 1 PROVE H[i] = Round(x, new, a, H[i - 1])
    <3>1. i - 1 \in 0 .. k /\ (i = k + 1 \/ (i \in 1 .. k /\ i \in 0 .. k))
      BY <2>2
    <3>2. H[i - 1] = f[i - 1]
      BY <2>4, <3>1
    <3>3. CASE i = k + 1
      <4>1. i - 1 = k
        BY <2>2, <3>3
      <4> QED
        BY <2>5, <3>2, <3>3, <4>1 DEF v
    <3>4. CASE i \in 1 .. k /\ i \in 0 .. k
      <4>1. H[i] = f[i]
        BY <2>4, <3>4
      <4> QED
        BY <2>1, <3>2, <3>4, <4>1
    <3> QED
      BY <3>1, <3>3, <3>4
  <2>7. Good(k + 1, H)
    BY <2>3, <2>6
  <2> HIDE DEF Good
  <2> QED
    BY <2>2, <2>7
<1>3. n \in G
  <2> HIDE DEF G
  <2>1. \A k \in 0 .. n : k \in G
    BY <1>1, <1>2, Upwards
  <2> QED
    BY <2>1
<1>4. PICK g : Good(n, g)
  BY <1>3
<1> DEFINE own == [k \in 0 .. n |-> g[k]]
<1> USE DEF n
<1>5. own = Rec(own)
  <2>1. ASSUME NEW k \in 0 .. n
        PROVE  own[k] = IF k = 0 THEN l0 ELSE Round(x, new, a, own[k - 1])
    <3>1. CASE k = 0
      BY <1>4, <3>1
    <3>2. CASE k # 0
      <4>1. k \in 1 .. n /\ k - 1 \in 0 .. n
        BY <3>2
      <4>2. own[k] = g[k] /\ own[k - 1] = g[k - 1]
        BY <4>1
      <4>3. g[k] = Round(x, new, a, g[k - 1])
        BY <1>4, <4>1
      <4> HIDE DEF own
      <4> QED
        BY <3>2, <4>2, <4>3
    <3> QED
      BY <3>1, <3>2
  <2>2. DOMAIN own = 0 .. n /\ DOMAIN Rec(own) = 0 .. n
    OBVIOUS
  <2> QED
    BY <2>1, <2>2
<1> DEFINE loop == CHOOSE f : f = Rec(f)
<1>6. loop = Rec(loop)
  BY <1>5
<1>7. Replace(s, x, new, a) =
        [out |-> loop[Len(s)].out,
         ends |-> Find(loop[Len(s)].out, x, loop[Len(s)].pos) = 0]
  BY DEF Replace, Round, l0
<1> HIDE DEF loop
<1>8. loop[0] = l0
  BY <1>6
<1>9. ASSUME NEW k \in 1 .. n PROVE loop[k] = Round(x, new, a, loop[k - 1])
  <2>1. k \in 0 .. n /\ k # 0
    OBVIOUS
  <2> QED
    BY <1>6, <2>1
<1> QED
  BY <1>7, <1>8, <1>9 DEF l0

\* Behind a start g, x is found where it is in the rest.
LEMMA MatchInRest ==
  ASSUME NEW C, NEW g \in Seq(C), NEW r \in Seq(C), NEW x \in Seq(C), Len(x) > 0,
         IsAt(g \o r, x, Len(g) + 1)
  PROVE  IsAt(r, x, 1)
<1> DEFINE b == Len(g) + 1
           e == Len(g) + 1 + Len(x) - 1
<1>1. /\ Len(g) \in Nat /\ Len(r) \in Nat /\ Len(x) \in Nat
      /\ Len(g \o r) = Len(g) + Len(r)
  BY Joined
<1>2. e <= Len(g) + Len(r) /\ SubSeq(g \o r, b, e) = x
  BY <1>1 DEF IsAt
<1>3. /\ b \in Len(g) + 1 .. Len(g) + Len(r)
      /\ e \in Len(g) + 1 .. Len(g) + Len(r)
      /\ b - Len(g) = 1 /\ e - Len(g) = Len(x) /\ 1 + Len(x) - 1 = Len(x)
      /\ Len(x) <= Len(r)
  BY <1>1, <1>2
<1> HIDE DEF b, e
<1>4. SubSeq(g \o r, b, e) = SubSeq(r, b - Len(g), e - Len(g))
  BY <1>3, SubSeqOfConcat2
<1>5. SubSeq(r, 1, Len(x)) = x
  BY <1>2, <1>3, <1>4
<1> QED
  BY <1>3, <1>5 DEF IsAt

\* G has the starts of a text in pieces Q, S the rests of one in pieces P.
StartsAndRests(C, P, Q, G, S) ==
  /\ P \in Seq(Seq(C)) /\ Q \in Seq(Seq(C)) /\ Len(Q) = Len(P)
  /\ G \in [0 .. Len(P) -> Seq(C)] /\ S \in [0 .. Len(P) -> Seq(C)]
  /\ \A i \in 1 .. Len(P) : G[i] = G[i - 1] \o Q[i] /\ S[i - 1] = P[i] \o S[i]

\* Behind k, s goes on with another character than x behind its first one.
Differs(s, x, k) == Len(x) > 1 /\ k < Len(s) /\ s[k + 1] # x[2]

\* P and Q are the same text in pieces before and after each x was replaced by
\* new.  A has the pieces of P with which an x begins: it takes as many pieces as
\* it has characters, of which Q has new and empty ones.  All other pieces stay,
\* and no x begins in them, as its first character is not there or not before its
\* second one; nor does one in new, behind its first a characters.
Fits(P, S, Q, x, new, a, A) ==
  /\ A \subseteq 1 .. Len(P)
  /\ \A i \in A :
       /\ i + Len(x) - 1 <= Len(P)
       /\ S[i - 1] = x \o S[i + Len(x) - 1]
       /\ Q[i] = new
       /\ \A k \in i + 1 .. i + Len(x) - 1 : k \notin A /\ Q[k] = <<>>
  /\ \A i \in 1 .. Len(P) \ A :
       \/ \E j \in A : i \in j + 1 .. j + Len(x) - 1
       \/ /\ Q[i] = P[i]
          /\ \/ \A k \in 1 .. Len(P[i]) : P[i][k] = x[1] => Differs(P[i], x, k)
             \/ Len(P[i]) = 1 /\ ~IsAt(S[i - 1], x, 1)
  /\ \A k \in a + 1 .. Len(new) : new[k] # x[1]

\* The loop has come to the end of piece p: what is before is as in Q, what
\* follows is still as in P.  No x is left behind, and p is not inside of one.
Between(l, p, G, S, x, A) ==
  /\ l.out = G[p] \o S[p]
  /\ l.pos \in 1 .. Len(G[p]) + 1
  /\ \A i \in l.pos .. Len(G[p]) : ~IsAt(l.out, x, i)
  /\ \A j \in A : ~(p \in j .. j + Len(x) - 2)

\* A piece in which no x begins is passed over.
LEMMA PassOver ==
  ASSUME NEW C, NEW P, NEW Q, NEW G, NEW S, StartsAndRests(C, P, Q, G, S),
         NEW x \in Seq(C), Len(x) > 0, NEW new, NEW a, NEW A,
         Fits(P, S, Q, x, new, a, A),
         NEW l, NEW p \in 0 .. Len(P), Between(l, p, G, S, x, A), p < Len(P), p + 1 \notin A
  PROVE  Between(l, p + 1, G, S, x, A) /\ Len(S[p + 1]) <= Len(S[p])
<1> DEFINE n == Len(P)
           g == G[p]
           q == P[p + 1]
           r == S[p + 1]
<1>1. /\ n \in Nat /\ p \in Nat /\ Len(x) \in Nat
      /\ p + 1 \in 1 .. n /\ p + 1 \in 0 .. n /\ (p + 1) - 1 = p
  BY DEF StartsAndRests
<1>2. g \in Seq(C) /\ q \in Seq(C) /\ r \in Seq(C) /\ Len(g) \in Nat /\ Len(q) \in Nat /\ Len(r) \in Nat
  <2>1. g \in Seq(C) /\ r \in Seq(C)
    BY <1>1 DEF StartsAndRests
  <2>2. \A i \in 1 .. n : P[i] \in Seq(C)
    BY DEF StartsAndRests
  <2>3. q \in Seq(C)
    BY <1>1, <2>2
  <2> HIDE DEF g, q, r
  <2> QED
    BY <2>1, <2>3
<1>3. ASSUME NEW j \in A, p + 1 \in j + 1 .. j + Len(x) - 1 PROVE FALSE
  <2>1. j \in Nat
    BY DEF Fits
  <2>2. p \in j .. j + Len(x) - 2
    BY <1>1, <1>3, <2>1
  <2> QED
    BY <2>2 DEF Between
<1>4. /\ Q[p + 1] = q
      /\ \/ \A k \in 1 .. Len(q) : q[k] = x[1] => Differs(q, x, k)
         \/ Len(q) = 1 /\ ~IsAt(S[p], x, 1)
  BY <1>1, <1>3 DEF Fits
<1>5. G[p + 1] = g \o q /\ S[p] = q \o r
  BY <1>1, <1>4 DEF StartsAndRests
<1>6. l.out = g \o S[p] /\ l.pos \in 1 .. Len(g) + 1 /\ \A i \in l.pos .. Len(g) : ~IsAt(l.out, x, i)
  BY DEF Between
<1> HIDE DEF g, q, r, n
<1>7. (g \o q) \o r = g \o (q \o r)
  <2>1. g \in Seq(C) /\ q \in Seq(C) /\ r \in Seq(C)
    BY <1>2
  <2> QED
    BY <2>1, Regroup, SMTT(30)
<1>8. /\ q \o r \in Seq(C) /\ Len(q \o r) = Len(q) + Len(r)
      /\ \A i \in 1 .. Len(q) : (q \o r)[i] = q[i]
      /\ g \o q \in Seq(C) /\ Len(g \o q) = Len(g) + Len(q)
  BY <1>2, Joined
<1> DEFINE qr == q \o r
<1> HIDE DEF qr
<1>9. /\ l.out \in Seq(C)
      /\ \A i \in 1 .. Len(qr) : l.out[Len(g) + i] = qr[i]
  BY <1>2, <1>5, <1>6, <1>8, Joined, SMTT(30) DEF qr
<1>10. ASSUME NEW i \in Len(g) + 1 .. Len(g) + Len(q), IsAt(l.out, x, i)
       PROVE  FALSE
  <2>1. i \in Nat \ {0} /\ i - Len(g) \in 1 .. Len(q) /\ Len(g) + (i - Len(g)) = i
    BY <1>2
  <2>2. l.out[i] = x[1]
    BY <1>9, <1>10, <2>1, FirstOfMatch
  <2>3. i - Len(g) \in 1 .. Len(qr)
    BY <1>2, <1>8, <2>1 DEF qr
  <2>4. l.out[i] = q[i - Len(g)]
    <3>1. l.out[Len(g) + (i - Len(g))] = qr[i - Len(g)]
      BY <1>9, <2>3
    <3> QED
      BY <1>8, <2>1, <3>1 DEF qr
  <2>5. CASE \A k \in 1 .. Len(q) : q[k] = x[1] => Differs(q, x, k)
    <3> DEFINE k == i - Len(g)
    <3>1. Len(x) > 1 /\ k < Len(q) /\ q[k + 1] # x[2]
      BY <2>1, <2>2, <2>4, <2>5 DEF Differs
    <3>2. l.out[i + 1] = x[2]
      <4>1. l.out \in Seq(C) /\ i \in Nat \ {0} /\ IsAt(l.out, x, i) /\ Len(x) > 1
        BY <1>9, <1>10, <2>1, <3>1
      <4> HIDE DEF k
      <4> QED
        BY <4>1, SecondOfMatch, SMTT(30)
    <3>3. k + 1 \in 1 .. Len(q) /\ k + 1 \in 1 .. Len(qr) /\ Len(g) + (k + 1) = i + 1
      <4> DEFINE a1 == Len(g)
                 b1 == Len(q)
                 c1 == Len(r)
      <4>1. /\ a1 \in Nat /\ b1 \in Nat /\ c1 \in Nat /\ Len(qr) = b1 + c1
            /\ k \in 1 .. b1 /\ k < b1 /\ a1 + k = i
        BY <1>2, <1>8, <2>1, <3>1 DEF qr
      <4> HIDE DEF a1, b1, c1, k
      <4>2. /\ k + 1 \in 1 .. b1 /\ k + 1 \in 1 .. b1 + c1
            /\ a1 + (k + 1) = i + 1
        BY <4>1
      <4> QED
        BY <4>1, <4>2 DEF a1, b1
    <3> HIDE DEF k
    <3>4. l.out[Len(g) + (k + 1)] = qr[k + 1]
      BY <1>9, <3>3
    <3>5. qr[k + 1] = q[k + 1]
      BY <1>8, <3>3 DEF qr
    <3>6. l.out[Len(g) + (k + 1)] = x[2]
      BY <3>2, <3>3
    <3>7. q[k + 1] # x[2]
      BY <3>1 DEF k
    <3> QED
      BY <3>4, <3>5, <3>6, <3>7
  <2>6. CASE Len(q) = 1 /\ ~IsAt(S[p], x, 1)
    <3>1. i = Len(g) + 1
      BY <1>2, <2>6
    <3>2. IsAt(g \o qr, x, Len(g) + 1)
      BY <1>5, <1>6, <1>10, <3>1 DEF qr
    <3>3. IsAt(qr, x, 1)
      BY <1>2, <1>8, <3>2, MatchInRest DEF qr
    <3> QED
      BY <1>5, <2>6, <3>3 DEF qr
  <2> QED
    BY <1>4, <2>5, <2>6
<1>11. \A i \in l.pos .. Len(g \o q) : ~IsAt(l.out, x, i)
  <2>1. \A i \in l.pos .. Len(g) + Len(q) :
           i \in l.pos .. Len(g) \/ i \in Len(g) + 1 .. Len(g) + Len(q)
    BY <1>2, <1>6
  <2> QED
    BY <1>6, <1>8, <1>10, <2>1
<1>12. \A j \in A : ~(p + 1 \in j .. j + Len(x) - 2)
  <2> SUFFICES ASSUME NEW j \in A, p + 1 \in j .. j + Len(x) - 2 PROVE FALSE
    OBVIOUS
  <2>1. j \in Nat /\ j # p + 1
    <3>1. A \subseteq 1 .. Len(P)
      BY DEF Fits
    <3>2. j \in 1 .. Len(P)
      BY <3>1
    <3> QED
      BY <3>2
  <2>2. p + 1 \in j + 1 .. j + Len(x) - 1
    BY <1>1, <2>1
  <2> QED
    BY <1>3, <2>2
<1>13. l.out = G[p + 1] \o S[p + 1]
  BY <1>5, <1>6, <1>7 DEF r
<1>14. l.pos \in 1 .. Len(G[p + 1]) + 1
  BY <1>2, <1>5, <1>6, <1>8
<1>15. Len(S[p + 1]) <= Len(S[p])
  BY <1>2, <1>5, <1>8 DEF r
<1> QED
  BY <1>5, <1>11, <1>12, <1>13, <1>14, <1>15 DEF Between

\* A piece in which an x begins is replaced in one round, with those it takes.
LEMMA ReplaceOne ==
  ASSUME NEW C, NEW P, NEW Q, NEW G, NEW S, StartsAndRests(C, P, Q, G, S),
         NEW x \in Seq(C), Len(x) > 0, NEW new \in Seq(C), NEW a \in 0 .. Len(new), NEW A,
         Fits(P, S, Q, x, new, a, A),
         NEW l, NEW p \in 0 .. Len(P), Between(l, p, G, S, x, A), p + 1 \in A
  PROVE  /\ p + Len(x) \in 0 .. Len(P)
         /\ Between(Round(x, new, a, l), p + Len(x), G, S, x, A)
         /\ Len(S[p + Len(x)]) < Len(S[p])
<1> DEFINE n == Len(P)
           m == Len(x)
           g == G[p]
           r == S[p + m]
           i == Len(g) + 1
<1>1. n \in Nat /\ m \in Nat /\ m > 0 /\ p \in Nat /\ p <= n
  BY DEF StartsAndRests
<1>2. /\ p + 1 \in 1 .. n /\ p + 1 + m - 1 <= n
      /\ S[(p + 1) - 1] = x \o S[p + 1 + m - 1]
      /\ Q[p + 1] = new
      /\ \A k \in p + 1 + 1 .. p + 1 + m - 1 : k \notin A /\ Q[k] = <<>>
  BY DEF Fits
<1>3. /\ (p + 1) - 1 = p /\ p + 1 + m - 1 = p + m /\ p + 1 + 1 = p + 2
      /\ p + m \in 0 .. n
  BY <1>1, <1>2
<1>4. g \in Seq(C) /\ r \in Seq(C)
  BY <1>1, <1>3 DEF StartsAndRests
<1>5. S[p] = x \o r
  BY <1>2, <1>3
<1>6. \A k \in p + 2 .. p + m : k \notin A /\ Q[k] = <<>>
  BY <1>2, <1>3
<1>7. /\ l.out = g \o S[p] /\ l.pos \in 1 .. Len(g) + 1
      /\ \A k \in l.pos .. Len(g) : ~IsAt(l.out, x, k)
  BY DEF Between
\* The x is found,
<1>8. /\ l.out \in Seq(C) /\ Len(l.out) = Len(g) + m + Len(r)
      /\ SubSeq(l.out, 1, Len(g)) = g
      /\ SubSeq(l.out, Len(g) + 1, Len(g) + m) = x
      /\ SubSeq(l.out, Len(g) + m + 1, Len(l.out)) = r
      /\ Len(g) \in Nat /\ Len(r) \in Nat /\ Len(new) \in Nat
  <2> HIDE DEF g, r
  <2>1. l.out = g \o (x \o r)
    BY <1>5, <1>7
  <2>2. /\ l.out \in Seq(C) /\ Len(l.out) = Len(g) + Len(x) + Len(r)
        /\ SubSeq(l.out, 1, Len(g)) = g
        /\ SubSeq(l.out, Len(g) + 1, Len(g) + Len(x)) = x
        /\ SubSeq(l.out, Len(g) + Len(x) + 1, Len(l.out)) = r
    BY <1>4, <2>1, TakenApart, SMTT(30)
  <2>3. Len(g) \in Nat /\ Len(r) \in Nat /\ Len(new) \in Nat
    BY <1>4
  <2> QED
    BY <2>2, <2>3
<1> HIDE DEF g, r, n, m
<1>9. i + m - 1 = Len(g) + m /\ i + m = Len(g) + m + 1 /\ i - 1 = Len(g) /\ i \in Nat /\ i # 0
  BY <1>1, <1>8
<1>10. IsAt(l.out, x, i)
  BY <1>1, <1>8, <1>9, SMTT(30) DEF IsAt, m
<1>11. l.pos \in Nat /\ l.pos <= i
  BY <1>7, <1>8
<1> HIDE DEF i
<1>12. Find(l.out, x, l.pos) = i
  BY <1>7, <1>8, <1>9, <1>10, <1>11, FindsFirst, ZenonT(30)
\* and replaced.
<1>13. Round(x, new, a, l) = [out |-> g \o new \o r, pos |-> i + a]
  BY <1>8, <1>9, <1>12 DEF Round, m
<1>14. G[p + m] = g \o new
  <2> DEFINE K == {k \in 0 .. m - 1 : G[p + 1 + k] = g \o new}
  <2>1. 0 \in K
    <3>1. G[p + 1] = G[(p + 1) - 1] \o Q[p + 1]
      BY <1>2 DEF StartsAndRests, n
    <3>2. p + 1 + 0 = p + 1 /\ 0 \in 0 .. m - 1
      BY <1>1
    <3> QED
      BY <1>2, <1>3, <3>1, <3>2 DEF g
  <2>2. ASSUME NEW k \in 0 .. (m - 1) - 1, k \in K PROVE k + 1 \in K
    <3> DEFINE j == p + 1 + (k + 1)
    <3>1. k + 1 \in 0 .. m - 1 /\ j \in p + 2 .. p + m /\ j \in 1 .. n /\ j - 1 = p + 1 + k
      BY <1>1, <1>2, <1>3
    <3>2. G[j] = G[j - 1] \o Q[j]
      BY <3>1 DEF StartsAndRests, n
    <3>3. g \o new \in Seq(C)
      BY <1>4, Joined
    <3>4. (g \o new) \o <<>> = g \o new
      BY <3>3, ConcatEmptySeq
    <3>5. Q[j] = <<>>
      BY <1>6, <3>1
    <3> HIDE DEF j
    <3>6. G[j] = g \o new
      BY <2>2, <3>1, <3>2, <3>4, <3>5
    <3> QED
      BY <3>1, <3>6 DEF j
  <2>3. m - 1 \in Nat
    BY <1>1
  <2>4. m - 1 \in K
    <3> HIDE DEF K
    <3>1. \A k \in 0 .. m - 1 : k \in K
      BY <2>1, <2>2, <2>3, Upwards
    <3> QED
      BY <2>3, <3>1
  <2>5. p + 1 + (m - 1) = p + m
    BY <1>1
  <2> QED
    BY <2>4, <2>5
<1> DEFINE l2 == Round(x, new, a, l)
<1>15. /\ g \o new \in Seq(C) /\ Len(g \o new) = Len(g) + Len(new)
       /\ \A k \in 1 .. Len(new) : (g \o new)[Len(g) + k] = new[k]
  BY <1>4, Joined
<1>16. l2.out = G[p + m] \o S[p + m]
  <2>1. l2.out = (g \o new) \o r
    BY <1>13
  <2> HIDE DEF l2
  <2> QED
    BY <1>14, <2>1 DEF r
<1>17. l2.pos \in 1 .. Len(G[p + m]) + 1
  BY <1>8, <1>9, <1>13, <1>14, <1>15, SMTT(30)
<1>18. ASSUME NEW k \in l2.pos .. Len(G[p + m]), IsAt(l2.out, x, k)
       PROVE  FALSE
  <2> DEFINE gn == g \o new
             j == k - Len(g)
  <2>1. l2.pos = Len(g) + 1 + a /\ Len(G[p + m]) = Len(g) + Len(new)
    BY <1>13, <1>14, <1>15 DEF i
  <2>2. /\ j \in a + 1 .. Len(new) /\ j \in 1 .. Len(new) /\ Len(g) + j = k
        /\ k \in 1 .. Len(g) + Len(new) /\ k \in Nat \ {0}
    BY <1>8, <2>1, SMTT(30)
  <2> HIDE DEF gn, j
  <2>3. l2.out = gn \o r
    BY <1>13 DEF gn
  <2> HIDE DEF l2
  <2>4. l2.out \in Seq(C) /\ l2.out[k] = gn[k]
    BY <1>4, <1>15, <2>2, <2>3, Joined DEF gn
  <2>5. l2.out[k] = x[1]
    BY <1>18, <2>2, <2>4, FirstOfMatch
  <2>6. gn[k] = new[j]
    BY <1>15, <2>2 DEF gn
  <2>7. new[j] # x[1]
    BY <2>2 DEF Fits
  <2> QED
    BY <2>4, <2>5, <2>6, <2>7
<1>19. ASSUME NEW j \in A, p + m \in j .. j + m - 2 PROVE FALSE
  <2>1. j \in 1 .. n
    BY DEF Fits, n
  <2>2. j \in p + 2 .. p + m
    BY <1>1, <1>19, <2>1
  <2> QED
    BY <1>6, <2>2
<1>20. Len(S[p]) = m + Len(r)
  BY <1>4, <1>5, Joined DEF m
<1>21. Len(S[p + m]) < Len(S[p])
  BY <1>1, <1>8, <1>20 DEF r
<1>22. Between(l2, p + m, G, S, x, A)
  <2> HIDE DEF l2
  <2> QED
    BY <1>16, <1>17, <1>18, <1>19 DEF Between, m
<1> QED
  BY <1>3, <1>21, <1>22 DEF m, n

\* All pieces are passed over up to the end, or to one in which an x begins.
LEMMA PassToNext ==
  ASSUME NEW C, NEW P, NEW Q, NEW G, NEW S, StartsAndRests(C, P, Q, G, S),
         NEW x \in Seq(C), Len(x) > 0, NEW new, NEW a, NEW A,
         Fits(P, S, Q, x, new, a, A),
         NEW l, NEW p \in 0 .. Len(P), Between(l, p, G, S, x, A)
  PROVE  \E q \in 0 .. Len(P) : /\ Between(l, q, G, S, x, A)
                                /\ Len(S[q]) <= Len(S[p])
                                /\ q = Len(P) \/ q + 1 \in A
<1> DEFINE n == Len(P)
           Reached(q) == q \in 0 .. n /\ Between(l, q, G, S, x, A) /\ Len(S[q]) <= Len(S[p])
           B == {n - q : q \in {q \in 0 .. n : Reached(q)}}
<1>1. n \in Nat /\ \A q \in 0 .. n : Len(S[q]) \in Nat
  BY DEF StartsAndRests
<1>2. Reached(p)
  BY <1>1
<1>3. PICK k \in B : \A j \in B : k <= j
  <2>1. B \in SUBSET Nat /\ B # {}
    BY <1>1, <1>2
  <2> HIDE DEF B
  <2> QED
    BY <2>1, LeastNumber
<1>4. PICK q \in 0 .. n : Reached(q) /\ k = n - q
  BY <1>3
<1>5. ASSUME q < n, q + 1 \notin A PROVE FALSE
  <2>1. q + 1 \in 0 .. n
    BY <1>1, <1>5
  <2>2. Between(l, q + 1, G, S, x, A) /\ Len(S[q + 1]) <= Len(S[q])
    BY <1>4, <1>5, PassOver
  <2>3. Reached(q + 1)
    BY <1>1, <1>4, <2>1, <2>2, SMTT(30)
  <2>4. n - (q + 1) \in B
    <3> HIDE DEF Reached
    <3> QED
      BY <2>1, <2>3
  <2>5. k <= n - (q + 1)
    <3> HIDE DEF B
    <3> QED
      BY <1>3, <2>4
  <2> QED
    BY <1>1, <1>4, <2>5
<1>6. q = n \/ q + 1 \in A
  BY <1>1, <1>5
<1> QED
  BY <1>4, <1>6

\* At the end the search finds nothing more.
LEMMA NothingLeft ==
  ASSUME NEW C, NEW P, NEW Q, NEW G, NEW S, StartsAndRests(C, P, Q, G, S),
         S[Len(P)] = <<>>, NEW x \in Seq(C), Len(x) > 0, NEW A,
         NEW l, Between(l, Len(P), G, S, x, A)
  PROVE  l.out = G[Len(P)] /\ Find(l.out, x, l.pos) = 0
<1> DEFINE g == G[Len(P)]
<1>1. g \in Seq(C)
  <2>1. Len(P) \in 0 .. Len(P) /\ G \in [0 .. Len(P) -> Seq(C)]
    BY DEF StartsAndRests
  <2> QED
    BY <2>1
<1>2. g \o <<>> = g
  <2> HIDE DEF g
  <2> QED
    BY <1>1, ConcatEmptySeq
<1>3. l.out = g
  BY <1>2 DEF Between
<1>4. l.pos \in Nat /\ \A j \in l.pos .. Len(l.out) : ~IsAt(l.out, x, j)
  BY <1>3 DEF Between
<1> HIDE DEF g
<1> QED
  BY <1>1, <1>3, <1>4, FindsNothing DEF g

\* The loop ends when all of the text is in pieces of Q.
LEMMA RoundsEnd ==
  ASSUME NEW C, NEW P, NEW Q, NEW G, NEW S, StartsAndRests(C, P, Q, G, S),
         G[0] = <<>>, S[Len(P)] = <<>>,
         NEW x \in Seq(C), Len(x) > 0, NEW new \in Seq(C), NEW a \in 0 .. Len(new), NEW A,
         Fits(P, S, Q, x, new, a, A)
  PROVE  Replace(S[0], x, new, a) = [out |-> G[Len(P)], ends |-> TRUE]
<1> DEFINE n == Len(P)
           s == S[0]
           m == Len(s)
<1>1. n \in Nat /\ 0 \in 0 .. n /\ n \in 0 .. n
  BY DEF StartsAndRests
<1>2. s \in Seq(C) /\ m \in Nat
  <2>1. s \in Seq(C)
    BY <1>1 DEF StartsAndRests
  <2> HIDE DEF s
  <2> QED
    BY <2>1
<1>3. \A q \in 0 .. n : Len(S[q]) \in Nat
  BY DEF StartsAndRests
<1>4. G[0] = <<>> /\ S[n] = <<>>
  OBVIOUS
<1> HIDE DEF s
<1>5. PICK f : /\ f[0] = [out |-> s, pos |-> 1]
               /\ \A k \in 1 .. m : f[k] = Round(x, new, a, f[k - 1])
               /\ Replace(s, x, new, a) =
                    [out |-> f[m].out, ends |-> Find(f[m].out, x, f[m].pos) = 0]
  <2>1. Len(s) \in Nat
    BY <1>2
  <2> QED
    BY <2>1, ReplaceRuns, SMTT(30)
<1> HIDE DEF m, n
<1> DEFINE At(k, p) == Between(f[k], p, G, S, x, A)
           K == {k \in 0 .. m : \E p \in 0 .. n : At(k, p) /\ (Len(S[p]) + k <= m \/ p = n)}
<1>6. 0 \in K
  <2>1. G[0] \o S[0] = s /\ S[0] = s
    BY <1>2, <1>4, ConcatEmptySeq DEF s
  <2>2. ASSUME NEW j \in A, 0 \in j .. j + Len(x) - 2 PROVE FALSE
    <3>1. j \in 1 .. n
      BY DEF Fits, n
    <3> QED
      BY <2>2, <3>1
  <2>3. At(0, 0)
    <3>1. f[0].out = s /\ f[0].pos = 1 /\ Len(G[0]) = 0
      BY <1>4, <1>5
    <3> QED
      BY <2>1, <2>2, <3>1 DEF Between
  <2>4. Len(S[0]) + 0 <= m /\ 0 \in 0 .. m
    <3>1. Len(S[0]) = m
      BY <2>1 DEF m
    <3> QED
      BY <1>2, <3>1
  <2> HIDE DEF At
  <2> QED
    BY <1>1, <2>3, <2>4
\* Where a round starts.
<1>7. ASSUME NEW k \in 0 .. m, k \in K
       PROVE  \E q \in 0 .. n : /\ At(k, q)
                                /\ Len(S[q]) + k <= m \/ q = n
                                /\ q = n \/ q + 1 \in A
  <2>1. PICK p \in 0 .. n : At(k, p) /\ (Len(S[p]) + k <= m \/ p = n)
    BY <1>7
  <2>2. PICK q \in 0 .. n : At(k, q) /\ Len(S[q]) <= Len(S[p]) /\ (q = n \/ q + 1 \in A)
    BY <2>1, PassToNext DEF n
  <2>3. CASE p = n
    BY <1>1, <2>1, <2>3
  <2>4. CASE Len(S[p]) + k <= m
    <3>1. Len(S[q]) + k <= m
      BY <1>2, <1>3, <2>2, <2>4, SMTT(30)
    <3> QED
      BY <2>2, <3>1
  <2> HIDE DEF At
  <2> QED
    BY <2>1, <2>3, <2>4
<1>8. ASSUME NEW k \in 0 .. m - 1, k \in K PROVE k + 1 \in K
  <2>1. k \in 0 .. m /\ k + 1 \in 0 .. m /\ k + 1 \in 1 .. m /\ (k + 1) - 1 = k
    BY <1>2
  <2>2. PICK q \in 0 .. n : /\ At(k, q)
                            /\ Len(S[q]) + k <= m \/ q = n
                            /\ q = n \/ q + 1 \in A
    BY <1>7, <1>8, <2>1
  <2>3. f[k + 1] = Round(x, new, a, f[k])
    BY <1>5, <2>1
  <2>4. CASE q = n
    <3>1. Find(f[k].out, x, f[k].pos) = 0
      BY <2>2, <2>4, <1>4, NothingLeft DEF n
    <3>2. f[k + 1] = f[k]
      BY <2>3, <3>1 DEF Round
    <3>3. At(k + 1, n)
      BY <2>2, <2>4, <3>2
    <3> HIDE DEF At
    <3> QED
      BY <1>1, <2>1, <3>3
  <2>5. CASE q # n
    <3> DEFINE j == q + Len(x)
    <3>1. j \in 0 .. n /\ Between(Round(x, new, a, f[k]), j, G, S, x, A) /\ Len(S[j]) < Len(S[q])
      BY <2>2, <2>5, ReplaceOne DEF n
    <3> HIDE DEF j
    <3>2. At(k + 1, j)
      BY <2>3, <3>1
    <3>3. Len(S[j]) + (k + 1) <= m
      <4>1. Len(S[q]) + k <= m /\ Len(S[j]) < Len(S[q])
        BY <2>2, <2>5, <3>1
      <4>2. Len(S[q]) \in Nat /\ Len(S[j]) \in Nat /\ k \in Nat
        BY <1>2, <1>3, <3>1
      <4> DEFINE u == Len(S[q])
                 v == Len(S[j])
      <4> HIDE DEF u, v
      <4>3. u \in Nat /\ v \in Nat /\ u + k <= m /\ v < u
        BY <4>1, <4>2 DEF u, v
      <4>4. v + (k + 1) <= m
        BY <1>2, <4>2, <4>3
      <4> QED
        BY <4>4 DEF v
    <3> HIDE DEF At
    <3> QED
      BY <2>1, <3>1, <3>2, <3>3
  <2> QED
    BY <2>4, <2>5
<1>9. m \in K
  <2> HIDE DEF K
  <2>1. \A k \in 0 .. m : k \in K
    BY <1>2, <1>6, <1>8, Upwards
  <2> QED
    BY <1>2, <2>1
<1>10. At(m, n)
  <2>1. m \in 0 .. m
    BY <1>2
  <2>2. PICK q \in 0 .. n : /\ At(m, q)
                            /\ Len(S[q]) + m <= m \/ q = n
                            /\ q = n \/ q + 1 \in A
    <3> HIDE DEF K, At
    <3> QED
      BY <1>7, <1>9, <2>1
  <2>3. ASSUME q # n PROVE FALSE
    <3> DEFINE j == q + Len(x)
    <3>1. j \in 0 .. n /\ Len(S[j]) < Len(S[q])
      BY <2>2, <2>3, ReplaceOne DEF n
    <3> HIDE DEF j
    <3> QED
      BY <1>2, <1>3, <2>2, <2>3, <3>1
  <2> QED
    BY <2>2, <2>3
<1>11. f[m].out = G[n] /\ Find(f[m].out, x, f[m].pos) = 0
  BY <1>4, <1>10, NothingLeft DEF n
<1> QED
  BY <1>5, <1>11 DEF s, n

\* The types of all that Fits is about.
Typed(C, P, S, Q, x, new, a) ==
  /\ P \in Seq(Seq(C)) /\ Q \in Seq(Seq(C)) /\ Len(Q) = Len(P)
  /\ S \in [0 .. Len(P) -> Seq(C)]
  /\ x \in Seq(C) /\ Len(x) > 0
  /\ new \in Seq(C) /\ a \in 0 .. Len(new)

\* What Replace makes of a text in pieces.
LEMMA ReplaceIs ==
  ASSUME NEW C, NEW P, NEW F, NEW S, NEW Q, NEW x, NEW new, NEW a, NEW A,
         Typed(C, P, S, Q, x, new, a), Parts(P, F, S), Fits(P, S, Q, x, new, a, A)
  PROVE  Replace(FlattenSeq(P), x, new, a) = [out |-> FlattenSeq(Q), ends |-> TRUE]
<1> DEFINE n == Len(P)
<1>1. n \in Nat /\ 0 \in 0 .. n /\ n \in 0 .. n
  BY DEF Typed
<1>2. PICK G, R : /\ G \in [0 .. n -> Seq(C)]
                  /\ R \in [0 .. n -> Seq(C)]
                  /\ Parts(Q, G, R)
  BY PartsExist DEF Typed
<1>3. StartsAndRests(C, P, Q, G, S)
  BY <1>2 DEF StartsAndRests, Parts, Typed
<1>4. F[0] = <<>> /\ G[0] = <<>> /\ S[n] = <<>> /\ R[n] = <<>>
  BY <1>2 DEF Parts, Typed
<1>5. S[0] = FlattenSeq(P)
  <2>1. F[0] \o S[0] = FlattenSeq(P) /\ S[0] \in Seq(C)
    BY <1>1 DEF Parts, Typed
  <2> QED
    BY <1>4, <2>1, ConcatEmptySeq
<1>6. G[n] = FlattenSeq(Q)
  <2>1. G[n] \o R[n] = FlattenSeq(Q) /\ G[n] \in Seq(C)
    BY <1>1, <1>2 DEF Parts, Typed
  <2> QED
    BY <1>4, <2>1, ConcatEmptySeq
<1>7. G[0] = <<>> /\ S[Len(P)] = <<>>
  BY <1>4
<1>8. x \in Seq(C) /\ Len(x) > 0 /\ new \in Seq(C) /\ a \in 0 .. Len(new)
  BY DEF Typed
<1>9. Replace(S[0], x, new, a) = [out |-> G[Len(P)], ends |-> TRUE]
  BY <1>3, <1>7, <1>8, RoundsEnd
<1> QED
  BY <1>5, <1>6, <1>9

-----------------------------------------------------------------------------
\* htmlspecialchars()

\* The characters that no search of htmlspecialchars() or generate() starts at.
Plain == Char \ (Special \union {"{", "{>"})

\* What is put in place of a character is an ampersand and plain characters.
IsEntity(e) ==
  /\ e \in Seq(Char)
  /\ Len(e) >= 4
  /\ e[1] = "&"
  /\ \A k \in 2 .. Len(e) : e[k] \in Plain

\* No letter of an entity is escaped itself.
LEMMA Letters == {"a", "g", "l", "m", "o", "p", "q", "t", "u", ";"} \subseteq Plain
  BY CharAssumption DEF Plain, Special

\* An ampersand and three letters make an entity.
LEMMA ShortEntity ==
  ASSUME NEW a \in Plain, NEW b \in Plain, NEW c \in Plain
  PROVE  IsEntity(<<"&", a, b, c>>)
<1> DEFINE e == <<"&", a, b, c>>
<1>1. e \in Seq(Char)
  <2>1. "&" \in Char /\ a \in Char /\ b \in Char /\ c \in Char
    BY CharAssumption DEF Plain
  <2> QED
    BY <2>1
<1>2. Len(e) = 4 /\ e[1] = "&" /\ e[2] = a /\ e[3] = b /\ e[4] = c
  OBVIOUS
<1>3. \A k \in 2 .. 4 : k = 2 \/ k = 3 \/ k = 4
  OBVIOUS
<1> HIDE DEF e
<1> QED
  BY <1>1, <1>2, <1>3 DEF IsEntity, e

\* So do an ampersand and four letters,
LEMMA MiddleEntity ==
  ASSUME NEW a \in Plain, NEW b \in Plain, NEW c \in Plain, NEW d \in Plain
  PROVE  IsEntity(<<"&", a, b, c, d>>)
<1> DEFINE e == <<"&", a, b, c, d>>
<1>1. e \in Seq(Char)
  <2>1. "&" \in Char /\ a \in Char /\ b \in Char /\ c \in Char /\ d \in Char
    BY CharAssumption DEF Plain
  <2> QED
    BY <2>1
<1>2. Len(e) = 5 /\ e[1] = "&" /\ e[2] = a /\ e[3] = b /\ e[4] = c /\ e[5] = d
  OBVIOUS
<1>3. \A k \in 2 .. 5 : k = 2 \/ k = 3 \/ k = 4 \/ k = 5
  OBVIOUS
<1> HIDE DEF e
<1> QED
  BY <1>1, <1>2, <1>3 DEF IsEntity, e

\* and an ampersand and five letters.
LEMMA LongEntity ==
  ASSUME NEW a \in Plain, NEW b \in Plain, NEW c \in Plain, NEW d \in Plain, NEW f \in Plain
  PROVE  IsEntity(<<"&", a, b, c, d, f>>)
<1> DEFINE e == <<"&", a, b, c, d, f>>
<1>1. e \in Seq(Char)
  <2>1. "&" \in Char /\ a \in Char /\ b \in Char /\ c \in Char /\ d \in Char /\ f \in Char
    BY CharAssumption DEF Plain
  <2> QED
    BY <2>1
<1>2. /\ Len(e) = 6 /\ e[1] = "&" /\ e[2] = a /\ e[3] = b /\ e[4] = c /\ e[5] = d
      /\ e[6] = f
  OBVIOUS
<1>3. \A k \in 2 .. 6 : k = 2 \/ k = 3 \/ k = 4 \/ k = 5 \/ k = 6
  OBVIOUS
<1> HIDE DEF e
<1> QED
  BY <1>1, <1>2, <1>3 DEF IsEntity, e

\* What is put in place of a special character is an entity.
LEMMA Entities ==
  ASSUME NEW c \in Special
  PROVE  IsEntity(Entity(c))
<1>1. CASE c = "&"
  BY <1>1, Letters, MiddleEntity DEF Entity
<1>2. CASE c = "<"
  BY <1>2, Letters, ShortEntity DEF Entity
<1>3. CASE c = ">"
  BY <1>3, Letters, ShortEntity DEF Entity
<1>4. CASE c = "\""
  BY <1>4, Letters, LongEntity DEF Entity
<1> QED
  BY <1>1, <1>2, <1>3, <1>4 DEF Special

\* The text v in pieces, one for each character, with those of D escaped.
Escaped(v, D) == [i \in DOMAIN v |-> IF v[i] \in D THEN Entity(v[i]) ELSE <<v[i]>>]

\* There are as many pieces as characters, whichever are escaped.
LEMMA EscapedPieces ==
  ASSUME NEW v \in Seq(Char), NEW D, D \subseteq Special
  PROVE  /\ Escaped(v, D) \in Seq(Seq(Char))
         /\ Len(Escaped(v, D)) = Len(v)
         /\ DOMAIN Escaped(v, D) = 1 .. Len(v)
<1>1. DOMAIN v = 1 .. Len(v) /\ Len(v) \in Nat
  OBVIOUS
<1>2. ASSUME NEW i \in 1 .. Len(v)
      PROVE  (IF v[i] \in D THEN Entity(v[i]) ELSE <<v[i]>>) \in Seq(Char)
  <2>1. v[i] \in Char
    OBVIOUS
  <2>2. <<v[i]>> \in Seq(Char)
    BY <2>1
  <2>3. CASE v[i] \in D
    <3>1. IsEntity(Entity(v[i]))
      BY <2>3, Entities
    <3> QED
      BY <2>3, <3>1 DEF IsEntity
  <2> QED
    BY <2>2, <2>3
<1>3. Escaped(v, D) \in [1 .. Len(v) -> Seq(Char)]
  BY <1>1, <1>2 DEF Escaped
<1> QED
  BY <1>1, <1>3

\* A text of pieces of one character each is the text of the characters.
LEMMA OneByOne ==
  ASSUME NEW v \in Seq(Char)
  PROVE  FlattenSeq(Escaped(v, {})) = v
<1> DEFINE n == Len(v)
           P == Escaped(v, {})
<1>1. n \in Nat /\ DOMAIN v = 1 .. n /\ \A i \in 1 .. n : v[i] \in Char
  OBVIOUS
<1>2. P \in Seq(Seq(Char)) /\ Len(P) = n /\ \A i \in 1 .. n : P[i] = <<v[i]>>
  BY <1>1, EscapedPieces DEF Escaped
<1> HIDE DEF P
<1>3. PICK F, S : /\ F \in [0 .. n -> Seq(Char)]
                  /\ S \in [0 .. n -> Seq(Char)]
                  /\ Parts(P, F, S)
  BY <1>2, PartsExist
<1> HIDE DEF n
<1>4. F[0] = <<>> /\ \A i \in 1 .. n : F[i] = F[i - 1] \o <<v[i]>>
  BY <1>2, <1>3 DEF Parts
<1>5. \A k \in 0 .. n : F[k] \in Seq(Char)
  BY <1>3
<1>6. F[n] = FlattenSeq(P)
  <2>1. S[n] = <<>> /\ n \in 0 .. n
    BY <1>1, <1>2, <1>3 DEF Parts
  <2>2. F[n] \o S[n] = FlattenSeq(P)
    BY <1>2, <1>3, <2>1 DEF Parts
  <2> DEFINE f == F[n]
  <2>3. f \in Seq(Char)
    BY <1>5, <2>1
  <2> HIDE DEF f
  <2>4. f \o <<>> = f
    BY <2>3, ConcatEmptySeq
  <2> QED
    BY <2>1, <2>2, <2>4 DEF f
<1> DEFINE K == {k \in 0 .. n : Len(F[k]) = k /\ \A i \in 1 .. k : F[k][i] = v[i]}
<1>7. 0 \in K
  BY <1>1, <1>4
<1>8. ASSUME NEW k \in 0 .. n - 1, k \in K PROVE k + 1 \in K
  <2> DEFINE j == k + 1
             g == F[k]
             e == v[j]
  <2>1. j \in 1 .. n /\ j \in 0 .. n /\ j - 1 = k /\ k \in 0 .. n /\ k \in Nat
    BY <1>1
  <2>2. g \in Seq(Char) /\ e \in Char
    BY <1>1, <1>5, <2>1
  <2>3. F[j] = g \o <<e>>
    BY <1>4, <2>1
  <2>4. Len(g) = k /\ \A i \in 1 .. k : g[i] = v[i]
    BY <1>8
  <2> HIDE DEF g, e
  <2>5. /\ Len(g \o <<e>>) = k + 1
        /\ \A i \in 1 .. k : (g \o <<e>>)[i] = g[i]
        /\ (g \o <<e>>)[k + 1] = e
    BY <2>2, <2>4, OneMore
  <2>6. \A i \in 1 .. k + 1 : i \in 1 .. k \/ i = k + 1
    BY <2>1
  <2>7. \A i \in 1 .. k + 1 : F[j][i] = v[i]
    BY <2>3, <2>4, <2>5, <2>6 DEF e
  <2>8. Len(F[j]) = k + 1
    BY <2>3, <2>5
  <2> QED
    BY <2>1, <2>7, <2>8
<1>9. n \in K
  <2> HIDE DEF K
  <2>1. \A k \in 0 .. n : k \in K
    BY <1>1, <1>7, <1>8, Upwards
  <2> QED
    BY <1>1, <2>1
<1>10. F[n] = v
  <2> DEFINE u == F[n]
  <2>1. u \in Seq(Char)
    BY <1>1, <1>5
  <2>2. Len(u) = n /\ \A i \in 1 .. n : u[i] = v[i]
    BY <1>9
  <2> HIDE DEF u
  <2>3. u = v
    BY <2>1, <2>2, SeqEqual DEF n
  <2> QED
    BY <2>3 DEF u
<1> QED
  BY <1>6, <1>10 DEF P

\* One round of the loop escapes one character more.  None that is put in for
\* another one is escaped, as long as the ampersand comes first.
LEMMA OneRound ==
  ASSUME NEW v \in Seq(Char), NEW D, D \subseteq Special, NEW c \in Special,
         c \notin D, D # {} => c # "&"
  PROVE  Escape(FlattenSeq(Escaped(v, D)), c) = FlattenSeq(Escaped(v, D \union {c}))
<1> DEFINE n == Len(v)
           P == Escaped(v, D)
           Q == Escaped(v, D \union {c})
           A == {i \in 1 .. n : v[i] = c}
           x == <<c>>
           new == Entity(c)
<1>1. n \in Nat /\ DOMAIN v = 1 .. n
  OBVIOUS
<1>2. /\ P \in Seq(Seq(Char)) /\ Len(P) = n
      /\ Q \in Seq(Seq(Char)) /\ Len(Q) = n
  BY EscapedPieces
<1>3. \A i \in 1 .. n : /\ P[i] = IF v[i] \in D THEN Entity(v[i]) ELSE <<v[i]>>
                        /\ Q[i] = IF v[i] \in D \union {c} THEN Entity(v[i]) ELSE <<v[i]>>
  BY <1>1 DEF Escaped
<1>4. x \in Seq(Char) /\ Len(x) = 1 /\ x[1] = c
  <2>1. c \in Char
    BY CharAssumption DEF Special
  <2> QED
    BY <2>1
<1>5. IsEntity(new) /\ new \in Seq(Char) /\ Len(new) \in Nat /\ Len(new) >= 4
  <2>1. IsEntity(new)
    BY Entities
  <2> HIDE DEF new
  <2> QED
    BY <2>1 DEF IsEntity
<1> HIDE DEF P, Q, x, new, n
<1>6. PICK F, S : /\ F \in [0 .. n -> Seq(Char)]
                  /\ S \in [0 .. n -> Seq(Char)]
                  /\ Parts(P, F, S)
  BY <1>2, PartsExist
<1>7. ASSUME NEW i \in A
      PROVE  S[i - 1] = x \o S[i] /\ Q[i] = new
  <2>1. i \in 1 .. n /\ v[i] = c
    OBVIOUS
  <2>2. P[i] = x /\ Q[i] = new
    BY <1>3, <2>1 DEF x, new
  <2> QED
    BY <1>2, <1>6, <2>1, <2>2 DEF Parts
<1>8. ASSUME NEW i \in (1 .. n) \ A
      PROVE  Q[i] = P[i] /\ \A k \in 1 .. Len(P[i]) : P[i][k] # c
  <2>1. v[i] # c
    OBVIOUS
  <2>2. Q[i] = P[i]
    BY <1>3, <2>1
  <2>3. CASE v[i] \in D
    <3> DEFINE e == Entity(v[i])
    <3>1. IsEntity(e) /\ P[i] = e
      BY <1>3, <2>3, Entities
    <3> HIDE DEF e
    <3>2. c # "&"
      BY <2>3
    <3>3. Len(e) \in Nat
      BY <3>1 DEF IsEntity
    <3>4. \A k \in 1 .. Len(e) : k = 1 \/ k \in 2 .. Len(e)
      BY <3>3
    <3>5. \A k \in 1 .. Len(e) : e[k] # c
      BY <3>1, <3>2, <3>4 DEF IsEntity, Plain
    <3> QED
      BY <2>2, <3>1, <3>5
  <2>4. CASE v[i] \notin D
    <3> DEFINE e == v[i]
    <3>1. P[i] = <<e>>
      BY <1>3, <2>4
    <3> HIDE DEF e
    <3>2. Len(<<e>>) = 1 /\ <<e>>[1] = e
      OBVIOUS
    <3>3. \A k \in 1 .. Len(<<e>>) : <<e>>[k] = e
      BY <3>2
    <3> QED
      BY <2>1, <2>2, <3>1, <3>3 DEF e
  <2> QED
    BY <2>3, <2>4
<1>9. \A k \in 3 + 1 .. Len(new) : new[k] # c
  <2>1. \A k \in 3 + 1 .. Len(new) : k \in 2 .. Len(new)
    BY <1>5
  <2> QED
    BY <1>5, <2>1 DEF IsEntity, Plain
<1>10. Fits(P, S, Q, x, new, 3, A)
  <2>1. A \subseteq 1 .. Len(P)
    BY <1>2
  <2>2. ASSUME NEW i \in A
        PROVE  /\ i + Len(x) - 1 <= Len(P)
               /\ S[i - 1] = x \o S[i + Len(x) - 1]
               /\ Q[i] = new
               /\ \A k \in i + 1 .. i + Len(x) - 1 : k \notin A /\ Q[k] = <<>>
    <3> DEFINE j == i + Len(x) - 1
    <3>1. i \in 1 .. n /\ j = i /\ n \in Nat
      BY <1>1, <1>4
    <3> HIDE DEF j
    <3>2. \A k \in i + 1 .. j : FALSE
      BY <3>1
    <3>3. j <= Len(P) /\ S[i - 1] = x \o S[j] /\ Q[i] = new
      BY <1>2, <1>7, <3>1
    <3> QED
      BY <3>2, <3>3 DEF j
  <2>3. ASSUME NEW i \in 1 .. Len(P) \ A
        PROVE  Q[i] = P[i] /\ \A k \in 1 .. Len(P[i]) : P[i][k] # x[1]
    BY <1>2, <1>4, <1>8
  <2> QED
    BY <1>4, <1>9, <2>1, <2>2, <2>3 DEF Fits
<1>11. Len(x) > 0 /\ 3 \in 0 .. Len(new)
  BY <1>4, <1>5
<1>12. Replace(FlattenSeq(P), x, new, 3) = [out |-> FlattenSeq(Q), ends |-> TRUE]
  <2> HIDE DEF A
  <2>1. Typed(Char, P, S, Q, x, new, 3)
    BY <1>2, <1>4, <1>5, <1>6, <1>11 DEF Typed
  <2> QED
    BY <1>6, <1>10, <2>1, ReplaceIs
<1>13. Escape(FlattenSeq(P), c) = Replace(FlattenSeq(P), x, new, 3).out
  BY DEF Escape, x, new
<1> QED
  BY <1>12, <1>13 DEF P, Q

\* htmlspecialchars() replaces each special character by its entity, once.
LEMMA Escapes ==
  ASSUME NEW v \in Seq(Char)
  PROVE  htmlspecialchars(v) = FlattenSeq(Escaped(v, Special))
<1> DEFINE E(D) == FlattenSeq(Escaped(v, D))
<1>1. E({}) = v
  BY OneByOne
<1>2. Escape(E({}), "&") = E({"&"})
  <2>1. {} \union {"&"} = {"&"} /\ "&" \in Special
    BY DEF Special
  <2>2. Escape(E({}), "&") = E({} \union {"&"})
    BY <2>1, OneRound
  <2> QED
    BY <2>1, <2>2
<1>3. Escape(E({"&"}), "<") = E({"&", "<"})
  <2>1. /\ {"&"} \union {"<"} = {"&", "<"} /\ {"&"} \subseteq Special
        /\ "<" \in Special /\ "<" \notin {"&"} /\ "<" # "&"
    BY DEF Special
  <2>2. Escape(E({"&"}), "<") = E({"&"} \union {"<"})
    BY <2>1, OneRound
  <2> QED
    BY <2>1, <2>2
<1>4. Escape(E({"&", "<"}), ">") = E({"&", "<", ">"})
  <2>1. /\ {"&", "<"} \union {">"} = {"&", "<", ">"} /\ {"&", "<"} \subseteq Special
        /\ ">" \in Special /\ ">" \notin {"&", "<"} /\ ">" # "&"
    BY DEF Special
  <2>2. Escape(E({"&", "<"}), ">") = E({"&", "<"} \union {">"})
    BY <2>1, OneRound
  <2> QED
    BY <2>1, <2>2
<1>5. Escape(E({"&", "<", ">"}), "\"") = E(Special)
  <2>1. /\ {"&", "<", ">"} \union {"\""} = Special /\ {"&", "<", ">"} \subseteq Special
        /\ "\"" \in Special /\ "\"" \notin {"&", "<", ">"} /\ "\"" # "&"
    BY DEF Special
  <2>2. Escape(E({"&", "<", ">"}), "\"") = E({"&", "<", ">"} \union {"\""})
    BY <2>1, OneRound
  <2> QED
    BY <2>1, <2>2
<1> QED
  BY <1>1, <1>2, <1>3, <1>4, <1>5 DEF htmlspecialchars

-----------------------------------------------------------------------------
\* Sections

\* What holds whenever it holds further on holds everywhere.
LEMMA Downwards ==
  ASSUME NEW n \in Nat, NEW G,
         \A i \in 1 .. n : (\A j \in i + 1 .. n : j \in G) => i \in G
  PROVE  \A i \in 1 .. n : i \in G
<1> DEFINE Bad == {i \in 1 .. n : i \notin G}
           B == {n - i : i \in Bad}
<1> SUFFICES ASSUME Bad # {} PROVE FALSE
  OBVIOUS
<1>1. PICK k \in B : \A m \in B : k <= m
  <2>1. B \in SUBSET Nat /\ B # {}
    OBVIOUS
  <2> HIDE DEF B
  <2> QED
    BY <2>1, LeastNumber
<1>2. PICK i \in Bad : k = n - i
  OBVIOUS
<1>3. ASSUME NEW j \in i + 1 .. n, j \notin G PROVE FALSE
  <2>1. j \in 1 .. n /\ i \in 1 .. n
    BY <1>2
  <2>2. n - j \in B
    BY <1>3, <2>1
  <2>3. n - i <= n - j
    BY <1>1, <1>2, <2>2
  <2> QED
    BY <2>1, <2>3
<1> QED
  BY <1>2, <1>3

\* The first match from i on, as a set.
FirstFrom(text, i) ==
  {m \in (i .. Len(text)) \X (i .. Len(text)) :
     /\ text[m[1]] \in Starts
     /\ \A j \in i .. m[1] - 1 : text[j] \notin Starts
     /\ m[2] \in LazyEnd(text, m[1])}

\* The matches from i on, when f has those from further on.
From(text, f, i) == UNION {{m} \union f[m[2] + 1] : m \in FirstFrom(text, i)}

\* A match ends behind where it is looked for.
LEMMA FurtherOn ==
  ASSUME NEW text, Len(text) \in Nat, NEW i \in 1 .. Len(text) + 1, NEW m \in FirstFrom(text, i)
  PROVE  /\ m \in (1 .. Len(text)) \X (1 .. Len(text))
         /\ m = <<m[1], m[2]>>
         /\ i <= m[1] /\ m[1] < m[2]
         /\ m[2] + 1 \in i + 1 .. Len(text) + 1
<1>1. m \in (i .. Len(text)) \X (i .. Len(text)) /\ m[2] \in LazyEnd(text, m[1])
  BY DEF FirstFrom
<1>2. m[2] \in m[1] + 1 .. Len(text)
  BY <1>1 DEF LazyEnd
<1>3. PICK b \in i .. Len(text), e \in i .. Len(text) : m = <<b, e>>
  BY <1>1
<1>4. m[1] = b /\ m[2] = e
  BY <1>3
<1> QED
  BY <1>2, <1>3, <1>4

\* The matches are found one after the other, each further on.
LEMMA MatchesAre ==
  ASSUME NEW text, Len(text) \in Nat
  PROVE  \E f : /\ \A i \in 1 .. Len(text) + 1 : f[i] = From(text, f, i)
                /\ Matches(text) = f[1]
<1> DEFINE n == Len(text) + 1
           Rec(f) == [i \in 1 .. Len(text) + 1 |-> From(text, f, i)]
           Good(i, f) == DOMAIN f = 1 .. n /\ \A j \in i .. n : f[j] = From(text, f, j)
           G == {i \in 1 .. n : \E f : Good(i, f)}
<1>1. n \in Nat /\ 1 \in 1 .. n
  OBVIOUS
<1>2. ASSUME NEW f, NEW h, NEW i \in 1 .. n, \A j \in i + 1 .. n : f[j] = h[j]
      PROVE  From(text, f, i) = From(text, h, i)
  <2>1. \A m \in FirstFrom(text, i) : f[m[2] + 1] = h[m[2] + 1]
    BY <1>2, FurtherOn
  <2> QED
    BY <2>1 DEF From
<1> HIDE DEF n
<1>3. ASSUME NEW i \in 1 .. n, \A j \in i + 1 .. n : j \in G
      PROVE  i \in G
  <2>1. PICK f : Good(i + 1, f)
    <3>1. CASE i < n
      <4>1. i + 1 \in i + 1 .. n
        BY <1>1, <3>1
      <4> QED
        BY <1>3, <4>1
    <3>2. CASE i = n
      <4> DEFINE h == [j \in 1 .. n |-> {}]
      <4>1. DOMAIN h = 1 .. n /\ \A j \in i + 1 .. n : FALSE
        BY <1>1, <3>2
      <4> HIDE DEF h
      <4> QED
        BY <4>1
    <3> QED
      BY <1>1, <3>1, <3>2
  <2> DEFINE v == From(text, f, i)
             H == [j \in 1 .. n |-> IF j = i THEN v ELSE f[j]]
  <2> HIDE DEF v
  <2>2. H[i] = v /\ DOMAIN H = 1 .. n /\ \A j \in i + 1 .. n : H[j] = f[j]
    BY <1>1
  <2> HIDE DEF H
  <2>3. ASSUME NEW j \in i .. n PROVE H[j] = From(text, H, j)
    <3>1. j \in 1 .. n /\ (j = i \/ j \in i + 1 .. n) /\ \A k \in j + 1 .. n : k \in i + 1 .. n
      BY <1>1
    <3>2. From(text, H, j) = From(text, f, j)
      BY <1>2, <2>2, <3>1
    <3>3. CASE j = i
      BY <2>2, <3>2, <3>3 DEF v
    <3>4. CASE j \in i + 1 .. n
      BY <2>1, <2>2, <3>2, <3>4
    <3> QED
      BY <3>1, <3>3, <3>4
  <2>4. Good(i, H)
    BY <2>2, <2>3
  <2> HIDE DEF Good
  <2> QED
    BY <2>4
<1>4. 1 \in G
  <2> HIDE DEF G
  <2>1. \A i \in 1 .. n : i \in G
    BY <1>1, <1>3, Downwards
  <2> QED
    BY <1>1, <2>1
<1>5. PICK g : Good(1, g)
  BY <1>4
<1> DEFINE own == [i \in 1 .. Len(text) + 1 |-> g[i]]
<1> USE DEF n
<1>6. own = Rec(own)
  <2>1. ASSUME NEW i \in 1 .. n PROVE own[i] = From(text, own, i)
    <3>1. \A j \in i + 1 .. n : j \in 1 .. n
      OBVIOUS
    <3>2. own[i] = g[i] /\ \A j \in i + 1 .. n : own[j] = g[j]
      BY <3>1
    <3> HIDE DEF own
    <3>3. From(text, own, i) = From(text, g, i)
      BY <1>2, <3>2
    <3> QED
      BY <1>5, <3>2, <3>3
  <2>2. DOMAIN own = 1 .. n /\ DOMAIN Rec(own) = 1 .. n
    OBVIOUS
  <2> QED
    BY <2>1, <2>2
<1> DEFINE from == CHOOSE f : f = Rec(f)
<1>7. from = Rec(from)
  BY <1>6
<1>8. Matches(text) = from[1]
  BY DEF Matches, From, FirstFrom
<1> HIDE DEF from
<1>9. \A i \in 1 .. Len(text) + 1 : from[i] = From(text, from, i)
  BY <1>7
<1> QED
  BY <1>8, <1>9

\* The matches that have the name n at both ends.
Of(text, n) == {m \in Matches(text) : text[m[1]] = StartOf[n] /\ text[m[2]] = EndOf[n]}

\* A match is a start in the text and the next end behind it.
LEMMA MatchesInside ==
  ASSUME NEW text, Len(text) \in Nat, NEW m \in Matches(text)
  PROVE  /\ m \in (1 .. Len(text)) \X (1 .. Len(text))
         /\ m = <<m[1], m[2]>>
         /\ m[1] < m[2]
<1> DEFINE X == {k \in (1 .. Len(text)) \X (1 .. Len(text)) : k = <<k[1], k[2]>> /\ k[1] < k[2]}
<1>1. PICK f : /\ \A i \in 1 .. Len(text) + 1 : f[i] = From(text, f, i)
               /\ Matches(text) = f[1]
  BY MatchesAre
<1> DEFINE n == Len(text) + 1
           G == {i \in 1 .. n : f[i] \subseteq X}
<1>2. ASSUME NEW i \in 1 .. n, \A j \in i + 1 .. n : j \in G
      PROVE  i \in G
  <2>1. ASSUME NEW k \in FirstFrom(text, i) PROVE k \in X /\ f[k[2] + 1] \subseteq X
    <3>1. /\ k \in (1 .. Len(text)) \X (1 .. Len(text)) /\ k = <<k[1], k[2]>>
          /\ k[1] < k[2] /\ k[2] + 1 \in i + 1 .. n
      BY FurtherOn
    <3> QED
      BY <1>2, <3>1
  <2> HIDE DEF X
  <2>2. From(text, f, i) \subseteq X
    BY <2>1 DEF From
  <2> QED
    BY <1>1, <2>2
<1>3. n \in Nat /\ 1 \in 1 .. n
  OBVIOUS
<1>4. 1 \in G
  <2> HIDE DEF G, n
  <2>1. \A i \in 1 .. n : i \in G
    BY <1>2, <1>3, Downwards
  <2> QED
    BY <1>3, <2>1
<1>5. m \in X
  <2> HIDE DEF X
  <2> QED
    BY <1>1, <1>4
<1> QED
  BY <1>5

\* Of the matches with a name, the last one gives the section.
LEMMA SectionsAre ==
  ASSUME NEW text, Len(text) \in Nat
  PROVE  /\ DOMAIN Sections(text) = {n \in SectionName : Of(text, n) # {}}
         /\ \A n \in DOMAIN Sections(text) :
              \E m \in Of(text, n) :
                /\ \A k \in Of(text, n) : k[1] <= m[1]
                /\ Sections(text)[n] = SubSeq(text, m[1] + 1, m[2] - 1)
<1> DEFINE last(n) == CHOOSE m \in Of(text, n) : \A k \in Of(text, n) : k[1] <= m[1]
<1>1. Sections(text) = [n \in {s \in SectionName : Of(text, s) # {}} |->
                          SubSeq(text, last(n)[1] + 1, last(n)[2] - 1)]
  BY DEF Sections, Of
<1>2. ASSUME NEW n \in SectionName, Of(text, n) # {}
      PROVE  \E m \in Of(text, n) : \A k \in Of(text, n) : k[1] <= m[1]
  <2> DEFINE B == {Len(text) - m[1] : m \in Of(text, n)}
  <2>1. \A m \in Of(text, n) : m[1] \in 1 .. Len(text)
    BY MatchesInside DEF Of
  <2>2. B \in SUBSET Nat /\ B # {}
    BY <1>2, <2>1
  <2>3. PICK b \in B : \A c \in B : b <= c
    <3> HIDE DEF B
    <3> QED
      BY <2>2, LeastNumber
  <2>4. PICK m \in Of(text, n) : b = Len(text) - m[1]
    BY <2>3
  <2>5. ASSUME NEW k \in Of(text, n) PROVE k[1] <= m[1]
    <3>1. Len(text) - m[1] <= Len(text) - k[1]
      BY <2>3, <2>4
    <3> QED
      BY <2>1, <2>4, <3>1
  <2> QED
    BY <2>4, <2>5
<1>3. ASSUME NEW n \in SectionName, Of(text, n) # {}
      PROVE  last(n) \in Of(text, n) /\ \A k \in Of(text, n) : k[1] <= last(n)[1]
  BY <1>2, <1>3
<1> HIDE DEF last
<1> QED
  BY <1>1, <1>3

\* A section of a text is a text of the same characters.
LEMMA SectionsTyped ==
  ASSUME NEW text \in Seq(Char), NEW n \in DOMAIN Sections(text)
  PROVE  Sections(text)[n] \in Seq(Char)
<1>1. Len(text) \in Nat
  OBVIOUS
<1>2. PICK m \in Of(text, n) : Sections(text)[n] = SubSeq(text, m[1] + 1, m[2] - 1)
  BY <1>1, SectionsAre
<1>3. m \in (1 .. Len(text)) \X (1 .. Len(text)) /\ m[1] < m[2]
  BY <1>1, MatchesInside DEF Of
<1> DEFINE b == m[1] + 1
           e == m[2] - 1
<1>4. b \in Nat \ {0} /\ e \in 0 .. Len(text) /\ b <= e + 1
  BY <1>1, <1>3
<1> HIDE DEF b, e
<1>5. SubSeq(text, b, e) \in Seq(Char)
  BY <1>4, Cut
<1> QED
  BY <1>2, <1>5 DEF b, e

-----------------------------------------------------------------------------
\* The types, and that every character is escaped once

OptionalText(o) == o = <<>> \/ \E t \in Seq(Char) : o = <<t>>

\* Texts by the names of finitely many tags or includes.
TextsByName(values) ==
  /\ DOMAIN values \subseteq TagName
  /\ IsFiniteSet(DOMAIN values)
  /\ values = [n \in DOMAIN values |-> values[n]]
  /\ \A n \in DOMAIN values : values[n] \in Seq(Char)

\* The sections are those of the file, and what generate() returned was made
\* of the section and of the values that are still set.
TemplateInv ==
  /\ file \in Seq(Char)
  /\ named = IF file = <<>> THEN <<>> ELSE Sections(file)
  /\ OptionalText(tpl) /\ TextsByName(tags) /\ TextsByName(includes)
  /\ out # <<>> =>
       /\ tpl # <<>>
       /\ \E r \in Rounds : out = <<[rounds |-> r, result |-> Filled(tpl[1], r)]>>

\* No value is set at first.
LEMMA NoneSet == TextsByName(<<>>)
<1>1. DOMAIN <<>> = {} /\ <<>> = [n \in {} |-> <<>>[n]]
  OBVIOUS
<1> QED
  BY <1>1, FS_EmptySet DEF TextsByName

\* One more value may be set.
LEMMA OneMoreSet ==
  ASSUME NEW values, TextsByName(values), NEW n \in TagName, NEW v \in Values
  PROVE  TextsByName(With(values, n, v))
<1> DEFINE D == DOMAIN values \union {n}
           w == With(values, n, v)
<1>1. w = [m \in D |-> IF m = n THEN v ELSE values[m]]
  BY DEF With
<1>2. DOMAIN w = D /\ \A m \in D : w[m] = IF m = n THEN v ELSE values[m]
  BY <1>1
<1>3. IsFiniteSet(D)
  BY FS_AddElement DEF TextsByName
<1>4. D \subseteq TagName
  BY DEF TextsByName
<1>5. w = [m \in D |-> w[m]]
  BY <1>1
<1>6. \A m \in D : w[m] \in Seq(Char)
  BY <1>2, ValuesAssumption DEF TextsByName
<1> HIDE DEF w, D
<1>7. TextsByName(w)
  BY <1>2, <1>3, <1>4, <1>5, <1>6 DEF TextsByName
<1> QED
  BY <1>7 DEF w

\* TemplateInv holds when a Template was created.
LEMMA TemplateInvInit ==
  ASSUME TemplateInit
  PROVE  TemplateInv
<1>1. <<>> \in Seq(Char)
  OBVIOUS
<1> QED
  BY <1>1, NoneSet DEF TemplateInit, TemplateInv, OptionalText

\* Every operation of a Template keeps TemplateInv.
LEMMA TemplateInvStep ==
  ASSUME TemplateInv, [TemplateNext]_templateVars
  PROVE  TemplateInv'
<1>1. CASE load_from_str
  <2>1. file' \in Seq(Char) /\ file' # <<>>
    BY <1>1, FilesAssumption DEF load_from_str
  <2>2. TextsByName(tags') /\ TextsByName(includes')
    BY <1>1, NoneSet DEF load_from_str
  <2> QED
    BY <1>1, <2>1, <2>2 DEF load_from_str, TemplateInv, OptionalText
<1>2. CASE load_section
  <2>1. PICK n \in DOMAIN named : tpl' = <<named[n]>>
    BY <1>2 DEF load_section
  <2>2. file # <<>>
    <3>1. ASSUME file = <<>> PROVE FALSE
      <4>1. n \in DOMAIN <<>>
        BY <3>1 DEF TemplateInv
      <4>2. DOMAIN <<>> = {}
        OBVIOUS
      <4> QED
        BY <4>1, <4>2
    <3> QED
      BY <3>1
  <2>3. named[n] \in Seq(Char)
    BY <2>2, SectionsTyped DEF TemplateInv
  <2>4. OptionalText(tpl')
    BY <2>1, <2>3 DEF OptionalText
  <2>5. UNCHANGED <<file, named, tags, includes>> /\ out' = <<>>
    BY <1>2 DEF load_section
  <2> QED
    BY <2>4, <2>5 DEF TemplateInv
<1>3. CASE tag
  <2>1. PICK n \in TagName, v \in Values : tags' = With(tags, n, v)
    BY <1>3 DEF tag
  <2>2. TextsByName(tags')
    BY <2>1, OneMoreSet DEF TemplateInv
  <2>3. out = <<>> /\ UNCHANGED <<file, named, tpl, includes, out>>
    BY <1>3 DEF tag, MaySet
  <2> QED
    BY <2>2, <2>3 DEF TemplateInv
<1>4. CASE integrate
  <2>1. PICK n \in TagName, v \in Values : includes' = With(includes, n, v)
    BY <1>4 DEF integrate
  <2>2. TextsByName(includes')
    BY <2>1, OneMoreSet DEF TemplateInv
  <2>3. out = <<>> /\ UNCHANGED <<file, named, tpl, tags, out>>
    BY <1>4 DEF integrate, MaySet
  <2> QED
    BY <2>2, <2>3 DEF TemplateInv
<1>5. CASE generate
  <2>1. UNCHANGED <<file, named, tpl, tags, includes>>
    BY <1>5 DEF generate
  <2>2. Rounds' = Rounds
    BY <2>1 DEF Rounds, TagRound, IncludeRound
  <2>3. CASE tpl = <<>>
    BY <1>5, <2>1, <2>3 DEF generate, TemplateInv
  <2>4. CASE tpl # <<>>
    <3>1. \E r \in Rounds : out' = <<[rounds |-> r, result |-> Filled(tpl[1], r)]>>
      BY <1>5, <2>4 DEF generate
    <3> QED
      BY <2>1, <2>2, <2>4, <3>1 DEF TemplateInv
  <2> QED
    BY <2>3, <2>4
<1>6. CASE UNCHANGED templateVars
  <2>1. UNCHANGED <<file, named, tpl, tags, includes, out>>
    BY <1>6 DEF templateVars
  <2>2. Rounds' = Rounds
    BY <2>1 DEF Rounds, TagRound, IncludeRound
  <2> QED
    BY <2>1, <2>2 DEF TemplateInv
<1> QED
  BY <1>1, <1>2, <1>3, <1>4, <1>5, <1>6 DEF TemplateNext

\* The section and all values are texts, and the sections are those of the file.
LEMMA TemplateInvHolds == TemplateSpec => []TemplateInv
<1>1. TemplateInv /\ [TemplateNext]_templateVars => TemplateInv'
  BY TemplateInvStep
<1> QED
  BY <1>1, TemplateInvInit, PTL DEF TemplateSpec

\* For all files and values: htmlspecialchars() replaces each special character
\* of a tag's value by its entity and leaves all others alone.  None of the four
\* rounds of its loop escapes what an earlier one has put in.
THEOREM EscapedJustOnce == TemplateSpec => []EscapedOnce
<1>1. ASSUME TemplateInv PROVE EscapedOnce
  <2> SUFFICES ASSUME NEW n \in DOMAIN tags
               PROVE  htmlspecialchars(tags[n]) = FlattenSeq(Escaped(tags[n], Special))
    BY DEF EscapedOnce, Escaped
  <2>1. tags[n] \in Seq(Char)
    BY <1>1 DEF TemplateInv, TextsByName
  <2> QED
    BY <2>1, Escapes
<1> QED
  BY <1>1, TemplateInvHolds, PTL

-----------------------------------------------------------------------------
\* That every section is found

Markers == Starts \union Ends

\* The markers that belong together.
Pairs(text) ==
  {m \in (1 .. Len(text)) \X (1 .. Len(text)) :
     /\ m[1] < m[2]
     /\ \A i \in m[1] + 1 .. m[2] - 1 : text[i] \notin Markers
     /\ \E n \in SectionName : text[m[1]] = StartOf[n] /\ text[m[2]] = EndOf[n]}

\* No two markers are the same.
LEMMA MarkersDiffer ==
  /\ \A n \in SectionName : StartOf[n] \in Starts /\ EndOf[n] \in Ends
  /\ \A n, k \in SectionName : StartOf[n] = StartOf[k] => n = k
  /\ \A m \in Starts : m \notin Ends
<1>1. StartOf["a"] = "<!--start a-->" /\ StartOf["b"] = "<!--start b-->"
  BY DEF StartOf
<1>2. EndOf["a"] = "<!--end a-->" /\ EndOf["b"] = "<!--end b-->"
  BY DEF EndOf
<1> QED
  BY <1>1, <1>2 DEF Starts, Ends, SectionName

\* A pair has its start first, its end next, and no marker between them.
LEMMA PairMarks ==
  ASSUME NEW text, Len(text) \in Nat, NEW p \in Pairs(text)
  PROVE  /\ p[1] \in 1 .. Len(text) /\ p[2] \in 1 .. Len(text) /\ p = <<p[1], p[2]>>
         /\ p[1] < p[2]
         /\ text[p[1]] \in Starts /\ text[p[2]] \in Ends
         /\ text[p[1]] \notin Ends /\ text[p[2]] \notin Starts
         /\ \A i \in p[1] + 1 .. p[2] - 1 : text[i] \notin Starts /\ text[i] \notin Ends
<1>1. PICK n \in SectionName : text[p[1]] = StartOf[n] /\ text[p[2]] = EndOf[n]
  BY DEF Pairs
<1>2. text[p[1]] \in Starts /\ text[p[2]] \in Ends
  BY <1>1, MarkersDiffer
<1>3. text[p[1]] \notin Ends /\ text[p[2]] \notin Starts
  BY <1>2, MarkersDiffer
<1>4. p[1] < p[2] /\ \A i \in p[1] + 1 .. p[2] - 1 : text[i] \notin Starts /\ text[i] \notin Ends
  BY DEF Pairs, Markers
<1>5. p \in (1 .. Len(text)) \X (1 .. Len(text))
  BY DEF Pairs
<1> QED
  BY <1>2, <1>3, <1>4, <1>5

\* Pairs lie one after the other.
LEMMA PairsApart ==
  ASSUME NEW text, Len(text) \in Nat, NEW p \in Pairs(text), NEW q \in Pairs(text),
         p[1] <= q[1]
  PROVE  p = q \/ p[2] < q[1]
<1>1. CASE p[1] < q[1]
  <2>1. ASSUME q[1] <= p[2] PROVE FALSE
    <3>1. q[1] \in p[1] + 1 .. p[2] - 1 \/ q[1] = p[2]
      BY <1>1, <2>1, PairMarks
    <3> QED
      BY <3>1, PairMarks
  <2> QED
    BY <2>1, PairMarks
<1>2. CASE p[1] = q[1]
  <2>1. ASSUME p[2] < q[2] PROVE FALSE
    <3>1. p[2] \in q[1] + 1 .. q[2] - 1
      BY <1>2, <2>1, PairMarks
    <3> QED
      BY <3>1, PairMarks
  <2>2. ASSUME q[2] < p[2] PROVE FALSE
    <3>1. q[2] \in p[1] + 1 .. p[2] - 1
      BY <1>2, <2>2, PairMarks
    <3> QED
      BY <3>1, PairMarks
  <2>3. p[2] = q[2]
    BY <2>1, <2>2, PairMarks
  <2>4. p = <<p[1], p[2]>> /\ q = <<q[1], q[2]>>
    BY PairMarks
  <2> QED
    BY <1>2, <2>3, <2>4
<1>3. p[1] \in Nat /\ q[1] \in Nat
  BY PairMarks
<1> QED
  BY <1>1, <1>2, <1>3

\* The shortest body behind the start of a pair ends at its end.
LEMMA PairIsShortest ==
  ASSUME NEW text, Len(text) \in Nat, NEW p \in Pairs(text), NEW e
  PROVE  e \in LazyEnd(text, p[1]) <=> e = p[2]
<1>1. p[2] \in LazyEnd(text, p[1])
  BY PairMarks DEF LazyEnd
<1>2. ASSUME e \in LazyEnd(text, p[1]) PROVE e = p[2]
  <2>1. /\ e \in p[1] + 1 .. Len(text)
        /\ text[e] \in Ends
        /\ \A i \in p[1] + 1 .. e - 1 : text[i] \notin Ends
    BY <1>2 DEF LazyEnd
  <2>2. ASSUME e < p[2] PROVE FALSE
    <3>1. e \in p[1] + 1 .. p[2] - 1
      BY <2>1, <2>2, PairMarks
    <3> QED
      BY <2>1, <3>1, PairMarks
  <2>3. ASSUME p[2] < e PROVE FALSE
    <3>1. p[2] \in p[1] + 1 .. e - 1
      BY <2>1, <2>3, PairMarks
    <3> QED
      BY <2>1, <3>1, PairMarks
  <2> QED
    BY <2>1, <2>2, <2>3, PairMarks
<1> QED
  BY <1>1, <1>2

\* When every marker belongs to a pair, the matches are the pairs.
LEMMA MatchesArePairs ==
  ASSUME NEW text, Len(text) \in Nat,
         \A i \in 1 .. Len(text) : text[i] \in Markers => \E p \in Pairs(text) : i \in {p[1], p[2]}
  PROVE  Matches(text) = Pairs(text)
<1> DEFINE n == Len(text) + 1
           Own(i) == {p \in Pairs(text) : i <= p[1]}
<1>1. PICK f : /\ \A i \in 1 .. Len(text) + 1 : f[i] = From(text, f, i)
               /\ Matches(text) = f[1]
  BY MatchesAre
<1>2. ASSUME NEW i \in 1 .. Len(text), text[i] \in Starts
      PROVE  \E p \in Pairs(text) : i = p[1]
  <2>1. PICK p \in Pairs(text) : i \in {p[1], p[2]}
    BY <1>2 DEF Markers
  <2> QED
    BY <1>2, <2>1, PairMarks
<1> DEFINE G == {i \in 1 .. n : f[i] = Own(i)}
<1>3. ASSUME NEW i \in 1 .. n, \A j \in i + 1 .. n : j \in G
      PROVE  i \in G
  <2>1. ASSUME NEW m \in FirstFrom(text, i)
        PROVE  m \in Own(i) /\ f[m[2] + 1] = Own(m[2] + 1) /\ i < m[2] + 1
    <3>1. /\ m \in (1 .. Len(text)) \X (1 .. Len(text)) /\ m = <<m[1], m[2]>>
          /\ i <= m[1] /\ m[1] < m[2] /\ m[2] + 1 \in i + 1 .. n
      BY FurtherOn
    <3>2. text[m[1]] \in Starts /\ m[2] \in LazyEnd(text, m[1])
      BY DEF FirstFrom
    <3>3. PICK p \in Pairs(text) : m[1] = p[1]
      BY <1>2, <3>1, <3>2
    <3>4. m[2] = p[2]
      BY <3>2, <3>3, PairIsShortest, ZenonT(30)
    <3>5. m = p
      BY <3>1, <3>3, <3>4, PairMarks, SMTT(30)
    <3>6. f[m[2] + 1] = Own(m[2] + 1)
      BY <1>3, <3>1
    <3> QED
      BY <3>1, <3>5, <3>6
  <2>2. ASSUME NEW q \in From(text, f, i) PROVE q \in Own(i)
    <3>1. PICK m \in FirstFrom(text, i) : q = m \/ q \in f[m[2] + 1]
      BY DEF From
    <3>2. CASE q = m
      BY <2>1, <3>2
    <3>3. CASE q \in f[m[2] + 1]
      <4>1. q \in Own(m[2] + 1) /\ i < m[2] + 1 /\ m[2] + 1 \in i + 1 .. n
        BY <2>1, <3>3, FurtherOn
      <4>2. q[1] \in Nat
        BY <4>1, PairMarks
      <4> QED
        BY <4>1, <4>2
    <3> QED
      BY <3>1, <3>2, <3>3
  <2>3. ASSUME NEW q \in Own(i) PROVE q \in From(text, f, i)
    <3> DEFINE B == {p[1] : p \in Own(i)}
    <3>1. B \in SUBSET Nat /\ B # {}
      <4>1. \A p \in Own(i) : p[1] \in Nat
        BY PairMarks
      <4>2. q[1] \in B
        BY <2>3
      <4> HIDE DEF Own
      <4> QED
        BY <4>1, <4>2
    <3>2. PICK b \in B : \A c \in B : b <= c
      <4> HIDE DEF B
      <4> QED
        BY <3>1, LeastNumber
    <3>3. PICK p \in Own(i) : b = p[1]
      BY <3>2
    <3>4. \A r \in Own(i) : p[1] <= r[1]
      BY <3>2, <3>3
    <3>5. p \in FirstFrom(text, i)
      <4>1. p \in Pairs(text) /\ i <= p[1]
        BY <3>3
      <4>2. ASSUME NEW j \in i .. p[1] - 1, text[j] \in Starts PROVE FALSE
        <5>1. j \in 1 .. Len(text) /\ j < p[1] /\ i <= j
          BY <4>1, PairMarks
        <5>2. PICK r \in Pairs(text) : j = r[1]
          BY <1>2, <4>2, <5>1
        <5>3. p[1] <= r[1]
          BY <3>4, <5>1, <5>2
        <5> QED
          BY <4>1, <5>1, <5>2, <5>3, PairMarks
      <4>3. p[1] \in i .. Len(text) /\ p[2] \in i .. Len(text) /\ p = <<p[1], p[2]>>
        BY <4>1, PairMarks
      <4>4. text[p[1]] \in Starts /\ p[2] \in LazyEnd(text, p[1])
        BY <4>1, PairMarks, PairIsShortest
      <4> QED
        BY <4>2, <4>3, <4>4 DEF FirstFrom
    <3>6. p[1] <= q[1] /\ p \in Pairs(text) /\ q \in Pairs(text)
      BY <2>3, <3>3, <3>4
    <3>7. p = q \/ p[2] < q[1]
      BY <3>6, PairsApart
    <3>8. q \in {p} \union f[p[2] + 1]
      <4>1. CASE p = q
        BY <4>1
      <4>2. CASE p[2] < q[1]
        <5>1. p[2] + 1 <= q[1]
          BY <3>6, <4>2, PairMarks
        <5>2. q \in Own(p[2] + 1)
          BY <3>6, <5>1
        <5> QED
          BY <2>1, <3>5, <5>2
      <4> QED
        BY <3>7, <4>1, <4>2
    <3> QED
      BY <3>5, <3>8 DEF From
  <2>4. From(text, f, i) = Own(i)
    BY <2>2, <2>3
  <2> QED
    BY <1>1, <2>4
<1>4. n \in Nat /\ 1 \in 1 .. n
  OBVIOUS
<1>5. 1 \in G
  <2> HIDE DEF G, n
  <2>1. \A i \in 1 .. n : i \in G
    BY <1>3, <1>4, Downwards
  <2> QED
    BY <1>4, <2>1
<1>6. Own(1) = Pairs(text)
  BY PairMarks
<1> QED
  BY <1>1, <1>5, <1>6

\* For all files, whatever is between the markers: load_from_str() finds every
\* section of a file in which each marker belongs to a pair, and of two with the
\* same name the last one counts.
THEOREM SectionsAreFound == TemplateSpec => []SectionsFound
<1>1. ASSUME TemplateInv PROVE SectionsFound
  <2>1. DOMAIN file = 1 .. Len(file) /\ Len(file) \in Nat
    BY <1>1 DEF TemplateInv
  <2> DEFINE next(s, e) == s < e /\ \A i \in s + 1 .. e - 1 : file[i] \notin Starts \union Ends
             pairs == {m \in (DOMAIN file) \X (DOMAIN file) :
                         /\ \E n \in SectionName : file[m[1]] = StartOf[n] /\ file[m[2]] = EndOf[n]
                         /\ next(m[1], m[2])}
  <2>2. pairs = Pairs(file)
    BY <2>1 DEF Pairs, Markers
  <2>3. SectionsFound <=>
          ((\A i \in DOMAIN file : file[i] \in Starts \union Ends => \E p \in pairs : i \in {p[1], p[2]})
           => /\ {StartOf[n] : n \in DOMAIN named} = {file[p[1]] : p \in pairs}
              /\ \A n \in DOMAIN named :
                   \E p \in pairs : /\ file[p[1]] = StartOf[n]
                                    /\ \A q \in pairs : q[1] > p[1] => file[q[1]] # StartOf[n]
                                    /\ named[n] = SubSeq(file, p[1] + 1, p[2] - 1))
    BY Zenon DEF SectionsFound
  <2> HIDE DEF pairs
  <2> SUFFICES ASSUME \A i \in 1 .. Len(file) : file[i] \in Markers =>
                        \E p \in Pairs(file) : i \in {p[1], p[2]}
               PROVE  /\ {StartOf[n] : n \in DOMAIN named} = {file[p[1]] : p \in Pairs(file)}
                      /\ \A n \in DOMAIN named :
                           \E p \in Pairs(file) :
                             /\ file[p[1]] = StartOf[n]
                             /\ \A q \in Pairs(file) : q[1] > p[1] => file[q[1]] # StartOf[n]
                             /\ named[n] = SubSeq(file, p[1] + 1, p[2] - 1)
    BY <2>1, <2>2, <2>3 DEF Markers
  <2>4. CASE file = <<>>
    <3>1. named = <<>> /\ DOMAIN <<>> = {} /\ Len(<<>>) = 0
      BY <1>1, <2>4 DEF TemplateInv
    <3>2. Pairs(file) = {}
      BY <2>4, <3>1 DEF Pairs
    <3> QED
      BY <3>1, <3>2
  <2>5. CASE file # <<>>
    <3>1. named = Sections(file) /\ Matches(file) = Pairs(file)
      BY <1>1, <2>1, <2>5, MatchesArePairs DEF TemplateInv
    <3>2. ASSUME NEW n \in SectionName
          PROVE  Of(file, n) = {p \in Pairs(file) : file[p[1]] = StartOf[n]}
      <4>1. ASSUME NEW p \in Pairs(file), file[p[1]] = StartOf[n] PROVE file[p[2]] = EndOf[n]
        <5>1. PICK k \in SectionName : file[p[1]] = StartOf[k] /\ file[p[2]] = EndOf[k]
          BY DEF Pairs
        <5>2. k = n
          BY <4>1, <5>1, MarkersDiffer
        <5> QED
          BY <5>1, <5>2
      <4> QED
        BY <3>1, <4>1 DEF Of
    <3>3. /\ DOMAIN named = {n \in SectionName : Of(file, n) # {}}
          /\ \A n \in DOMAIN named :
               \E m \in Of(file, n) :
                 /\ \A k \in Of(file, n) : k[1] <= m[1]
                 /\ named[n] = SubSeq(file, m[1] + 1, m[2] - 1)
      BY <2>1, <3>1, SectionsAre
    <3>4. {StartOf[n] : n \in DOMAIN named} = {file[p[1]] : p \in Pairs(file)}
      <4>1. ASSUME NEW n \in DOMAIN named
            PROVE  \E p \in Pairs(file) : StartOf[n] = file[p[1]]
        BY <3>2, <3>3
      <4>2. ASSUME NEW p \in Pairs(file)
            PROVE  \E n \in DOMAIN named : file[p[1]] = StartOf[n]
        <5>1. PICK n \in SectionName : file[p[1]] = StartOf[n]
          BY DEF Pairs
        <5> QED
          BY <3>2, <3>3, <5>1
      <4> QED
        BY <4>1, <4>2
    <3>5. ASSUME NEW n \in DOMAIN named
          PROVE  \E p \in Pairs(file) :
                   /\ file[p[1]] = StartOf[n]
                   /\ \A q \in Pairs(file) : q[1] > p[1] => file[q[1]] # StartOf[n]
                   /\ named[n] = SubSeq(file, p[1] + 1, p[2] - 1)
      <4>1. PICK m \in Of(file, n) : /\ \A k \in Of(file, n) : k[1] <= m[1]
                                     /\ named[n] = SubSeq(file, m[1] + 1, m[2] - 1)
        BY <3>3
      <4>2. n \in SectionName /\ m \in Pairs(file) /\ file[m[1]] = StartOf[n]
        BY <3>2, <3>3
      <4>3. ASSUME NEW q \in Pairs(file), q[1] > m[1], file[q[1]] = StartOf[n] PROVE FALSE
        <5>1. q[1] <= m[1]
          BY <3>2, <4>1, <4>2, <4>3
        <5> QED
          BY <2>1, <4>2, <4>3, <5>1, PairMarks
      <4> QED
        BY <4>1, <4>2, <4>3
    <3> QED
      BY <3>4, <3>5
  <2> QED
    BY <2>4, <2>5
<1> QED
  BY <1>1, TemplateInvHolds, PTL

-----------------------------------------------------------------------------
\* That each place is filled, on its own

\* Where the text in pieces P has a place of its own for the value with a name:
\* in three pieces of one character each.
PlacesIn(P, opener, name) ==
  {i \in 1 .. Len(P) - 2 : P[i] = <<opener>> /\ P[i + 1] = <<name>> /\ P[i + 2] = <<"}">>}

\* The text with new in the places A.
Filling(P, A, new) ==
  [i \in 1 .. Len(P) |->
    IF i \in A THEN new
    ELSE IF \E j \in A : i \in j + 1 .. j + 2 THEN <<>>
    ELSE P[i]]

\* A text in pieces keeps their number when new is put in places of it.
LEMMA FillingTyped ==
  ASSUME NEW P \in Seq(Seq(Char)), NEW A, NEW new \in Seq(Char)
  PROVE  /\ Filling(P, A, new) \in Seq(Seq(Char))
         /\ Len(Filling(P, A, new)) = Len(P)
<1>1. Len(P) \in Nat /\ \A i \in 1 .. Len(P) : P[i] \in Seq(Char)
  OBVIOUS
<1>2. <<>> \in Seq(Char)
  OBVIOUS
<1>3. Filling(P, A, new) \in [1 .. Len(P) -> Seq(Char)]
  BY <1>1, <1>2 DEF Filling
<1> DEFINE n == Len(P)
           Q == Filling(P, A, new)
<1>4. n \in Nat /\ Q \in [1 .. n -> Seq(Char)]
  BY <1>1, <1>3
<1> HIDE DEF n, Q
<1>5. Q \in Seq(Seq(Char)) /\ Len(Q) = n
  BY <1>4
<1> QED
  BY <1>5 DEF n, Q

\* One character before the rest r of a text.
LEMMA OneBefore ==
  ASSUME NEW C, NEW e \in C, NEW r \in Seq(C)
  PROVE  /\ Len(<<e>> \o r) = Len(r) + 1
         /\ (<<e>> \o r)[1] = e
         /\ \A k \in 1 .. Len(r) : (<<e>> \o r)[k + 1] = r[k]
<1> DEFINE o == <<e>>
<1>1. o \in Seq(C) /\ Len(o) = 1 /\ o[1] = e /\ 1 \in 1 .. 1 /\ Len(r) \in Nat
  OBVIOUS
<1> HIDE DEF o
<1>2. /\ o \o r \in Seq(C)
      /\ Len(o \o r) = Len(o) + Len(r)
      /\ \A i \in 1 .. Len(o) : (o \o r)[i] = o[i]
      /\ \A i \in 1 .. Len(r) : (o \o r)[Len(o) + i] = r[i]
  <2>1. o \in Seq(C)
    BY <1>1
  <2> QED
    BY <2>1, Joined
<1> DEFINE u == o \o r
<1> HIDE DEF u
<1>3. /\ Len(u) = 1 + Len(r)
      /\ u[1] = e
      /\ \A i \in 1 .. Len(r) : u[1 + i] = r[i]
  BY <1>1, <1>2 DEF u
<1>4. \A k \in 1 .. Len(r) : u[k + 1] = r[k]
  <2>1. \A k \in 1 .. Len(r) : k + 1 = 1 + k
    OBVIOUS
  <2> QED
    BY <1>3, <2>1
<1> QED
  BY <1>1, <1>3, <1>4 DEF u, o

\* Three characters before the rest of a text.
Three(a, b, c) == <<a, b, c>>
Before(a, b, c, r) == <<a>> \o (<<b>> \o (<<c>> \o r))

\* Three characters before a rest are a text of three before it.
LEMMA ThreeBefore ==
  ASSUME NEW C, NEW a \in C, NEW b \in C, NEW c \in C, NEW r \in Seq(C)
  PROVE  Before(a, b, c, r) = Three(a, b, c) \o r
<1> DEFINE p == <<a>>
           q == <<b>>
           s == <<c>>
<1>1. p \in Seq(C) /\ q \in Seq(C) /\ s \in Seq(C) /\ p \o q \in Seq(C)
  OBVIOUS
<1>2. (p \o q) \o s = <<a, b, c>>
  <2>1. Len(p) = 1 /\ p[1] = a /\ Len(s) = 1 /\ s[1] = c
    OBVIOUS
  <2> DEFINE u == p \o q
             v == <<a, b, c>>
             w == u \o s
  <2>2. Len(v) = 3 /\ v[1] = a /\ v[2] = b /\ v[3] = c /\ v \in Seq(C)
    OBVIOUS
  <2>3. u \in Seq(C) /\ Len(u) = 2 /\ u[1] = a /\ u[2] = b
    <3>1. /\ p \o <<b>> \in Seq(C)
          /\ Len(p \o <<b>>) = Len(p) + 1
          /\ \A i \in 1 .. Len(p) : (p \o <<b>>)[i] = p[i]
          /\ (p \o <<b>>)[Len(p) + 1] = b
      BY <1>1, OneMore
    <3> HIDE DEF u, p, q
    <3> QED
      BY <2>1, <3>1 DEF u, q
  <2> HIDE DEF u, v
  <2>4. /\ u \o <<c>> \in Seq(C)
        /\ Len(u \o <<c>>) = Len(u) + 1
        /\ \A i \in 1 .. Len(u) : (u \o <<c>>)[i] = u[i]
        /\ (u \o <<c>>)[Len(u) + 1] = c
    BY <2>3, OneMore, ZenonT(30)
  <2> HIDE DEF p, q, w
  <2>5. w \in Seq(C) /\ Len(w) = 3 /\ w[1] = a /\ w[2] = b /\ w[3] = c
    <3> HIDE DEF s
    <3>1. u \o <<c>> = w
      BY DEF s, w
    <3> QED
      BY <2>3, <2>4, <3>1, SMTT(30)
  <2>6. \A i \in 1 .. 3 : i = 1 \/ i = 2 \/ i = 3
    OBVIOUS
  <2>7. w = v
    BY <2>2, <2>5, <2>6, SeqEqual
  <2> QED
    BY <2>7 DEF u, v, w
<1> HIDE DEF p, q, s
<1>3. s \o r \in Seq(C)
  BY <1>1, Joined
<1>4. (p \o q) \o (s \o r) = p \o (q \o (s \o r))
  BY <1>1, <1>3, Regroup, SMTT(30)
<1> DEFINE pq == p \o q
<1> HIDE DEF pq
<1>5. pq \in Seq(C)
  BY <1>1 DEF pq
<1>6. (pq \o s) \o r = pq \o (s \o r)
  BY <1>1, <1>5, Regroup, SMTT(30)
<1> QED
  BY <1>2, <1>4, <1>6 DEF Before, Three, pq, p, q, s

\* The rests of a text of which every piece has one character.
OneEach(P, S) ==
  /\ P \in Seq(Seq(Char))
  /\ S \in [0 .. Len(P) -> Seq(Char)]
  /\ S[Len(P)] = <<>>
  /\ \A k \in 1 .. Len(P) : S[k - 1] = P[k] \o S[k] /\ Len(P[k]) = 1

\* Each rest has the character of its piece before the next rest.
LEMMA OneEachStep ==
  ASSUME NEW P, NEW S, OneEach(P, S), NEW k \in 1 .. Len(P)
  PROVE  /\ P[k] = <<P[k][1]>>
         /\ Len(S[k]) \in Nat
         /\ Len(S[k - 1]) = Len(S[k]) + 1
         /\ S[k - 1][1] = P[k][1]
         /\ \A j \in 1 .. Len(S[k]) : S[k - 1][j + 1] = S[k][j]
<1> DEFINE p == P[k]
           r == S[k]
           s == S[k - 1]
<1>1. p \in Seq(Char) /\ Len(p) = 1
  <2>1. P \in Seq(Seq(Char))
    BY DEF OneEach
  <2>2. P[k] \in Seq(Char)
    BY <2>1
  <2>3. Len(P[k]) = 1
    BY DEF OneEach
  <2> QED
    BY <2>2, <2>3
<1>2. r \in Seq(Char)
  <2>1. k \in 0 .. Len(P)
    BY DEF OneEach
  <2> QED
    BY <2>1 DEF OneEach
<1>3. s = p \o r
  BY DEF OneEach
<1> HIDE DEF p, r, s
<1> DEFINE e == p[1]
<1>4. e \in Char /\ p = <<e>>
  BY <1>1
<1>5. Len(r) \in Nat
  BY <1>2
<1> HIDE DEF e
<1>6. /\ Len(<<e>> \o r) = Len(r) + 1
      /\ (<<e>> \o r)[1] = e
      /\ \A j \in 1 .. Len(r) : (<<e>> \o r)[j + 1] = r[j]
  BY <1>2, <1>4, OneBefore
<1> DEFINE u == <<e>> \o r
<1> HIDE DEF u
<1>7. Len(u) = Len(r) + 1 /\ u[1] = e /\ \A j \in 1 .. Len(r) : u[j + 1] = r[j]
  BY <1>6 DEF u
<1>8. s = u
  BY <1>3, <1>4 DEF u
<1>9. /\ Len(s) = Len(r) + 1
      /\ s[1] = e
      /\ \A j \in 1 .. Len(r) : s[j + 1] = r[j]
  BY <1>7, <1>8
<1>10. p = <<p[1]>>
  BY <1>4 DEF e
<1> QED
  BY <1>5, <1>9, <1>10 DEF p, r, s, e

\* What is found at the start of such a rest is a place.
LEMMA PlaceInRest ==
  ASSUME NEW P, NEW S, NEW opener, NEW name, OneEach(P, S),
         NEW i \in 1 .. Len(P), IsAt(S[i - 1], Needle(opener, name), 1)
  PROVE  i \in PlacesIn(P, opener, name)
<1> DEFINE n == Len(P)
<1>1. n \in Nat /\ Len(S[n]) = 0
  BY DEF OneEach
<1>2. /\ 3 <= Len(S[i - 1])
      /\ S[i - 1][1] = opener /\ S[i - 1][2] = name /\ S[i - 1][3] = "}"
  <2> DEFINE s == S[i - 1]
             x == <<opener, name, "}">>
  <2>1. s \in Seq(Char)
    <3>1. i - 1 \in 0 .. n
      BY <1>1
    <3> QED
      BY <3>1 DEF OneEach
  <2>2. Len(x) = 3 /\ x[1] = opener /\ x[2] = name /\ x[3] = "}"
    OBVIOUS
  <2> HIDE DEF s
  <2>3. Len(s) \in Nat
    BY <2>1
  <2> HIDE DEF x
  <2>4. IsAt(s, x, 1)
    BY DEF s, x, Needle
  <2>5. 1 + Len(x) - 1 <= Len(s) /\ SubSeq(s, 1, 1 + Len(x) - 1) = x
    BY <2>4 DEF IsAt
  <2>6. 1 + Len(x) - 1 = 3
    <3>1. Len(x) = 3
      BY <2>2
    <3> QED
      BY <3>1
  <2>7. 3 <= Len(s) /\ SubSeq(s, 1, 3) = x
    BY <2>5, <2>6
  <2>8. /\ 1 \in Nat \ {0} /\ 3 \in 0 .. Len(s) /\ 1 <= 3 + 1 /\ 3 - 1 + 1 = 3
        /\ 1 + 1 - 1 = 1 /\ 1 + 2 - 1 = 2 /\ 1 + 3 - 1 = 3
    BY <2>3, <2>7
  <2>9. \A k \in 1 .. 3 - 1 + 1 : SubSeq(s, 1, 3)[k] = s[1 + k - 1]
    BY <2>1, <2>8, Cut
  <2>10. x[1] = s[1] /\ x[2] = s[2] /\ x[3] = s[3]
    BY <2>7, <2>8, <2>9
  <2> QED
    BY <2>2, <2>7, <2>10 DEF s
<1> HIDE DEF n
<1>3. ASSUME NEW k \in 1 .. n
      PROVE  /\ P[k] = <<P[k][1]>>
             /\ Len(S[k]) \in Nat
             /\ Len(S[k - 1]) = Len(S[k]) + 1
             /\ S[k - 1][1] = P[k][1]
             /\ \A j \in 1 .. Len(S[k]) : S[k - 1][j + 1] = S[k][j]
  BY OneEachStep DEF n
<1>4. i \in 1 .. n
  BY DEF n
<1> DEFINE c(k) == P[k][1]
           L(k) == Len(S[k])
<1>5. i \in Nat /\ i >= 1 /\ i <= n
  BY <1>1, <1>4
<1>6. L(i) >= 2
  <2>1. L(i - 1) = L(i) + 1 /\ L(i) \in Nat /\ L(i - 1) >= 3
    BY <1>2, <1>3, <1>4
  <2> HIDE DEF L
  <2> QED
    BY <2>1
<1>7. c(i) = opener /\ S[i][1] = name /\ S[i][2] = "}"
  <2>1. L(i) \in Nat
    BY <1>3, <1>4
  <2> HIDE DEF L
  <2>2. 1 \in 1 .. L(i) /\ 2 \in 1 .. L(i) /\ 1 + 1 = 2 /\ 2 + 1 = 3
    BY <1>6, <2>1
  <2>3. \A j \in 1 .. L(i) : S[i - 1][j + 1] = S[i][j]
    BY <1>3, <1>4 DEF L
  <2>4. S[i - 1][1] = c(i)
    BY <1>3, <1>4
  <2>5. S[i - 1][1 + 1] = S[i][1] /\ S[i - 1][2 + 1] = S[i][2]
    BY <2>2, <2>3
  <2> QED
    BY <1>2, <2>2, <2>4, <2>5
<1>8. i + 1 <= n
  <2>1. L(n) = 0
    BY <1>1
  <2> HIDE DEF L
  <2>2. i # n
    BY <1>6, <2>1
  <2> QED
    BY <1>1, <1>5, <2>2
<1>9. i + 1 \in 1 .. n /\ (i + 1) - 1 = i
  BY <1>1, <1>5, <1>8
<1>10. L(i + 1) >= 1 /\ L(i + 1) \in Nat
  <2>1. L(i) = L(i + 1) + 1 /\ L(i + 1) \in Nat
    BY <1>3, <1>9
  <2> HIDE DEF L
  <2> QED
    BY <1>6, <2>1
<1>11. c(i + 1) = name /\ S[i + 1][1] = "}"
  <2> HIDE DEF L
  <2>1. 1 \in 1 .. L(i + 1) /\ 1 + 1 = 2
    BY <1>10
  <2>2. \A j \in 1 .. L(i + 1) : S[i][j + 1] = S[i + 1][j]
    BY <1>3, <1>9 DEF L
  <2>3. S[i][1] = c(i + 1)
    BY <1>3, <1>9
  <2>4. S[i][1 + 1] = S[i + 1][1]
    BY <2>1, <2>2
  <2> QED
    BY <1>7, <2>1, <2>3, <2>4
<1>12. i + 2 <= n
  <2>1. L(n) = 0
    BY <1>1
  <2> HIDE DEF L
  <2>2. i + 1 # n
    BY <1>10, <2>1
  <2> QED
    BY <1>1, <1>5, <1>8, <2>2
<1>13. i + 2 \in 1 .. n /\ (i + 2) - 1 = i + 1 /\ i \in 1 .. n - 2
  BY <1>1, <1>5, <1>12
<1>14. c(i + 2) = "}"
  <2>1. S[i + 1][1] = c(i + 2)
    BY <1>3, <1>13
  <2> QED
    BY <1>11, <2>1
<1>15. P[i] = <<opener>> /\ P[i + 1] = <<name>> /\ P[i + 2] = <<"}">>
  <2>1. P[i] = <<c(i)>> /\ P[i + 1] = <<c(i + 1)>> /\ P[i + 2] = <<c(i + 2)>>
    BY <1>3, <1>4, <1>9, <1>13
  <2> HIDE DEF c
  <2> QED
    BY <1>7, <1>11, <1>14, <2>1
<1> QED
  BY <1>13, <1>15 DEF PlacesIn, n

Openers == {"{", "{>"}

\* An opening brace is a character, and no other one of a place.
LEMMA OpenersTyped ==
  /\ \A o \in Openers : o \in Char /\ o # "}" /\ o \notin TagName
  /\ \A n \in TagName : n \in Char /\ n # "}"
  /\ "}" \in Char
BY CharAssumption, TagNameAssumption DEF Openers

\* What is searched has three characters, the first of which opens it.
LEMMA NeedleTyped ==
  ASSUME NEW o \in Openers, NEW n \in TagName
  PROVE  /\ Needle(o, n) \in Seq(Char) /\ Len(Needle(o, n)) = 3
         /\ Needle(o, n)[1] = o /\ Needle(o, n)[2] = n
<1> DEFINE c == "}"
<1>1. o \in Char /\ n \in Char /\ c \in Char
  BY OpenersTyped
<1> HIDE DEF c
<1>2. <<o, n, c>> \in Seq(Char)
  BY <1>1
<1>3. Len(<<o, n, c>>) = 3 /\ <<o, n, c>>[1] = o /\ <<o, n, c>>[2] = n
  OBVIOUS
<1> QED
  BY <1>2, <1>3 DEF Needle, c

\* A place lies in the text, with its three characters.
LEMMA PlaceIs ==
  ASSUME NEW P, Len(P) \in Nat, NEW o, NEW c, NEW i \in PlacesIn(P, o, c)
  PROVE  /\ i \in Nat /\ 1 <= i /\ i + 2 <= Len(P)
         /\ i \in 1 .. Len(P) /\ i + 1 \in 1 .. Len(P) /\ i + 2 \in 1 .. Len(P)
         /\ P[i] = <<o>> /\ P[i + 1] = <<c>> /\ P[i + 2] = <<"}">>
<1> DEFINE n == Len(P)
<1>1. n \in Nat
  OBVIOUS
<1>2. i \in 1 .. n - 2
  BY DEF PlacesIn
<1>3. P[i] = <<o>> /\ P[i + 1] = <<c>> /\ P[i + 2] = <<"}">>
  BY DEF PlacesIn
<1> HIDE DEF n
<1>4. i \in Nat /\ 1 <= i /\ i + 2 <= n
  BY <1>1, <1>2
<1>5. i \in 1 .. n /\ i + 1 \in 1 .. n /\ i + 2 \in 1 .. n
  BY <1>1, <1>4
<1> QED
  BY <1>3, <1>4, <1>5 DEF n

\* The places are apart: none begins within another one.
LEMMA PlacesApart ==
  ASSUME NEW P, NEW o \in Openers, NEW c \in TagName, NEW i \in PlacesIn(P, o, c),
         NEW k \in i + 1 .. i + 2, Len(P) \in Nat
  PROVE  k \notin PlacesIn(P, o, c)
<1> SUFFICES ASSUME k \in PlacesIn(P, o, c) PROVE FALSE
  OBVIOUS
<1>1. P[i + 1] = <<c>> /\ P[i + 2] = <<"}">> /\ P[k] = <<o>>
  BY DEF PlacesIn
<1>2. k = i + 1 \/ k = i + 2
  <2>1. i \in Nat
    BY PlaceIs
  <2> QED
    BY <2>1
<1>3. <<o>> = <<c>> \/ <<o>> = <<"}">>
  BY <1>1, <1>2
<1>4. <<o>>[1] = o /\ <<c>>[1] = c /\ <<"}">>[1] = "}"
  OBVIOUS
<1>5. o = c \/ o = "}"
  BY <1>3, <1>4
<1> QED
  BY <1>5, OpenersTyped

RestsOf(P, S) ==
  /\ P \in Seq(Seq(Char))
  /\ S \in [0 .. Len(P) -> Seq(Char)]
  /\ \A k \in 1 .. Len(P) : S[k - 1] = P[k] \o S[k]

\* The rest that starts at a place starts with what is searched.
LEMMA PlaceStarts ==
  ASSUME NEW P, NEW S, RestsOf(P, S), NEW o \in Openers, NEW c \in TagName,
         NEW i \in PlacesIn(P, o, c)
  PROVE  S[i - 1] = Needle(o, c) \o S[i + 2]
<1> DEFINE n == Len(P)
<1>1. n \in Nat
  BY DEF RestsOf
<1>2. /\ P[i] = <<o>> /\ P[i + 1] = <<c>> /\ P[i + 2] = <<"}">>
      /\ i \in 1 .. n /\ i + 1 \in 1 .. n /\ i + 2 \in 1 .. n /\ i \in Nat
  <2>0. P[i] = <<o>> /\ P[i + 1] = <<c>> /\ P[i + 2] = <<"}">>
    BY DEF PlacesIn
  <2>1. i \in 1 .. n - 2
    BY DEF PlacesIn
  <2> HIDE DEF n
  <2>2. i \in Nat /\ 1 <= i /\ i + 2 <= n
    BY <1>1, <2>1
  <2>3. i \in 1 .. n /\ i + 1 \in 1 .. n /\ i + 2 \in 1 .. n
    BY <1>1, <2>2
  <2> QED
    BY <2>0, <2>2, <2>3
<1>3. \A k \in 1 .. n : S[k - 1] = P[k] \o S[k]
  BY DEF RestsOf
<1> HIDE DEF n
<1>4. /\ i \in 1 .. n /\ i + 1 \in 1 .. n /\ i + 2 \in 1 .. n /\ i + 2 \in 0 .. n
      /\ (i + 1) - 1 = i /\ (i + 2) - 1 = i + 1
  <2>1. i \in Nat /\ 1 <= i /\ i + 2 <= n
    BY <1>1, PlaceIs DEF n
  <2> QED
    BY <1>1, <2>1
<1> DEFINE r == S[i + 2]
<1>5. S[i - 1] = <<o>> \o S[i] /\ S[i] = <<c>> \o S[i + 1] /\ S[i + 1] = <<"}">> \o r
  <2>1. S[i - 1] = P[i] \o S[i]
    BY <1>3, <1>4
  <2>2. S[i] = P[i + 1] \o S[i + 1]
    BY <1>3, <1>4
  <2>3. S[i + 1] = P[i + 2] \o r
    BY <1>3, <1>4
  <2> QED
    BY <1>2, <2>1, <2>2, <2>3
<1>6. r \in Seq(Char)
  BY <1>4 DEF n, RestsOf
<1> HIDE DEF r
<1>7. <<o>> \o (<<c>> \o (<<"}">> \o r)) = <<o, c, "}">> \o r
  <2> DEFINE e == "}"
  <2>1. o \in Char /\ c \in Char /\ e \in Char
    BY OpenersTyped
  <2> HIDE DEF e
  <2>2. <<o>> \o (<<c>> \o (<<e>> \o r)) = <<o, c, e>> \o r
    <3>1. Before(o, c, e, r) = Three(o, c, e) \o r
      BY <1>6, <2>1, ThreeBefore, ZenonT(30)
    <3> QED
      BY <3>1 DEF Before, Three
  <2> QED
    BY <2>2 DEF e
<1>8. S[i - 1] = <<o>> \o (<<c>> \o (<<"}">> \o r))
  BY <1>5
<1> QED
  BY <1>7, <1>8 DEF Needle, r

\* No place begins with a piece of one character when the next piece is another
\* character than the name that is searched.
LEMMA NextDiffers ==
  ASSUME NEW P, NEW S, RestsOf(P, S), NEW o \in Openers, NEW c \in TagName,
         NEW i \in 1 .. Len(P), Len(P[i]) = 1, i < Len(P), NEW d \in Char,
         P[i + 1] = <<d>>, IsAt(S[i - 1], Needle(o, c), 1)
  PROVE  d = c
<1> DEFINE n == Len(P)
<1>1. n \in Nat /\ \A k \in 1 .. n : P[k] \in Seq(Char)
  BY DEF RestsOf
<1>2. /\ i \in 0 .. n /\ i - 1 \in 0 .. n /\ i + 1 \in 0 .. n /\ i + 1 \in 1 .. n
      /\ (i + 1) - 1 = i
  BY <1>1
<1> DEFINE p == P[i]
           r == S[i + 1]
           s == S[i]
           u == S[i - 1]
<1>3. p \in Seq(Char) /\ r \in Seq(Char) /\ s \in Seq(Char) /\ u \in Seq(Char)
  BY <1>1, <1>2 DEF RestsOf
<1>4. u = p \o s /\ s = P[i + 1] \o r
  BY <1>2 DEF RestsOf
<1>5. s = <<d>> \o r
  BY <1>4
<1>6. Len(p) = 1
  OBVIOUS
<1>7. IsAt(u, Needle(o, c), 1)
  OBVIOUS
<1> HIDE DEF p, r, s, u, n
<1>8. Len(s) = Len(r) + 1 /\ s[1] = d /\ Len(r) \in Nat
  BY <1>3, <1>5, OneBefore
<1>9. u[2] = s[1]
  <2>1. \A k \in 1 .. Len(s) : (p \o s)[Len(p) + k] = s[k]
    BY <1>3, Joined
  <2>2. 1 \in 1 .. Len(s) /\ 1 + 1 = 2
    BY <1>8
  <2> QED
    BY <1>4, <1>6, <2>1, <2>2
<1>10. u[2] = c
  <2> DEFINE x == Needle(o, c)
  <2>1. x \in Seq(Char) /\ Len(x) = 3 /\ x[2] = c
    BY NeedleTyped
  <2>2. IsAt(u, x, 1) /\ 1 + 1 = 2 /\ 1 \in Nat \ {0}
    BY <1>7
  <2> HIDE DEF x
  <2>3. Len(x) > 1
    BY <2>1
  <2>4. u[1 + 1] = x[2]
    BY <1>3, <2>1, <2>2, <2>3, SecondOfMatch
  <2> QED
    BY <2>1, <2>2, <2>4
<1> QED
  BY <1>8, <1>9, <1>10

\* In one go new is put in all places of a text.  This takes that no other piece
\* goes on with the name behind what opens a place, or that all pieces have one
\* character; and that new opens none behind its first a characters.
LEMMA FillRound ==
  ASSUME NEW P \in Seq(Seq(Char)), NEW o \in Openers, NEW c \in TagName,
         NEW new \in Seq(Char), NEW a \in 0 .. Len(new),
         \A k \in a + 1 .. Len(new) : new[k] # o,
         \/ \A k \in 1 .. Len(P) : Len(P[k]) = 1
         \/ \A i \in 1 .. Len(P) \ PlacesIn(P, o, c) :
              \/ \A k \in 1 .. Len(P[i]) : P[i][k] = o => k < Len(P[i]) /\ P[i][k + 1] # c
              \/ /\ Len(P[i]) = 1 /\ i < Len(P)
                 /\ \E d \in Char : P[i + 1] = <<d>> /\ d # c
  PROVE  Replace(FlattenSeq(P), Needle(o, c), new, a) =
           [out |-> FlattenSeq(Filling(P, PlacesIn(P, o, c), new)), ends |-> TRUE]
<1> DEFINE A == PlacesIn(P, o, c)
           Q == Filling(P, A, new)
           x == Needle(o, c)
<1>1. PICK F, S : /\ F \in [0 .. Len(P) -> Seq(Char)]
                  /\ S \in [0 .. Len(P) -> Seq(Char)]
                  /\ Parts(P, F, S)
  BY PartsExist
<1>2. Q \in Seq(Seq(Char)) /\ Len(Q) = Len(P)
  BY FillingTyped
<1>3. x \in Seq(Char) /\ Len(x) = 3 /\ x[1] = o /\ x[2] = c
  BY NeedleTyped
<1>4. Len(P) \in Nat
  OBVIOUS
<1>5. A \subseteq 1 .. Len(P) /\ \A i \in A : i \in Nat /\ i + 2 <= Len(P) /\ i + 2 \in 1 .. Len(P) /\ i + 1 \in 1 .. Len(P)
  BY <1>4, PlaceIs
<1>6. \A i \in A : S[i - 1] = x \o S[i + 2]
  <2>1. RestsOf(P, S)
    BY <1>1 DEF RestsOf, Parts
  <2> QED
    BY <2>1, PlaceStarts
<1>7. \A i \in A : \A k \in i + 1 .. i + 2 : k \notin A
  BY <1>4, PlacesApart
<1>8. ASSUME NEW i \in 1 .. Len(P) \ A
      PROVE  \/ \A k \in 1 .. Len(P[i]) : P[i][k] = x[1] => Differs(P[i], x, k)
             \/ Len(P[i]) = 1 /\ ~IsAt(S[i - 1], x, 1)
  <2>1. RestsOf(P, S)
    BY <1>1 DEF RestsOf, Parts
  <2>2. CASE \A k \in 1 .. Len(P) : Len(P[k]) = 1
    <3>1. S[Len(P)] = <<>> /\ \A k \in 1 .. Len(P) : S[k - 1] = P[k] \o S[k]
      BY <1>1 DEF Parts
    <3>2. OneEach(P, S)
      BY <1>1, <2>2, <3>1 DEF OneEach
    <3> QED
      BY <2>2, <3>2, PlaceInRest
  <2>3. CASE \A k \in 1 .. Len(P[i]) : P[i][k] = o => k < Len(P[i]) /\ P[i][k + 1] # c
    <3> HIDE DEF x, A
    <3>1. Len(x) > 1
      BY <1>3
    <3> QED
      BY <1>3, <2>3, <3>1 DEF Differs
  <2>4. CASE Len(P[i]) = 1 /\ i < Len(P) /\ \E d \in Char : P[i + 1] = <<d>> /\ d # c
    <3>1. PICK d \in Char : P[i + 1] = <<d>> /\ d # c
      BY <2>4
    <3>2. ~IsAt(S[i - 1], Needle(o, c), 1)
      BY <2>1, <2>4, <3>1, NextDiffers
    <3> QED
      BY <2>4, <3>2
  <2> QED
    BY <2>2, <2>3, <2>4
<1> HIDE DEF A, x
<1>9. /\ \A i \in A : Q[i] = new /\ i + 2 \in 1 .. Len(P)
      /\ \A i \in A : \A k \in i + 1 .. i + 2 : Q[k] = <<>>
      /\ \A i \in 1 .. Len(P) \ A : Q[i] = P[i] \/ \E j \in A : i \in j + 1 .. j + 2
  <2>1. \A i \in A : i \in 1 .. Len(P) /\ i + 2 \in 1 .. Len(P) /\ i + 1 \in 1 .. Len(P)
    BY <1>4, <1>5
  <2>2. \A i \in A : \A k \in i + 1 .. i + 2 : k \in 1 .. Len(P)
    BY <1>4, <2>1
  <2>3. \A i \in 1 .. Len(P) :
          Q[i] = IF i \in A THEN new
                 ELSE IF \E j \in A : i \in j + 1 .. j + 2 THEN <<>>
                 ELSE P[i]
    BY DEF Filling
  <2> HIDE DEF Q
  <2> QED
    BY <1>7, <2>1, <2>2, <2>3
<1> HIDE DEF Q
<1>10. Fits(P, S, Q, x, new, a, A)
  <2>1. \A i \in A : i + Len(x) - 1 = i + 2
    BY <1>3, <1>4, <1>5
  <2>2. ASSUME NEW i \in A
        PROVE  /\ i + Len(x) - 1 <= Len(P)
               /\ S[i - 1] = x \o S[i + Len(x) - 1]
               /\ Q[i] = new
               /\ \A k \in i + 1 .. i + Len(x) - 1 : k \notin A /\ Q[k] = <<>>
    <3>1. i + 2 <= Len(P)
      BY <1>5
    <3>2. S[i - 1] = x \o S[i + 2]
      BY <1>6
    <3>3. Q[i] = new /\ \A k \in i + 1 .. i + 2 : k \notin A /\ Q[k] = <<>>
      BY <1>7, <1>9
    <3>4. i + Len(x) - 1 = i + 2
      BY <2>1
    <3> DEFINE j == i + Len(x) - 1
    <3> HIDE DEF j
    <3>5. j = i + 2
      BY <3>4 DEF j
    <3>6. /\ j <= Len(P)
          /\ S[i - 1] = x \o S[j]
          /\ Q[i] = new
          /\ \A k \in i + 1 .. j : k \notin A /\ Q[k] = <<>>
      BY <3>1, <3>2, <3>3, <3>5
    <3> QED
      BY <3>6 DEF j
  <2>3. ASSUME NEW i \in 1 .. Len(P) \ A
        PROVE  \/ \E j \in A : i \in j + 1 .. j + Len(x) - 1
               \/ /\ Q[i] = P[i]
                  /\ \/ \A k \in 1 .. Len(P[i]) : P[i][k] = x[1] => Differs(P[i], x, k)
                     \/ Len(P[i]) = 1 /\ ~IsAt(S[i - 1], x, 1)
    <3>1. \/ \A k \in 1 .. Len(P[i]) : P[i][k] = x[1] => Differs(P[i], x, k)
          \/ Len(P[i]) = 1 /\ ~IsAt(S[i - 1], x, 1)
      BY <1>8
    <3>2. Q[i] = P[i] \/ \E j \in A : i \in j + 1 .. j + 2
      BY <1>9
    <3> QED
      BY <2>1, <3>1, <3>2
  <2>4. \A k \in a + 1 .. Len(new) : new[k] # x[1]
    BY <1>3
  <2> QED
    BY <1>5, <2>2, <2>3, <2>4 DEF Fits
<1>11. Typed(Char, P, S, Q, x, new, a)
  <2>1. Len(x) > 0
    BY <1>3
  <2> QED
    BY <1>1, <1>2, <1>3, <2>1 DEF Typed
<1>12. Replace(FlattenSeq(P), x, new, a) = [out |-> FlattenSeq(Q), ends |-> TRUE]
  BY <1>1, <1>10, <1>11, ReplaceIs
<1> QED
  BY <1>12 DEF A, Q, x

\* A text in pieces that are not empty has at least as many characters as pieces.
LEMMA FlattenTyped ==
  ASSUME NEW C, NEW P \in Seq(Seq(C)), \A i \in 1 .. Len(P) : Len(P[i]) >= 1
  PROVE  FlattenSeq(P) \in Seq(C) /\ Len(FlattenSeq(P)) >= Len(P)
<1> DEFINE n == Len(P)
<1>1. PICK F, S : /\ F \in [0 .. n -> Seq(C)]
                  /\ S \in [0 .. n -> Seq(C)]
                  /\ Parts(P, F, S)
  BY PartsExist
<1>2. n \in Nat /\ \A i \in 1 .. n : P[i] \in Seq(C) /\ Len(P[i]) >= 1
  OBVIOUS
<1>3. /\ F[0] = <<>> /\ S[n] = <<>>
      /\ F[n] \o S[n] = FlattenSeq(P)
      /\ \A i \in 1 .. n : F[i] = F[i - 1] \o P[i]
  <2>1. n \in 0 .. n
    BY <1>2
  <2>2. F[0] = <<>> /\ S[n] = <<>>
    BY <1>1 DEF Parts
  <2>3. F[n] \o S[n] = FlattenSeq(P)
    BY <1>1, <2>1 DEF Parts
  <2>4. \A i \in 1 .. n : F[i] = F[i - 1] \o P[i]
    BY <1>1 DEF Parts
  <2> QED
    BY <2>2, <2>3, <2>4
<1>4. \A k \in 0 .. n : F[k] \in Seq(C)
  BY <1>1
<1> HIDE DEF n
<1>5. F[n] = FlattenSeq(P) /\ F[n] \in Seq(C)
  <2> DEFINE f == F[n]
  <2>1. f \in Seq(C)
    BY <1>2, <1>4
  <2> HIDE DEF f
  <2>2. f \o <<>> = f
    BY <2>1, ConcatEmptySeq
  <2> QED
    BY <1>3, <2>1, <2>2 DEF f
<1> DEFINE K == {k \in 0 .. n : Len(F[k]) >= k}
<1>6. 0 \in K
  BY <1>2, <1>3
<1>7. ASSUME NEW k \in 0 .. n - 1, k \in K PROVE k + 1 \in K
  <2> DEFINE f == F[k]
             p == P[k + 1]
             h == F[k + 1]
  <2>1. k \in Nat /\ k + 1 \in 1 .. n /\ k + 1 \in 0 .. n /\ (k + 1) - 1 = k /\ k \in 0 .. n
    BY <1>2
  <2>2. f \in Seq(C) /\ p \in Seq(C) /\ Len(p) >= 1 /\ h = f \o p /\ Len(f) >= k
    BY <1>2, <1>3, <1>4, <1>7, <2>1
  <2> HIDE DEF f, p, h
  <2>3. Len(f \o p) = Len(f) + Len(p)
    BY <2>2, Joined
  <2>4. Len(f) \in Nat /\ Len(p) \in Nat
    BY <2>2
  <2>5. Len(h) >= k + 1
    BY <2>1, <2>2, <2>3, <2>4
  <2> QED
    BY <2>1, <2>5 DEF h
<1>8. Len(F[n]) >= n
  <2> HIDE DEF K
  <2>1. \A k \in 0 .. n : k \in K
    BY <1>2, <1>6, <1>7, Upwards
  <2>2. n \in K
    BY <1>2, <2>1
  <2> QED
    BY <2>2 DEF K
<1> QED
  BY <1>5, <1>8 DEF n

\* An escaped value is at least as long as the value.
LEMMA EscapedHas ==
  ASSUME NEW v \in Seq(Char)
  PROVE  /\ htmlspecialchars(v) \in Seq(Char)
         /\ Len(v) \in 0 .. Len(htmlspecialchars(v))
<1> DEFINE P == Escaped(v, Special)
           h == htmlspecialchars(v)
           n == Len(v)
<1>1. h = FlattenSeq(P)
  BY Escapes
<1>2. n \in Nat /\ DOMAIN v = 1 .. n /\ \A i \in 1 .. n : v[i] \in Char
  OBVIOUS
<1>3. P \in Seq(Seq(Char)) /\ Len(P) = n /\ DOMAIN P = 1 .. n
  BY EscapedPieces
<1>4. \A i \in 1 .. n : P[i] = IF v[i] \in Special THEN Entity(v[i]) ELSE <<v[i]>>
  BY <1>2 DEF Escaped
<1> HIDE DEF P, n, h
<1>5. \A c \in Special : Len(Entity(c)) >= 1
  <2> SUFFICES ASSUME NEW c \in Special PROVE Len(Entity(c)) >= 1
    OBVIOUS
  <2> DEFINE e == Entity(c)
  <2>1. IsEntity(e)
    BY Entities
  <2> HIDE DEF e
  <2>2. e \in Seq(Char) /\ Len(e) >= 4
    BY <2>1 DEF IsEntity
  <2>3. Len(e) >= 1
    BY <2>2
  <2> QED
    BY <2>3 DEF e
<1>6. \A i \in 1 .. Len(P) : Len(P[i]) >= 1
  <2> SUFFICES ASSUME NEW i \in 1 .. n PROVE Len(P[i]) >= 1
    BY <1>3
  <2>1. CASE v[i] \in Special
    BY <1>4, <1>5, <2>1
  <2>2. CASE v[i] \notin Special
    <3>1. P[i] = <<v[i]>> /\ Len(<<v[i]>>) = 1
      BY <1>4, <2>2
    <3> QED
      BY <3>1
  <2> QED
    BY <2>1, <2>2
<1>7. h \in Seq(Char) /\ n <= Len(h)
  <2>1. FlattenSeq(P) \in Seq(Char) /\ Len(FlattenSeq(P)) >= Len(P)
    BY <1>3, <1>6, FlattenTyped
  <2>2. h \in Seq(Char) /\ Len(h) >= n
    BY <1>1, <1>3, <2>1
  <2>3. Len(h) \in Nat
    BY <2>2
  <2> QED
    BY <1>2, <2>2, <2>3
<1>8. n \in 0 .. Len(h)
  BY <1>2, <1>7
<1> QED
  BY <1>7, <1>8 DEF h, n

\* Where text t has places for the value with a name.
At(t, o, c) == {i \in 1 .. Len(t) - 2 : t[i] = o /\ t[i + 1] = c /\ t[i + 2] = "}"}

\* A place lies in the text, opened and closed.
LEMMA AtIs ==
  ASSUME NEW t, NEW o, NEW c, NEW i \in At(t, o, c), Len(t) \in Nat
  PROVE  /\ i \in Nat /\ i \in 1 .. Len(t) /\ i + 1 \in 1 .. Len(t) /\ i + 2 \in 1 .. Len(t)
         /\ t[i] = o /\ t[i + 1] = c /\ t[i + 2] = "}"
<1> DEFINE n == Len(t)
<1>1. n \in Nat
  OBVIOUS
<1>2. i \in 1 .. n - 2
  BY DEF At
<1>3. t[i] = o /\ t[i + 1] = c /\ t[i + 2] = "}"
  BY DEF At
<1> HIDE DEF n
<1>4. i \in Nat /\ i \in 1 .. n /\ i + 1 \in 1 .. n /\ i + 2 \in 1 .. n
  BY <1>1, <1>2
<1> QED
  BY <1>3, <1>4 DEF n

\* Texts of one character are the same when the characters are.
LEMMA OneSame ==
  ASSUME NEW a, NEW b, <<a>> = <<b>>
  PROVE  a = b
<1>1. <<a>>[1] = a /\ <<b>>[1] = b
  OBVIOUS
<1> QED
  BY <1>1

\* The text t with one piece for each character.
Letter(t) == Escaped(t, {})

\* A text in pieces of one character each has its places where the text has them.
LEMMA LetterPieces ==
  ASSUME NEW t \in Seq(Char)
  PROVE  /\ Letter(t) \in Seq(Seq(Char))
         /\ Len(Letter(t)) = Len(t)
         /\ \A i \in 1 .. Len(t) : Letter(t)[i] = <<t[i]>> /\ Len(Letter(t)[i]) = 1
         /\ \A o \in Openers, c \in TagName : PlacesIn(Letter(t), o, c) = At(t, o, c)
         /\ FlattenSeq(Letter(t)) = t
<1> DEFINE P == Letter(t)
           n == Len(t)
<1>1. P \in Seq(Seq(Char)) /\ Len(P) = n /\ FlattenSeq(P) = t
  BY EscapedPieces, OneByOne DEF Letter
<1>2. n \in Nat /\ DOMAIN t = 1 .. n
  OBVIOUS
<1>3. \A i \in 1 .. n : P[i] = <<t[i]>>
  BY <1>2 DEF Letter, Escaped
<1> HIDE DEF P, n
<1>4. \A i \in 1 .. n : Len(P[i]) = 1
  <2>1. \A e : Len(<<e>>) = 1
    OBVIOUS
  <2> QED
    BY <1>3, <2>1
<1>5. ASSUME NEW o \in Openers, NEW c \in TagName PROVE PlacesIn(P, o, c) = At(t, o, c)
  <2>1. \A i \in 1 .. n - 2 : i \in 1 .. n /\ i + 1 \in 1 .. n /\ i + 2 \in 1 .. n
    BY <1>2
  <2>2. \A i \in 1 .. n - 2 : P[i] = <<t[i]>> /\ P[i + 1] = <<t[i + 1]>> /\ P[i + 2] = <<t[i + 2]>>
    BY <1>3, <2>1
  <2>3. ASSUME NEW i \in 1 .. n - 2
        PROVE  (P[i] = <<o>> /\ P[i + 1] = <<c>> /\ P[i + 2] = <<"}">>)
                 <=> (t[i] = o /\ t[i + 1] = c /\ t[i + 2] = "}")
    <3>1. ASSUME P[i] = <<o>>, P[i + 1] = <<c>>, P[i + 2] = <<"}">>
          PROVE  t[i] = o /\ t[i + 1] = c /\ t[i + 2] = "}"
      <4>1. <<t[i]>> = <<o>> /\ <<t[i + 1]>> = <<c>> /\ <<t[i + 2]>> = <<"}">>
        BY <2>2, <3>1
      <4> QED
        BY <4>1, OneSame
    <3>2. ASSUME t[i] = o, t[i + 1] = c, t[i + 2] = "}"
          PROVE  P[i] = <<o>> /\ P[i + 1] = <<c>> /\ P[i + 2] = <<"}">>
      BY <2>2, <3>2
    <3> QED
      BY <3>1, <3>2
  <2>4. PlacesIn(P, o, c) = {i \in 1 .. n - 2 : P[i] = <<o>> /\ P[i + 1] = <<c>> /\ P[i + 2] = <<"}">>}
    BY <1>1 DEF PlacesIn
  <2>5. At(t, o, c) = {i \in 1 .. n - 2 : t[i] = o /\ t[i + 1] = c /\ t[i + 2] = "}"}
    BY DEF At, n
  <2> QED
    BY <2>3, <2>4, <2>5
<1> QED
  BY <1>1, <1>3, <1>4, <1>5 DEF P, n

\* A text of one character has that character only.
LEMMA OneLong ==
  ASSUME NEW c
  PROVE  Len(<<c>>) = 1 /\ <<c>>[1] = c /\ 1 \in 1 .. 1 /\ \A j \in 1 .. 1 : <<c>>[j] = c
OBVIOUS

\* The empty text has no characters.
LEMMA NoneLong == Len(<<>>) = 0 /\ \A j \in 1 .. 0 : FALSE
OBVIOUS

\* The three numbers from i on.
LEMMA ThreeFrom ==
  ASSUME NEW i \in Nat
  PROVE  /\ i \in i .. i + 2 /\ i + 1 \in i .. i + 2 /\ i + 2 \in i .. i + 2
         /\ \A m \in i + 1 .. i + 2 : m \in i .. i + 2
         /\ \A m \in i .. i + 2 : m = i \/ m \in i + 1 .. i + 2
OBVIOUS

\* The places of two values have nothing in common.
LEMMA PlacesDisjoint ==
  ASSUME NEW t, Len(t) \in Nat, NEW o \in Openers, NEW u \in Openers,
         NEW c \in TagName, NEW d \in TagName, o # u \/ c # d,
         NEW i \in At(t, o, c), NEW m \in At(t, u, d)
  PROVE  \A k \in i .. i + 2 : k \notin m .. m + 2
<1>1. i \in Nat /\ t[i] = o /\ t[i + 1] = c /\ t[i + 2] = "}"
  <2>1. i \in 1 .. Len(t) - 2
    BY DEF At
  <2>2. i \in Nat
    BY <2>1
  <2>3. t[i] = o /\ t[i + 1] = c /\ t[i + 2] = "}"
    BY DEF At
  <2> QED
    BY <2>2, <2>3
<1>2. m \in Nat /\ t[m] = u /\ t[m + 1] = d /\ t[m + 2] = "}"
  <2>1. m \in 1 .. Len(t) - 2
    BY DEF At
  <2>2. m \in Nat
    BY <2>1
  <2>3. t[m] = u /\ t[m + 1] = d /\ t[m + 2] = "}"
    BY DEF At
  <2> QED
    BY <2>2, <2>3
<1> SUFFICES ASSUME NEW k \in i .. i + 2, k \in m .. m + 2 PROVE FALSE
  OBVIOUS
<1>3. k = i \/ k = i + 1 \/ k = i + 2
  <2>1. i \in Nat
    BY <1>1
  <2> QED
    BY <2>1
<1>4. k = m \/ k = m + 1 \/ k = m + 2
  <2>1. m \in Nat
    BY <1>2
  <2> QED
    BY <2>1
<1>5. i # m
  BY <1>1, <1>2
<1>6. (k = i + 1 => k # m + 1) /\ (k = i + 2 => k # m + 2)
  <2>1. i \in Nat /\ m \in Nat
    BY <1>1, <1>2
  <2> QED
    BY <1>5, <2>1
<1>7. o # d /\ o # "}" /\ u # c /\ u # "}" /\ c # "}" /\ d # "}"
  BY OpenersTyped
<1>8. CASE k = i
  BY <1>1, <1>2, <1>4, <1>5, <1>7, <1>8
<1>9. CASE k = i + 1
  BY <1>1, <1>2, <1>4, <1>6, <1>7, <1>9
<1>10. CASE k = i + 2
  BY <1>1, <1>2, <1>4, <1>6, <1>7, <1>10
<1> QED
  BY <1>3, <1>8, <1>9, <1>10

-----------------------------------------------------------------------------
\* The rounds of the loops, one after the other.

\* What one round searches and puts in.
IsRound(rho) ==
  /\ rho.opener \in Openers
  /\ rho.name \in TagName
  /\ rho.text \in Seq(Char)
  /\ rho.skip \in 0 .. Len(rho.text)

\* The places that a round fills.
Place(t, rho) == At(t, rho.opener, rho.name)

\* Each round searches something else.
AreRounds(r) ==
  /\ Len(r) \in Nat /\ DOMAIN r = 1 .. Len(r)
  /\ \A j \in 1 .. Len(r) : IsRound(r[j])
  /\ \A i, j \in 1 .. Len(r) : i # j => r[i].opener # r[j].opener \/ r[i].name # r[j].name

\* P is the text t in pieces after k rounds.
IsAfter(P, t, r, k) ==
  /\ P \in Seq(Seq(Char)) /\ Len(P) = Len(t)
  /\ \A j \in 1 .. k : \A m \in Place(t, r[j]) :
       P[m] = r[j].text /\ \A i \in m + 1 .. m + 2 : P[i] = <<>>
  /\ \A i \in 1 .. Len(t) :
       (\A j \in 1 .. k : \A m \in Place(t, r[j]) : i \notin m .. m + 2) => P[i] = <<t[i]>>

\* A place lies in the text.
LEMMA PlaceHas ==
  ASSUME NEW t \in Seq(Char), NEW rho, NEW m \in Place(t, rho)
  PROVE  /\ m \in Nat /\ m \in 1 .. Len(t) - 2
         /\ m \in 1 .. Len(t) /\ m + 1 \in 1 .. Len(t) /\ m + 2 \in 1 .. Len(t)
<1> DEFINE n == Len(t)
<1>1. n \in Nat
  OBVIOUS
<1>2. m \in 1 .. n - 2
  BY DEF Place, At
<1> HIDE DEF n
<1>3. m \in Nat /\ m \in 1 .. n /\ m + 1 \in 1 .. n /\ m + 2 \in 1 .. n
  BY <1>1, <1>2
<1> QED
  BY <1>2, <1>3 DEF n

\* The places of two rounds have nothing in common.
LEMMA RoundsDisjoint ==
  ASSUME NEW t \in Seq(Char), NEW r, AreRounds(r),
         NEW j \in 1 .. Len(r), NEW k \in 1 .. Len(r), j # k,
         NEW m \in Place(t, r[j]), NEW i \in Place(t, r[k])
  PROVE  \A l \in i .. i + 2 : l \notin m .. m + 2
<1>1. Len(t) \in Nat
  OBVIOUS
<1> DEFINE o == r[k].opener
           c == r[k].name
           u == r[j].opener
           d == r[j].name
<1>2. o \in Openers /\ c \in TagName /\ u \in Openers /\ d \in TagName
  BY DEF AreRounds, IsRound
<1>3. o # u \/ c # d
  BY DEF AreRounds
<1>4. i \in At(t, o, c) /\ m \in At(t, u, d)
  BY DEF Place
<1> HIDE DEF o, c, u, d
<1> QED
  BY <1>1, <1>2, <1>3, <1>4, PlacesDisjoint

\* Each piece is what a round put in, or empty, or the character it was.
LEMMA KindsOfPieces ==
  ASSUME NEW t \in Seq(Char), NEW r, NEW k, NEW P, IsAfter(P, t, r, k),
         NEW i \in 1 .. Len(t)
  PROVE  \/ \E j \in 1 .. k : i \in Place(t, r[j]) /\ P[i] = r[j].text
         \/ P[i] = <<>>
         \/ /\ P[i] = <<t[i]>>
            /\ \A j \in 1 .. k : \A m \in Place(t, r[j]) : i \notin m .. m + 2
<1>1. CASE \A j \in 1 .. k : \A m \in Place(t, r[j]) : i \notin m .. m + 2
  BY <1>1 DEF IsAfter
<1>2. CASE \E j \in 1 .. k : \E m \in Place(t, r[j]) : i \in m .. m + 2
  <2>a. PICK j \in 1 .. k : \E m \in Place(t, r[j]) : i \in m .. m + 2
    BY <1>2
  <2>1. PICK m \in Place(t, r[j]) : i \in m .. m + 2
    BY <2>a
  <2>2. m \in Nat
    BY PlaceHas
  <2>3. i = m \/ i \in m + 1 .. m + 2
    BY <2>1, <2>2
  <2>4. P[m] = r[j].text /\ \A l \in m + 1 .. m + 2 : P[l] = <<>>
    BY DEF IsAfter
  <2> QED
    BY <2>3, <2>4
<1> QED
  BY <1>1, <1>2

\* The character behind one that no round has touched is untouched too when it is
\* no opening brace.
LEMMA NextUntouched ==
  ASSUME NEW t \in Seq(Char), NEW r, AreRounds(r), NEW k \in 0 .. Len(r), NEW P, IsAfter(P, t, r, k),
         NEW i \in 1 .. Len(t), i + 1 \in 1 .. Len(t), t[i + 1] \in TagName,
         \A j \in 1 .. k : \A m \in Place(t, r[j]) : i \notin m .. m + 2
  PROVE  P[i + 1] = <<t[i + 1]>>
<1>1. ASSUME NEW j \in 1 .. k, NEW m \in Place(t, r[j]), i + 1 \in m .. m + 2 PROVE FALSE
  <2>1. m \in Nat /\ i \in Nat
    <3>1. m \in Nat
      BY PlaceHas
    <3> QED
      BY <3>1
  <2>2. i \notin m .. m + 2
    OBVIOUS
  <2>3. m = i + 1
    BY <1>1, <2>1, <2>2
  <2>4. j \in 1 .. Len(r)
    BY DEF AreRounds
  <2>5. t[m] = r[j].opener /\ r[j].opener \in Openers
    BY <2>4 DEF Place, At, AreRounds, IsRound
  <2> QED
    BY <2>3, <2>5, OpenersTyped
<1> QED
  BY <1>1 DEF IsAfter

\* What GenerateFills takes of the values for each round, and of the text for all
\* but the first one.
Harmless(r) ==
  /\ \A i, j \in DOMAIN r : i < j => Shut(r[i].text, r[j])
  /\ \A i \in DOMAIN r : \A c \in r[i].skip + 1 .. Len(r[i].text) : r[i].text[c] # r[i].opener

\* A round finds its places where the text has them: no value has brought another
\* one, neither has one gone.
LEMMA PlacesStay ==
  ASSUME NEW t \in Seq(Char), NEW r, AreRounds(r), Harmless(r),
         NEW k \in 1 .. Len(r), NEW P, IsAfter(P, t, r, k - 1), k > 1 => Whole(t, r[k])
  PROVE  PlacesIn(P, r[k].opener, r[k].name) = Place(t, r[k])
<1> DEFINE o == r[k].opener
           c == r[k].name
           n == Len(t)
<1>1. n \in Nat /\ Len(P) = n /\ k \in Nat /\ Len(r) \in Nat /\ k - 1 \in 0 .. Len(r)
  BY DEF IsAfter, AreRounds
<1>2. o \in Openers /\ c \in TagName
  BY DEF AreRounds, IsRound
<1>3. \A j \in 1 .. k - 1 : j \in 1 .. Len(r) /\ j # k /\ j < k
  BY <1>1
<1>4. ASSUME NEW i \in Place(t, r[k]) PROVE i \in PlacesIn(P, o, c)
  <2>1. /\ i \in Nat /\ i \in 1 .. n - 2
        /\ i \in 1 .. n /\ i + 1 \in 1 .. n /\ i + 2 \in 1 .. n
    BY PlaceHas
  <2>2. ASSUME NEW l \in i .. i + 2, l \in 1 .. n PROVE P[l] = <<t[l]>>
    <3>1. \A j \in 1 .. k - 1 : \A m \in Place(t, r[j]) : l \notin m .. m + 2
      BY <1>3, RoundsDisjoint
    <3> QED
      BY <2>2, <3>1 DEF IsAfter
  <2>3. i \in i .. i + 2 /\ i + 1 \in i .. i + 2 /\ i + 2 \in i .. i + 2
    BY <2>1
  <2>4. P[i] = <<t[i]>> /\ P[i + 1] = <<t[i + 1]>> /\ P[i + 2] = <<t[i + 2]>>
    BY <2>1, <2>2, <2>3
  <2>5. t[i] = o /\ t[i + 1] = c /\ t[i + 2] = "}"
    BY DEF Place, At
  <2>6. P[i] = <<o>> /\ P[i + 1] = <<c>> /\ P[i + 2] = <<"}">>
    BY <2>4, <2>5
  <2>7. i \in 1 .. Len(P) - 2
    BY <1>1, <2>1
  <2> QED
    BY <2>6, <2>7 DEF PlacesIn
<1>5. ASSUME NEW i \in PlacesIn(P, o, c) PROVE i \in Place(t, r[k])
  <2>1. i \in 1 .. n - 2
    BY <1>1 DEF PlacesIn
  <2>2. P[i] = <<o>> /\ P[i + 1] = <<c>> /\ P[i + 2] = <<"}">>
    BY DEF PlacesIn
  <2> HIDE DEF n
  <2>3. i \in Nat /\ i \in 1 .. n /\ i + 1 \in 1 .. n /\ i + 2 \in 1 .. n
    BY <1>1, <2>1
  <2> USE DEF n
  <2>4. P[i] = <<t[i]>> /\ \A j \in 1 .. k - 1 : \A m \in Place(t, r[j]) : i \notin m .. m + 2
    <3>1. \A e : Len(<<e>>) = 1 /\ <<e>>[1] = e /\ <<e>> # <<>>
      OBVIOUS
    <3>2. ASSUME NEW j \in 1 .. k - 1, P[i] = r[j].text PROVE FALSE
      <4>1. j \in DOMAIN r /\ k \in DOMAIN r /\ j < k
        BY <1>3 DEF AreRounds
      <4>2. Shut(r[j].text, r[k])
        BY <4>1 DEF Harmless
      <4>3. r[j].text = <<o>>
        BY <2>2, <3>2
      <4>4. 1 \in DOMAIN <<o>> /\ <<o>>[1] = o /\ ~(1 < Len(<<o>>))
        BY <3>1
      <4> QED
        BY <4>2, <4>3, <4>4 DEF Shut
    <3>3. P[i] # <<>>
      BY <2>2, <3>1
    <3> QED
      BY <2>3, <3>2, <3>3, KindsOfPieces
  <2>5. t[i] = o
    BY <2>2, <2>4, OneSame
  <2>6. CASE k = 1
    <3>1. \A j \in 1 .. k - 1 : FALSE
      BY <2>6
    <3>2. \A l \in 1 .. n : P[l] = <<t[l]>>
      BY <3>1 DEF IsAfter
    <3>3. P[i + 1] = <<t[i + 1]>> /\ P[i + 2] = <<t[i + 2]>>
      BY <2>3, <3>2
    <3>4. t[i + 1] = c /\ t[i + 2] = "}"
      <4>1. <<t[i + 1]>> = <<c>> /\ <<t[i + 2]>> = <<"}">>
        BY <2>2, <3>3
      <4> QED
        BY <4>1, OneSame
    <3> QED
      BY <2>1, <2>5, <3>4 DEF Place, At
  <2>7. CASE k > 1
    <3>1. t[i + 1] \in TagName /\ t[i + 2] = "}"
      <4>1. i \in DOMAIN t
        BY <2>3
      <4> QED
        BY <2>5, <2>7, <4>1 DEF Whole
    <3>2. P[i + 1] = <<t[i + 1]>>
      <4> DEFINE h == k - 1
      <4>1. /\ h \in 0 .. Len(r) /\ IsAfter(P, t, r, h)
            /\ \A j \in 1 .. h : \A m \in Place(t, r[j]) : i \notin m .. m + 2
        BY <1>1, <2>4
      <4>2. i \in 1 .. Len(t) /\ i + 1 \in 1 .. Len(t) /\ t[i + 1] \in TagName
        BY <2>3, <3>1
      <4> HIDE DEF h
      <4> QED
        BY <4>1, <4>2, NextUntouched, SMTT(30)
    <3>3. t[i + 1] = c
      BY <2>2, <3>2, OneSame
    <3> QED
      BY <2>1, <2>5, <3>1, <3>3 DEF Place, At
  <2> QED
    BY <1>1, <2>6, <2>7
<1> QED
  BY <1>4, <1>5

\* One round fills its places, and only those.
LEMMA RoundFills ==
  ASSUME NEW t \in Seq(Char), NEW r, AreRounds(r), Harmless(r),
         NEW k \in 1 .. Len(r), NEW P, IsAfter(P, t, r, k - 1), k > 1 => Whole(t, r[k])
  PROVE  FillIn(FlattenSeq(P), r[k]) =
           [out |-> FlattenSeq(Filling(P, Place(t, r[k]), r[k].text)), ends |-> TRUE]
<1> DEFINE o == r[k].opener
           c == r[k].name
           v == r[k].text
           a == r[k].skip
<1>1. P \in Seq(Seq(Char)) /\ Len(P) = Len(t) /\ k \in Nat /\ Len(r) \in Nat /\ Len(t) \in Nat
  BY DEF IsAfter, AreRounds
<1>2. o \in Openers /\ c \in TagName /\ v \in Seq(Char) /\ a \in 0 .. Len(v)
  BY DEF AreRounds, IsRound
<1>3. k \in DOMAIN r /\ \A j \in 1 .. k - 1 : j \in DOMAIN r /\ j < k
  BY <1>1 DEF AreRounds
<1>4. \A l \in a + 1 .. Len(v) : v[l] # o
  BY <1>3 DEF Harmless
<1>5. PlacesIn(P, o, c) = Place(t, r[k])
  BY PlacesStay
<1>6. CASE k = 1
  <2>1. \A j \in 1 .. k - 1 : FALSE
    BY <1>6
  <2>2. \A l \in 1 .. Len(P) : P[l] = <<t[l]>>
    BY <1>1, <2>1 DEF IsAfter
  <2>3. \A e : Len(<<e>>) = 1
    OBVIOUS
  <2>4. \A l \in 1 .. Len(P) : Len(P[l]) = 1
    BY <2>2, <2>3
  <2> HIDE DEF o, c, v, a
  <2>5. Replace(FlattenSeq(P), Needle(o, c), v, a) =
          [out |-> FlattenSeq(Filling(P, PlacesIn(P, o, c), v)), ends |-> TRUE]
    BY <1>1, <1>2, <1>4, <2>4, FillRound
  <2> QED
    BY <1>5, <2>5 DEF FillIn, o, c, v, a
<1>7. CASE k > 1
  <2>1. ASSUME NEW i \in 1 .. Len(P) \ PlacesIn(P, o, c)
        PROVE  \/ \A l \in 1 .. Len(P[i]) : P[i][l] = o => l < Len(P[i]) /\ P[i][l + 1] # c
               \/ /\ Len(P[i]) = 1 /\ i < Len(P)
                  /\ \E d \in Char : P[i + 1] = <<d>> /\ d # c
    <3>1. i \in 1 .. Len(t) /\ P[i] \in Seq(Char)
      BY <1>1
    <3>2. ASSUME NEW j \in 1 .. k - 1, P[i] = r[j].text
          PROVE  \A l \in 1 .. Len(P[i]) : P[i][l] = o => l < Len(P[i]) /\ P[i][l + 1] # c
      <4>1. Shut(P[i], r[k])
        BY <1>3, <3>2 DEF Harmless
      <4>2. DOMAIN P[i] = 1 .. Len(P[i])
        BY <3>1
      <4> QED
        BY <4>1, <4>2 DEF Shut
    <3>3. ASSUME P[i] = <<>>
          PROVE  \A l \in 1 .. Len(P[i]) : FALSE
      BY <3>3, NoneLong
    <3>4. ASSUME P[i] = <<t[i]>>, t[i] # o
          PROVE  \A l \in 1 .. Len(P[i]) : P[i][l] # o
      BY <3>4, OneLong
    <3>5. ASSUME P[i] = <<t[i]>>, t[i] = o,
                 \A j \in 1 .. k - 1 : \A m \in Place(t, r[j]) : i \notin m .. m + 2
          PROVE  /\ Len(P[i]) = 1 /\ i < Len(P)
                 /\ \E d \in Char : P[i + 1] = <<d>> /\ d # c
      <4>1. i + 2 <= Len(t) /\ t[i + 1] \in TagName /\ t[i + 2] = "}"
        <5>1. i \in DOMAIN t
          BY <3>1
        <5> QED
          BY <1>7, <3>5, <5>1 DEF Whole
      <4>2. i \in 1 .. Len(t) - 2 /\ i + 1 \in 1 .. Len(t) /\ i < Len(t)
        <5>1. i + 2 <= Len(t)
          BY <4>1
        <5> QED
          BY <1>1, <3>1, <5>1
      <4>3. P[i + 1] = <<t[i + 1]>>
        <5> DEFINE h == k - 1
        <5>1. /\ h \in 0 .. Len(r) /\ IsAfter(P, t, r, h)
              /\ \A j \in 1 .. h : \A m \in Place(t, r[j]) : i \notin m .. m + 2
          BY <1>1, <3>5
        <5>2. t[i + 1] \in TagName
          BY <4>1
        <5> HIDE DEF h
        <5> QED
          BY <3>1, <4>2, <5>1, <5>2, NextUntouched, SMTT(30)
      <4>4. t[i + 1] # c
        <5>1. ASSUME t[i + 1] = c PROVE FALSE
          <6>1. i \in Place(t, r[k])
            BY <3>5, <4>1, <4>2, <5>1 DEF Place, At
          <6> QED
            BY <1>5, <6>1
        <5> QED
          BY <5>1
      <4>5. t[i + 1] \in Char
        BY <4>1, OpenersTyped
      <4>6. Len(P[i]) = 1
        BY <3>5, OneLong
      <4> QED
        BY <1>1, <4>2, <4>3, <4>4, <4>5, <4>6
    <3>6. \/ \E j \in 1 .. k - 1 : P[i] = r[j].text
          \/ P[i] = <<>>
          \/ /\ P[i] = <<t[i]>>
             /\ \A j \in 1 .. k - 1 : \A m \in Place(t, r[j]) : i \notin m .. m + 2
      BY <3>1, KindsOfPieces
    <3> HIDE DEF o, c
    <3> QED
      BY <3>2, <3>3, <3>4, <3>5, <3>6
  <2> HIDE DEF o, c, v, a
  <2>2. Replace(FlattenSeq(P), Needle(o, c), v, a) =
          [out |-> FlattenSeq(Filling(P, PlacesIn(P, o, c), v)), ends |-> TRUE]
    BY <1>1, <1>2, <1>4, <2>1, FillRound
  <2> QED
    BY <1>5, <2>2 DEF FillIn, o, c, v, a
<1> QED
  BY <1>1, <1>6, <1>7

\* The pieces after one more round.
LEMMA OneMoreRound ==
  ASSUME NEW t \in Seq(Char), NEW r, AreRounds(r), NEW k \in 1 .. Len(r), NEW P, IsAfter(P, t, r, k - 1)
  PROVE  IsAfter(Filling(P, Place(t, r[k]), r[k].text), t, r, k)
<1> DEFINE A == Place(t, r[k])
           v == r[k].text
           Q == Filling(P, A, v)
           n == Len(t)
<1>1. n \in Nat /\ k \in Nat /\ Len(r) \in Nat /\ P \in Seq(Seq(Char)) /\ Len(P) = n
  BY DEF IsAfter, AreRounds
<1>2. v \in Seq(Char)
  BY DEF AreRounds, IsRound
<1>3. Q \in Seq(Seq(Char)) /\ Len(Q) = n
  BY <1>1, <1>2, FillingTyped
<1>4. \A i \in 1 .. n :
        Q[i] = IF i \in A THEN v ELSE IF \E j \in A : i \in j + 1 .. j + 2 THEN <<>> ELSE P[i]
  BY <1>1 DEF Filling
<1>5. \A m \in A : /\ m \in Nat /\ m \in 1 .. n
                   /\ \A l \in m + 1 .. m + 2 : l \in 1 .. n
  <2> SUFFICES ASSUME NEW m \in A
               PROVE  m \in Nat /\ m \in 1 .. n /\ \A l \in m + 1 .. m + 2 : l \in 1 .. n
    OBVIOUS
  <2>1. m \in Nat /\ m \in 1 .. n /\ m + 1 \in 1 .. n /\ m + 2 \in 1 .. n
    BY PlaceHas
  <2> HIDE DEF A, n
  <2> QED
    BY <1>1, <2>1
<1>6. ASSUME NEW m \in A, NEW l \in m + 1 .. m + 2 PROVE l \notin A
  <2> SUFFICES ASSUME l \in A PROVE FALSE
    OBVIOUS
  <2>1. t[m + 1] = r[k].name /\ t[m + 2] = "}" /\ t[l] = r[k].opener
    BY DEF Place, At
  <2>2. l = m + 1 \/ l = m + 2
    <3>1. m \in Nat
      BY <1>5
    <3> QED
      BY <3>1
  <2>3. r[k].opener \in Openers /\ r[k].name \in TagName
    BY DEF AreRounds, IsRound
  <2> QED
    BY <2>1, <2>2, <2>3, OpenersTyped
<1>7. ASSUME NEW j \in 1 .. k - 1, NEW m \in Place(t, r[j]), NEW l \in m .. m + 2
      PROVE  l \in 1 .. n /\ l \notin A /\ ~ \E i \in A : l \in i + 1 .. i + 2
  <2>1. j \in 1 .. Len(r) /\ j # k
    BY <1>1
  <2>2. \A i \in A : l \notin i .. i + 2
    BY <2>1, RoundsDisjoint
  <2>3. \A i \in A : i \in i .. i + 2 /\ \A e \in i + 1 .. i + 2 : e \in i .. i + 2
    BY <1>5, ThreeFrom
  <2>4. l \in 1 .. n
    <3>1. m \in Nat /\ m \in 1 .. n /\ m + 2 \in 1 .. n
      BY PlaceHas
    <3> HIDE DEF n
    <3> QED
      BY <1>1, <3>1
  <2> HIDE DEF A
  <2> QED
    BY <2>2, <2>3, <2>4
<1> HIDE DEF A, v, Q, n
<1>8. ASSUME NEW j \in 1 .. k, NEW m \in Place(t, r[j])
      PROVE  Q[m] = r[j].text /\ \A i \in m + 1 .. m + 2 : Q[i] = <<>>
  <2>1. CASE j = k
    <3>1. m \in A /\ v = r[j].text
      BY <2>1 DEF A, v
    <3> QED
      BY <1>4, <1>5, <1>6, <3>1
  <2>2. CASE j \in 1 .. k - 1
    <3>1. P[m] = r[j].text /\ \A i \in m + 1 .. m + 2 : P[i] = <<>>
      BY <2>2 DEF IsAfter
    <3>2. m \in m .. m + 2 /\ \A i \in m + 1 .. m + 2 : i \in m .. m + 2
      <4>1. m \in Nat
        BY PlaceHas
      <4> QED
        BY <4>1, ThreeFrom
    <3>3. \A l \in m .. m + 2 : Q[l] = P[l]
      BY <1>4, <1>7, <2>2
    <3> QED
      BY <3>1, <3>2, <3>3
  <2> QED
    BY <1>1, <2>1, <2>2
<1>9. ASSUME NEW i \in 1 .. n, \A j \in 1 .. k : \A m \in Place(t, r[j]) : i \notin m .. m + 2
      PROVE  Q[i] = <<t[i]>>
  <2>1. \A m \in A : i \notin m .. m + 2
    BY <1>1, <1>9 DEF A
  <2>2. i \notin A /\ ~ \E m \in A : i \in m + 1 .. m + 2
    <3>1. \A m \in A : m \in m .. m + 2 /\ \A e \in m + 1 .. m + 2 : e \in m .. m + 2
      BY <1>5, ThreeFrom
    <3> QED
      BY <2>1, <3>1
  <2>3. \A j \in 1 .. k - 1 : j \in 1 .. k
    BY <1>1
  <2>4. P[i] = <<t[i]>>
    BY <1>9, <2>3 DEF IsAfter, n
  <2> QED
    BY <1>4, <2>2, <2>4
<1>10. IsAfter(Q, t, r, k)
  BY <1>3, <1>8, <1>9 DEF IsAfter, n
<1> QED
  BY <1>10 DEF Q, A, v

\* What one round makes of the text after those before it.
After(l, rho) == [out |-> FillIn(l.out, rho).out, ends |-> l.ends /\ FillIn(l.out, rho).ends]

\* Filled is what the rounds lead to, one after the other.
LEMMA FilledRuns ==
  ASSUME NEW t, NEW r, Len(r) \in Nat
  PROVE  \E f : /\ f[0] = [out |-> t, ends |-> TRUE]
                /\ \A k \in 1 .. Len(r) : f[k] = After(f[k - 1], r[k])
                /\ Filled(t, r) = f[Len(r)]
<1> DEFINE n == Len(r)
           l0 == [out |-> t, ends |-> TRUE]
           Rec(f) == [k \in 0 .. Len(r) |-> IF k = 0 THEN l0 ELSE After(f[k - 1], r[k])]
           Good(k, f) == /\ DOMAIN f = 0 .. k
                         /\ f[0] = l0
                         /\ \A i \in 1 .. k : f[i] = After(f[i - 1], r[i])
           G == {k \in 0 .. n : \E f : Good(k, f)}
<1> n \in Nat
  OBVIOUS
<1> HIDE DEF l0, n
<1>1. 0 \in G
  <2> DEFINE f == [i \in 0 .. 0 |-> l0]
  <2>1. DOMAIN f = 0 .. 0 /\ f[0] = l0 /\ \A i \in 1 .. 0 : FALSE
    OBVIOUS
  <2> HIDE DEF f
  <2>2. Good(0, f)
    BY <2>1
  <2> QED
    BY <2>2
<1>2. ASSUME NEW k \in 0 .. n - 1, k \in G PROVE k + 1 \in G
  <2>1. PICK f : Good(k, f)
    BY <1>2
  <2> DEFINE v == After(f[k], r[k + 1])
             H == [i \in 0 .. k + 1 |-> IF i = k + 1 THEN v ELSE f[i]]
  <2> HIDE DEF v
  <2>2. k \in Nat /\ k + 1 \in 0 .. n
    OBVIOUS
  <2>3. DOMAIN H = 0 .. k + 1 /\ H[0] = l0
    BY <2>1, <2>2
  <2>4. \A i \in 0 .. k : H[i] = f[i]
    <3>1. \A i \in 0 .. k : i \in 0 .. k + 1 /\ i # k + 1
      BY <2>2
    <3> QED
      BY <3>1
  <2>5. H[k + 1] = v
    BY <2>2
  <2> HIDE DEF H
  <2>6. ASSUME NEW i \in 1 .. k + 1 PROVE H[i] = After(H[i - 1], r[i])
    <3>1. i - 1 \in 0 .. k /\ (i = k + 1 \/ (i \in 1 .. k /\ i \in 0 .. k))
      BY <2>2
    <3>2. H[i - 1] = f[i - 1]
      BY <2>4, <3>1
    <3>3. CASE i = k + 1
      <4>1. i - 1 = k
        BY <2>2, <3>3
      <4> QED
        BY <2>5, <3>2, <3>3, <4>1 DEF v
    <3>4. CASE i \in 1 .. k /\ i \in 0 .. k
      <4>1. H[i] = f[i]
        BY <2>4, <3>4
      <4> QED
        BY <2>1, <3>2, <3>4, <4>1
    <3> QED
      BY <3>1, <3>3, <3>4
  <2>7. Good(k + 1, H)
    BY <2>3, <2>6
  <2> HIDE DEF Good
  <2> QED
    BY <2>2, <2>7
<1>3. n \in G
  <2> HIDE DEF G
  <2>1. \A k \in 0 .. n : k \in G
    BY <1>1, <1>2, Upwards
  <2> QED
    BY <2>1
<1>4. PICK g : Good(n, g)
  BY <1>3
<1> DEFINE own == [k \in 0 .. n |-> g[k]]
<1> USE DEF n
<1>5. own = Rec(own)
  <2>1. ASSUME NEW k \in 0 .. n
        PROVE  own[k] = IF k = 0 THEN l0 ELSE After(own[k - 1], r[k])
    <3>1. CASE k = 0
      BY <1>4, <3>1
    <3>2. CASE k # 0
      <4>1. k \in 1 .. n /\ k - 1 \in 0 .. n
        BY <3>2
      <4>2. own[k] = g[k] /\ own[k - 1] = g[k - 1]
        BY <4>1
      <4>3. g[k] = After(g[k - 1], r[k])
        BY <1>4, <4>1
      <4> HIDE DEF own
      <4> QED
        BY <3>2, <4>2, <4>3
    <3> QED
      BY <3>1, <3>2
  <2>2. DOMAIN own = 0 .. n /\ DOMAIN Rec(own) = 0 .. n
    OBVIOUS
  <2> QED
    BY <2>1, <2>2
<1> DEFINE after == CHOOSE f : f = Rec(f)
<1>6. after = Rec(after)
  BY <1>5
<1>7. Filled(t, r) = after[Len(r)]
  BY DEF Filled, After, l0
<1> HIDE DEF after
<1>8. after[0] = l0
  BY <1>6
<1>9. ASSUME NEW k \in 1 .. n PROVE after[k] = After(after[k - 1], r[k])
  <2>1. k \in 0 .. n /\ k # 0
    OBVIOUS
  <2> QED
    BY <1>6, <2>1
<1> QED
  BY <1>7, <1>8, <1>9 DEF l0

\* All rounds end, with the text in the pieces that they leave.
LEMMA FilledIs ==
  ASSUME NEW t \in Seq(Char), NEW r, AreRounds(r), Harmless(r),
         \A k \in 1 .. Len(r) : k > 1 => Whole(t, r[k])
  PROVE  \E P : /\ IsAfter(P, t, r, Len(r))
                /\ Filled(t, r) = [out |-> FlattenSeq(P), ends |-> TRUE]
<1> DEFINE n == Len(r)
<1>1. n \in Nat
  BY DEF AreRounds
<1>2. PICK f : /\ f[0] = [out |-> t, ends |-> TRUE]
               /\ \A k \in 1 .. n : f[k] = After(f[k - 1], r[k])
               /\ Filled(t, r) = f[n]
  BY <1>1, FilledRuns
<1> HIDE DEF n
<1> DEFINE Good(k, P) == IsAfter(P, t, r, k) /\ f[k] = [out |-> FlattenSeq(P), ends |-> TRUE]
           G == {k \in 0 .. n : \E P : Good(k, P)}
<1>3. 0 \in G
  <2> DEFINE P == Letter(t)
  <2>1. /\ P \in Seq(Seq(Char)) /\ Len(P) = Len(t) /\ FlattenSeq(P) = t
        /\ \A i \in 1 .. Len(t) : P[i] = <<t[i]>>
    BY LetterPieces
  <2> HIDE DEF P
  <2>2. \A j \in 1 .. 0 : FALSE
    OBVIOUS
  <2>3. IsAfter(P, t, r, 0)
    BY <2>1, <2>2 DEF IsAfter
  <2>4. Good(0, P)
    BY <1>2, <2>1, <2>3
  <2>5. 0 \in 0 .. n
    BY <1>1
  <2> HIDE DEF Good
  <2> QED
    BY <2>4, <2>5
<1>4. ASSUME NEW k \in 0 .. n - 1, k \in G PROVE k + 1 \in G
  <2>1. PICK P : Good(k, P)
    BY <1>4
  <2> DEFINE h == k + 1
             Q == Filling(P, Place(t, r[h]), r[h].text)
  <2>2. h \in 1 .. n /\ h \in 0 .. n /\ h - 1 = k
    BY <1>1
  <2> HIDE DEF h, Q
  <2>3. IsAfter(P, t, r, h - 1)
    BY <2>1, <2>2
  <2>4. IsAfter(Q, t, r, h)
    BY <2>2, <2>3, OneMoreRound DEF Q, n
  <2>5. FillIn(FlattenSeq(P), r[h]) = [out |-> FlattenSeq(Q), ends |-> TRUE]
    BY <2>2, <2>3, RoundFills DEF Q, n
  <2>6. f[h] = After(f[k], r[h])
    BY <1>2, <2>2
  <2>7. f[k].out = FlattenSeq(P) /\ f[k].ends = TRUE
    BY <2>1
  <2>8. f[h] = [out |-> FlattenSeq(Q), ends |-> TRUE]
    <3> DEFINE g == FillIn(f[k].out, r[h])
    <3>1. g.out = FlattenSeq(Q) /\ g.ends = TRUE
      <4>1. g = [out |-> FlattenSeq(Q), ends |-> TRUE]
        BY <2>5, <2>7
      <4> HIDE DEF g
      <4> QED
        BY <4>1
    <3>2. f[h] = [out |-> g.out, ends |-> f[k].ends /\ g.ends]
      BY <2>6 DEF After
    <3> HIDE DEF g
    <3>3. (f[k].ends /\ g.ends) = TRUE
      BY <2>7, <3>1, Zenon
    <3> QED
      BY <3>1, <3>2, <3>3, Zenon
  <2>9. Good(h, Q)
    BY <2>4, <2>8
  <2>10. h \in G
    <3> HIDE DEF Good
    <3> QED
      BY <2>2, <2>9
  <2> QED
    BY <2>10 DEF h
<1>5. n \in G
  <2> HIDE DEF G
  <2>1. \A k \in 0 .. n : k \in G
    BY <1>1, <1>3, <1>4, Upwards
  <2> QED
    BY <1>1, <2>1
<1>6. PICK P : Good(n, P)
  BY <1>5
<1> QED
  BY <1>2, <1>6 DEF n

-----------------------------------------------------------------------------
\* The rounds of generate(), and what they leave.

\* Rounds has one round for each tag and each include that is set, and no other.
LEMMA RoundsAre ==
  ASSUME TextsByName(tags), TextsByName(includes), NEW r \in Rounds
  PROVE  /\ Len(r) \in Nat /\ DOMAIN r = 1 .. Len(r)
         /\ \A j \in 1 .. Len(r) : \/ \E n \in DOMAIN tags : r[j] = TagRound(n)
                                   \/ \E n \in DOMAIN includes : r[j] = IncludeRound(n)
         /\ \A n \in DOMAIN tags : \E j \in 1 .. Len(r) : r[j] = TagRound(n)
         /\ \A n \in DOMAIN includes : \E j \in 1 .. Len(r) : r[j] = IncludeRound(n)
         /\ \A i, j \in 1 .. Len(r) : i # j => r[i].opener # r[j].opener \/ r[i].name # r[j].name
<1> DEFINE T == DOMAIN tags
           I == DOMAIN includes
           a == Cardinality(T)
           b == Cardinality(I)
<1>1. a \in Nat /\ b \in Nat
  BY FS_CardinalityType DEF TextsByName
<1>2. PICK o \in Bijection(1 .. a, T) : \E p \in Bijection(1 .. b, I) :
        r = [k \in DOMAIN o |-> TagRound(o[k])] \o [k \in DOMAIN p |-> IncludeRound(p[k])]
  <2> DEFINE Run(o, p) == [k \in DOMAIN o |-> TagRound(o[k])] \o [k \in DOMAIN p |-> IncludeRound(p[k])]
             O == Bijection(1 .. a, T)
             Q == Bijection(1 .. b, I)
  <2>1. Rounds = {Run(o, p) : o \in O, p \in Q}
    BY DEF Rounds
  <2> HIDE DEF Run, O, Q
  <2>2. \E o \in O : \E p \in Q : r = Run(o, p)
    BY <2>1
  <2> QED
    BY <2>2 DEF Run, O, Q
<1>3. PICK p \in Bijection(1 .. b, I) :
        r = [k \in DOMAIN o |-> TagRound(o[k])] \o [k \in DOMAIN p |-> IncludeRound(p[k])]
  BY <1>2
<1>4. /\ o \in [1 .. a -> T]
      /\ \A i, j \in 1 .. a : o[i] = o[j] => i = j
      /\ \A n \in T : \E i \in 1 .. a : o[i] = n
  BY DEF Bijection, Injection, Surjection, IsInjective
<1>5. /\ p \in [1 .. b -> I]
      /\ \A i, j \in 1 .. b : p[i] = p[j] => i = j
      /\ \A n \in I : \E i \in 1 .. b : p[i] = n
  BY DEF Bijection, Injection, Surjection, IsInjective
<1> DEFINE C == {TagRound(n) : n \in T} \union {IncludeRound(n) : n \in I}
           u == [k \in 1 .. a |-> TagRound(o[k])]
           w == [k \in 1 .. b |-> IncludeRound(p[k])]
<1>6. r = u \o w
  BY <1>3, <1>4, <1>5
<1>7. u \in [1 .. a -> C] /\ w \in [1 .. b -> C]
  BY <1>4, <1>5
<1>8. /\ \A n : TagRound(n).opener = "{" /\ TagRound(n).name = n
      /\ \A n : IncludeRound(n).opener = "{>" /\ IncludeRound(n).name = n
  BY DEF TagRound, IncludeRound
<1>9. /\ \A k \in 1 .. a : u[k] = TagRound(o[k]) /\ o[k] \in T
      /\ \A k \in 1 .. b : w[k] = IncludeRound(p[k]) /\ p[k] \in I
  BY <1>4, <1>5
<1> HIDE DEF T, I, a, b, C, u, w
<1>10. u \in Seq(C) /\ w \in Seq(C) /\ Len(u) = a /\ Len(w) = b
  BY <1>1, <1>7
<1>11. /\ r \in Seq(C) /\ Len(r) = a + b
       /\ \A i \in 1 .. a : r[i] = u[i]
       /\ \A i \in 1 .. b : r[a + i] = w[i]
  <2>1. \A g, h \in Seq(C) : /\ g \o h \in Seq(C)
                             /\ Len(g \o h) = Len(g) + Len(h)
                             /\ \A i \in 1 .. Len(g) : (g \o h)[i] = g[i]
                             /\ \A i \in 1 .. Len(h) : (g \o h)[Len(g) + i] = h[i]
    BY Joined
  <2>2. u \o w \in Seq(C) /\ Len(u \o w) = Len(u) + Len(w)
    BY <1>10, <2>1
  <2>3. \A i \in 1 .. Len(u) : (u \o w)[i] = u[i]
    BY <1>10, <2>1
  <2>4. \A i \in 1 .. Len(w) : (u \o w)[Len(u) + i] = w[i]
    BY <1>10, <2>1
  <2> QED
    BY <1>6, <1>10, <2>2, <2>3, <2>4
<1>12. Len(r) \in Nat /\ DOMAIN r = 1 .. Len(r)
  BY <1>11
<1>13. /\ \A i \in 1 .. a : i \in 1 .. Len(r) /\ r[i] = TagRound(o[i])
       /\ \A i \in 1 .. b : a + i \in 1 .. Len(r) /\ r[a + i] = IncludeRound(p[i])
  BY <1>1, <1>9, <1>11
<1>14. ASSUME NEW j \in 1 .. Len(r)
       PROVE  j \in 1 .. a \/ \E i \in 1 .. b : j = a + i
  <2>1. j \in Nat /\ j <= a + b /\ 1 <= j
    BY <1>1, <1>11
  <2>2. CASE j <= a
    BY <1>1, <2>1, <2>2
  <2>3. CASE a < j
    <3>1. j - a \in 1 .. b /\ j = a + (j - a)
      BY <1>1, <2>1, <2>3
    <3> QED
      BY <3>1
  <2> QED
    BY <1>1, <2>1, <2>2, <2>3
<1>15. ASSUME NEW j \in 1 .. Len(r)
       PROVE  (\E n \in T : r[j] = TagRound(n)) \/ (\E n \in I : r[j] = IncludeRound(n))
  BY <1>9, <1>13, <1>14
<1>16. ASSUME NEW n \in T PROVE \E j \in 1 .. Len(r) : r[j] = TagRound(n)
  BY <1>4, <1>13
<1>17. ASSUME NEW n \in I PROVE \E j \in 1 .. Len(r) : r[j] = IncludeRound(n)
  BY <1>5, <1>13
<1>18. ASSUME NEW i \in 1 .. Len(r), NEW j \in 1 .. Len(r),
              r[i].opener = r[j].opener, r[i].name = r[j].name
       PROVE  i = j
  <2>1. CASE i \in 1 .. a /\ j \in 1 .. a
    <3>1. o[i] = o[j]
      <4>1. r[i] = TagRound(o[i]) /\ r[j] = TagRound(o[j])
        BY <1>13, <2>1
      <4> QED
        BY <1>8, <1>18, <4>1, Zenon
    <3> QED
      BY <1>4, <2>1, <3>1
  <2>2. CASE \E k \in 1 .. b : i = a + k
    <3>1. PICK k \in 1 .. b : i = a + k
      BY <2>2
    <3>2. r[i].opener = "{>" /\ r[i].name = p[k]
      <4>1. r[i] = IncludeRound(p[k])
        BY <1>13, <3>1
      <4> QED
        BY <1>8, <4>1, Zenon
    <3>3. CASE j \in 1 .. a
      <4>1. r[j].opener = "{"
        <5>1. r[j] = TagRound(o[j])
          BY <1>13, <3>3
        <5> QED
          BY <1>8, <5>1, Zenon
      <4> QED
        BY <1>18, <3>2, <4>1
    <3>4. CASE \E l \in 1 .. b : j = a + l
      <4>1. PICK l \in 1 .. b : j = a + l
        BY <3>4
      <4>2. r[j].name = p[l]
        <5>1. r[j] = IncludeRound(p[l])
          BY <1>13, <4>1
        <5> QED
          BY <1>8, <5>1, Zenon
      <4>3. k = l
        BY <1>5, <1>18, <3>2, <4>2
      <4> QED
        BY <3>1, <4>1, <4>3
    <3> QED
      BY <1>14, <3>3, <3>4
  <2>3. CASE i \in 1 .. a /\ \E l \in 1 .. b : j = a + l
    <3>1. r[i].opener = "{" /\ r[j].opener = "{>"
      <4>1. PICK l \in 1 .. b : j = a + l
        BY <2>3
      <4>2. r[i] = TagRound(o[i]) /\ r[j] = IncludeRound(p[l])
        BY <1>13, <2>3, <4>1
      <4> QED
        BY <1>8, <4>2, Zenon
    <3> QED
      BY <1>18, <3>1
  <2> QED
    BY <1>14, <2>1, <2>2, <2>3
<1>19. \A i, j \in 1 .. Len(r) : i # j => r[i].opener # r[j].opener \/ r[i].name # r[j].name
  BY <1>18
<1> QED
  BY <1>12, <1>15, <1>16, <1>17, <1>19 DEF T, I

\* The rounds have the types that the lemmas about them take.
LEMMA RoundsTyped ==
  ASSUME TextsByName(tags), TextsByName(includes), NEW r \in Rounds
  PROVE  AreRounds(r)
<1>1. ASSUME NEW n \in DOMAIN tags PROVE IsRound(TagRound(n))
  <2>1. n \in TagName /\ tags[n] \in Seq(Char)
    BY DEF TextsByName
  <2>2. htmlspecialchars(tags[n]) \in Seq(Char) /\ Len(tags[n]) \in 0 .. Len(htmlspecialchars(tags[n]))
    BY <2>1, EscapedHas
  <2> QED
    BY <2>1, <2>2 DEF IsRound, TagRound, Openers
<1>2. ASSUME NEW n \in DOMAIN includes PROVE IsRound(IncludeRound(n))
  <2>1. n \in TagName /\ includes[n] \in Seq(Char)
    BY DEF TextsByName
  <2> DEFINE v == includes[n]
  <2>2. v \in Seq(Char)
    BY <2>1
  <2> HIDE DEF v
  <2>3. Len(v) \in 0 .. Len(v)
    BY <2>2
  <2>4. Len(includes[n]) \in 0 .. Len(includes[n])
    BY <2>3 DEF v
  <2> QED
    BY <2>1, <2>4 DEF IsRound, IncludeRound, Openers
<1>3. /\ Len(r) \in Nat /\ DOMAIN r = 1 .. Len(r)
      /\ \A i, j \in 1 .. Len(r) : i # j => r[i].opener # r[j].opener \/ r[i].name # r[j].name
  BY RoundsAre
<1>4. \A j \in 1 .. Len(r) : IsRound(r[j])
  BY <1>1, <1>2, RoundsAre
<1> QED
  BY <1>3, <1>4 DEF AreRounds

\* The pieces of EachFilled.
EachPiece(t) ==
  [i \in DOMAIN t |->
     IF i \in Places(t, "{", tags) THEN htmlspecialchars(tags[t[i + 1]])
     ELSE IF i \in Places(t, "{>", includes) THEN includes[t[i + 1]]
     ELSE IF \E j \in Places(t, "{", tags) \union Places(t, "{>", includes) : i \in j + 1 .. j + 2
          THEN <<>>
     ELSE <<t[i]>>]

\* A place for the values of one kind is the place of the value that it names.
LEMMA PlacesAreAt ==
  ASSUME NEW t, NEW o, NEW values, NEW i
  PROVE  /\ i \in Places(t, o, values) => t[i + 1] \in DOMAIN values /\ i \in At(t, o, t[i + 1])
         /\ \A c \in DOMAIN values : i \in At(t, o, c) => i \in Places(t, o, values)
<1>1. ASSUME i \in Places(t, o, values)
      PROVE  t[i + 1] \in DOMAIN values /\ i \in At(t, o, t[i + 1])
  <2>1. i \in 1 .. Len(t) - 2
    BY <1>1, Zenon DEF Places
  <2>2. t[i] = o /\ t[i + 1] \in DOMAIN values /\ t[i + 2] = "}"
    BY <1>1, Zenon DEF Places
  <2> QED
    BY <2>1, <2>2, Zenon DEF At
<1>2. ASSUME NEW c \in DOMAIN values, i \in At(t, o, c)
      PROVE  i \in Places(t, o, values)
  <2>1. i \in 1 .. Len(t) - 2
    BY <1>2, Zenon DEF At
  <2>2. t[i] = o /\ t[i + 1] = c /\ t[i + 2] = "}"
    BY <1>2, Zenon DEF At
  <2>3. t[i + 1] \in DOMAIN values
    BY <2>2
  <2> QED
    BY <2>1, <2>2, <2>3, Zenon DEF Places
<1> QED
  BY <1>1, <1>2

\* The places that the rounds search are those of EachFilled.
LEMMA PlacesOfRounds ==
  ASSUME TextsByName(tags), TextsByName(includes), NEW t, NEW r \in Rounds
  PROVE  /\ \A i \in Places(t, "{", tags) :
              \E j \in 1 .. Len(r) : r[j] = TagRound(t[i + 1]) /\ i \in Place(t, r[j])
         /\ \A i \in Places(t, "{>", includes) :
              \E j \in 1 .. Len(r) : r[j] = IncludeRound(t[i + 1]) /\ i \in Place(t, r[j])
         /\ \A j \in 1 .. Len(r) :
              Place(t, r[j]) \subseteq Places(t, "{", tags) \union Places(t, "{>", includes)
<1>1. /\ \A n : TagRound(n).opener = "{" /\ TagRound(n).name = n
      /\ \A n : IncludeRound(n).opener = "{>" /\ IncludeRound(n).name = n
  BY DEF TagRound, IncludeRound
<1>2. /\ \A n : Place(t, TagRound(n)) = At(t, "{", n)
      /\ \A n : Place(t, IncludeRound(n)) = At(t, "{>", n)
  BY <1>1, Zenon DEF Place
<1>3. ASSUME NEW i \in Places(t, "{", tags)
      PROVE  \E j \in 1 .. Len(r) : r[j] = TagRound(t[i + 1]) /\ i \in Place(t, r[j])
  <2>1. t[i + 1] \in DOMAIN tags /\ i \in At(t, "{", t[i + 1])
    BY PlacesAreAt
  <2>2. PICK j \in 1 .. Len(r) : r[j] = TagRound(t[i + 1])
    BY <2>1, RoundsAre
  <2> QED
    BY <1>2, <2>1, <2>2
<1>4. ASSUME NEW i \in Places(t, "{>", includes)
      PROVE  \E j \in 1 .. Len(r) : r[j] = IncludeRound(t[i + 1]) /\ i \in Place(t, r[j])
  <2>1. t[i + 1] \in DOMAIN includes /\ i \in At(t, "{>", t[i + 1])
    BY PlacesAreAt
  <2>2. PICK j \in 1 .. Len(r) : r[j] = IncludeRound(t[i + 1])
    BY <2>1, RoundsAre
  <2> QED
    BY <1>2, <2>1, <2>2
<1>5. ASSUME NEW j \in 1 .. Len(r), NEW i \in Place(t, r[j])
      PROVE  i \in Places(t, "{", tags) \union Places(t, "{>", includes)
  <2>1. CASE \E n \in DOMAIN tags : r[j] = TagRound(n)
    <3>1. PICK n \in DOMAIN tags : r[j] = TagRound(n)
      BY <2>1
    <3>2. i \in At(t, "{", n)
      BY <1>2, <3>1
    <3> QED
      BY <3>2, PlacesAreAt
  <2>2. CASE \E n \in DOMAIN includes : r[j] = IncludeRound(n)
    <3>1. PICK n \in DOMAIN includes : r[j] = IncludeRound(n)
      BY <2>2
    <3>2. i \in At(t, "{>", n)
      BY <1>2, <3>1
    <3> QED
      BY <3>2, PlacesAreAt
  <2> QED
    BY <2>1, <2>2, RoundsAre
<1> QED
  BY <1>3, <1>4, <1>5

\* After all rounds, each place has its value, and all else is as it was.
LEMMA PiecesAre ==
  ASSUME TextsByName(tags), TextsByName(includes), NEW t \in Seq(Char), NEW r \in Rounds,
         NEW P, IsAfter(P, t, r, Len(r))
  PROVE  P = EachPiece(t)
<1> DEFINE A == Places(t, "{", tags)
           B == Places(t, "{>", includes)
           n == Len(t)
<1>1. /\ P \in Seq(Seq(Char)) /\ Len(P) = n
      /\ \A j \in 1 .. Len(r) : \A m \in Place(t, r[j]) :
           P[m] = r[j].text /\ \A i \in m + 1 .. m + 2 : P[i] = <<>>
      /\ \A i \in 1 .. n :
           (\A j \in 1 .. Len(r) : \A m \in Place(t, r[j]) : i \notin m .. m + 2) => P[i] = <<t[i]>>
  BY DEF IsAfter
<1>2. DOMAIN t = 1 .. n /\ DOMAIN P = 1 .. n /\ P = [i \in 1 .. n |-> P[i]]
  BY <1>1
<1>3. /\ \A c : TagRound(c).text = htmlspecialchars(tags[c])
      /\ \A c : IncludeRound(c).text = includes[c]
  BY DEF TagRound, IncludeRound
<1>4. /\ \A i \in A : \E j \in 1 .. Len(r) : r[j] = TagRound(t[i + 1]) /\ i \in Place(t, r[j])
      /\ \A i \in B : \E j \in 1 .. Len(r) : r[j] = IncludeRound(t[i + 1]) /\ i \in Place(t, r[j])
      /\ \A j \in 1 .. Len(r) : Place(t, r[j]) \subseteq A \union B
  BY PlacesOfRounds
<1>5. \A j \in 1 .. Len(r) : \A m \in Place(t, r[j]) : m \in Nat
  BY PlaceHas
<1> HIDE DEF A, B, n
<1>6. ASSUME NEW i \in A
      PROVE  P[i] = htmlspecialchars(tags[t[i + 1]]) /\ \A l \in i + 1 .. i + 2 : P[l] = <<>>
  <2>1. PICK j \in 1 .. Len(r) : r[j] = TagRound(t[i + 1]) /\ i \in Place(t, r[j])
    BY <1>4
  <2>2. r[j].text = htmlspecialchars(tags[t[i + 1]])
    BY <1>3, <2>1, Zenon
  <2> QED
    BY <1>1, <2>1, <2>2
<1>7. ASSUME NEW i \in B
      PROVE  P[i] = includes[t[i + 1]] /\ \A l \in i + 1 .. i + 2 : P[l] = <<>>
  <2>1. PICK j \in 1 .. Len(r) : r[j] = IncludeRound(t[i + 1]) /\ i \in Place(t, r[j])
    BY <1>4
  <2>2. r[j].text = includes[t[i + 1]]
    BY <1>3, <2>1, Zenon
  <2> QED
    BY <1>1, <2>1, <2>2
<1>8. ASSUME NEW i \in 1 .. n, i \notin A, i \notin B, ~ \E j \in A \union B : i \in j + 1 .. j + 2
      PROVE  P[i] = <<t[i]>>
  <2>1. ASSUME NEW j \in 1 .. Len(r), NEW m \in Place(t, r[j]), i \in m .. m + 2 PROVE FALSE
    <3>1. m \in Nat /\ m \in A \union B
      BY <1>4, <1>5
    <3>2. i = m \/ i \in m + 1 .. m + 2
      BY <2>1, <3>1, ThreeFrom
    <3> QED
      BY <1>8, <3>1, <3>2
  <2> QED
    BY <1>1, <2>1
<1>9. ASSUME NEW i \in 1 .. n
      PROVE  P[i] = IF i \in A THEN htmlspecialchars(tags[t[i + 1]])
                    ELSE IF i \in B THEN includes[t[i + 1]]
                    ELSE IF \E j \in A \union B : i \in j + 1 .. j + 2 THEN <<>>
                    ELSE <<t[i]>>
  BY <1>6, <1>7, <1>8
<1>10. EachPiece(t) = [i \in 1 .. n |->
                         IF i \in A THEN htmlspecialchars(tags[t[i + 1]])
                         ELSE IF i \in B THEN includes[t[i + 1]]
                         ELSE IF \E j \in A \union B : i \in j + 1 .. j + 2 THEN <<>>
                         ELSE <<t[i]>>]
  BY <1>2 DEF EachPiece, A, B
<1> QED
  BY <1>2, <1>9, <1>10

\* For all sections, for any number of tags and includes with any values, and for
\* any order in which the maps have them: when the values are such as
\* GenerateFills says, generate() ends, and each place is filled once and on its
\* own.
THEOREM EachPlaceFilled == TemplateSpec => []GenerateFills
<1>1. ASSUME TemplateInv PROVE GenerateFills
  <2> SUFFICES ASSUME NEW k \in DOMAIN out,
                      Harmless(out[k].rounds),
                      \A i \in DOMAIN out[k].rounds : i > 1 => Whole(tpl[1], out[k].rounds[i])
               PROVE  out[k].result = [out |-> EachFilled, ends |-> TRUE]
    BY DEF GenerateFills, Harmless
  <2>1. out # <<>>
    <3>1. ASSUME out = <<>> PROVE FALSE
      <4>1. DOMAIN <<>> = {}
        OBVIOUS
      <4> QED
        BY <3>1, <4>1
    <3> QED
      BY <3>1
  <2>2. tpl # <<>> /\ TextsByName(tags) /\ TextsByName(includes)
    BY <1>1, <2>1 DEF TemplateInv
  <2>3. PICK r \in Rounds : out = <<[rounds |-> r, result |-> Filled(tpl[1], r)]>>
    BY <1>1, <2>1 DEF TemplateInv
  <2> DEFINE t == tpl[1]
  <2>4. t \in Seq(Char)
    <3>1. PICK s \in Seq(Char) : tpl = <<s>>
      BY <1>1, <2>2 DEF TemplateInv, OptionalText
    <3> QED
      BY <3>1
  <2>5. out[k].rounds = r /\ out[k].result = Filled(t, r)
    <3> DEFINE e == [rounds |-> r, result |-> Filled(t, r)]
    <3>1. e.rounds = r /\ e.result = Filled(t, r)
      OBVIOUS
    <3>2. out = <<e>>
      BY <2>3
    <3> HIDE DEF e
    <3>3. out[k] = e
      BY <3>2
    <3> QED
      BY <3>1, <3>3
  <2>6. AreRounds(r) /\ DOMAIN r = 1 .. Len(r)
    BY <2>2, RoundsAre, RoundsTyped
  <2> HIDE DEF t
  <2>7. Harmless(r) /\ \A i \in 1 .. Len(r) : i > 1 => Whole(t, r[i])
    BY <2>5, <2>6 DEF t
  <2>8. PICK P : IsAfter(P, t, r, Len(r)) /\ Filled(t, r) = [out |-> FlattenSeq(P), ends |-> TRUE]
    BY <2>4, <2>6, <2>7, FilledIs
  <2>9. P = EachPiece(t)
    BY <2>2, <2>4, <2>8, PiecesAre
  <2>10. EachFilled = FlattenSeq(EachPiece(t))
    BY Zenon DEF EachFilled, EachPiece, t
  <2> QED
    BY <2>5, <2>8, <2>9, <2>10
<1> QED
  BY <1>1, TemplateInvHolds, PTL
=============================================================================
