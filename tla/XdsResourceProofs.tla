-------------------------- MODULE XdsResourceProofs --------------------------
(***************************************************************************)
(* What the operators of Seqs and XdsResource compute, for slices and      *)
(* responses of any length: the facts the other proofs rest on.            *)
(***************************************************************************)
EXTENDS XdsResource, WellFoundedInduction, TLAPS

-----------------------------------------------------------------------------
(* Induction, and the first and the last of a set of indices *)

\* A set of numbers has a least one.
LEMMA LeastExists ==
    ASSUME NEW T \in SUBSET Nat, T # {}
    PROVE  \E i \in T : \A j \in T : i <= j
<1> DEFINE R == OpToRel(<, Nat)
<1>1. IsWellFoundedOn(R, Nat)
    BY Zenon, NatLessThanWellFounded
<1>2. \A i, j \in Nat : j < i => <<j, i>> \in R
    BY Zenon DEF OpToRel
<1> HIDE DEF R
<1>3. PICK i \in T : \A j \in T : ~(<<j, i>> \in R)
    BY Zenon, <1>1, WFMin
<1>4. \A j \in T : ~(j < i)
    BY <1>2, <1>3
<1> QED
    BY <1>4

\* Induction up to n, over a set of numbers.
LEMMA InductionTo ==
    ASSUME NEW n \in Nat, NEW T, 0 \in T, \A i \in 0 .. n - 1 : i \in T => i + 1 \in T
    PROVE  \A i \in 0 .. n : i \in T
<1> SUFFICES ASSUME NEW k \in 0 .. n, k \notin T PROVE FALSE
    OBVIOUS
<1> DEFINE U == {i \in 0 .. n : i \notin T}
<1>1. U \in SUBSET Nat /\ U # {}
    OBVIOUS
<1>2. PICK m \in U : \A j \in U : m <= j
    BY Zenon, <1>1, LeastExists
<1>3. m \in 0 .. n /\ m \notin T /\ m # 0
    OBVIOUS
<1>4. m - 1 \in 0 .. n - 1 /\ (m - 1) + 1 = m
    BY <1>3
<1>5. m - 1 \in T
    BY <1>2, <1>3
<1> QED
    BY <1>3, <1>4, <1>5

\* FirstOf returns the least index.
LEMMA FirstOfIn ==
    ASSUME NEW I \in SUBSET Nat, I # {}
    PROVE  FirstOf(I) \in I /\ \A j \in I : FirstOf(I) <= j
BY LeastExists DEF FirstOf

\* LastOf returns the greatest index.
LEMMA LastOfIn ==
    ASSUME NEW n \in Nat, NEW I \in SUBSET (1 .. n), I # {}
    PROVE  LastOf(I) \in I /\ \A j \in I : j <= LastOf(I)
<1> DEFINE T == {k \in 0 .. n : n - k \in I}
<1>1. \A i \in I : n - i \in T
    OBVIOUS
<1>5. T # {}
    BY Zenon, <1>1
<1>2. T \in SUBSET Nat /\ T # {}
    BY <1>5
<1>3. PICK k \in T : \A j \in T : k <= j
    BY <1>2, LeastExists
<1>4. n - k \in I /\ \A j \in I : j <= n - k
    BY <1>1, <1>3
<1> QED
    BY <1>4 DEF LastOf

\* The index 0 says that there is none.
LEMMA NoneFound ==
    ASSUME NEW n \in Nat, NEW I \in SUBSET (1 .. n)
    PROVE  (FirstOf(I) = 0 <=> I = {}) /\ (LastOf(I) = 0 <=> I = {})
<1>1. CASE I = {}
    BY <1>1 DEF FirstOf, LastOf
<1>2. CASE I # {}
  <2>1. FirstOf(I) \in I
      BY <1>2, FirstOfIn
  <2>2. LastOf(I) \in I
      BY <1>2, LastOfIn
  <2>3. 0 \notin I
      OBVIOUS
  <2> QED
      BY Zenon, <1>2, <2>1, <2>2, <2>3
<1> QED
    BY <1>1, <1>2

\* A slice has a length.
LEMMA SliceDomain ==
    ASSUME NEW s, IsSlice(s)
    PROVE  Len(s) \in Nat /\ DOMAIN s = 1 .. Len(s) /\ s = [i \in 1 .. Len(s) |-> s[i]]
BY DEF IsSlice

\* A function on 1 .. k is a slice, of elements of any set that has its values.
LEMMA SliceOf ==
    ASSUME NEW k \in Nat, NEW s, s = [i \in 1 .. k |-> s[i]]
    PROVE  /\ IsSlice(s) /\ Len(s) = k /\ DOMAIN s = 1 .. k
           /\ \A S : (\A i \in 1 .. k : s[i] \in S) => s \in Seq(S)
<1>1. ASSUME NEW S, \A i \in 1 .. k : s[i] \in S PROVE s \in Seq(S)
  <2>1. s \in [1 .. k -> S]
      BY <1>1
  <2> QED
      BY <2>1
<1>2. DOMAIN s = 1 .. k
    OBVIOUS
<1>3. IsSlice(s)
    BY <1>1, <1>2 DEF IsSlice, Range
<1> QED
    BY <1>1, <1>2, <1>3 DEF IsSlice

-----------------------------------------------------------------------------
(* Flatten and Select *)

\* Slices of one length with the same elements are equal.
LEMMA SlicesEqual ==
    ASSUME NEW S, NEW s \in Seq(S), NEW t \in Seq(S),
           Len(s) = Len(t), \A i \in 1 .. Len(s) : s[i] = t[i]
    PROVE  s = t
OBVIOUS

\* A slice is a slice over its own elements.
LEMMA SliceOverRange ==
    ASSUME NEW S, NEW s \in Seq(S)
    PROVE  s \in Seq(Range(s))
BY DEF Range

\* append(s, t...) holds the elements of both.
LEMMA ConcatRange ==
    ASSUME NEW S, NEW s \in Seq(S), NEW t \in Seq(S)
    PROVE  Range(s \o t) = Range(s) \cup Range(t)
<1>1. ASSUME NEW x \in Range(s \o t) PROVE x \in Range(s) \cup Range(t)
    BY <1>1 DEF Range
<1>2. ASSUME NEW i \in DOMAIN s PROVE s[i] \in Range(s \o t)
  <2>1. i \in DOMAIN (s \o t) /\ (s \o t)[i] = s[i]
      OBVIOUS
  <2> QED
      BY Zenon, <2>1 DEF Range
<1>3. ASSUME NEW i \in DOMAIN t PROVE t[i] \in Range(s \o t)
  <2>1. Len(s) + i \in DOMAIN (s \o t) /\ (s \o t)[Len(s) + i] = t[i]
      OBVIOUS
  <2> QED
      BY Zenon, <2>1 DEF Range
<1> QED
    BY Zenon, <1>1, <1>2, <1>3 DEF Range

\* append(s, t...) is as long as both together.
LEMMA ConcatLen ==
    ASSUME NEW S, NEW s \in Seq(S), NEW t \in Seq(S)
    PROVE  s \o t \in Seq(S) /\ Len(s \o t) = Len(s) + Len(t)
OBVIOUS

\* Appending is associative, and appending nothing changes nothing.
LEMMA ConcatTwice ==
    ASSUME NEW S, NEW s \in Seq(S), NEW t \in Seq(S), NEW u \in Seq(S)
    PROVE  (s \o t) \o u = s \o (t \o u)
<1>1. PICK x : x = (s \o t) \o u
    BY Zenon
<1>2. PICK y : y = s \o (t \o u)
    BY Zenon
<1>3. x \in Seq(S) /\ y \in Seq(S) /\ Len(x) = Len(y)
    BY <1>1, <1>2
<1>4. \A i \in 1 .. Len(x) : x[i] = y[i]
    BY <1>1, <1>2
<1>5. x = y
    BY Zenon, <1>3, <1>4, SlicesEqual
<1> QED
    BY Zenon, <1>1, <1>2, <1>5

\* Nothing appended changes nothing.
LEMMA ConcatNothing ==
    ASSUME NEW S, NEW s \in Seq(S)
    PROVE  s \o << >> = s
OBVIOUS

\* The recursion that defines Flatten has a solution.
LEMMA FlattenDef ==
    ASSUME NEW ss, Len(ss) \in Nat
    PROVE  \E f : /\ f[0] = << >>
                  /\ \A i \in 1 .. Len(ss) : f[i] = f[i - 1] \o ss[i]
                  /\ Flatten(ss) = f[Len(ss)]
<1> DEFINE n == Len(ss)
           Fits(g, k) == g = [i \in 0 .. k |-> IF i = 0 THEN << >> ELSE g[i - 1] \o ss[i]]
           T == {k \in 0 .. n : \E g : Fits(g, k)}
<1>1. 0 \in T
  <2>1. Fits([i \in 0 .. 0 |-> << >>], 0)
      OBVIOUS
  <2>2. 0 \in 0 .. n
      OBVIOUS
  <2> QED
      BY Zenon, <2>1, <2>2
<1>2. ASSUME NEW k \in 0 .. n - 1, k \in T PROVE k + 1 \in T
  <2>1. PICK g : Fits(g, k)
      BY Zenon, <1>2
  <2> DEFINE h == [i \in 0 .. k + 1 |-> IF i <= k THEN g[i] ELSE g[k] \o ss[i]]
  <2>2. ASSUME NEW i \in 0 .. k + 1
        PROVE  h[i] = IF i = 0 THEN << >> ELSE h[i - 1] \o ss[i]
    <3>1. CASE i <= k
      <4>1. i \in 0 .. k /\ h[i] = g[i]
          BY <3>1
      <4>2. g[i] = IF i = 0 THEN << >> ELSE g[i - 1] \o ss[i]
          BY <2>1, <4>1
      <4>3. i # 0 => h[i - 1] = g[i - 1]
          BY <4>1
      <4> QED
          BY <4>1, <4>2, <4>3
    <3>2. CASE i = k + 1
      <4>1. h[i - 1] = g[k] /\ i # 0
          BY <3>2
      <4>2. ~(i <= k)
          BY <3>2
      <4>3. h[i] = g[k] \o ss[i]
          BY Zenon, <4>2
      <4> QED
          BY Zenon, <4>1, <4>3
    <3> QED
        BY <3>1, <3>2
  <2>3. Fits(h, k + 1)
      BY <2>2
  <2>4. k + 1 \in 0 .. n
      OBVIOUS
  <2> HIDE DEF h, Fits
  <2> QED
      BY <2>3, <2>4
<1>3. n \in T
  <2> HIDE DEF T
  <2>1. n \in Nat /\ n \in 0 .. n
      OBVIOUS
  <2> HIDE DEF n
  <2> QED
      BY Zenon, <1>1, <1>2, <2>1, InductionTo
<1> DEFINE f == CHOOSE g : Fits(g, n)
<1>4. Fits(f, n)
    BY Zenon, <1>3
<1>5. Flatten(ss) = f[n]
    BY Zenon DEF Flatten
<1> HIDE DEF f
<1>6. f[0] = << >> /\ \A i \in 1 .. n : f[i] = f[i - 1] \o ss[i]
    BY SMTT(30), <1>4
<1> QED
    BY Zenon, <1>5, <1>6

\* Flatten keeps exactly the elements of its sequences.
LEMMA FlattenRange ==
    ASSUME NEW S, NEW ss \in Seq(Seq(S))
    PROVE  /\ Flatten(ss) \in Seq(S)
           /\ \A x : x \in Range(Flatten(ss)) <=> \E i \in DOMAIN ss : x \in Range(ss[i])
<1> DEFINE n == Len(ss)
<1>0. n \in Nat /\ n \in 0 .. n /\ DOMAIN ss = 1 .. n
    OBVIOUS
<1>1. PICK f : /\ f[0] = << >>
               /\ \A i \in 1 .. n : f[i] = f[i - 1] \o ss[i]
               /\ Flatten(ss) = f[n]
    BY Zenon, <1>0, FlattenDef
<1> DEFINE Fits(k) == /\ f[k] \in Seq(S)
                      /\ \A x : x \in Range(f[k]) <=> \E i \in 1 .. k : x \in Range(ss[i])
           T == {k \in 0 .. n : Fits(k)}
<1>2. 0 \in T
  <2>1. 0 \in 0 .. n /\ \A i \in 1 .. 0 : FALSE
      OBVIOUS
  <2>2. << >> \in Seq(S) /\ \A x : x \notin Range(<< >>)
      BY DEF Range
  <2> QED
      BY Zenon, <1>1, <2>1, <2>2
<1>3. ASSUME NEW k \in 0 .. n - 1, k \in T PROVE k + 1 \in T
  <2>0. k + 1 \in 1 .. n /\ (k + 1) - 1 = k
      OBVIOUS
  <2>1. k + 1 \in 1 .. n /\ f[k + 1] = f[k] \o ss[k + 1]
      BY Zenon, <1>1, <2>0
  <2>2. f[k] \in Seq(S) /\ ss[k + 1] \in Seq(S)
      BY <1>3, <2>1
  <2>3. f[k + 1] \in Seq(S) /\ Range(f[k + 1]) = Range(f[k]) \cup Range(ss[k + 1])
      BY <2>1, <2>2, ConcatRange
  <2>4. \A i : i \in 1 .. k + 1 <=> i \in 1 .. k \/ i = k + 1
      OBVIOUS
  <2>5. Fits(k + 1)
      BY Zenon, <1>3, <2>3, <2>4
  <2> HIDE DEF Fits
  <2> QED
      BY <2>1, <2>5
<1>4. n \in T
  <2> HIDE DEF T, n
  <2> QED
      BY Zenon, <1>0, <1>2, <1>3, InductionTo
<1> QED
    BY Zenon, <1>0, <1>1, <1>4

\* Select keeps exactly the elements at the given indices.
LEMMA SelectRange ==
    ASSUME NEW s, IsSlice(s), NEW I
    PROVE  /\ IsSlice(Select(s, I))
           /\ \A x : x \in Range(Select(s, I)) <=> \E i \in DOMAIN s : i \in I /\ x = s[i]
<1>1. PICK ss : ss = [i \in DOMAIN s |-> IF i \in I THEN <<s[i]>> ELSE << >>]
    OBVIOUS
<1>2. PICK S : S = Range(s) /\ s \in Seq(S)
    BY Zenon DEF IsSlice
<1>3. ss \in Seq(Seq(S)) /\ DOMAIN ss = DOMAIN s
  <2>1. Len(s) \in Nat /\ ss = [i \in 1 .. Len(s) |-> ss[i]] /\ DOMAIN ss = DOMAIN s
      BY <1>1, <1>2
  <2>2. \A i \in 1 .. Len(s) : ss[i] \in Seq(S)
      BY <1>1, <1>2
  <2> QED
      BY Zenon, <2>1, <2>2, SliceOf
<1>4. \A i \in DOMAIN s : \A x : x \in Range(ss[i]) <=> i \in I /\ x = s[i]
    BY <1>1 DEF Range
<1>5. Select(s, I) = Flatten(ss)
    BY Zenon, <1>1 DEF Select
<1>6. Flatten(ss) \in Seq(S)
    BY Zenon, <1>3, FlattenRange
<1>7. \A x : x \in Range(Flatten(ss)) <=> \E i \in DOMAIN ss : x \in Range(ss[i])
    BY Zenon, <1>3, FlattenRange
<1>8. IsSlice(Select(s, I))
    BY Zenon, <1>5, <1>6, SliceOverRange DEF IsSlice
<1> QED
    BY Zenon, <1>3, <1>4, <1>5, <1>7, <1>8

\* Flatten of slices of the same lengths pairs the elements as the slices do.
LEMMA FlattenPairs ==
    ASSUME NEW S, NEW ss \in Seq(Seq(S)), NEW U, NEW tt \in Seq(Seq(U)), NEW R,
           Len(ss) = Len(tt),
           \A i \in 1 .. Len(ss) : Len(ss[i]) = Len(tt[i]) /\
               \A j \in 1 .. Len(ss[i]) : <<ss[i][j], tt[i][j]>> \in R
    PROVE  /\ Len(Flatten(ss)) = Len(Flatten(tt))
           /\ \A i \in 1 .. Len(Flatten(ss)) : <<Flatten(ss)[i], Flatten(tt)[i]>> \in R
<1> DEFINE n == Len(ss)
<1>0. n \in Nat /\ n \in 0 .. n /\ Len(tt) = n
    OBVIOUS
<1>1. PICK f : /\ f[0] = << >>
               /\ \A i \in 1 .. n : f[i] = f[i - 1] \o ss[i]
               /\ Flatten(ss) = f[n]
    BY Zenon, <1>0, FlattenDef
<1>2. PICK g : /\ g[0] = << >>
               /\ \A i \in 1 .. n : g[i] = g[i - 1] \o tt[i]
               /\ Flatten(tt) = g[n]
    BY Zenon, <1>0, FlattenDef
<1> DEFINE Fits(k) == /\ f[k] \in Seq(S) /\ g[k] \in Seq(U) /\ Len(f[k]) = Len(g[k])
                      /\ \A i \in 1 .. Len(f[k]) : <<f[k][i], g[k][i]>> \in R
           T == {k \in 0 .. n : Fits(k)}
<1>3. 0 \in T
  <2>1. 0 \in 0 .. n /\ << >> \in Seq(S) /\ << >> \in Seq(U) /\ \A i \in 1 .. Len(<< >>) : FALSE
      OBVIOUS
  <2> QED
      BY Zenon, <1>1, <1>2, <2>1
<1>4. ASSUME NEW k \in 0 .. n - 1, k \in T PROVE k + 1 \in T
  <2>0. k + 1 \in 1 .. n /\ (k + 1) - 1 = k /\ k + 1 \in 0 .. n
      OBVIOUS
  <2>1. f[k + 1] = f[k] \o ss[k + 1] /\ g[k + 1] = g[k] \o tt[k + 1]
      BY Zenon, <1>1, <1>2, <2>0
  <2>2. PICK a, b, x, y : a = f[k] /\ b = g[k] /\ x = ss[k + 1] /\ y = tt[k + 1]
      BY Zenon
  <2>3. /\ a \in Seq(S) /\ b \in Seq(U) /\ Len(a) = Len(b)
        /\ \A i \in 1 .. Len(a) : <<a[i], b[i]>> \in R
      BY Zenon, <1>4, <2>2
  <2>4. x \in Seq(S) /\ y \in Seq(U)
      BY <1>0, <2>0, <2>2
  <2>5. Len(x) = Len(y) /\ \A i \in 1 .. Len(x) : <<x[i], y[i]>> \in R
      BY Zenon, <2>0, <2>2
  <2>6. /\ a \o x \in Seq(S) /\ b \o y \in Seq(U) /\ Len(a \o x) = Len(b \o y)
        /\ \A i \in 1 .. Len(a \o x) : <<(a \o x)[i], (b \o y)[i]>> \in R
    <3>0. /\ a \in Seq(S) /\ b \in Seq(U) /\ x \in Seq(S) /\ y \in Seq(U)
          /\ Len(a) = Len(b) /\ Len(x) = Len(y)
        BY Zenon, <2>3, <2>4, <2>5
    <3>1. a \o x \in Seq(S) /\ b \o y \in Seq(U) /\ Len(a \o x) = Len(b \o y)
      <4>1. a \o x \in Seq(S) /\ Len(a \o x) = Len(a) + Len(x)
          BY Zenon, <3>0, ConcatLen
      <4>2. b \o y \in Seq(U) /\ Len(b \o y) = Len(b) + Len(y)
          BY Zenon, <3>0, ConcatLen
      <4> QED
          BY Zenon, <3>0, <4>1, <4>2
    <3>2. ASSUME NEW i \in 1 .. Len(a \o x) PROVE <<(a \o x)[i], (b \o y)[i]>> \in R
      <4>1. CASE i <= Len(a)
        <5>1. i \in 1 .. Len(a) /\ (a \o x)[i] = a[i] /\ (b \o y)[i] = b[i]
            BY ONLY <3>0, <3>2, <4>1
        <5> QED
            BY Zenon, <2>3, <5>1
      <4>2. CASE ~(i <= Len(a))
        <5>1. /\ i - Len(a) \in 1 .. Len(x)
              /\ (a \o x)[i] = x[i - Len(a)] /\ (b \o y)[i] = y[i - Len(a)]
            BY ONLY <3>0, <3>2, <4>2
        <5> QED
            BY Zenon, <2>5, <5>1
      <4> QED
          BY Zenon, <4>1, <4>2
    <3> QED
        BY Zenon, <3>1, <3>2
  <2>7. Fits(k + 1)
      BY Zenon, <2>1, <2>2, <2>6
  <2> HIDE DEF Fits
  <2> QED
      BY <2>0, <2>7
<1>5. n \in T
  <2> HIDE DEF T, n
  <2> QED
      BY Zenon, <1>0, <1>3, <1>4, InductionTo
<1> QED
    BY Zenon, <1>1, <1>2, <1>5

\* The last element of Flatten that is in P is in the last sequence that has one.
LEMMA FlattenLast ==
    ASSUME NEW S, NEW ss \in Seq(Seq(S)), NEW P,
           NEW l \in 1 .. Len(Flatten(ss)), Flatten(ss)[l] \in P,
           \A j \in 1 .. Len(Flatten(ss)) : l < j => Flatten(ss)[j] \notin P
    PROVE  \E m \in DOMAIN ss : /\ Flatten(ss)[l] \in Range(ss[m])
                                /\ \A h \in DOMAIN ss : m < h => Range(ss[h]) \cap P = {}
<1> DEFINE n == Len(ss)
<1>0. n \in Nat /\ n \in 0 .. n /\ DOMAIN ss = 1 .. n
    OBVIOUS
<1>1. PICK f : /\ f[0] = << >>
               /\ \A i \in 1 .. n : f[i] = f[i - 1] \o ss[i]
               /\ Flatten(ss) = f[n]
    BY Zenon, <1>0, FlattenDef
<1> DEFINE LastIn(s, i) == s[i] \in P /\ \A j \in 1 .. Len(s) : i < j => s[j] \notin P
           Found(x, k) == \E m \in 1 .. k : /\ x \in Range(ss[m])
                                            /\ \A h \in 1 .. k : m < h => Range(ss[h]) \cap P = {}
           Fits(k) == /\ f[k] \in Seq(S)
                      /\ \A i \in 1 .. Len(f[k]) : LastIn(f[k], i) => Found(f[k][i], k)
           T == {k \in 0 .. n : Fits(k)}
<1>2. 0 \in T
  <2>1. 0 \in 0 .. n /\ << >> \in Seq(S) /\ \A i \in 1 .. Len(<< >>) : FALSE
      OBVIOUS
  <2> QED
      BY Zenon, <1>1, <2>1
<1>3. ASSUME NEW k \in 0 .. n - 1, k \in T PROVE k + 1 \in T
  <2>0. k + 1 \in 1 .. n /\ (k + 1) - 1 = k /\ k + 1 \in 0 .. n /\ k \in Nat
      OBVIOUS
  <2>1. f[k + 1] = f[k] \o ss[k + 1]
      BY Zenon, <1>1, <2>0
  <2>2. PICK a, x : a = f[k] /\ x = ss[k + 1]
      BY Zenon
  <2>3. a \in Seq(S) /\ x \in Seq(S) /\ a \o x \in Seq(S)
    <3>1. a \in Seq(S)
        BY Zenon, <1>3, <2>2
    <3>2. x \in Seq(S)
        BY <2>0, <2>2
    <3> QED
        BY <3>1, <3>2
  <2>4. ASSUME NEW i \in 1 .. Len(a \o x), LastIn(a \o x, i) PROVE Found((a \o x)[i], k + 1)
    <3>1. CASE i <= Len(a)
      <4>1. /\ i \in 1 .. Len(a) /\ (a \o x)[i] = a[i]
            /\ \A j \in 1 .. Len(a) : j \in 1 .. Len(a \o x) /\ (a \o x)[j] = a[j]
          BY <2>3, <3>1
      <4>2. \A j \in 1 .. Len(x) : /\ Len(a) + j \in 1 .. Len(a \o x) /\ i < Len(a) + j
                                   /\ (a \o x)[Len(a) + j] = x[j]
          BY <2>3, <3>1
      <4>3. LastIn(a, i)
          BY Zenon, <2>4, <4>1
      <4>4. PICK m \in 1 .. k : /\ a[i] \in Range(ss[m])
                                /\ \A h \in 1 .. k : m < h => Range(ss[h]) \cap P = {}
          BY Zenon, <1>3, <2>2, <4>1, <4>3
      <4>5. \A j \in 1 .. Len(x) : x[j] \notin P
          BY Zenon, <2>4, <4>2
      <4>6. DOMAIN x = 1 .. Len(x)
          BY <2>3
      <4>7. Range(ss[k + 1]) \cap P = {}
          BY Zenon, <2>2, <4>5, <4>6 DEF Range
      <4>8. m \in 1 .. k + 1 /\ \A h \in 1 .. k + 1 : h \in 1 .. k \/ h = k + 1
          BY <2>0
      <4> QED
          BY Zenon, <4>1, <4>4, <4>7, <4>8
    <3>2. CASE ~(i <= Len(a))
      <4>1. i - Len(a) \in DOMAIN x /\ (a \o x)[i] = x[i - Len(a)]
          BY <2>3, <3>2
      <4>2. (a \o x)[i] \in Range(ss[k + 1])
          BY Zenon, <2>2, <4>1 DEF Range
      <4>3. k + 1 \in 1 .. k + 1 /\ \A h \in 1 .. k + 1 : ~(k + 1 < h)
          BY <2>0
      <4> QED
          BY Zenon, <4>2, <4>3
    <3> QED
        BY <3>1, <3>2
  <2>5. Fits(k + 1)
    <3> HIDE DEF LastIn, Found
    <3> QED
      BY Zenon, <2>1, <2>2, <2>3, <2>4
  <2> HIDE DEF Fits
  <2> QED
      BY <2>0, <2>5
<1>4. n \in T
  <2> HIDE DEF T, n
  <2> QED
      BY Zenon, <1>0, <1>2, <1>3, InductionTo
<1>5. Found(Flatten(ss)[l], n)
    BY Zenon, <1>1, <1>4
<1> QED
    BY Zenon, <1>0, <1>5

\* Select with all indices is the whole slice.
LEMMA SelectAll ==
    ASSUME NEW s, IsSlice(s), NEW I, DOMAIN s \subseteq I
    PROVE  Select(s, I) = s
<1>1. PICK ss : ss = [i \in DOMAIN s |-> IF i \in I THEN <<s[i]>> ELSE << >>]
    OBVIOUS
<1>2. PICK S : S = Range(s) /\ s \in Seq(S)
    BY Zenon DEF IsSlice
<1> DEFINE n == Len(s)
<1>3. n \in Nat /\ n \in 0 .. n /\ DOMAIN s = 1 .. n
    BY <1>2
<1>4. Len(ss) = n /\ \A i \in 1 .. n : ss[i] = <<s[i]>>
  <2>1. ss = [i \in 1 .. n |-> ss[i]] /\ \A i \in 1 .. n : ss[i] = <<s[i]>>
      BY <1>1, <1>3
  <2> QED
      BY Zenon, <1>3, <2>1, SliceOf
<1>5. PICK f : /\ f[0] = << >>
               /\ \A i \in 1 .. n : f[i] = f[i - 1] \o ss[i]
               /\ Flatten(ss) = f[n]
    BY Zenon, <1>3, <1>4, FlattenDef
<1> DEFINE Fits(k) == f[k] \in Seq(S) /\ Len(f[k]) = k /\ \A i \in 1 .. k : f[k][i] = s[i]
           T == {k \in 0 .. n : Fits(k)}
<1>6. 0 \in T
  <2>1. /\ 0 \in 0 .. n /\ << >> \in Seq(S) /\ Len(<< >>) = 0
        /\ \A i \in 1 .. 0 : FALSE
      BY <1>3
  <2> QED
      BY Zenon, <1>5, <2>1
<1>7. ASSUME NEW k \in 0 .. n - 1, k \in T PROVE k + 1 \in T
  <2>0. k + 1 \in 1 .. n /\ (k + 1) - 1 = k /\ k + 1 \in 0 .. n /\ k \in Nat
      BY <1>3
  <2>1. f[k + 1] = f[k] \o <<s[k + 1]>>
      BY Zenon, <1>4, <1>5, <2>0
  <2>2. PICK a, x : a = f[k] /\ x = s[k + 1]
      BY Zenon
  <2>3. a \in Seq(S) /\ Len(a) = k /\ (\A i \in 1 .. k : a[i] = s[i]) /\ x \in S
    <3>1. x \in S
        BY <1>2, <2>0, <2>2
    <3> QED
        BY Zenon, <1>7, <2>2, <3>1
  <2>4. /\ a \o <<x>> \in Seq(S) /\ Len(a \o <<x>>) = k + 1
        /\ \A i \in 1 .. k + 1 : (a \o <<x>>)[i] = s[i]
      BY ONLY <2>0, <2>2, <2>3
  <2>5. Fits(k + 1)
      BY Zenon, <2>1, <2>2, <2>4
  <2> HIDE DEF Fits
  <2> QED
      BY <2>0, <2>5
<1>8. n \in T
  <2> HIDE DEF T, n
  <2> QED
      BY Zenon, <1>3, <1>6, <1>7, InductionTo
<1>9. f[n] = s
  <2>1. f[n] \in Seq(S) /\ Len(f[n]) = Len(s) /\ \A i \in 1 .. Len(f[n]) : f[n][i] = s[i]
      BY Zenon, <1>8
  <2> QED
      BY Zenon, <1>2, <2>1, SlicesEqual
<1> QED
    BY Zenon, <1>1, <1>5, <1>9 DEF Select

-----------------------------------------------------------------------------
(* The loop of an Unmarshal function *)

\* A resource in ret is the one made of the last raw resource with its name.
LEMMA UnmarshalledFrom ==
    ASSUME NEW es, NEW k \in Nat, DOMAIN es = 1 .. k, NEW n \in DOMAIN Unmarshalled(es).ret
    PROVE  \E j \in DOMAIN es :
              /\ j = LastOf({i \in DOMAIN es : es[i].res # None /\ es[i].name = n})
              /\ \A i \in DOMAIN es : es[i].res # None /\ es[i].name = n => i <= j
              /\ es[j].res # None /\ es[j].name = n
              /\ Unmarshalled(es).ret[n] = es[j].res
<1> DEFINE kept == {i \in DOMAIN es : es[i].res # None}
           J == {i \in kept : es[i].name = n}
           I == {i \in DOMAIN es : es[i].res # None /\ es[i].name = n}
           ret == [m \in {es[i].name : i \in kept} |-> es[LastOf({i \in kept : es[i].name = m})].res]
<1>1. Unmarshalled(es).ret = ret
    BY DEF Unmarshalled
<1>2. I = J
    OBVIOUS
<1>3. n \in {es[i].name : i \in kept}
    BY <1>1
<1>4. I # {} /\ I \in SUBSET (1 .. k)
    BY <1>3
<1>5. ret[n] = es[LastOf(I)].res
    BY Zenon, <1>2, <1>3
<1>6. LastOf(I) \in I /\ \A i \in I : i <= LastOf(I)
  <2> HIDE DEF I
  <2> QED
    BY Zenon, <1>4, LastOfIn
<1> QED
    BY Zenon, <1>1, <1>5, <1>6

\* A resource in ret is made of a raw resource with its name.
LEMMA UnmarshalledOfOne ==
    ASSUME NEW es, NEW k \in Nat, DOMAIN es = 1 .. k, NEW n \in DOMAIN Unmarshalled(es).ret
    PROVE  \E j \in DOMAIN es :
              es[j].res # None /\ es[j].name = n /\ Unmarshalled(es).ret[n] = es[j].res
BY Zenon, UnmarshalledFrom

\* Every raw resource that makes one is in ret under its name.
LEMMA UnmarshalledAll ==
    ASSUME NEW es
    PROVE  /\ Unmarshalled(es).err <=> \E i \in DOMAIN es : es[i].err
           /\ \A n : n \in DOMAIN Unmarshalled(es).ret <=>
                     \E i \in DOMAIN es : es[i].res # None /\ es[i].name = n
BY DEF Unmarshalled, AnyErr

-----------------------------------------------------------------------------
(* Results of several conversions *)

\* Results keeps what has no error.
LEMMA ResultsRange ==
    ASSUME NEW rs, IsSlice(rs)
    PROVE  /\ IsSlice(Results(rs))
           /\ \A x : x \in Range(Results(rs)) <=> \E i \in DOMAIN rs : ~rs[i].err /\ x = rs[i].res
<1>1. PICK s : s = [i \in DOMAIN rs |-> rs[i].res]
    OBVIOUS
<1>2. PICK I : I = {i \in DOMAIN rs : ~rs[i].err}
    OBVIOUS
<1>3. Len(rs) \in Nat /\ s = [i \in 1 .. Len(rs) |-> s[i]] /\ DOMAIN s = DOMAIN rs
    BY <1>1, SliceDomain
<1>4. IsSlice(s)
    BY Zenon, <1>3, SliceOf
<1>5. Results(rs) = Select(s, I)
    BY Zenon, <1>1, <1>2 DEF Results
<1>6. IsSlice(Select(s, I))
    BY Zenon, <1>4, SelectRange
<1>7. \A x : x \in Range(Select(s, I)) <=> \E i \in DOMAIN s : i \in I /\ x = s[i]
    BY Zenon, <1>4, SelectRange
<1>8. \A i \in DOMAIN s : (i \in I <=> ~rs[i].err) /\ s[i] = rs[i].res
    BY Zenon, <1>1, <1>2
<1> QED
    BY <1>3, <1>5, <1>6, <1>7, <1>8

\* Without an error there is one result for each conversion.
LEMMA AllGoodResults ==
    ASSUME NEW rs, IsSlice(rs), ~AllGood(rs).err
    PROVE  /\ AllGood(rs).res = [i \in DOMAIN rs |-> rs[i].res]
           /\ \A i \in DOMAIN rs : ~rs[i].err
<1>1. ~AnyErr(rs)
    BY DEF AllGood, Bad
<1>2. \A i \in DOMAIN rs : ~rs[i].err
    BY Zenon, <1>1 DEF AnyErr
<1>3. PICK s : s = [i \in DOMAIN rs |-> rs[i].res]
    OBVIOUS
<1>4. Len(rs) \in Nat /\ s = [i \in 1 .. Len(rs) |-> s[i]] /\ DOMAIN s = DOMAIN rs
    BY <1>3, SliceDomain
<1>5. IsSlice(s)
    BY Zenon, <1>4, SliceOf
<1>6. PICK I : I = {i \in DOMAIN rs : ~rs[i].err}
    OBVIOUS
<1>7. DOMAIN s \subseteq I
    BY Zenon, <1>2, <1>4, <1>6
<1>8. Select(s, I) = s
    BY Zenon, <1>5, <1>7, SelectAll
<1>9. Results(rs) = s
    BY Zenon, <1>3, <1>6, <1>8 DEF Results
<1>10. AllGood(rs) = Good(Results(rs))
    BY Zenon, <1>1 DEF AllGood
<1>11. AllGood(rs).res = Results(rs)
    BY <1>10 DEF Good
<1> QED
    BY Zenon, <1>2, <1>3, <1>9, <1>11

\* The filters of a known type, one result each.
LEMMA FilterChainRange ==
    ASSUME NEW fc, IsSlice(fc.filters)
    PROVE  /\ IsSlice(unmarshalFilterChain(fc))
           /\ \A x : x \in Range(unmarshalFilterChain(fc)) <=>
                     \E f \in Range(fc.filters) :
                        f.type \in {"thrift", "http"} /\ x = unmarshalFilter(f, fc.port)
<1>0. PICK s, I : s = fc.filters /\ I = {i \in DOMAIN s : s[i].type \in {"thrift", "http"}}
    OBVIOUS
<1>1. PICK fs : fs = Select(s, I)
    OBVIOUS
<1>2. IsSlice(fs) /\ \A x : x \in Range(fs) <=> \E i \in DOMAIN s : i \in I /\ x = s[i]
  <2>1. IsSlice(s)
      BY <1>0
  <2> QED
      BY <1>1, <2>1, SelectRange
<1>3. \A x : x \in Range(fs) <=> x \in Range(s) /\ x.type \in {"thrift", "http"}
  <2>1. \A i \in DOMAIN s : i \in I <=> s[i].type \in {"thrift", "http"}
      BY Zenon, <1>0
  <2>2. \A x : x \in Range(s) <=> \E i \in DOMAIN s : x = s[i]
      BY Zenon DEF Range
  <2> QED
      BY Zenon, <1>2, <2>1, <2>2
<1>4. PICK rs : rs = [i \in DOMAIN fs |-> unmarshalFilter(fs[i], fc.port)]
    OBVIOUS
<1>5. unmarshalFilterChain(fc) = rs
    BY Zenon, <1>0, <1>1, <1>4 DEF unmarshalFilterChain
<1>6. Len(fs) \in Nat /\ rs = [i \in 1 .. Len(fs) |-> rs[i]]
    BY <1>2, <1>4, SliceDomain
<1>7. \A x : x \in Range(rs) <=> \E f \in Range(fs) : x = unmarshalFilter(f, fc.port)
    BY Zenon, <1>4 DEF Range
<1> QED
    BY Zenon, <1>0, <1>3, <1>5, <1>6, <1>7, SliceOf
=============================================================================
