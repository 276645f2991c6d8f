------------------------------ MODULE RouterProofs ------------------------------
(***************************************************************************)
(* Proofs about Router, for any listeners, route configs, calls, number of *)
(* updates and width of a word.                                            *)
(***************************************************************************)
EXTENDS Router, XdsResourceProofs, FiniteSetTheorems

-----------------------------------------------------------------------------
(* The sums of weights *)

\* A recursion over 0 .. n, with numbers as values, has a solution.
LEMMA Recursion ==
    ASSUME NEW n \in Nat, NEW h \in [(1 .. n) \X Nat -> Nat]
    PROVE  \E f \in [0 .. n -> Nat] : f[0] = 0 /\ \A i \in 1 .. n : f[i] = h[<<i, f[i - 1]>>]
<1> DEFINE Fits(g, k) == /\ g \in [0 .. k -> Nat]
                         /\ g[0] = 0
                         /\ \A i \in 1 .. k : g[i] = h[<<i, g[i - 1]>>]
           T == {k \in 0 .. n : \E g : Fits(g, k)}
<1>1. 0 \in T
  <2>1. Fits([i \in 0 .. 0 |-> 0], 0)
      OBVIOUS
  <2>2. 0 \in 0 .. n
      OBVIOUS
  <2> QED
      BY Zenon, <2>1, <2>2
<1>2. ASSUME NEW k \in 0 .. n - 1, k \in T PROVE k + 1 \in T
  <2>1. PICK g : Fits(g, k)
      BY Zenon, <1>2
  <2>2. PICK x : x = h[<<k + 1, g[k]>>]
      BY Zenon
  <2>3. x \in Nat
    <3>1. <<k + 1, g[k]>> \in (1 .. n) \X Nat
        BY <2>1
    <3> QED
        BY Zenon, <2>2, <3>1
  <2>4. PICK f : f = [i \in 0 .. k + 1 |-> IF i <= k THEN g[i] ELSE x]
      BY Zenon
  <2>5. f \in [0 .. k + 1 -> Nat] /\ f[0] = 0
      BY <2>1, <2>3, <2>4
  <2>6. ASSUME NEW i \in 1 .. k + 1 PROVE f[i] = h[<<i, f[i - 1]>>]
    <3>1. CASE i <= k
      <4>1. i \in 1 .. k /\ f[i] = g[i] /\ f[i - 1] = g[i - 1]
          BY <2>4, <3>1
      <4> QED
          BY Zenon, <2>1, <4>1
    <3>2. CASE i = k + 1
      <4>1. f[i] = x /\ f[i - 1] = g[k]
          BY <2>4, <3>2
      <4> QED
          BY Zenon, <2>2, <3>2, <4>1
    <3> QED
        BY <3>1, <3>2
  <2>7. k + 1 \in 0 .. n
      OBVIOUS
  <2> QED
      BY Zenon, <2>5, <2>6, <2>7
<1>3. n \in T
  <2>1. n \in 0 .. n
      OBVIOUS
  <2> HIDE DEF T
  <2> QED
      BY Zenon, <1>1, <1>2, <2>1, InductionTo
<1> QED
    BY Zenon, <1>3

\* Weighted clusters of a good route.
GoodClusters(wcs) == IsSlice(wcs) /\ \A wc \in Range(wcs) : wc.weight \in Nat

LEMMA ClusterWeights ==
    ASSUME NEW wcs, GoodClusters(wcs)
    PROVE  Len(wcs) \in Nat /\ DOMAIN wcs = 1 .. Len(wcs) /\ \A i \in 1 .. Len(wcs) : wcs[i].weight \in Nat
BY Zenon, SliceDomain DEF GoodClusters, Range

\* Weights adds up words.
LEMMA WeightsDef ==
    ASSUME NEW wcs, GoodClusters(wcs)
    PROVE  /\ Weights(wcs) \in [0 .. Len(wcs) -> Nat]
           /\ Weights(wcs)[0] = 0
           /\ \A i \in 1 .. Len(wcs) :
                 Weights(wcs)[i] = (Weights(wcs)[i - 1] + wcs[i].weight) % 2^WordBits
<1>1. PICK n, M : n = Len(wcs) /\ M = 2^WordBits
    BY Zenon
<1>2. n \in Nat /\ M \in Nat \ {0} /\ \A i \in 1 .. n : wcs[i].weight \in Nat
  <2>1. M \in Nat \ {0}
      BY <1>1, WordAssumption
  <2> QED
      BY Zenon, <1>1, <2>1, ClusterWeights
<1>3. PICK h : h = [p \in (1 .. n) \X Nat |-> (p[2] + wcs[p[1]].weight) % M]
    BY Zenon
<1>4. h \in [(1 .. n) \X Nat -> Nat]
    BY <1>2, <1>3
<1>5. PICK f \in [0 .. n -> Nat] : f[0] = 0 /\ \A i \in 1 .. n : f[i] = h[<<i, f[i - 1]>>]
    BY Zenon, <1>2, <1>4, Recursion
<1>6. ASSUME NEW i \in 1 .. n PROVE f[i] = (f[i - 1] + wcs[i].weight) % M
  <2>1. PICK x \in Nat : x = f[i - 1]
    <3>1. i - 1 \in 0 .. n
        BY <1>2
    <3> QED
        BY Zenon, <1>5, <3>1
  <2>2. h[<<i, x>>] = (x + wcs[i].weight) % M
      BY Zenon, <1>3
  <2> QED
      BY Zenon, <1>5, <2>1, <2>2
<1> DEFINE Sol(g) == g = [i \in 0 .. n |-> IF i = 0 THEN 0 ELSE (g[i - 1] + wcs[i].weight) % M]
<1>7. Sol(f)
    BY <1>2, <1>5, <1>6
<1>8. PICK W : W = CHOOSE g : Sol(g)
    BY Zenon
<1>9. Sol(W) /\ W = Weights(wcs)
  <2>1. Sol(W)
      BY Zenon, <1>7, <1>8
  <2>2. W = Weights(wcs)
      BY Zenon, <1>1, <1>8 DEF Weights
  <2> QED
      BY Zenon, <2>1, <2>2
<1>10. W[0] = 0 /\ \A i \in 1 .. n : W[i] = (W[i - 1] + wcs[i].weight) % M
    BY <1>2, <1>9
<1>11. DOMAIN W = 0 .. n /\ W = [i \in 0 .. n |-> W[i]]
    BY Zenon, <1>9
<1> HIDE DEF Sol
<1>12. \A i \in 0 .. n : W[i] \in Nat
  <2> DEFINE T == {i \in 0 .. n : W[i] \in Nat}
  <2>1. 0 \in T
      BY <1>2, <1>10
  <2>2. ASSUME NEW i \in 0 .. n - 1, i \in T PROVE i + 1 \in T
    <3>1. i + 1 \in 1 .. n /\ i + 1 \in 0 .. n /\ (i + 1) - 1 = i /\ W[i] \in Nat
        BY <1>2, <2>2
    <3>2. wcs[i + 1].weight \in Nat /\ W[i + 1] = (W[(i + 1) - 1] + wcs[i + 1].weight) % M
        BY Zenon, <1>2, <1>10, <3>1
    <3>3. W[i + 1] \in Nat
        BY <1>2, <3>1, <3>2
    <3> QED
        BY Zenon, <3>1, <3>3
  <2> HIDE DEF T
  <2>3. \A i \in 0 .. n : i \in T
      BY Zenon, <1>2, <2>1, <2>2, InductionTo
  <2> QED
      BY Zenon, <2>3 DEF T
<1>13. W \in [0 .. n -> Nat]
    BY Zenon, <1>11, <1>12
<1> QED
    BY Zenon, <1>1, <1>9, <1>10, <1>13

\* Sums adds up numbers, and never goes down.
LEMMA SumsDef ==
    ASSUME NEW wcs, GoodClusters(wcs)
    PROVE  /\ Sums(wcs) \in [0 .. Len(wcs) -> Nat]
           /\ Sums(wcs)[0] = 0
           /\ \A i \in 1 .. Len(wcs) : Sums(wcs)[i] = Sums(wcs)[i - 1] + wcs[i].weight
           /\ \A i, j \in 0 .. Len(wcs) : i <= j => Sums(wcs)[i] <= Sums(wcs)[j]
<1>1. PICK n : n = Len(wcs)
    BY Zenon
<1>2. n \in Nat /\ \A i \in 1 .. n : wcs[i].weight \in Nat
    BY Zenon, <1>1, ClusterWeights
<1>3. PICK h : h = [p \in (1 .. n) \X Nat |-> p[2] + wcs[p[1]].weight]
    BY Zenon
<1>4. h \in [(1 .. n) \X Nat -> Nat]
    BY <1>2, <1>3
<1>5. PICK f \in [0 .. n -> Nat] : f[0] = 0 /\ \A i \in 1 .. n : f[i] = h[<<i, f[i - 1]>>]
    BY Zenon, <1>2, <1>4, Recursion
<1>6. ASSUME NEW i \in 1 .. n PROVE f[i] = f[i - 1] + wcs[i].weight
  <2>1. PICK x \in Nat : x = f[i - 1]
    <3>1. i - 1 \in 0 .. n
        BY <1>2
    <3> QED
        BY Zenon, <1>5, <3>1
  <2>2. h[<<i, x>>] = x + wcs[i].weight
      BY Zenon, <1>3
  <2> QED
      BY Zenon, <1>5, <2>1, <2>2
<1> DEFINE Sol(g) == g = [i \in 0 .. n |-> IF i = 0 THEN 0 ELSE g[i - 1] + wcs[i].weight]
<1>7. Sol(f)
    BY <1>2, <1>5, <1>6
<1>8. PICK W : W = CHOOSE g : Sol(g)
    BY Zenon
<1>9. Sol(W) /\ W = Sums(wcs)
  <2>1. Sol(W)
      BY Zenon, <1>7, <1>8
  <2>2. W = Sums(wcs)
      BY Zenon, <1>1, <1>8 DEF Sums
  <2> QED
      BY Zenon, <2>1, <2>2
<1>10. W[0] = 0 /\ \A i \in 1 .. n : W[i] = W[i - 1] + wcs[i].weight
    BY <1>2, <1>9
<1>11. DOMAIN W = 0 .. n /\ W = [i \in 0 .. n |-> W[i]]
    BY Zenon, <1>9
<1> HIDE DEF Sol
<1>12. \A j \in 0 .. n : W[j] \in Nat /\ \A i \in 0 .. j : W[i] \in Nat /\ W[i] <= W[j]
  <2> DEFINE T == {j \in 0 .. n : W[j] \in Nat /\ \A i \in 0 .. j : W[i] \in Nat /\ W[i] <= W[j]}
  <2>1. 0 \in T
      BY <1>2, <1>10
  <2>2. ASSUME NEW j \in 0 .. n - 1, j \in T PROVE j + 1 \in T
    <3>1. j + 1 \in 1 .. n /\ j + 1 \in 0 .. n /\ (j + 1) - 1 = j /\ W[j] \in Nat
        BY <1>2, <2>2
    <3>2. wcs[j + 1].weight \in Nat /\ W[j + 1] = W[(j + 1) - 1] + wcs[j + 1].weight
        BY Zenon, <1>2, <1>10, <3>1
    <3>3. W[j + 1] \in Nat /\ W[j] <= W[j + 1] /\ W[j + 1] <= W[j + 1]
        BY <3>1, <3>2
    <3>4. ASSUME NEW i \in 0 .. j + 1 PROVE W[i] \in Nat /\ W[i] <= W[j + 1]
      <4>1. CASE i = j + 1
          BY Zenon, <3>3, <4>1
      <4>2. CASE i # j + 1
        <5>1. i \in 0 .. j
            BY <4>2
        <5>2. W[i] <= W[j] /\ W[i] \in Nat
            BY Zenon, <2>2, <5>1
        <5> QED
            BY <3>1, <3>3, <5>2
      <4> QED
          BY Zenon, <4>1, <4>2
    <3> QED
        BY Zenon, <3>1, <3>3, <3>4
  <2> HIDE DEF T
  <2>3. \A i \in 0 .. n : i \in T
      BY Zenon, <1>2, <2>1, <2>2, InductionTo
  <2> QED
      BY Zenon, <2>3 DEF T
<1>13. W \in [0 .. n -> Nat]
    BY Zenon, <1>11, <1>12
<1>14. \A i, j \in 0 .. n : i <= j => W[i] <= W[j]
  <2>1. \A i, j \in 0 .. n : i <= j => i \in 0 .. j
      OBVIOUS
  <2> QED
      BY Zenon, <1>12, <2>1
<1> QED
    BY Zenon, <1>1, <1>9, <1>10, <1>13, <1>14

\* Weights that add up to what an int32 can hold do not wrap.
LEMMA WeightsFit ==
    ASSUME NEW wcs, GoodClusters(wcs), SumFits(wcs)
    PROVE  \A i \in 0 .. Len(wcs) : Weights(wcs)[i] = Sums(wcs)[i]
<1>1. PICK n, M, W, S : n = Len(wcs) /\ M = 2^WordBits /\ W = Weights(wcs) /\ S = Sums(wcs)
    BY Zenon
<1>2. n \in Nat /\ \A i \in 1 .. n : wcs[i].weight \in Nat
    BY Zenon, <1>1, ClusterWeights
<1>3. W[0] = 0 /\ \A i \in 1 .. n : W[i] = (W[i - 1] + wcs[i].weight) % M
    BY Zenon, <1>1, WeightsDef
<1>4. /\ S \in [0 .. n -> Nat] /\ S[0] = 0
      /\ \A i \in 1 .. n : S[i] = S[i - 1] + wcs[i].weight
      /\ \A i, j \in 0 .. n : i <= j => S[i] <= S[j]
    BY Zenon, <1>1, SumsDef
<1>5. M \in Nat /\ S[n] < M
    BY <1>1, <1>2, <1>4, WordAssumption DEF SumFits
<1> DEFINE T == {i \in 0 .. n : W[i] = S[i]}
<1>6. 0 \in T
    BY <1>2, <1>3, <1>4
<1>7. ASSUME NEW i \in 0 .. n - 1, i \in T PROVE i + 1 \in T
  <2>1. i + 1 \in 1 .. n /\ i + 1 \in 0 .. n /\ n \in 0 .. n /\ (i + 1) - 1 = i /\ i + 1 <= n
      BY <1>2, <1>7
  <2>2. /\ W[i + 1] = (W[(i + 1) - 1] + wcs[i + 1].weight) % M
        /\ S[i + 1] = S[(i + 1) - 1] + wcs[i + 1].weight
        /\ W[i] = S[i]
      BY Zenon, <1>3, <1>4, <1>7, <2>1
  <2>3. W[i + 1] = S[i + 1] % M
      BY Zenon, <2>1, <2>2
  <2>4. S[i + 1] \in Nat /\ S[n] \in Nat /\ S[i + 1] <= S[n]
      BY Zenon, <1>4, <2>1
  <2>5. S[i + 1] % M = S[i + 1]
      BY <1>5, <2>4
  <2> QED
      BY Zenon, <2>1, <2>3, <2>5
<1> HIDE DEF T
<1>8. \A i \in 0 .. n : i \in T
    BY Zenon, <1>2, <1>6, <1>7, InductionTo
<1> QED
    BY Zenon, <1>1, <1>8 DEF T

\* The loop of pickCluster does not run past its end.
LEMMA PickFound ==
    ASSUME NEW wcs, GoodClusters(wcs), Len(wcs) > 1,
           NEW t \in Int31n(calTotalWeight(wcs))
    PROVE  pickIndex(wcs, t) \in DOMAIN wcs /\ pickIndex(wcs, t) # 0
<1>1. PICK n, W, total : n = Len(wcs) /\ W = Weights(wcs) /\ total = W[n]
    BY Zenon
<1>2. n \in Nat /\ DOMAIN wcs = 1 .. n /\ n > 1
    BY Zenon, <1>1, ClusterWeights
<1>3. total \in Nat
  <2>1. n \in 0 .. n
      BY <1>2
  <2> QED
      BY Zenon, <1>1, <2>1, WeightsDef
<1>4. t \in 0 .. total - 1
  <2>1. calTotalWeight(wcs) = total
      BY Zenon, <1>1 DEF calTotalWeight
  <2>2. t \in Int31n(total)
      BY Zenon, <2>1
  <2> QED
      BY Zenon, <2>2 DEF Int31n
<1>5. PICK I : I = {i \in DOMAIN wcs : W[i] >= t}
    BY Zenon
<1>6. n \in I
    BY <1>1, <1>2, <1>3, <1>4, <1>5
<1>7. I \in SUBSET (1 .. n) /\ I \in SUBSET Nat /\ I # {}
    BY <1>2, <1>5, <1>6
<1>8. FirstOf(I) \in I
    BY Zenon, <1>7, FirstOfIn
<1>9. pickIndex(wcs, t) = FirstOf(I)
    BY Zenon, <1>1, <1>5 DEF pickIndex
<1> QED
    BY <1>2, <1>5, <1>8, <1>9

\* A failing Int31n or an empty total means weights that do not fit.
LEMMA TotalFits ==
    ASSUME NEW wcs, GoodClusters(wcs), SumFits(wcs)
    PROVE  calTotalWeight(wcs) \in Nat \ {0} /\ Int31n(calTotalWeight(wcs)) # {}
<1>1. PICK n, H, total : n = Len(wcs) /\ H = 2^(WordBits - 1) /\ total = Sums(wcs)[n]
    BY Zenon
<1>2. n \in Nat /\ n \in 0 .. n
  <2>1. n \in Nat
      BY Zenon, <1>1, ClusterWeights
  <2> QED
      BY <2>1
<1>3. calTotalWeight(wcs) = total
    BY Zenon, <1>1, <1>2, WeightsFit DEF calTotalWeight
<1>4. total \in 1 .. H - 1 /\ H \in Nat
    BY Zenon, <1>1, WordAssumption DEF SumFits
<1>5. total \in Nat \ {0} /\ total < H /\ 0 \in 0 .. total - 1
    BY <1>4
<1>6. Int31n(total) = 0 .. total - 1
    BY Zenon, <1>1, <1>5 DEF Int31n
<1> QED
    BY Zenon, <1>3, <1>5, <1>6

\* The target weights for which pickCluster takes cluster i are those after the
\* sum before it up to the sum with it; 0 is the first cluster's.
LEMMA PickedFor ==
    ASSUME NEW wcs, GoodClusters(wcs), SumFits(wcs), NEW i \in 1 .. Len(wcs),
           NEW t \in Nat, t < Sums(wcs)[Len(wcs)]
    PROVE  pickIndex(wcs, t) = i <=> t <= Sums(wcs)[i] /\ (i = 1 \/ Sums(wcs)[i - 1] < t)
<1>1. PICK n, S : n = Len(wcs) /\ S = Sums(wcs)
    BY Zenon
<1>2. n \in Nat /\ DOMAIN wcs = 1 .. n /\ i \in 1 .. n
    BY Zenon, <1>1, ClusterWeights
<1>3. S \in [0 .. n -> Nat] /\ \A k, j \in 0 .. n : k <= j => S[k] <= S[j]
    BY Zenon, <1>1, SumsDef
<1>4. PICK I : I = {j \in 1 .. n : S[j] >= t}
    BY Zenon
<1>5. pickIndex(wcs, t) = FirstOf(I)
  <2>1. \A j \in 1 .. n : Weights(wcs)[j] = S[j]
    <3>1. \A j \in 1 .. n : j \in 0 .. n
        BY <1>2
    <3> QED
        BY Zenon, <1>1, <3>1, WeightsFit
  <2>2. {j \in DOMAIN wcs : Weights(wcs)[j] >= t} = I
      BY Zenon, <1>2, <1>4, <2>1
  <2> QED
      BY Zenon, <2>2 DEF pickIndex
<1>6. I \in SUBSET Nat /\ n \in I
    BY <1>1, <1>2, <1>3, <1>4
<1>7. PICK f : f = FirstOf(I) /\ f \in I /\ \A j \in I : f <= j
    BY Zenon, <1>6, FirstOfIn
<1>8. ASSUME f = i PROVE t <= S[i] /\ (i = 1 \/ S[i - 1] < t)
  <2>1. S[i] >= t /\ S[i] \in Nat
      BY <1>2, <1>3, <1>4, <1>7, <1>8
  <2>2. ASSUME i # 1 PROVE S[i - 1] < t
    <3>1. i - 1 \in 1 .. n /\ ~(i <= i - 1) /\ S[i - 1] \in Nat
        BY <1>2, <1>3, <2>2
    <3>2. i - 1 \notin I
        BY Zenon, <1>7, <1>8, <3>1
    <3> QED
        BY <1>4, <3>1, <3>2
  <2> QED
      BY Zenon, <2>1, <2>2
<1>9. ASSUME t <= S[i], i = 1 \/ S[i - 1] < t PROVE f = i
  <2>1. i \in I
      BY Zenon, <1>2, <1>3, <1>4, <1>9
  <2>2. f <= i /\ f \in 1 .. n /\ S[f] >= t
      BY Zenon, <1>4, <1>7, <2>1
  <2>3. ASSUME f < i PROVE FALSE
    <3>1. i # 1 /\ f <= i - 1 /\ f \in 0 .. n /\ i - 1 \in 0 .. n
        BY <1>2, <2>2, <2>3
    <3>2. S[f] <= S[i - 1] /\ S[f] \in Nat /\ S[i - 1] \in Nat /\ S[i - 1] < t
        BY Zenon, <1>3, <1>9, <3>1
    <3> QED
        BY <2>2, <3>2
  <2> QED
      BY <1>2, <2>2, <2>3
<1> QED
    BY Zenon, <1>1, <1>5, <1>7, <1>8, <1>9

\* So a cluster gets its weight to within one.
LEMMA ShareClose ==
    ASSUME NEW wcs, GoodClusters(wcs), SumFits(wcs), NEW i \in DOMAIN wcs
    PROVE  Share(wcs, i) <= wcs[i].weight + 1 /\ wcs[i].weight <= Share(wcs, i) + 1
<1>1. PICK n, S, w, total : n = Len(wcs) /\ S = Sums(wcs) /\ w = wcs[i].weight /\ total = S[n]
    BY Zenon
<1>2. n \in Nat /\ i \in 1 .. n /\ w \in Nat /\ n \in 0 .. n
  <2>1. n \in Nat /\ i \in 1 .. n /\ w \in Nat
      BY Zenon, <1>1, ClusterWeights
  <2> QED
      BY <2>1
<1>3. /\ S \in [0 .. n -> Nat] /\ S[0] = 0 /\ S[i] = S[i - 1] + w
      /\ \A k, j \in 0 .. n : k <= j => S[k] <= S[j]
    BY Zenon, <1>1, <1>2, SumsDef
<1>4. PICK a, b : a = S[i - 1] /\ b = S[i]
    BY Zenon
<1>5. /\ a \in Nat /\ b \in Nat /\ total \in Nat /\ b = a + w /\ b <= total
      /\ i = 1 => a = 0
    BY <1>1, <1>2, <1>3, <1>4
<1>6. Int31n(calTotalWeight(wcs)) = 0 .. total - 1 /\ total > 0
  <2>1. total \in 1 .. 2^(WordBits - 1) - 1 /\ 2^(WordBits - 1) \in Nat
      BY Zenon, <1>1, WordAssumption DEF SumFits
  <2>2. total > 0 /\ total < 2^(WordBits - 1)
      BY <2>1
  <2>3. calTotalWeight(wcs) = total
      BY Zenon, <1>1, <1>2, WeightsFit DEF calTotalWeight
  <2>4. Int31n(total) = 0 .. total - 1
      BY Zenon, <2>2 DEF Int31n
  <2> QED
      BY Zenon, <2>2, <2>3, <2>4
<1>7. PICK lo \in Int, hi \in Int : /\ lo = IF i = 1 THEN 0 ELSE a + 1
                                   /\ hi = IF b <= total - 1 THEN b ELSE total - 1
    BY <1>5
<1>8. {t \in Int31n(calTotalWeight(wcs)) : pickIndex(wcs, t) = i} = lo .. hi
  <2>1. ASSUME NEW t \in 0 .. total - 1
        PROVE  pickIndex(wcs, t) = i <=> t <= b /\ (i = 1 \/ a < t)
    <3>1. t \in Nat /\ t < total
        BY <1>5
    <3>2. t < Sums(wcs)[Len(wcs)] /\ i \in 1 .. Len(wcs)
        BY Zenon, <1>1, <1>2, <3>1
    <3>3. pickIndex(wcs, t) = i <=> t <= Sums(wcs)[i] /\ (i = 1 \/ Sums(wcs)[i - 1] < t)
        BY ONLY Zenon, GoodClusters(wcs), SumFits(wcs), <3>1, <3>2, PickedFor
    <3> QED
        BY Zenon, <1>1, <1>4, <3>3
  <2>2. {t \in 0 .. total - 1 : pickIndex(wcs, t) = i}
          = {t \in 0 .. total - 1 : t <= b /\ (i = 1 \/ a < t)}
      BY Zenon, <2>1
  <2>3. {t \in 0 .. total - 1 : t <= b /\ (i = 1 \/ a < t)} = lo .. hi
      BY <1>5, <1>7
  <2> QED
      BY Zenon, <1>6, <2>2, <2>3
<1>9. Share(wcs, i) = IF lo > hi THEN 0 ELSE hi - lo + 1
    BY Zenon, <1>8, FS_Interval DEF Share
<1>10. PICK s : s = Share(wcs, i) /\ s = IF lo > hi THEN 0 ELSE hi - lo + 1
    BY Zenon, <1>9
<1>11. s <= w + 1 /\ w <= s + 1
  <2>1. CASE i = 1
      BY ONLY <1>2, <1>5, <1>6, <1>7, <1>10, <2>1
  <2>2. CASE i # 1
      BY ONLY <1>2, <1>5, <1>6, <1>7, <1>10, <2>2
  <2> QED
      BY Zenon, <2>1, <2>2
<1> QED
    BY Zenon, <1>1, <1>10, <1>11

-----------------------------------------------------------------------------
(* The best route *)

GoodRoutes(rs) == IsSlice(rs) /\ \A r \in Range(rs) : GoodRoute(r)

\* The indices of a slice.
LEMMA Indices ==
    ASSUME NEW s, IsSlice(s), NEW I \in SUBSET DOMAIN s
    PROVE  /\ Len(s) \in Nat /\ I \in SUBSET (1 .. Len(s)) /\ I \in SUBSET Nat
           /\ I # {} => /\ FirstOf(I) \in I /\ FirstOf(I) \in 1 .. Len(s) /\ FirstOf(I) # 0
                        /\ \A j \in I : FirstOf(I) <= j
           /\ I = {} => FirstOf(I) = 0
<1>1. Len(s) \in Nat /\ DOMAIN s = 1 .. Len(s)
    BY Zenon, SliceDomain
<1>2. I \in SUBSET (1 .. Len(s)) /\ I \in SUBSET Nat
    BY <1>1
<1>3. ASSUME I # {}
      PROVE  FirstOf(I) \in I /\ FirstOf(I) \in 1 .. Len(s) /\ \A j \in I : FirstOf(I) <= j
    BY Zenon, <1>2, <1>3, FirstOfIn
<1>4. FirstOf(I) \in 1 .. Len(s) => FirstOf(I) # 0
    BY <1>1
<1> QED
    BY Zenon, <1>1, <1>2, <1>3, <1>4 DEF FirstOf

\* The first match is a good route, and there is none only without a match.
LEMMA FirstMatch ==
    ASSUME NEW rs, GoodRoutes(rs), NEW I \in SUBSET DOMAIN rs
    PROVE  /\ I = {} => ElementAt(rs, FirstOf(I)) = None
           /\ I # {} => ElementAt(rs, FirstOf(I)) # None /\ GoodRoute(ElementAt(rs, FirstOf(I)))
<1>1. IsSlice(rs)
    BY Zenon DEF GoodRoutes
<1>2. I = {} => FirstOf(I) = 0
    BY Zenon, <1>1, Indices
<1>3. ASSUME I # {} PROVE FirstOf(I) # 0 /\ FirstOf(I) \in DOMAIN rs
    BY Zenon, <1>1, <1>3, Indices
<1>4. ASSUME I # {} PROVE ElementAt(rs, FirstOf(I)) = rs[FirstOf(I)] /\ GoodRoute(rs[FirstOf(I)])
    BY Zenon, <1>3, <1>4 DEF ElementAt, GoodRoutes, Range
<1> QED
    BY Zenon, <1>2, <1>4 DEF ElementAt, GoodRoute

\* Concatenation keeps slices, elements and good routes.
LEMMA ConcatRoutes ==
    ASSUME NEW s, NEW t, GoodRoutes(s), GoodRoutes(t), NEW u, u = s \o t, NEW n, n = Len(s)
    PROVE  /\ GoodRoutes(u) /\ n \in Nat /\ Len(t) \in Nat
           /\ DOMAIN s = 1 .. n /\ DOMAIN t = 1 .. Len(t) /\ DOMAIN u = 1 .. n + Len(t)
           /\ \A i \in 1 .. n : u[i] = s[i]
           /\ \A i \in 1 .. Len(t) : u[n + i] = t[i]
<1>1. PICK S : S = Range(s) \cup Range(t)
    BY Zenon
<1>2. /\ Len(s) \in Nat /\ DOMAIN s = 1 .. Len(s) /\ s = [i \in 1 .. Len(s) |-> s[i]]
      /\ Len(t) \in Nat /\ DOMAIN t = 1 .. Len(t) /\ t = [i \in 1 .. Len(t) |-> t[i]]
    BY Zenon, SliceDomain DEF GoodRoutes
<1>3. s \in Seq(S)
  <2>1. \A i \in 1 .. Len(s) : s[i] \in S
      BY Zenon, <1>1, <1>2 DEF Range
  <2> QED
      BY Zenon, <1>2, <2>1, SliceOf
<1>4. t \in Seq(S)
  <2>1. \A i \in 1 .. Len(t) : t[i] \in S
      BY Zenon, <1>1, <1>2 DEF Range
  <2> QED
      BY Zenon, <1>2, <2>1, SliceOf
<1>6. /\ u \in Seq(S) /\ Len(u) = Len(s) + Len(t) /\ DOMAIN u = 1 .. Len(s) + Len(t)
      /\ \A i \in 1 .. Len(s) : u[i] = s[i]
      /\ \A i \in 1 .. Len(t) : u[Len(s) + i] = t[i]
    BY <1>2, <1>3, <1>4
<1>7. IsSlice(u) /\ Range(u) \subseteq S
    BY ONLY <1>6 DEF IsSlice, Range
<1>8. \A r \in Range(u) : GoodRoute(r)
    BY Zenon, <1>1, <1>7 DEF GoodRoutes
<1> QED
    BY Zenon, <1>2, <1>6, <1>7, <1>8 DEF GoodRoutes

\* The first match in a concatenation is the first in its first part, if any.
LEMMA FirstOfConcat ==
    ASSUME NEW s, NEW t, GoodRoutes(s), GoodRoutes(t),
           NEW I \in SUBSET DOMAIN s, NEW J \in SUBSET DOMAIN t
    PROVE  ElementAt(s \o t, FirstOf(I \cup {Len(s) + j : j \in J}))
             = IF I # {} THEN ElementAt(s, FirstOf(I)) ELSE ElementAt(t, FirstOf(J))
<1>1. PICK u, n : u = s \o t /\ n = Len(s)
    BY Zenon
<1>2. /\ n \in Nat /\ Len(t) \in Nat
      /\ DOMAIN s = 1 .. n /\ DOMAIN t = 1 .. Len(t) /\ DOMAIN u = 1 .. n + Len(t)
      /\ \A i \in 1 .. n : u[i] = s[i]
      /\ \A i \in 1 .. Len(t) : u[n + i] = t[i]
    BY ONLY GoodRoutes(s), GoodRoutes(t), <1>1, ConcatRoutes
<1>a. GoodRoutes(u)
    BY ONLY Zenon, GoodRoutes(s), GoodRoutes(t), <1>1, ConcatRoutes
<1>3. PICK K : K = I \cup {n + j : j \in J}
    BY Zenon
<1>4. K \in SUBSET DOMAIN u
    BY <1>2, <1>3
<1>5. CASE I # {}
  <2>1. PICK k : k = FirstOf(K) /\ k \in K /\ k # 0 /\ \A j \in K : k <= j
    <3>1. K # {} /\ IsSlice(u)
        BY Zenon, <1>a, <1>3, <1>5 DEF GoodRoutes
    <3> QED
        BY Zenon, <1>4, <3>1, Indices
  <2>2. PICK i : i = FirstOf(I) /\ i \in I /\ i \in 1 .. n /\ i # 0 /\ \A j \in I : i <= j
    <3>1. IsSlice(s)
        BY Zenon DEF GoodRoutes
    <3> QED
        BY Zenon, <1>1, <1>5, <3>1, Indices
  <2>3. k = i
    <3>1. k <= i /\ k \in Nat /\ i \in Nat
        BY <1>2, <1>3, <1>4, <2>1, <2>2
    <3>2. k \in I
        BY <1>2, <1>3, <2>1, <2>2, <3>1
    <3> QED
        BY <2>2, <3>1, <3>2
  <2>4. ElementAt(u, k) = s[i] /\ ElementAt(s, i) = s[i]
      BY Zenon, <1>2, <2>2, <2>3 DEF ElementAt
  <2> QED
      BY Zenon, <1>1, <1>3, <1>5, <2>1, <2>2, <2>4
<1>6. CASE I = {} /\ J # {}
  <2>1. PICK k : k = FirstOf(K) /\ k \in K /\ k # 0 /\ \A j \in K : k <= j
    <3>1. K # {} /\ IsSlice(u)
        BY Zenon, <1>a, <1>3, <1>6 DEF GoodRoutes
    <3> QED
        BY Zenon, <1>4, <3>1, Indices
  <2>2. PICK i : i = FirstOf(J) /\ i \in J /\ i \in 1 .. Len(t) /\ i # 0 /\ \A j \in J : i <= j
    <3>1. IsSlice(t)
        BY Zenon DEF GoodRoutes
    <3> QED
        BY Zenon, <1>6, <3>1, Indices
  <2>3. k = n + i
    <3>1. PICK j \in J : k = n + j
        BY Zenon, <1>3, <1>6, <2>1
    <3>2. n + i \in K
        BY Zenon, <1>3, <2>2
    <3>3. i <= j /\ k <= n + i
        BY Zenon, <2>1, <2>2, <3>2
    <3> QED
        BY <1>2, <2>2, <3>1, <3>3
  <2>4. ElementAt(u, k) = t[i] /\ ElementAt(t, i) = t[i]
      BY Zenon, <1>2, <2>1, <2>2, <2>3 DEF ElementAt
  <2> QED
      BY Zenon, <1>1, <1>3, <1>6, <2>1, <2>2, <2>4
<1>7. CASE I = {} /\ J = {}
  <2>1. K = {}
      BY Zenon, <1>3, <1>7
  <2>2. FirstOf(K) = 0 /\ FirstOf(J) = 0
      BY Zenon, <1>7, <2>1 DEF FirstOf
  <2>3. ElementAt(u, 0) = None /\ ElementAt(t, 0) = None
      BY Zenon DEF ElementAt
  <2> QED
      BY Zenon, <1>1, <1>3, <1>7, <2>2, <2>3
<1> QED
    BY Zenon, <1>5, <1>6, <1>7

\* The matches of a concatenation.
LEMMA MatchesConcat ==
    ASSUME NEW c, NEW s, NEW t, GoodRoutes(s), GoodRoutes(t)
    PROVE  HTTPMatches(c, s \o t)
             = HTTPMatches(c, s) \cup {Len(s) + j : j \in HTTPMatches(c, t)}
<1>1. PICK u, n : u = s \o t /\ n = Len(s)
    BY Zenon
<1>2. /\ n \in Nat /\ Len(t) \in Nat
      /\ DOMAIN s = 1 .. n /\ DOMAIN t = 1 .. Len(t) /\ DOMAIN u = 1 .. n + Len(t)
      /\ \A i \in 1 .. n : u[i] = s[i]
      /\ \A i \in 1 .. Len(t) : u[n + i] = t[i]
    BY ONLY GoodRoutes(s), GoodRoutes(t), <1>1, ConcatRoutes
<1>3. ASSUME NEW k \in HTTPMatches(c, u)
      PROVE  k \in HTTPMatches(c, s) \/ \E j \in HTTPMatches(c, t) : k = n + j
  <2>1. k \in 1 .. n + Len(t) /\ HTTPRouteMatched(c, u[k])
      BY Zenon, <1>2 DEF HTTPMatches
  <2>2. CASE k \in 1 .. n
      BY Zenon, <1>2, <2>1, <2>2 DEF HTTPMatches
  <2>3. CASE k \notin 1 .. n
    <3>1. PICK j \in 1 .. Len(t) : k = n + j
      <4>1. k - n \in 1 .. Len(t) /\ k = n + (k - n)
          BY <1>2, <2>1, <2>3
      <4> QED
          BY Zenon, <4>1
    <3> QED
        BY Zenon, <1>2, <2>1, <3>1 DEF HTTPMatches
  <2> QED
      BY Zenon, <2>2, <2>3
<1>4. ASSUME NEW k \in HTTPMatches(c, s) PROVE k \in HTTPMatches(c, u)
  <2>1. k \in 1 .. n /\ HTTPRouteMatched(c, u[k])
      BY Zenon, <1>2 DEF HTTPMatches
  <2>2. k \in 1 .. n + Len(t)
      BY <1>2, <2>1
  <2> QED
      BY Zenon, <1>2, <2>1, <2>2 DEF HTTPMatches
<1>5. ASSUME NEW j \in HTTPMatches(c, t) PROVE n + j \in HTTPMatches(c, u)
  <2>1. j \in 1 .. Len(t) /\ HTTPRouteMatched(c, u[n + j])
      BY Zenon, <1>2 DEF HTTPMatches
  <2>2. n + j \in 1 .. n + Len(t)
      BY <1>2, <2>1
  <2> QED
      BY Zenon, <1>2, <2>1, <2>2 DEF HTTPMatches
<1> QED
    BY Zenon, <1>1, <1>3, <1>4, <1>5

\* A network filter is one of the listener's.
LEMMA FilterOf ==
    ASSUME NEW l \in Listeners, NEW type, NetworkFilter(l, type) # None
    PROVE  NetworkFilter(l, type) \in Range(l) /\ NetworkFilter(l, type).type = type
<1>1. PICK I : I = {i \in DOMAIN l : l[i].type = type}
    BY Zenon
<1>2. NetworkFilter(l, type) = ElementAt(l, LastOf(I))
    BY Zenon, <1>1 DEF NetworkFilter
<1>3. LastOf(I) # 0
    BY Zenon, <1>2 DEF ElementAt
<1>4. I # {}
    BY Zenon, <1>3 DEF LastOf
<1>5. Len(l) \in Nat /\ I \in SUBSET (1 .. Len(l))
    BY Zenon, <1>1, RoutesAssumption, SliceDomain
<1>6. LastOf(I) \in I
    BY Zenon, <1>4, <1>5, LastOfIn
<1> QED
    BY Zenon, <1>1, <1>2, <1>3, <1>6 DEF ElementAt, Range

\* The routes of all virtual hosts are good ones.
LEMMA HostRoutes ==
    ASSUME NEW cfg, GoodConfig(cfg), cfg.http # None
    PROVE  GoodRoutes(Flatten(cfg.http))
<1>1. PICK hosts : hosts = cfg.http
    BY Zenon
<1>2. IsSlice(hosts) /\ \A rs \in Range(hosts) : IsSlice(rs) /\ \A r \in Range(rs) : GoodRoute(r)
    BY Zenon, <1>1 DEF GoodConfig
<1>3. Len(hosts) \in Nat /\ DOMAIN hosts = 1 .. Len(hosts) /\ hosts = [i \in 1 .. Len(hosts) |-> hosts[i]]
    BY Zenon, <1>2, SliceDomain
<1>4. PICK S : S = {r \in UNION {Range(rs) : rs \in Range(hosts)} : GoodRoute(r)}
    BY Zenon
<1>5. ASSUME NEW i \in 1 .. Len(hosts) PROVE hosts[i] \in Seq(S)
  <2>1. PICK rs \in Range(hosts) : rs = hosts[i]
      BY Zenon, <1>3 DEF Range
  <2>2. IsSlice(rs) /\ \A r \in Range(rs) : r \in S
      BY Zenon, <1>2, <1>4
  <2>3. Len(rs) \in Nat /\ rs = [k \in 1 .. Len(rs) |-> rs[k]] /\ DOMAIN rs = 1 .. Len(rs)
      BY Zenon, <2>2, SliceDomain
  <2>4. \A k \in 1 .. Len(rs) : rs[k] \in S
      BY Zenon, <2>2, <2>3 DEF Range
  <2> QED
      BY Zenon, <2>1, <2>3, <2>4, SliceOf
<1>6. hosts \in Seq(Seq(S))
    BY Zenon, <1>3, <1>5, SliceOf
<1>7. Flatten(hosts) \in Seq(S)
    BY Zenon, <1>6, FlattenRange
<1>8. IsSlice(Flatten(hosts)) /\ Range(Flatten(hosts)) \subseteq S
    BY <1>7 DEF IsSlice, Range
<1> QED
    BY Zenon, <1>1, <1>4, <1>8 DEF GoodRoutes

ConfigsTyped(rcs) ==
    \A n \in DOMAIN RouteConfigs : rcs[n] \in RouteConfigs[n] \cup {None, Nil}

\* What the listener gives is best; if it gives nothing, the route config's is.
LEMMA BestIs ==
    ASSUME NEW c, NEW l \in Listeners, l \notin {None, Nil}, NEW rcs, ConfigsTyped(rcs)
    PROVE  /\ InlineRoute(c, l) # None => BestRoute(c, l, rcs) = InlineRoute(c, l)
           /\ InlineRoute(c, l) = None /\ NetworkFilter(l, "http") = None => BestRoute(c, l, rcs) = None
           /\ InlineRoute(c, l) = None /\ NetworkFilter(l, "http") # None =>
                 LET rcfg == rcs[NetworkFilter(l, "http").name]
                 IN  BestRoute(c, l, rcs) = IF rcfg \in {None, Nil} THEN None ELSE matchHTTPRoute(c, rcfg)
           /\ BestRoute(c, l, rcs) # None => GoodRoute(BestRoute(c, l, rcs))
<1>1. PICK thrift, http : thrift = NetworkFilter(l, "thrift") /\ http = NetworkFilter(l, "http")
    BY Zenon
<1>2. PICK ts : ts = IF c.grpc \/ thrift = None THEN <<>> ELSE ThriftRoutes(thrift.inline)
    BY Zenon
<1>3. PICK hi : hi = IF http = None THEN <<>> ELSE HTTPRoutes(http.inline)
    BY Zenon
<1>4. PICK hr : hr = IF http = None THEN <<>> ELSE HTTPRoutes(rcs[http.name])
    BY Zenon
<1>5. GoodRoutes(<<>>)
    BY DEF GoodRoutes, IsSlice, Range
<1>6. GoodRoutes(ts)
  <2>1. ASSUME thrift # None, thrift.inline # None, thrift.inline.thrift # None
        PROVE  GoodRoutes(thrift.inline.thrift)
    <3>1. GoodConfig(thrift.inline)
        BY Zenon, <1>1, <2>1, FilterOf, RoutesAssumption
    <3> QED
        BY Zenon, <2>1, <3>1 DEF GoodConfig, GoodRoutes
  <2> QED
      BY Zenon, <1>2, <1>5, <2>1 DEF ThriftRoutes
<1>7. GoodRoutes(hi) /\ (http # None => http.inline # Nil)
  <2>1. ASSUME http # None PROVE http.inline # Nil
      BY Zenon, <1>1, <2>1, FilterOf, RoutesAssumption
  <2>2. ASSUME http # None, http.inline # None, http.inline.http # None
        PROVE  GoodRoutes(Flatten(http.inline.http))
    <3>1. GoodConfig(http.inline)
        BY Zenon, <1>1, <2>2, FilterOf, RoutesAssumption
    <3> QED
        BY Zenon, <2>2, <3>1, HostRoutes
  <2> QED
      BY Zenon, <1>3, <1>5, <2>1, <2>2 DEF HTTPRoutes
<1>8. GoodRoutes(hr)
  <2>1. ASSUME http # None, rcs[http.name] \notin {None, Nil}, rcs[http.name].http # None
        PROVE  GoodRoutes(Flatten(rcs[http.name].http))
    <3>1. GoodConfig(rcs[http.name])
        BY Zenon, <1>1, <2>1, FilterOf, RoutesAssumption DEF ConfigsTyped
    <3> QED
        BY Zenon, <2>1, <3>1, HostRoutes
  <2> QED
      BY Zenon, <1>4, <1>5, <2>1 DEF HTTPRoutes
<1>9. PICK hs : hs = hi \o hr
    BY Zenon
<1>10. BestRoute(c, l, rcs) = ElementAt(ts \o hs, FirstOf(ThriftMatches(c, ts)
                                                  \cup {Len(ts) + i : i \in HTTPMatches(c, hs)}))
  <2>1. http = None => hs = <<>>
    <3>1. <<>> \o <<>> = <<>>
        OBVIOUS
    <3> QED
        BY Zenon, <1>3, <1>4, <1>9, <3>1
  <2>2. hs = IF http = None THEN <<>> ELSE HTTPRoutes(http.inline) \o HTTPRoutes(rcs[http.name])
      BY Zenon, <1>3, <1>4, <1>9, <2>1
  <2> QED
      BY Zenon, <1>1, <1>2, <2>2 DEF BestRoute
<1>11. PICK tr, ir, rr : /\ tr = ElementAt(ts, FirstOf(ThriftMatches(c, ts)))
                         /\ ir = ElementAt(hi, FirstOf(HTTPMatches(c, hi)))
                         /\ rr = ElementAt(hr, FirstOf(HTTPMatches(c, hr)))
    BY Zenon
<1>12. /\ ThriftMatches(c, ts) \in SUBSET DOMAIN ts
       /\ HTTPMatches(c, hi) \in SUBSET DOMAIN hi
       /\ HTTPMatches(c, hr) \in SUBSET DOMAIN hr
       /\ HTTPMatches(c, hs) \in SUBSET DOMAIN hs
    BY Zenon DEF ThriftMatches, HTTPMatches
<1>13. /\ tr = None <=> ThriftMatches(c, ts) = {}
       /\ ir = None <=> HTTPMatches(c, hi) = {}
       /\ tr # None => GoodRoute(tr)
       /\ ir # None => GoodRoute(ir)
       /\ rr # None => GoodRoute(rr)
    BY Zenon, <1>6, <1>7, <1>8, <1>11, <1>12, FirstMatch
<1>14. GoodRoutes(hs)
    BY ONLY Zenon, <1>7, <1>8, <1>9, ConcatRoutes
<1>15. BestRoute(c, l, rcs) = IF tr # None THEN tr ELSE ElementAt(hs, FirstOf(HTTPMatches(c, hs)))
  <2>1. BestRoute(c, l, rcs) = IF ThriftMatches(c, ts) # {} THEN ElementAt(ts, FirstOf(ThriftMatches(c, ts)))
                               ELSE ElementAt(hs, FirstOf(HTTPMatches(c, hs)))
    <3>1. PICK I, J : I = ThriftMatches(c, ts) /\ J = HTTPMatches(c, hs)
        BY Zenon
    <3>2. I \in SUBSET DOMAIN ts /\ J \in SUBSET DOMAIN hs
        BY Zenon, <1>12, <3>1
    <3>3. ElementAt(ts \o hs, FirstOf(I \cup {Len(ts) + j : j \in J}))
            = IF I # {} THEN ElementAt(ts, FirstOf(I)) ELSE ElementAt(hs, FirstOf(J))
        BY ONLY <1>6, <1>14, <3>2, FirstOfConcat
    <3> QED
        BY Zenon, <1>10, <3>1, <3>3
  <2> QED
      BY Zenon, <1>11, <1>13, <2>1
<1>16. ElementAt(hs, FirstOf(HTTPMatches(c, hs))) = IF ir # None THEN ir ELSE rr
  <2>1. HTTPMatches(c, hs) = HTTPMatches(c, hi) \cup {Len(hi) + j : j \in HTTPMatches(c, hr)}
    <3>1. HTTPMatches(c, hi \o hr) = HTTPMatches(c, hi) \cup {Len(hi) + j : j \in HTTPMatches(c, hr)}
        BY ONLY <1>7, <1>8, MatchesConcat
    <3> QED
        BY Zenon, <1>9, <3>1
  <2>2. ElementAt(hi \o hr, FirstOf(HTTPMatches(c, hi) \cup {Len(hi) + j : j \in HTTPMatches(c, hr)}))
          = IF HTTPMatches(c, hi) # {} THEN ElementAt(hi, FirstOf(HTTPMatches(c, hi)))
            ELSE ElementAt(hr, FirstOf(HTTPMatches(c, hr)))
    <3>0. GoodRoutes(hi) /\ GoodRoutes(hr)
        BY Zenon, <1>7, <1>8
    <3>1. PICK I, J : I = HTTPMatches(c, hi) /\ J = HTTPMatches(c, hr)
        BY Zenon
    <3>2. I \in SUBSET DOMAIN hi /\ J \in SUBSET DOMAIN hr
        BY Zenon, <1>12, <3>1
    <3>3. ElementAt(hi \o hr, FirstOf(I \cup {Len(hi) + j : j \in J}))
            = IF I # {} THEN ElementAt(hi, FirstOf(I)) ELSE ElementAt(hr, FirstOf(J))
        BY ONLY <3>0, <3>2, FirstOfConcat
    <3> QED
        BY Zenon, <3>1, <3>3
  <2> QED
      BY Zenon, <1>9, <1>11, <1>13, <2>1, <2>2
<1>17. BestRoute(c, l, rcs) = IF tr # None THEN tr ELSE IF ir # None THEN ir ELSE rr
    BY Zenon, <1>15, <1>16
<1>18. ElementAt(<<>>, FirstOf(ThriftMatches(c, <<>>))) = None /\ ElementAt(<<>>, FirstOf(HTTPMatches(c, <<>>))) = None
  <2>1. ThriftMatches(c, <<>>) = {} /\ HTTPMatches(c, <<>>) = {}
      BY DEF ThriftMatches, HTTPMatches
  <2> QED
      BY Zenon, <2>1 DEF ElementAt, FirstOf
<1>19. InlineRoute(c, l) = IF tr # None THEN tr ELSE ir
  <2>1. tr = IF c.grpc \/ thrift = None THEN None
             ELSE IF thrift.inline = None THEN None
             ELSE matchThriftRoute(c, thrift.inline)
      BY Zenon, <1>2, <1>11, <1>18 DEF matchThriftRoute, ThriftRoutes
  <2>2. ir = IF http = None THEN None
             ELSE IF http.inline = None THEN None
             ELSE matchHTTPRoute(c, http.inline)
      BY Zenon, <1>3, <1>7, <1>11, <1>18 DEF matchHTTPRoute, HTTPRoutes
  <2> QED
      BY Zenon, <1>1, <2>1, <2>2 DEF InlineRoute
<1>20. http = None => rr = None
    BY Zenon, <1>4, <1>11, <1>18
<1>21. http # None => rr = IF rcs[http.name] \in {None, Nil} THEN None ELSE matchHTTPRoute(c, rcs[http.name])
    BY Zenon, <1>4, <1>11, <1>18 DEF matchHTTPRoute, HTTPRoutes
<1> QED
    BY Zenon, <1>1, <1>13, <1>17, <1>19, <1>20, <1>21

-----------------------------------------------------------------------------
(* The invariant *)

\* Every listener heard of together with the route configs in force has been
\* recorded; a route config is fetched for such a listener; the route to pick a
\* cluster of was the best of such a pair, and so was the one that gave the
\* call its cluster and its timeout.
RouterInv ==
    /\ listener \in heard
    /\ heard \subseteq Listeners \cup {None, Nil}
    /\ DOMAIN routeConfig = DOMAIN RouteConfigs
    /\ \A n \in DOMAIN RouteConfigs : routeConfig[n] \in RouteConfigs[n] \cup {None, Nil}
    /\ \A l \in heard : /\ Offer(call, l, routeConfig) \subseteq offers
                        /\ Refused(call, l, routeConfig) => gap
    /\ pc = "routeConfig" =>
          \E l \in heard \ {None, Nil} :
             /\ InlineRoute(call, l) = None
             /\ NetworkFilter(l, "http") # None
             /\ routeName = NetworkFilter(l, "http").name
    /\ pc = "pick" =>
          /\ GoodRoute(route)
          /\ \A wc \in Range(route.clusters) : <<wc.name, route.timeout>> \in offers
          /\ Len(route.clusters) = 0 => gap
          /\ Len(route.clusters) > 1 /\ ~SumFits(route.clusters) => gap
    /\ pc \in {"listener", "routeConfig", "pick"} => tag = None /\ (who = "retry" => key = None)
    /\ pc \in {"failed", "panicked"} => gap
    /\ tag # None => <<tag, rpcTimeout>> \in offers
    /\ key \in {None, <<>>} \/ (tag # None /\ key[1] = tag)

\* The first states satisfy it.
LEMMA RouterInit == Init => RouterInv
<1> SUFFICES ASSUME Init PROVE RouterInv
    BY Zenon
<1>1. /\ pc = "start" /\ tag = None /\ key = None /\ heard = {listener}
      /\ listener \in Listeners \cup {None, Nil}
      /\ offers = Offer(call, listener, routeConfig)
      /\ gap = Refused(call, listener, routeConfig)
      /\ DOMAIN routeConfig = DOMAIN RouteConfigs
      /\ \A n \in DOMAIN RouteConfigs : routeConfig[n] \in RouteConfigs[n] \cup {None, Nil}
    BY Zenon DEF Init
<1>2. pc \notin {"routeConfig", "pick", "listener", "failed", "panicked"}
    BY Zenon, <1>1
<1> QED
    BY Zenon, <1>1, <1>2 DEF RouterInv

\* A route that BestRoute gives for a listener heard of may be picked from.
LEMMA PickOf ==
    ASSUME RouterInv, NEW l \in heard, l \notin {None, Nil}, NEW r, r # None,
           r = BestRoute(call, l, routeConfig)
    PROVE  /\ GoodRoute(r)
           /\ \A wc \in Range(r.clusters) : <<wc.name, r.timeout>> \in offers
           /\ Len(r.clusters) = 0 => gap
           /\ Len(r.clusters) > 1 /\ ~SumFits(r.clusters) => gap
<1>1. l \in Listeners /\ ConfigsTyped(routeConfig)
    BY Zenon DEF RouterInv, ConfigsTyped
<1>2. GoodRoute(r)
    BY Zenon, <1>1, BestIs
<1>3. Offer(call, l, routeConfig) = {<<wc.name, r.timeout>> : wc \in Range(r.clusters)}
    BY Zenon DEF Offer
<1>4. Len(r.clusters) = 0 \/ (Len(r.clusters) > 1 /\ ~SumFits(r.clusters)) => Refused(call, l, routeConfig)
    BY Zenon DEF Refused
<1> QED
    BY Zenon, <1>2, <1>3, <1>4 DEF RouterInv

\* UpdateResources records what is in force after it.
LEMMA UpdateStep ==
    ASSUME RouterInv, UpdateResources
    PROVE  RouterInv'
<1>1. UNCHANGED <<pc, who, call, routeName, route, tag, rpcTimeout, key>> /\ Record(heard)
    BY Zenon DEF UpdateResources
<1>2. /\ heard' = heard \cup {listener'}
      /\ offers' = offers \cup UNION {Offer(call', l, routeConfig') : l \in heard'}
      /\ gap' = (gap \/ \E l \in heard' : Refused(call', l, routeConfig'))
    BY Zenon, <1>1 DEF Record
<1>3. /\ listener' \in Listeners \cup {None, Nil}
      /\ DOMAIN routeConfig' = DOMAIN RouteConfigs
      /\ \A n \in DOMAIN RouteConfigs : routeConfig'[n] \in RouteConfigs[n] \cup {None, Nil}
  <2>1. CASE listener' \in Listeners \cup {None, Nil} /\ UNCHANGED routeConfig
      BY Zenon, <2>1 DEF RouterInv
  <2>2. ASSUME NEW m \in DOMAIN RouteConfigs, NEW r \in RouteConfigs[m] \cup {None, Nil},
               routeConfig' = [routeConfig EXCEPT ![m] = r], UNCHANGED listener
        PROVE  <1>3!:
      BY Zenon, <2>2 DEF RouterInv
  <2> QED
      BY Zenon, <2>1, <2>2 DEF UpdateResources
<1>4. (gap => gap') /\ \A l \in heard' : Refused(call', l, routeConfig') => gap'
    BY Zenon, <1>2
<1>5. offers \subseteq offers' /\ \A l \in heard' : Offer(call', l, routeConfig') \subseteq offers'
    BY Zenon, <1>2
<1>6. listener' \in heard' /\ heard \subseteq heard' /\ heard' \subseteq Listeners \cup {None, Nil}
    BY Zenon, <1>2, <1>3 DEF RouterInv
<1> QED
    BY Zenon, <1>1, <1>3, <1>4, <1>5, <1>6 DEF RouterInv

\* What the steps of the call itself leave alone.
OwnStep == UNCHANGED <<resourceVars, who, call, historyVars>>

\* The router may fail or panic where the resources have refused the call.
LEMMA FailStep ==
    ASSUME RouterInv, pc \in {"listener", "routeConfig", "pick"}, gap, RouteFails \/ Panic, OwnStep
    PROVE  RouterInv'
<1>1. UNCHANGED <<listener, routeConfig, who, call, heard, offers, gap, tag, rpcTimeout>>
    BY Zenon DEF OwnStep, resourceVars, historyVars, RouteFails, Panic
<1>2. pc' \in {"start", "failed", "panicked"} /\ (key' = key \/ key' = <<>>)
    BY Zenon DEF RouteFails, Panic
<1>3. pc' \notin {"listener", "routeConfig", "pick"}
    BY Zenon, <1>2
<1> QED
    BY Zenon, <1>1, <1>2, <1>3 DEF RouterInv

\* It goes on with the route config of a listener that gives no route ...
LEMMA FetchStep ==
    ASSUME RouterInv, pc \in {"listener", "routeConfig"}, OwnStep,
           NEW l \in heard, l \notin {None, Nil}, InlineRoute(call, l) = None,
           NetworkFilter(l, "http") # None, GoOn("routeConfig", NetworkFilter(l, "http").name, None)
    PROVE  RouterInv'
<1>1. UNCHANGED <<listener, routeConfig, who, call, heard, offers, gap, tag, rpcTimeout, key>>
    BY Zenon DEF OwnStep, resourceVars, historyVars, GoOn
<1>2. pc' = "routeConfig" /\ routeName' = NetworkFilter(l, "http").name
    BY Zenon DEF GoOn
<1>3. pc' # "pick" /\ pc' \notin {"failed", "panicked"}
    BY Zenon, <1>2
<1>4. pc \in {"listener", "routeConfig", "pick"}
    BY Zenon
<1>5. tag = None /\ (who = "retry" => key = None)
    BY Zenon, <1>4 DEF RouterInv
<1>6. l \in heard \ {None, Nil}
    BY Zenon
<1> QED
    BY Zenon, <1>1, <1>2, <1>3, <1>5, <1>6 DEF RouterInv

\* ... or with the best route.
LEMMA MatchStep ==
    ASSUME RouterInv, pc \in {"listener", "routeConfig"}, OwnStep,
           NEW l \in heard, l \notin {None, Nil}, NEW r, r # None, GoOn("pick", None, r),
           r = BestRoute(call, l, routeConfig)
    PROVE  RouterInv'
<1>1. UNCHANGED <<listener, routeConfig, who, call, heard, offers, gap, tag, rpcTimeout, key>>
    BY Zenon DEF OwnStep, resourceVars, historyVars, GoOn
<1>2. pc' = "pick" /\ route' = r
    BY Zenon DEF GoOn
<1>3. pc' # "routeConfig" /\ pc' \notin {"failed", "panicked"}
    BY Zenon, <1>2
<1>4. pc \in {"listener", "routeConfig", "pick"}
    BY Zenon
<1>5. tag = None /\ (who = "retry" => key = None)
    BY Zenon, <1>4 DEF RouterInv
<1>6. /\ GoodRoute(r)
      /\ \A wc \in Range(r.clusters) : <<wc.name, r.timeout>> \in offers
      /\ Len(r.clusters) = 0 => gap
      /\ Len(r.clusters) > 1 /\ ~SumFits(r.clusters) => gap
    BY Zenon, PickOf
<1> QED
    BY Zenon, <1>1, <1>2, <1>3, <1>5, <1>6 DEF RouterInv

\* matchRoute up to the Get of the route config ...
LEMMA ListenerStep ==
    ASSUME RouterInv, matchListener
    PROVE  RouterInv'
<1>1. pc = "listener" /\ OwnStep /\ listener \in heard
    BY Zenon DEF matchListener, OwnStep, RouterInv
<1>2. pc \in {"listener", "routeConfig"} /\ pc \in {"listener", "routeConfig", "pick"}
    BY Zenon, <1>1
<1>3. CASE listener \in {None, Nil}
  <2>1. RouteFails \/ Panic
      BY Zenon, <1>3 DEF matchListener
  <2>2. BestRoute(call, listener, routeConfig) = None
      BY Zenon, <1>3 DEF BestRoute
  <2>3. gap
      BY Zenon, <1>1, <2>2 DEF RouterInv, Refused
  <2> QED
      BY Zenon, <1>1, <1>2, <2>1, <2>3, FailStep
<1>4. CASE listener \notin {None, Nil}
  <2>1. listener \in Listeners /\ ConfigsTyped(routeConfig)
      BY Zenon, <1>1, <1>4 DEF RouterInv, ConfigsTyped
  <2>2. CASE InlineRoute(call, listener) # None
    <3>1. GoOn("pick", None, InlineRoute(call, listener))
        BY Zenon, <1>4, <2>2 DEF matchListener
    <3>2. InlineRoute(call, listener) = BestRoute(call, listener, routeConfig)
        BY Zenon, <1>4, <2>1, <2>2, BestIs
    <3> QED
        BY Zenon, <1>1, <1>2, <1>4, <2>2, <3>1, <3>2, MatchStep
  <2>3. CASE InlineRoute(call, listener) = None /\ NetworkFilter(listener, "http") = None
    <3>1. RouteFails
        BY Zenon, <1>4, <2>3 DEF matchListener
    <3>2. BestRoute(call, listener, routeConfig) = None
        BY Zenon, <1>4, <2>1, <2>3, BestIs
    <3>3. gap
        BY Zenon, <1>1, <3>2 DEF RouterInv, Refused
    <3> QED
        BY Zenon, <1>1, <1>2, <3>1, <3>3, FailStep
  <2>4. CASE InlineRoute(call, listener) = None /\ NetworkFilter(listener, "http") # None
    <3>1. GoOn("routeConfig", NetworkFilter(listener, "http").name, None)
        BY Zenon, <1>4, <2>4 DEF matchListener
    <3> QED
        BY Zenon, <1>1, <1>2, <1>4, <2>4, <3>1, FetchStep
  <2> QED
      BY Zenon, <2>2, <2>3, <2>4
<1> QED
    BY Zenon, <1>3, <1>4

\* ... and from there on, with whatever route config is in force by then.
LEMMA ConfigStep ==
    ASSUME RouterInv, matchRouteConfig
    PROVE  RouterInv'
<1>1. pc = "routeConfig" /\ OwnStep
    BY Zenon DEF matchRouteConfig, OwnStep
<1>2. pc \in {"listener", "routeConfig"} /\ pc \in {"listener", "routeConfig", "pick"}
    BY Zenon, <1>1
<1>3. PICK l \in heard \ {None, Nil} : /\ InlineRoute(call, l) = None
                                       /\ NetworkFilter(l, "http") # None
                                       /\ routeName = NetworkFilter(l, "http").name
    BY Zenon, <1>1 DEF RouterInv
<1>4. l \in heard /\ l \in Listeners /\ l \notin {None, Nil} /\ ConfigsTyped(routeConfig)
    BY Zenon DEF RouterInv, ConfigsTyped
<1>5. PICK rcfg : rcfg = routeConfig[routeName]
    BY Zenon
<1>6. BestRoute(call, l, routeConfig) = IF rcfg \in {None, Nil} THEN None ELSE matchHTTPRoute(call, rcfg)
    BY Zenon, <1>3, <1>4, <1>5, BestIs
<1>7. CASE BestRoute(call, l, routeConfig) = None
  <2>1. RouteFails \/ Panic
      BY Zenon, <1>5, <1>6, <1>7 DEF matchRouteConfig
  <2>2. gap
      BY Zenon, <1>4, <1>7 DEF RouterInv, Refused
  <2> QED
      BY Zenon, <1>1, <1>2, <2>1, <2>2, FailStep
<1>8. CASE BestRoute(call, l, routeConfig) # None
  <2>1. PICK r : r = BestRoute(call, l, routeConfig) /\ r # None
      BY Zenon, <1>8
  <2>2. GoOn("pick", None, r)
      BY Zenon, <1>5, <1>6, <2>1 DEF matchRouteConfig
  <2> QED
      BY Zenon, <1>1, <1>2, <1>4, <2>1, <2>2, MatchStep
<1> QED
    BY Zenon, <1>7, <1>8

\* A cluster of the route goes into the call, and into the retry key.
LEMMA RoutedStep ==
    ASSUME RouterInv, pc = "pick", OwnStep, NEW wc \in Range(route.clusters), Routed(wc.name)
    PROVE  RouterInv'
<1>1. UNCHANGED <<listener, routeConfig, who, call, heard, offers, gap>>
    BY Zenon DEF OwnStep, resourceVars, historyVars
<1>2. tag' = wc.name /\ rpcTimeout' = route.timeout /\ pc' \in {"start", "next"}
    BY Zenon DEF Routed
<1>3. pc' \notin {"listener", "routeConfig", "pick", "failed", "panicked"}
    BY Zenon, <1>2
<1>4. wc.name # None /\ <<wc.name, route.timeout>> \in offers
    BY Zenon DEF RouterInv, GoodRoute
<1>5. tag = None
  <2>1. pc \in {"listener", "routeConfig", "pick"}
      BY Zenon
  <2> QED
      BY Zenon, <2>1 DEF RouterInv
<1>6. key' \in {None, <<>>} \/ key'[1] = wc.name
  <2>1. <<wc.name, call.method>>[1] = wc.name /\ <<wc.name>>[1] = wc.name
      BY Zenon
  <2> QED
      BY Zenon, <1>5, <2>1 DEF Routed, RouterInv
<1> QED
    BY Zenon, <1>1, <1>2, <1>3, <1>4, <1>6 DEF RouterInv

\* pickCluster fails only for weights that make no sense.
LEMMA PickStep ==
    ASSUME RouterInv, pickCluster
    PROVE  RouterInv'
<1>1. pc = "pick" /\ OwnStep
    BY Zenon DEF pickCluster, OwnStep
<1>2. pc \in {"listener", "routeConfig", "pick"}
    BY Zenon, <1>1
<1>3. PICK wcs, total : wcs = route.clusters /\ total = calTotalWeight(wcs)
    BY Zenon
<1>4. GoodRoute(route) /\ GoodClusters(wcs) /\ Len(wcs) \in Nat /\ DOMAIN wcs = 1 .. Len(wcs)
  <2>1. GoodRoute(route)
      BY Zenon, <1>1 DEF RouterInv
  <2>2. GoodClusters(wcs)
      BY Zenon, <1>3, <2>1 DEF GoodRoute, GoodClusters
  <2> QED
      BY Zenon, <2>1, <2>2, ClusterWeights
<1>5. (Len(wcs) = 0 => gap) /\ (Len(wcs) > 1 /\ ~SumFits(wcs) => gap)
    BY Zenon, <1>1, <1>3 DEF RouterInv
<1>6. ASSUME Len(wcs) > 1, total = 0 \/ Int31n(total) = {} PROVE gap
  <2>1. ~SumFits(wcs)
      BY Zenon, <1>3, <1>4, <1>6, TotalFits
  <2> QED
      BY Zenon, <1>5, <1>6, <2>1
<1>7. CASE (RouteFails \/ Panic) /\ gap
    BY Zenon, <1>1, <1>2, <1>7, FailStep
<1>8. ASSUME NEW i \in DOMAIN wcs, Routed(wcs[i].name) PROVE RouterInv'
  <2>1. wcs[i] \in Range(route.clusters)
      BY Zenon, <1>3 DEF Range
  <2> QED
      BY Zenon, <1>1, <1>8, <2>1, RoutedStep
<1>9. CASE Len(wcs) = 1 /\ Routed(wcs[1].name)
  <2>1. 1 \in DOMAIN wcs
      BY <1>4, <1>9
  <2> QED
      BY Zenon, <1>8, <1>9, <2>1
<1>10. ASSUME Len(wcs) > 1, NEW t \in Int31n(total),
              LET i == pickIndex(wcs, t) IN IF i = 0 THEN RouteFails ELSE Routed(wcs[i].name)
       PROVE  RouterInv'
  <2>1. pickIndex(wcs, t) \in DOMAIN wcs /\ pickIndex(wcs, t) # 0
      BY Zenon, <1>3, <1>4, <1>10, PickFound
  <2> QED
      BY Zenon, <1>8, <1>10, <2>1
<1>11. \/ Len(wcs) = 0 /\ RouteFails
       \/ Len(wcs) = 1 /\ Routed(wcs[1].name)
       \/ Len(wcs) > 1 /\ total = 0 /\ RouteFails
       \/ Len(wcs) > 1 /\ total > 0 /\ Int31n(total) = {} /\ Panic
       \/ /\ Len(wcs) > 1
          /\ \E t \in Int31n(total) :
                LET i == pickIndex(wcs, t) IN IF i = 0 THEN RouteFails ELSE Routed(wcs[i].name)
    BY Zenon, <1>3 DEF pickCluster
<1> QED
    BY Zenon, <1>5, <1>6, <1>7, <1>9, <1>10, <1>11

\* Every step preserves it.
LEMMA RouterStep == RouterInv /\ [Next]_vars => RouterInv'
<1> SUFFICES ASSUME RouterInv, [Next]_vars PROVE RouterInv'
    BY Zenon
<1>1. CASE genRetryServiceKey
  <2>1. UNCHANGED <<listener, routeConfig, call, heard, offers, gap, tag, rpcTimeout>>
      BY Zenon, <1>1 DEF genRetryServiceKey, resourceVars, historyVars
  <2>2. CASE tag # None /\ key' = <<tag>> /\ UNCHANGED <<pc, who, route, routeName>>
    <3>1. pc \notin {"listener", "routeConfig", "pick", "failed", "panicked"}
        BY Zenon, <1>1 DEF genRetryServiceKey
    <3>2. key'[1] = tag
        BY Zenon, <2>2
    <3> QED
        BY Zenon, <2>1, <2>2, <3>1, <3>2 DEF RouterInv
  <2>3. CASE tag = None /\ pc' = "listener" /\ who' = "retry" /\ UNCHANGED key
    <3>1. pc' \notin {"routeConfig", "pick", "failed", "panicked"} /\ key = None
        BY Zenon, <1>1, <2>3 DEF genRetryServiceKey
    <3> QED
        BY Zenon, <2>1, <2>3, <3>1 DEF RouterInv
  <2> QED
      BY Zenon, <1>1, <2>2, <2>3 DEF genRetryServiceKey
<1>2. CASE RouterMiddleware
  <2>1. UNCHANGED <<listener, routeConfig, call, heard, offers, gap, tag, rpcTimeout, key>>
      BY Zenon, <1>2 DEF RouterMiddleware, resourceVars, historyVars
  <2>2. CASE pc' = "next"
    <3>1. pc' \notin {"listener", "routeConfig", "pick", "failed", "panicked"}
        BY Zenon, <2>2
    <3> QED
        BY Zenon, <2>1, <3>1 DEF RouterInv
  <2>3. CASE tag = None /\ pc' = "listener" /\ who' = "middleware"
    <3>1. pc' \notin {"routeConfig", "pick", "failed", "panicked"} /\ who' # "retry"
        BY Zenon, <2>3
    <3> QED
        BY Zenon, <2>1, <2>3, <3>1 DEF RouterInv
  <2> QED
      BY Zenon, <1>2, <2>2, <2>3 DEF RouterMiddleware
<1>3. CASE UNCHANGED vars
    BY Zenon, <1>3 DEF vars, resourceVars, historyVars, RouterInv
<1> QED
    BY Zenon, <1>1, <1>2, <1>3, UpdateStep, ListenerStep, ConfigStep, PickStep DEF Next

\* matchRoute and pickCluster, whatever changes between their reads and however
\* often they run for a call, leave it with the cluster and the timeout of one
\* route that was the best.
THEOREM RouteOfOneMoment == Spec => []RouteCoherent
<1>1. RouterInv => RouteCoherent
    BY Zenon DEF RouterInv, RouteCoherent
<1> QED
    BY <1>1, RouterInit, RouterStep, PTL DEF Spec

\* genRetryServiceKey's cluster is the one that the middleware sends the call to.
THEOREM KeyFollowsCluster == Spec => []KeyOfCluster
<1>1. RouterInv => KeyOfCluster
    BY Zenon DEF RouterInv, KeyOfCluster
<1> QED
    BY <1>1, RouterInit, RouterStep, PTL DEF Spec

\* Route's errors and panics have a listener and a route config that refuse the
\* call; the end of pickCluster's loop is never reached.
THEOREM FailuresExplained == Spec => []FailsForAReason
<1>1. RouterInv => FailsForAReason
    BY Zenon DEF RouterInv, FailsForAReason
<1> QED
    BY <1>1, RouterInit, RouterStep, PTL DEF Spec

\* pickCluster's loop gives each cluster its weight to within one of the total.
THEOREM FairShares == Spec => []SharesClose
<1>1. RouterInv => SharesClose
  <2> SUFFICES ASSUME RouterInv, Choosing, NEW i \in DOMAIN route.clusters
               PROVE  /\ Share(route.clusters, i) <= route.clusters[i].weight + 1
                      /\ route.clusters[i].weight <= Share(route.clusters, i) + 1
      BY Zenon DEF SharesClose
  <2>1. PICK wcs : wcs = route.clusters
      BY Zenon
  <2>2. SumFits(wcs) /\ GoodClusters(wcs) /\ i \in DOMAIN wcs
      BY Zenon, <2>1 DEF Choosing, RouterInv, GoodRoute, GoodClusters
  <2> QED
      BY Zenon, <2>1, <2>2, ShareClose
<1> QED
    BY <1>1, RouterInit, RouterStep, PTL DEF Spec
=============================================================================
