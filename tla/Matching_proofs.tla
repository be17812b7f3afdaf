--------------------------- MODULE Matching_proofs ---------------------------
(* Theorems about Align: for every list of anchors, what it returns is a     *)
(* chain, none is longer and none as long has more support; and about        *)
(* Matching: whatever the transcripts and the limits, a query is never       *)
(* identified as a reference of which another one says everything.           *)
EXTENDS Align, Matching, Sums

(* Align: the inductive invariant.                                           *)
Ascends == \A i, j \in 1..Len(anchors) : i < j => anchors[i].q <= anchors[j].q

Abreast == Len(trails) = Len(ranks) /\ Len(ranks) <= Len(anchors)

(* The trail of an anchor in the window is a chain that ends there.          *)
EndsAt(t, i) ==
    /\ Len(t) \in 1..i
    /\ t[Len(t)] = i
    /\ \A k \in 1..Len(t) : t[k] \in 1..i /\ Within(anchors[t[k]])
    /\ \A k \in 1..(Len(t) - 1) : Separated(anchors[t[k]], anchors[t[k + 1]])
Trailing == \A i \in 1..Len(ranks) :
    Within(anchors[i]) => EndsAt(trails[i], i) /\ ranks[i] = RankOf(trails[i])

Lead == /\ bestRank = RankOf(best)
        /\ best # <<>> => best \in ChainsIn(anchors)

Highest == \A i \in 1..Len(ranks) : ~Better(ranks[i], bestRank)

(* Chains in the window from low on, and those of the window being scanned   *)
(* that end in an anchor already seen.                                       *)
Fenced(c, low) == \A k \in 1..Len(c) : /\ Offset(anchors[c[k]]) >= low
                                       /\ Offset(anchors[c[k]]) <= low + Spread
Prolonged == \A c \in ChainsIn(anchors) :
    Fenced(c, lower) /\ c[Len(c)] <= Len(ranks) => ~Better(RankOf(c), ranks[c[Len(c)]])

(* Windows that have been scanned to their end.                              *)
Open == lowers \union (IF aligning = "scan" THEN {lower} ELSE {})
Searched == \A i \in 1..Len(anchors) :
    Offset(anchors[i]) \notin Open =>
        \A c \in ChainsIn(anchors) :
            Fenced(c, Offset(anchors[i])) => ~Better(RankOf(c), bestRank)

AlignInv == /\ AlignTypeOK /\ Ascends /\ Abreast /\ Trailing /\ Lead /\ Highest
        /\ Prolonged /\ Searched

-----------------------------------------------------------------------------
(* About finite sets and chains                                              *)

(* A finite set has an element of the least value.                           *)
LEMMA LeastOf ==
    ASSUME NEW K, IsFiniteSet(K), K # {}, NEW f \in [K -> Int]
    PROVE  \E k \in K : \A l \in K : f[k] <= f[l]
<1> DEFINE G == {U \in SUBSET K : U = {} \/ \E k \in U : \A l \in U : f[k] <= f[l]}
<1>1. {} \in G
  OBVIOUS
<1>2. ASSUME NEW U \in SUBSET K, NEW x \in K \ U, U \in G PROVE U \union {x} \in G
  <2>1. f[x] \in Int /\ \A l \in U : f[l] \in Int
    OBVIOUS
  <2>2. CASE U = {}
    <3>1. \A l \in U \union {x} : f[x] <= f[l]
      BY <2>1, <2>2
    <3> QED
      BY <3>1
  <2>3. CASE \E m \in U : \A l \in U : f[m] <= f[l]
    <3>1. PICK m \in U : \A l \in U : f[m] <= f[l]
      BY <2>3
    <3>2. CASE f[m] <= f[x]
      <4>1. \A l \in U \union {x} : f[m] <= f[l]
        BY <3>1, <3>2
      <4> QED
        BY <4>1
    <3>3. CASE f[x] <= f[m]
      <4>1. \A l \in U \union {x} : f[x] <= f[l]
        BY <2>1, <3>1, <3>3
      <4> QED
        BY <4>1
    <3> QED
      BY <2>1, <3>2, <3>3
  <2> QED
    BY <1>2, <2>2, <2>3
<1> HIDE DEF G
<1>3. K \in G
  BY <1>1, <1>2, FiniteInduct
<1> QED
  BY <1>3 DEF G

(* The fields of a listed anchor, and its offset, are numbers.               *)
LEMMA AnchorFacts ==
    ASSUME NEW s \in Seq(Anchors), NEW i \in 1..Len(s)
    PROVE  /\ s[i].q \in Nat /\ s[i].r \in Nat /\ s[i].support \in Nat
           /\ Offset(s[i]) \in Int
<1>1. s[i] \in Anchors
  OBVIOUS
<1> QED
  BY <1>1 DEF Anchors, Offset

(* A chain is a sequence of positions, no longer than the list.              *)
LEMMA ChainFacts ==
    ASSUME NEW s \in Seq(Anchors), NEW c \in ChainsIn(s)
    PROVE  /\ Len(c) \in 1..Len(s)
           /\ c \in [1..Len(c) -> 1..Len(s)]
           /\ IsChain(s, c)
<1>1. PICK n \in 1..Len(s) : c \in [1..n -> 1..Len(s)]
  BY DEF ChainsIn
<1>2. Len(c) = n
  BY <1>1
<1> QED
  BY <1>1, <1>2 DEF ChainsIn

(* Such a sequence that satisfies IsChain is one of the chains.              *)
LEMMA ChainIntro ==
    ASSUME NEW s \in Seq(Anchors), NEW n \in 1..Len(s), NEW c \in [1..n -> 1..Len(s)],
           IsChain(s, c)
    PROVE  c \in ChainsIn(s)
BY DEF ChainsIn

(* A chain without its last anchor is one, and ends before it.               *)
Shorter(c) == [k \in 1..(Len(c) - 1) |-> c[k]]

LEMMA Shortened ==
    ASSUME NEW s \in Seq(Anchors),
           \A i, j \in 1..Len(s) : i < j => s[i].q <= s[j].q,
           NEW c \in ChainsIn(s), Len(c) > 1
    PROVE  /\ Shorter(c) \in ChainsIn(s) /\ Len(Shorter(c)) = Len(c) - 1
           /\ \A k \in 1..(Len(c) - 1) : Shorter(c)[k] = c[k]
           /\ c[Len(c) - 1] < c[Len(c)]
           /\ Separated(s[c[Len(c) - 1]], s[c[Len(c)]])
<1> DEFINE n == Len(c)
           d == Shorter(c)
<1>1. n \in 1..Len(s) /\ n \in Nat /\ c \in [1..n -> 1..Len(s)] /\ IsChain(s, c) /\ Len(s) \in Nat
  BY ChainFacts
<1>2. n - 1 \in 1..Len(s) /\ d \in [1..(n - 1) -> 1..Len(s)]
  BY <1>1 DEF Shorter
<1>3. Len(d) = n - 1
  BY <1>2
<1>4. \A k \in 1..(n - 1) : d[k] = c[k]
  BY DEF Shorter
<1>5. IsChain(s, d)
  <2>0. Len(d) - 1 = n - 2
    BY <1>1, <1>3
  <2>1. \A k \in 1..(Len(d) - 1) : Separated(s[d[k]], s[d[k + 1]])
    <3> SUFFICES ASSUME NEW k \in 1..(n - 2) PROVE Separated(s[d[k]], s[d[k + 1]])
      BY <2>0
    <3>1. k \in 1..(n - 1) /\ k + 1 \in 1..(n - 1)
      BY <1>1
    <3>2. Separated(s[c[k]], s[c[k + 1]])
      BY <1>1, <3>1 DEF IsChain
    <3> QED
      BY <1>4, <3>1, <3>2
  <2>2. \A k, l \in 1..Len(d) : Offset(s[d[k]]) - Offset(s[d[l]]) <= Spread
    <3> SUFFICES ASSUME NEW k \in 1..(n - 1), NEW l \in 1..(n - 1)
                 PROVE  Offset(s[d[k]]) - Offset(s[d[l]]) <= Spread
      BY <1>3
    <3>1. k \in 1..n /\ l \in 1..n
      BY <1>1
    <3>2. Offset(s[c[k]]) - Offset(s[c[l]]) <= Spread
      BY <1>1, <3>1 DEF IsChain
    <3> QED
      BY <1>4, <3>2
  <2> QED
    BY <2>1, <2>2 DEF IsChain
<1>6. d \in ChainsIn(s)
  BY <1>2, <1>5, ChainIntro
<1>7. Separated(s[c[n - 1]], s[c[n]])
  <2>1. n - 1 \in 1..(n - 1) /\ (n - 1) + 1 = n
    BY <1>1
  <2> QED
    BY <1>1, <2>1 DEF IsChain
<1>8. c[n - 1] < c[n]
  <2> SUFFICES ASSUME NEW i \in 1..Len(s), NEW j \in 1..Len(s), Separated(s[i], s[j])
               PROVE  i < j
    <3>1. n - 1 \in 1..n /\ n \in 1..n
      BY <1>1
    <3> QED
      BY <1>1, <1>7, <3>1
  <2>1. s[i].q \in Nat /\ s[j].q \in Nat
    BY AnchorFacts
  <2>2. s[j].q - s[i].q >= Separation /\ Separation \in Nat /\ Separation > 0
    BY ChainsAssumption DEF Separated
  <2>3. s[i].q < s[j].q
    BY <2>1, <2>2
  <2>4. ~(j < i)
    <3>1. SUFFICES ASSUME j < i PROVE FALSE
      OBVIOUS
    <3>2. s[j].q <= s[i].q
      BY <3>1
    <3> QED
      BY <2>1, <2>3, <3>2
  <2>5. i # j
    BY <2>1, <2>3
  <2> QED
    BY <1>1, <2>4, <2>5
<1> QED
  BY <1>3, <1>4, <1>6, <1>7, <1>8

-----------------------------------------------------------------------------
(* About support and ranks                                                   *)

(* What Support defines by recursion along a chain.                          *)
Summing(f, c, n) == f = [k \in 0..n |-> IF k = 0 THEN 0
                                        ELSE f[k - 1] + anchors[c[k]].support]

LEMMA SupportUnfolded ==
    ASSUME NEW c PROVE Support(c) = (CHOOSE f : Summing(f, c, Len(c)))[Len(c)]
BY DEF Support, Summing

(* The recursion has a solution,                                             *)
LEMMA SummingExists ==
    ASSUME NEW c, NEW n \in Nat PROVE \E f : Summing(f, c, n)
<1> DEFINE G == {m \in Nat : \E f : Summing(f, c, m)}
<1>1. 0 \in G
  <2>1. Summing([k \in 0..0 |-> 0], c, 0)
    BY DEF Summing
  <2> QED
    BY <2>1
<1>2. ASSUME NEW m \in Nat, m \in G PROVE m + 1 \in G
  <2>1. PICK f : Summing(f, c, m)
    BY <1>2
  <2> DEFINE g == [k \in 0..(m + 1) |-> IF k = m + 1 THEN f[m] + anchors[c[k]].support
                                         ELSE f[k]]
  <2>2. ASSUME NEW k \in 0..(m + 1)
        PROVE  g[k] = IF k = 0 THEN 0 ELSE g[k - 1] + anchors[c[k]].support
    <3>1. CASE k = m + 1
      <4>1. k - 1 = m /\ m \in 0..(m + 1) /\ m # m + 1 /\ k # 0
        BY <3>1
      <4>2. g[m] = f[m]
        BY <4>1
      <4> QED
        BY <3>1, <4>1, <4>2
    <3>2. CASE k # m + 1
      <4>1. k \in 0..m
        BY <3>2
      <4>2. f[k] = IF k = 0 THEN 0 ELSE f[k - 1] + anchors[c[k]].support
        BY <2>1, <4>1 DEF Summing
      <4>3. k # 0 => k - 1 \in 0..(m + 1) /\ k - 1 # m + 1
        BY <4>1
      <4>4. k # 0 => g[k - 1] = f[k - 1]
        BY <4>3
      <4>5. g[k] = f[k]
        BY <3>2
      <4> QED
        BY <4>2, <4>4, <4>5
    <3> QED
      BY <3>1, <3>2
  <2>3. g = [k \in 0..(m + 1) |-> g[k]]
    OBVIOUS
  <2> HIDE DEF g
  <2>4. Summing(g, c, m + 1)
    BY <2>2, <2>3 DEF Summing
  <2> QED
    BY <2>4
<1> HIDE DEF G
<1>3. \A m \in Nat : m \in G
  BY <1>1, <1>2, NatInduct
<1> QED
  BY <1>3 DEF G

(* and along chains that begin alike it gives the same.                      *)
LEMMA SummingAlike ==
    ASSUME NEW c, NEW d, NEW f, NEW g, NEW m \in Nat, NEW n \in Nat, m <= n,
           Summing(f, c, m), Summing(g, d, n), \A k \in 1..m : c[k] = d[k]
    PROVE  f[m] = g[m]
<1> DEFINE G == {k \in Nat : k <= m => f[k] = g[k]}
<1>1. 0 \in G
  <2>1. f[0] = 0 /\ g[0] = 0
    BY DEF Summing
  <2> QED
    BY <2>1
<1>2. ASSUME NEW k \in Nat, k \in G PROVE k + 1 \in G
  <2> SUFFICES ASSUME k + 1 <= m PROVE f[k + 1] = g[k + 1]
    OBVIOUS
  <2>1. k + 1 \in 0..m /\ k + 1 \in 0..n /\ k + 1 # 0 /\ (k + 1) - 1 = k /\ k + 1 \in 1..m
    OBVIOUS
  <2>2. f[k + 1] = f[k] + anchors[c[k + 1]].support
    BY <2>1 DEF Summing
  <2>3. g[k + 1] = g[k] + anchors[d[k + 1]].support
    BY <2>1 DEF Summing
  <2>4. f[k] = g[k]
    BY <1>2
  <2> QED
    BY <2>1, <2>2, <2>3, <2>4
<1> HIDE DEF G
<1>3. m \in G
  BY <1>1, <1>2, NatInduct
<1> QED
  BY <1>3 DEF G

(* So a chain has the support of what it prolongs and of its last anchor.    *)
LEMMA SupportEmpty == ASSUME NEW c, Len(c) = 0 PROVE Support(c) = 0
<1> DEFINE f == CHOOSE g : Summing(g, c, Len(c))
<1>1. Summing(f, c, Len(c))
  <2>1. \E g : Summing(g, c, Len(c))
    BY SummingExists
  <2> QED
    BY <2>1, Zenon
<1>2. Support(c) = f[Len(c)]
  BY SupportUnfolded
<1> HIDE DEF f
<1> QED
  BY <1>1, <1>2 DEF Summing

LEMMA SupportGrows ==
    ASSUME NEW c, NEW d, Len(c) \in Nat, Len(d) = Len(c) + 1,
           \A k \in 1..Len(c) : c[k] = d[k]
    PROVE  Support(d) = Support(c) + anchors[d[Len(d)]].support
<1>1. PICK f : Summing(f, c, Len(c)) /\ Support(c) = f[Len(c)]
  <2>1. Summing(CHOOSE f : Summing(f, c, Len(c)), c, Len(c))
    BY SummingExists, Zenon
  <2> QED
    BY <2>1, SupportUnfolded
<1>2. PICK g : Summing(g, d, Len(d)) /\ Support(d) = g[Len(d)]
  <2>1. Len(d) \in Nat
    OBVIOUS
  <2>2. Summing(CHOOSE g : Summing(g, d, Len(d)), d, Len(d))
    BY <2>1, SummingExists, Zenon
  <2> QED
    BY <2>2, SupportUnfolded
<1>3. Support(c) = f[Len(c)] /\ Support(d) = g[Len(d)]
  BY <1>1, <1>2
<1>4. f[Len(c)] = g[Len(c)]
  <2> SUFFICES ASSUME NEW m \in Nat, NEW n \in Nat, m = Len(c), n = Len(d)
               PROVE  f[m] = g[m]
    OBVIOUS
  <2>1. m <= n /\ (\A k \in 1..m : c[k] = d[k]) /\ Summing(f, c, m) /\ Summing(g, d, n)
    BY <1>1, <1>2
  <2> QED
    BY ONLY m \in Nat, n \in Nat, <2>1, SummingAlike
<1>5. g[Len(d)] = g[Len(c)] + anchors[d[Len(d)]].support
  <2>1. Len(d) \in 0..Len(d) /\ Len(d) # 0 /\ Len(d) - 1 = Len(c)
    OBVIOUS
  <2> QED
    BY <1>2, <2>1 DEF Summing
<1> QED
  BY <1>3, <1>4, <1>5

LEMMA SupportOne ==
    ASSUME NEW c, Len(c) = 1, anchors[c[1]].support \in Nat
    PROVE  Support(c) = anchors[c[1]].support
<1>1. Len(<<>>) = 0 /\ Support(<<>>) = 0
  BY SupportEmpty
<1>2. Support(c) = Support(<<>>) + anchors[c[Len(c)]].support
  <2>1. Len(<<>>) \in Nat /\ Len(c) = Len(<<>>) + 1 /\ \A k \in 1..Len(<<>>) : FALSE
    BY <1>1
  <2> QED
    BY <2>1, SupportGrows
<1> QED
  BY <1>1, <1>2

(* The support of anchors listed is a number.                                *)
LEMMA SupportNat ==
    ASSUME anchors \in Seq(Anchors), NEW n \in Nat, NEW c \in [1..n -> 1..Len(anchors)]
    PROVE  Support(c) \in Nat /\ RankOf(c) \in Ranks
<1> DEFINE f == CHOOSE h : Summing(h, c, Len(c))
           G == {k \in Nat : k <= n => f[k] \in Nat}
<1>0. Len(c) = n
  OBVIOUS
<1>1. Summing(f, c, n)
  <2>1. \E h : Summing(h, c, Len(c))
    BY <1>0, SummingExists
  <2>2. Summing(f, c, Len(c))
    BY <2>1, Zenon
  <2> QED
    BY <1>0, <2>2
<1>2. Support(c) = f[n]
  BY <1>0, SupportUnfolded
<1> HIDE DEF f
<1>3. 0 \in G
  <2>1. f[0] = 0
    BY <1>1 DEF Summing
  <2> QED
    BY <2>1
<1>4. ASSUME NEW k \in Nat, k \in G PROVE k + 1 \in G
  <2> SUFFICES ASSUME k + 1 <= n PROVE f[k + 1] \in Nat
    OBVIOUS
  <2>1. k + 1 \in 0..n /\ k + 1 # 0 /\ (k + 1) - 1 = k /\ k + 1 \in 1..n
    OBVIOUS
  <2>2. f[k + 1] = f[k] + anchors[c[k + 1]].support
    BY <1>1, <2>1 DEF Summing
  <2>3. anchors[c[k + 1]].support \in Nat
    <3>1. c[k + 1] \in 1..Len(anchors)
      BY <2>1
    <3> QED
      BY <3>1, AnchorFacts
  <2>4. f[k] \in Nat
    BY <1>4
  <2> QED
    BY <2>2, <2>3, <2>4
<1> HIDE DEF G
<1>5. n \in G
  BY <1>3, <1>4, NatInduct
<1>6. Support(c) \in Nat
  BY <1>2, <1>5 DEF G
<1> QED
  BY <1>0, <1>6 DEF RankOf, Ranks

(* So is that of a chain.                                                    *)
LEMMA ChainRank ==
    ASSUME anchors \in Seq(Anchors), NEW c \in ChainsIn(anchors)
    PROVE  RankOf(c) \in Ranks /\ RankOf(c)[1] = Len(c) /\ RankOf(c)[2] = Support(c)
<1>1. Len(c) \in Nat /\ c \in [1..Len(c) -> 1..Len(anchors)]
  BY ChainFacts
<1> QED
  BY <1>1, SupportNat DEF RankOf

(* Ranks are ordered.                                                        *)
LEMMA RankFacts ==
    ASSUME NEW a \in Ranks PROVE a[1] \in Nat /\ a[2] \in Nat /\ ~Better(a, a)
BY DEF Ranks, Better

LEMMA NoBetter ==
    ASSUME NEW a \in Ranks, NEW b \in Ranks, NEW c \in Ranks, ~Better(a, b), ~Better(b, c)
    PROVE  ~Better(a, c)
<1>1. a[1] \in Nat /\ a[2] \in Nat /\ b[1] \in Nat /\ b[2] \in Nat /\ c[1] \in Nat /\ c[2] \in Nat
  BY RankFacts
<1> QED
  BY <1>1 DEF Better

LEMMA BetterOnce ==
    ASSUME NEW a \in Ranks, NEW b \in Ranks, Better(a, b)
    PROVE  ~Better(b, a)
<1>1. a[1] \in Nat /\ a[2] \in Nat /\ b[1] \in Nat /\ b[2] \in Nat
  BY RankFacts
<1> QED
  BY <1>1 DEF Better

-----------------------------------------------------------------------------
(* About the window being scanned                                            *)

(* A trail is a chain.                                                       *)
LEMMA TrailIsChain ==
    ASSUME AlignTypeOK, NEW i \in 1..Len(anchors), NEW t \in Seq(Nat), EndsAt(t, i)
    PROVE  t \in ChainsIn(anchors)
<1>1. Len(anchors) \in Nat /\ lower \in Int /\ anchors \in Seq(Anchors)
  BY DEF AlignTypeOK
<1>2. Len(t) \in 1..Len(anchors)
  BY <1>1 DEF EndsAt
<1>3. \A k \in 1..Len(t) : t[k] \in 1..Len(anchors)
  BY <1>1 DEF EndsAt
<1>4. t \in [1..Len(t) -> 1..Len(anchors)]
  BY <1>3
<1>5. \A k \in 1..Len(t) : /\ Offset(anchors[t[k]]) \in Int
                           /\ Offset(anchors[t[k]]) >= lower
                           /\ Offset(anchors[t[k]]) <= lower + Spread
  BY <1>1, <1>3, AnchorFacts DEF EndsAt, Within
<1>6. \A k, l \in 1..Len(t) : Offset(anchors[t[k]]) - Offset(anchors[t[l]]) <= Spread
  <2> SUFFICES ASSUME NEW k \in 1..Len(t), NEW l \in 1..Len(t)
               PROVE  Offset(anchors[t[k]]) - Offset(anchors[t[l]]) <= Spread
    OBVIOUS
  <2> QED
    BY <1>1, <1>5, ChainsAssumption, SMTT(30)
<1>7. IsChain(anchors, t)
  BY <1>6 DEF IsChain, EndsAt
<1> QED
  BY <1>1, <1>2, <1>4, <1>7, ChainIntro

(* Arithmetic of ranks and of distances.                                     *)
LEMMA OneLong == ASSUME NEW n \in Nat, n >= 1, ~(n > 1) PROVE n = 1
  OBVIOUS

LEMMA NotLonger ==
    ASSUME NEW x, NEW y, NEW a \in Nat, NEW b \in Nat, NEW p \in Nat, NEW q \in Nat, NEW w \in Nat,
           x[1] = a + 1, x[2] = b + w, y[1] = p + 1, y[2] = q + w,
           ~(a > p \/ (a = p /\ b > q))
    PROVE  ~Better(x, y)
  BY DEF Better

LEMMA Distance ==
    ASSUME NEW x \in Nat, NEW y \in Nat, NEW d \in Nat, y - x >= d
    PROVE  y >= x + d
  OBVIOUS

(* A longer chain in the window is prolonged from one that ends at a         *)
(* predecessor.                                                              *)
LEMMA Nearer ==
    ASSUME AlignTypeOK, Ascends, NEW c \in ChainsIn(anchors), Fenced(c, lower), Len(c) > 1
    PROVE  \E d \in ChainsIn(anchors) :
              /\ Fenced(d, lower) /\ Len(d) = Len(c) - 1
              /\ d[Len(d)] \in Predecessors(c[Len(c)])
              /\ Support(c) = Support(d) + anchors[c[Len(c)]].support
<1> DEFINE n == Len(c)
           d == Shorter(c)
<1>1. anchors \in Seq(Anchors) /\ lower \in Int
  BY DEF AlignTypeOK
<1>2. n \in 1..Len(anchors) /\ c \in [1..n -> 1..Len(anchors)] /\ n \in Nat
  BY <1>1, ChainFacts
<1>3. /\ d \in ChainsIn(anchors) /\ Len(d) = n - 1
      /\ \A k \in 1..(n - 1) : d[k] = c[k]
      /\ c[n - 1] < c[n]
      /\ Separated(anchors[c[n - 1]], anchors[c[n]])
  BY <1>1, Shortened DEF Ascends
<1> HIDE DEF d
<1>4. n - 1 \in 1..(n - 1) /\ n - 1 \in 1..n /\ n \in 1..n
  BY <1>2
<1>5. Fenced(d, lower)
  <2> SUFFICES ASSUME NEW k \in 1..(n - 1)
               PROVE  /\ Offset(anchors[d[k]]) >= lower
                      /\ Offset(anchors[d[k]]) <= lower + Spread
    BY <1>3 DEF Fenced
  <2>1. k \in 1..n /\ d[k] = c[k]
    BY <1>2, <1>3
  <2> QED
    BY <2>1 DEF Fenced
<1>6. d[Len(d)] = c[n - 1]
  BY <1>3, <1>4
<1>7. Within(anchors[c[n - 1]])
  BY <1>4 DEF Fenced, Within
<1>8. Follows(c[n], c[n - 1])
  <2> SUFFICES ASSUME NEW i \in 1..Len(anchors), NEW j \in 1..Len(anchors),
                      Separated(anchors[i], anchors[j])
               PROVE  Follows(j, i)
    BY <1>2, <1>3, <1>4
  <2>1. /\ anchors[i].q \in Nat /\ anchors[i].r \in Nat
        /\ anchors[j].q \in Nat /\ anchors[j].r \in Nat
    BY <1>1, AnchorFacts
  <2>2. /\ anchors[j].q - anchors[i].q >= Separation
        /\ anchors[j].r - anchors[i].r >= Separation
        /\ Separation \in Nat
    BY ChainsAssumption DEF Separated
  <2>3. /\ anchors[j].q >= anchors[i].q + Separation
        /\ anchors[j].r >= anchors[i].r + Separation
    BY <2>1, <2>2, Distance
  <2> QED
    BY <2>3, Zenon DEF Follows
<1>9. c[n - 1] \in 1..(c[n] - 1)
  <2> SUFFICES ASSUME NEW i \in 1..Len(anchors), NEW j \in 1..Len(anchors), i < j
               PROVE  i \in 1..(j - 1)
    BY <1>2, <1>3, <1>4
  <2> QED
    BY <1>1
<1>10. Support(c) = Support(d) + anchors[c[n]].support
  <2>1. Len(d) \in Nat /\ n = Len(d) + 1 /\ \A k \in 1..Len(d) : d[k] = c[k]
    BY <1>2, <1>3
  <2> QED
    BY <2>1, SupportGrows
<1> QED
  BY <1>3, <1>5, <1>6, <1>7, <1>8, <1>9, <1>10 DEF Predecessors

-----------------------------------------------------------------------------
(* The steps                                                                 *)

(* The invariant holds before the first window,                              *)
LEMMA AlignStarted == AlignInit => AlignInv
<1> SUFFICES ASSUME AlignInit PROVE AlignInv
  OBVIOUS
<1>1. anchors \in Seq(Anchors) /\ Ascends
  BY InputsAssumption DEF AlignInit, Ascends
<1>2. AlignTypeOK
  BY <1>1 DEF AlignInit, Openings, AlignTypeOK, Ranks, NoRank
<1>3. Len(ranks) = 0 /\ Len(trails) = 0 /\ Len(anchors) \in Nat
  BY <1>1 DEF AlignInit
<1>4. Abreast /\ Trailing /\ Highest
  BY <1>3 DEF Abreast, Trailing, Highest
<1>5. Lead
  <2>1. best = <<>> /\ bestRank = NoRank
    BY DEF AlignInit
  <2>2. RankOf(<<>>) = NoRank
    BY SupportEmpty DEF RankOf, NoRank
  <2> QED
    BY <2>1, <2>2 DEF Lead
<1>6. Prolonged
  <2> SUFFICES ASSUME NEW c \in ChainsIn(anchors), c[Len(c)] <= 0 PROVE FALSE
    BY <1>3 DEF Prolonged
  <2>1. c[Len(c)] \in 1..Len(anchors)
    BY <1>1, ChainFacts
  <2> QED
    BY <1>3, <2>1
<1>7. Searched
  BY DEF AlignInit, Openings, Searched, Open
<1> QED
  BY <1>1, <1>2, <1>4, <1>5, <1>6, <1>7 DEF AlignInv

(* when a window is opened, since nothing is scanned in it yet,              *)
LEMMA WindowOpens == AlignInv /\ NextWindow => AlignInv'
<1> SUFFICES ASSUME AlignInv, NextWindow PROVE AlignInv'
  OBVIOUS
<1> USE DEF AlignInv
<1>1. anchors \in Seq(Anchors) /\ Len(anchors) \in Nat
  BY DEF AlignTypeOK
<1>2. anchors' = anchors /\ best' = best /\ bestRank' = bestRank
  BY DEF NextWindow
<1>3. PICK low \in lowers : lower' = low /\ lowers' = lowers \ {low}
  BY DEF NextWindow
<1>4. low \in Int
  BY <1>1, <1>3, AnchorFacts DEF AlignTypeOK
<1>5. AlignTypeOK'
  BY <1>2, <1>3, <1>4 DEF AlignTypeOK, NextWindow
<1>6. Len(ranks') = 0 /\ Len(trails') = 0
  BY DEF NextWindow
<1>7. Ascends' /\ Abreast' /\ Trailing' /\ Highest'
  BY <1>1, <1>2, <1>6 DEF Ascends, Abreast, Trailing, Highest
<1>8. Lead'
  BY <1>2 DEF AlignInv, Lead, RankOf, Support
<1>9. Prolonged'
  <2> SUFFICES ASSUME NEW c \in ChainsIn(anchors), c[Len(c)] <= 0 PROVE FALSE
    BY <1>2, <1>6 DEF Prolonged
  <2>1. c[Len(c)] \in 1..Len(anchors)
    <3>1. Len(c) \in 1..Len(anchors) /\ c \in [1..Len(c) -> 1..Len(anchors)]
      BY <1>1, ChainFacts, Zenon
    <3>2. Len(c) \in 1..Len(c)
      BY <3>1
    <3> QED
      BY <3>1, <3>2, Zenon
  <2> QED
    BY <1>1, <2>1
<1>10. Open' = Open
  BY <1>3 DEF Open, NextWindow
<1>11. Searched'
  <2>1. \A c : RankOf(c)' = RankOf(c)
    BY <1>2 DEF RankOf, Support
  <2> QED
    BY <1>2, <1>10, <2>1 DEF Searched, Fenced, Better
<1> QED
  BY <1>5, <1>7, <1>8, <1>9, <1>11

(* and when one ends, since every chain inside it ends at a scanned anchor.  *)
LEMMA WindowSearched == AlignInv /\ WindowEnds => AlignInv'
<1> SUFFICES ASSUME AlignInv, WindowEnds PROVE AlignInv'
  OBVIOUS
<1> USE DEF AlignInv
<1>1. anchors \in Seq(Anchors) /\ Len(anchors) \in Nat
  BY DEF AlignTypeOK
<1>2. /\ aligning = "scan" /\ aligning' = "next" /\ Len(ranks) = Len(anchors)
      /\ UNCHANGED <<anchors, lowers, lower, ranks, trails, best, bestRank>>
  BY DEF WindowEnds
<1>0. \A c : RankOf(c)' = RankOf(c)
  BY <1>2 DEF RankOf, Support
<1>3. AlignTypeOK' /\ Ascends' /\ Abreast' /\ Highest'
  BY <1>2 DEF AlignTypeOK, Ascends, Abreast, Highest, Better
<1>4. Trailing' /\ Prolonged' /\ Lead'
  <2>1. Trailing'
    BY <1>0, <1>2 DEF Trailing, EndsAt, Within
  <2>2. Prolonged'
    BY <1>0, <1>2 DEF Prolonged, Fenced, Better
  <2>3. Lead'
    BY <1>2 DEF Lead, RankOf, Support
  <2> QED
    BY <2>1, <2>2, <2>3
<1>5. Searched'
  <2> SUFFICES ASSUME NEW i \in 1..Len(anchors), Offset(anchors[i]) \notin Open',
                      NEW c \in ChainsIn(anchors), Fenced(c, Offset(anchors[i]))
               PROVE  ~Better(RankOf(c), bestRank)
    BY <1>0, <1>2 DEF Searched, Fenced, Better
  <2>1. CASE Offset(anchors[i]) \notin Open
    BY <2>1 DEF Searched
  <2>2. CASE Offset(anchors[i]) \in Open
    <3>1. Offset(anchors[i]) = lower
      BY <1>2, <2>2 DEF Open
    <3>2. c[Len(c)] \in 1..Len(ranks) /\ Len(c) \in Nat
      BY <1>1, <1>2, ChainFacts
    <3>3. ~Better(RankOf(c), ranks[c[Len(c)]])
      BY <1>1, <1>2, <3>1, <3>2 DEF Prolonged
    <3>4. ~Better(ranks[c[Len(c)]], bestRank)
      BY <3>2 DEF Highest
    <3>5. ranks[c[Len(c)]] \in Ranks /\ bestRank \in Ranks
      BY <3>2 DEF AlignTypeOK
    <3>6. RankOf(c) \in Ranks
      BY <1>1, ChainRank
    <3> QED
      BY <3>3, <3>4, <3>5, <3>6, NoBetter
  <2> QED
    BY <2>1, <2>2
<1> QED
  BY <1>3, <1>4, <1>5

(* What is recorded of an anchor must say: its trail leads to it, and no     *)
(* chain of the window that ends there has a better rank.                    *)
LEMMA Recorded ==
    ASSUME AlignInv, aligning = "scan", NEW i \in 1..Len(anchors), i = Len(ranks) + 1,
           NEW trail \in Seq(Nat), NEW rank \in Ranks, Record(trail, rank),
           IF Within(anchors[i]) THEN EndsAt(trail, i) /\ rank = RankOf(trail)
                                 ELSE rank = NoRank,
           \A c \in ChainsIn(anchors) :
              Fenced(c, lower) /\ c[Len(c)] = i => ~Better(RankOf(c), rank)
    PROVE  AlignInv'
<1> USE DEF AlignInv
<1>1. /\ anchors \in Seq(Anchors) /\ Len(anchors) \in Nat /\ i \in Nat
      /\ ranks \in Seq(Ranks) /\ trails \in Seq(Seq(Nat))
      /\ Len(ranks) \in Nat /\ Len(trails) = Len(ranks)
  BY DEF AlignTypeOK, Abreast
<1>2. /\ UNCHANGED <<anchors, aligning, lowers, lower>>
      /\ ranks' = Append(ranks, rank) /\ trails' = Append(trails, trail)
  BY DEF Record
<1>3. /\ Len(ranks') = i /\ Len(trails') = i
      /\ ranks'[i] = rank /\ trails'[i] = trail
      /\ \A k \in 1..Len(ranks) : ranks'[k] = ranks[k] /\ trails'[k] = trails[k]
  BY <1>1, <1>2
<1>0. \A c : RankOf(c)' = RankOf(c)
  BY <1>2 DEF RankOf, Support
<1>4. bestRank \in Ranks
  BY DEF AlignTypeOK
<1>5. /\ ~Better(bestRank, bestRank') /\ ~Better(rank, bestRank')
      /\ bestRank' \in Ranks /\ best' \in Seq(Nat)
  <2>1. CASE Better(rank, bestRank)
    <3>1. bestRank' = rank /\ best' = trail
      BY <2>1 DEF Record
    <3>2. ~Better(bestRank, rank) /\ ~Better(rank, rank)
      BY <1>4, <2>1, BetterOnce, RankFacts
    <3> QED
      BY <3>1, <3>2
  <2>2. CASE ~Better(rank, bestRank)
    <3>1. bestRank' = bestRank /\ best' = best
      BY <2>2 DEF Record
    <3>2. ~Better(bestRank, bestRank) /\ best \in Seq(Nat)
      BY <1>4, RankFacts DEF AlignTypeOK
    <3> QED
      BY <1>4, <2>2, <3>1, <3>2
  <2> QED
    BY <2>1, <2>2
<1>7. AlignTypeOK'
  BY <1>2, <1>5 DEF AlignTypeOK
<1>8. Ascends' /\ Abreast'
  BY <1>1, <1>2, <1>3 DEF Ascends, Abreast
<1>9. \A k \in 1..i : k = i \/ k \in 1..Len(ranks)
  BY <1>1
<1>a. \A a : Within(a)' = Within(a)
  BY <1>2 DEF Within
<1>b. \A t, k : EndsAt(t, k)' = EndsAt(t, k)
  BY <1>2, <1>a DEF EndsAt
<1>10. Trailing'
  <2> SUFFICES ASSUME NEW k \in 1..i, Within(anchors[k])
               PROVE  EndsAt(trails'[k], k) /\ ranks'[k] = RankOf(trails'[k])
    BY <1>0, <1>2, <1>3, <1>a, <1>b DEF Trailing
  <2>1. CASE k = i
    BY <1>3, <2>1
  <2>2. CASE k \in 1..Len(ranks)
    <3>1. EndsAt(trails[k], k) /\ ranks[k] = RankOf(trails[k])
      BY <2>2 DEF Trailing
    <3>2. trails'[k] = trails[k] /\ ranks'[k] = ranks[k]
      BY <1>3, <2>2
    <3> QED
      BY <3>1, <3>2
  <2> QED
    BY <1>9, <2>1, <2>2
<1>11. Lead'
  <2>1. CASE Better(rank, bestRank)
    <3>1. Within(anchors[i])
      <4>1. SUFFICES ASSUME rank = NoRank PROVE FALSE
        OBVIOUS
      <4>2. bestRank[1] \in Nat /\ bestRank[2] \in Nat
        BY <1>4, RankFacts
      <4> QED
        BY <2>1, <4>1, <4>2 DEF Better, NoRank
    <3>2. trail \in ChainsIn(anchors) /\ rank = RankOf(trail)
      BY <3>1, TrailIsChain
    <3>3. best' = trail /\ bestRank' = rank
      BY <2>1 DEF Record
    <3>4. RankOf(best)' = RankOf(trail)
      BY <1>2, <3>3 DEF RankOf, Support
    <3> QED
      BY <1>2, <3>2, <3>3, <3>4 DEF Lead
  <2>2. CASE ~Better(rank, bestRank)
    <3>1. best' = best /\ bestRank' = bestRank
      BY <2>2 DEF Record
    <3>2. RankOf(best)' = RankOf(best)
      BY <1>2, <3>1 DEF RankOf, Support
    <3> QED
      BY <1>2, <3>1, <3>2 DEF Lead
  <2> QED
    BY <2>1, <2>2
<1>12. Highest'
  <2> SUFFICES ASSUME NEW k \in 1..i PROVE ~Better(ranks'[k], bestRank')
    BY <1>3 DEF Highest, Better
  <2>1. CASE k = i
    BY <1>3, <1>5, <2>1
  <2>2. CASE k \in 1..Len(ranks)
    <3>1. ranks'[k] = ranks[k] /\ ranks[k] \in Ranks /\ ~Better(ranks[k], bestRank)
      BY <1>1, <1>3, <2>2 DEF Highest
    <3> QED
      BY <1>4, <1>5, <3>1, NoBetter
  <2> QED
    BY <1>9, <2>1, <2>2
<1>13. Prolonged'
  <2> SUFFICES ASSUME NEW c \in ChainsIn(anchors), Fenced(c, lower), c[Len(c)] <= i
               PROVE  ~Better(RankOf(c), ranks'[c[Len(c)]])
    BY <1>0, <1>2, <1>3 DEF Prolonged, Fenced, Better
  <2>1. c[Len(c)] \in 1..i
    <3>1. Len(c) \in 1..Len(c) /\ c \in [1..Len(c) -> 1..Len(anchors)]
      BY <1>1, ChainFacts
    <3>2. c[Len(c)] \in 1..Len(anchors)
      BY <3>1
    <3> QED
      BY <1>1, <3>2
  <2>2. CASE c[Len(c)] = i
    BY <1>3, <2>2
  <2>3. CASE c[Len(c)] \in 1..Len(ranks)
    <3>1. c[Len(c)] <= Len(ranks) /\ ranks'[c[Len(c)]] = ranks[c[Len(c)]]
      BY <1>1, <1>3, <2>3
    <3> QED
      BY <3>1 DEF Prolonged
  <2> QED
    BY <1>9, <2>1, <2>2, <2>3
<1>14. Searched'
  <2> SUFFICES ASSUME NEW k \in 1..Len(anchors), Offset(anchors[k]) \notin Open,
                      NEW c \in ChainsIn(anchors), Fenced(c, Offset(anchors[k]))
               PROVE  ~Better(RankOf(c), bestRank')
    BY <1>0, <1>2 DEF Searched, Open, Fenced, Better
  <2>1. ~Better(RankOf(c), bestRank)
    BY DEF Searched
  <2>2. RankOf(c) \in Ranks
    BY <1>1, ChainRank
  <2> QED
    BY <1>4, <1>5, <2>1, <2>2, NoBetter
<1> QED
  BY <1>7, <1>8, <1>10, <1>11, <1>12, <1>13, <1>14

(* Each way of scanning an anchor records what Recorded asks for.            *)
LEMMA Scanned == AlignInv /\ Scan => AlignInv'
<1> SUFFICES ASSUME AlignInv, Scan PROVE AlignInv'
  OBVIOUS
<1> DEFINE i == Len(ranks) + 1
<1>1. /\ AlignTypeOK /\ Ascends /\ Abreast /\ Trailing /\ Prolonged
      /\ anchors \in Seq(Anchors) /\ Len(anchors) \in Nat
      /\ ranks \in Seq(Ranks) /\ trails \in Seq(Seq(Nat))
      /\ Len(ranks) \in Nat /\ Len(trails) = Len(ranks)
  BY DEF AlignInv, AlignTypeOK, Abreast
<1>2. i \in 1..Len(anchors) /\ aligning = "scan" /\ i \in Nat
  BY <1>1 DEF Scan
<1>3. /\ anchors[i].q \in Nat /\ anchors[i].r \in Nat /\ anchors[i].support \in Nat
  BY <1>1, <1>2, AnchorFacts
<1>4. \A c \in ChainsIn(anchors) :
         /\ Len(c) \in Nat /\ Len(c) >= 1
         /\ Fenced(c, lower) => Within(anchors[c[Len(c)]])
  <2> SUFFICES ASSUME NEW c \in ChainsIn(anchors)
               PROVE  /\ Len(c) \in Nat /\ Len(c) >= 1
                      /\ Fenced(c, lower) => Within(anchors[c[Len(c)]])
    OBVIOUS
  <2>1. Len(c) \in Nat /\ Len(c) >= 1 /\ Len(c) \in 1..Len(c)
    BY <1>1, ChainFacts
  <2> QED
    BY <2>1 DEF Fenced, Within
<1>9. \A c : Len(c) = 1 /\ c[1] = i => Support(c) = anchors[i].support
  BY <1>3, SupportOne
<1> HIDE DEF i
<1>5. CASE ~Within(anchors[i]) /\ Record(<<>>, NoRank)
  <2>1. \A c \in ChainsIn(anchors) :
           Fenced(c, lower) /\ c[Len(c)] = i => ~Better(RankOf(c), NoRank)
    BY <1>4, <1>5
  <2>2. NoRank \in Ranks /\ <<>> \in Seq(Nat)
    BY DEF NoRank, Ranks
  <2> QED
    BY <1>2, <1>5, <2>1, <2>2, Recorded DEF i
<1>6. CASE Within(anchors[i]) /\ Predecessors(i) = {}
           /\ Record(<<i>>, <<1, anchors[i].support>>)
  <2> DEFINE rank == <<1, anchors[i].support>>
  <2>1. rank \in Ranks /\ rank[1] = 1 /\ <<i>> \in Seq(Nat)
    BY <1>2, <1>3 DEF Ranks
  <2>2. EndsAt(<<i>>, i) /\ rank = RankOf(<<i>>)
    <3>1. EndsAt(<<i>>, i)
      BY <1>2, <1>6 DEF EndsAt
    <3>2. Len(<<i>>) = 1 /\ <<i>>[1] = i
      OBVIOUS
    <3> QED
      BY <1>3, <3>1, <3>2, <1>9 DEF RankOf
  <2>3. \A c \in ChainsIn(anchors) :
           Fenced(c, lower) /\ c[Len(c)] = i => ~Better(RankOf(c), rank)
    <3> SUFFICES ASSUME NEW c \in ChainsIn(anchors), Fenced(c, lower), c[Len(c)] = i
                 PROVE  RankOf(c) = rank
      BY <2>1, RankFacts
    <3>1. ~(Len(c) > 1)
      BY <1>1, <1>6, Nearer
    <3>2. Len(c) = 1
      <4>1. Len(c) \in Nat /\ Len(c) >= 1
        BY <1>4, Zenon
      <4> QED
        BY <3>1, <4>1, OneLong, Zenon
    <3> QED
      BY <1>3, <3>2, <1>9 DEF RankOf
  <2> HIDE DEF rank
  <2>4. Record(<<i>>, rank)
    BY <1>6 DEF rank
  <2> QED
    BY <1>2, <1>6, <2>1, <2>2, <2>3, <2>4, Recorded DEF i
<1>7. CASE Within(anchors[i]) /\ \E j \in Predecessors(i) :
              Chosen(j, i) /\ Record(Append(trails[j], i), Proposed(j, i))
  <2>1. PICK j \in Predecessors(i) :
              Chosen(j, i) /\ Record(Append(trails[j], i), Proposed(j, i))
    BY <1>7
  <2> DEFINE rank == Proposed(j, i)
             trail == Append(trails[j], i)
  <2>2. /\ \A k \in Predecessors(i) : k \in 1..Len(ranks) /\ Within(anchors[k])
        /\ Follows(i, j)
    BY <1>1 DEF Predecessors, i
  <2>3. \A k \in Predecessors(i) : ranks[k][1] \in Nat /\ ranks[k][2] \in Nat
    <3> SUFFICES ASSUME NEW k \in 1..Len(ranks)
                 PROVE  ranks[k][1] \in Nat /\ ranks[k][2] \in Nat
      BY <2>2
    <3>1. ranks[k] \in Ranks
      BY <1>1
    <3> QED
      BY <3>1 DEF Ranks
  <2>4. \A k \in Predecessors(i) :
            /\ Proposed(k, i) \in Ranks
            /\ Proposed(k, i)[1] = ranks[k][1] + 1
            /\ Proposed(k, i)[2] = ranks[k][2] + anchors[i].support
            /\ ~Better(Proposed(k, i), rank)
    <3> SUFFICES ASSUME NEW k \in Predecessors(i)
                 PROVE  /\ Proposed(k, i) \in Ranks
                        /\ Proposed(k, i)[1] = ranks[k][1] + 1
                        /\ Proposed(k, i)[2] = ranks[k][2] + anchors[i].support
                        /\ ~Better(Proposed(k, i), rank)
      OBVIOUS
    <3>1. ~Better(Proposed(k, i), rank)
      BY <2>1 DEF Chosen
    <3>2. ranks[k][1] \in Nat /\ ranks[k][2] \in Nat
      BY <2>3
    <3> QED
      BY <1>3, <3>1, <3>2 DEF Proposed, Ranks
  <2>5. rank \in Ranks /\ rank[1] = ranks[j][1] + 1
    BY <2>4
  <2>6. EndsAt(trails[j], j) /\ ranks[j] = RankOf(trails[j]) /\ trails[j] \in Seq(Nat)
    <3>1. j \in 1..Len(ranks) /\ Within(anchors[j])
      BY <2>2
    <3>2. trails[j] \in Seq(Nat)
      BY <1>1, <3>1
    <3> QED
      BY <1>1, <3>1, <3>2 DEF Trailing
  <2>7. trail \in Seq(Nat) /\ RankOf(trail) = rank
    <3>1. /\ trail \in Seq(Nat) /\ Len(trail) = Len(trails[j]) + 1
          /\ Len(trails[j]) \in Nat /\ trail[Len(trail)] = i
          /\ \A k \in 1..Len(trails[j]) : trails[j][k] = trail[k]
      BY <1>2, <2>6
    <3> HIDE DEF trail
    <3>2. Support(trail) = Support(trails[j]) + anchors[i].support
      BY <3>1, SupportGrows
    <3>3. ranks[j][1] = Len(trails[j]) /\ ranks[j][2] = Support(trails[j])
      BY <2>6 DEF RankOf
    <3> QED
      BY <3>1, <3>2, <3>3 DEF RankOf, Proposed
  <2>8. EndsAt(trail, i)
    <3>1. j \in 1..(i - 1) /\ j \in Nat
      BY <1>2 DEF Predecessors
    <3>2. Len(trails[j]) \in Nat /\ Len(trails[j]) \in 1..j
      BY <2>6 DEF EndsAt
    <3>3. /\ Len(trail) = Len(trails[j]) + 1 /\ trail[Len(trail)] = i
          /\ \A k \in 1..Len(trails[j]) : trail[k] = trails[j][k]
      BY <1>2, <2>6, <3>2
    <3>4. Len(trail) \in 1..i
      BY <1>2, <3>1, <3>2, <3>3
    <3>5. \A k \in 1..Len(trail) : k = Len(trail) \/ k \in 1..Len(trails[j])
      BY <3>2, <3>3
    <3>6. \A k \in 1..Len(trail) : trail[k] \in 1..i /\ Within(anchors[trail[k]])
      <4> SUFFICES ASSUME NEW k \in 1..Len(trail)
                   PROVE  trail[k] \in 1..i /\ Within(anchors[trail[k]])
        OBVIOUS
      <4>1. CASE k = Len(trail)
        BY <1>2, <1>7, <3>3, <4>1
      <4>2. CASE k \in 1..Len(trails[j])
        <5>1. trail[k] \in 1..j /\ Within(anchors[trail[k]])
          BY <2>6, <3>3, <4>2 DEF EndsAt
        <5> QED
          BY <1>2, <3>1, <5>1
      <4> QED
        BY <3>5, <4>1, <4>2
    <3>7. Separated(anchors[j], anchors[i])
      <4>1. j \in 1..Len(anchors)
        BY <1>2, <3>1
      <4>2. /\ anchors[j].q \in Nat /\ anchors[j].r \in Nat /\ Separation \in Nat
        BY <1>1, <4>1, AnchorFacts, ChainsAssumption
      <4>3. /\ anchors[i].q >= anchors[j].q + Separation
            /\ anchors[i].r >= anchors[j].r + Separation
        BY <2>2 DEF Follows
      <4>4. /\ anchors[i].q - anchors[j].q >= Separation
            /\ anchors[i].r - anchors[j].r >= Separation
        BY <1>3, <4>2, <4>3
      <4> QED
        BY <4>4 DEF Separated
    <3>8. \A k \in 1..(Len(trail) - 1) : Separated(anchors[trail[k]], anchors[trail[k + 1]])
      <4> SUFFICES ASSUME NEW k \in 1..Len(trails[j])
                   PROVE  Separated(anchors[trail[k]], anchors[trail[k + 1]])
        BY <3>2, <3>3
      <4>1. CASE k = Len(trails[j])
        <5>1. trail[k] = j
          BY <2>6, <3>3, <4>1 DEF EndsAt
        <5>2. trail[k + 1] = i
          BY <3>3, <4>1
        <5> QED
          BY <3>7, <5>1, <5>2
      <4>2. CASE k # Len(trails[j])
        <5>1. k \in 1..(Len(trails[j]) - 1) /\ k + 1 \in 1..Len(trails[j])
          BY <3>2, <4>2
        <5>2. Separated(anchors[trails[j][k]], anchors[trails[j][k + 1]])
          BY <2>6, <5>1 DEF EndsAt
        <5> QED
          BY <3>3, <5>1, <5>2
      <4> QED
        BY <4>1, <4>2
    <3> HIDE DEF trail
    <3> QED
      BY <3>3, <3>4, <3>6, <3>8 DEF EndsAt
  <2>9. \A c \in ChainsIn(anchors) :
           Fenced(c, lower) /\ c[Len(c)] = i => ~Better(RankOf(c), rank)
    <3> SUFFICES ASSUME NEW c \in ChainsIn(anchors), Fenced(c, lower), c[Len(c)] = i
                 PROVE  ~Better(RankOf(c), rank)
      OBVIOUS
    <3>0. RankOf(c) \in Ranks /\ RankOf(c)[1] = Len(c) /\ RankOf(c)[2] = Support(c)
      BY <1>1, ChainRank
    <3>1. CASE Len(c) > 1
      <4>1. PICK d \in ChainsIn(anchors) :
                /\ Fenced(d, lower) /\ Len(d) = Len(c) - 1
                /\ d[Len(d)] \in Predecessors(i)
                /\ Support(c) = Support(d) + anchors[i].support
        BY <1>1, <3>1, Nearer
      <4> DEFINE k == d[Len(d)]
      <4>2. k \in 1..Len(ranks)
        BY <2>2, <4>1
      <4>3. k <= Len(ranks)
        BY <1>1, <4>2
      <4>4. ~Better(RankOf(d), ranks[k])
        BY <1>1, <4>1, <4>3 DEF Prolonged
      <4>5. k \in Predecessors(i)
        BY <4>1
      <4> HIDE DEF k
      <4>6. RankOf(d) \in Ranks /\ RankOf(d)[1] = Len(d) /\ RankOf(d)[2] = Support(d)
        BY <1>1, <4>1, ChainRank
      <4>7. ~Better(RankOf(c), Proposed(k, i))
        <5>1. Len(d) \in Nat /\ Support(d) \in Nat /\ Len(c) = Len(d) + 1
          BY <1>4, <4>1, <4>6, RankFacts
        <5>2. ranks[k][1] \in Nat /\ ranks[k][2] \in Nat
          BY <2>3, <4>5
        <5>3. ~(Len(d) > ranks[k][1] \/ (Len(d) = ranks[k][1] /\ Support(d) > ranks[k][2]))
          BY <4>4, <4>6 DEF Better
        <5>4. /\ Proposed(k, i)[1] = ranks[k][1] + 1
              /\ Proposed(k, i)[2] = ranks[k][2] + anchors[i].support
          BY <2>4, <4>5
        <5>5. RankOf(c)[1] = Len(d) + 1 /\ RankOf(c)[2] = Support(d) + anchors[i].support
          BY <3>0, <4>1, <5>1
        <5>6. anchors[i].support \in Nat
          BY <1>3
        <5> QED
          BY <5>1, <5>2, <5>3, <5>4, <5>5, <5>6, NotLonger, Zenon
      <4>8. Proposed(k, i) \in Ranks /\ ~Better(Proposed(k, i), rank)
        BY <2>4, <4>5
      <4> QED
        BY <2>5, <3>0, <4>7, <4>8, NoBetter
    <3>2. CASE ~(Len(c) > 1)
      <4>1. Len(c) = 1
        <5>1. Len(c) \in Nat /\ Len(c) >= 1
          BY <1>4, Zenon
        <5> QED
          BY <3>2, <5>1, OneLong, Zenon
      <4>2. ranks[j][1] = Len(trails[j]) /\ Len(trails[j]) >= 1 /\ Len(trails[j]) \in Nat
        BY <2>6 DEF RankOf, EndsAt
      <4>3. rank[1] > 1
        BY <2>5, <4>2
      <4>4. rank[1] \in Nat
        BY <2>5, RankFacts
      <4> HIDE DEF rank
      <4> QED
        BY <3>0, <4>1, <4>3, <4>4 DEF Better
    <3> QED
      BY <3>1, <3>2
  <2>10. Record(trail, rank)
    BY <2>1
  <2> HIDE DEF trail, rank
  <2> QED
    BY <1>2, <1>7, <2>5, <2>7, <2>8, <2>9, <2>10, Recorded DEF i
<1> QED
  BY <1>5, <1>6, <1>7 DEF Scan, i

(* The invariant holds in every state.                                       *)
LEMMA AlignHolds == AlignSpec => []AlignInv
<1>1. AlignInit => AlignInv
  BY AlignStarted
<1>2. AlignInv /\ [AlignNext]_alignVars => AlignInv'
  <2> SUFFICES ASSUME AlignInv, [AlignNext]_alignVars PROVE AlignInv'
    OBVIOUS
  <2>1. CASE NextWindow
    BY <2>1, WindowOpens
  <2>2. CASE Scan
    BY <2>2, Scanned
  <2>3. CASE WindowEnds
    BY <2>3, WindowSearched
  <2>4. CASE AlignReturned \/ UNCHANGED alignVars
    <3>1. UNCHANGED <<anchors, aligning, lowers, lower, ranks, trails, best, bestRank>>
      BY <2>4 DEF AlignReturned, alignVars
    <3>2. AlignTypeOK' /\ Ascends' /\ Abreast'
      BY <3>1 DEF AlignInv, AlignTypeOK, Ascends, Abreast
    <3>7. \A c : RankOf(c)' = RankOf(c)
      BY <3>1 DEF RankOf, Support
    <3>3. Trailing'
      BY <3>1, <3>7 DEF AlignInv, Trailing, EndsAt, Within
    <3>4. Lead' /\ Highest'
      <4>1. Lead'
        BY <3>1 DEF AlignInv, Lead, RankOf, Support
      <4> QED
        BY <3>1, <4>1 DEF AlignInv, Highest, Better
    <3>5. Prolonged'
      BY <3>1, <3>7 DEF AlignInv, Prolonged, Fenced, Better
    <3>6. Searched'
      BY <3>1, <3>7 DEF AlignInv, Searched, Fenced, Open, Better
    <3> QED
      BY <3>2, <3>3, <3>4, <3>5, <3>6 DEF AlignInv
  <2> QED
    BY <2>1, <2>2, <2>3, <2>4 DEF AlignNext
<1> QED
  BY <1>1, <1>2, PTL DEF AlignSpec

-----------------------------------------------------------------------------
(* align's variables keep their types.                                       *)
THEOREM AlignTyped == AlignSpec => []AlignTypeOK
<1>1. AlignInv => AlignTypeOK
  BY DEF AlignInv
<1> QED
  BY <1>1, AlignHolds, PTL

(* What align holds as the best is a chain: within the spread, in order and  *)
(* separated in both transcripts, and as long as its rank says.              *)
LEMMA AlignFindsChain == AlignSpec => []BestIsChain
<1>1. AlignInv => BestIsChain
  BY DEF AlignInv, Lead, BestIsChain, RankOf
<1> QED
  BY <1>1, AlignHolds, PTL

(* When the last window has been scanned, no chain of the anchors has a      *)
(* better rank than the one returned: the least offset of a chain opens a    *)
(* window that holds all of it.                                              *)
LEMMA NoChainBetter == AlignInv => BestSupported
<1>0. ASSUME AlignInv PROVE bestRank = RankOf(best)
  BY <1>0 DEF AlignInv, Lead
<1>1. ASSUME AlignInv, Aligned, NEW c \in ChainsIn(anchors)
      PROVE  ~Better(RankOf(c), bestRank)
  <2> USE <1>1
  <2> DEFINE f == [k \in 1..Len(c) |-> Offset(anchors[c[k]])]
  <2>1. anchors \in Seq(Anchors)
    BY DEF AlignInv, AlignTypeOK
  <2>2. /\ Len(c) \in Nat /\ Len(c) >= 1 /\ IsChain(anchors, c)
        /\ \A k \in 1..Len(c) : c[k] \in 1..Len(anchors)
    BY <2>1, ChainFacts
  <2>3. f \in [1..Len(c) -> Int]
    BY <2>1, <2>2, AnchorFacts
  <2>4. IsFiniteSet(1..Len(c)) /\ 1..Len(c) # {}
    <3>1. 1 \in 1..Len(c)
      BY <2>2
    <3>2. 1 \in Int /\ Len(c) \in Int
      BY <2>2
    <3> QED
      BY <3>1, <3>2, FS_Interval
  <2>5. PICK m \in 1..Len(c) : \A k \in 1..Len(c) : f[m] <= f[k]
    <3> HIDE DEF f
    <3> QED
      BY <2>3, <2>4, LeastOf
  <2> DEFINE low == Offset(anchors[c[m]])
  <2>6. Fenced(c, low)
    <3> SUFFICES ASSUME NEW k \in 1..Len(c)
                 PROVE  /\ Offset(anchors[c[k]]) >= low
                        /\ Offset(anchors[c[k]]) <= low + Spread
      BY DEF Fenced
    <3>1. Offset(anchors[c[k]]) \in Int /\ low \in Int /\ Spread \in Int
      BY <2>1, <2>2, AnchorFacts, ChainsAssumption
    <3>2. low <= Offset(anchors[c[k]])
      BY <2>5
    <3>3. Offset(anchors[c[k]]) - low <= Spread
      BY <2>2 DEF IsChain
    <3> HIDE DEF low
    <3> QED
      BY <3>1, <3>2, <3>3
  <2>7. low \notin Open
    BY DEF Aligned, Open
  <2> QED
    BY <2>2, <2>6, <2>7 DEF AlignInv, Searched
<1> QED
  BY <1>0, <1>1 DEF BestSupported

(* So none is longer.                                                        *)
LEMMA NoChainLonger == AlignSpec => []NoLongerChain
<1>1. AlignInv => NoLongerChain
  <2> SUFFICES ASSUME AlignInv, Aligned, NEW c \in ChainsIn(anchors)
               PROVE  Len(c) <= Len(best)
    BY DEF NoLongerChain
  <2>1. bestRank = RankOf(best) /\ ~Better(RankOf(c), bestRank)
    BY NoChainBetter DEF BestSupported
  <2>2. anchors \in Seq(Anchors) /\ bestRank \in Ranks
    BY DEF AlignInv, AlignTypeOK
  <2>3. RankOf(c)[1] = Len(c) /\ Len(c) \in Nat /\ bestRank[1] \in Nat
    BY <2>2, ChainRank, ChainFacts, RankFacts
  <2>4. bestRank[1] = Len(best)
    BY <2>1 DEF RankOf
  <2> QED
    BY <2>1, <2>3, <2>4 DEF Better
<1> QED
  BY <1>1, AlignHolds, PTL

(* For every list of anchors, separation and spread, align returns a chain   *)
(* of the anchors and none of their chains is longer.                        *)
THEOREM AlignFindsLongest == AlignSpec => []BestIsLongest
<1>1. BestIsChain /\ NoLongerChain => BestIsLongest
  BY DEF BestIsLongest
<1> QED
  BY <1>1, AlignFindsChain, NoChainLonger, PTL

(* For every list of anchors, what align returns has the rank it was given,  *)
(* and no chain as long has more shingles: the tuples (length, support) are  *)
(* compared from the left.                                                   *)
THEOREM AlignFindsBestSupported == AlignSpec => []BestSupported
  BY NoChainBetter, AlignHolds, PTL

-----------------------------------------------------------------------------
(* Matching: the inductive invariant.                                        *)

(* While the index is built: what has been visited is known, and known to be *)
(* shared if it is.                                                          *)
Said(id, s) == s \in ShinglesOf(Text(id))
Listed == \A entry \in todo :
    \E id \in Ids : \E s \in ShinglesOf(Text(id)) : entry = <<id, s>>
Noted == \A s \in DOMAIN known :
    /\ known[s].owners \in Nat \ {0}
    /\ known[s].id \in Ids /\ Said(known[s].id, s)
    /\ <<known[s].id, s>> \notin todo
Visited == \A id \in Ids : \A s \in ShinglesOf(Text(id)) :
    <<id, s>> \notin todo =>
        s \in DOMAIN known /\ (known[s].id = id \/ known[s].owners > 1)
Indexing == matching = "index" => Listed /\ Noted /\ Visited
Empty == matching = "given" => known = <<>>

(* Afterwards: what tells a reference apart is said by no other.             *)
Apart == \A s \in DOMAIN postings :
    /\ postings[s].id \in Ids /\ Said(postings[s].id, s)
    /\ \A other \in Ids \ {postings[s].id} : ~Said(other, s)

(* Each result rests on one before it.                                       *)
Paired == \A key \in DOMAIN pairs : \E s \in DOMAIN postings : postings[s].id = key[1]
Considered == \A c \in candidates : \E key \in DOMAIN pairs : key[1] = c.id
Concluded == verdict.is = "identified" => \E c \in candidates : c.id = verdict.id

Early == matching \in {"given", "index"} =>
    postings = <<>> /\ pairs = <<>> /\ candidates = {} /\ verdict = Plainly("none")

MatchingInv == Indexing /\ Empty /\ Early /\ Apart /\ Paired /\ Considered /\ Concluded

-----------------------------------------------------------------------------
(* Returning anything but a verdict keeps the invariant.                     *)
LEMMA ReturnsPlainly ==
    ASSUME MatchingInv, NEW what, what # "identified", Return(Plainly(what))
    PROVE  MatchingInv'
<1>1. /\ matching' = "done" /\ verdict' = Plainly(what)
      /\ UNCHANGED <<case, todo, known, postings, pairs, candidates>>
  BY DEF Return
<1>2. Indexing' /\ Empty' /\ Early'
  BY <1>1 DEF Indexing, Empty, Early
<1>3. Apart' /\ Paired' /\ Considered'
  <2>1. Ids' = Ids /\ \A i : Text(i)' = Text(i)
    BY <1>1 DEF Ids, Text, References
  <2> QED
    BY <1>1, <2>1 DEF MatchingInv, Apart, Paired, Considered, Said
<1>4. Concluded'
  BY <1>1 DEF Concluded, Plainly
<1> QED
  BY <1>2, <1>3, <1>4 DEF MatchingInv

(* Nothing is known, paired or concluded at first.                           *)
LEMMA MatchingStarted == MatchingInit => MatchingInv
<1> SUFFICES ASSUME MatchingInit PROVE MatchingInv
  OBVIOUS
<1>1. DOMAIN postings = {} /\ DOMAIN pairs = {} /\ candidates = {}
  BY DEF MatchingInit
<1>2. verdict.is # "identified"
  BY DEF MatchingInit, Plainly
<1> QED
  BY <1>1, <1>2 DEF MatchingInit, MatchingInv, Indexing, Empty, Early, Apart, Paired, Considered, Concluded

(* When the index is begun, everything is still to be visited.               *)
LEMMA Begun == MatchingInv /\ Given => MatchingInv'
<1> SUFFICES ASSUME MatchingInv, Given PROVE MatchingInv'
  OBVIOUS
<1>1. CASE \E what \in Errors : Return(Plainly(what))
  BY <1>1, ReturnsPlainly DEF Errors
<1>2. CASE /\ matching' = "index"
           /\ todo' = UNION {{id} \X ShinglesOf(Text(id)) : id \in Ids}
           /\ UNCHANGED <<case, known, postings, pairs, candidates, verdict>>
  <2>1. Ids' = Ids /\ \A id : Text(id)' = Text(id)
    BY <1>2 DEF Ids, Text, References
  <2>2. known' = <<>> /\ DOMAIN known' = {}
    <3>1. matching = "given" /\ known' = known
      BY <1>2 DEF Given
    <3>2. known = <<>>
      BY <3>1 DEF MatchingInv, Empty
    <3> QED
      BY <3>1, <3>2
  <2>3. Listed'
    BY <1>2, <2>1 DEF Listed
  <2>4. Noted'
    BY <2>2 DEF Noted
  <2>5. Visited'
    BY <1>2, <2>1 DEF Visited
  <2>6. Apart' /\ Paired' /\ Considered' /\ Concluded'
    BY <1>2, <2>1 DEF MatchingInv, Apart, Paired, Considered, Concluded, Said
  <2>7. Early' /\ Empty'
    BY <1>2 DEF Given, MatchingInv, Early, Empty
  <2> QED
    BY <1>2, <2>3, <2>4, <2>5, <2>6, <2>7 DEF MatchingInv, Indexing
<1> QED
  BY <1>1, <1>2 DEF Given, Errors

(* Visiting a shingle makes it known as said by its reference or, if it was, *)
(* as shared.                                                                *)
LEMMA Counted == MatchingInv /\ CountShingle => MatchingInv'
<1> SUFFICES ASSUME MatchingInv, CountShingle PROVE MatchingInv'
  OBVIOUS
<1>1. PICK entry \in todo :
         \/ Return(Plainly("index shingles"))
         \/ /\ known' = With(known, entry[2], IF entry[2] \in DOMAIN known
                                             THEN SeenAgain(entry[2])
                                             ELSE Seen(entry[1], entry[2]))
            /\ todo' = todo \ {entry}
            /\ UNCHANGED <<case, matching, postings, pairs, candidates, verdict>>
  BY DEF CountShingle
<1>2. CASE Return(Plainly("index shingles"))
  BY <1>2, ReturnsPlainly
<1>3. ASSUME ~Return(Plainly("index shingles")) PROVE MatchingInv'
  <2>1. matching = "index" /\ Listed /\ Noted /\ Visited
    BY DEF MatchingInv, Indexing, CountShingle
  <2>0. PICK id \in Ids : \E s \in ShinglesOf(Text(id)) : entry = <<id, s>>
    BY <1>1, <2>1 DEF Listed
  <2>2. PICK s \in ShinglesOf(Text(id)) : entry = <<id, s>>
    BY <2>0
  <2>3. /\ known' = With(known, s, IF s \in DOMAIN known THEN SeenAgain(s) ELSE Seen(id, s))
        /\ todo' = todo \ {<<id, s>>}
        /\ UNCHANGED <<case, matching, postings, pairs, candidates, verdict>>
    BY <1>1, <1>3, <2>2
  <2>4. Ids' = Ids /\ \A i : Text(i)' = Text(i)
    BY <2>3 DEF Ids, Text, References
  <2>5. /\ DOMAIN known' = DOMAIN known \union {s}
        /\ \A x \in DOMAIN known \ {s} : known'[x] = known[x]
        /\ known'[s] = IF s \in DOMAIN known THEN SeenAgain(s) ELSE Seen(id, s)
    BY <2>3 DEF With
  <2>6. ASSUME s \in DOMAIN known PROVE Noted' /\ Visited'
    <3>1. known'[s].id = known[s].id /\ known'[s].owners = known[s].owners + 1
      BY <2>5, <2>6 DEF SeenAgain
    <3>2. known[s].owners \in Nat \ {0} /\ known[s].id \in Ids /\ Said(known[s].id, s)
      BY <2>1, <2>6 DEF Noted
    <3>3. Noted'
      <4> SUFFICES ASSUME NEW x \in DOMAIN known
                   PROVE  /\ known'[x].owners \in Nat \ {0}
                          /\ known'[x].id \in Ids /\ Said(known'[x].id, x)
                          /\ <<known'[x].id, x>> \notin todo'
        BY <2>4, <2>5, <2>6 DEF Noted, Said
      <4>1. <<known[x].id, x>> \notin todo /\ known'[x].id = known[x].id
        BY <2>1, <2>5, <3>1 DEF Noted
      <4>2. CASE x = s
        BY <2>3, <3>1, <3>2, <4>1, <4>2
      <4>3. CASE x # s
        BY <2>1, <2>3, <2>5, <4>1, <4>3 DEF Noted
      <4> QED
        BY <4>2, <4>3
    <3>4. Visited'
      <4> SUFFICES ASSUME NEW i \in Ids, NEW x \in ShinglesOf(Text(i)),
                          <<i, x>> \notin todo'
                   PROVE  x \in DOMAIN known' /\ (known'[x].id = i \/ known'[x].owners > 1)
        BY <2>4 DEF Visited
      <4>1. CASE x = s
        BY <2>5, <3>1, <3>2, <4>1
      <4>2. CASE x # s
        <5>1. <<i, x>> \notin todo
          BY <2>3, <4>2
        <5> QED
          BY <2>1, <2>5, <4>2, <5>1 DEF Visited
      <4> QED
        BY <4>1, <4>2
    <3> QED
      BY <3>3, <3>4
  <2>7. ASSUME s \notin DOMAIN known PROVE Noted' /\ Visited'
    <3>1. known'[s].id = id /\ known'[s].owners = 1
      BY <2>5, <2>7 DEF Seen
    <3>3. Noted'
      <4> SUFFICES ASSUME NEW x \in DOMAIN known \union {s}
                   PROVE  /\ known'[x].owners \in Nat \ {0}
                          /\ known'[x].id \in Ids /\ Said(known'[x].id, x)
                          /\ <<known'[x].id, x>> \notin todo'
        BY <2>4, <2>5 DEF Noted, Said
      <4>1. CASE x = s
        BY <2>2, <2>3, <3>1, <4>1 DEF Said
      <4>2. CASE x # s
        BY <2>1, <2>3, <2>5, <4>2 DEF Noted
      <4> QED
        BY <4>1, <4>2
    <3>4. Visited'
      <4> SUFFICES ASSUME NEW i \in Ids, NEW x \in ShinglesOf(Text(i)),
                          <<i, x>> \notin todo'
                   PROVE  x \in DOMAIN known' /\ (known'[x].id = i \/ known'[x].owners > 1)
        BY <2>4 DEF Visited
      <4>1. CASE <<i, x>> \notin todo
        <5>1. x \in DOMAIN known /\ (known[x].id = i \/ known[x].owners > 1)
          BY <2>1, <4>1 DEF Visited
        <5> QED
          BY <2>5, <2>7, <5>1
      <4>2. CASE <<i, x>> \in todo
        <5>1. i = id /\ x = s
          BY <2>3, <4>2
        <5> QED
          BY <2>5, <3>1, <5>1
      <4> QED
        BY <4>1, <4>2
    <3> QED
      BY <3>3, <3>4
  <2>8. Noted' /\ Visited'
    BY <2>6, <2>7
  <2>9. Listed'
    BY <2>1, <2>3, <2>4 DEF Listed
  <2>10. Apart' /\ Paired' /\ Considered' /\ Concluded'
    BY <2>3, <2>4 DEF MatchingInv, Apart, Paired, Considered, Concluded, Said
  <2>11. Early' /\ Empty'
    BY <2>1, <2>3 DEF MatchingInv, Early, Empty
  <2> QED
    BY <2>8, <2>9, <2>10, <2>11 DEF MatchingInv, Indexing
<1> QED
  BY <1>2, <1>3

(* What is left when shared and repeated shingles are suppressed is said by  *)
(* one reference.                                                            *)
LEMMA Suppressed == MatchingInv /\ Suppress => MatchingInv'
<1> SUFFICES ASSUME MatchingInv, Suppress PROVE MatchingInv'
  OBVIOUS
<1>1. /\ matching = "index" /\ todo = {} /\ matching' = "pairs"
      /\ postings' = [s \in Distinctive |-> [id |-> known[s].id, cue |-> known[s].at]]
      /\ UNCHANGED <<case, known, pairs, candidates, verdict>>
  BY DEF Suppress
<1>2. Noted /\ Visited /\ pairs = <<>> /\ candidates = {} /\ verdict = Plainly("none")
  BY <1>1 DEF MatchingInv, Indexing, Early
<1>3. Ids' = Ids /\ \A i : Text(i)' = Text(i)
  BY <1>1 DEF Ids, Text, References
<1>4. Apart'
  <2> SUFFICES ASSUME NEW s \in Distinctive
               PROVE  /\ known[s].id \in Ids /\ Said(known[s].id, s)
                      /\ \A other \in Ids \ {known[s].id} : ~Said(other, s)
    BY <1>1, <1>3 DEF Apart, Said
  <2>1. s \in DOMAIN known /\ known[s].owners = 1
    BY DEF Distinctive
  <2>2. \A other \in Ids : Said(other, s) => known[s].id = other
    BY <1>1, <1>2, <2>1 DEF Visited, Said
  <2> QED
    BY <1>2, <2>1, <2>2 DEF Noted
<1>5. DOMAIN pairs' = {} /\ candidates' = {} /\ verdict'.is # "identified"
  BY <1>1, <1>2 DEF Plainly
<1> QED
  BY <1>1, <1>4, <1>5 DEF MatchingInv, Indexing, Empty, Early, Paired, Considered, Concluded

(* A pair is counted for the reference of a shingle that tells it apart.     *)
LEMMA PairCounted == MatchingInv /\ CountPair => MatchingInv'
<1> SUFFICES ASSUME MatchingInv, CountPair PROVE MatchingInv'
  OBVIOUS
<1>1. CASE Return(Plainly("query candidate cue pairs"))
  BY <1>1, ReturnsPlainly
<1>2. CASE UNCHANGED <<case, matching, known, postings, pairs, candidates, verdict>>
  <2>1. Ids' = Ids /\ \A i : Text(i)' = Text(i)
    BY <1>2 DEF Ids, Text, References
  <2>2. matching = "pairs" /\ matching' = "pairs"
    BY <1>2 DEF CountPair
  <2> QED
    BY <1>2, <2>1, <2>2 DEF MatchingInv, Indexing, Empty, Early, Apart, Paired, Considered,
                            Concluded, Said
<1>3. ASSUME NEW s \in DOMAIN postings, NEW k, NEW l, NEW n,
             /\ pairs' = With(pairs, <<postings[s].id, k, l>>, n)
             /\ UNCHANGED <<case, matching, known, postings, candidates, verdict>>
      PROVE  MatchingInv'
  <2>1. Ids' = Ids /\ \A i : Text(i)' = Text(i)
    BY <1>3 DEF Ids, Text, References
  <2>2. matching = "pairs" /\ matching' = "pairs"
    BY <1>3 DEF CountPair
  <2>3. DOMAIN pairs' = DOMAIN pairs \union {<<postings[s].id, k, l>>}
    BY <1>3 DEF With
  <2>4. Paired' /\ Considered'
    BY <1>3, <2>3 DEF MatchingInv, Paired, Considered
  <2> QED
    BY <1>3, <2>1, <2>2, <2>4 DEF MatchingInv, Indexing, Empty, Early, Apart, Concluded, Said
<1> QED
  <2>1. PICK entry \in todo :
           \/ UNCHANGED <<case, matching, known, postings, pairs, candidates, verdict>>
           \/ /\ entry[1] \in DOMAIN postings
              /\ Pair(entry[1], <<postings[entry[1]].id, CueOf(Query, entry[1]),
                                  postings[entry[1]].cue>>)
    BY DEF CountPair
  <2>2. CASE UNCHANGED <<case, matching, known, postings, pairs, candidates, verdict>>
    BY <1>2, <2>2
  <2>3. CASE /\ entry[1] \in DOMAIN postings
             /\ Pair(entry[1], <<postings[entry[1]].id, CueOf(Query, entry[1]),
                                 postings[entry[1]].cue>>)
    <3> DEFINE s == entry[1]
               key == <<postings[s].id, CueOf(Query, s), postings[s].cue>>
               n == IF key \in DOMAIN pairs THEN pairs[key] + 1 ELSE 1
    <3>1. \/ Return(Plainly("query candidate cue pairs"))
          \/ /\ pairs' = With(pairs, key, n)
             /\ UNCHANGED <<case, matching, known, postings, candidates, verdict>>
      BY <2>3 DEF Pair
    <3> QED
      BY <1>1, <1>3, <2>3, <3>1
  <2> QED
    BY <2>1, <2>2, <2>3

(* A reference without a pair has no anchors, and is no candidate.           *)
LEMMA Assessed == MatchingInv /\ (PairsCounted \/ Assess) => MatchingInv'
<1> SUFFICES ASSUME MatchingInv, PairsCounted \/ Assess PROVE MatchingInv'
  OBVIOUS
<1>1. /\ matching \in {"pairs", "assess"} /\ matching' = "assess"
      /\ UNCHANGED <<case, known, postings, pairs, verdict>>
  BY DEF PairsCounted, Assess
<1>2. Ids' = Ids /\ \A i : Text(i)' = Text(i)
  BY <1>1 DEF Ids, Text, References
<1>3. verdict.is # "identified" \/ \A c \in candidates : c \in candidates'
  BY DEF PairsCounted, Assess
<1>4. Considered'
  <2>1. CASE candidates' = candidates
    BY <1>1, <2>1 DEF MatchingInv, Considered
  <2>2. CASE \E id : AnchorsOf(id) # <<>> /\ candidates' = candidates \union {Candidate(id)}
    <3>1. PICK id : AnchorsOf(id) # <<>> /\ candidates' = candidates \union {Candidate(id)}
      BY <2>2
    <3>2. Anchoring(id) # {}
      <4>1. SUFFICES ASSUME Anchoring(id) = {} PROVE AnchorsOf(id) = <<>>
        BY <3>1
      <4>2. Cardinality(Anchoring(id)) = 0
        BY <4>1, FS_EmptySet
      <4> QED
        BY <4>2 DEF AnchorsOf
    <3>3. \E key \in DOMAIN pairs : key[1] = id
      BY <3>2 DEF Anchoring, Of
    <3>4. Candidate(id).id = id
      BY DEF Candidate
    <3> QED
      BY <1>1, <3>1, <3>3, <3>4 DEF MatchingInv, Considered
  <2> QED
    BY <2>1, <2>2 DEF PairsCounted, Assess
<1>5. Concluded'
  BY <1>1, <1>3 DEF MatchingInv, Concluded
<1> QED
  BY <1>1, <1>2, <1>4, <1>5 DEF MatchingInv, Indexing, Empty, Early, Apart, Paired, Said

(* Who is identified is one of the candidates.                               *)
LEMMA Judged == MatchingInv /\ Verdict => MatchingInv'
<1> SUFFICES ASSUME MatchingInv, Verdict PROVE MatchingInv'
  OBVIOUS
<1>1. CASE \E what \in {"unknown", "ambiguous"} : Return(Plainly(what))
  BY <1>1, ReturnsPlainly
<1>2. CASE \E top \in candidates : Return(Identified(top.id))
  <2>1. PICK top \in candidates : Return(Identified(top.id))
    BY <1>2
  <2>2. /\ matching' = "done" /\ verdict' = Identified(top.id)
        /\ UNCHANGED <<case, todo, known, postings, pairs, candidates>>
    BY <2>1 DEF Return
  <2>3. Ids' = Ids /\ \A i : Text(i)' = Text(i)
    BY <2>2 DEF Ids, Text, References
  <2>4. Concluded'
    BY <2>2 DEF Concluded, Identified
  <2> QED
    BY <2>2, <2>3, <2>4 DEF MatchingInv, Indexing, Empty, Early, Apart, Paired, Considered, Said
<1> QED
  BY <1>1, <1>2 DEF Verdict

(* The invariant holds in every state.                                       *)
LEMMA MatchingHolds == MatchingSpec => []MatchingInv
<1>1. MatchingInit => MatchingInv
  BY MatchingStarted
<1>2. MatchingInv /\ [MatchingNext]_matchingVars => MatchingInv'
  <2> SUFFICES ASSUME MatchingInv, [MatchingNext]_matchingVars PROVE MatchingInv'
    OBVIOUS
  <2>1. CASE Given
    BY <2>1, Begun
  <2>2. CASE CountShingle
    BY <2>2, Counted
  <2>3. CASE Suppress
    BY <2>3, Suppressed
  <2>4. CASE CountPair
    BY <2>4, PairCounted
  <2>5. CASE PairsCounted \/ Assess
    BY <2>5, Assessed
  <2>6. CASE Verdict
    BY <2>6, Judged
  <2>7. CASE MatchingReturned \/ UNCHANGED matchingVars
    <3>1. UNCHANGED <<case, matching, todo, known, postings, pairs, candidates, verdict>>
      BY <2>7 DEF MatchingReturned, matchingVars
    <3>2. Ids' = Ids /\ \A i : Text(i)' = Text(i)
      BY <3>1 DEF Ids, Text, References
    <3>3. Indexing'
      BY <3>1, <3>2 DEF MatchingInv, Indexing, Listed, Noted, Visited, Said
    <3> QED
      BY <3>1, <3>2, <3>3 DEF MatchingInv, Empty, Early, Apart, Paired, Considered, Concluded, Said
  <2> QED
    BY <2>1, <2>2, <2>3, <2>4, <2>5, <2>6, <2>7 DEF MatchingNext
<1> QED
  BY <1>1, <1>2, PTL DEF MatchingSpec

-----------------------------------------------------------------------------
(* A query is never identified as a reference of which another one says      *)
(* every shingle, whatever the transcripts, the limits and the thresholds.   *)
THEOREM TwinsUnidentified == MatchingSpec => []TwinsCannotIdentify
<1>1. MatchingInv => TwinsCannotIdentify
  <2> SUFFICES ASSUME MatchingInv, verdict.is = "identified", NEW twin \in Ids \ {verdict.id},
                      ShinglesOf(Text(verdict.id)) \subseteq ShinglesOf(Text(twin))
               PROVE  FALSE
    BY DEF TwinsCannotIdentify
  <2>1. PICK c \in candidates : c.id = verdict.id
    BY DEF MatchingInv, Concluded
  <2>2. PICK key \in DOMAIN pairs : key[1] = verdict.id
    BY <2>1 DEF MatchingInv, Considered
  <2>3. PICK s \in DOMAIN postings : postings[s].id = verdict.id
    BY <2>2 DEF MatchingInv, Paired
  <2> QED
    BY <2>3 DEF MatchingInv, Apart, Said
<1> QED
  BY <1>1, MatchingHolds, PTL

-----------------------------------------------------------------------------
(* Evidence: sets of anchors that are independent, and chains.              *)

(* Distances add up.                                                         *)
LEMMA Farther ==
    ASSUME NEW x \in Nat, NEW y \in Nat, NEW z \in Nat, NEW d \in Nat,
           y - x >= d, z - y >= d
    PROVE  z - x >= d
OBVIOUS

(* Anchors of a chain are apart, not only from the next one.                 *)
LEMMA ChainApart ==
    ASSUME NEW s \in Seq(Anchors), NEW c \in ChainsIn(s)
    PROVE  \A k, l \in 1..Len(c) : k < l => Separated(s[c[k]], s[c[l]])
<1> DEFINE G == {n \in Nat : \A k, l \in 1..Len(c) : l = k + n + 1 => Separated(s[c[k]], s[c[l]])}
<1>1. /\ Len(c) \in 1..Len(s) /\ Len(s) \in Nat /\ Separation \in Nat \ {0}
      /\ \A k \in 1..Len(c) : c[k] \in 1..Len(s)
      /\ \A k \in 1..(Len(c) - 1) : Separated(s[c[k]], s[c[k + 1]])
  BY ChainFacts, ChainsAssumption DEF IsChain
<1>2. ASSUME NEW n \in Nat, NEW k \in 1..Len(c), NEW l \in 1..Len(c), l = k + n + 1
      PROVE  k \in 1..(Len(c) - 1) /\ l = (k + n) + 1
  BY <1>1, <1>2
<1>3. 0 \in G
  <2>1. ASSUME NEW k \in 1..Len(c), NEW l \in 1..Len(c), l = k + 0 + 1
        PROVE  Separated(s[c[k]], s[c[l]])
    <3>1. l = k + 1 /\ k \in 1..(Len(c) - 1)
      BY <1>1, <2>1
    <3> QED
      BY <1>1, <3>1
  <2> QED
    BY <2>1
<1>4. ASSUME NEW n \in Nat, n \in G PROVE n + 1 \in G
  <2>1. ASSUME NEW k \in 1..Len(c), NEW l \in 1..Len(c), l = k + (n + 1) + 1
        PROVE  Separated(s[c[k]], s[c[l]])
    <3> DEFINE m == l - 1
    <3>1. m \in 1..(Len(c) - 1) /\ m \in 1..Len(c) /\ m = k + n + 1 /\ m + 1 = l
      BY <1>1, <2>1
    <3> HIDE DEF m
    <3>2. Separated(s[c[k]], s[c[m]]) /\ Separated(s[c[m]], s[c[l]])
      BY <1>1, <1>4, <3>1
    <3>3. /\ s[c[k]].q \in Nat /\ s[c[k]].r \in Nat
          /\ s[c[m]].q \in Nat /\ s[c[m]].r \in Nat
          /\ s[c[l]].q \in Nat /\ s[c[l]].r \in Nat
      BY <1>1, <3>1, AnchorFacts
    <3>4. /\ s[c[m]].q - s[c[k]].q >= Separation /\ s[c[m]].r - s[c[k]].r >= Separation
          /\ s[c[l]].q - s[c[m]].q >= Separation /\ s[c[l]].r - s[c[m]].r >= Separation
      BY <3>2 DEF Separated
    <3>5. s[c[l]].q - s[c[k]].q >= Separation /\ s[c[l]].r - s[c[k]].r >= Separation
      BY <1>1, <3>3, <3>4, Farther
    <3> QED
      BY <3>5 DEF Separated
  <2> HIDE DEF G
  <2>2. \A k, l \in 1..Len(c) : l = k + (n + 1) + 1 => Separated(s[c[k]], s[c[l]])
    BY <2>1
  <2> QED
    BY <2>2 DEF G
<1>5. \A n \in Nat : n \in G
  <2> HIDE DEF G
  <2> QED
    BY <1>3, <1>4, NatInduct
<1>6. ASSUME NEW k \in 1..Len(c), NEW l \in 1..Len(c), k < l PROVE Separated(s[c[k]], s[c[l]])
  <2> DEFINE n == l - k - 1
  <2>1. n \in Nat /\ l = k + n + 1
    BY <1>1, <1>6
  <2> HIDE DEF n
  <2>2. n \in G
    BY <1>5, <2>1
  <2> QED
    BY <2>1, <2>2
<1> QED
  BY <1>6

(* The list s of anchors stands for a set of pairs of cues.                  *)
Stands(s, e, P, id) ==
    /\ s \in Seq(Anchors) /\ e \in Bijection(1..Len(s), P)
    /\ \A n \in 1..Len(s) :
          s[n].q = Query[e[n][1]].start /\ s[n].r = Text(id)[e[n][2]].start

LEMMA StandsFor ==
    ASSUME NEW id, NEW s, NEW e, NEW P, Stands(s, e, P, id)
    PROVE  /\ IsFiniteSet(P) /\ Cardinality(P) = Len(s) /\ Len(s) \in Nat
           /\ \A a \in P : Query[a[1]].start \in Nat /\ Text(id)[a[2]].start \in Nat
           /\ \A n \in 1..Len(s) : e[n] \in P
           /\ \A a \in P : \E n \in 1..Len(s) : e[n] = a
<1>1. s \in Seq(Anchors) /\ Len(s) \in Nat /\ e \in Bijection(1..Len(s), P)
  BY DEF Stands
<1>2. IsFiniteSet(1..Len(s)) /\ Cardinality(1..Len(s)) = Len(s)
  <2>1. IsFiniteSet(1..Len(s)) /\ Cardinality(1..Len(s)) = IF 1 > Len(s) THEN 0 ELSE Len(s) - 1 + 1
    BY <1>1, FS_Interval
  <2> QED
    BY <1>1, <2>1
<1>3. IsFiniteSet(P) /\ Cardinality(P) = Len(s)
  BY <1>1, <1>2, FS_Bijection DEF ExistsBijection
<1>4. /\ \A n \in 1..Len(s) : e[n] \in P
      /\ \A a \in P : \E n \in 1..Len(s) : e[n] = a
  BY <1>1 DEF Bijection, Injection, Surjection
<1>5. ASSUME NEW a \in P PROVE Query[a[1]].start \in Nat /\ Text(id)[a[2]].start \in Nat
  <2>1. PICK n \in 1..Len(s) : e[n] = a
    BY <1>4
  <2>2. s[n].q \in Nat /\ s[n].r \in Nat
    BY <1>1, AnchorFacts
  <2> QED
    BY <2>1, <2>2 DEF Stands
<1> QED
  BY <1>1, <1>3, <1>4, <1>5

(* A chain is a set of independent evidence.                                 *)
LEMMA SetOfChain ==
    ASSUME NEW id, NEW s, NEW e, NEW P, Stands(s, e, P, id), NEW c \in ChainsIn(s)
    PROVE  \E S \in SUBSET P : Independent(id, S) /\ Cardinality(S) = Len(c)
<1> DEFINE S == {e[c[k]] : k \in 1..Len(c)}
           f == [k \in 1..Len(c) |-> e[c[k]]]
<1>1. /\ Len(c) \in 1..Len(s) /\ Len(c) \in Nat /\ s \in Seq(Anchors)
      /\ \A k \in 1..Len(c) : c[k] \in 1..Len(s)
      /\ \A k, l \in 1..Len(c) : Offset(s[c[k]]) - Offset(s[c[l]]) <= Spread
      /\ Separation \in Nat \ {0}
  BY ChainFacts, ChainsAssumption DEF IsChain, Stands
<1>2. \A k, l \in 1..Len(c) : k < l => Separated(s[c[k]], s[c[l]])
  BY <1>1, ChainApart
<1>3. \A k \in 1..Len(c) :
         /\ e[c[k]] \in P /\ s[c[k]].q \in Nat /\ s[c[k]].r \in Nat
         /\ s[c[k]].q = Query[e[c[k]][1]].start
         /\ s[c[k]].r = Text(id)[e[c[k]][2]].start
  <2> SUFFICES ASSUME NEW k \in 1..Len(c)
               PROVE  /\ e[c[k]] \in P /\ s[c[k]].q \in Nat /\ s[c[k]].r \in Nat
                      /\ s[c[k]].q = Query[e[c[k]][1]].start
                      /\ s[c[k]].r = Text(id)[e[c[k]][2]].start
    OBVIOUS
  <2>1. c[k] \in 1..Len(s)
    BY <1>1
  <2>2. e[c[k]] \in P
    BY <2>1, StandsFor
  <2>3. s[c[k]].q \in Nat /\ s[c[k]].r \in Nat
    BY <1>1, <2>1, AnchorFacts
  <2> QED
    BY <2>1, <2>2, <2>3 DEF Stands
<1>4. ASSUME NEW k \in 1..Len(c), NEW l \in 1..Len(c), e[c[k]] = e[c[l]] PROVE k = l
  <2>1. s[c[k]].q = s[c[l]].q /\ s[c[k]].q \in Nat
    BY <1>3, <1>4
  <2>2. ~Separated(s[c[k]], s[c[l]]) /\ ~Separated(s[c[l]], s[c[k]])
    BY <1>1, <2>1 DEF Separated
  <2>3. ~(k < l) /\ ~(l < k)
    BY <1>2, <2>2
  <2> QED
    BY <1>1, <2>3
<1>5. f \in Bijection(1..Len(c), S)
  <2>1. f \in [1..Len(c) -> S] /\ \A k \in 1..Len(c) : f[k] = e[c[k]]
    OBVIOUS
  <2>2. \A x \in S : \E k \in 1..Len(c) : f[k] = x
    OBVIOUS
  <2> HIDE DEF f, S
  <2> QED
    BY <1>4, <2>1, <2>2 DEF Bijection, Injection, Surjection, IsInjective
<1>6. Cardinality(S) = Len(c)
  <2> HIDE DEF f, S
  <2> QED
    BY <1>1, <1>5, FS_CountingElements DEF ExistsBijection
<1>7. ASSUME NEW k \in 1..Len(c), NEW l \in 1..Len(c), k # l
      PROVE  LET qa == Query[e[c[k]][1]].start     qb == Query[e[c[l]][1]].start
                 ra == Text(id)[e[c[k]][2]].start  rb == Text(id)[e[c[l]][2]].start
             IN  /\ \/ qb - qa >= Separation /\ rb - ra >= Separation
                    \/ qa - qb >= Separation /\ ra - rb >= Separation
                 /\ (ra - qa) - (rb - qb) <= Spread
  <2>1. Offset(s[c[k]]) - Offset(s[c[l]]) <= Spread
    BY <1>1
  <2>2. Separated(s[c[k]], s[c[l]]) \/ Separated(s[c[l]], s[c[k]])
    <3>1. k < l \/ l < k
      BY <1>7
    <3> QED
      BY <1>2, <3>1
  <2> QED
    BY <1>3, <2>1, <2>2 DEF Separated, Offset
<1>8. Independent(id, S)
  <2> SUFFICES ASSUME NEW k \in 1..Len(c), NEW l \in 1..Len(c), e[c[k]] # e[c[l]]
               PROVE  LET qa == Query[e[c[k]][1]].start     qb == Query[e[c[l]][1]].start
                          ra == Text(id)[e[c[k]][2]].start  rb == Text(id)[e[c[l]][2]].start
                      IN  /\ \/ qb - qa >= Separation /\ rb - ra >= Separation
                             \/ qa - qb >= Separation /\ ra - rb >= Separation
                          /\ (ra - qa) - (rb - qb) <= Spread
    BY DEF Independent
  <2>1. k # l
    OBVIOUS
  <2> QED
    BY <1>7, <2>1
<1>9. S \in SUBSET P
  BY <1>3
<1> HIDE DEF S
<1> QED
  BY <1>6, <1>8, <1>9

(* Independent evidence is a chain, in the order of the query.               *)
LEMMA ChainOfSet ==
    ASSUME NEW id, NEW s, NEW e, NEW P, Stands(s, e, P, id),
           NEW S \in SUBSET P, Independent(id, S), S # {}
    PROVE  \E c \in ChainsIn(s) : Len(c) = Cardinality(S)
<1> DEFINE q(a) == Query[a[1]].start
           r(a) == Text(id)[a[2]].start
           n == Cardinality(S)
           R == {x \in S \X S : q(x[1]) < q(x[2])}
<1>1. /\ IsFiniteSet(S) /\ n \in 1..Len(s) /\ n \in Nat /\ Len(s) \in Nat
  <2>1. IsFiniteSet(P) /\ Cardinality(P) = Len(s) /\ Len(s) \in Nat
    BY StandsFor
  <2>2. IsFiniteSet(S) /\ n <= Len(s)
    BY <2>1, FS_Subset
  <2>3. n \in Nat /\ n # 0
    BY <2>2, FS_CardinalityType, FS_EmptySet
  <2> HIDE DEF n
  <2> QED
    BY <2>1, <2>2, <2>3
<1>2. \A a \in S : q(a) \in Nat /\ r(a) \in Nat
  BY StandsFor
<1>3. Separation \in Nat \ {0} /\ Spread \in Nat
  BY ChainsAssumption
<1>4. \A a, b \in S : a # b =>
         /\ \/ q(b) - q(a) >= Separation /\ r(b) - r(a) >= Separation
            \/ q(a) - q(b) >= Separation /\ r(a) - r(b) >= Separation
         /\ (r(a) - q(a)) - (r(b) - q(b)) <= Spread
  BY DEF Independent
<1>5. \A a, b \in S : <<a, b>> \in R <=> q(a) < q(b)
  OBVIOUS
<1> HIDE DEF R, q, r
<1>6. \A a, b \in S : a = b \/ q(a) < q(b) \/ q(b) < q(a)
  BY <1>2, <1>3, <1>4
<1>7. /\ \A a, b \in S : <<a, b>> \in R =>
            Cardinality(Prior(S, R, a)) < Cardinality(Prior(S, R, b))
      /\ \A k \in 1..n : \E a \in S : Cardinality(Prior(S, R, a)) = k - 1
  <2>1. \A a \in S : <<a, a>> \notin R
    BY <1>2, <1>5
  <2>2. \A a, b, c \in S : <<a, b>> \in R /\ <<b, c>> \in R => <<a, c>> \in R
    BY <1>2, <1>5
  <2>3. \A a, b \in S : a = b \/ <<a, b>> \in R \/ <<b, a>> \in R
    BY <1>5, <1>6
  <2> QED
    BY <1>1, <2>1, <2>2, <2>3, Places
<1> DEFINE f == [k \in 1..n |-> CHOOSE a \in S : Cardinality(Prior(S, R, a)) = k - 1]
           c == [k \in 1..n |-> CHOOSE m \in 1..Len(s) : e[m] = f[k]]
<1>8. ASSUME NEW k \in 1..n PROVE f[k] \in S /\ Cardinality(Prior(S, R, f[k])) = k - 1
  BY <1>7
<1> HIDE DEF n, f
<1>9. ASSUME NEW k \in 1..n PROVE c[k] \in 1..Len(s) /\ e[c[k]] = f[k]
  <2>1. \E m \in 1..Len(s) : e[m] = f[k]
    BY <1>8, StandsFor
  <2> QED
    BY <2>1
<1>10. c \in [1..n -> 1..Len(s)] /\ Len(c) = n
  <2>1. c \in [1..n -> 1..Len(s)]
    BY <1>9
  <2> HIDE DEF c
  <2> QED
    BY <1>1, <2>1
<1> HIDE DEF c
<1>11. ASSUME NEW k \in 1..n
       PROVE  /\ s[c[k]].q = q(f[k]) /\ s[c[k]].r = r(f[k])
              /\ q(f[k]) \in Nat /\ r(f[k]) \in Nat
  <2>1. f[k] \in S /\ c[k] \in 1..Len(s) /\ e[c[k]] = f[k]
    BY <1>8, <1>9
  <2>2. q(f[k]) \in Nat /\ r(f[k]) \in Nat
    BY <1>2, <2>1
  <2>3. /\ s[c[k]].q = Query[e[c[k]][1]].start
        /\ s[c[k]].r = Text(id)[e[c[k]][2]].start
    BY <2>1 DEF Stands
  <2> QED
    BY <2>1, <2>2, <2>3 DEF q, r
<1>12. ASSUME NEW k \in 1..(n - 1) PROVE Separated(s[c[k]], s[c[k + 1]])
  <2>1. k \in 1..n /\ k + 1 \in 1..n
    BY <1>1
  <2>2. Cardinality(Prior(S, R, f[k])) = k - 1 /\ Cardinality(Prior(S, R, f[k + 1])) = k
    <3>1. (k + 1) - 1 = k
      BY <2>1
    <3> QED
      BY <1>8, <2>1, <3>1
  <2>3. f[k] # f[k + 1] /\ ~(q(f[k + 1]) < q(f[k]))
    <3>1. f[k] \in S /\ f[k + 1] \in S
      BY <1>8, <2>1
    <3>2. ~(k < k - 1) /\ k # k - 1
      BY <2>1
    <3> QED
      BY <1>5, <1>7, <2>2, <3>1, <3>2
  <2>4. q(f[k + 1]) - q(f[k]) >= Separation /\ r(f[k + 1]) - r(f[k]) >= Separation
    <3>1. f[k] \in S /\ f[k + 1] \in S
      BY <1>8, <2>1
    <3> QED
      BY <1>2, <1>3, <1>4, <2>3, <3>1
  <2> QED
    BY <1>11, <2>1, <2>4 DEF Separated
<1>13. ASSUME NEW k \in 1..n, NEW l \in 1..n PROVE Offset(s[c[k]]) - Offset(s[c[l]]) <= Spread
  <2>1. (r(f[k]) - q(f[k])) - (r(f[l]) - q(f[l])) <= Spread
    <3>1. f[k] \in S /\ f[l] \in S
      BY <1>8
    <3>2. CASE f[k] = f[l]
      BY <1>3, <1>11, <3>2
    <3>3. CASE f[k] # f[l]
      BY <1>4, <3>1, <3>3
    <3> QED
      BY <3>2, <3>3
  <2> QED
    BY <1>11, <2>1 DEF Offset
<1>14. IsChain(s, c)
  BY <1>10, <1>12, <1>13 DEF IsChain
<1>15. s \in Seq(Anchors)
  BY DEF Stands
<1>16. c \in ChainsIn(s)
  BY <1>1, <1>10, <1>14, <1>15, ChainIntro
<1> QED
  BY <1>10, <1>16 DEF n

(* Numbers with a bound have a largest.                                      *)
LEMMA LargestOf ==
    ASSUME NEW S \in SUBSET Nat, NEW b \in Nat, \A x \in S : x <= b, S # {}
    PROVE  \E n \in S : \A m \in S : m <= n
<1> DEFINE f == [x \in S |-> -x]
<1>1. IsFiniteSet(S)
  BY FS_BoundedSetOfNaturals
<1>2. f \in [S -> Int] /\ \A x \in S : f[x] = -x
  OBVIOUS
<1> HIDE DEF f
<1>3. PICK n \in S : \A m \in S : f[n] <= f[m]
  BY <1>1, <1>2, LeastOf
<1>4. \A m \in S : m <= n
  BY <1>2, <1>3
<1> QED
  BY <1>4

(* What a reference has in its favour is the length of its best chain.       *)
Strong(id) == {pair \in CuePairs(id) :
                  Cardinality(Common(id, pair[1], pair[2])) >= MinShingles}

LEMMA EvidenceIsScore ==
    ASSUME NEW id, NEW s, NEW e, Stands(s, e, Strong(id), id)
    PROVE  /\ Evidence(id) = ScoreOf(s) /\ Evidence(id) \in 0..Len(s)
           /\ Len(s) \in Nat /\ (Len(s) = 0 <=> Evidence(id) = 0)
<1> DEFINE sets == {set \in SUBSET Strong(id) : Independent(id, set)}
           sizes == {Cardinality(set) : set \in sets}
           Longest(n) == /\ n > 0 => \E c \in ChainsIn(s) : Len(c) = n
                         /\ \A c \in ChainsIn(s) : Len(c) <= n
<1>1. /\ IsFiniteSet(Strong(id)) /\ Cardinality(Strong(id)) = Len(s) /\ Len(s) \in Nat
      /\ s \in Seq(Anchors)
  <2>1. s \in Seq(Anchors)
    BY DEF Stands
  <2> QED
    BY <2>1, StandsFor
<1>2. \A set \in sets : /\ IsFiniteSet(set) /\ Cardinality(set) \in 0..Len(s)
                        /\ Cardinality(set) = 0 <=> set = {}
  <2> SUFFICES ASSUME NEW set \in SUBSET Strong(id)
               PROVE  /\ IsFiniteSet(set) /\ Cardinality(set) \in 0..Len(s)
                      /\ Cardinality(set) = 0 <=> set = {}
    OBVIOUS
  <2>1. IsFiniteSet(set) /\ Cardinality(set) <= Len(s)
    BY <1>1, FS_Subset
  <2>2. Cardinality(set) \in Nat
    BY <2>1, FS_CardinalityType
  <2> QED
    BY <1>1, <2>1, <2>2, FS_EmptySet
<1>3. {} \in sets /\ Cardinality({}) = 0
  BY FS_EmptySet DEF Independent
<1>4. Evidence(id) = CHOOSE n \in sizes : \A m \in sizes : m <= n
  BY DEF Evidence, Strong
<1> HIDE DEF sets
<1>5. sizes \in SUBSET Nat /\ 0 \in sizes /\ \A x \in sizes : x \in 0..Len(s)
  BY <1>1, <1>2, <1>3
<1>6. \A c \in ChainsIn(s) : Len(c) \in sizes
  BY SetOfChain DEF sets
<1>7. ASSUME NEW n \in sizes, n > 0 PROVE \E c \in ChainsIn(s) : Len(c) = n
  <2>1. PICK set \in sets : Cardinality(set) = n
    OBVIOUS
  <2>2. set # {} /\ set \in SUBSET Strong(id) /\ Independent(id, set)
    BY <1>2, <1>5, <1>7, <2>1 DEF sets
  <2> QED
    BY <2>1, <2>2, ChainOfSet
<1> HIDE DEF sizes
<1>8. \E n \in sizes : \A m \in sizes : m <= n
  <2>1. \A x \in sizes : x <= Len(s)
    BY <1>5
  <2> QED
    BY <1>1, <1>5, <2>1, LargestOf
<1>9. PICK n \in sizes : \A m \in sizes : m <= n
  BY <1>8
<1>10. n \in Nat /\ n \in 0..Len(s)
  BY <1>1, <1>5
<1>11. \A k \in sizes : (\A m \in sizes : m <= k) => k = n
  BY <1>5, <1>9, <1>10
<1>12. Evidence(id) = n
  BY <1>4, <1>9, <1>11
<1>13. Longest(n)
  BY <1>6, <1>7, <1>9
<1>14. ASSUME NEW k \in 0..Len(s), Longest(k) PROVE k = n
  <2>1. k <= n
    <3>1. CASE k > 0
      BY <1>6, <1>9, <1>14, <3>1
    <3>2. CASE ~(k > 0)
      BY <1>1, <1>10, <3>2
    <3> QED
      BY <3>1, <3>2
  <2>2. n <= k
    <3>1. CASE n > 0
      BY <1>7, <1>14, <3>1
    <3>2. CASE ~(n > 0)
      BY <1>1, <1>10, <3>2
    <3> QED
      BY <3>1, <3>2
  <2> QED
    BY <1>1, <1>10, <2>1, <2>2
<1>15. ScoreOf(s) = CHOOSE k \in 0..Len(s) : Longest(k)
  BY DEF ScoreOf
<1> HIDE DEF Longest
<1>16. ScoreOf(s) = n
  BY <1>10, <1>13, <1>14, <1>15
<1>17. Len(s) # 0 => n # 0
  <2> SUFFICES ASSUME Len(s) # 0 PROVE n # 0
    OBVIOUS
  <2>1. Strong(id) # {}
    BY <1>1, FS_EmptySet
  <2>2. PICK a \in Strong(id) : TRUE
    BY <2>1
  <2>3. {a} \in sets
    <3>1. Independent(id, {a})
      <4>1. Query[a[1]].start \in Nat /\ Text(id)[a[2]].start \in Nat
        BY StandsFor
      <4> QED
        BY DEF Independent
    <3> QED
      BY <2>2, <3>1 DEF sets
  <2>4. 1 \in sizes
    <3>1. Cardinality({a}) = 1
      BY FS_Singleton
    <3> QED
      BY <2>3, <3>1 DEF sizes
  <2> QED
    BY <1>9, <1>10, <2>4
<1>18. Len(s) = 0 => n = 0
  BY <1>10
<1> QED
  BY <1>1, <1>10, <1>12, <1>16, <1>17, <1>18

-----------------------------------------------------------------------------
(* Where a transcript says a shingle, and the cue that says it alone.        *)
LEMMA TranscriptFacts ==
    ASSUME NEW t \in Texts
    PROVE  /\ DOMAIN t = 1..Len(t) /\ Len(t) \in Nat
           /\ \A k \in DOMAIN t : /\ t[k].start \in Nat
                                  /\ t[k].says \in Seq(Nat) /\ DOMAIN t[k].says = 1..Len(t[k].says)
                                  /\ \A p \in DOMAIN t[k].says : t[k].says[p] \in Nat
<1> DEFINE Cue == [start : Nat, says : Seq(Nat)]
<1>1. t \in Seq(Cue)
  BY DEF Texts
<1>0. \A c \in Cue : c.start \in Nat /\ c.says \in Seq(Nat)
  OBVIOUS
<1> HIDE DEF Cue
<1>2. DOMAIN t = 1..Len(t) /\ Len(t) \in Nat
  BY <1>1
<1>3. ASSUME NEW k \in DOMAIN t
      PROVE  /\ t[k].start \in Nat /\ t[k].says \in Seq(Nat)
             /\ DOMAIN t[k].says = 1..Len(t[k].says)
             /\ \A p \in DOMAIN t[k].says : t[k].says[p] \in Nat
  <2>1. t[k] \in Cue
    BY <1>1, <1>2
  <2>2. t[k].start \in Nat /\ t[k].says \in Seq(Nat)
    BY <1>0, <2>1
  <2> QED
    BY <2>2
<1> QED
  BY <1>2, <1>3

(* A place is a cue and a position in it; there are finitely many.           *)
LEMMA MentionFacts ==
    ASSUME NEW t \in Texts, NEW s
    PROVE  /\ \A m : m \in Mentions(t, s) <=>
                 \E k \in DOMAIN t : \E p \in DOMAIN t[k].says : m = <<k, p>> /\ t[k].says[p] = s
           /\ IsFiniteSet(Mentions(t, s))
           /\ s \in ShinglesOf(t) <=> Mentions(t, s) # {}
<1>1. ASSUME NEW m
      PROVE  m \in Mentions(t, s) <=>
                 \E k \in DOMAIN t : \E p \in DOMAIN t[k].says : m = <<k, p>> /\ t[k].says[p] = s
  BY DEF Mentions
<1>2. s \in ShinglesOf(t) <=> \E k \in DOMAIN t : \E p \in DOMAIN t[k].says : t[k].says[p] = s
  BY DEF ShinglesOf
<1>3. IsFiniteSet(Mentions(t, s))
  <2> DEFINE Row(k) == {k} \X (DOMAIN t[k].says)
             Rows == {Row(k) : k \in DOMAIN t}
             f == [k \in DOMAIN t |-> Row(k)]
  <2>1. IsFiniteSet(DOMAIN t)
    <3>1. DOMAIN t = 1..Len(t) /\ 1 \in Int /\ Len(t) \in Int
      BY TranscriptFacts
    <3> QED
      BY <3>1, FS_Interval
  <2>2. f \in Surjection(DOMAIN t, Rows)
    BY DEF Surjection
  <2>3. IsFiniteSet(Rows)
    <3> HIDE DEF f, Rows
    <3> QED
      BY <2>1, <2>2, FS_Surjection
  <2>4. ASSUME NEW k \in DOMAIN t PROVE IsFiniteSet(Row(k))
    <3>1. DOMAIN t[k].says = 1..Len(t[k].says) /\ 1 \in Int /\ Len(t[k].says) \in Int
      BY TranscriptFacts
    <3>2. IsFiniteSet(DOMAIN t[k].says)
      BY <3>1, FS_Interval
    <3>3. IsFiniteSet({k})
      BY FS_Singleton
    <3> QED
      BY <3>2, <3>3, FS_Product
  <2>5. IsFiniteSet(UNION Rows)
    <3>1. \A T \in Rows : IsFiniteSet(T)
      BY <2>4
    <3> HIDE DEF Rows
    <3> QED
      BY <2>3, <3>1, FS_UNION
  <2>6. Mentions(t, s) \in SUBSET (UNION Rows)
    BY DEF Mentions
  <2> HIDE DEF Rows
  <2> QED
    BY <2>5, <2>6, FS_Subset
<1> QED
  BY <1>1, <1>2, <1>3

(* The cue of a shingle is the one that says it, if it is said once.         *)
LEMMA CueFacts ==
    ASSUME NEW t \in Texts, NEW s
    PROVE  /\ CueOf(t, s) # None <=> Cardinality(Mentions(t, s)) = 1
           /\ CueOf(t, s) # None =>
                 /\ CueOf(t, s) \in DOMAIN t /\ s \in ShinglesOf(t)
                 /\ \E p \in DOMAIN t[CueOf(t, s)].says : Mentions(t, s) = {<<CueOf(t, s), p>>}
           /\ \A k, p : Mentions(t, s) = {<<k, p>>} => CueOf(t, s) = k /\ CueOf(t, s) # None
<1>1. /\ \A m : m \in Mentions(t, s) <=>
            \E k \in DOMAIN t : \E p \in DOMAIN t[k].says : m = <<k, p>> /\ t[k].says[p] = s
      /\ IsFiniteSet(Mentions(t, s)) /\ (s \in ShinglesOf(t) <=> Mentions(t, s) # {})
  BY MentionFacts
<1>2. DOMAIN t = 1..Len(t) /\ Len(t) \in Nat /\ 0 \notin DOMAIN t
  BY TranscriptFacts
<1>3. ASSUME NEW k, NEW p, Mentions(t, s) = {<<k, p>>}
      PROVE  CueOf(t, s) = k /\ k \in DOMAIN t /\ CueOf(t, s) # None
  <2>1. Cardinality(Mentions(t, s)) = 1
    BY <1>3, FS_Singleton
  <2>2. (CHOOSE x \in Mentions(t, s) : TRUE) = <<k, p>>
    BY <1>3
  <2> DEFINE x == CHOOSE m \in Mentions(t, s) : TRUE
  <2>3. CueOf(t, s) = k
    <3>1. CueOf(t, s) = x[1]
      BY <2>1 DEF CueOf
    <3>2. x = <<k, p>> /\ <<k, p>>[1] = k
      BY <2>2
    <3> HIDE DEF x
    <3> QED
      BY <3>1, <3>2
  <2>4. <<k, p>> \in Mentions(t, s)
    BY <1>3
  <2>5. k \in DOMAIN t
    BY <1>1, <2>4
  <2> QED
    BY <1>2, <2>3, <2>5 DEF None
<1>4. ASSUME Cardinality(Mentions(t, s)) = 1
      PROVE  \E k \in DOMAIN t : \E p \in DOMAIN t[k].says : Mentions(t, s) = {<<k, p>>}
  <2> DEFINE M == Mentions(t, s)
  <2>0. IsFiniteSet(M) /\ Cardinality(M) = 1
    BY <1>1, <1>4
  <2> HIDE DEF M
  <2>9. \E m : M = {m}
    BY <2>0, FS_Singleton
  <2>1. PICK m : Mentions(t, s) = {m}
    BY <2>9 DEF M
  <2>2. PICK k \in DOMAIN t : \E p \in DOMAIN t[k].says : m = <<k, p>>
    BY <1>1, <2>1
  <2>3. PICK p \in DOMAIN t[k].says : m = <<k, p>>
    BY <2>2
  <2> QED
    BY <2>1, <2>3
<1>5. Cardinality(Mentions(t, s)) # 1 => CueOf(t, s) = None
  BY DEF CueOf
<1>6. CueOf(t, s) # None => Cardinality(Mentions(t, s)) = 1
  BY <1>5
<1>7. ASSUME Cardinality(Mentions(t, s)) = 1
      PROVE  /\ CueOf(t, s) # None /\ CueOf(t, s) \in DOMAIN t /\ s \in ShinglesOf(t)
             /\ \E p \in DOMAIN t[CueOf(t, s)].says : Mentions(t, s) = {<<CueOf(t, s), p>>}
  <2>1. PICK k \in DOMAIN t : \E p \in DOMAIN t[k].says : Mentions(t, s) = {<<k, p>>}
    BY <1>4, <1>7
  <2>2. CueOf(t, s) = k /\ CueOf(t, s) # None
    BY <1>3, <2>1
  <2> QED
    BY <1>1, <2>1, <2>2
<1> QED
  BY <1>3, <1>6, <1>7

(* A transcript says finitely many shingles.                                 *)
LEMMA ShinglesFinite ==
    ASSUME NEW t \in Texts
    PROVE  IsFiniteSet(ShinglesOf(t)) /\ ShinglesOf(t) \subseteq Nat
<1> DEFINE Row(k) == {t[k].says[p] : p \in DOMAIN t[k].says}
           Rows == {Row(k) : k \in DOMAIN t}
           f == [k \in DOMAIN t |-> Row(k)]
<1>1. IsFiniteSet(DOMAIN t)
  <2>1. DOMAIN t = 1..Len(t) /\ 1 \in Int /\ Len(t) \in Int
    BY TranscriptFacts
  <2> QED
    BY <2>1, FS_Interval
<1>2. f \in Surjection(DOMAIN t, Rows)
  BY DEF Surjection
<1>3. IsFiniteSet(Rows)
  <2> HIDE DEF f, Rows
  <2> QED
    BY <1>1, <1>2, FS_Surjection
<1>4. ASSUME NEW k \in DOMAIN t PROVE IsFiniteSet(Row(k))
  <2> DEFINE g == t[k].says
  <2>1. DOMAIN g = 1..Len(g) /\ 1 \in Int /\ Len(g) \in Int /\ g \in Seq(Nat)
    BY TranscriptFacts
  <2>2. IsFiniteSet(DOMAIN g)
    BY <2>1, FS_Interval
  <2>3. g \in Surjection(DOMAIN g, Row(k))
    <3>1. g \in [DOMAIN g -> Row(k)]
      BY <2>1
    <3> QED
      BY <3>1 DEF Surjection
  <2> HIDE DEF Row, g
  <2> QED
    BY <2>2, <2>3, FS_Surjection
<1>5. ShinglesOf(t) = UNION Rows
  BY DEF ShinglesOf
<1>6. \A T \in Rows : IsFiniteSet(T)
  BY <1>4
<1>7. ShinglesOf(t) \subseteq Nat
  BY TranscriptFacts DEF ShinglesOf
<1> HIDE DEF Rows
<1> QED
  BY <1>3, <1>5, <1>6, <1>7, FS_UNION

-----------------------------------------------------------------------------
(* What is given, and what the index holds of it.                            *)

(* What is given: references by their ids, each a transcript.                *)
LEMMA WhatIsGiven ==
    ASSUME case \in Cases
    PROVE  /\ IsFiniteSet(Ids) /\ Query \in Texts
           /\ \A id \in Ids : id \in Nat /\ id # Nobody /\ Text(id) \in Texts
<1> DEFINE Reference == [id : Nat \ {0}, cues : Texts]
<1>1. References \in Seq(Reference) /\ Query \in Texts
  <2>1. case \in [references : Seq(Reference), query : Texts]
    BY MatchingAssumption
  <2> HIDE DEF Reference
  <2> QED
    BY <2>1 DEF References, Query
<1>2. \A r \in Reference : r.id \in Nat /\ r.id # Nobody /\ r.cues \in Texts
  BY DEF Nobody
<1> HIDE DEF Reference
<1>3. /\ DOMAIN References = 1..Len(References) /\ Len(References) \in Int
      /\ \A n \in DOMAIN References : References[n] \in Reference
  BY <1>1
<1>4. IsFiniteSet(Ids)
  <2> DEFINE f == [n \in DOMAIN References |-> References[n].id]
  <2>1. f \in Surjection(DOMAIN References, Ids)
    BY DEF Surjection, Ids
  <2>2. IsFiniteSet(DOMAIN References)
    BY <1>3, FS_Interval
  <2> HIDE DEF f
  <2> QED
    BY <2>1, <2>2, FS_Surjection
<1>5. ASSUME NEW id \in Ids PROVE id \in Nat /\ id # Nobody /\ Text(id) \in Texts
  <2> DEFINE set == {References[n] : n \in DOMAIN References}
             r == CHOOSE r \in set : r.id = id
  <2>1. \E x \in set : x.id = id
    BY DEF Ids
  <2>2. r \in set /\ r.id = id
    BY <2>1
  <2>3. r \in Reference
    BY <1>3, <2>2
  <2>4. Text(id) = r.cues
    BY DEF Text
  <2> HIDE DEF r
  <2> QED
    BY <1>2, <2>2, <2>3, <2>4
<1> QED
  BY <1>1, <1>4, <1>5

AllShingles == UNION {ShinglesOf(Text(id)) : id \in Ids}

(* So do all references together, and the query.                             *)
LEMMA AllFinite ==
    ASSUME case \in Cases
    PROVE  IsFiniteSet(AllShingles) /\ IsFiniteSet(ShinglesOf(Query))
<1>1. IsFiniteSet(ShinglesOf(Query))
  BY WhatIsGiven, ShinglesFinite
<1> DEFINE Sets == {ShinglesOf(Text(id)) : id \in Ids}
           f == [id \in Ids |-> ShinglesOf(Text(id))]
<1>2. f \in Surjection(Ids, Sets)
  BY DEF Surjection
<1>3. IsFiniteSet(Sets)
  <2> HIDE DEF f, Sets
  <2> QED
    BY <1>2, WhatIsGiven, FS_Surjection
<1>4. \A T \in Sets : IsFiniteSet(T)
  BY WhatIsGiven, ShinglesFinite
<1>5. AllShingles = UNION Sets
  BY DEF AllShingles
<1> HIDE DEF Sets
<1> QED
  BY <1>1, <1>3, <1>4, <1>5, FS_UNION

-----------------------------------------------------------------------------
(* The index holds what tells a reference apart, and nothing else.           *)
Indexed ==
    /\ \A s \in DOMAIN postings :
          /\ postings[s].id \in Ids /\ TellsApart(s, postings[s].id)
          /\ postings[s].cue = CueOf(Text(postings[s].id), s)
    /\ \A id \in Ids : \A s : TellsApart(s, id) => s \in DOMAIN postings
    /\ Cardinality(AllShingles) <= MaxShingles

(* What the query shares with some reference, and which pair of cues it is   *)
(* counted for.                                                              *)
Useful == {s \in ShinglesOf(Query) : CueOf(Query, s) # None /\ s \in DOMAIN postings}
KeyOf(s) == <<postings[s].id, CueOf(Query, s), postings[s].cue>>
Keys(D) == {KeyOf(s) : s \in D}

(* Both cues of a useful shingle exist.                                      *)
LEMMA UsefulFacts ==
    ASSUME case \in Cases, Indexed, NEW s \in Useful
    PROVE  /\ postings[s].id \in Ids /\ TellsApart(s, postings[s].id)
           /\ s \in ShinglesOf(Query)
           /\ CueOf(Query, s) \in DOMAIN Query /\ CueOf(Query, s) # None
           /\ postings[s].cue \in DOMAIN Text(postings[s].id)
           /\ postings[s].cue = CueOf(Text(postings[s].id), s)
           /\ postings[s].cue # None
<1>1. postings[s].id \in Ids /\ TellsApart(s, postings[s].id) /\ s \in ShinglesOf(Query)
      /\ CueOf(Query, s) # None /\ postings[s].cue = CueOf(Text(postings[s].id), s)
  BY DEF Useful, Indexed
<1>2. CueOf(Query, s) \in DOMAIN Query
  BY <1>1, WhatIsGiven, CueFacts
<1>3. Cardinality(Mentions(Text(postings[s].id), s)) = 1
  BY <1>1 DEF TellsApart
<1>4. postings[s].cue \in DOMAIN Text(postings[s].id) /\ postings[s].cue # None
  BY <1>1, <1>3, WhatIsGiven, CueFacts
<1> QED
  BY <1>1, <1>2, <1>4

(* A shingle tells one reference apart at most.                              *)
LEMMA OneIsTold ==
    ASSUME case \in Cases, NEW s, NEW id \in Ids, NEW other \in Ids,
           TellsApart(s, id), TellsApart(s, other)
    PROVE  id = other
<1>1. ASSUME id # other PROVE FALSE
  <2>1. Mentions(Text(id), s) = {} /\ Cardinality(Mentions(Text(id), s)) = 1
    BY <1>1 DEF TellsApart
  <2> QED
    BY <2>1, FS_EmptySet
<1> QED
  BY <1>1

(* It is common to the cues of its key, and to no others.                    *)
LEMMA CommonIsKeyed ==
    ASSUME case \in Cases, Indexed, NEW id \in Ids, NEW k, NEW l
    PROVE  Common(id, k, l) = {s \in Useful : KeyOf(s) = <<id, k, l>>}
<1>1. ASSUME NEW s \in Common(id, k, l)
      PROVE  s \in Useful /\ KeyOf(s) = <<id, k, l>>
  <2>1. /\ s \in ShinglesOf(Query) /\ TellsApart(s, id)
        /\ \E p \in DOMAIN Query[k].says : Mentions(Query, s) = {<<k, p>>}
        /\ \E p \in DOMAIN Text(id)[l].says : <<l, p>> \in Mentions(Text(id), s)
    BY DEF Common
  <2>2. s \in DOMAIN postings
    BY <2>1 DEF Indexed
  <2>3. postings[s].id = id
    BY <2>1, <2>2, OneIsTold DEF Indexed
  <2>4. CueOf(Query, s) = k /\ CueOf(Query, s) # None
    <3>1. \A t \in Texts : \A j, p : Mentions(t, s) = {<<j, p>>} => CueOf(t, s) = j /\ CueOf(t, s) # None
      BY CueFacts
    <3> QED
      BY <2>1, <3>1, WhatIsGiven
  <2>5. CueOf(Text(id), s) = l
    <3>1. CueOf(Text(id), s) # None
      BY <2>1, WhatIsGiven, CueFacts DEF TellsApart
    <3>2. PICK p : Mentions(Text(id), s) = {<<CueOf(Text(id), s), p>>}
      BY <3>1, WhatIsGiven, CueFacts
    <3>3. PICK q : <<l, q>> \in Mentions(Text(id), s)
      BY <2>1
    <3>4. <<l, q>> = <<CueOf(Text(id), s), p>>
      BY <3>2, <3>3
    <3> QED
      BY <3>4
  <2>6. postings[s].cue = l
    BY <2>2, <2>3, <2>5 DEF Indexed
  <2> QED
    BY <2>1, <2>2, <2>3, <2>4, <2>6 DEF Useful, KeyOf
<1>2. ASSUME NEW s \in Useful, KeyOf(s) = <<id, k, l>> PROVE s \in Common(id, k, l)
  <2>1. /\ TellsApart(s, id) /\ s \in ShinglesOf(Query)
        /\ k = CueOf(Query, s) /\ k # None
        /\ l = CueOf(Text(id), s) /\ l # None
    BY <1>2, UsefulFacts DEF KeyOf
  <2>2. \E p \in DOMAIN Query[k].says : Mentions(Query, s) = {<<k, p>>}
    BY <2>1, WhatIsGiven, CueFacts
  <2>3. \E p \in DOMAIN Text(id)[l].says : Mentions(Text(id), s) = {<<l, p>>}
    BY <2>1, WhatIsGiven, CueFacts
  <2>4. \E p \in DOMAIN Text(id)[l].says : <<l, p>> \in Mentions(Text(id), s)
    BY <2>3
  <2> QED
    BY <2>1, <2>2, <2>4 DEF Common
<1> QED
  BY <1>1, <1>2

(* The keys are the pairs of cues that have a shingle in common.             *)
LEMMA KeysArePairs ==
    ASSUME case \in Cases, Indexed
    PROVE  /\ IsFiniteSet(Useful) /\ IsFiniteSet(Keys(Useful))
           /\ \A key \in Keys(Useful) : key = <<key[1], key[2], key[3]>> /\ key[1] \in Ids
                 /\ key[2] \in DOMAIN Query /\ key[3] \in DOMAIN Text(key[1])
           /\ \A id \in Ids : \A k, l : <<id, k, l>> \in Keys(Useful) <=> <<k, l>> \in CuePairs(id)
<1>1. IsFiniteSet(Useful)
  <2>1. Useful \in SUBSET ShinglesOf(Query)
    BY DEF Useful
  <2> QED
    BY <2>1, AllFinite, FS_Subset
<1>2. IsFiniteSet(Keys(Useful))
  <2> DEFINE f == [s \in Useful |-> KeyOf(s)]
  <2>1. f \in Surjection(Useful, Keys(Useful))
    BY DEF Surjection, Keys
  <2> HIDE DEF f
  <2> QED
    BY <1>1, <2>1, FS_Surjection
<1>3. ASSUME NEW key \in Keys(Useful)
      PROVE  /\ key = <<key[1], key[2], key[3]>> /\ key[1] \in Ids
             /\ key[2] \in DOMAIN Query /\ key[3] \in DOMAIN Text(key[1])
  <2>1. PICK s \in Useful : key = KeyOf(s)
    BY DEF Keys
  <2>2. key[1] = postings[s].id /\ key[2] = CueOf(Query, s) /\ key[3] = postings[s].cue
        /\ key = <<key[1], key[2], key[3]>>
    BY <2>1 DEF KeyOf
  <2>3. postings[s].id \in Ids /\ CueOf(Query, s) \in DOMAIN Query
        /\ postings[s].cue \in DOMAIN Text(postings[s].id)
    BY UsefulFacts
  <2> QED
    BY <2>2, <2>3
<1>4. ASSUME NEW id \in Ids, NEW k, NEW l
      PROVE  <<id, k, l>> \in Keys(Useful) <=> <<k, l>> \in CuePairs(id)
  <2>1. <<id, k, l>> \in Keys(Useful) <=> Common(id, k, l) # {}
    BY CommonIsKeyed DEF Keys
  <2>2. <<id, k, l>> \in Keys(Useful) => k \in DOMAIN Query /\ l \in DOMAIN Text(id)
    BY <1>3
  <2>3. <<k, l>> \in CuePairs(id) <=>
            k \in DOMAIN Query /\ l \in DOMAIN Text(id) /\ Common(id, k, l) # {}
    BY DEF CuePairs
  <2> QED
    BY <2>1, <2>2, <2>3
<1> QED
  BY <1>1, <1>2, <1>3, <1>4

KeysOf(id) == {key \in Keys(Useful) : key[1] = id}

(* So the pairs of cues can be counted by their keys.                        *)
LEMMA PairsByKey ==
    ASSUME case \in Cases, Indexed
    PROVE  /\ Cardinality(Pairings) = Cardinality(Keys(Useful))
           /\ \A id \in Ids : /\ IsFiniteSet(KeysOf(id))
                              /\ Cardinality(CuePairs(id)) = Cardinality(KeysOf(id))
<1>1. /\ IsFiniteSet(Keys(Useful))
      /\ \A key \in Keys(Useful) : key = <<key[1], key[2], key[3]>> /\ key[1] \in Ids
      /\ \A id \in Ids : \A k, l : <<id, k, l>> \in Keys(Useful) <=> <<k, l>> \in CuePairs(id)
  BY KeysArePairs
<1>2. \A id \in Ids : \A pair \in CuePairs(id) : pair = <<pair[1], pair[2]>>
  BY DEF CuePairs
<1>3. \A x : x \in Pairings <=> \E id \in Ids : \E pair \in CuePairs(id) : x = <<id, pair>>
  BY DEF Pairings
<1>4. Cardinality(Pairings) = Cardinality(Keys(Useful))
  <2> DEFINE K == Keys(Useful)
             f == [key \in K |-> <<key[1], <<key[2], key[3]>>>>]
  <2>1. ASSUME NEW key \in K PROVE f[key] \in Pairings
    <3>1. key = <<key[1], key[2], key[3]>> /\ key[1] \in Ids
      BY <1>1
    <3>2. <<key[2], key[3]>> \in CuePairs(key[1])
      BY <1>1, <3>1
    <3> QED
      BY <1>3, <3>1, <3>2
  <2>2. ASSUME NEW a \in K, NEW b \in K, f[a] = f[b] PROVE a = b
    <3>1. a = <<a[1], a[2], a[3]>> /\ b = <<b[1], b[2], b[3]>>
      BY <1>1
    <3>2. a[1] = b[1] /\ a[2] = b[2] /\ a[3] = b[3]
      BY <2>2
    <3> QED
      BY <3>1, <3>2
  <2>3. ASSUME NEW x \in Pairings PROVE \E key \in K : f[key] = x
    <3>1. PICK id \in Ids : \E pair \in CuePairs(id) : x = <<id, pair>>
      BY <1>3
    <3>2. PICK pair \in CuePairs(id) : x = <<id, pair>>
      BY <3>1
    <3> DEFINE key == <<id, pair[1], pair[2]>>
    <3>3. pair = <<pair[1], pair[2]>>
      BY <1>2
    <3>4. key \in K
      BY <1>1, <3>3
    <3>5. f[key] = <<id, <<pair[1], pair[2]>>>>
      BY <3>4
    <3> QED
      BY <3>2, <3>3, <3>4, <3>5
  <2>4. DOMAIN f = K /\ f = [x \in DOMAIN f |-> f[x]]
    OBVIOUS
  <2> HIDE DEF f, K
  <2>5. f \in Bijection(K, Pairings)
    <3>1. f \in [K -> Pairings]
      BY <2>1, <2>4
    <3> QED
      BY <2>2, <2>3, <3>1 DEF Bijection, Injection, Surjection, IsInjective
  <2> QED
    BY <1>1, <2>5, FS_Bijection DEF ExistsBijection, K
<1>5. ASSUME NEW id \in Ids
      PROVE  IsFiniteSet(KeysOf(id)) /\ Cardinality(CuePairs(id)) = Cardinality(KeysOf(id))
  <2> DEFINE K == KeysOf(id)
             f == [key \in K |-> <<key[2], key[3]>>]
  <2>0. \A key : key \in K <=> key \in Keys(Useful) /\ key[1] = id
    BY DEF KeysOf
  <2>1. ASSUME NEW key \in K PROVE f[key] \in CuePairs(id)
    <3>1. key = <<key[1], key[2], key[3]>> /\ key[1] = id
      BY <1>1, <2>0
    <3>2. <<key[2], key[3]>> \in CuePairs(id)
      BY <1>1, <2>0, <3>1
    <3> QED
      BY <3>2
  <2>2. ASSUME NEW a \in K, NEW b \in K, f[a] = f[b] PROVE a = b
    <3>1. a = <<a[1], a[2], a[3]>> /\ b = <<b[1], b[2], b[3]>> /\ a[1] = id /\ b[1] = id
      BY <1>1, <2>0
    <3>2. a[2] = b[2] /\ a[3] = b[3]
      BY <2>2
    <3> QED
      BY <3>1, <3>2
  <2>3. ASSUME NEW pair \in CuePairs(id) PROVE \E key \in K : f[key] = pair
    <3> DEFINE key == <<id, pair[1], pair[2]>>
    <3>1. pair = <<pair[1], pair[2]>>
      BY <1>2
    <3>2. key \in K
      BY <1>1, <2>0, <3>1
    <3>3. f[key] = <<pair[1], pair[2]>>
      BY <3>2
    <3> QED
      BY <3>1, <3>2, <3>3
  <2>4. DOMAIN f = K /\ f = [x \in DOMAIN f |-> f[x]]
    OBVIOUS
  <2>5. IsFiniteSet(K)
    <3>1. K \in SUBSET Keys(Useful)
      BY <2>0
    <3> HIDE DEF K
    <3> QED
      BY <1>1, <3>1, FS_Subset
  <2> HIDE DEF f, K
  <2>6. f \in Bijection(K, CuePairs(id))
    <3>1. f \in [K -> CuePairs(id)]
      BY <2>1, <2>4
    <3> QED
      BY <2>2, <2>3, <3>1 DEF Bijection, Injection, Surjection, IsInjective
  <2>7. Cardinality(CuePairs(id)) = Cardinality(K)
    BY <2>5, <2>6, FS_Bijection DEF ExistsBijection
  <2> QED
    BY <2>5, <2>7 DEF K
<1> QED
  BY <1>4, <1>5

-----------------------------------------------------------------------------
(* The shingles of D are counted: each for its key, within the limits.       *)
CountedFor(D) ==
    /\ DOMAIN pairs = Keys(D)
    /\ \A key \in DOMAIN pairs : pairs[key] = Cardinality({s \in D : KeyOf(s) = key})
    /\ Cardinality(DOMAIN pairs) <= TotalPairs
    /\ \A id \in Ids : Cardinality(Of(id)) <= PerReference

(* Once all are, no limit is exceeded.                                       *)
LEMMA WithinLimits ==
    ASSUME case \in Cases, Indexed, CountedFor(Useful)
    PROVE  ~Exceeds
<1>1. \A id \in Ids : KeysOf(id) = Of(id)
  BY DEF KeysOf, Of, CountedFor
<1>2. /\ Cardinality(Pairings) = Cardinality(DOMAIN pairs)
      /\ \A id \in Ids : Cardinality(CuePairs(id)) = Cardinality(Of(id))
  BY <1>1, PairsByKey DEF CountedFor
<1>3. /\ Cardinality(DOMAIN pairs) \in Nat
      /\ \A id \in Ids : Cardinality(Of(id)) \in Nat
  <2>1. \A id \in Ids : Of(id) \in SUBSET DOMAIN pairs
    BY DEF Of
  <2>2. IsFiniteSet(DOMAIN pairs)
    BY KeysArePairs DEF CountedFor
  <2>3. \A id \in Ids : IsFiniteSet(Of(id))
    BY <2>1, <2>2, FS_Subset
  <2> QED
    BY <2>2, <2>3, FS_CardinalityType
<1>4. /\ TotalPairs \in Nat /\ PerReference \in Nat
      /\ Cardinality(DOMAIN pairs) <= TotalPairs
      /\ \A id \in Ids : Cardinality(Of(id)) <= PerReference
  BY MatchingAssumption DEF CountedFor
<1> QED
  BY <1>2, <1>3, <1>4 DEF Exceeds

(* The anchors of a reference are its strong pairs of cues, listed by the    *)
(* cues of the query.                                                        *)
LEMMA AnchorsListed ==
    ASSUME case \in Cases, Indexed, CountedFor(Useful), NEW id \in Ids
    PROVE  \E e : /\ Stands(AnchorsOf(id), e, Strong(id), id)
                 /\ \A m, n \in 1..Len(AnchorsOf(id)) : m < n => e[m][1] <= e[n][1]
<1> DEFINE K == Anchoring(id)
           N == Cardinality(K)
           R == {x \in K \X K : Earlier(x[1], x[2])}
           key == [n \in 1..N |-> CHOOSE a \in K : Cardinality({b \in K : Earlier(b, a)}) = n - 1]
           e == [n \in 1..N |-> <<key[n][2], key[n][3]>>]
           s == AnchorsOf(id)
<1>1. /\ IsFiniteSet(K) /\ N \in Nat
      /\ \A a \in K : /\ a = <<id, a[2], a[3]>> /\ a[2] \in DOMAIN Query /\ a[3] \in DOMAIN Text(id)
                      /\ a[2] \in Nat /\ a[3] \in Nat
  <2>1. K \in SUBSET Keys(Useful) /\ \A a \in K : a[1] = id
    BY DEF Anchoring, Of, CountedFor
  <2>2. IsFiniteSet(K) /\ N \in Nat
    BY <2>1, KeysArePairs, FS_Subset, FS_CardinalityType
  <2>3. \A a \in K : a = <<id, a[2], a[3]>> /\ a[2] \in DOMAIN Query /\ a[3] \in DOMAIN Text(id)
    BY <2>1, KeysArePairs
  <2>4. \A t \in Texts : \A k \in DOMAIN t : k \in Nat
    BY TranscriptFacts
  <2> QED
    BY <2>2, <2>3, <2>4, WhatIsGiven
<1>2. \A a, b \in K : <<a, b>> \in R <=> Earlier(a, b)
  OBVIOUS
<1>3. \A a, b \in K : Earlier(a, b) <=> a[2] < b[2] \/ (a[2] = b[2] /\ a[3] < b[3])
  BY DEF Earlier, Before
<1> HIDE DEF K, R
<1>4. /\ \A a \in K : Cardinality(Prior(K, R, a)) \in 0..(N - 1)
      /\ \A a, b \in K : <<a, b>> \in R =>
            Cardinality(Prior(K, R, a)) < Cardinality(Prior(K, R, b))
      /\ \A n \in 1..N : \E a \in K : Cardinality(Prior(K, R, a)) = n - 1
  <2>1. \A a \in K : <<a, a>> \notin R
    BY <1>1, <1>2, <1>3
  <2>2. \A a, b, c \in K : <<a, b>> \in R /\ <<b, c>> \in R => <<a, c>> \in R
    BY <1>1, <1>2, <1>3
  <2>3. ASSUME NEW a \in K, NEW b \in K PROVE a = b \/ <<a, b>> \in R \/ <<b, a>> \in R
    <3>1. a[2] \in Nat /\ a[3] \in Nat /\ b[2] \in Nat /\ b[3] \in Nat
      BY <1>1
    <3>2. (a[2] = b[2] /\ a[3] = b[3]) \/ Earlier(a, b) \/ Earlier(b, a)
      BY <1>3, <3>1
    <3>3. a[2] = b[2] /\ a[3] = b[3] => a = b
      BY <1>1
    <3> QED
      BY <1>2, <3>2, <3>3
  <2> QED
    BY <1>1, <2>1, <2>2, <2>3, Places
<1>5. \A a \in K : {b \in K : Earlier(b, a)} = Prior(K, R, a)
  BY <1>2 DEF Prior
<1> HIDE DEF N
<1>6. ASSUME NEW n \in 1..N
      PROVE  key[n] \in K /\ Cardinality(Prior(K, R, key[n])) = n - 1
  <2>1. \E a \in K : Cardinality({b \in K : Earlier(b, a)}) = n - 1
    BY <1>4, <1>5
  <2>2. key[n] \in K /\ Cardinality({b \in K : Earlier(b, key[n])}) = n - 1
    BY <2>1
  <2> HIDE DEF key
  <2> QED
    BY <1>5, <2>2
<1>7. s = [n \in 1..N |-> [q |-> Query[key[n][2]].start, r |-> Text(id)[key[n][3]].start,
                           support |-> pairs[key[n]]]]
  BY DEF AnchorsOf, K, N
<1>8. e \in [1..N -> {<<a[2], a[3]>> : a \in K}] /\ \A n \in 1..N : e[n] = <<key[n][2], key[n][3]>>
  BY <1>6
<1> HIDE DEF key, e
<1>9. \A a \in K : pairs[a] = Cardinality(Common(id, a[2], a[3])) /\ pairs[a] >= MinShingles
  <2> SUFFICES ASSUME NEW a \in K
               PROVE  pairs[a] = Cardinality(Common(id, a[2], a[3])) /\ pairs[a] >= MinShingles
    OBVIOUS
  <2>1. a \in DOMAIN pairs /\ pairs[a] >= MinShingles
    BY DEF K, Anchoring, Of
  <2>2. pairs[a] = Cardinality({x \in Useful : KeyOf(x) = a})
    BY <2>1 DEF CountedFor
  <2>3. Common(id, a[2], a[3]) = {x \in Useful : KeyOf(x) = <<id, a[2], a[3]>>}
    BY CommonIsKeyed
  <2>4. a = <<id, a[2], a[3]>>
    BY <1>1
  <2> QED
    BY <2>1, <2>2, <2>3, <2>4
<1>10. \A a \in K : pairs[a] \in Nat \ {0}
  <2> SUFFICES ASSUME NEW a \in K PROVE pairs[a] \in Nat \ {0}
    OBVIOUS
  <2>1. Common(id, a[2], a[3]) \in SUBSET Useful
    BY CommonIsKeyed
  <2>2. Cardinality(Common(id, a[2], a[3])) \in Nat
    BY <2>1, KeysArePairs, FS_Subset, FS_CardinalityType
  <2> QED
    BY <1>9, <2>2, MatchingAssumption
<1>11. \A pair : pair \in Strong(id) <=> \E a \in K : pair = <<a[2], a[3]>>
  <2>1. ASSUME NEW a \in K PROVE <<a[2], a[3]>> \in Strong(id)
    <3>1. a \in Keys(Useful) /\ a = <<id, a[2], a[3]>>
      BY <1>1 DEF K, Anchoring, Of, CountedFor
    <3>2. <<a[2], a[3]>> \in CuePairs(id)
      BY <3>1, KeysArePairs
    <3>3. <<a[2], a[3]>>[1] = a[2] /\ <<a[2], a[3]>>[2] = a[3]
      OBVIOUS
    <3> QED
      BY <1>9, <3>2, <3>3 DEF Strong
  <2>2. ASSUME NEW pair \in Strong(id) PROVE \E a \in K : pair = <<a[2], a[3]>>
    <3> DEFINE a == <<id, pair[1], pair[2]>>
    <3>1. pair \in CuePairs(id) /\ pair = <<pair[1], pair[2]>>
      BY DEF Strong, CuePairs
    <3>2. a \in Keys(Useful)
      BY <3>1, KeysArePairs
    <3>3. a \in DOMAIN pairs /\ a[1] = id
      BY <3>2 DEF CountedFor
    <3>4. pairs[a] = Cardinality({x \in Useful : KeyOf(x) = a})
      BY <3>3 DEF CountedFor
    <3>5. Common(id, pair[1], pair[2]) = {x \in Useful : KeyOf(x) = a}
      BY CommonIsKeyed
    <3>6. Cardinality(Common(id, pair[1], pair[2])) >= MinShingles
      BY DEF Strong
    <3>7. a \in K
      BY <3>3, <3>4, <3>5, <3>6 DEF K, Anchoring, Of
    <3> QED
      BY <3>1, <3>7
  <2> QED
    BY <2>1, <2>2
<1>12. s \in Seq(Anchors) /\ Len(s) = N
  <2>1. \A n \in 1..N : [q |-> Query[key[n][2]].start, r |-> Text(id)[key[n][3]].start,
                           support |-> pairs[key[n]]] \in Anchors
    <3> SUFFICES ASSUME NEW n \in 1..N
                 PROVE  [q |-> Query[key[n][2]].start, r |-> Text(id)[key[n][3]].start,
                           support |-> pairs[key[n]]] \in Anchors
      OBVIOUS
    <3>1. \A t \in Texts : \A k \in DOMAIN t : t[k].start \in Nat
      BY TranscriptFacts
    <3>2. Query[key[n][2]].start \in Nat /\ Text(id)[key[n][3]].start \in Nat
      BY <1>1, <1>6, <3>1, WhatIsGiven
    <3>3. pairs[key[n]] \in Nat \ {0}
      BY <1>6, <1>10
    <3> QED
      BY <3>2, <3>3 DEF Anchors
  <2> QED
    BY <1>1, <1>7, <2>1 DEF N
<1>13. e \in Bijection(1..N, Strong(id))
  <2>1. {<<a[2], a[3]>> : a \in K} = Strong(id)
    BY <1>11
  <2>2. e \in [1..N -> Strong(id)]
    BY <1>8, <2>1
  <2>3. ASSUME NEW m \in 1..N, NEW n \in 1..N, e[m] = e[n] PROVE m = n
    <3>1. key[m][2] = key[n][2] /\ key[m][3] = key[n][3]
      BY <1>8, <2>3
    <3>2. key[m] = key[n]
      BY <1>1, <1>6, <3>1
    <3>3. m - 1 = n - 1
      BY <1>6, <3>2
    <3> QED
      BY <3>3
  <2>4. ASSUME NEW pair \in Strong(id) PROVE \E n \in 1..N : e[n] = pair
    <3>1. PICK a \in K : pair = <<a[2], a[3]>>
      BY <1>11
    <3> DEFINE n == Cardinality(Prior(K, R, a)) + 1
    <3>2. n \in 1..N /\ n - 1 = Cardinality(Prior(K, R, a))
      <4>1. Cardinality(Prior(K, R, a)) \in 0..(N - 1)
        BY <1>4
      <4> QED
        BY <1>1, <4>1 DEF N
    <3> HIDE DEF n
    <3>3. key[n] \in K /\ Cardinality(Prior(K, R, key[n])) = Cardinality(Prior(K, R, a))
      BY <1>6, <3>2
    <3>4. Cardinality(Prior(K, R, a)) \in Int
      BY <1>4
    <3>5. key[n] = a
      <4>1. ~(Cardinality(Prior(K, R, a)) < Cardinality(Prior(K, R, a)))
        BY <3>4
      <4>2. <<key[n], a>> \notin R /\ <<a, key[n]>> \notin R
        BY <1>4, <3>3, <4>1
      <4> QED
        BY <1>1, <1>2, <1>3, <3>3, <4>2
    <3> QED
      BY <1>8, <3>1, <3>2, <3>5
  <2> QED
    BY <2>2, <2>3, <2>4 DEF Bijection, Injection, Surjection, IsInjective
<1>14. \A n \in 1..N : s[n].q = Query[e[n][1]].start /\ s[n].r = Text(id)[e[n][2]].start
  <2> SUFFICES ASSUME NEW n \in 1..N
               PROVE  s[n].q = Query[e[n][1]].start /\ s[n].r = Text(id)[e[n][2]].start
    OBVIOUS
  <2>1. e[n][1] = key[n][2] /\ e[n][2] = key[n][3]
    BY <1>8
  <2>2. s[n].q = Query[key[n][2]].start /\ s[n].r = Text(id)[key[n][3]].start
    BY <1>7
  <2> QED
    BY <2>1, <2>2
<1>15. ASSUME NEW m \in 1..N, NEW n \in 1..N, m < n PROVE e[m][1] <= e[n][1]
  <2>1. /\ key[m] \in K /\ key[n] \in K
        /\ Cardinality(Prior(K, R, key[m])) = m - 1 /\ Cardinality(Prior(K, R, key[n])) = n - 1
    BY <1>6
  <2>2. m \in Nat /\ n \in Nat /\ ~(n - 1 < m - 1)
    BY <1>15
  <2>3. <<key[n], key[m]>> \notin R
    BY <1>4, <2>1, <2>2
  <2>4. ~Earlier(key[n], key[m])
    BY <1>2, <2>1, <2>3
  <2>5. ~(key[n][2] < key[m][2]) /\ key[m][2] \in Nat /\ key[n][2] \in Nat
    BY <1>1, <1>3, <2>1, <2>4
  <2>6. key[m][2] <= key[n][2]
    BY <2>5
  <2> QED
    BY <1>8, <2>6
<1> HIDE DEF s
<1>16. Stands(s, e, Strong(id), id) /\ Len(s) = N
  BY <1>12, <1>13, <1>14 DEF Stands
<1> QED
  BY <1>15, <1>16 DEF s

LEMMA AnchorsStand ==
    ASSUME case \in Cases, Indexed, CountedFor(Useful), NEW id \in Ids
    PROVE  \E e : Stands(AnchorsOf(id), e, Strong(id), id)
  BY AnchorsListed

-----------------------------------------------------------------------------
(* The leading candidate and the verdict.                                    *)

(* One of finitely many candidates leads, and none scores higher.            *)
Ranked(C) ==
    /\ IsFiniteSet(C) /\ \A c \in C : c.id \in Nat /\ c.score \in Nat
    /\ \A c, d \in C : c.id = d.id => c = d

LEMMA LeaderExists ==
    ASSUME NEW C, Ranked(C), C # {}
    PROVE  \E c \in C : Leads(c, C)
<1> DEFINE f == [c \in C |-> -c.score]
<1>1. /\ IsFiniteSet(C) /\ \A c \in C : c.id \in Nat /\ c.score \in Nat
      /\ \A c, d \in C : c.id = d.id => c = d
  BY DEF Ranked
<1>2. f \in [C -> Int] /\ \A c \in C : f[c] = -c.score
  BY <1>1
<1> HIDE DEF f
<1>3. PICK b \in C : \A c \in C : f[b] <= f[c]
  BY <1>1, <1>2, LeastOf
<1> DEFINE B == {c \in C : c.score = b.score}
           g == [c \in B |-> c.id]
<1>4. IsFiniteSet(B) /\ B # {} /\ B \subseteq C
  <2>1. B \in SUBSET C /\ b \in B
    OBVIOUS
  <2> HIDE DEF B
  <2> QED
    BY <1>1, <2>1, FS_Subset
<1>5. g \in [B -> Int] /\ \A c \in B : g[c] = c.id
  BY <1>1
<1> HIDE DEF g
<1>6. PICK top \in B : \A c \in B : g[top] <= g[c]
  <2> HIDE DEF B
  <2> QED
    BY <1>4, <1>5, LeastOf
<1>7. ASSUME NEW d \in C \ {top} PROVE Before(<<-top.score, top.id>>, <<-d.score, d.id>>)
  <2>1. top \in C /\ top.score = b.score /\ d.score <= b.score
    BY <1>1, <1>2, <1>3
  <2>2. top.id # d.id
    BY <1>1, <2>1
  <2>3. d.score = b.score => top.id <= d.id
    BY <1>5, <1>6
  <2>4. -top.score < -d.score \/ (-top.score = -d.score /\ top.id < d.id)
    BY <1>1, <2>1, <2>2, <2>3
  <2> QED
    BY <2>4 DEF Before
<1>8. top \in C
  OBVIOUS
<1> QED
  BY <1>7, <1>8 DEF Leads

(* Who leads has the best score.                                             *)
LEMMA LeaderIsBest ==
    ASSUME NEW C, Ranked(C), NEW c, Leads(c, C)
    PROVE  c \in C /\ \A d \in C : d.score <= c.score
<1>1. c \in C
  BY DEF Leads
<1>2. ASSUME NEW d \in C, d # c PROVE d.score <= c.score
  <2>1. Before(<<-c.score, c.id>>, <<-d.score, d.id>>)
    BY <1>2 DEF Leads
  <2>2. -c.score < -d.score \/ -c.score = -d.score
    BY <2>1 DEF Before
  <2> QED
    BY <1>1, <2>2 DEF Ranked
<1>3. c.score <= c.score
  BY <1>1 DEF Ranked
<1> QED
  BY <1>1, <1>2, <1>3

(* A product grows with its factor.                                          *)
LEMMA Multiplied ==
    ASSUME NEW a \in Nat, NEW b \in Nat, NEW k \in Nat, a <= b
    PROVE  a * k <= b * k /\ a * k \in Nat /\ b * k \in Nat
OBVIOUS

(* Who does not compete, does not with a lower score either.                 *)
LEMMA CompetesLess ==
    ASSUME NEW top, NEW runner, NEW c, top.score \in Nat, runner.score \in Nat,
           c.score \in Nat, c.score <= runner.score, Competes(c, top)
    PROVE  Competes(runner, top)
<1>1. MinSupport \in Nat /\ Share[1] \in Nat /\ Share[2] \in Nat
  BY MatchingAssumption
<1>2. /\ c.score * Share[1] <= runner.score * Share[1]
      /\ c.score * Share[1] \in Nat /\ runner.score * Share[1] \in Nat
      /\ top.score * Share[2] \in Nat
  BY <1>1, Multiplied
<1>3. runner.score >= MinSupport
  BY <1>1 DEF Competes
<1>4. CASE c.score + 1 >= top.score
  BY <1>3, <1>4 DEF Competes
<1>5. CASE c.score * Share[1] >= top.score * Share[2]
  <2> DEFINE a == c.score * Share[1]
             b == runner.score * Share[1]
             d == top.score * Share[2]
  <2>1. a <= b /\ a >= d /\ a \in Nat /\ b \in Nat /\ d \in Nat
    BY <1>2, <1>5
  <2> HIDE DEF a, b, d
  <2>2. b >= d
    BY <2>1
  <2> QED
    BY <1>3, <2>2 DEF Competes, b, d
<1> QED
  BY <1>4, <1>5 DEF Competes

(* The candidates are the references with evidence, scored by it.            *)
Scored ==
    /\ \A id \in Ids : Evidence(id) \in Nat
    /\ \A c \in candidates : c.id \in Ids /\ c.score = Evidence(c.id) /\ c.score # 0
                             /\ c = [id |-> c.id, score |-> c.score]
    /\ \A id \in Ids : Evidence(id) # 0 => [id |-> id, score |-> Evidence(id)] \in candidates

(* So they can be ranked.                                                    *)
LEMMA CandidatesRanked ==
    ASSUME case \in Cases, Scored
    PROVE  Ranked(candidates)
<1>1. \A c \in candidates : c.id \in Nat /\ c.score \in Nat
  BY WhatIsGiven DEF Scored
<1>2. ASSUME NEW c \in candidates, NEW d \in candidates, c.id = d.id PROVE c = d
  <2>1. c = [id |-> c.id, score |-> Evidence(c.id)] /\ d = [id |-> d.id, score |-> Evidence(d.id)]
    BY DEF Scored
  <2> QED
    BY <1>2, <2>1
<1>3. IsFiniteSet(candidates)
  <2> DEFINE g == [c \in candidates |-> c.id]
  <2>1. g \in Injection(candidates, Ids)
    <3>1. g \in [candidates -> Ids]
      BY DEF Scored
    <3>2. \A c, d \in candidates : g[c] = g[d] => c = d
      BY <1>2
    <3> HIDE DEF g
    <3> QED
      BY <3>1, <3>2 DEF Injection, IsInjective
  <2> HIDE DEF g
  <2> QED
    BY <2>1, WhatIsGiven, FS_Injection
<1> QED
  BY <1>1, <1>2, <1>3 DEF Ranked

(* What the leading candidate says of the others.                            *)
LEMMA LeaderDecides ==
    ASSUME case \in Cases, Scored, NEW top \in candidates, Leads(top, candidates)
    PROVE  /\ top.id \in Ids /\ Evidence(top.id) = top.score
           /\ \A id \in Ids : Evidence(id) <= top.score
           /\ top.score >= MinSupport =>
                 \A id \in Ids : Clear(id) <=> id = top.id /\ ~Contested(top)
<1>1. Ranked(candidates) /\ top.score \in Nat /\ top.id \in Ids /\ Evidence(top.id) = top.score
      /\ MinSupport \in Nat \ {0}
      /\ Share[1] \in Nat /\ Share[2] \in Nat
  BY CandidatesRanked, MatchingAssumption DEF Scored
<1>2. \A c \in candidates : c.score <= top.score
  BY <1>1, LeaderIsBest
<1>3. ASSUME NEW id \in Ids PROVE Evidence(id) <= top.score
  <2>1. CASE Evidence(id) = 0
    BY <1>1, <2>1
  <2>2. CASE Evidence(id) # 0
    BY <1>2, <2>2 DEF Scored
  <2> QED
    BY <2>1, <2>2
<1> DEFINE As(id) == [id |-> id, score |-> Evidence(id)]
           Rests(id) == Evidence(id) >= MinSupport =>
                           /\ Evidence(id) + 1 < top.score
                           /\ Evidence(id) * Share[1] < top.score * Share[2]
<1>4. ASSUME NEW id \in Ids PROVE Rests(id) <=> ~Competes(As(id), top)
  <2>1. Evidence(id) \in Nat /\ Evidence(id) * Share[1] \in Nat /\ top.score * Share[2] \in Nat
    <3>1. Evidence(id) \in Nat
      BY DEF Scored
    <3> QED
      BY <1>1, <3>1, Multiplied
  <2>2. As(id).score = Evidence(id)
    OBVIOUS
  <2> DEFINE a == Evidence(id) * Share[1]
             b == top.score * Share[2]
  <2> HIDE DEF As, a, b
  <2>3. Competes(As(id), top) <=> /\ Evidence(id) >= MinSupport
                                  /\ Evidence(id) + 1 >= top.score \/ a >= b
    BY <2>2 DEF Competes, a, b
  <2>4. Rests(id) <=> (Evidence(id) >= MinSupport => Evidence(id) + 1 < top.score /\ a < b)
    BY DEF a, b
  <2>5. a \in Nat /\ b \in Nat
    BY <2>1 DEF a, b
  <2> QED
    BY <1>1, <2>1, <2>3, <2>4, <2>5
<1>5. ASSUME Contested(top) PROVE \E other \in Ids \ {top.id} : ~Rests(other)
  <2>1. PICK runner \in candidates : Leads(runner, candidates \ {top}) /\ Competes(runner, top)
    BY <1>5 DEF Contested
  <2>2. runner # top /\ runner.id \in Ids /\ runner = As(runner.id)
    BY <2>1 DEF Leads, Scored
  <2>3. runner.id # top.id
    BY <1>1, <2>2 DEF Ranked
  <2>4. ~Rests(runner.id)
    <3> HIDE DEF Rests, As
    <3> QED
      BY <1>4, <2>1, <2>2
  <2> QED
    BY <2>2, <2>3, <2>4
<1>6. ASSUME NEW other \in Ids \ {top.id}, ~Rests(other) PROVE Contested(top)
  <2>1. Competes(As(other), top)
    <3> HIDE DEF Rests, As
    <3> QED
      BY <1>4, <1>6
  <2>2. Evidence(other) # 0
    BY <1>1, <2>1 DEF Competes
  <2> DEFINE C == candidates \ {top}
  <2>3. As(other) \in C
    <3>1. As(other).id # top.id
      OBVIOUS
    <3> QED
      BY <2>2, <3>1 DEF Scored
  <2>4. Ranked(C)
    <3>1. IsFiniteSet(C)
      BY <1>1, FS_RemoveElement DEF Ranked
    <3> QED
      BY <1>1, <3>1 DEF Ranked
  <2> HIDE DEF C
  <2>5. PICK runner \in C : Leads(runner, C)
    BY <2>3, <2>4, LeaderExists
  <2>6. As(other).score <= runner.score
    BY <2>3, <2>4, <2>5, LeaderIsBest
  <2>7. As(other).score \in Nat /\ runner.score \in Nat
    BY <2>3, <2>4, <2>5 DEF Ranked
  <2>8. Competes(runner, top)
    <3> HIDE DEF As
    <3> QED
      BY <1>1, <2>1, <2>6, <2>7, CompetesLess
  <2> QED
    BY <2>5, <2>8 DEF Contested, C
<1>7. ASSUME top.score >= MinSupport, NEW id \in Ids
      PROVE  Clear(id) <=> id = top.id /\ ~Contested(top)
  <2>1. Clear(top.id) <=> \A other \in Ids \ {top.id} : Rests(other)
    BY <1>1, <1>7 DEF Clear
  <2>2. id # top.id => ~Clear(id)
    <3> SUFFICES ASSUME id # top.id, Clear(id) PROVE FALSE
      OBVIOUS
    <3>1. top.score + 1 < Evidence(id)
      BY <1>1, <1>7 DEF Clear
    <3>2. Evidence(id) \in Nat /\ Evidence(id) <= top.score
      BY <1>3 DEF Scored
    <3> QED
      BY <1>1, <3>1, <3>2
  <2> HIDE DEF Rests
  <2>3. Clear(top.id) <=> ~Contested(top)
    BY <1>5, <1>6, <2>1
  <2> QED
    BY <2>2, <2>3
<1> QED
  BY <1>1, <1>3, <1>7

-----------------------------------------------------------------------------
(* What the verdict should be stays so.                                      *)

(* What the verdict should be depends on nothing but the case.               *)
Exactly(v) ==
    /\ v.is \in Verdicts =>
          v = IF \E id \in Ids : Clear(id)
              THEN Identified(CHOOSE id \in Ids : Clear(id))
              ELSE IF \E id \in Ids : Evidence(id) >= MinSupport THEN Plainly("ambiguous")
              ELSE Plainly("unknown")
    /\ v.is = "index shingles" => Cardinality(AllShingles) > MaxShingles
    /\ v.is = "query candidate cue pairs" => Exceeds
    /\ v.is \in Verdicts => ~Exceeds /\ Cardinality(AllShingles) <= MaxShingles

(* This is the property, said of any verdict.                                *)
LEMMA ExactIsExactly == VerdictIsExact <=> Exactly(verdict)
BY DEF VerdictIsExact, VerdictIsDeserved, LimitsAreExact, Exactly, AllShingles

(* As long as the case is the same, so is all that is said of it.            *)
LEMMA CaseKept ==
    ASSUME UNCHANGED case
    PROVE  /\ Ids' = Ids /\ Query' = Query /\ \A i : Text(i)' = Text(i)
           /\ AllShingles' = AllShingles
           /\ \A i, s : TellsApart(s, i)' <=> TellsApart(s, i)
           /\ \A v : Exactly(v)' <=> Exactly(v)
<1>1. Ids' = Ids /\ Query' = Query /\ \A i : Text(i)' = Text(i)
  BY DEF Ids, Query, Text, References
<1>2. \A i, s : TellsApart(s, i)' <=> TellsApart(s, i)
  BY <1>1 DEF TellsApart
<1>3. \A i, k, l : Common(i, k, l)' = Common(i, k, l)
  <2> SUFFICES ASSUME NEW i, NEW k, NEW l, NEW s
               PROVE  s \in Common(i, k, l)' <=> s \in Common(i, k, l)
    OBVIOUS
  <2> QED
    BY <1>1, <1>2 DEF Common
<1>4. \A i : CuePairs(i)' = CuePairs(i)
  <2> SUFFICES ASSUME NEW i, NEW x PROVE x \in CuePairs(i)' <=> x \in CuePairs(i)
    OBVIOUS
  <2> QED
    BY <1>1, <1>3 DEF CuePairs
<1>5. \A i, set : Independent(i, set)' <=> Independent(i, set)
  BY <1>1 DEF Independent
<1>6. \A i : Strong(i)' = Strong(i)
  <2> SUFFICES ASSUME NEW i, NEW x PROVE x \in Strong(i)' <=> x \in Strong(i)
    OBVIOUS
  <2> QED
    BY <1>3, <1>4 DEF Strong
<1>7. ASSUME NEW i PROVE Evidence(i)' = Evidence(i)
  <2> DEFINE sizes == {Cardinality(set) : set \in {e \in SUBSET Strong(i) : Independent(i, e)}}
  <2>1. Evidence(i) = CHOOSE n \in sizes : \A m \in sizes : m <= n
    BY DEF Evidence, Strong
  <2>2. Evidence(i)' = CHOOSE n \in sizes' : \A m \in sizes' : m <= n
    BY DEF Evidence, Strong
  <2>3. sizes' = sizes
    BY <1>5, <1>6
  <2> HIDE DEF sizes
  <2> QED
    BY <2>1, <2>2, <2>3
<1>8. \A i : Clear(i)' <=> Clear(i)
  BY <1>1, <1>7 DEF Clear
<1>9. Pairings' = Pairings /\ (Exceeds' <=> Exceeds)
  <2>1. Pairings' = Pairings
    BY <1>1, <1>4 DEF Pairings
  <2> QED
    BY <1>1, <1>4, <2>1 DEF Exceeds
<1>10. AllShingles' = AllShingles
  BY <1>1 DEF AllShingles
<1>11. ASSUME NEW v PROVE Exactly(v)' <=> Exactly(v)
  <2>1. (CHOOSE id \in Ids : Clear(id))' = CHOOSE id \in Ids : Clear(id)
    BY <1>1, <1>8
  <2>2. (\E id \in Ids : Clear(id))' <=> \E id \in Ids : Clear(id)
    BY <1>1, <1>8
  <2>3. (\E id \in Ids : Evidence(id) >= MinSupport)' <=> \E id \in Ids : Evidence(id) >= MinSupport
    BY <1>1, <1>7
  <2> QED
    BY <1>9, <1>10, <2>1, <2>2, <2>3 DEF Exactly
<1> QED
  BY <1>1, <1>2, <1>10, <1>11

-----------------------------------------------------------------------------
(* Matching: the invariant behind the verdict.                               *)

(* While the index is built: a shingle seen once is known by its one place,  *)
(* and one seen again is said by another reference.                          *)
Attributed == \A s \in DOMAIN known :
    /\ known[s].owners = 1 => known[s].at = CueOf(Text(known[s].id), s)
    /\ known[s].owners > 1 => \E other \in Ids \ {known[s].id} : Said(other, s)
Fitting == IsFiniteSet(DOMAIN known) /\ Cardinality(DOMAIN known) <= MaxShingles

(* While pairs are counted: those of the shingles visited so far.            *)
Done == {s \in Useful : <<s, None>> \notin todo}
Pairing == /\ candidates = {} /\ CountedFor(Done)
           /\ todo \subseteq {<<s, None>> : s \in ShinglesOf(Query)}

(* While references are assessed: those with anchors are candidates.         *)
Scoring == /\ CountedFor(Useful)
           /\ todo \subseteq {<<id, None>> : id \in Ids}
           /\ candidates = {Candidate(i) : i \in {id \in Ids : /\ <<id, None>> \notin todo
                                                               /\ AnchorsOf(id) # <<>>}}

Sound ==
    /\ case \in Cases
    /\ matching # "done" => verdict = Plainly("none")
    /\ matching = "index" => Attributed /\ Fitting
    /\ matching \in {"pairs", "assess"} => Indexed
    /\ matching = "pairs" => Pairing
    /\ matching = "assess" => Scoring
    /\ Exactly(verdict)

(* No verdict and the refusals of the list itself promise nothing.           *)
LEMMA NotYet ==
    ASSUME NEW what, what \notin Verdicts, what # "index shingles",
           what # "query candidate cue pairs"
    PROVE  Exactly(Plainly(what))
BY DEF Exactly, Plainly

(* Returning a verdict that is exact keeps the invariant.                    *)
LEMMA ReturnsExactly ==
    ASSUME Sound, NEW v, Exactly(v), Return(v)
    PROVE  Sound'
<1>1. case' = case /\ matching' = "done" /\ verdict' = v
  BY DEF Return
<1>2. Exactly(v)' <=> Exactly(v)
  BY <1>1, CaseKept
<1>3. Exactly(verdict)'
  BY <1>1, <1>2 DEF Exactly
<1> QED
  BY <1>1, <1>3 DEF Sound

(* At first there is no verdict.                                             *)
LEMMA SoundAtFirst == MatchingInit => Sound
<1> SUFFICES ASSUME MatchingInit PROVE Sound
  OBVIOUS
<1>1. case \in Cases /\ matching = "given" /\ verdict = Plainly("none")
  BY DEF MatchingInit
<1>2. Exactly(Plainly("none"))
  BY NotYet DEF Verdicts
<1> QED
  BY <1>1, <1>2 DEF Sound

(* A step that returns nothing leaves the verdict open.                      *)
LEMMA StillNone ==
    ASSUME Sound, matching # "done", UNCHANGED <<case, verdict>>
    PROVE  /\ case' \in Cases /\ verdict' = Plainly("none") /\ Exactly(verdict)'
<1>1. verdict' = Plainly("none") /\ case' = case /\ case \in Cases /\ Exactly(Plainly("none"))
  BY DEF Sound
<1>2. Exactly(Plainly("none"))'
  BY <1>1, CaseKept
<1>3. Exactly(verdict)'
  BY <1>1, <1>2 DEF Exactly
<1> QED
  BY <1>1, <1>3

(* The index begins with nothing known.                                      *)
LEMMA BegunSound == Sound /\ MatchingInv /\ Given => Sound'
<1> SUFFICES ASSUME Sound, MatchingInv, Given PROVE Sound'
  OBVIOUS
<1>1. ASSUME NEW what \in {"NoReferences", "reference count", "DuplicateReferenceId"},
             Return(Plainly(what))
      PROVE  Sound'
  <2>1. Exactly(Plainly(what))
    BY NotYet DEF Verdicts
  <2> QED
    BY <1>1, <2>1, ReturnsExactly
<1>2. CASE /\ matching' = "index"
           /\ UNCHANGED <<case, known, postings, pairs, candidates, verdict>>
  <2>1. known = <<>> /\ matching = "given"
    BY DEF Given, MatchingInv, Empty
  <2>2. DOMAIN known' = {}
    BY <1>2, <2>1
  <2>3. Attributed'
    BY <2>2 DEF Attributed
  <2>4. Fitting'
    BY <2>2, FS_EmptySet, MatchingAssumption DEF Fitting
  <2>5. case' \in Cases /\ verdict' = Plainly("none") /\ Exactly(verdict)'
    BY <1>2, <2>1, StillNone
  <2> QED
    BY <1>2, <2>3, <2>4, <2>5 DEF Sound
<1> QED
  BY <1>1, <1>2 DEF Given

(* A shingle is known by its one place until another reference says it.      *)
LEMMA CountedSound == Sound /\ MatchingInv /\ CountShingle => Sound'
<1> SUFFICES ASSUME Sound, MatchingInv, CountShingle PROVE Sound'
  OBVIOUS
<1>1. PICK entry \in todo :
         \/ IndexFull(entry[2]) /\ Return(Plainly("index shingles"))
         \/ /\ ~IndexFull(entry[2])
            /\ known' = With(known, entry[2], IF entry[2] \in DOMAIN known
                                             THEN SeenAgain(entry[2])
                                             ELSE Seen(entry[1], entry[2]))
            /\ todo' = todo \ {entry}
            /\ UNCHANGED <<case, matching, postings, pairs, candidates, verdict>>
  BY DEF CountShingle
<1>2. matching = "index" /\ Listed /\ Noted /\ Attributed /\ Fitting /\ case \in Cases
  BY DEF MatchingInv, Indexing, CountShingle, Sound
<1>3. PICK id \in Ids : \E s \in ShinglesOf(Text(id)) : entry = <<id, s>>
  BY <1>1, <1>2 DEF Listed
<1>4. PICK s \in ShinglesOf(Text(id)) : entry = <<id, s>>
  BY <1>3
<1>5. IsFiniteSet(AllShingles) /\ DOMAIN known \union {s} \in SUBSET AllShingles
  <2>1. ASSUME NEW x \in DOMAIN known PROVE x \in AllShingles
    BY <1>2 DEF Noted, Said, AllShingles
  <2>2. s \in AllShingles
    BY DEF AllShingles
  <2> QED
    BY <1>2, <2>1, <2>2, AllFinite
<1>6. IsFiniteSet(DOMAIN known) /\ Cardinality(DOMAIN known) \in Nat /\ MaxShingles \in Nat
      /\ Cardinality(DOMAIN known) <= MaxShingles
  BY <1>2, FS_CardinalityType, MatchingAssumption DEF Fitting
<1>7. /\ IsFiniteSet(DOMAIN known \union {s})
      /\ Cardinality(DOMAIN known \union {s}) = IF s \in DOMAIN known THEN Cardinality(DOMAIN known)
                                                ELSE Cardinality(DOMAIN known) + 1
  BY <1>6, FS_AddElement
<1>8. CASE IndexFull(s) /\ Return(Plainly("index shingles"))
  <2>1. Cardinality(DOMAIN known \union {s}) = MaxShingles + 1
    BY <1>7, <1>8 DEF IndexFull
  <2>2. Cardinality(DOMAIN known \union {s}) <= Cardinality(AllShingles)
    BY <1>5, FS_Subset
  <2>3. Cardinality(AllShingles) \in Nat
    BY <1>5, FS_CardinalityType
  <2>4. Cardinality(AllShingles) > MaxShingles
    BY <1>6, <2>1, <2>2, <2>3
  <2>5. Exactly(Plainly("index shingles"))
    BY <2>4 DEF Exactly, Plainly, Verdicts
  <2> QED
    BY <1>8, <2>5, ReturnsExactly
<1>9. CASE /\ ~IndexFull(s)
           /\ known' = With(known, s, IF s \in DOMAIN known THEN SeenAgain(s) ELSE Seen(id, s))
           /\ todo' = todo \ {<<id, s>>}
           /\ UNCHANGED <<case, matching, postings, pairs, candidates, verdict>>
  <2>1. Ids' = Ids /\ \A i : Text(i)' = Text(i)
    BY <1>9, CaseKept
  <2>2. /\ DOMAIN known' = DOMAIN known \union {s}
        /\ \A x \in DOMAIN known \ {s} : known'[x] = known[x]
        /\ known'[s] = IF s \in DOMAIN known THEN SeenAgain(s) ELSE Seen(id, s)
    BY <1>9 DEF With
  <2>3. Fitting'
    <3>1. s \in DOMAIN known \/ Cardinality(DOMAIN known) # MaxShingles
      BY <1>9 DEF IndexFull
    <3>2. Cardinality(DOMAIN known \union {s}) <= MaxShingles
      BY <1>6, <1>7, <3>1
    <3> QED
      BY <1>7, <2>2, <3>2 DEF Fitting
  <2>4. Attributed'
    <3> SUFFICES ASSUME NEW x \in DOMAIN known \union {s}
                 PROVE  /\ known'[x].owners = 1 => known'[x].at = CueOf(Text(known'[x].id), x)
                        /\ known'[x].owners > 1 =>
                              \E other \in Ids \ {known'[x].id} : Said(other, x)
      BY <2>1, <2>2 DEF Attributed, Said
    <3>1. CASE x # s
      BY <1>2, <2>2, <3>1 DEF Attributed
    <3>2. CASE x = s /\ s \notin DOMAIN known
      <4>1. known'[x].owners = 1 /\ known'[x].at = CueOf(Text(id), s) /\ known'[x].id = id
        BY <2>2, <3>2 DEF Seen
      <4> QED
        BY <3>2, <4>1
    <3>3. CASE x = s /\ s \in DOMAIN known
      <4>1. known'[x].owners = known[s].owners + 1 /\ known'[x].id = known[s].id
        BY <2>2, <3>3 DEF SeenAgain
      <4>2. known[s].owners \in Nat \ {0} /\ <<known[s].id, s>> \notin todo
        BY <1>2, <3>3 DEF Noted
      <4>3. known[s].id # id
        BY <1>1, <1>4, <4>2
      <4>4. Said(id, s)
        BY DEF Said
      <4> QED
        BY <3>3, <4>1, <4>2, <4>3, <4>4
    <3> QED
      BY <3>1, <3>2, <3>3
  <2>5. case' \in Cases /\ verdict' = Plainly("none") /\ Exactly(verdict)'
    BY <1>2, <1>9, StillNone
  <2> QED
    BY <1>2, <1>9, <2>3, <2>4, <2>5 DEF Sound
<1>10. entry[1] = id /\ entry[2] = s
  BY <1>4
<1> QED
  BY <1>1, <1>4, <1>8, <1>9, <1>10

(* What stays in the index tells a reference apart, and all that does stays. *)
LEMMA SuppressedSound == Sound /\ MatchingInv /\ Suppress => Sound'
<1> SUFFICES ASSUME Sound, MatchingInv, Suppress PROVE Sound'
  OBVIOUS
<1>1. /\ matching = "index" /\ todo = {} /\ matching' = "pairs"
      /\ postings' = [s \in Distinctive |-> [id |-> known[s].id, cue |-> known[s].at]]
      /\ todo' = {<<s, None>> : s \in ShinglesOf(Query)}
      /\ UNCHANGED <<case, known, pairs, candidates, verdict>>
  BY DEF Suppress
<1>2. Noted /\ Visited /\ pairs = <<>> /\ candidates = {} /\ Attributed /\ Fitting /\ case \in Cases
  BY <1>1 DEF MatchingInv, Indexing, Early, Sound
<1>3. /\ Ids' = Ids /\ Query' = Query /\ \A i : Text(i)' = Text(i)
      /\ AllShingles' = AllShingles
      /\ \A i, s : TellsApart(s, i)' <=> TellsApart(s, i)
  BY <1>1, CaseKept
<1>4. /\ DOMAIN postings' = Distinctive
      /\ \A s \in Distinctive : postings'[s].id = known[s].id /\ postings'[s].cue = known[s].at
  BY <1>1
<1>5. ASSUME NEW s \in Distinctive
      PROVE  /\ known[s].id \in Ids /\ TellsApart(s, known[s].id)
             /\ known[s].at = CueOf(Text(known[s].id), s)
  <2>1. s \in DOMAIN known /\ known[s].owners = 1 /\ known[s].at # None
    BY DEF Distinctive
  <2>2. known[s].id \in Ids /\ known[s].at = CueOf(Text(known[s].id), s)
    BY <1>2, <2>1 DEF Noted, Attributed
  <2>3. Cardinality(Mentions(Text(known[s].id), s)) = 1
    BY <1>2, <2>1, <2>2, WhatIsGiven, CueFacts
  <2>4. ASSUME NEW other \in Ids \ {known[s].id} PROVE Mentions(Text(other), s) = {}
    <3>1. s \notin ShinglesOf(Text(other))
      BY <1>1, <1>2, <2>1 DEF Visited
    <3> QED
      BY <1>2, <3>1, WhatIsGiven, MentionFacts
  <2> QED
    BY <2>2, <2>3, <2>4 DEF TellsApart
<1>6. ASSUME NEW id \in Ids, NEW s, TellsApart(s, id) PROVE s \in Distinctive
  <2>1. Mentions(Text(id), s) # {} /\ CueOf(Text(id), s) # None
    <3>1. Cardinality(Mentions(Text(id), s)) = 1
      BY <1>6 DEF TellsApart
    <3>2. Mentions(Text(id), s) # {}
      BY <3>1, FS_EmptySet
    <3> QED
      BY <1>2, <3>1, <3>2, WhatIsGiven, CueFacts
  <2>2. s \in ShinglesOf(Text(id))
    BY <1>2, <2>1, WhatIsGiven, MentionFacts
  <2>3. \A other \in Ids \ {id} : ~Said(other, s)
    <3> SUFFICES ASSUME NEW other \in Ids \ {id} PROVE s \notin ShinglesOf(Text(other))
      BY DEF Said
    <3>1. Mentions(Text(other), s) = {}
      BY <1>6 DEF TellsApart
    <3> QED
      BY <1>2, <3>1, WhatIsGiven, MentionFacts
  <2>4. s \in DOMAIN known
    BY <1>1, <1>2, <2>2 DEF Visited
  <2>5. known[s].id = id /\ known[s].owners \in Nat \ {0}
    BY <1>2, <2>3, <2>4 DEF Noted
  <2>6. ~(known[s].owners > 1)
    BY <1>2, <2>3, <2>4, <2>5 DEF Attributed
  <2>7. known[s].owners = 1
    BY <2>5, <2>6
  <2>8. known[s].at # None
    BY <1>2, <2>1, <2>4, <2>5, <2>7 DEF Attributed
  <2> QED
    BY <2>4, <2>7, <2>8 DEF Distinctive
<1>7. Cardinality(AllShingles) <= MaxShingles
  <2>1. AllShingles \in SUBSET DOMAIN known
    BY <1>1, <1>2 DEF AllShingles, Visited
  <2>2. Cardinality(AllShingles) <= Cardinality(DOMAIN known) /\ IsFiniteSet(AllShingles)
    BY <1>2, <2>1, FS_Subset DEF Fitting
  <2>3. Cardinality(AllShingles) \in Nat /\ Cardinality(DOMAIN known) \in Nat
    BY <1>2, <2>2, FS_CardinalityType DEF Fitting
  <2> QED
    BY <1>2, <2>2, <2>3, MatchingAssumption DEF Fitting
<1>8. Indexed'
  BY <1>3, <1>4, <1>5, <1>6, <1>7 DEF Indexed
<1>9. Pairing'
  <2>1. DOMAIN pairs' = {} /\ candidates' = {}
    BY <1>1, <1>2
  <2>2. Done' = {}
    BY <1>1, <1>3 DEF Done, Useful
  <2>3. Cardinality({}) = 0 /\ TotalPairs \in Nat /\ PerReference \in Nat
    BY FS_EmptySet, MatchingAssumption
  <2>4. \A id : Of(id)' = {}
    BY <2>1 DEF Of
  <2>5. CountedFor(Done)'
    BY <2>1, <2>2, <2>3, <2>4 DEF CountedFor, Keys
  <2> QED
    BY <1>1, <1>3, <2>1, <2>5 DEF Pairing
<1>10. case' \in Cases /\ verdict' = Plainly("none") /\ Exactly(verdict)'
  BY <1>1, StillNone
<1> QED
  BY <1>1, <1>8, <1>9, <1>10 DEF Sound

(* Neither keys nor index change with the counts.                            *)
LEMMA KeysKept ==
    ASSUME UNCHANGED <<case, postings>>
    PROVE  /\ Useful' = Useful /\ (Indexed' <=> Indexed)
           /\ \A s : KeyOf(s)' = KeyOf(s)
           /\ \A D : Keys(D)' = Keys(D)
<1>1. Ids' = Ids /\ Query' = Query /\ (\A i : Text(i)' = Text(i)) /\ AllShingles' = AllShingles
      /\ \A i, s : TellsApart(s, i)' <=> TellsApart(s, i)
  BY CaseKept
<1>2. Useful' = Useful
  BY <1>1 DEF Useful
<1>3. Indexed' <=> Indexed
  BY <1>1 DEF Indexed
<1>4. \A s : KeyOf(s)' = KeyOf(s)
  BY <1>1 DEF KeyOf
<1>5. \A D : Keys(D)' = Keys(D)
  BY <1>4 DEF Keys
<1> QED
  BY <1>2, <1>3, <1>4, <1>5

(* What is counted stays counted.                                            *)
LEMMA CountKept ==
    ASSUME UNCHANGED <<case, postings, pairs>>, NEW D, CountedFor(D)
    PROVE  CountedFor(D)'
<1>1. Ids' = Ids /\ (\A s : KeyOf(s)' = KeyOf(s)) /\ Keys(D)' = Keys(D)
  BY CaseKept, KeysKept
<1>2. \A id : Of(id)' = Of(id)
  BY DEF Of
<1> QED
  BY <1>1, <1>2 DEF CountedFor

(* One more shingle is counted for its key.                                  *)
LEMMA OneMore ==
    ASSUME case \in Cases, Indexed, NEW D \in SUBSET Useful, CountedFor(D),
           NEW s \in Useful \ D,
           KeyOf(s) \in DOMAIN pairs \/ ~Full(KeyOf(s)[1]),
           UNCHANGED <<case, postings>>,
           pairs' = With(pairs, KeyOf(s), IF KeyOf(s) \in DOMAIN pairs
                                          THEN pairs[KeyOf(s)] + 1 ELSE 1)
    PROVE  CountedFor(D \union {s})'
<1> DEFINE key == KeyOf(s)
           E == D \union {s}
           On(set, k) == {x \in set : KeyOf(x) = k}
<1>1. /\ DOMAIN pairs' = DOMAIN pairs \union {key}
      /\ \A k \in DOMAIN pairs \ {key} : pairs'[k] = pairs[k]
      /\ pairs'[key] = IF key \in DOMAIN pairs THEN pairs[key] + 1 ELSE 1
  BY DEF With
<1>2. /\ Ids' = Ids /\ \A x : KeyOf(x)' = KeyOf(x)
  BY CaseKept, KeysKept
<1>3. Keys(E)' = DOMAIN pairs \union {key}
  <2>1. Keys(E)' = {KeyOf(x) : x \in E}
    BY <1>2 DEF Keys
  <2>2. Keys(D) = DOMAIN pairs
    BY DEF CountedFor
  <2> QED
    BY <2>1, <2>2 DEF Keys
<1>4. ASSUME NEW k \in DOMAIN pairs \union {key} PROVE pairs'[k] = Cardinality(On(E, k))
  <2>1. On(D, k) \in SUBSET Useful
    OBVIOUS
  <2>2. IsFiniteSet(On(D, k)) /\ Cardinality(On(D, k)) \in Nat
    <3> HIDE DEF On
    <3> QED
      BY <2>1, KeysArePairs, FS_Subset, FS_CardinalityType
  <2>3. CASE k # key
    <3>1. On(E, k) = On(D, k)
      BY <2>3
    <3>2. pairs[k] = Cardinality(On(D, k))
      BY <2>3 DEF CountedFor
    <3> QED
      BY <1>1, <2>3, <3>1, <3>2
  <2>4. CASE k = key
    <3>1. On(E, k) = On(D, k) \union {s} /\ s \notin On(D, k)
      BY <2>4
    <3>2. Cardinality(On(E, k)) = Cardinality(On(D, k)) + 1
      <4> HIDE DEF On
      <4> QED
        BY <2>2, <3>1, FS_AddElement
    <3>3. CASE key \in DOMAIN pairs
      <4>1. pairs[key] = Cardinality(On(D, key))
        BY <3>3 DEF CountedFor
      <4> QED
        BY <1>1, <2>4, <3>2, <3>3, <4>1
    <3>4. CASE key \notin DOMAIN pairs
      <4>1. On(D, k) = {}
        BY <2>4, <3>4 DEF CountedFor, Keys
      <4>2. Cardinality(On(D, k)) = 0
        BY <4>1, FS_EmptySet
      <4> HIDE DEF On, key
      <4> QED
        BY <1>1, <2>4, <3>2, <3>4, <4>2
    <3> QED
      BY <3>3, <3>4
  <2> QED
    BY <2>3, <2>4
<1>5. /\ IsFiniteSet(DOMAIN pairs) /\ Cardinality(DOMAIN pairs) \in Nat
      /\ \A id : IsFiniteSet(Of(id)) /\ Cardinality(Of(id)) \in Nat
      /\ TotalPairs \in Nat /\ PerReference \in Nat
      /\ Cardinality(DOMAIN pairs) <= TotalPairs
      /\ \A id \in Ids : Cardinality(Of(id)) <= PerReference
  <2>1. DOMAIN pairs \in SUBSET Keys(Useful)
    BY DEF CountedFor, Keys
  <2>2. IsFiniteSet(DOMAIN pairs) /\ Cardinality(DOMAIN pairs) \in Nat
    BY <2>1, KeysArePairs, FS_Subset, FS_CardinalityType
  <2>3. \A id : Of(id) \in SUBSET DOMAIN pairs
    BY DEF Of
  <2>4. \A id : IsFiniteSet(Of(id)) /\ Cardinality(Of(id)) \in Nat
    BY <2>2, <2>3, FS_Subset, FS_CardinalityType
  <2> QED
    BY <2>2, <2>4, MatchingAssumption DEF CountedFor
<1>6. Cardinality(DOMAIN pairs \union {key}) <= TotalPairs
  <2>1. key \in DOMAIN pairs \/ Cardinality(DOMAIN pairs) # TotalPairs
    BY DEF Full
  <2>2. Cardinality(DOMAIN pairs \union {key}) =
            IF key \in DOMAIN pairs THEN Cardinality(DOMAIN pairs) ELSE Cardinality(DOMAIN pairs) + 1
    BY <1>5, FS_AddElement
  <2> HIDE DEF key
  <2> QED
    BY <1>5, <2>1, <2>2
<1>7. ASSUME NEW id \in Ids PROVE Cardinality(Of(id)') <= PerReference
  <2>1. CASE id # key[1]
    <3>1. Of(id)' = Of(id)
      BY <1>1, <2>1 DEF Of
    <3> QED
      BY <1>5, <3>1
  <2>2. CASE id = key[1]
    <3>1. Of(id)' = Of(id) \union {key}
      BY <1>1, <2>2 DEF Of
    <3>2. key \in Of(id) \/ Cardinality(Of(id)) # PerReference
      BY <2>2 DEF Full, Of
    <3>3. Cardinality(Of(id) \union {key}) =
              IF key \in Of(id) THEN Cardinality(Of(id)) ELSE Cardinality(Of(id)) + 1
      BY <1>5, FS_AddElement
    <3> HIDE DEF key
    <3> QED
      BY <1>5, <3>1, <3>2, <3>3
  <2> QED
    BY <2>1, <2>2
<1> HIDE DEF E, key
<1>8. \A k \in DOMAIN pairs' : pairs'[k] = Cardinality({x \in E : KeyOf(x)' = k})
  BY <1>1, <1>2, <1>4
<1>9. CountedFor(E)'
  BY <1>1, <1>2, <1>3, <1>6, <1>7, <1>8 DEF CountedFor
<1> QED
  BY <1>9 DEF E

(* A shingle that has no room for its key takes the match over a limit.      *)
LEMMA OneTooMany ==
    ASSUME case \in Cases, Indexed, NEW D \in SUBSET Useful, CountedFor(D),
           NEW s \in Useful, KeyOf(s) \notin DOMAIN pairs, Full(KeyOf(s)[1])
    PROVE  Exceeds
<1> DEFINE key == KeyOf(s)
           id == key[1]
<1>1. /\ IsFiniteSet(Keys(Useful)) /\ IsFiniteSet(KeysOf(id)) /\ id \in Ids
      /\ Cardinality(Keys(Useful)) \in Nat /\ Cardinality(KeysOf(id)) \in Nat
  <2>1. id \in Ids /\ IsFiniteSet(Keys(Useful))
    BY KeysArePairs DEF Keys
  <2> HIDE DEF id
  <2> QED
    BY <2>1, PairsByKey, FS_CardinalityType
<1>2. DOMAIN pairs \union {key} \in SUBSET Keys(Useful) /\ key \notin DOMAIN pairs
  BY DEF CountedFor, Keys
<1>3. Of(id) \union {key} \in SUBSET KeysOf(id) /\ key \notin Of(id)
  BY <1>2 DEF Of, KeysOf
<1>4. /\ Cardinality(Pairings) = Cardinality(Keys(Useful))
      /\ Cardinality(CuePairs(id)) = Cardinality(KeysOf(id))
  <2> HIDE DEF id
  <2> QED
    BY <1>1, PairsByKey
<1>5. ASSUME NEW T, NEW S \in SUBSET T, IsFiniteSet(T), NEW x \in T \ S
      PROVE  Cardinality(S) + 1 <= Cardinality(T) /\ Cardinality(S) \in Nat /\ Cardinality(T) \in Nat
  <2>1. IsFiniteSet(S) /\ S \union {x} \in SUBSET T
    BY <1>5, FS_Subset
  <2>2. Cardinality(S \union {x}) = Cardinality(S) + 1
    BY <1>5, <2>1, FS_AddElement
  <2>3. Cardinality(S \union {x}) <= Cardinality(T)
    BY <1>5, <2>1, FS_Subset
  <2>4. Cardinality(S) \in Nat /\ Cardinality(T) \in Nat
    BY <1>5, <2>1, FS_CardinalityType
  <2> QED
    BY <2>2, <2>3, <2>4
<1>6. Cardinality(DOMAIN pairs) + 1 <= Cardinality(Keys(Useful)) /\ Cardinality(DOMAIN pairs) \in Nat
  <2> HIDE DEF key
  <2> QED
    BY <1>1, <1>2, <1>5
<1>7. Cardinality(Of(id)) + 1 <= Cardinality(KeysOf(id)) /\ Cardinality(Of(id)) \in Nat
  <2> HIDE DEF key, id
  <2> QED
    BY <1>1, <1>3, <1>5
<1>8. Cardinality(Of(id)) = PerReference \/ Cardinality(DOMAIN pairs) = TotalPairs
  BY DEF Full
<1> HIDE DEF key, id
<1>9. Cardinality(CuePairs(id)) > PerReference \/ Cardinality(Pairings) > TotalPairs
  BY <1>1, <1>4, <1>6, <1>7, <1>8
<1> QED
  BY <1>1, <1>9 DEF Exceeds

(* A useful shingle is counted once, any other is not.                       *)
LEMMA PairSound == Sound /\ CountPair => Sound'
<1> SUFFICES ASSUME Sound, CountPair PROVE Sound'
  OBVIOUS
<1>1. matching = "pairs" /\ case \in Cases /\ Indexed /\ candidates = {} /\ CountedFor(Done)
      /\ todo \subseteq {<<s, None>> : s \in ShinglesOf(Query)}
  BY DEF CountPair, Sound, Pairing
<1>2. PICK entry \in todo :
        LET s == entry[1]
            k == CueOf(Query, s)
        IN  \/ /\ k = None \/ s \notin DOMAIN postings
               /\ todo' = todo \ {entry}
               /\ UNCHANGED <<case, matching, known, postings, pairs, candidates, verdict>>
            \/ /\ k # None /\ s \in DOMAIN postings
               /\ Pair(s, <<postings[s].id, k, postings[s].cue>>)
  BY DEF CountPair
<1>3. PICK s \in ShinglesOf(Query) : entry = <<s, None>>
  BY <1>1
<1>4. /\ s \in Useful <=> CueOf(Query, s) # None /\ s \in DOMAIN postings
      /\ entry[1] = s /\ s \notin Done
  BY <1>3 DEF Useful, Done
<1>5. CASE /\ s \notin Useful /\ todo' = todo \ {<<s, None>>}
           /\ UNCHANGED <<case, matching, known, postings, pairs, candidates, verdict>>
  <2>1. Useful' = Useful /\ Indexed' /\ Query' = Query
    BY <1>1, <1>5, KeysKept, CaseKept
  <2>2. Done' = Done
    BY <1>5, <2>1 DEF Done
  <2>3. \A D : CountedFor(D) => CountedFor(D)'
    BY <1>5, CountKept
  <2>4. CountedFor(Done)'
    BY <1>1, <2>2, <2>3 DEF CountedFor
  <2>5. Pairing'
    BY <1>1, <1>5, <2>1, <2>4 DEF Pairing
  <2>6. case' \in Cases /\ verdict' = Plainly("none") /\ Exactly(verdict)'
    BY <1>1, <1>5, StillNone
  <2> QED
    BY <1>1, <1>5, <2>1, <2>5, <2>6 DEF Sound
<1>6. CASE s \in Useful /\ Pair(s, KeyOf(s))
  <2>0. Done \in SUBSET Useful
    BY DEF Done
  <2>1. CASE KeyOf(s) \notin DOMAIN pairs /\ Full(KeyOf(s)[1])
             /\ Return(Plainly("query candidate cue pairs"))
    <3>1. Exceeds
      BY <1>1, <1>6, <2>0, <2>1, OneTooMany
    <3>2. Exactly(Plainly("query candidate cue pairs"))
      BY <3>1 DEF Exactly, Plainly, Verdicts
    <3> QED
      BY <2>1, <3>2, ReturnsExactly
  <2>2. CASE /\ KeyOf(s) \in DOMAIN pairs \/ ~Full(KeyOf(s)[1])
             /\ pairs' = With(pairs, KeyOf(s), IF KeyOf(s) \in DOMAIN pairs
                                               THEN pairs[KeyOf(s)] + 1 ELSE 1)
             /\ todo' = todo \ {<<s, None>>}
             /\ UNCHANGED <<case, matching, known, postings, candidates, verdict>>
    <3>1. Useful' = Useful /\ Indexed' /\ Query' = Query
      BY <1>1, <2>2, KeysKept, CaseKept
    <3>2. Done' = Done \union {s}
      BY <1>6, <2>2, <3>1 DEF Done
    <3>3. \A D \in SUBSET Useful : CountedFor(D) /\ s \notin D => CountedFor(D \union {s})'
      BY <1>1, <1>6, <2>2, OneMore
    <3>4. CountedFor(Done)'
      <4>1. ASSUME NEW D \in SUBSET Useful, D = Done PROVE CountedFor(D \union {s})'
        BY <1>1, <1>4, <3>3, <4>1
      <4>2. \E D \in SUBSET Useful : D = Done /\ CountedFor(D \union {s})'
        BY <2>0, <4>1
      <4> QED
        BY <3>2, <4>2 DEF CountedFor
    <3>5. Pairing'
      BY <1>1, <2>2, <3>1, <3>4 DEF Pairing
    <3>6. case' \in Cases /\ verdict' = Plainly("none") /\ Exactly(verdict)'
      BY <1>1, <2>2, StillNone
    <3> QED
      BY <1>1, <2>2, <3>1, <3>5, <3>6 DEF Sound
  <2> QED
    BY <1>6, <2>1, <2>2 DEF Pair
<1> QED
  BY <1>2, <1>3, <1>4, <1>5, <1>6 DEF KeyOf

(* When none is left to visit, all useful shingles are counted.              *)
LEMMA AllPairsSound == Sound /\ PairsCounted => Sound'
<1> SUFFICES ASSUME Sound, PairsCounted PROVE Sound'
  OBVIOUS
<1>1. /\ matching = "pairs" /\ todo = {} /\ matching' = "assess"
      /\ todo' = {<<id, None>> : id \in Ids}
      /\ UNCHANGED <<case, known, postings, pairs, candidates, verdict>>
      /\ case \in Cases /\ Indexed /\ candidates = {} /\ CountedFor(Done)
  BY DEF PairsCounted, Sound, Pairing
<1>2. Done = Useful
  BY <1>1 DEF Done
<1>3. Useful' = Useful /\ Indexed' /\ Ids' = Ids
  BY <1>1, KeysKept, CaseKept
<1>4. \A D : CountedFor(D) => CountedFor(D)'
  BY <1>1, CountKept
<1>5. CountedFor(Useful)'
  BY <1>1, <1>2, <1>3, <1>4 DEF CountedFor
<1>6. Scoring'
  BY <1>1, <1>3, <1>5 DEF Scoring
<1>7. case' \in Cases /\ verdict' = Plainly("none") /\ Exactly(verdict)'
  BY <1>1, StillNone
<1> QED
  BY <1>1, <1>3, <1>6, <1>7 DEF Sound

(* A reference with anchors becomes a candidate, with its score.             *)
LEMMA AssessSound == Sound /\ Assess => Sound'
<1> SUFFICES ASSUME Sound, Assess PROVE Sound'
  OBVIOUS
<1>1. /\ matching = "assess" /\ UNCHANGED <<case, matching, known, postings, pairs, verdict>>
      /\ case \in Cases /\ Indexed /\ CountedFor(Useful)
      /\ todo \subseteq {<<id, None>> : id \in Ids}
  BY DEF Assess, Sound, Scoring
<1>2. PICK entry \in todo :
         /\ candidates' = IF AnchorsOf(entry[1]) = <<>> THEN candidates
                          ELSE candidates \union {Candidate(entry[1])}
         /\ todo' = todo \ {entry}
  BY DEF Assess
<1>3. PICK id \in Ids : entry = <<id, None>>
  BY <1>1
<1>4. Useful' = Useful /\ Indexed' /\ Ids' = Ids
  BY <1>1, KeysKept, CaseKept
<1>5. \A D : CountedFor(D) => CountedFor(D)'
  BY <1>1, CountKept
<1>6. CountedFor(Useful)'
  BY <1>1, <1>4, <1>5 DEF CountedFor
<1>7. \A i : AnchorsOf(i)' = AnchorsOf(i) /\ Candidate(i)' = Candidate(i)
  <2>1. \A i : Anchoring(i)' = Anchoring(i)
    BY <1>1 DEF Anchoring, Of
  <2>2. Query' = Query /\ \A i : Text(i)' = Text(i)
    BY <1>1, CaseKept
  <2>3. \A i : AnchorsOf(i)' = AnchorsOf(i)
    BY <1>1, <2>1, <2>2 DEF AnchorsOf
  <2> QED
    BY <2>3 DEF Candidate
<1> DEFINE Heard(set) == {i \in Ids : <<i, None>> \notin set /\ AnchorsOf(i) # <<>>}
<1>8. candidates' = {Candidate(i) : i \in Heard(todo')}
  <2>1. candidates = {Candidate(i) : i \in Heard(todo)}
    BY <1>1 DEF Sound, Scoring
  <2>2. Heard(todo') = IF AnchorsOf(id) = <<>> THEN Heard(todo) ELSE Heard(todo) \union {id}
    BY <1>2, <1>3
  <2>3. entry[1] = id
    BY <1>3
  <2> HIDE DEF Heard
  <2> QED
    BY <1>2, <2>1, <2>2, <2>3
<1>9. Scoring'
  BY <1>1, <1>2, <1>4, <1>6, <1>7, <1>8 DEF Scoring
<1>10. case' \in Cases /\ verdict' = Plainly("none") /\ Exactly(verdict)'
  BY <1>1, StillNone
<1> QED
  BY <1>1, <1>4, <1>9, <1>10 DEF Sound

(* The verdict follows from the candidates as from the evidence.             *)
LEMMA VerdictSound == Sound /\ Verdict => Sound'
<1> SUFFICES ASSUME Sound, Verdict PROVE Sound'
  OBVIOUS
<1>1. /\ matching = "assess" /\ todo = {} /\ case \in Cases /\ Indexed /\ CountedFor(Useful)
      /\ candidates = {Candidate(i) : i \in {id \in Ids : AnchorsOf(id) # <<>>}}
  BY DEF Verdict, Sound, Scoring
<1>2. ASSUME NEW id \in Ids
      PROVE  /\ Evidence(id) \in Nat /\ Candidate(id) = [id |-> id, score |-> Evidence(id)]
             /\ AnchorsOf(id) = <<>> <=> Evidence(id) = 0
  <2>1. PICK e : Stands(AnchorsOf(id), e, Strong(id), id)
    BY <1>1, AnchorsStand
  <2>2. /\ Evidence(id) = ScoreOf(AnchorsOf(id)) /\ Evidence(id) \in 0..Len(AnchorsOf(id))
        /\ Len(AnchorsOf(id)) \in Nat /\ (Len(AnchorsOf(id)) = 0 <=> Evidence(id) = 0)
    BY <2>1, EvidenceIsScore
  <2>3. AnchorsOf(id) = <<>> <=> Len(AnchorsOf(id)) = 0
    <3>1. AnchorsOf(id) \in Seq(Anchors)
      BY <2>1 DEF Stands
    <3> HIDE DEF AnchorsOf
    <3> QED
      BY <3>1
  <2> QED
    BY <2>2, <2>3 DEF Candidate
<1>3. Scored
  BY <1>1, <1>2 DEF Scored
<1>4. ~Exceeds /\ Cardinality(AllShingles) <= MaxShingles /\ MinSupport \in Nat \ {0}
  BY <1>1, WithinLimits, MatchingAssumption DEF Indexed
<1>5. CASE candidates = {} /\ Return(Plainly("unknown"))
  <2>1. \A id \in Ids : Evidence(id) = 0
    BY <1>3, <1>5 DEF Scored
  <2>2. \A id \in Ids : ~(Evidence(id) >= MinSupport) /\ ~Clear(id)
    BY <1>4, <2>1 DEF Clear
  <2>3. Exactly(Plainly("unknown"))
    BY <1>4, <2>2 DEF Exactly, Plainly
  <2> QED
    BY <1>5, <2>3, ReturnsExactly
<1>6. ASSUME NEW top \in candidates, Leads(top, candidates),
             \/ top.score < MinSupport /\ Return(Plainly("unknown"))
             \/ top.score >= MinSupport /\ Contested(top) /\ Return(Plainly("ambiguous"))
             \/ top.score >= MinSupport /\ ~Contested(top) /\ Return(Identified(top.id))
      PROVE  Sound'
  <2>1. /\ top.id \in Ids /\ Evidence(top.id) = top.score
        /\ \A id \in Ids : Evidence(id) <= top.score
        /\ top.score >= MinSupport =>
              \A id \in Ids : Clear(id) <=> id = top.id /\ ~Contested(top)
    BY <1>1, <1>3, <1>6, LeaderDecides
  <2>2. top.score \in Nat /\ \A id \in Ids : Evidence(id) \in Nat
    BY <1>3, <2>1 DEF Scored
  <2>3. CASE top.score < MinSupport /\ Return(Plainly("unknown"))
    <3>1. \A id \in Ids : ~(Evidence(id) >= MinSupport) /\ ~Clear(id)
      BY <1>4, <2>1, <2>2, <2>3 DEF Clear
    <3>2. Exactly(Plainly("unknown"))
      BY <1>4, <3>1 DEF Exactly, Plainly
    <3> QED
      BY <2>3, <3>2, ReturnsExactly
  <2>4. CASE top.score >= MinSupport /\ Contested(top) /\ Return(Plainly("ambiguous"))
    <3>1. (\A id \in Ids : ~Clear(id)) /\ \E id \in Ids : Evidence(id) >= MinSupport
      BY <2>1, <2>4
    <3>2. Exactly(Plainly("ambiguous"))
      BY <1>4, <3>1 DEF Exactly, Plainly
    <3> QED
      BY <2>4, <3>2, ReturnsExactly
  <2>5. CASE top.score >= MinSupport /\ ~Contested(top) /\ Return(Identified(top.id))
    <3>1. \A id \in Ids : Clear(id) <=> id = top.id
      BY <2>1, <2>5
    <3>2. (CHOOSE id \in Ids : Clear(id)) = top.id /\ \E id \in Ids : Clear(id)
      BY <2>1, <3>1
    <3>3. /\ Identified(top.id).is \in Verdicts
          /\ Identified(top.id).is \notin {"index shingles", "query candidate cue pairs"}
      BY DEF Identified, Verdicts
    <3>4. Exactly(Identified(top.id))
      BY <1>4, <3>2, <3>3 DEF Exactly
    <3> QED
      BY <2>5, <3>4, ReturnsExactly
  <2> QED
    BY <1>6, <2>3, <2>4, <2>5
<1> QED
  BY <1>5, <1>6 DEF Verdict

(* The invariant holds in every state.                                       *)
LEMMA SoundHolds == MatchingSpec => []Sound
<1>1. MatchingInit => Sound
  BY SoundAtFirst
<1>2. Sound /\ MatchingInv /\ [MatchingNext]_matchingVars => Sound'
  <2> SUFFICES ASSUME Sound, MatchingInv, [MatchingNext]_matchingVars PROVE Sound'
    OBVIOUS
  <2>1. CASE MatchingReturned \/ UNCHANGED matchingVars
    <3>1. UNCHANGED <<case, matching, todo, known, postings, pairs, candidates, verdict>>
      BY <2>1 DEF MatchingReturned, matchingVars
    <3>2. /\ Ids' = Ids /\ Query' = Query /\ \A i : Text(i)' = Text(i)
          /\ \A v : Exactly(v)' <=> Exactly(v)
      BY <3>1, CaseKept
    <3>3. Useful' = Useful /\ (Indexed' <=> Indexed)
      BY <3>1, KeysKept
    <3>4. \A D : CountedFor(D) => CountedFor(D)'
      BY <3>1, CountKept
    <3>5. matching = "index" => Attributed' /\ Fitting'
      BY <3>1, <3>2 DEF Sound, Attributed, Fitting, Said
    <3>6. matching = "pairs" => Pairing'
      <4> SUFFICES ASSUME matching = "pairs" PROVE Pairing'
        OBVIOUS
      <4>1. Done' = Done /\ CountedFor(Done)
        BY <3>1, <3>3 DEF Done, Sound, Pairing
      <4>2. CountedFor(Done)'
        BY <3>4, <4>1 DEF CountedFor
      <4> QED
        BY <3>1, <3>2, <4>2 DEF Sound, Pairing
    <3>7. matching = "assess" => Scoring'
      <4> SUFFICES ASSUME matching = "assess" PROVE Scoring'
        OBVIOUS
      <4>1. CountedFor(Useful)
        BY DEF Sound, Scoring
      <4>2. CountedFor(Useful)'
        BY <3>3, <3>4, <4>1 DEF CountedFor
      <4>3. \A i : Anchoring(i)' = Anchoring(i)
        BY <3>1 DEF Anchoring, Of
      <4>4. \A i : AnchorsOf(i)' = AnchorsOf(i)
        BY <3>1, <3>2, <4>3 DEF AnchorsOf
      <4>5. \A i : Candidate(i)' = Candidate(i)
        BY <4>4 DEF Candidate
      <4> QED
        BY <3>1, <3>2, <4>2, <4>4, <4>5 DEF Sound, Scoring
    <3>8. Exactly(verdict)'
      <4>1. Exactly(verdict) /\ verdict' = verdict
        BY <3>1 DEF Sound
      <4>2. \A v : v = verdict => Exactly(v)'
        BY <3>2, <4>1
      <4> QED
        BY <4>1, <4>2 DEF Exactly
    <3> QED
      BY <3>1, <3>3, <3>5, <3>6, <3>7, <3>8 DEF Sound
  <2> QED
    BY <2>1, BegunSound, CountedSound, SuppressedSound, PairSound, AllPairsSound, AssessSound,
       VerdictSound DEF MatchingNext
<1> QED
  BY <1>1, <1>2, MatchingHolds, PTL DEF MatchingSpec

(* Every verdict is the one that the transcripts deserve, and every refusal  *)
(* of a limit is deserved, whatever they say.                                *)
THEOREM VerdictsExact == MatchingSpec => []VerdictIsExact
<1>1. Sound => VerdictIsExact
  BY ExactIsExactly DEF Sound
<1> QED
  BY <1>1, SoundHolds, PTL

-----------------------------------------------------------------------------
(* Matching: types.                                                          *)

(* A shingle has at most as many owners as references were visited for it.   *)
Visitors(s) == {id \in Ids : Said(id, s) /\ <<id, s>> \notin todo}
Owned == \A s \in DOMAIN known :
    /\ known[s].owners \in 1..Cardinality(Ids)
    /\ matching = "index" => known[s].owners <= Cardinality(Visitors(s))
Lodged == DOMAIN postings \subseteq DOMAIN known
Told == \A s \in DOMAIN postings :
    postings[s].id \in Ids /\ postings[s].cue \in DOMAIN Text(postings[s].id)
Weighted ==
    /\ \A key \in DOMAIN pairs : key[1] \in Ids /\ pairs[key] \in Nat \ {0}
    /\ Cardinality(DOMAIN pairs) <= TotalPairs
Rated == \A c \in candidates : c.id \in Ids /\ c.score \in 1..Len(Query)
Settled ==
    /\ matching \in {"given", "index", "pairs", "assess", "done"}
    /\ verdict.is \in {"none"} \union Errors \union Verdicts
    /\ (verdict.is = "none") = (matching # "done")
    /\ IF verdict.is = "identified" THEN verdict.id \in Ids ELSE verdict.id = Nobody
TypedParts == Owned /\ Lodged /\ Told /\ Weighted /\ Rated /\ Settled

(* Independent evidence rests on different cues of the query: there is no    *)
(* more of it than cues.                                                     *)
LEMMA EvidenceWithin ==
    ASSUME case \in Cases, NEW id \in Ids
    PROVE  Evidence(id) <= Len(Query)
<1> DEFINE sets == {set \in SUBSET Strong(id) : Independent(id, set)}
           sizes == {Cardinality(set) : set \in sets}
<1>1. /\ DOMAIN Query = 1..Len(Query) /\ Len(Query) \in Nat
      /\ \A k \in DOMAIN Query : Query[k].start \in Nat
      /\ Separation \in Nat \ {0}
  BY WhatIsGiven, TranscriptFacts, ChainsAssumption
<1>2. IsFiniteSet(DOMAIN Query) /\ Cardinality(DOMAIN Query) = Len(Query)
  BY <1>1, FS_Interval
<1>3. ASSUME NEW set \in sets
      PROVE  Cardinality(set) \in Nat /\ Cardinality(set) <= Len(Query)
  <2> DEFINE f == [a \in set |-> a[1]]
  <2>1. \A a \in set : a[1] \in DOMAIN Query /\ Query[a[1]].start \in Nat
    BY <1>1 DEF Strong, CuePairs
  <2>2. ASSUME NEW a \in set, NEW b \in set, a[1] = b[1] PROVE a = b
    <3>1. Query[a[1]].start = Query[b[1]].start /\ Query[a[1]].start \in Nat
      BY <2>1, <2>2
    <3>2. a # b => \/ Query[b[1]].start - Query[a[1]].start >= Separation
                   \/ Query[a[1]].start - Query[b[1]].start >= Separation
      BY DEF Independent
    <3> QED
      BY <1>1, <3>1, <3>2
  <2>3. f \in Injection(set, DOMAIN Query)
    BY <2>1, <2>2 DEF Injection, IsInjective
  <2> HIDE DEF f
  <2>4. IsFiniteSet(set) /\ Cardinality(set) <= Cardinality(DOMAIN Query)
    BY <1>2, <2>3, FS_Injection
  <2> QED
    BY <1>2, <2>4, FS_CardinalityType
<1>4. {} \in sets
  BY DEF Independent
<1>5. Evidence(id) = CHOOSE n \in sizes : \A m \in sizes : m <= n
  BY DEF Evidence, Strong
<1> HIDE DEF sets
<1>6. sizes \in SUBSET Nat /\ sizes # {} /\ \A x \in sizes : x <= Len(Query)
  BY <1>3, <1>4
<1> HIDE DEF sizes
<1>7. \E n \in sizes : \A m \in sizes : m <= n
  BY <1>1, <1>6, LargestOf
<1> QED
  BY <1>5, <1>6, <1>7

(* What counts shingles is typed.                                            *)
LEMMA CountsTyped ==
    ASSUME case \in Cases, Indexed, NEW D \in SUBSET Useful, CountedFor(D)
    PROVE  Weighted
<1>1. ASSUME NEW key \in DOMAIN pairs PROVE key[1] \in Ids /\ pairs[key] \in Nat \ {0}
  <2> DEFINE T == {s \in D : KeyOf(s) = key}
  <2>1. PICK s \in D : KeyOf(s) = key
    BY DEF CountedFor, Keys
  <2>2. key \in Keys(Useful)
    BY <2>1 DEF Keys
  <2>3. T \in SUBSET Useful /\ T # {}
    BY <2>1
  <2>4. pairs[key] = Cardinality(T)
    BY DEF CountedFor
  <2> HIDE DEF T
  <2>5. IsFiniteSet(T)
    BY <2>3, KeysArePairs, FS_Subset
  <2>6. Cardinality(T) \in Nat \ {0}
    BY <2>3, <2>5, FS_CardinalityType, FS_EmptySet
  <2> QED
    BY <2>2, <2>4, <2>6, KeysArePairs
<1> QED
  BY <1>1 DEF Weighted, CountedFor

(* So is what is assessed: a score is evidence, and there is some.           *)
LEMMA ScoresTyped ==
    ASSUME case \in Cases, Indexed, Scoring
    PROVE  Rated
<1> SUFFICES ASSUME NEW c \in candidates PROVE c.id \in Ids /\ c.score \in 1..Len(Query)
  BY DEF Rated
<1>1. PICK id \in Ids : c = Candidate(id) /\ AnchorsOf(id) # <<>>
  BY DEF Scoring
<1>2. PICK e : Stands(AnchorsOf(id), e, Strong(id), id)
  BY AnchorsStand DEF Scoring
<1>3. /\ Evidence(id) = ScoreOf(AnchorsOf(id)) /\ Evidence(id) \in 0..Len(AnchorsOf(id))
      /\ Len(AnchorsOf(id)) \in Nat /\ (Len(AnchorsOf(id)) = 0 <=> Evidence(id) = 0)
  BY <1>2, EvidenceIsScore
<1>4. Len(AnchorsOf(id)) # 0
  <2>1. AnchorsOf(id) \in Seq(Anchors)
    BY <1>2 DEF Stands
  <2> HIDE DEF AnchorsOf
  <2> QED
    BY <1>1, <2>1
<1>5. Evidence(id) <= Len(Query) /\ Len(Query) \in Nat
  BY EvidenceWithin, WhatIsGiven, TranscriptFacts
<1>6. c.id = id /\ c.score = Evidence(id)
  BY <1>1, <1>3 DEF Candidate
<1> QED
  BY <1>3, <1>4, <1>5, <1>6

(* Before there is a result, the types follow from what is known to be so.   *)
Pending == matching # "done" => Told /\ Weighted /\ Rated /\ verdict = Plainly("none")
Phased == matching \in {"given", "index", "pairs", "assess", "done"}

LEMMA PhasesHold == MatchingSpec => []Phased
<1>1. MatchingInit => Phased
  BY DEF MatchingInit, Phased
<1>2. Phased /\ [MatchingNext]_matchingVars => Phased'
  BY DEF Phased, MatchingNext, matchingVars, Given, CountShingle, Suppress, CountPair, Pair,
         PairsCounted, Assess, Verdict, MatchingReturned, Return
<1> QED
  BY <1>1, <1>2, PTL DEF MatchingSpec

LEMMA PendingTyped == Sound /\ MatchingInv /\ Phased => Pending
<1> SUFFICES ASSUME Sound, MatchingInv, matching \in {"given", "index", "pairs", "assess"} PROVE Pending
  BY DEF Pending, Phased
<1>1. verdict = Plainly("none") /\ case \in Cases
  BY DEF Sound
<1>2. CASE matching \in {"given", "index"}
  <2>1. DOMAIN postings = {} /\ DOMAIN pairs = {} /\ candidates = {}
    BY <1>2 DEF MatchingInv, Early
  <2>2. Weighted
    BY <2>1, FS_EmptySet, MatchingAssumption DEF Weighted
  <2> QED
    BY <1>1, <2>1, <2>2 DEF Pending, Told, Rated
<1>3. CASE matching \in {"pairs", "assess"}
  <2>1. Indexed
    BY <1>3 DEF Sound
  <2>2. Told
    <3> SUFFICES ASSUME NEW s \in DOMAIN postings
                 PROVE  /\ postings[s].id \in Ids
                        /\ postings[s].cue \in DOMAIN Text(postings[s].id)
      BY DEF Told
    <3>1. /\ postings[s].id \in Ids /\ Cardinality(Mentions(Text(postings[s].id), s)) = 1
          /\ postings[s].cue = CueOf(Text(postings[s].id), s)
      BY <2>1 DEF Indexed, TellsApart
    <3> QED
      BY <1>1, <3>1, WhatIsGiven, CueFacts
  <2>3. Weighted
    <3>1. matching = "pairs" => CountedFor(Done) /\ Done \in SUBSET Useful
      BY DEF Sound, Pairing, Done
    <3>2. matching = "assess" => CountedFor(Useful)
      BY DEF Sound, Scoring
    <3>3. \E D \in SUBSET Useful : CountedFor(D)
      BY <1>3, <3>1, <3>2
    <3> QED
      BY <1>1, <2>1, <3>3, CountsTyped
  <2>4. Rated
    <3>1. matching = "pairs" => candidates = {}
      BY DEF Sound, Pairing
    <3>2. matching = "assess" => Scoring
      BY DEF Sound
    <3> QED
      BY <1>1, <1>3, <2>1, <3>1, <3>2, ScoresTyped DEF Rated
  <2> QED
    BY <1>1, <2>2, <2>3, <2>4 DEF Pending
<1> QED
  BY <1>2, <1>3

(* Visiting one more reference makes room for one more owner.                *)
LEMMA OwnersCounted ==
    ASSUME Owned, case \in Cases, matching = "index", UNCHANGED case,
           NEW id \in Ids, NEW s, Said(id, s), <<id, s>> \in todo,
           known' = With(known, s, IF s \in DOMAIN known THEN SeenAgain(s) ELSE Seen(id, s)),
           todo' = todo \ {<<id, s>>}
    PROVE  Owned'
<1>1. Ids' = Ids /\ (\A i : Text(i)' = Text(i)) /\ IsFiniteSet(Ids)
  BY CaseKept, WhatIsGiven
<1>2. \A i, x : Said(i, x)' <=> Said(i, x)
  BY <1>1 DEF Said
<1>3. \A x : x # s => Visitors(x)' = Visitors(x)
  BY <1>1, <1>2 DEF Visitors
<1>4. Visitors(s)' = Visitors(s) \union {id} /\ id \notin Visitors(s)
  BY <1>1, <1>2 DEF Visitors
<1>5. \A x : Visitors(x) \in SUBSET Ids /\ Visitors(x)' \in SUBSET Ids
  BY <1>1 DEF Visitors
<1>6. \A V \in SUBSET Ids : /\ IsFiniteSet(V) /\ Cardinality(V) \in Nat
                            /\ Cardinality(V) <= Cardinality(Ids)
  BY <1>1, FS_Subset, FS_CardinalityType
<1>7. Cardinality(Visitors(s)') = Cardinality(Visitors(s)) + 1
  <2>1. IsFiniteSet(Visitors(s))
    BY <1>5, <1>6
  <2> QED
    BY <1>4, <2>1, FS_AddElement
<1>8. /\ DOMAIN known' = DOMAIN known \union {s}
      /\ \A x \in DOMAIN known \ {s} : known'[x] = known[x]
      /\ known'[s] = IF s \in DOMAIN known THEN SeenAgain(s) ELSE Seen(id, s)
  BY DEF With
<1>9. /\ Cardinality(Visitors(s)) \in Nat /\ Cardinality(Ids) \in Nat
      /\ Cardinality(Visitors(s)') \in Nat /\ Cardinality(Visitors(s)') <= Cardinality(Ids)
  BY <1>1, <1>5, <1>6
<1>10. known'[s].owners \in Nat /\ 1 <= known'[s].owners
       /\ known'[s].owners <= Cardinality(Visitors(s)')
  <2>1. CASE s \in DOMAIN known
    <3>1. known'[s].owners = known[s].owners + 1
      BY <1>8, <2>1 DEF SeenAgain
    <3>2. known[s].owners \in 1..Cardinality(Ids) /\ known[s].owners <= Cardinality(Visitors(s))
      BY <2>1 DEF Owned
    <3> QED
      BY <1>7, <1>9, <3>1, <3>2
  <2>2. CASE s \notin DOMAIN known
    <3>1. known'[s].owners = 1
      BY <1>8, <2>2 DEF Seen
    <3> QED
      BY <1>7, <1>9, <3>1
  <2> QED
    BY <2>1, <2>2
<1> SUFFICES ASSUME NEW x \in DOMAIN known'
             PROVE  /\ known'[x].owners \in 1..Cardinality(Ids)
                    /\ known'[x].owners <= Cardinality(Visitors(x)')
  BY <1>1 DEF Owned
<1>11. CASE x = s
  <2>1. known'[s].owners \in 1..Cardinality(Ids)
    BY <1>9, <1>10
  <2> QED
    BY <1>10, <1>11, <2>1
<1>12. CASE x # s
  <2>1. x \in DOMAIN known /\ known'[x] = known[x] /\ Visitors(x)' = Visitors(x)
    BY <1>3, <1>8, <1>12
  <2> QED
    BY <2>1 DEF Owned
<1> QED
  BY <1>11, <1>12

(* Apart from that, who owns a shingle does not change.                      *)
LEMMA OwnedStays ==
    ASSUME Owned, UNCHANGED <<case, known>>,
           matching' # "index" \/ UNCHANGED <<matching, todo>>
    PROVE  Owned'
<1>1. Ids' = Ids /\ \A i : Text(i)' = Text(i)
  BY CaseKept
<1>2. UNCHANGED todo => \A s : Visitors(s)' = Visitors(s)
  BY <1>1 DEF Visitors, Said
<1> QED
  BY <1>1, <1>2 DEF Owned

(* A result leaves everything else as it is.                                 *)
LEMMA Returning ==
    ASSUME TypedParts, NEW v, Return(v), v.is \in Errors \union Verdicts,
           IF v.is = "identified" THEN v.id \in Ids ELSE v.id = Nobody
    PROVE  TypedParts'
<1>1. /\ matching' = "done" /\ verdict' = v
      /\ UNCHANGED <<case, todo, known, postings, pairs, candidates>>
  BY DEF Return
<1>2. Ids' = Ids /\ Query' = Query /\ \A i : Text(i)' = Text(i)
  BY <1>1, CaseKept
<1>3. Owned'
  BY <1>1, OwnedStays DEF TypedParts
<1>4. Lodged' /\ Told' /\ Weighted' /\ Rated'
  BY <1>1, <1>2 DEF TypedParts, Lodged, Told, Weighted, Rated
<1>5. Settled'
  BY <1>1, <1>2 DEF Settled, Errors, Verdicts
<1> QED
  BY <1>3, <1>4, <1>5 DEF TypedParts

LEMMA ReturningPlainly ==
    ASSUME TypedParts, NEW what \in Errors \union (Verdicts \ {"identified"}), Return(Plainly(what))
    PROVE  TypedParts'
<1>1. Plainly(what).is = what /\ Plainly(what).id = Nobody /\ what # "identified"
  BY DEF Plainly, Errors
<1> QED
  BY <1>1, Returning

(* A step that goes on is typed if its owners and places are.                *)
LEMMA GoingOn ==
    ASSUME Pending', matching' \in {"given", "index", "pairs", "assess"}, Owned', Lodged'
    PROVE  TypedParts'
<1>1. verdict'.is = "none" /\ verdict'.id = Nobody
  BY DEF Pending, Plainly
<1>2. Settled'
  BY <1>1 DEF Settled
<1> QED
  BY <1>2 DEF TypedParts, Pending

LEMMA TypesAtFirst == MatchingInit => TypedParts
<1> SUFFICES ASSUME MatchingInit PROVE TypedParts
  OBVIOUS
<1>1. /\ DOMAIN known = {} /\ DOMAIN postings = {} /\ DOMAIN pairs = {} /\ candidates = {}
      /\ matching = "given" /\ verdict.is = "none" /\ verdict.id = Nobody
  BY DEF MatchingInit, Plainly
<1>2. Weighted
  BY <1>1, FS_EmptySet, MatchingAssumption DEF Weighted
<1> QED
  BY <1>1, <1>2 DEF TypedParts, Owned, Lodged, Told, Rated, Settled

LEMMA TypesGoOn ==
    ASSUME TypedParts, Sound, MatchingInv, Pending', [MatchingNext]_matchingVars
    PROVE  TypedParts'
<1>1. Owned /\ Lodged /\ case \in Cases
  BY DEF TypedParts, Sound
<1>2. CASE Given
  <2>1. CASE \E what \in Errors : Return(Plainly(what))
    BY <2>1, ReturningPlainly
  <2>2. CASE matching' = "index" /\ UNCHANGED <<known, postings>>
    <3>0. matching = "given"
      BY <1>2 DEF Given
    <3>1. known' = <<>> /\ DOMAIN known' = {}
      BY <2>2, <3>0 DEF MatchingInv, Empty
    <3>2. Owned' /\ Lodged'
      BY <1>1, <2>2, <3>1 DEF Owned, Lodged
    <3> QED
      BY <2>2, <3>2, GoingOn
  <2> QED
    BY <1>2, <2>1, <2>2 DEF Given, Errors
<1>3. CASE CountShingle
  <2>1. CASE Return(Plainly("index shingles"))
    BY <2>1, ReturningPlainly DEF Errors
  <2>2. CASE ~Return(Plainly("index shingles"))
    <3>1. matching = "index" /\ Listed /\ postings = <<>>
      BY <1>3 DEF CountShingle, MatchingInv, Indexing, Early
    <3>2. PICK entry \in todo :
             /\ known' = With(known, entry[2], IF entry[2] \in DOMAIN known
                                               THEN SeenAgain(entry[2])
                                               ELSE Seen(entry[1], entry[2]))
             /\ todo' = todo \ {entry}
             /\ UNCHANGED <<case, matching, postings, pairs, candidates, verdict>>
      BY <1>3, <2>2 DEF CountShingle
    <3>3. PICK id \in Ids : \E s \in ShinglesOf(Text(id)) : entry = <<id, s>>
      BY <3>1, <3>2 DEF Listed
    <3>4. PICK s \in ShinglesOf(Text(id)) : entry = <<id, s>>
      BY <3>3
    <3>5. known' = With(known, s, IF s \in DOMAIN known THEN SeenAgain(s) ELSE Seen(id, s))
          /\ todo' = todo \ {<<id, s>>} /\ <<id, s>> \in todo /\ Said(id, s)
      BY <3>2, <3>4 DEF Said
    <3>6. Owned'
      BY <1>1, <3>1, <3>2, <3>5, OwnersCounted
    <3>7. Lodged'
      BY <3>1, <3>2 DEF Lodged
    <3> QED
      BY <3>1, <3>2, <3>6, <3>7, GoingOn
  <2> QED
    BY <2>1, <2>2
<1>4. CASE Suppress
  <2>1. Owned' /\ matching' = "pairs"
    BY <1>1, <1>4, OwnedStays DEF Suppress
  <2>2. Lodged'
    BY <1>4 DEF Suppress, Lodged, Distinctive
  <2> QED
    BY <2>1, <2>2, GoingOn
<1>5. CASE CountPair
  <2>1. CASE Return(Plainly("query candidate cue pairs"))
    BY <2>1, ReturningPlainly DEF Errors
  <2>2. CASE ~Return(Plainly("query candidate cue pairs"))
    <3>1. matching' = "pairs" /\ UNCHANGED <<case, known, postings>>
      BY <1>5, <2>2 DEF CountPair, Pair
    <3>2. Owned' /\ Lodged'
      BY <1>1, <3>1, OwnedStays DEF Lodged
    <3> QED
      BY <3>1, <3>2, GoingOn
  <2> QED
    BY <2>1, <2>2
<1>6. CASE PairsCounted \/ Assess
  <2>1. matching' = "assess" /\ UNCHANGED <<case, known, postings>>
    BY <1>6 DEF PairsCounted, Assess
  <2>2. Owned' /\ Lodged'
    BY <1>1, <2>1, OwnedStays DEF Lodged
  <2> QED
    BY <2>1, <2>2, GoingOn
<1>7. CASE Verdict
  <2>1. CASE \E what \in {"unknown", "ambiguous"} : Return(Plainly(what))
    BY <2>1, ReturningPlainly DEF Verdicts
  <2>2. ASSUME NEW top \in candidates, Return(Identified(top.id)) PROVE TypedParts'
    <3>1. top.id \in Ids
      BY DEF TypedParts, Rated
    <3>2. Identified(top.id).is = "identified" /\ Identified(top.id).id = top.id
      BY DEF Identified
    <3> QED
      BY <2>2, <3>1, <3>2, Returning DEF Verdicts
  <2> QED
    BY <1>7, <2>1, <2>2 DEF Verdict
<1>8. CASE MatchingReturned \/ UNCHANGED matchingVars
  <2>1. UNCHANGED <<case, matching, todo, known, postings, pairs, candidates, verdict>>
    BY <1>8 DEF MatchingReturned, matchingVars
  <2>2. Ids' = Ids /\ Query' = Query /\ \A i : Text(i)' = Text(i)
    BY <2>1, CaseKept
  <2>3. Owned'
    BY <1>1, <2>1, OwnedStays
  <2>4. Lodged' /\ Told' /\ Weighted' /\ Rated'
    BY <2>1, <2>2 DEF TypedParts, Lodged, Told, Weighted, Rated
  <2>5. Settled'
    BY <2>1, <2>2 DEF TypedParts, Settled
  <2> QED
    BY <2>3, <2>4, <2>5 DEF TypedParts
<1> QED
  BY <1>2, <1>3, <1>4, <1>5, <1>6, <1>7, <1>8 DEF MatchingNext

(* The variables keep their types, for any transcripts and limits: a shingle *)
(* has no more owners than there are references, what is posted is a cue of  *)
(* its reference, the pairs stay within their limit, and no score exceeds    *)
(* the number of cues of the query.                                          *)
THEOREM MatchingTyped == MatchingSpec => []MatchingTypeOK
<1>1. TypedParts => MatchingTypeOK
  BY DEF TypedParts, Owned, Lodged, Told, Weighted, Rated, Settled, MatchingTypeOK
<1>2. TypedParts /\ Sound /\ MatchingInv /\ Pending' /\ [MatchingNext]_matchingVars => TypedParts'
  BY TypesGoOn
<1>3. MatchingSpec => []Pending
  BY PendingTyped, SoundHolds, MatchingHolds, PhasesHold, PTL
<1> QED
  BY <1>1, <1>2, <1>3, TypesAtFirst, SoundHolds, MatchingHolds, PTL DEF MatchingSpec

-----------------------------------------------------------------------------
(* Matching and Align.                                                       *)

(* The cues of a transcript start in order, which the strict reader demands; *)
(* and this is what Align assumes of the anchors it is given.                *)
Chronological(text) == \A k, l \in DOMAIN text : k <= l => text[k].start <= text[l].start
FitForAlign(s) == /\ s \in Seq(Anchors)
                  /\ \A i, j \in 1..Len(s) : i < j => s[i].q <= s[j].q

LEMMA AnchorsFit ==
    ASSUME case \in Cases, Indexed, CountedFor(Useful), Chronological(Query), NEW id \in Ids
    PROVE  FitForAlign(AnchorsOf(id))
<1> DEFINE s == AnchorsOf(id)
<1>1. PICK e : /\ Stands(s, e, Strong(id), id)
               /\ \A m, n \in 1..Len(s) : m < n => e[m][1] <= e[n][1]
  BY AnchorsListed
<1> HIDE DEF s
<1>2. s \in Seq(Anchors) /\ \A n \in 1..Len(s) : s[n].q = Query[e[n][1]].start
  BY <1>1 DEF Stands
<1>3. \A n \in 1..Len(s) : e[n][1] \in DOMAIN Query
  <2>1. \A n \in 1..Len(s) : e[n] \in Strong(id)
    BY <1>1, StandsFor
  <2> QED
    BY <2>1 DEF Strong, CuePairs
<1>4. ASSUME NEW i \in 1..Len(s), NEW j \in 1..Len(s), i < j
      PROVE  s[i].q <= s[j].q
  <2>1. e[i][1] \in DOMAIN Query /\ e[j][1] \in DOMAIN Query /\ e[i][1] <= e[j][1]
    BY <1>1, <1>3, <1>4
  <2>2. Query[e[i][1]].start <= Query[e[j][1]].start
    BY <2>1 DEF Chronological
  <2> QED
    BY <1>2, <2>2
<1> QED
  BY <1>2, <1>4 DEF FitForAlign, s

(* What align returns is as long as the score says.                          *)
LEMMA LengthIsScore ==
    ASSUME AlignInv, BestIsLongest, Aligned
    PROVE  Len(best) = ScoreOf(anchors)
<1> DEFINE C == ChainsIn(anchors)
           Longest(n) == /\ n > 0 => \E c \in C : Len(c) = n
                         /\ \A c \in C : Len(c) <= n
<1>1. /\ anchors \in Seq(Anchors) /\ Len(anchors) \in Nat
      /\ best \in Seq(Nat) /\ Len(best) \in Nat
  BY DEF AlignInv, AlignTypeOK
<1>2. \A c \in C : Len(c) \in 1..Len(anchors)
  BY <1>1, ChainFacts
<1>3. best # <<>> => best \in C
  BY DEF BestIsLongest, BestIsChain
<1>4. \A c \in C : Len(c) <= Len(best)
  BY DEF BestIsLongest, NoLongerChain
<1> HIDE DEF C
<1>5. Len(best) \in 0..Len(anchors) /\ Longest(Len(best))
  <2>1. best = <<>> => Len(best) = 0
    OBVIOUS
  <2>2. best # <<>> => Len(best) \in 1..Len(anchors) /\ Len(best) > 0
    BY <1>2, <1>3
  <2> QED
    BY <1>1, <1>3, <1>4, <2>1, <2>2
<1>6. ASSUME NEW n \in 0..Len(anchors), Longest(n) PROVE n = Len(best)
  <2>1. n <= Len(best)
    <3>1. CASE n > 0
      BY <1>4, <1>6, <3>1
    <3>2. CASE ~(n > 0)
      BY <1>1, <3>2
    <3> QED
      BY <3>1, <3>2
  <2>2. Len(best) <= n
    <3>1. CASE Len(best) > 0
      BY <1>5, <1>6, <3>1
    <3>2. CASE ~(Len(best) > 0)
      BY <1>1, <3>2
    <3> QED
      BY <3>1, <3>2
  <2> QED
    BY <1>1, <2>1, <2>2
<1>7. ScoreOf(anchors) = CHOOSE n \in 0..Len(anchors) : Longest(n)
  BY DEF ScoreOf, C
<1> HIDE DEF Longest
<1> QED
  BY <1>5, <1>6, <1>7

(* From transcripts to score: match_query_with_limits lists anchors that     *)
(* align can take, by the cues of a query in order, and the chain that align *)
(* finds window by window in them is exactly as long as the independent      *)
(* evidence the transcripts hold, which is the score the candidate gets.     *)
THEOREM ScoresAreAligned ==
    /\ MatchingSpec =>
          [](matching = "assess" /\ Chronological(Query) =>
                \A id \in Ids : FitForAlign(AnchorsOf(id)))
    /\ AlignSpec /\ MatchingSpec =>
          [](matching = "assess" /\ Aligned =>
                \A id \in Ids : anchors = AnchorsOf(id) =>
                      Len(best) = Evidence(id) /\ Len(best) = Candidate(id).score)
<1>1. Sound => (matching = "assess" /\ Chronological(Query) =>
                   \A id \in Ids : FitForAlign(AnchorsOf(id)))
  BY AnchorsFit DEF Sound, Scoring
<1>2. AlignInv /\ BestIsLongest /\ Sound =>
         (matching = "assess" /\ Aligned =>
             \A id \in Ids : anchors = AnchorsOf(id) =>
                 Len(best) = Evidence(id) /\ Len(best) = Candidate(id).score)
  <2> SUFFICES ASSUME AlignInv, BestIsLongest, Sound, matching = "assess", Aligned,
                      NEW id \in Ids, anchors = AnchorsOf(id)
               PROVE  Len(best) = Evidence(id) /\ Len(best) = Candidate(id).score
    OBVIOUS
  <2>1. case \in Cases /\ Indexed /\ CountedFor(Useful)
    BY DEF Sound, Scoring
  <2>2. PICK e : Stands(AnchorsOf(id), e, Strong(id), id)
    BY <2>1, AnchorsStand
  <2>3. Evidence(id) = ScoreOf(AnchorsOf(id))
    BY <2>1, <2>2, EvidenceIsScore
  <2>4. Len(best) = ScoreOf(AnchorsOf(id))
    BY LengthIsScore
  <2>5. Candidate(id).score = ScoreOf(AnchorsOf(id))
    BY DEF Candidate
  <2> QED
    BY <2>3, <2>4, <2>5
<1> QED
  BY <1>1, <1>2, SoundHolds, AlignHolds, AlignFindsLongest, PTL
=============================================================================
