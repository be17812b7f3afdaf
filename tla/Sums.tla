-------------------------------- MODULE Sums --------------------------------
(* Lemmas about data that the proofs of several components need: induction   *)
(* over finite sets and over the naturals, stated about sets so that the     *)
(* provers can instantiate them; places in a finite order; and the sums and  *)
(* concatenations of the community modules.                                  *)
EXTENDS Integers, SequencesExt, FiniteSetTheorems, SequenceTheorems, TLAPS

-----------------------------------------------------------------------------
(* Induction                                                                 *)

(* What holds of no element, and of one element more whenever it holds of    *)
(* some, holds of a finite set.                                              *)
LEMMA FiniteInduct ==
    ASSUME NEW K, IsFiniteSet(K), NEW G, {} \in G,
           \A U \in SUBSET K : \A x \in K \ U :
               IsFiniteSet(U) /\ U \in G => U \union {x} \in G
    PROVE  K \in G
<1> DEFINE Bad == {U \in FiniteSubsetsOf(K) : U \notin G}
<1>1. K \in FiniteSubsetsOf(K)
  BY DEF FiniteSubsetsOf
<1>2. SUFFICES ASSUME Bad # {} PROVE FALSE
  BY <1>1
<1>3. PICK U \in Bad : \A V \in Bad : <<V, U>> \notin StrictSubsetOrdering(K)
  <2>1. IsWellFoundedOn(StrictSubsetOrdering(K), FiniteSubsetsOf(K))
    BY FS_StrictSubsetOrderingWellFounded
  <2>2. Bad \subseteq FiniteSubsetsOf(K)
    OBVIOUS
  <2> QED
    BY <1>2, <2>1, <2>2, WFMin, Zenon
<1>4. U \subseteq K /\ IsFiniteSet(U) /\ U # {} /\ U \notin G
  BY DEF FiniteSubsetsOf
<1>5. PICK x \in U : TRUE
  BY <1>4
<1>6. U \ {x} \subseteq K /\ IsFiniteSet(U \ {x})
  BY <1>4, FS_RemoveElement
<1>7. /\ U \ {x} \in FiniteSubsetsOf(K)
      /\ <<U \ {x}, U>> \in StrictSubsetOrdering(K)
  BY <1>4, <1>5, <1>6 DEF FiniteSubsetsOf, StrictSubsetOrdering
<1>8. U \ {x} \in G
  BY <1>3, <1>7
<1>9. (U \ {x}) \union {x} \in G
  BY <1>4, <1>5, <1>6, <1>8
<1>10. (U \ {x}) \union {x} = U
  BY <1>5
<1> QED
  BY <1>4, <1>9, <1>10

(* What holds of 0, and of n + 1 whenever it holds of n, holds of all.       *)
LEMMA NatInduct ==
    ASSUME NEW G, 0 \in G, \A n \in Nat : n \in G => n + 1 \in G
    PROVE  \A n \in Nat : n \in G
<1> DEFINE Bad == {n \in Nat : n \notin G}
<1>1. SUFFICES ASSUME Bad # {} PROVE FALSE
  OBVIOUS
<1>2. PICK n \in Bad : \A m \in Bad : <<m, n>> \notin OpToRel(<, Nat)
  <2>1. IsWellFoundedOn(OpToRel(<, Nat), Nat)
    BY NatLessThanWellFounded
  <2>2. Bad \subseteq Nat
    OBVIOUS
  <2> QED
    BY <1>1, <2>1, <2>2, WFMin, Zenon
<1>3. n \in Nat /\ n \notin G /\ n # 0
  OBVIOUS
<1>4. n - 1 \in Nat /\ n - 1 < n /\ (n - 1) + 1 = n
  BY <1>3
<1>5. <<n - 1, n>> \in OpToRel(<, Nat)
  BY <1>3, <1>4 DEF OpToRel
<1>6. n - 1 \in G
  BY <1>2, <1>4, <1>5
<1> QED
  BY <1>3, <1>4, <1>6

-----------------------------------------------------------------------------
(* How a sum is taken: element by element, as CHOOSE has it.                 *)

Picked(s) == CHOOSE x \in s : TRUE
Adding(g, f, K) ==
    g = [s \in SUBSET K |-> IF s = {} THEN 0 ELSE f[Picked(s)] + g[s \ {Picked(s)}]]

LEMMA Unfolded ==
    ASSUME NEW f, NEW K
    PROVE  SumFunctionOnSet(f, K) = (CHOOSE g : Adding(g, f, K))[K]
BY DEF SumFunctionOnSet, FoldFunctionOnSet, MapThenFoldSet, Adding, Picked

LEMMA PickedIn == ASSUME NEW s, s # {} PROVE Picked(s) \in s
BY DEF Picked

(* There is a function that adds in this way: up to sets of n elements for   *)
(* every n.                                                                  *)
LEMMA AddingExists ==
    ASSUME NEW K, IsFiniteSet(K), NEW f
    PROVE  \E g : Adding(g, f, K)
<1> DEFINE Upto(n) == {s \in SUBSET K : Cardinality(s) <= n}
           Step(g, s) == IF s = {} THEN 0 ELSE f[Picked(s)] + g[s \ {Picked(s)}]
           G == {n \in Nat : \E g : g = [s \in Upto(n) |-> Step(g, s)]}
<1>1. \A s \in SUBSET K : IsFiniteSet(s) /\ Cardinality(s) \in Nat
  BY FS_Subset, FS_CardinalityType
<1>2. \A s \in SUBSET K : s # {} => /\ s \ {Picked(s)} \in SUBSET K
                                    /\ Cardinality(s \ {Picked(s)}) = Cardinality(s) - 1
  BY <1>1, PickedIn, FS_RemoveElement
<1>3. 0 \in G
  <2> DEFINE g0 == [s \in Upto(0) |-> 0]
  <2>1. \A s \in Upto(0) : s = {}
    BY <1>1, FS_EmptySet
  <2>2. g0 = [s \in Upto(0) |-> Step(g0, s)]
    BY <2>1
  <2> QED
    BY <2>2
<1>4. ASSUME NEW n \in Nat, n \in G
      PROVE  n + 1 \in G
  <2>1. PICK g : g = [s \in Upto(n) |-> Step(g, s)]
    BY <1>4
  <2> DEFINE h == [s \in Upto(n + 1) |-> Step(g, s)]
  <2>2. \A s \in Upto(n) : g[s] = Step(g, s)
    <3> HIDE DEF Step
    <3> QED
      BY <2>1
  <2>3. \A s \in Upto(n + 1) : h[s] = Step(g, s)
    <3> HIDE DEF Step, Upto
    <3> QED
      OBVIOUS
  <2>4. \A s \in Upto(n) : s \in Upto(n + 1)
    BY <1>1
  <2>5. \A s \in Upto(n) : h[s] = g[s]
    <3> HIDE DEF Step, Upto, h
    <3> QED
      BY <2>2, <2>3, <2>4
  <2>6. \A s \in Upto(n + 1) : s # {} => s \ {Picked(s)} \in Upto(n)
    BY <1>1, <1>2
  <2>7. \A s \in Upto(n + 1) : Step(g, s) = Step(h, s)
    <3> HIDE DEF Upto, h
    <3> QED
      BY <2>5, <2>6
  <2>8. h = [s \in Upto(n + 1) |-> Step(h, s)]
    <3> HIDE DEF Step, Upto
    <3> QED
      BY <2>7
  <2> HIDE DEF h, Step, Upto
  <2> QED
    BY <2>8
<1>5. Cardinality(K) \in G
  <2>1. Cardinality(K) \in Nat
    BY FS_CardinalityType
  <2> HIDE DEF G
  <2> QED
    BY <1>3, <1>4, <2>1, NatInduct
<1>6. Upto(Cardinality(K)) = SUBSET K
  BY <1>1, FS_Subset
<1>7. PICK g : g = [s \in SUBSET K |-> Step(g, s)]
  BY <1>5, <1>6
<1> QED
  BY <1>7 DEF Adding

(* Two that add in this way agree on what both add, and add integers.        *)
LEMMA AddingOnce ==
    ASSUME NEW K, NEW L, IsFiniteSet(L), L \subseteq K, NEW f, NEW e,
           \A x \in L : f[x] = e[x] /\ f[x] \in Int,
           NEW g, Adding(g, f, K), NEW h, Adding(h, e, L)
    PROVE  g[L] = h[L] /\ g[L] \in Int
<1> DEFINE Fine(s) == g[s] = h[s] /\ g[s] \in Int
           G == {n \in Nat : \A s \in SUBSET L : Cardinality(s) <= n => Fine(s)}
<1>1. \A s \in SUBSET L : IsFiniteSet(s) /\ Cardinality(s) \in Nat
  BY FS_Subset, FS_CardinalityType
<1>2. \A s \in SUBSET L :
        /\ s = {} => g[s] = 0 /\ h[s] = 0
        /\ s # {} => /\ g[s] = f[Picked(s)] + g[s \ {Picked(s)}]
                     /\ h[s] = e[Picked(s)] + h[s \ {Picked(s)}]
                     /\ Picked(s) \in L /\ s \ {Picked(s)} \in SUBSET L
                     /\ Cardinality(s \ {Picked(s)}) = Cardinality(s) - 1
  <2>1. \A s \in SUBSET L : s \in SUBSET K
    OBVIOUS
  <2>2. \A s \in SUBSET L : s # {} => /\ Picked(s) \in L /\ s \ {Picked(s)} \in SUBSET L
                                      /\ Cardinality(s \ {Picked(s)}) = Cardinality(s) - 1
    BY <1>1, PickedIn, FS_RemoveElement
  <2> QED
    BY <2>1, <2>2 DEF Adding
<1>3. 0 \in G
  <2>1. \A s \in SUBSET L : Cardinality(s) <= 0 => s = {}
    BY <1>1, FS_EmptySet
  <2>2. ASSUME NEW s \in SUBSET L, Cardinality(s) <= 0
        PROVE  Fine(s)
    <3>1. s = {}
      BY <2>1, <2>2
    <3>2. g[s] = 0 /\ h[s] = 0
      BY <1>2, <3>1, Zenon
    <3> QED
      BY <3>2
  <2> HIDE DEF Fine
  <2> QED
    BY <2>2
<1>4. ASSUME NEW n \in Nat, n \in G
      PROVE  n + 1 \in G
  <2> SUFFICES ASSUME NEW s \in SUBSET L, Cardinality(s) <= n + 1
               PROVE  Fine(s)
    OBVIOUS
  <2>1. CASE s = {}
    <3>1. g[s] = 0 /\ h[s] = 0
      BY <1>2, <2>1, Zenon
    <3> QED
      BY <3>1
  <2>2. CASE s # {}
    <3>1. Fine(s \ {Picked(s)})
      BY <1>1, <1>2, <1>4, <2>2
    <3>2. f[Picked(s)] = e[Picked(s)] /\ f[Picked(s)] \in Int
      BY <1>2, <2>2
    <3> QED
      BY <1>2, <2>2, <3>1, <3>2, SMTT(30)
  <2> QED
    BY <2>1, <2>2
<1>5. Cardinality(L) \in G
  <2>1. Cardinality(L) \in Nat
    BY FS_CardinalityType
  <2> HIDE DEF G
  <2> QED
    BY <1>3, <1>4, <2>1, NatInduct
<1> QED
  BY <1>1, <1>5

-----------------------------------------------------------------------------
(* Sums                                                                      *)

(* A sum depends on the values it adds, and is an integer if they are.       *)
LEMMA SumSame ==
    ASSUME NEW K, IsFiniteSet(K), NEW f, NEW e, \A x \in K : f[x] = e[x] /\ f[x] \in Int
    PROVE  /\ SumFunctionOnSet(f, K) = SumFunctionOnSet(e, K)
           /\ SumFunctionOnSet(f, K) \in Int
<1>1. PICK g : Adding(g, f, K) /\ SumFunctionOnSet(f, K) = g[K]
  <2>1. Adding(CHOOSE g : Adding(g, f, K), f, K)
    BY AddingExists, Zenon
  <2> QED
    BY <2>1, Unfolded
<1>2. PICK h : Adding(h, e, K) /\ SumFunctionOnSet(e, K) = h[K]
  <2>1. Adding(CHOOSE h : Adding(h, e, K), e, K)
    BY AddingExists, Zenon
  <2> QED
    BY <2>1, Unfolded
<1>3. g[K] = h[K] /\ g[K] \in Int
  BY <1>1, <1>2, AddingOnce
<1> QED
  BY <1>1, <1>2, <1>3

LEMMA SumEmpty == ASSUME NEW f PROVE SumFunctionOnSet(f, {}) = 0
<1>1. PICK g : Adding(g, f, {}) /\ SumFunctionOnSet(f, {}) = g[{}]
  <2>1. Adding(CHOOSE g : Adding(g, f, {}), f, {})
    BY AddingExists, FS_EmptySet, Zenon
  <2> QED
    BY <2>1, Unfolded
<1> QED
  BY <1>1 DEF Adding

LEMMA SumPicked ==
    ASSUME NEW K, IsFiniteSet(K), K # {}, NEW f, \A x \in K : f[x] \in Int
    PROVE  SumFunctionOnSet(f, K) = f[Picked(K)] + SumFunctionOnSet(f, K \ {Picked(K)})
<1> DEFINE L == K \ {Picked(K)}
<1>1. PICK g : Adding(g, f, K) /\ SumFunctionOnSet(f, K) = g[K]
  <2>1. Adding(CHOOSE g : Adding(g, f, K), f, K)
    BY AddingExists, Zenon
  <2> QED
    BY <2>1, Unfolded
<1>2. IsFiniteSet(L) /\ L \subseteq K
  BY FS_RemoveElement
<1>3. PICK h : Adding(h, f, L) /\ SumFunctionOnSet(f, L) = h[L]
  <2>1. Adding(CHOOSE h : Adding(h, f, L), f, L)
    BY <1>2, AddingExists, Zenon
  <2> QED
    BY <2>1, Unfolded
<1>4. g[L] = h[L]
  <2> HIDE DEF L
  <2> QED
    BY <1>1, <1>2, <1>3, AddingOnce
<1>5. g[K] = f[Picked(K)] + g[L]
  BY <1>1 DEF Adding
<1> QED
  BY <1>1, <1>3, <1>4, <1>5

(* Any element can be added last.                                            *)
LEMMA SumSplit ==
    ASSUME NEW K, IsFiniteSet(K), NEW f, \A x \in K : f[x] \in Int, NEW y \in K
    PROVE  SumFunctionOnSet(f, K) = f[y] + SumFunctionOnSet(f, K \ {y})
<1> DEFINE Sum(s) == SumFunctionOnSet(f, s)
           G == {n \in Nat : \A s \in SUBSET K : Cardinality(s) <= n =>
                    \A x \in s : Sum(s) = f[x] + Sum(s \ {x})}
<1>1. \A s \in SUBSET K : IsFiniteSet(s) /\ Cardinality(s) \in Nat /\ Sum(s) \in Int
  <2>1. \A s \in SUBSET K : IsFiniteSet(s)
    BY FS_Subset
  <2> QED
    BY <2>1, FS_CardinalityType, SumSame
<1>2. \A s \in SUBSET K : \A x \in s : /\ s \ {x} \in SUBSET K
                                       /\ Cardinality(s \ {x}) = Cardinality(s) - 1
  BY <1>1, FS_RemoveElement
<1>3. \A s \in SUBSET K : s # {} =>
        Picked(s) \in s /\ Sum(s) = f[Picked(s)] + Sum(s \ {Picked(s)})
  <2> SUFFICES ASSUME NEW s \in SUBSET K, s # {}
               PROVE  Picked(s) \in s /\ Sum(s) = f[Picked(s)] + Sum(s \ {Picked(s)})
    OBVIOUS
  <2>1. \A x \in s : f[x] \in Int
    OBVIOUS
  <2> QED
    BY <1>1, <2>1, PickedIn, SumPicked
<1> HIDE DEF Sum
<1>4. 0 \in G
  BY <1>1, FS_EmptySet
<1>5. ASSUME NEW n \in Nat, n \in G
      PROVE  n + 1 \in G
  <2> SUFFICES ASSUME NEW s \in SUBSET K, Cardinality(s) <= n + 1, NEW x \in s
               PROVE  Sum(s) = f[x] + Sum(s \ {x})
    OBVIOUS
  <2> DEFINE p == Picked(s)
  <2>1. p \in s /\ Sum(s) = f[p] + Sum(s \ {p})
    BY <1>3
  <2> HIDE DEF p
  <2>2. CASE p = x
    BY <2>1, <2>2
  <2>3. CASE p # x
    <3>1. x \in s \ {p} /\ p \in s \ {x}
      BY <2>1, <2>3
    <3>2. /\ s \ {p} \in SUBSET K /\ Cardinality(s \ {p}) <= n
          /\ s \ {x} \in SUBSET K /\ Cardinality(s \ {x}) <= n
      BY <1>1, <1>2, <2>1
    <3>3. Sum(s \ {p}) = f[x] + Sum((s \ {p}) \ {x})
      BY <1>5, <3>1, <3>2
    <3>4. Sum(s \ {x}) = f[p] + Sum((s \ {x}) \ {p})
      BY <1>5, <3>1, <3>2
    <3>5. (s \ {x}) \ {p} = (s \ {p}) \ {x} /\ (s \ {x}) \ {p} \in SUBSET K
      OBVIOUS
    <3>6. f[p] \in Int /\ f[x] \in Int /\ Sum((s \ {p}) \ {x}) \in Int
      BY <1>1, <2>1, <3>5
    <3>7. Sum((s \ {x}) \ {p}) = Sum((s \ {p}) \ {x})
      BY <3>5
    <3> QED
      BY <2>1, <3>3, <3>4, <3>6, <3>7
  <2> QED
    BY <2>2, <2>3
<1>6. Cardinality(K) \in G
  <2>1. Cardinality(K) \in Nat
    BY FS_CardinalityType
  <2> HIDE DEF G
  <2> QED
    BY <1>4, <1>5, <2>1, NatInduct
<1>7. Sum(K) = f[y] + Sum(K \ {y})
  BY <1>1, <1>6
<1> QED
  BY <1>7 DEF Sum

(* Of two sums, element by element.                                          *)
LEMMA SumOrder ==
    ASSUME NEW K, IsFiniteSet(K), NEW f, NEW e,
           \A x \in K : f[x] \in Int /\ e[x] \in Int /\ f[x] <= e[x]
    PROVE  SumFunctionOnSet(f, K) <= SumFunctionOnSet(e, K)
<1> DEFINE Sum(g, s) == SumFunctionOnSet(g, s)
           G == {s \in SUBSET K : Sum(f, s) <= Sum(e, s)}
<1>1. {} \in G
  BY SumEmpty
<1>2. ASSUME NEW U \in SUBSET K, NEW x \in K \ U, IsFiniteSet(U), U \in G
      PROVE  U \union {x} \in G
  <2> DEFINE V == U \union {x}
  <2>1. IsFiniteSet(V) /\ V \ {x} = U /\ V \in SUBSET K /\ x \in V
    BY <1>2, FS_AddElement
  <2>2. /\ \A y \in V : f[y] \in Int /\ e[y] \in Int
        /\ \A y \in U : f[y] \in Int /\ e[y] \in Int
    OBVIOUS
  <2> HIDE DEF V
  <2>3. Sum(f, V) = f[x] + Sum(f, U) /\ Sum(e, V) = e[x] + Sum(e, U)
    BY <2>1, <2>2, SumSplit
  <2>4. Sum(f, U) \in Int /\ Sum(e, U) \in Int
    BY <1>2, <2>2, SumSame
  <2>5. V \in G
    <3> HIDE DEF Sum
    <3> QED
      BY <1>2, <2>1, <2>2, <2>3, <2>4
  <2> QED
    BY <2>5 DEF V
<1>3. K \in G
  <2> HIDE DEF G
  <2> QED
    BY <1>1, <1>2, FiniteInduct
<1> QED
  BY <1>3

(* A sum of naturals is one, and is no less than any of its terms.           *)
LEMMA SumNatural ==
    ASSUME NEW K, IsFiniteSet(K), NEW f, \A x \in K : f[x] \in Nat
    PROVE  /\ SumFunctionOnSet(f, K) \in Nat
           /\ \A x \in K : f[x] <= SumFunctionOnSet(f, K)
<1> DEFINE Sum(s) == SumFunctionOnSet(f, s)
           G == {s \in SUBSET K : Sum(s) \in Nat}
<1>1. {} \in G
  BY SumEmpty
<1>2. ASSUME NEW U \in SUBSET K, NEW x \in K \ U, IsFiniteSet(U), U \in G
      PROVE  U \union {x} \in G
  <2> DEFINE V == U \union {x}
  <2>1. IsFiniteSet(V) /\ V \ {x} = U /\ V \in SUBSET K /\ x \in V
    BY <1>2, FS_AddElement
  <2>2. \A y \in V : f[y] \in Int
    OBVIOUS
  <2> HIDE DEF V
  <2>3. Sum(V) = f[x] + Sum(U)
    BY <2>1, <2>2, SumSplit
  <2>4. V \in G
    <3> HIDE DEF Sum
    <3> QED
      BY <1>2, <2>1, <2>3
  <2> QED
    BY <2>4 DEF V
<1>3. \A L \in SUBSET K : L \in G
  <2> SUFFICES ASSUME NEW L \in SUBSET K PROVE L \in G
    OBVIOUS
  <2>1. IsFiniteSet(L)
    BY FS_Subset
  <2>2. \A U \in SUBSET L : \A x \in L \ U : IsFiniteSet(U) /\ U \in G => U \union {x} \in G
    BY <1>2
  <2> HIDE DEF G
  <2> QED
    BY <1>1, <2>1, <2>2, FiniteInduct
<1>4. ASSUME NEW x \in K
      PROVE  f[x] <= Sum(K)
  <2>1. Sum(K) = f[x] + Sum(K \ {x})
    BY SumSplit
  <2>2. Sum(K \ {x}) \in Nat
    BY <1>3
  <2> HIDE DEF Sum
  <2> QED
    BY <2>1, <2>2
<1> QED
  BY <1>3, <1>4

(* A sum over two sets apart from each other is the sum of theirs.           *)
LEMMA SumParts ==
    ASSUME NEW K, NEW L, IsFiniteSet(K), IsFiniteSet(L), K \cap L = {},
           NEW f, \A x \in K \union L : f[x] \in Int
    PROVE  SumFunctionOnSet(f, K \union L) =
               SumFunctionOnSet(f, K) + SumFunctionOnSet(f, L)
<1> DEFINE Sum(s) == SumFunctionOnSet(f, s)
           G == {s \in SUBSET L : Sum(K \union s) = Sum(K) + Sum(s)}
<1>0. Sum(K) \in Int
  BY SumSame
<1>1. {} \in G
  <2>1. K \union {} = K
    OBVIOUS
  <2> HIDE DEF Sum
  <2>2. Sum({}) = 0
    BY SumEmpty DEF Sum
  <2> QED
    BY <1>0, <2>1, <2>2
<1>2. ASSUME NEW U \in SUBSET L, NEW x \in L \ U, IsFiniteSet(U), U \in G
      PROVE  U \union {x} \in G
  <2> DEFINE V == U \union {x}
             W == K \union V
  <2>1. IsFiniteSet(V) /\ V \ {x} = U /\ V \in SUBSET L /\ x \in V
    BY <1>2, FS_AddElement
  <2>2. IsFiniteSet(W) /\ W \ {x} = K \union U /\ x \in W
    BY <1>2, <2>1, FS_Union
  <2>3. /\ \A y \in V : f[y] \in Int
        /\ \A y \in W : f[y] \in Int
        /\ \A y \in U : f[y] \in Int
        /\ f[x] \in Int
    OBVIOUS
  <2>4. Sum(U) \in Int
    BY <1>2, <2>3, SumSame
  <2> HIDE DEF V, W
  <2>5. Sum(V) = f[x] + Sum(U)
    BY <2>1, <2>3, SumSplit
  <2>6. Sum(W) = f[x] + Sum(K \union U)
    BY <2>2, <2>3, SumSplit
  <2>7. V \in G
    <3> HIDE DEF Sum
    <3>1. Sum(W) = Sum(K) + Sum(V)
      BY <1>0, <1>2, <2>3, <2>4, <2>5, <2>6
    <3> QED
      BY <2>1, <3>1 DEF W
  <2> QED
    BY <2>7 DEF V
<1>3. L \in G
  <2> HIDE DEF G
  <2> QED
    BY <1>1, <1>2, FiniteInduct
<1> QED
  BY <1>3

(* A sum of naturals over fewer elements is no greater.                      *)
LEMMA SumFewer ==
    ASSUME NEW K, IsFiniteSet(K), NEW L, L \subseteq K, NEW f, \A x \in K : f[x] \in Nat
    PROVE  /\ SumFunctionOnSet(f, L) <= SumFunctionOnSet(f, K)
           /\ SumFunctionOnSet(f, K \ L) =
                  SumFunctionOnSet(f, K) - SumFunctionOnSet(f, L)
<1> DEFINE Sum(s) == SumFunctionOnSet(f, s)
<1>1. IsFiniteSet(L) /\ IsFiniteSet(K \ L) /\ L \union (K \ L) = K
  BY FS_Subset
<1>2. Sum(L) \in Nat /\ Sum(K \ L) \in Nat
  BY <1>1, SumNatural
<1>3. Sum(L \union (K \ L)) = Sum(L) + Sum(K \ L)
  BY <1>1, SumParts
<1>4. Sum(K) = Sum(L) + Sum(K \ L)
  BY <1>1, <1>3
<1> HIDE DEF Sum
<1>5. Sum(L) <= Sum(K) /\ Sum(K \ L) = Sum(K) - Sum(L)
  BY <1>2, <1>4
<1> QED
  BY <1>5 DEF Sum

(* Two sums that differ in one term.                                         *)
LEMMA SumBut ==
    ASSUME NEW K, IsFiniteSet(K), NEW y \in K, NEW f, NEW e,
           \A x \in K : f[x] \in Int /\ e[x] \in Int,
           \A x \in K \ {y} : f[x] = e[x]
    PROVE  SumFunctionOnSet(e, K) = SumFunctionOnSet(f, K) - f[y] + e[y]
<1> DEFINE Sum(g, s) == SumFunctionOnSet(g, s)
<1>1. IsFiniteSet(K \ {y})
  BY FS_RemoveElement
<1>2. Sum(f, K \ {y}) = Sum(e, K \ {y}) /\ Sum(f, K \ {y}) \in Int
  BY <1>1, SumSame
<1>3. Sum(f, K) = f[y] + Sum(f, K \ {y}) /\ Sum(e, K) = e[y] + Sum(e, K \ {y})
  BY SumSplit
<1>4. f[y] \in Int /\ e[y] \in Int
  OBVIOUS
<1> HIDE DEF Sum
<1>5. Sum(e, K) = Sum(f, K) - f[y] + e[y]
  BY <1>2, <1>3, <1>4
<1> QED
  BY <1>5 DEF Sum

(* A sum of sums.                                                            *)
LEMMA SumOfTwo ==
    ASSUME NEW K, IsFiniteSet(K), NEW f, NEW d, NEW e,
           \A x \in K : d[x] \in Int /\ e[x] \in Int /\ f[x] = d[x] + e[x]
    PROVE  SumFunctionOnSet(f, K) = SumFunctionOnSet(d, K) + SumFunctionOnSet(e, K)
<1> DEFINE Sum(g, s) == SumFunctionOnSet(g, s)
           G == {s \in SUBSET K : Sum(f, s) = Sum(d, s) + Sum(e, s)}
<1>1. {} \in G
  BY SumEmpty
<1>2. ASSUME NEW U \in SUBSET K, NEW x \in K \ U, IsFiniteSet(U), U \in G
      PROVE  U \union {x} \in G
  <2> DEFINE V == U \union {x}
  <2>1. IsFiniteSet(V) /\ V \ {x} = U /\ V \in SUBSET K /\ x \in V
    BY <1>2, FS_AddElement
  <2>2. /\ \A y \in V : f[y] \in Int /\ d[y] \in Int /\ e[y] \in Int
        /\ \A y \in U : d[y] \in Int /\ e[y] \in Int
        /\ f[x] = d[x] + e[x] /\ d[x] \in Int /\ e[x] \in Int
    OBVIOUS
  <2> HIDE DEF V
  <2>3. /\ Sum(f, V) = f[x] + Sum(f, U) /\ Sum(d, V) = d[x] + Sum(d, U)
        /\ Sum(e, V) = e[x] + Sum(e, U)
    BY <2>1, <2>2, SumSplit
  <2>4. Sum(d, U) \in Int /\ Sum(e, U) \in Int
    BY <1>2, <2>2, SumSame
  <2>5. V \in G
    <3> HIDE DEF Sum
    <3> QED
      BY <1>2, <2>1, <2>2, <2>3, <2>4
  <2> QED
    BY <2>5 DEF V
<1>3. K \in G
  <2> HIDE DEF G
  <2> QED
    BY <1>1, <1>2, FiniteInduct
<1> QED
  BY <1>3

LEMMA SumNone ==
    ASSUME NEW K, IsFiniteSet(K), NEW f, \A x \in K : f[x] = 0
    PROVE  SumFunctionOnSet(f, K) = 0
<1> DEFINE Sum(s) == SumFunctionOnSet(f, s)
           G == {s \in SUBSET K : Sum(s) = 0}
<1>1. {} \in G
  BY SumEmpty
<1>2. ASSUME NEW U \in SUBSET K, NEW x \in K \ U, IsFiniteSet(U), U \in G
      PROVE  U \union {x} \in G
  <2>1. IsFiniteSet(U \union {x}) /\ (U \union {x}) \ {x} = U
    BY <1>2, FS_AddElement
  <2>2. Sum(U \union {x}) = f[x] + Sum((U \union {x}) \ {x})
    <3>1. \A y \in U \union {x} : f[y] \in Int
      OBVIOUS
    <3> QED
      BY <2>1, <3>1, SumSplit
  <2>3. f[x] = 0 /\ Sum(U) = 0
    BY <1>2
  <2>4. Sum(U \union {x}) = f[x] + Sum(U)
    BY <2>1, <2>2
  <2>5. Sum(U \union {x}) = 0
    <3> HIDE DEF Sum
    <3> QED
      BY <2>3, <2>4
  <2> QED
    BY <2>5
<1> HIDE DEF G
<1>3. K \in G
  BY <1>1, <1>2, FiniteInduct
<1> QED
  BY <1>3 DEF G
-----------------------------------------------------------------------------
(* Orders and sequences                                                      *)

(* The place of an element in a finite total order is how many come before.  *)
Prior(K, R, a) == {b \in K : <<b, a>> \in R}
LEMMA Places ==
    ASSUME NEW K, IsFiniteSet(K), NEW R,
           \A a \in K : <<a, a>> \notin R,
           \A a, b, c \in K : <<a, b>> \in R /\ <<b, c>> \in R => <<a, c>> \in R,
           \A a, b \in K : a = b \/ <<a, b>> \in R \/ <<b, a>> \in R
    PROVE  /\ \A a \in K : Cardinality(Prior(K, R, a)) \in 0..(Cardinality(K) - 1)
           /\ \A a, b \in K : <<a, b>> \in R =>
                 Cardinality(Prior(K, R, a)) < Cardinality(Prior(K, R, b))
           /\ \A n \in 1..Cardinality(K) : \E a \in K : Cardinality(Prior(K, R, a)) = n - 1
<1> DEFINE N == Cardinality(K)
           Rank(a) == Cardinality(Prior(K, R, a))
<1>1. N \in Nat
  BY FS_CardinalityType
<1>2. ASSUME NEW a \in K PROVE IsFiniteSet(Prior(K, R, a)) /\ Rank(a) \in 0..(N - 1)
  <2>1. Prior(K, R, a) \in SUBSET (K \ {a})
    BY DEF Prior
  <2>2. IsFiniteSet(K \ {a}) /\ Cardinality(K \ {a}) = N - 1
    BY FS_RemoveElement
  <2>3. IsFiniteSet(Prior(K, R, a)) /\ Rank(a) <= N - 1
    BY <2>1, <2>2, FS_Subset
  <2>4. Rank(a) \in Nat
    BY <2>3, FS_CardinalityType
  <2> QED
    BY <1>1, <2>3, <2>4
<1>3. ASSUME NEW a \in K, NEW b \in K, <<a, b>> \in R PROVE Rank(a) < Rank(b)
  <2>1. /\ Prior(K, R, a) \in SUBSET Prior(K, R, b)
        /\ a \in Prior(K, R, b) /\ a \notin Prior(K, R, a)
    BY <1>3 DEF Prior
  <2>2. IsFiniteSet(Prior(K, R, b))
    BY <1>2
  <2>3. Rank(a) <= Rank(b) /\ Rank(a) # Rank(b)
    BY <2>1, <2>2, FS_Subset
  <2>4. Rank(a) \in Int /\ Rank(b) \in Int
    BY <1>1, <1>2
  <2> QED
    BY <2>3, <2>4
<1> DEFINE g == [a \in K |-> Rank(a) + 1]
<1>4. g \in Injection(K, 1..N)
  <2>1. \A a \in K : g[a] = Rank(a) + 1 /\ Rank(a) \in 0..(N - 1)
    BY <1>2
  <2>2. ASSUME NEW a \in K PROVE Rank(a) + 1 \in 1..N
    <3>1. Rank(a) \in 0..(N - 1)
      BY <1>2
    <3> HIDE DEF Rank, N
    <3> QED
      BY <1>1, <3>1
  <2>3. ASSUME NEW a \in K, NEW b \in K, g[a] = g[b] PROVE a = b
    <3>1. Rank(a) = Rank(b)
      BY <2>1, <2>3
    <3>2. ~(Rank(a) < Rank(b)) /\ ~(Rank(b) < Rank(a))
      BY <1>1, <1>2, <3>1
    <3> QED
      BY <1>3, <3>2
  <2> HIDE DEF Rank
  <2>4. g \in [K -> 1..N]
    BY <2>2
  <2> QED
    BY <2>3, <2>4 DEF Injection, IsInjective
<1>5. IsFiniteSet(1..N) /\ Cardinality(1..N) = N
  <2>1. IsFiniteSet(1..N) /\ Cardinality(1..N) = IF 1 > N THEN 0 ELSE N - 1 + 1
    BY <1>1, FS_Interval
  <2> QED
    BY <1>1, <2>1
<1>6. g \in Surjection(K, 1..N)
  BY <1>4, <1>5, FS_Injection
<1>7. ASSUME NEW n \in 1..N PROVE \E a \in K : Rank(a) = n - 1
  <2>1. PICK a \in K : g[a] = n
    BY <1>6 DEF Surjection
  <2>2. Rank(a) \in Int /\ g[a] = Rank(a) + 1
    BY <1>1, <1>2
  <2> HIDE DEF Rank, g
  <2> QED
    BY <1>1, <2>1, <2>2
<1> QED
  BY <1>2, <1>3, <1>7

(* FlattenSeq, element by element.                                           *)
Flattening(g, s) == g = [i \in 1..Len(s) |-> IF i = 1 THEN s[i] ELSE g[i - 1] \o s[i]]
Flat(s, n) == IF n = 0 THEN <<>> ELSE (CHOOSE g : Flattening(g, s))[n]

LEMMA FlatteningExists ==
    ASSUME NEW s, Len(s) \in Nat
    PROVE  \E g : Flattening(g, s)
<1> DEFINE Step(g, i) == IF i = 1 THEN s[i] ELSE g[i - 1] \o s[i]
           G == {n \in Nat : \E g : g = [i \in 1..n |-> Step(g, i)]}
<1>1. 0 \in G
  <2> DEFINE g0 == [i \in 1..0 |-> 0]
  <2>1. \A i \in 1..0 : FALSE
    OBVIOUS
  <2>2. g0 = [i \in 1..0 |-> Step(g0, i)]
    BY <2>1
  <2> QED
    BY <2>2
<1>2. ASSUME NEW n \in Nat, n \in G
      PROVE  n + 1 \in G
  <2>1. PICK g : g = [i \in 1..n |-> Step(g, i)]
    BY <1>2
  <2> DEFINE h == [i \in 1..(n + 1) |-> Step(g, i)]
  <2>2. \A i \in 1..n : g[i] = Step(g, i)
    <3> HIDE DEF Step
    <3> QED
      BY <2>1
  <2>3. \A i \in 1..(n + 1) : h[i] = Step(g, i)
    <3> HIDE DEF Step
    <3> QED
      OBVIOUS
  <2>4. \A i \in 1..n : h[i] = g[i]
    <3> HIDE DEF Step, h
    <3> QED
      BY <2>2, <2>3
  <2>5. \A i \in 1..(n + 1) : Step(g, i) = Step(h, i)
    <3>1. \A i \in 1..(n + 1) : i # 1 => i - 1 \in 1..n
      OBVIOUS
    <3> HIDE DEF h
    <3> QED
      BY <2>4, <3>1
  <2>6. h = [i \in 1..(n + 1) |-> Step(h, i)]
    <3> HIDE DEF Step
    <3> QED
      BY <2>5
  <2> HIDE DEF h, Step
  <2> QED
    BY <2>6
<1>3. Len(s) \in G
  <2> HIDE DEF G
  <2> QED
    BY <1>1, <1>2, NatInduct
<1>4. PICK g : g = [i \in 1..Len(s) |-> Step(g, i)]
  BY <1>3
<1> QED
  BY <1>4 DEF Flattening

LEMMA FlatWhole ==
    ASSUME NEW S, NEW s \in Seq(Seq(S))
    PROVE  FlattenSeq(s) = Flat(s, Len(s))
<1>1. CASE Len(s) = 0
  <2>1. s = <<>>
    BY <1>1
  <2> QED
    BY <1>1, <2>1 DEF FlattenSeq, Flat
<1>2. CASE Len(s) # 0
  BY <1>2 DEF FlattenSeq, Flat, Flattening
<1> QED
  BY <1>1, <1>2

LEMMA FlatSteps ==
    ASSUME NEW S, NEW s \in Seq(Seq(S))
    PROVE  /\ \A n \in 0..Len(s) : Flat(s, n) \in Seq(S)
           /\ \A n \in 0..(Len(s) - 1) : Flat(s, n + 1) = Flat(s, n) \o s[n + 1]
<1>1. Len(s) \in Nat /\ \A i \in 1..Len(s) : s[i] \in Seq(S)
  OBVIOUS
<1>2. PICK g : /\ Flattening(g, s)
               /\ \A n : Flat(s, n) = IF n = 0 THEN <<>> ELSE g[n]
  <2>1. Flattening(CHOOSE g : Flattening(g, s), s)
    BY <1>1, FlatteningExists, Zenon
  <2>2. \A n : Flat(s, n) = IF n = 0 THEN <<>> ELSE (CHOOSE g : Flattening(g, s))[n]
    BY Zenon DEF Flat
  <2> QED
    BY <2>1, <2>2, Zenon
<1>3. /\ 1 \in 1..Len(s) => g[1] = s[1]
      /\ \A i \in 1..Len(s), j \in Nat : i = j + 1 /\ j # 0 => g[i] = g[j] \o s[i]
  <2>1. \A i \in 1..Len(s) : g[i] = IF i = 1 THEN s[i] ELSE g[i - 1] \o s[i]
    BY <1>2 DEF Flattening
  <2>2. \A i \in 1..Len(s), j \in Nat : i = j + 1 => i - 1 = j /\ (j # 0 => i # 1)
    BY <1>1
  <2> QED
    BY <2>1, <2>2
<1>4. ASSUME NEW n \in 0..(Len(s) - 1)
      PROVE  Flat(s, n + 1) = Flat(s, n) \o s[n + 1]
  <2>1. n + 1 \in 1..Len(s) /\ n + 1 # 0 /\ s[n + 1] \in Seq(S)
    BY <1>1
  <2>2. CASE n = 0
    <3>1. Flat(s, n + 1) = s[n + 1] /\ Flat(s, n) = <<>>
      BY <1>2, <1>3, <2>1, <2>2
    <3>2. <<>> \o s[n + 1] = s[n + 1]
      BY <2>1, ConcatEmptySeq
    <3> QED
      BY <3>1, <3>2
  <2>3. CASE n # 0
    <3>1. g[n + 1] = g[n] \o s[n + 1]
      <4>1. PICK m \in 1..Len(s) : m = n + 1
        BY <2>1
      <4>2. n \in Nat
        OBVIOUS
      <4>3. g[m] = g[n] \o s[m]
        BY <1>3, <2>3, <4>1, <4>2
      <4> QED
        BY <4>1, <4>3
    <3> QED
      BY <1>2, <2>1, <2>3, <3>1
  <2> QED
    BY <2>2, <2>3
<1>5. \A n \in 0..Len(s) : Flat(s, n) \in Seq(S)
  <2> DEFINE G == {n \in Nat : n <= Len(s) => Flat(s, n) \in Seq(S)}
  <2>1. 0 \in G
    <3>1. Flat(s, 0) = <<>>
      BY <1>2
    <3>2. <<>> \in Seq(S)
      OBVIOUS
    <3> HIDE DEF Flat
    <3> QED
      BY <3>1, <3>2
  <2>2. ASSUME NEW n \in Nat, n \in G
        PROVE  n + 1 \in G
    <3> SUFFICES ASSUME n + 1 <= Len(s) PROVE Flat(s, n + 1) \in Seq(S)
      OBVIOUS
    <3>1. Flat(s, n) \in Seq(S) /\ s[n + 1] \in Seq(S) /\ n \in 0..(Len(s) - 1)
      BY <1>1, <2>2
    <3>2. Flat(s, n + 1) = Flat(s, n) \o s[n + 1]
      BY <1>4, <3>1
    <3> QED
      BY <3>1, <3>2, ConcatProperties
  <2>3. \A n \in Nat : n \in G
    <3> HIDE DEF G
    <3> QED
      BY <2>1, <2>2, NatInduct
  <2> QED
    BY <1>1, <2>3
<1> QED
  BY <1>4, <1>5

(* Concatenation                                                             *)
LEMMA JoinedIn ==
    ASSUME NEW S, NEW a \in Seq(S), NEW b \in Seq(S), NEW c \in Seq(S)
    PROVE  /\ a \o b \in Seq(S) /\ (a \o b) \o c = a \o (b \o c)
           /\ a \o <<>> = a /\ <<>> \o a = a
BY ConcatProperties, ConcatAssociative, ConcatEmptySeq

LEMMA CountTo ==
    ASSUME NEW n, n \in Nat
    PROVE  IsFiniteSet(1..n) /\ Cardinality(1..n) = n
<1>1. IsFiniteSet(1..n) /\ Cardinality(1..n) = IF 1 > n THEN 0 ELSE n - 1 + 1
  BY FS_Interval
<1> QED
  BY <1>1

(* Sequences put together, taken apart and compared.                         *)
Joined(a, b, c) ==
    /\ Len(a) \in Nat /\ Len(b) \in Nat /\ Len(c) = Len(a) + Len(b)
    /\ \A i \in 1..Len(a) : c[i] = a[i]
    /\ \A i \in 1..Len(b) : c[Len(a) + i] = b[i]
LEMMA JoinAt ==
    ASSUME NEW S, NEW a, a \in Seq(S), NEW b, b \in Seq(S), NEW c, c = a \o b
    PROVE  c \in Seq(S) /\ Joined(a, b, c)
<1>1. a \o b \in Seq(S) /\ Len(a) \in Nat /\ Len(b) \in Nat /\ Len(a \o b) = Len(a) + Len(b)
  OBVIOUS
<1>2. ASSUME NEW i \in 1..Len(a) PROVE (a \o b)[i] = a[i]
  OBVIOUS
<1>3. ASSUME NEW i \in 1..Len(b) PROVE (a \o b)[Len(a) + i] = b[i]
  <2> DEFINE j == Len(a) + i
  <2>1. j \in 1..(Len(a) + Len(b)) /\ ~(j <= Len(a)) /\ j - Len(a) = i
    BY <1>1
  <2> HIDE DEF j
  <2>2. (a \o b)[j] = b[j - Len(a)]
    BY <1>1, <2>1
  <2> QED
    BY <2>1, <2>2 DEF j
<1>4. c \in Seq(S) /\ Len(c) = Len(a) + Len(b)
  BY <1>1
<1>5. (\A i \in 1..Len(a) : c[i] = a[i]) /\ (\A i \in 1..Len(b) : c[Len(a) + i] = b[i])
  BY <1>2, <1>3
<1> QED
  BY <1>1, <1>4, <1>5 DEF Joined

LEMMA SliceAt ==
    ASSUME NEW S, NEW s, s \in Seq(S), NEW a \in Nat \ {0}, NEW n \in Nat, a + n <= Len(s) + 1
    PROVE  /\ SubSeq(s, a, a + n - 1) \in Seq(S) /\ Len(SubSeq(s, a, a + n - 1)) = n
           /\ \A i \in 1..n : SubSeq(s, a, a + n - 1)[i] = s[a + i - 1]
<1> DEFINE b == a + n - 1
<1>1. Len(s) \in Nat /\ b \in Int /\ b - a + 1 = n /\ b <= Len(s) /\ a - 1 <= b
  OBVIOUS
<1>2. \A i \in a..b : i \in 1..Len(s)
  BY <1>1
<1> HIDE DEF b
<1>3. SubSeq(s, a, b) = [i \in 1..(b - a + 1) |-> s[a + i - 1]]
  BY <1>1
<1>4. \A i \in 1..n : s[a + i - 1] \in S
  <2>1. \A i \in 1..n : a + i - 1 \in 1..Len(s)
    BY <1>1
  <2> QED
    BY <2>1
<1> QED
  BY <1>1, <1>3, <1>4 DEF b

LEMMA SameSeq ==
    ASSUME NEW S, NEW a, a \in Seq(S), NEW b, b \in Seq(S), Len(a) = Len(b),
           \A i \in 1..Len(a) : a[i] = b[i]
    PROVE  a = b
  OBVIOUS

-----------------------------------------------------------------------------
(* Counting down                                                             *)

(* A numeral falls with its first digit that changes.                        *)
LEMMA Digits ==
    ASSUME NEW p \in Nat, NEW q \in Nat, NEW w \in Nat,
           NEW r \in 0..(w - 1), NEW s \in 0..(w - 1),
           p < q \/ (p = q /\ r < s)
    PROVE  p * w + r < q * w + s /\ q * w + s \in 0..((q + 1) * w)
<1>1. (q + 1) * w = q * w + w /\ q * w \in Nat /\ p * w \in Nat
  BY SMT
<1>2. CASE p = q
  BY <1>1, <1>2
<1>3. CASE p < q
  <2>1. PICK d \in Nat : q = p + 1 + d
    <3>1. q - p - 1 \in Nat /\ q = p + 1 + (q - p - 1)
      BY <1>3
    <3> QED
      BY <3>1
  <2>2. q * w = p * w + w + d * w /\ d * w \in Nat
    BY <2>1
  <2> QED
    BY <1>1, <2>2
<1> QED
  BY <1>2, <1>3

(* A numeral of four digits, of which the second is below n, the third       *)
(* below 4 and the last below w.                                             *)
Numeral(n, w, a, b, c, d) == ((a * n + b) * 4 + c) * w + d
ComesBefore(a, b, c, d, h, i, j, k) ==
    \/ a < h
    \/ a = h /\ b < i
    \/ a = h /\ b = i /\ c < j
    \/ a = h /\ b = i /\ c = j /\ d < k

LEMMA FourDigits ==
    ASSUME NEW n \in Nat, NEW w \in Nat,
           NEW a \in Nat, NEW b \in 0..(n - 1), NEW c \in 0..3, NEW d \in 0..(w - 1),
           NEW h \in Nat, NEW i \in 0..(n - 1), NEW j \in 0..3, NEW k \in 0..(w - 1),
           ComesBefore(a, b, c, d, h, i, j, k)
    PROVE  Numeral(n, w, a, b, c, d) < Numeral(n, w, h, i, j, k)
<1> DEFINE p == a * n + b
           q == h * n + i
           s == p * 4 + c
           t == q * 4 + j
<1>1. n \in Nat /\ p \in Nat /\ q \in Nat
  <2>1. a * n \in Nat /\ h * n \in Nat /\ b \in Nat /\ i \in Nat
    OBVIOUS
  <2> QED
    BY <2>1
<1>2. \/ p < q
      \/ p = q /\ c < j
      \/ p = q /\ c = j /\ d < k
  <2>1. CASE a < h \/ (a = h /\ b < i)
    BY <2>1, Digits
  <2>2. CASE a = h /\ b = i
    <3>1. p = q
      BY <2>2
    <3>2. c < j \/ (c = j /\ d < k)
      BY <2>2 DEF ComesBefore
    <3> HIDE DEF p, q
    <3> QED
      BY <3>1, <3>2
  <2> QED
    BY <2>1, <2>2 DEF ComesBefore
<1> HIDE DEF p, q
<1>3. s \in Nat /\ t \in Nat
  BY <1>1
<1>4. s < t \/ (s = t /\ d < k)
  BY <1>1, <1>2
<1> HIDE DEF s, t
<1>5. s * w + d < t * w + k
  BY <1>3, <1>4, Digits
<1> QED
  BY <1>5 DEF p, q, s, t, Numeral

LEMMA NumeralType ==
    ASSUME NEW n \in Nat, NEW w \in Nat, NEW a \in Nat, NEW b \in Nat, NEW c \in Nat,
           NEW d \in Nat
    PROVE  Numeral(n, w, a, b, c, d) \in Nat
<1> DEFINE p == a * n + b
           s == p * 4 + c
<1>1. a * n \in Nat
  OBVIOUS
<1>2. p \in Nat
  BY <1>1
<1> HIDE DEF p
<1>3. s \in Nat
  BY <1>2
<1> HIDE DEF s
<1>4. s * w \in Nat
  BY <1>3
<1>5. s * w + d \in Nat
  BY <1>4
<1> QED
  BY <1>5 DEF p, s, Numeral
=============================================================================
