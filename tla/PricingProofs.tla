---------------------------- MODULE PricingProofs ----------------------------
(***************************************************************************)
(* What a bill promises whatever the tariff, the session and the number of *)
(* its periods: its tax lines account for its totals to the cent, it keeps *)
(* to the limits, and it comes to what pricing the session second by second *)
(* does; no note is a false alarm, an honest CDR is not doubted without a  *)
(* note, and what lint() says of a tariff is how it prices.                *)
(***************************************************************************)
EXTENDS TariffReview, FiniteSetTheorems, TLAPS

-----------------------------------------------------------------------------
(* Finite sets have first elements, and so a counterexample to a claim     *)
(* about the numbers up to n, or about the parts of a finite set, has a    *)
(* smallest one: what sums over the dimensions of a tariff rest on.        *)

(* An order on a finite set has a least element in every part of it.        *)
LEMMA FiniteMinimum ==
    ASSUME NEW L, IsFiniteSet(L), NEW R,
           \A x, y, z \in L : <<x, y>> \in R /\ <<y, z>> \in R => <<x, z>> \in R,
           \A x \in L : <<x, x>> \notin R,
           NEW T \in SUBSET L, T # {}
    PROVE  \E m \in T : \A x \in T : <<x, m>> \notin R
<1> DEFINE Below(t) == {s \in L : <<s, t>> \in R}
           D == {Below(t) : t \in T}
<1>1. IsWellFoundedOn(StrictSubsetOrdering(L), FiniteSubsetsOf(L))
  BY FS_StrictSubsetOrderingWellFounded
<1>2. D \subseteq FiniteSubsetsOf(L) /\ D # {}
  <2>1. ASSUME NEW t \in T PROVE Below(t) \in FiniteSubsetsOf(L)
    BY FS_Subset DEF FiniteSubsetsOf
  <2>2. PICK t \in T : TRUE
    OBVIOUS
  <2>3. Below(t) \in D
    OBVIOUS
  <2>4. \A e \in D : \E u \in T : e = Below(u)
    OBVIOUS
  <2> HIDE DEF D, Below
  <2> QED
    BY <2>1, <2>3, <2>4
<1>3. PICK d \in D : \A e \in D : <<e, d>> \notin StrictSubsetOrdering(L)
  <2> HIDE DEF D
  <2> QED
    BY <1>1, <1>2, WFMin
<1>4. PICK m \in T : d = Below(m)
  OBVIOUS
<1>5. ASSUME NEW x \in T, <<x, m>> \in R PROVE FALSE
  <2>1. Below(x) \subseteq Below(m) /\ x \in Below(m) /\ x \notin Below(x)
    BY <1>5
  <2>2. Below(x) \in D /\ Below(x) \in SUBSET L /\ Below(m) \in SUBSET L
    OBVIOUS
  <2>3. <<Below(x), d>> \in StrictSubsetOrdering(L)
    BY <2>1, <2>2, <1>4 DEF StrictSubsetOrdering
  <2> QED
    BY <1>3, <2>2, <2>3
<1> QED
  BY <1>5

(* The smallest of finitely many numbers.                                   *)
LEMMA LeastNumber ==
    ASSUME NEW S \in SUBSET Nat, IsFiniteSet(S), S # {}
    PROVE  \E m \in S : \A n \in S : m <= n
<1> DEFINE R == {e \in S \X S : e[1] < e[2]}
<1>1. \A x, y \in S : <<x, y>> \in R <=> x < y
  OBVIOUS
<1>2. \A x, y, z \in S : <<x, y>> \in R /\ <<y, z>> \in R => <<x, z>> \in R
  BY <1>1
<1>3. \A x \in S : <<x, x>> \notin R
  BY <1>1
<1> HIDE DEF R
<1>4. \A T \in SUBSET S : T # {} => \E m \in T : \A x \in T : <<x, m>> \notin R
  BY <1>2, <1>3, FiniteMinimum
<1>5. PICK m \in S : \A x \in S : <<x, m>> \notin R
  BY <1>4
<1>6. \A n \in S : m \in Nat /\ n \in Nat /\ ~(n < m)
  BY <1>1, <1>5
<1> QED
  BY <1>6

(* What holds of 0, and of i + 1 where it holds of i, holds up to n.        *)
LEMMA UpTo ==
    ASSUME NEW n \in Nat, NEW S, 0 \in S,
           \A i \in 0..n : i < n /\ i \in S => i + 1 \in S
    PROVE  \A i \in 0..n : i \in S
<1> SUFFICES ASSUME NEW k \in 0..n, k \notin S PROVE FALSE
  OBVIOUS
<1> DEFINE Bad == {i \in 0..n : i \notin S}
<1>1. Bad \in SUBSET Nat /\ IsFiniteSet(Bad) /\ Bad # {}
  <2>1. IsFiniteSet(0..n)
    BY FS_Interval
  <2> QED
    BY <2>1, FS_Subset
<1>2. PICK m \in Bad : \A i \in Bad : m <= i
  BY <1>1, LeastNumber
<1>3. m - 1 \in 0..n /\ m - 1 < n /\ m - 1 \notin Bad
  BY <1>2
<1> QED
  BY <1>3

(* What holds of a set where it holds of its proper parts holds of every    *)
(* part of a finite set.                                                   *)
LEMMA BySubsets ==
    ASSUME NEW D, IsFiniteSet(D), NEW Good,
           \A S \in SUBSET D : (\A U \in SUBSET S : U # S => U \in Good) => S \in Good
    PROVE  \A S \in SUBSET D : S \in Good
<1> SUFFICES ASSUME NEW S0 \in SUBSET D, S0 \notin Good PROVE FALSE
  OBVIOUS
<1> DEFINE Bad == {S \in SUBSET D : S \notin Good}
<1>1. IsWellFoundedOn(StrictSubsetOrdering(D), FiniteSubsetsOf(D))
  BY FS_StrictSubsetOrderingWellFounded
<1>2. Bad \subseteq FiniteSubsetsOf(D) /\ Bad # {}
  BY FS_Subset DEF FiniteSubsetsOf
<1>3. PICK m \in Bad : \A e \in Bad : <<e, m>> \notin StrictSubsetOrdering(D)
  <2> HIDE DEF Bad
  <2> QED
    BY <1>1, <1>2, WFMin
<1>4. PICK U \in SUBSET m : U # m /\ U \notin Good
  BY <1>3
<1>5. U \in Bad /\ <<U, m>> \in StrictSubsetOrdering(D)
  BY <1>3, <1>4 DEF StrictSubsetOrdering
<1> QED
  BY <1>3, <1>5

-----------------------------------------------------------------------------
(* Sums. *)

First(S) == CHOOSE x \in S : TRUE

(* iter holds the sums of the parts of D.                                   *)
SumsUp(iter, f, D) ==
    \A S \in SUBSET D : iter[S] = IF S = {} THEN 0 ELSE f[First(S)] + iter[S \ {First(S)}]

(* The recursive function of a sum is one: what is chosen comes first.      *)
LEMMA SumIs ==
    ASSUME NEW f, NEW D, D = DOMAIN f, IsFiniteSet(D)
    PROVE  \E iter : SumOf(f) = iter[D] /\ SumsUp(iter, f, D)
<1> DEFINE N == Cardinality(D)
           G(h, S) == IF S = {} THEN 0 ELSE f[First(S)] + h[S \ {First(S)}]
           Small(m) == {S \in SUBSET D : Cardinality(S) <= m}
           Good == {m \in 0..N : \E h : h = [S \in Small(m) |-> G(h, S)]}
           iter == CHOOSE h : h = [S \in SUBSET D |-> G(h, S)]
<1>1. N \in Nat /\ \A S \in SUBSET D : Cardinality(S) \in Nat /\ Cardinality(S) <= N
  BY FS_CardinalityType, FS_Subset
<1>2. ASSUME NEW S \in SUBSET D, S # {}
      PROVE  /\ S \ {First(S)} \in SUBSET D
             /\ Cardinality(S \ {First(S)}) = Cardinality(S) - 1
  <2>1. First(S) \in S /\ IsFiniteSet(S)
    BY <1>2, FS_Subset DEF First
  <2> QED
    BY <2>1, FS_RemoveElement
<1>3. ASSUME NEW m \in Nat, NEW S \in Small(m + 1), S # {}
      PROVE  S \ {First(S)} \in Small(m)
  <2> QED
    BY <1>1, <1>2, <1>3
<1>4. 0 \in Good
  <2> DEFINE h == [S \in Small(0) |-> 0]
  <2>1. \A S \in Small(0) : S = {}
    BY <1>1, FS_Subset, FS_EmptySet
  <2>2. h = [S \in Small(0) |-> G(h, S)]
    <3> HIDE DEF Small
    <3> QED
      BY <2>1
  <2>3. 0 \in 0..N
    BY <1>1
  <2> HIDE DEF h, N, G, Small
  <2> QED
    BY <2>2, <2>3
<1>5. ASSUME NEW m \in 0..N, m < N, m \in Good PROVE m + 1 \in Good
  <2>1. PICK h : h = [S \in Small(m) |-> G(h, S)]
    BY <1>5
  <2> DEFINE g == [S \in Small(m + 1) |-> G(h, S)]
  <2>2. ASSUME NEW S \in Small(m) PROVE g[S] = h[S]
    <3>1. S \in Small(m + 1)
      BY <1>1
    <3> HIDE DEF G, Small
    <3> QED
      BY <2>1, <3>1
  <2>3. ASSUME NEW S \in Small(m + 1) PROVE G(h, S) = G(g, S)
    <3>1. S # {} => S \ {First(S)} \in Small(m)
      BY <1>3
    <3> HIDE DEF g, Small
    <3> QED
      BY <2>2, <3>1
  <2>4. g = [S \in Small(m + 1) |-> G(g, S)]
    <3>1. g = [S \in Small(m + 1) |-> G(h, S)]
      OBVIOUS
    <3> HIDE DEF g, G, Small
    <3> QED
      BY <2>3, <3>1
  <2>5. m + 1 \in 0..N
    BY <1>1, <1>5
  <2> HIDE DEF g, G, Small, N
  <2> QED
    BY <2>4, <2>5
<1>6. \E h : h = [S \in SUBSET D |-> G(h, S)]
  <2>1. N \in 0..N /\ Small(N) = SUBSET D
    BY <1>1
  <2> HIDE DEF N, G, Small
  <2>2. \A i \in 0..N : i \in Good
    <3> HIDE DEF Good
    <3> QED
      BY <1>1, <1>4, <1>5, UpTo
  <2>3. \E h : h = [S \in Small(N) |-> G(h, S)]
    BY <2>1, <2>2
  <2> QED
    BY <2>1, <2>3
<1>7. iter = [S \in SUBSET D |-> G(iter, S)]
  <2> HIDE DEF G
  <2> QED
    BY <1>6
<1>8. SumOf(f) = iter[D]
  BY DEF SumOf, MapThenFoldSet, First
<1> HIDE DEF iter
<1>9. \A S \in SUBSET D : iter[S] = G(iter, S)
  <2> HIDE DEF G
  <2> QED
    BY <1>7
<1> QED
  BY <1>8, <1>9 DEF SumsUp

(* A sum is whichever of its terms, and the sum of the others.              *)
LEMMA SumTakes ==
    ASSUME NEW D, IsFiniteSet(D), NEW f \in [D -> Int], NEW x \in D
    PROVE  SumOf(f) = f[x] + SumOf([y \in D \ {x} |-> f[y]])
<1> DEFINE E == D \ {x}
           g == [y \in E |-> f[y]]
<1>1. PICK iter : SumOf(f) = iter[D] /\ SumsUp(iter, f, D)
  <2>1. DOMAIN f = D
    OBVIOUS
  <2> QED
    BY <2>1, SumIs
<1>2. PICK jter : SumOf(g) = jter[E] /\ SumsUp(jter, g, E)
  <2>1. DOMAIN g = E
    OBVIOUS
  <2>2. IsFiniteSet(E)
    BY FS_Subset
  <2> HIDE DEF g, E
  <2> QED
    BY <2>1, <2>2, SumIs
<1>3. \A S \in SUBSET D : S # {} => First(S) \in S
  BY DEF First
<1> DEFINE Sum(h, k, S) == k[S] = h[First(S)] + k[S \ {First(S)}]
<1>i. iter[{}] = 0 /\ \A S \in SUBSET D : S # {} => Sum(f, iter, S)
  BY <1>1 DEF SumsUp
<1>j. jter[{}] = 0 /\ \A S \in SUBSET E : S # {} => Sum(g, jter, S)
  BY <1>2 DEF SumsUp
<1>4. \A S \in SUBSET D : iter[S] \in Int
  <2> DEFINE Good == {S \in SUBSET D : iter[S] \in Int}
  <2>1. ASSUME NEW S \in SUBSET D, \A U \in SUBSET S : U # S => U \in Good
        PROVE  S \in Good
    <3>1. CASE S = {}
      BY <1>i, <3>1
    <3>2. CASE S # {}
      <4>1. First(S) \in S /\ S \ {First(S)} \in Good
        BY <1>3, <2>1, <3>2
      <4>2. f[First(S)] \in Int /\ iter[S \ {First(S)}] \in Int
        BY <4>1
      <4>3. iter[S] = f[First(S)] + iter[S \ {First(S)}]
        BY <1>i, <3>2
      <4>4. \A a, b \in Int : a + b \in Int
        OBVIOUS
      <4>5. iter[S] \in Int
        BY <4>2, <4>3, <4>4
      <4> QED
        BY <4>5
    <3> QED
      BY <3>1, <3>2
  <2> HIDE DEF Good
  <2>2. \A S \in SUBSET D : S \in Good
    BY <2>1, BySubsets
  <2> QED
    BY <2>2 DEF Good
<1>5. \A S \in SUBSET D : \A y \in S : iter[S] = f[y] + iter[S \ {y}]
  <2> DEFINE Good == {S \in SUBSET D : \A y \in S : iter[S] = f[y] + iter[S \ {y}]}
  <2>1. ASSUME NEW S \in SUBSET D, \A U \in SUBSET S : U # S => U \in Good
        PROVE  S \in Good
    <3> SUFFICES ASSUME NEW y \in S PROVE iter[S] = f[y] + iter[S \ {y}]
      BY <2>1
    <3>1. CASE First(S) = y
      BY <1>i, <3>1
    <3>2. CASE First(S) # y
      <4> DEFINE z == First(S)
      <4>1. z \in S /\ z # y
        BY <1>3, <3>2
      <4>2. iter[S] = f[z] + iter[S \ {z}]
        BY <1>i, <4>1
      <4> HIDE DEF z
      <4>3. S \ {z} \in Good /\ S \ {y} \in Good
        BY <2>1, <4>1
      <4>4. iter[S \ {z}] = f[y] + iter[(S \ {z}) \ {y}]
        BY <4>1, <4>3
      <4>5. iter[S \ {y}] = f[z] + iter[(S \ {y}) \ {z}]
        BY <4>1, <4>3
      <4>6. (S \ {z}) \ {y} = (S \ {y}) \ {z}
        OBVIOUS
      <4>7. iter[(S \ {y}) \ {z}] \in Int /\ f[y] \in Int /\ f[z] \in Int
        BY <1>4, <4>1
      <4>8. \A a, b, c \in Int : a + (b + c) = b + (a + c)
        OBVIOUS
      <4>9. iter[S] = f[z] + (f[y] + iter[(S \ {y}) \ {z}])
        BY <4>2, <4>4, <4>6
      <4>10. iter[S] = f[y] + (f[z] + iter[(S \ {y}) \ {z}])
        BY <4>7, <4>8, <4>9
      <4> QED
        BY <4>5, <4>10
    <3> QED
      BY <3>1, <3>2
  <2> HIDE DEF Good
  <2>2. \A S \in SUBSET D : S \in Good
    BY <2>1, BySubsets
  <2> QED
    BY <2>2 DEF Good
<1>6. \A S \in SUBSET E : iter[S] = jter[S]
  <2> DEFINE Good == {S \in SUBSET E : iter[S] = jter[S]}
  <2>1. ASSUME NEW S \in SUBSET E, \A U \in SUBSET S : U # S => U \in Good
        PROVE  S \in Good
    <3>1. CASE S = {}
      BY <1>i, <1>j, <3>1
    <3>2. CASE S # {}
      <4>1. First(S) \in S /\ S \ {First(S)} \in Good
        BY <1>3, <2>1, <3>2
      <4>2. iter[S] = f[First(S)] + iter[S \ {First(S)}]
        BY <1>i, <3>2
      <4>3. jter[S] = g[First(S)] + jter[S \ {First(S)}]
        BY <1>j, <3>2
      <4> QED
        BY <4>1, <4>2, <4>3
    <3> QED
      BY <3>1, <3>2
  <2>2. IsFiniteSet(E)
    BY FS_Subset
  <2> HIDE DEF Good, E
  <2>3. \A S \in SUBSET E : S \in Good
    BY <2>1, <2>2, BySubsets
  <2> QED
    BY <2>3 DEF Good
<1> HIDE DEF Sum
<1>7. SumOf(f) = f[x] + iter[E]
  BY <1>1, <1>5
<1>8. iter[E] = SumOf(g)
  BY <1>2, <1>6
<1> QED
  BY <1>7, <1>8

LEMMA SumSplits ==
    ASSUME NEW D, IsFiniteSet(D), NEW f \in [D -> Int], NEW x \in D,
           NEW g \in [D \ {x} -> Int], \A y \in D \ {x} : g[y] = f[y]
    PROVE  SumOf(f) = f[x] + SumOf(g)
<1>1. g = [y \in D \ {x} |-> f[y]]
  OBVIOUS
<1>2. SumOf(f) = f[x] + SumOf([y \in D \ {x} |-> f[y]])
  BY SumTakes
<1> QED
  BY <1>1, <1>2

(* What the terms have in common, and every sum of two, every sum has.      *)
LEMMA SumIn ==
    ASSUME NEW D, IsFiniteSet(D), NEW V, 0 \in V, \A a, b \in V : a + b \in V,
           NEW f \in [D -> V]
    PROVE  SumOf(f) \in V
<1>1. PICK iter : SumOf(f) = iter[D] /\ SumsUp(iter, f, D)
  <2>1. DOMAIN f = D
    OBVIOUS
  <2> QED
    BY <2>1, SumIs
<1>2. \A S \in SUBSET D : S # {} => First(S) \in S
  BY DEF First
<1>i. iter[{}] = 0
  BY <1>1 DEF SumsUp
<1>j. \A S \in SUBSET D : S # {} => iter[S] = f[First(S)] + iter[S \ {First(S)}]
  BY <1>1 DEF SumsUp
<1> DEFINE Good == {S \in SUBSET D : iter[S] \in V}
<1>3. ASSUME NEW S \in SUBSET D, \A U \in SUBSET S : U # S => U \in Good
      PROVE  S \in Good
  <2>1. CASE S = {}
    BY <1>i, <2>1
  <2>2. CASE S # {}
    <3>1. First(S) \in S /\ S \ {First(S)} \in Good
      BY <1>2, <1>3, <2>2
    <3>2. f[First(S)] \in V /\ iter[S \ {First(S)}] \in V
      BY <3>1
    <3> QED
      BY <1>j, <2>2, <3>2
  <2> QED
    BY <2>1, <2>2
<1> HIDE DEF Good
<1>4. \A S \in SUBSET D : S \in Good
  BY <1>3, BySubsets
<1> QED
  BY <1>1, <1>4 DEF Good

-----------------------------------------------------------------------------
(* Numbers. *)

(* A finite set of numbers has a greatest and a least.                      *)
LEMMA GreatestIs ==
    ASSUME NEW S \in SUBSET Int, IsFiniteSet(S), S # {}
    PROVE  Greatest(S) \in S /\ \A x \in S : Greatest(S) >= x
<1> DEFINE R == {e \in S \X S : e[1] > e[2]}
<1>1. \A x, y \in S : <<x, y>> \in R <=> x > y
  OBVIOUS
<1>2. \A x, y, z \in S : <<x, y>> \in R /\ <<y, z>> \in R => <<x, z>> \in R
  BY <1>1
<1>3. \A x \in S : <<x, x>> \notin R
  BY <1>1
<1> HIDE DEF R
<1>4. \A T \in SUBSET S : T # {} => \E m \in T : \A x \in T : <<x, m>> \notin R
  BY <1>2, <1>3, FiniteMinimum
<1>5. PICK m \in S : \A x \in S : <<x, m>> \notin R
  BY <1>4
<1>6. ASSUME NEW x \in S PROVE m >= x
  <2>1. x \in Int /\ m \in Int
    OBVIOUS
  <2>2. ~(x > m)
    BY <1>1, <1>5
  <2> QED
    BY <2>1, <2>2
<1> QED
  BY <1>6 DEF Greatest

LEMMA LeastIs ==
    ASSUME NEW S \in SUBSET Nat, IsFiniteSet(S), S # {}
    PROVE  Least(S) \in S
BY LeastNumber DEF Least

LEMMA AtLeastOnce ==
    ASSUME NEW d \in Nat, d # 0, NEW q \in Int, q >= 1
    PROVE  d * q >= d
OBVIOUS

(* A division has one quotient.                                             *)
LEMMA QuotientIs ==
    ASSUME NEW d \in Nat, d # 0, NEW q \in Int, NEW n \in Int, d * q <= n, n < d * q + d
    PROVE  n \div d = q
<1> DEFINE r == n \div d
<1>1. r \in Int /\ d * r <= n /\ n < d * r + d
  OBVIOUS
<1> HIDE DEF r
<1>2. ASSUME q - r >= 1 PROVE FALSE
  <2>1. d * (q - r) >= d
    BY <1>1, <1>2, AtLeastOnce
  <2>2. d * (q - r) = d * q - d * r
    BY <1>1
  <2> QED
    BY <1>1, <2>1, <2>2
<1>3. ASSUME r - q >= 1 PROVE FALSE
  <2>1. d * (r - q) >= d
    BY <1>1, <1>3, AtLeastOnce
  <2>2. d * (r - q) = d * r - d * q
    BY <1>1
  <2> QED
    BY <1>1, <2>1, <2>2
<1>4. q = r
  BY <1>1, <1>2, <1>3
<1> QED
  BY <1>4 DEF r

(* An amount in whole cents.                                                *)
InCents(x) == x \in Int /\ \E k \in Int : x = Cent * k

LEMMA CentsAre ==
    ASSUME NEW x, InCents(x)
    PROVE  x \in Int /\ x % Cent = 0
<1>1. PICK k \in Int : x = Cent * k
  BY DEF InCents
<1>2. Cent \in Nat /\ Cent # 0 /\ x \in Int
  BY PricingAssumption DEF InCents
<1>3. x \div Cent = k
  BY <1>1, <1>2, QuotientIs
<1>4. x = Cent * (x \div Cent) + (x % Cent)
  BY <1>2
<1>5. x % Cent \in Int
  BY <1>2
<1> QED
  BY <1>1, <1>2, <1>3, <1>4, <1>5

LEMMA WholeCents ==
    ASSUME NEW x \in Int, x % Cent = 0
    PROVE  InCents(x)
<1>1. Cent \in Nat /\ Cent # 0
  BY PricingAssumption
<1>2. x = Cent * (x \div Cent) + (x % Cent) /\ x \div Cent \in Int
  BY <1>1
<1>3. x = Cent * (x \div Cent)
  BY <1>1, <1>2
<1> QED
  BY <1>2, <1>3 DEF InCents

LEMMA CentsAdd ==
    /\ InCents(0)
    /\ \A x, y : InCents(x) /\ InCents(y) => InCents(x + y) /\ InCents(x - y)
<1>1. Cent \in Nat
  BY PricingAssumption
<1>2. InCents(0)
  <2>1. 0 = Cent * 0
    BY <1>1
  <2> QED
    BY <2>1 DEF InCents
<1>3. ASSUME NEW x, NEW y, InCents(x), InCents(y)
      PROVE  InCents(x + y) /\ InCents(x - y)
  <2>1. PICK k \in Int : x = Cent * k
    BY <1>3 DEF InCents
  <2>2. PICK l \in Int : y = Cent * l
    BY <1>3 DEF InCents
  <2>3. x + y = Cent * (k + l) /\ x - y = Cent * (k - l)
    BY <1>1, <2>1, <2>2
  <2>4. k + l \in Int /\ k - l \in Int /\ x + y \in Int /\ x - y \in Int
    BY <1>3 DEF InCents
  <2> QED
    BY <2>3, <2>4 DEF InCents
<1> QED
  BY <1>2, <1>3

(* Rounded is a multiple of its unit, and leaves multiples as they are.     *)
LEMMA RoundedIs ==
    ASSUME NEW a \in Int, NEW b \in Int, b # 0, NEW unit \in Nat, unit # 0
    PROVE  \E k \in Int : Rounded(a, b, unit) = unit * k
<1> DEFINE n == IF b < 0 THEN -a ELSE a
           c == IF b < 0 THEN -b ELSE b
           d == c * unit
           k == IF n >= 0 THEN (2 * n + d) \div (2 * d) ELSE -((d - 2 * n) \div (2 * d))
<1>1. n \in Int /\ c \in Nat /\ c # 0
  OBVIOUS
<1>2. d \in Int /\ d > 0
  <2>1. c >= 1 /\ c \in Int
    BY <1>1
  <2> HIDE DEF c
  <2>2. unit * c >= unit /\ unit * c = c * unit /\ c * unit \in Int
    BY <2>1, AtLeastOnce
  <2> QED
    BY <2>2
<1>3. k \in Int
  <2> HIDE DEF n, d
  <2> QED
    BY <1>1, <1>2
<1>4. Rounded(a, b, unit) = unit * k
  BY DEF Rounded
<1> HIDE DEF k
<1> QED
  BY <1>3, <1>4

LEMMA RoundsToCents ==
    ASSUME NEW a \in Int, NEW b \in Int, b # 0
    PROVE  InCents(Rounded(a, b, Cent))
<1>1. Cent \in Nat /\ Cent # 0
  BY PricingAssumption
<1>2. PICK k \in Int : Rounded(a, b, Cent) = Cent * k
  BY <1>1, RoundedIs
<1>3. Cent * k \in Int
  BY <1>1
<1> QED
  BY <1>2, <1>3 DEF InCents

LEMMA CentsStay ==
    ASSUME NEW x, InCents(x)
    PROVE  RoundCurrency(x) = x
<1>1. Cent \in Nat /\ Cent # 0
  BY PricingAssumption
<1>2. PICK k \in Int : x = Cent * k
  BY DEF InCents
<1> DEFINE d == 1 * Cent
<1>3. x \in Int /\ d = Cent /\ 2 * d \in Nat /\ 2 * d # 0
  BY <1>1 DEF InCents
<1>4. CASE x >= 0
  <2>1. (2 * d) * k = 2 * x
    BY <1>1, <1>2
  <2>2. (2 * d) * k <= 2 * x + d /\ 2 * x + d < (2 * d) * k + 2 * d
    BY <1>1, <1>3, <2>1
  <2>3. 2 * x + d \in Int
    BY <1>1, <1>3
  <2>4. (2 * x + d) \div (2 * d) = k
    <3> HIDE DEF d
    <3> QED
      BY <1>3, <2>2, <2>3, QuotientIs
  <2> QED
    BY <1>2, <1>4, <2>4 DEF RoundCurrency, Rounded
<1>5. CASE ~(x >= 0)
  <2>1. (2 * d) * (-k) = -(2 * x) /\ -k \in Int
    BY <1>1, <1>2
  <2>2. (2 * d) * (-k) <= d - 2 * x /\ d - 2 * x < (2 * d) * (-k) + 2 * d
    BY <1>1, <1>3, <2>1
  <2>3. d - 2 * x \in Int
    BY <1>1, <1>3
  <2>4. (d - 2 * x) \div (2 * d) = -k
    <3> HIDE DEF d
    <3> QED
      BY <1>3, <2>1, <2>2, <2>3, QuotientIs
  <2>5. -(-k) = k
    OBVIOUS
  <2> QED
    BY <1>2, <1>5, <2>4, <2>5 DEF RoundCurrency, Rounded
<1> QED
  BY <1>4, <1>5

-----------------------------------------------------------------------------
(* Segments. *)

IsSegment(s) ==
    s.quantity \in Int /\ s.price \in Int /\ s.vat \in Int \cup {None} /\ s.step_size \in Nat

(* A list of segments that have a price.                                   *)
AreSegments(list) == \E S : list \in Seq(S) /\ \A s \in S : IsSegment(s)

LEMMA SegmentsAre ==
    ASSUME NEW list, AreSegments(list)
    PROVE  /\ IsFiniteSet(DOMAIN list) /\ DOMAIN list \in SUBSET Int
           /\ \A i \in DOMAIN list : IsSegment(list[i])
<1>1. PICK S : list \in Seq(S) /\ \A s \in S : IsSegment(s)
  BY DEF AreSegments
<1>2. Len(list) \in Nat /\ DOMAIN list = 1..Len(list) /\ \A i \in DOMAIN list : list[i] \in S
  BY <1>1
<1>3. IsFiniteSet(1..Len(list))
  BY <1>2, FS_Interval
<1>4. 1..Len(list) \in SUBSET Int
  OBVIOUS
<1> QED
  BY <1>1, <1>2, <1>3, <1>4

LEMMA SegmentsJoin ==
    /\ AreSegments(<<>>)
    /\ \A s : IsSegment(s) => AreSegments(<<s>>)
    /\ \A a, b : AreSegments(a) /\ AreSegments(b) => AreSegments(a \o b)
<1>1. AreSegments(<<>>)
  <2> DEFINE e == <<>>
  <2>1. e \in Seq({}) /\ \A s \in {} : IsSegment(s)
    OBVIOUS
  <2> HIDE DEF e
  <2>2. AreSegments(e)
    BY <2>1 DEF AreSegments
  <2> QED
    BY <2>2 DEF e
<1>2. ASSUME NEW s, IsSegment(s) PROVE AreSegments(<<s>>)
  <2> DEFINE e == <<s>>
  <2>1. e \in Seq({s}) /\ \A x \in {s} : IsSegment(x)
    BY <1>2
  <2> HIDE DEF e
  <2>2. AreSegments(e)
    BY <2>1 DEF AreSegments
  <2> QED
    BY <2>2 DEF e
<1>3. ASSUME NEW a, NEW b, AreSegments(a), AreSegments(b) PROVE AreSegments(a \o b)
  <2>1. PICK S : a \in Seq(S) /\ \A s \in S : IsSegment(s)
    BY <1>3 DEF AreSegments
  <2>2. PICK T : b \in Seq(T) /\ \A s \in T : IsSegment(s)
    BY <1>3 DEF AreSegments
  <2> DEFINE U == S \cup T
  <2>3. a \in Seq(U) /\ b \in Seq(U)
    BY <2>1, <2>2
  <2>4. a \o b \in Seq(U)
    <3> HIDE DEF U
    <3> QED
      BY <2>3
  <2>5. \A s \in U : IsSegment(s)
    BY <2>1, <2>2
  <2> QED
    BY <2>4, <2>5 DEF AreSegments
<1> QED
  BY <1>1, <1>2, <1>3

(* The least of some of the indexes of a list is one of them.               *)
LEMMA LeastIndex ==
    ASSUME NEW list, IsList(list), NEW S \in SUBSET (DOMAIN list), S # {}
    PROVE  Least(S) \in S
<1>1. DOMAIN list = 1..Len(list) /\ Len(list) \in Nat
  BY DEF IsList
<1>2. IsFiniteSet(1..Len(list)) /\ 1..Len(list) \in SUBSET Nat
  BY <1>1, FS_Interval
<1>3. IsFiniteSet(S) /\ S \in SUBSET Nat
  BY <1>1, <1>2, FS_Subset
<1> QED
  BY <1>3, LeastIs

(* A tariff is selected from the session's, if any is.                      *)
LEMMA PreferredIs ==
    ASSUME NEW tariffs, IsList(tariffs), NEW wanted, NEW at,
           SelectByPreference(tariffs, wanted, at) # None
    PROVE  \E i \in DOMAIN tariffs : SelectByPreference(tariffs, wanted, at) = tariffs[i]
<1> DEFINE active == {i \in DOMAIN tariffs : IsActiveAt(tariffs[i], at)}
           liked == {i \in active : wanted # None /\ tariffs[i].type = wanted}
           general == {i \in active : tariffs[i].type = None}
           best == IF liked # {} THEN liked ELSE IF general # {} THEN general ELSE active
<1>1. active # {} /\ SelectByPreference(tariffs, wanted, at) = tariffs[Least(best)]
  BY DEF SelectByPreference
<1>2. best # {} /\ best \in SUBSET (DOMAIN tariffs)
  BY <1>1
<1> HIDE DEF best
<1>3. Least(best) \in best
  BY <1>2, LeastIndex
<1> QED
  BY <1>1, <1>2, <1>3

LEMMA SelectedIs ==
    ASSUME NEW tariffs, IsList(tariffs), NEW wanted, NEW id, NEW at,
           SelectTariff(tariffs, wanted, id, at) # None
    PROVE  \E i \in DOMAIN tariffs : SelectTariff(tariffs, wanted, id, at) = tariffs[i]
<1> DEFINE named == {i \in DOMAIN tariffs : tariffs[i].id = id}
<1>1. CASE id = None
  <2>1. SelectTariff(tariffs, wanted, id, at) = SelectByPreference(tariffs, wanted, at)
    BY <1>1 DEF SelectTariff
  <2> QED
    BY <2>1, PreferredIs
<1>2. CASE id # None
  <2>1. named # {} /\ SelectTariff(tariffs, wanted, id, at) = tariffs[Least(named)]
    BY <1>2 DEF SelectTariff
  <2>2. named \in SUBSET (DOMAIN tariffs)
    OBVIOUS
  <2> HIDE DEF named
  <2>3. Least(named) \in named
    BY <2>1, <2>2, LeastIndex
  <2> QED
    BY <2>1, <2>2, <2>3
<1> QED
  BY <1>1, <1>2

(* What is found in a tariff is one of its components.                      *)
LEMMA FoundIs ==
    ASSUME NEW tariff, IsTariff(tariff), NEW dimension, NEW context,
           FindComponent(tariff, dimension, context) # None
    PROVE  IsComponent(Component(tariff, FindComponent(tariff, dimension, context)))
<1> DEFINE found == {e \in DOMAIN tariff.elements :
                        /\ Matches(tariff.elements[e].restrictions, context)
                        /\ Prices(tariff.elements[e], dimension) # {}}
           e == Least(found)
           c == Least(Prices(tariff.elements[e], dimension))
<1>1. found # {} /\ FindComponent(tariff, dimension, context) = <<e, c>>
  BY DEF FindComponent
<1>2. e \in found
  <2>1. found \in SUBSET (DOMAIN tariff.elements) /\ IsList(tariff.elements)
    BY DEF IsTariff
  <2> HIDE DEF found
  <2> QED
    BY <1>1, <2>1, LeastIndex
<1>3. e \in DOMAIN tariff.elements /\ Prices(tariff.elements[e], dimension) # {}
  BY <1>2
<1> HIDE DEF e
<1> DEFINE list == tariff.elements[e].price_components
<1>4. IsList(list) /\ \A i \in DOMAIN list : IsComponent(list[i])
  BY <1>3 DEF IsTariff
<1>5. c \in DOMAIN list
  <2>1. Prices(tariff.elements[e], dimension) \in SUBSET (DOMAIN list)
    BY DEF Prices
  <2> HIDE DEF list
  <2>2. c \in Prices(tariff.elements[e], dimension)
    BY <1>3, <1>4, <2>1, LeastIndex
  <2> QED
    BY <2>1, <2>2
<1>6. Component(tariff, <<e, c>>) = list[c]
  BY DEF Component
<1> HIDE DEF c, list
<1> QED
  BY <1>1, <1>4, <1>5, <1>6

(* A period leaves the segments priced: what it adds is a quantity at the   *)
(* rate of a component of the session's.                                   *)
LEMMA TariffIs ==
    ASSUME session \in Sessions, NEW kind, TariffOf(kind) # None
    PROVE  IsTariff(TariffOf(kind))
<1>1. IsList(session.tariffs) /\ \A i \in DOMAIN session.tariffs : IsTariff(session.tariffs[i])
  BY PricingAssumption
<1> DEFINE tariffs == session.tariffs
<1>2. \E i \in DOMAIN tariffs :
         SelectTariff(tariffs, session.wanted, kind.tariff_id, clock) = tariffs[i]
  <2> HIDE DEF tariffs
  <2>1. IsList(tariffs)
    BY <1>1 DEF tariffs
  <2>2. SelectTariff(tariffs, session.wanted, kind.tariff_id, clock) # None
    BY DEF TariffOf, tariffs
  <2> QED
    BY <2>1, <2>2, SelectedIs
<1> QED
  BY <1>1, <1>2 DEF TariffOf

LEMMA QuantitiesAre ==
    ASSUME NEW kind \in Kinds, NEW length \in 1..MaxLength
    PROVE  \A i \in 1..4 : Parts(kind, length)[i].quantity \in Int
<1>1. PICK p \in Periods : kind = PeriodFrom(p)
  BY DEF Kinds
<1>2. \A t \in DOMAIN p.dimensions : p.dimensions[t] \in Int
  BY PricingAssumption
<1>3. length \in Int
  BY PricingAssumption
<1>4. kind.energy \in Int /\ kind.charging \in Int /\ kind.parking \in Int /\ kind.reserved \in Int
  <2> DEFINE volume(t) == IF t \in DOMAIN p.dimensions THEN p.dimensions[t] ELSE 0
  <2>1. volume("ENERGY") \in Int /\ volume("TIME") \in Int /\ volume("PARKING_TIME") \in Int
        /\ volume("RESERVATION_TIME") \in Int /\ volume("RESERVATION_EXPIRES") \in Int
    BY <1>2
  <2>2. /\ kind.energy = volume("ENERGY") /\ kind.charging = volume("TIME")
        /\ kind.parking = volume("PARKING_TIME")
        /\ kind.reserved = volume("RESERVATION_TIME") + volume("RESERVATION_EXPIRES")
    BY <1>1 DEF PeriodFrom
  <2> HIDE DEF volume
  <2> QED
    BY <2>1, <2>2
<1>5. \A v \in Int : v * length \in Int
  BY <1>3
<1> QED
  BY <1>4, <1>5 DEF Parts

LEMMA PeriodIsPriced ==
    ASSUME session \in Sessions, AreSegments(segments),
           NEW kind \in Kinds, NEW length \in 1..MaxLength, PricePeriod(kind, length)
    PROVE  AreSegments(segments')
<1> DEFINE tariff == TariffOf(kind)
           part == Parts(kind, length)
           segmentOf(q) ==
               IF q \in Priced(tariff, kind, length)
               THEN <<Segment(tariff, FindComponent(tariff, q.dimension, AtStart(kind, q.reserving)), q)>>
               ELSE <<>>
           start == ChargesFlat(FlatAtStart(tariff, kind))
           flat == IF start THEN <<FlatSegment(tariff, kind)>> ELSE <<>>
<1>1. IsTariff(tariff)
  BY TariffIs DEF PricePeriod
<1>2. ASSUME NEW found, NEW q, IsComponent(Component(tariff, found)), q.quantity \in Int
      PROVE  IsSegment(Segment(tariff, found, q))
  BY <1>2 DEF Segment, IsSegment, IsComponent
<1>3. ASSUME NEW i \in 1..4 PROVE AreSegments(segmentOf(part[i]))
  <2> DEFINE q == part[i]
             found == FindComponent(tariff, q.dimension, AtStart(kind, q.reserving))
  <2>1. CASE q \in Priced(tariff, kind, length)
    <3>1. found # None
      BY <2>1 DEF Priced
    <3>2. IsComponent(Component(tariff, found))
      <4> HIDE DEF q, tariff
      <4> QED
        BY <1>1, <3>1, FoundIs
    <3>3. q.quantity \in Int
      BY QuantitiesAre
    <3>4. IsSegment(Segment(tariff, found, q))
      <4> HIDE DEF q, tariff, found
      <4> QED
        BY <1>2, <3>2, <3>3
    <3>5. segmentOf(q) = <<Segment(tariff, found, q)>>
      BY <2>1
    <3> HIDE DEF segmentOf, q, found, tariff
    <3>6. AreSegments(<<Segment(tariff, found, q)>>)
      BY <3>4, SegmentsJoin
    <3> QED
      BY <3>5, <3>6 DEF q
  <2>2. CASE q \notin Priced(tariff, kind, length)
    <3>1. segmentOf(q) = <<>>
      BY <2>2
    <3> HIDE DEF segmentOf, q
    <3>2. AreSegments(<<>>)
      BY SegmentsJoin
    <3> QED
      BY <3>1, <3>2 DEF q
  <2> QED
    BY <2>1, <2>2
<1>4. AreSegments(flat)
  <2> DEFINE found == FlatAtStart(tariff, kind)
  <2>1. CASE start
    <3>1. found # None
      BY <2>1 DEF ChargesFlat
    <3>2. \/ found = FindComponent(tariff, "FLAT", AtStart(kind, FALSE))
          \/ found = FindComponent(tariff, "FLAT", AtStart(kind, TRUE))
      BY DEF FlatAtStart, FlatFound
    <3>3. IsComponent(Component(tariff, found))
      <4> HIDE DEF found, tariff
      <4> QED
        BY <1>1, <3>1, <3>2, FoundIs
    <3>4. PICK q : q.quantity = 1 /\ FlatSegment(tariff, kind)
                                        = [Segment(tariff, found, q) EXCEPT !.step_size = 0]
      <4> DEFINE q == [dimension |-> "FLAT", quantity |-> 1,
                       reserving |-> FindComponent(tariff, "FLAT", AtStart(kind, FALSE)) = None]
      <4>1. FlatSegment(tariff, kind) = [Segment(tariff, found, q) EXCEPT !.step_size = 0]
        BY DEF FlatSegment
      <4>2. q.quantity = 1
        OBVIOUS
      <4> HIDE DEF q, found, tariff
      <4> QED
        BY <4>1, <4>2
    <3>5. IsSegment(FlatSegment(tariff, kind))
      <4> HIDE DEF found, tariff
      <4>1. IsSegment(Segment(tariff, found, q))
        BY <1>2, <3>3, <3>4
      <4> QED
        BY <3>4, <4>1 DEF IsSegment, Segment
    <3>6. flat = <<FlatSegment(tariff, kind)>>
      BY <2>1
    <3> HIDE DEF flat, tariff
    <3>7. AreSegments(<<FlatSegment(tariff, kind)>>)
      BY <3>5, SegmentsJoin
    <3> QED
      BY <3>6, <3>7
  <2>2. CASE ~start
    <3>1. flat = <<>>
      BY <2>2
    <3> HIDE DEF flat
    <3>2. AreSegments(<<>>)
      BY SegmentsJoin
    <3> QED
      BY <3>1, <3>2
  <2> QED
    BY <2>1, <2>2
<1>5. segments' = segments \o segmentOf(part[1]) \o segmentOf(part[2]) \o segmentOf(part[3])
                           \o segmentOf(part[4]) \o flat
  BY DEF PricePeriod
<1> HIDE DEF segmentOf, flat, part
<1>6. /\ AreSegments(segmentOf(part[1])) /\ AreSegments(segmentOf(part[2]))
      /\ AreSegments(segmentOf(part[3])) /\ AreSegments(segmentOf(part[4]))
  BY <1>3
<1> DEFINE one == segments \o segmentOf(part[1])
           two == one \o segmentOf(part[2])
           three == two \o segmentOf(part[3])
           four == three \o segmentOf(part[4])
<1>7. AreSegments(one)
  BY <1>6, SegmentsJoin
<1>8. AreSegments(two)
  <2> HIDE DEF one
  <2> QED
    BY <1>6, <1>7, SegmentsJoin
<1>9. AreSegments(three)
  <2> HIDE DEF two
  <2> QED
    BY <1>6, <1>8, SegmentsJoin
<1>10. AreSegments(four)
  <2> HIDE DEF three
  <2> QED
    BY <1>6, <1>9, SegmentsJoin
<1>11. segments' = four \o flat
  BY <1>5
<1> HIDE DEF four
<1>12. AreSegments(four \o flat)
  BY <1>4, <1>10, SegmentsJoin
<1> QED
  BY <1>11, <1>12

-----------------------------------------------------------------------------
(* Amounts: whole numbers of units, as long as every segment has a price.   *)

LEMMA IntSums ==
    ASSUME NEW D, IsFiniteSet(D), NEW f \in [D -> Int]
    PROVE  SumOf(f) \in Int
<1>1. 0 \in Int /\ \A a, b \in Int : a + b \in Int
  OBVIOUS
<1> QED
  BY <1>1, SumIn

LEMMA SurplusIs ==
    ASSUME AreSegments(segments), NEW d
    PROVE  Surplus(d) \in Int
<1>1. IsFiniteSet(DOMAIN segments) /\ DOMAIN segments \in SUBSET Int
      /\ \A i \in DOMAIN segments : IsSegment(segments[i])
  BY SegmentsAre
<1>2. IsFiniteSet(Of(d)) /\ Of(d) \in SUBSET (DOMAIN segments)
  BY <1>1, FS_Subset DEF Of
<1>3. Measured(d) \in Int
  <2>1. [i \in Of(d) |-> segments[i].quantity] \in [Of(d) -> Int]
    BY <1>1, <1>2 DEF IsSegment
  <2> QED
    BY <1>2, <2>1, IntSums DEF Measured, Total
<1>4. CASE Of(d) # {} /\ IsQuantised(d)
  <2> DEFINE step == segments[Greatest(Of(d))].step_size
  <2>1. Of(d) \in SUBSET Int
    BY <1>1, <1>2
  <2>2. Greatest(Of(d)) \in Of(d)
    BY <1>2, <1>4, <2>1, GreatestIs
  <2>3. step \in Nat
    BY <1>1, <1>2, <2>2 DEF IsSegment
  <2> HIDE DEF step
  <2>4. Quantised(Measured(d), step) \in Int
    BY <1>3, <2>3 DEF Quantised
  <2>5. Surplus(d) = Quantised(Measured(d), step) - Measured(d)
    BY <1>4 DEF Surplus, step
  <2> QED
    BY <1>3, <2>4, <2>5
<1>5. CASE ~(Of(d) # {} /\ IsQuantised(d))
  BY <1>5 DEF Surplus
<1> QED
  BY <1>4, <1>5

LEMMA RoundedInt ==
    ASSUME NEW a \in Int, NEW b \in Int, b # 0
    PROVE  Rounded(a, b, 1) \in Int
<1>1. PICK k \in Int : Rounded(a, b, 1) = 1 * k
  BY RoundedIs
<1> QED
  BY <1>1

LEMMA NetAndTaxAre ==
    ASSUME NEW stated \in Int, NEW vat \in Int \cup {None}, NEW basis
    PROVE  Net(stated, vat, basis) \in Int /\ Tax(stated, vat, basis) \in Int
<1>1. Net(stated, vat, basis) \in Int
  <2>1. CASE basis = "INCLUDED" /\ vat \notin {None, -100}
    <3>1. 100 * stated \in Int /\ 100 + vat \in Int /\ 100 + vat # 0
      BY <2>1
    <3>2. Rounded(100 * stated, 100 + vat, 1) \in Int
      BY <3>1, RoundedInt
    <3> QED
      BY <2>1, <3>2 DEF Net
  <2>2. CASE ~(basis = "INCLUDED" /\ vat \notin {None, -100})
    BY <2>2 DEF Net
  <2> QED
    BY <2>1, <2>2
<1>2. CASE vat = None \/ basis = "NOT_APPLICABLE"
  BY <1>1, <1>2 DEF Tax
<1>3. CASE ~(vat = None \/ basis = "NOT_APPLICABLE")
  <2>1. stated * vat \in Int /\ stated - Net(stated, vat, basis) \in Int
    BY <1>1, <1>3
  <2>2. Rounded(stated * vat, 100, 1) \in Int
    BY <2>1, RoundedInt
  <2>3. \/ Tax(stated, vat, basis) = stated - Net(stated, vat, basis)
        \/ Tax(stated, vat, basis) = Rounded(stated * vat, 100, 1)
    BY <1>3 DEF Tax
  <2> QED
    BY <1>1, <2>1, <2>2, <2>3
<1> QED
  BY <1>1, <1>2, <1>3

LEMMA CostsAre ==
    ASSUME AreSegments(segments), NEW i \in DOMAIN segments
    PROVE  Cost(i) \in Int /\ TaxOf(i) \in Int
<1>1. IsSegment(segments[i])
  BY SegmentsAre
<1>2. Surplus(segments[i].dimension) \in Int
  BY SurplusIs
<1>3. Billed(i) \in Int
  BY <1>1, <1>2 DEF Billed, IsSegment
<1>4. Stated(i) \in Int
  BY <1>1, <1>3 DEF Stated, IsSegment
<1>5. segments[i].vat \in Int \cup {None}
  BY <1>1 DEF IsSegment
<1> QED
  BY <1>4, <1>5, NetAndTaxAre DEF Cost, TaxOf

LEMMA RawAre ==
    ASSUME AreSegments(segments)
    PROVE  RawExcl \in Int /\ RawVat \in Int
<1>1. IsFiniteSet(DOMAIN segments)
  BY SegmentsAre
<1>2. [i \in DOMAIN segments |-> Cost(i)] \in [DOMAIN segments -> Int]
  BY CostsAre
<1>3. [i \in DOMAIN segments |-> TaxOf(i)] \in [DOMAIN segments -> Int]
  BY CostsAre
<1> QED
  BY <1>1, <1>2, <1>3, IntSums DEF RawExcl, RawVat, Total

(* The lines of tax: of some percentages, and of an amount each.            *)
LEMMA LinesAre ==
    ASSUME AreSegments(segments)
    PROVE  /\ DOMAIN RawLines \in SUBSET Int /\ IsFiniteSet(DOMAIN RawLines)
           /\ \A p \in DOMAIN RawLines : RawLines[p].amount \in Int
<1> DEFINE taxed == {i \in DOMAIN segments :
                        TaxOf(i) # 0 \/ (segments[i].vat # None /\ segments[i].basis # "NOT_APPLICABLE")}
           of(p) == {i \in taxed : segments[i].vat = p}
           rates == {segments[i].vat : i \in taxed}
<1>1. DOMAIN RawLines = rates
  BY DEF RawLines
<1>2. \A p \in rates : RawLines[p].amount = Total(of(p), LAMBDA i : TaxOf(i))
  BY DEF RawLines
<1>3. IsFiniteSet(taxed) /\ taxed \in SUBSET (DOMAIN segments)
  BY SegmentsAre, FS_Subset
<1>4. ASSUME NEW i \in taxed PROVE segments[i].vat \in Int
  <2>1. IsSegment(segments[i])
    BY SegmentsAre
  <2>2. segments[i].vat # None
    BY DEF TaxOf, Tax
  <2> QED
    BY <2>1, <2>2 DEF IsSegment
<1> HIDE DEF taxed
<1>5. IsFiniteSet(rates)
  <2> DEFINE g == [i \in taxed |-> segments[i].vat]
  <2>1. g \in Surjection(taxed, rates)
    BY DEF Surjection
  <2> HIDE DEF g, rates
  <2> QED
    BY <1>3, <2>1, FS_Surjection
<1>6. ASSUME NEW p \in rates PROVE Total(of(p), LAMBDA i : TaxOf(i)) \in Int
  <2>1. IsFiniteSet(of(p))
    BY <1>3, FS_Subset
  <2>2. [i \in of(p) |-> TaxOf(i)] \in [of(p) -> Int]
    BY <1>3, CostsAre
  <2> HIDE DEF of
  <2> QED
    BY <2>1, <2>2, IntSums DEF Total
<1> QED
  BY <1>1, <1>2, <1>4, <1>5, <1>6

-----------------------------------------------------------------------------
(* The totals after the limits. *)

LEMMA LimitedIs ==
    ASSUME NEW totals, InCents(totals.excl), InCents(totals.incl),
           NEW limit, IsLimit(limit), NEW name
    PROVE  InCents(Limited(totals, limit, name).excl) /\ InCents(Limited(totals, limit, name).incl)
<1> DEFINE beyond(total, bound) == IF name = "Minimum" THEN total < bound ELSE total > bound
           hitsExcl == limit # None /\ beyond(totals.excl, limit.before_taxes)
           hitsIncl == limit # None /\ limit.after_taxes # None /\ beyond(totals.incl, limit.after_taxes)
<1>1. /\ Limited(totals, limit, name).excl
             = IF hitsExcl THEN RoundCurrency(limit.before_taxes) ELSE totals.excl
      /\ Limited(totals, limit, name).incl
             = IF hitsIncl THEN RoundCurrency(limit.after_taxes) ELSE totals.incl
  BY DEF Limited
<1>2. \A x \in Int : InCents(RoundCurrency(x))
  BY RoundsToCents DEF RoundCurrency
<1>3. limit # None => limit.before_taxes \in Int /\ (limit.after_taxes # None => limit.after_taxes \in Int)
  BY DEF IsLimit
<1>4. (hitsExcl => limit # None) /\ (hitsIncl => limit # None /\ limit.after_taxes # None)
  OBVIOUS
<1> HIDE DEF hitsExcl, hitsIncl
<1>5. InCents(Limited(totals, limit, name).excl)
  BY <1>1, <1>2, <1>3, <1>4
<1>6. InCents(Limited(totals, limit, name).incl)
  BY <1>1, <1>2, <1>3, <1>4
<1> QED
  BY <1>5, <1>6

LEMMA GreaterIs ==
    ASSUME NEW x, NEW y, InCents(x), InCents(y)
    PROVE  /\ InCents(Greatest({x, y}))
           /\ Greatest({x, y}) \in {x, y} /\ Greatest({x, y}) >= x /\ Greatest({x, y}) >= y
<1>1. x \in Int /\ y \in Int
  BY DEF InCents
<1>2. {x, y} \in SUBSET Int /\ {x, y} # {}
  BY <1>1
<1>3. IsFiniteSet({x, y})
  <2>1. IsFiniteSet({x})
    BY FS_Singleton
  <2>2. IsFiniteSet({x} \cup {y})
    BY <2>1, FS_AddElement
  <2>3. {x} \cup {y} = {x, y}
    OBVIOUS
  <2> QED
    BY <2>2, <2>3
<1> DEFINE S == {x, y}
<1>4. Greatest(S) \in S /\ \A z \in S : Greatest(S) >= z
  <2> HIDE DEF S
  <2> QED
    BY <1>2, <1>3, GreatestIs DEF S
<1> QED
  BY <1>4

(* The totals are whole cents, and tax is never negative.                   *)
Unlimited == [excl |-> RoundCurrency(RawExcl), incl |-> RoundCurrency(RawExcl + RawVat), limit |-> None]
Raised(tariff) == Limited(Unlimited, tariff.min_price, "Minimum")
Held(tariff) == Limited(Raised(tariff), tariff.max_price, "Maximum")
Moves(tariff) ==
    /\ Held(tariff).limit # None
    /\ (IF Held(tariff).limit = "Minimum" THEN tariff.min_price ELSE tariff.max_price).after_taxes = None

LEMMA ClampedIs ==
    ASSUME AreSegments(segments), NEW tariff, IsTariff(tariff)
    PROVE  /\ InCents(Unlimited.excl) /\ InCents(Unlimited.incl)
           /\ InCents(Raised(tariff).excl) /\ InCents(Raised(tariff).incl)
           /\ InCents(Held(tariff).excl) /\ InCents(Held(tariff).incl)
           /\ InCents(Clamped(tariff).excl) /\ InCents(Clamped(tariff).incl)
           /\ Clamped(tariff).incl >= Clamped(tariff).excl
           /\ Clamped(tariff).excl = Held(tariff).excl /\ Clamped(tariff).limit = Held(tariff).limit
           /\ ~Moves(tariff) => Clamped(tariff).incl = Greatest({Held(tariff).incl, Held(tariff).excl})
<1> DEFINE held == Held(tariff)
           bound == IF held.limit = "Minimum" THEN tariff.min_price ELSE tariff.max_price
           scaled == IF RawExcl = 0 THEN held.excl
                     ELSE Rounded((RawExcl + RawVat) * held.excl, RawExcl, Cent)
           incl == IF held.limit # None /\ bound.after_taxes = None THEN scaled ELSE held.incl
<1>1. RawExcl \in Int /\ RawVat \in Int
  BY RawAre
<1>2. InCents(Unlimited.excl) /\ InCents(Unlimited.incl)
  <2>1. InCents(RoundCurrency(RawExcl)) /\ InCents(RoundCurrency(RawExcl + RawVat))
    BY <1>1, RoundsToCents DEF RoundCurrency
  <2> QED
    BY <2>1 DEF Unlimited
<1>3. IsLimit(tariff.min_price) /\ IsLimit(tariff.max_price)
  BY DEF IsTariff
<1>4. InCents(Raised(tariff).excl) /\ InCents(Raised(tariff).incl)
  BY <1>2, <1>3, LimitedIs DEF Raised
<1>5. InCents(held.excl) /\ InCents(held.incl)
  BY <1>3, <1>4, LimitedIs DEF Held
<1>6. Clamped(tariff) = [held EXCEPT !.incl = Greatest({incl, held.excl})]
  BY DEF Clamped, Held, Raised, Unlimited
<1>7. held = [excl |-> held.excl, incl |-> held.incl, limit |-> held.limit]
  BY DEF Held, Limited
<1>8. InCents(scaled)
  <2>1. held.excl \in Int
    BY <1>5 DEF InCents
  <2> HIDE DEF held
  <2>2. (RawExcl + RawVat) * held.excl \in Int
    BY <1>1, <2>1
  <2>3. RawExcl # 0 => InCents(Rounded((RawExcl + RawVat) * held.excl, RawExcl, Cent))
    BY <1>1, <2>2, RoundsToCents
  <2> QED
    BY <1>5, <2>3
<1>9. Moves(tariff) <=> held.limit # None /\ bound.after_taxes = None
  BY DEF Moves
<1> HIDE DEF held, scaled, bound
<1>10. InCents(incl) /\ (~Moves(tariff) => incl = held.incl)
  BY <1>5, <1>8, <1>9
<1> HIDE DEF incl
<1> DEFINE top == Greatest({incl, held.excl})
<1>11. InCents(top) /\ top >= held.excl
  BY <1>5, <1>10, GreaterIs
<1>12. Clamped(tariff).excl = held.excl /\ Clamped(tariff).limit = held.limit /\ Clamped(tariff).incl = top
  <2>1. Clamped(tariff) = [held EXCEPT !.incl = top]
    BY <1>6
  <2> HIDE DEF top
  <2> QED
    BY <1>7, <2>1
<1>13. ~Moves(tariff) => top = Greatest({held.incl, held.excl})
  BY <1>10
<1> HIDE DEF top
<1> QED
  BY <1>2, <1>4, <1>5, <1>11, <1>12, <1>13 DEF held

-----------------------------------------------------------------------------
(* The lines as they are published come to what the totals differ by.       *)

LEMMA LinesComeTo ==
    ASSUME NEW lines, DOMAIN lines \in SUBSET Int, IsFiniteSet(DOMAIN lines),
           \A p \in DOMAIN lines : lines[p].amount \in Int,
           NEW totals, InCents(totals.excl), InCents(totals.incl)
    PROVE  LET taxes == PresentTaxes(lines, totals)
           IN  /\ \A p \in DOMAIN taxes : InCents(taxes[p].amount)
               /\ SumOf([p \in DOMAIN taxes |-> taxes[p].amount]) = totals.incl - totals.excl
<1> DEFINE owed == totals.incl - totals.excl
           current == Total(DOMAIN lines, LAMBDA p : lines[p].amount)
           last == Greatest(DOMAIN lines)
           share(p) == Rounded(lines[p].amount * owed, current, Cent)
           rest == Total(DOMAIN lines \ {last}, LAMBDA o : share(o))
           amount(p) == IF current = 0 THEN 0 ELSE IF p # last THEN share(p) ELSE owed - rest
           taxes == PresentTaxes(lines, totals)
           f == [p \in DOMAIN taxes |-> taxes[p].amount]
           E == DOMAIN lines \ {last}
<1>1. InCents(owed)
  BY CentsAdd
<1>2. current \in Int
  <2>1. [p \in DOMAIN lines |-> lines[p].amount] \in [DOMAIN lines -> Int]
    OBVIOUS
  <2> QED
    BY <2>1, IntSums DEF Total
<1>3. CASE current = 0 /\ owed # 0
  <2>1. taxes = [p \in {None} |-> [taxable |-> totals.excl, amount |-> owed]]
    BY <1>3 DEF PresentTaxes
  <2>2. DOMAIN taxes = {None} /\ taxes[None].amount = owed
    BY <2>1
  <2>3. f \in [{None} -> Int] /\ f[None] = owed
    BY <1>1, <2>2 DEF InCents
  <2>4. SumOf(f) = owed
    <3> HIDE DEF f, owed
    <3>1. IsFiniteSet({None})
      BY FS_Singleton
    <3>2. SumOf(f) = f[None] + SumOf([y \in {None} \ {None} |-> f[y]])
      BY <2>3, <3>1, SumTakes
    <3>3. SumOf([y \in {None} \ {None} |-> f[y]]) \in {0}
      <4> DEFINE g == [y \in {None} \ {None} |-> f[y]]
      <4>1. g \in [{} -> {0}] /\ IsFiniteSet({})
        BY FS_EmptySet
      <4>2. 0 \in {0} /\ \A a, b \in {0} : a + b \in {0}
        OBVIOUS
      <4> HIDE DEF g
      <4>3. SumOf(g) \in {0}
        BY <4>1, <4>2, SumIn
      <4> QED
        BY <4>3 DEF g
    <3>4. owed \in Int
      BY <1>1 DEF InCents
    <3> QED
      BY <2>3, <3>2, <3>3, <3>4
  <2> QED
    BY <1>1, <2>2, <2>4
<1>4. CASE ~(current = 0 /\ owed # 0)
  <2>1. DOMAIN taxes = DOMAIN lines /\ \A p \in DOMAIN lines : taxes[p].amount = amount(p)
    BY <1>4 DEF PresentTaxes
  <2>2. CASE current = 0
    <3>1. owed = 0 /\ f \in [DOMAIN lines -> {0}]
      BY <1>4, <2>1, <2>2
    <3>2. 0 \in {0} /\ \A a, b \in {0} : a + b \in {0}
      OBVIOUS
    <3>3. SumOf(f) \in {0}
      <4> HIDE DEF f
      <4> QED
        BY <3>1, <3>2, SumIn
    <3>4. \A p \in DOMAIN lines : taxes[p].amount = 0
      BY <2>1, <2>2
    <3> HIDE DEF f, taxes
    <3>5. \A p \in DOMAIN taxes : InCents(taxes[p].amount)
      BY <2>1, <3>4, CentsAdd
    <3> QED
      BY <3>1, <3>3, <3>5 DEF f, taxes
  <2>3. CASE current # 0
    <3>1. DOMAIN lines # {}
      <4> SUFFICES ASSUME DOMAIN lines = {} PROVE FALSE
        OBVIOUS
      <4> DEFINE g == [p \in DOMAIN lines |-> lines[p].amount]
      <4>1. g \in [DOMAIN lines -> {0}]
        OBVIOUS
      <4>2. 0 \in {0} /\ \A a, b \in {0} : a + b \in {0}
        OBVIOUS
      <4>3. current = SumOf(g)
        BY DEF Total
      <4> HIDE DEF g, current
      <4>4. SumOf(g) \in {0}
        BY <4>1, <4>2, SumIn
      <4> QED
        BY <2>3, <4>3, <4>4
    <3>2. last \in DOMAIN lines
      BY <3>1, GreatestIs
    <3>3. \A p \in E : InCents(share(p))
      <4> SUFFICES ASSUME NEW p \in E PROVE InCents(share(p))
        OBVIOUS
      <4> HIDE DEF current, owed
      <4>1. lines[p].amount * owed \in Int
        BY <1>1 DEF InCents
      <4> QED
        BY <1>2, <2>3, <4>1, RoundsToCents
    <3> DEFINE h == [o \in E |-> share(o)]
    <3>4. rest = SumOf(h)
      BY DEF Total
    <3>5. IsFiniteSet(E)
      BY FS_Subset
    <3> HIDE DEF share, last, current, rest
    <3>6. InCents(rest)
      <4> DEFINE V == {v \in Int : InCents(v)}
      <4>1. h \in [E -> V]
        BY <3>3 DEF InCents
      <4>2. 0 \in V
        BY CentsAdd
      <4>3. ASSUME NEW a \in V, NEW b \in V PROVE a + b \in V
        BY CentsAdd
      <4> HIDE DEF h, V, E
      <4>4. SumOf(h) \in V
        BY <3>5, <4>1, <4>2, <4>3, SumIn
      <4> QED
        BY <3>4, <4>4 DEF V
    <3>7. \A p \in E : f[p] = share(p)
      BY <2>1, <2>3
    <3>8. f[last] = owed - rest
      BY <2>1, <2>3, <3>2
    <3>9. InCents(owed - rest)
      <4> HIDE DEF owed
      <4> QED
        BY <1>1, <3>6, CentsAdd
    <3> HIDE DEF owed
    <3>10. \A p \in DOMAIN lines : f[p] = taxes[p].amount /\ InCents(f[p])
      BY <2>1, <3>3, <3>7, <3>8, <3>9
    <3>11. f \in [DOMAIN lines -> Int]
      BY <2>1, <3>10 DEF InCents
    <3>12. h \in [E -> Int] /\ \A p \in E : h[p] = f[p]
      BY <3>3, <3>7 DEF InCents
    <3> HIDE DEF f, h, taxes
    <3>13. SumOf(f) = f[last] + SumOf(h)
      <4> DEFINE D == DOMAIN lines
      <4>1. IsFiniteSet(D)
        OBVIOUS
      <4>2. f \in [D -> Int]
        BY <3>11
      <4>3. last \in D
        BY <3>2
      <4>4. h \in [D \ {last} -> Int]
        BY <3>12
      <4>5. \A y \in D \ {last} : h[y] = f[y]
        BY <3>12
      <4> HIDE DEF D
      <4> QED
        BY ONLY <4>1, <4>2, <4>3, <4>4, <4>5, SumSplits
    <3>14. SumOf(f) = (owed - rest) + rest
      BY <3>4, <3>8, <3>13
    <3>15. SumOf(f) = owed
      BY <1>1, <3>6, <3>14 DEF InCents
    <3>16. DOMAIN taxes = DOMAIN lines
      BY <2>1
    <3>17. \A p \in DOMAIN taxes : InCents(taxes[p].amount)
      BY <3>10, <3>16
    <3> QED
      BY <3>15, <3>17 DEF f, taxes, owed
  <2> QED
    BY <2>2, <2>3
<1> QED
  BY <1>3, <1>4

-----------------------------------------------------------------------------
(* The limits. *)

(* Rounding moves an amount by half a cent at most, and keeps the order.    *)
LEMMA RoundsNear ==
    ASSUME NEW x \in Int
    PROVE  /\ RoundCurrency(x) \in Int
           /\ 2 * x - Cent <= 2 * RoundCurrency(x) /\ 2 * RoundCurrency(x) <= 2 * x + Cent
<1>1. Cent \in Nat /\ Cent # 0
  BY PricingAssumption
<1> DEFINE d == 1 * Cent
<1>2. d = Cent /\ 2 * d \in Nat /\ 2 * d # 0
  BY <1>1
<1>3. CASE x >= 0
  <2> DEFINE k == (2 * x + d) \div (2 * d)
  <2>1. k \in Int /\ (2 * d) * k <= 2 * x + d /\ 2 * x + d < (2 * d) * k + 2 * d
    <3> DEFINE e == 2 * d
               n == 2 * x + d
    <3>1. e \in Nat /\ e # 0 /\ n \in Int
      BY <1>1, <1>2
    <3> HIDE DEF e, n
    <3>2. n \div e \in Int /\ e * (n \div e) <= n /\ n < e * (n \div e) + e
      BY <3>1
    <3> QED
      BY <3>2 DEF e, n
  <2>2. RoundCurrency(x) = Cent * k
    BY <1>3 DEF RoundCurrency, Rounded
  <2> HIDE DEF k
  <2>3. (2 * d) * k = 2 * (Cent * k) /\ Cent * k \in Int
    BY <1>1, <1>2, <2>1
  <2> QED
    BY <1>1, <1>2, <2>1, <2>2, <2>3
<1>4. CASE ~(x >= 0)
  <2> DEFINE k == (d - 2 * x) \div (2 * d)
  <2>1. k \in Int /\ (2 * d) * k <= d - 2 * x /\ d - 2 * x < (2 * d) * k + 2 * d
    <3> DEFINE e == 2 * d
               n == d - 2 * x
    <3>1. e \in Nat /\ e # 0 /\ n \in Int
      BY <1>1, <1>2
    <3> HIDE DEF e, n
    <3>2. n \div e \in Int /\ e * (n \div e) <= n /\ n < e * (n \div e) + e
      BY <3>1
    <3> QED
      BY <3>2 DEF e, n
  <2>2. RoundCurrency(x) = Cent * (-k)
    BY <1>4 DEF RoundCurrency, Rounded
  <2> HIDE DEF k
  <2>3. (2 * d) * k = -(2 * (Cent * (-k))) /\ Cent * (-k) \in Int
    BY <1>1, <1>2, <2>1
  <2> QED
    BY <1>1, <1>2, <2>1, <2>2, <2>3
<1> QED
  BY <1>3, <1>4

LEMMA RoundsInOrder ==
    ASSUME NEW x \in Int, NEW y \in Int, x <= y
    PROVE  RoundCurrency(x) <= RoundCurrency(y)
<1> DEFINE r == RoundCurrency(x)
           q == RoundCurrency(y)
<1>1. Cent \in Nat /\ Cent # 0
  BY PricingAssumption
<1>2. r \in Int /\ q \in Int /\ 2 * r <= 2 * x + Cent /\ 2 * y - Cent <= 2 * q
  BY RoundsNear
<1>3. InCents(r) /\ InCents(q)
  BY RoundsToCents DEF RoundCurrency
<1>4. x = y => r = q
  OBVIOUS
<1> HIDE DEF r, q
<1>5. ASSUME r > q PROVE FALSE
  <2>1. PICK k \in Int : r = Cent * k
    BY <1>3 DEF InCents
  <2>2. PICK l \in Int : q = Cent * l
    BY <1>3 DEF InCents
  <2>3. k > l
    <3>1. CASE k - l <= 0
      <4>1. Cent * (l - k) >= 0
        <5>1. l - k \in Nat
          BY <3>1
        <5> HIDE DEF r, q
        <5> QED
          BY <1>1, <5>1
      <4>2. Cent * (l - k) = Cent * l - Cent * k
        BY <1>1
      <4> QED
        BY <1>2, <1>5, <2>1, <2>2, <4>1, <4>2
    <3> QED
      BY <3>1
  <2>4. Cent * (k - l) >= Cent
    BY <1>1, <2>3, AtLeastOnce
  <2>5. Cent * (k - l) = r - q
    BY <1>1, <2>1, <2>2
  <2>6. x = y
    BY <1>1, <1>2, <2>4, <2>5
  <2> QED
    BY <1>2, <1>4, <1>5, <2>6
<1> QED
  BY <1>2, <1>5 DEF r, q

(* One total after one limit: never less, or more, than the rounded limit.  *)
Lift(t, min) == IF t < min THEN RoundCurrency(min) ELSE t
Hold(t, max) == IF t > max THEN RoundCurrency(max) ELSE t

LEMMA LiftedIs ==
    ASSUME NEW t, InCents(t), NEW a \in Int
    PROVE  Lift(t, a) >= RoundCurrency(a)
<1>1. t \in Int /\ RoundCurrency(t) = t
  BY CentsStay DEF InCents
<1>2. RoundCurrency(a) \in Int
  BY RoundsNear
<1>3. a <= t => RoundCurrency(a) <= RoundCurrency(t)
  BY <1>1, RoundsInOrder
<1> QED
  BY <1>1, <1>2, <1>3 DEF Lift

LEMMA HeldBack ==
    ASSUME NEW t, InCents(t), NEW a \in Int
    PROVE  /\ Hold(t, a) <= RoundCurrency(a)
           /\ \A b \in Int : b <= a /\ RoundCurrency(b) <= t => RoundCurrency(b) <= Hold(t, a)
<1>1. t \in Int /\ RoundCurrency(t) = t
  BY CentsStay DEF InCents
<1>2. RoundCurrency(a) \in Int
  BY RoundsNear
<1>3. t <= a => RoundCurrency(t) <= RoundCurrency(a)
  BY <1>1, RoundsInOrder
<1>4. \A b \in Int : b <= a => RoundCurrency(b) <= RoundCurrency(a)
  BY RoundsInOrder
<1> QED
  BY <1>1, <1>2, <1>3, <1>4 DEF Hold

LEMMA LimitKept ==
    ASSUME NEW totals, NEW limit, IsLimit(limit), limit # None, NEW name
    PROVE  LET left == Limited(totals, limit, name)
               moved(t, bound) == IF name = "Minimum" THEN Lift(t, bound) ELSE Hold(t, bound)
           IN  /\ left.excl = moved(totals.excl, limit.before_taxes)
               /\ left.incl = IF limit.after_taxes # None THEN moved(totals.incl, limit.after_taxes)
                              ELSE totals.incl
  BY DEF Limited, Lift, Hold

LEMMA RaisedIs ==
    ASSUME AreSegments(segments), NEW tariff, IsTariff(tariff)
    PROVE  LET min == tariff.min_price
               raised == Raised(tariff)
           IN  /\ raised.excl = IF min = None THEN Unlimited.excl ELSE Lift(Unlimited.excl, min.before_taxes)
               /\ raised.incl = IF min = None \/ min.after_taxes = None THEN Unlimited.incl
                                ELSE Lift(Unlimited.incl, min.after_taxes)
<1> DEFINE min == tariff.min_price
<1>1. IsLimit(min)
  BY DEF IsTariff
<1>2. CASE min = None
  BY <1>2 DEF Raised, Limited
<1>3. CASE min # None
  <2> HIDE DEF min
  <2>1. /\ Limited(Unlimited, min, "Minimum").excl = Lift(Unlimited.excl, min.before_taxes)
        /\ Limited(Unlimited, min, "Minimum").incl
              = IF min.after_taxes = None THEN Unlimited.incl ELSE Lift(Unlimited.incl, min.after_taxes)
    BY <1>1, <1>3, LimitKept
  <2> QED
    BY <1>3, <2>1 DEF Raised, min
<1> QED
  BY <1>2, <1>3

LEMMA HeldIs ==
    ASSUME AreSegments(segments), NEW tariff, IsTariff(tariff)
    PROVE  LET max == tariff.max_price
               raised == Raised(tariff)
               held == Held(tariff)
           IN  /\ held.excl = IF max = None THEN raised.excl ELSE Hold(raised.excl, max.before_taxes)
               /\ held.incl = IF max = None \/ max.after_taxes = None THEN raised.incl
                              ELSE Hold(raised.incl, max.after_taxes)
<1> DEFINE max == tariff.max_price
<1>1. IsLimit(max)
  BY DEF IsTariff
<1>2. CASE max = None
  BY <1>2 DEF Held, Limited
<1>3. CASE max # None
  <2> HIDE DEF max
  <2>1. /\ Limited(Raised(tariff), max, "Maximum").excl = Hold(Raised(tariff).excl, max.before_taxes)
        /\ Limited(Raised(tariff), max, "Maximum").incl
              = IF max.after_taxes = None THEN Raised(tariff).incl
                ELSE Hold(Raised(tariff).incl, max.after_taxes)
    BY <1>1, <1>3, LimitKept
  <2> QED
    BY <1>3, <2>1 DEF Held, max
<1> QED
  BY <1>2, <1>3

Keeps(tariff, totals) ==
    LET min == tariff.min_price
        max == tariff.max_price
        moved == /\ totals.limit # None
                 /\ (IF totals.limit = "Minimum" THEN min ELSE max).after_taxes = None
        cross(f) == max # None /\ max[f] # None /\ min[f] > max[f]
        above(total, f) == min # None /\ min[f] # None /\ ~cross(f) => total >= RoundCurrency(min[f])
        below(total, f) == max # None /\ max[f] # None => total <= RoundCurrency(max[f])
    IN  /\ above(totals.excl, "before_taxes") /\ below(totals.excl, "before_taxes")
        /\ moved \/ /\ above(totals.incl, "after_taxes")
                    /\ below(totals.incl, "after_taxes") \/ totals.incl = totals.excl

LEMMA ClampedKeeps ==
    ASSUME AreSegments(segments), NEW tariff, IsTariff(tariff)
    PROVE  Keeps(tariff, Clamped(tariff))
<1> DEFINE min == tariff.min_price
           max == tariff.max_price
           c == Clamped(tariff)
           excl == Unlimited.excl
           incl == Unlimited.incl
           raised == Raised(tariff)
           held == Held(tariff)
<1>1. /\ InCents(excl) /\ InCents(incl) /\ InCents(held.excl) /\ InCents(held.incl)
      /\ InCents(raised.excl) /\ InCents(raised.incl)
  BY ClampedIs
<1>2. c.excl = held.excl /\ c.limit = held.limit
      /\ (~Moves(tariff) => c.incl = Greatest({held.incl, held.excl}))
  BY ClampedIs
<1>3. /\ raised.excl = IF min = None THEN excl ELSE Lift(excl, min.before_taxes)
      /\ raised.incl = IF min = None \/ min.after_taxes = None THEN incl ELSE Lift(incl, min.after_taxes)
  BY RaisedIs
<1>4. /\ held.excl = IF max = None THEN raised.excl ELSE Hold(raised.excl, max.before_taxes)
      /\ held.incl = IF max = None \/ max.after_taxes = None THEN raised.incl
                     ELSE Hold(raised.incl, max.after_taxes)
  BY HeldIs
<1>5. IsLimit(min) /\ IsLimit(max)
  BY DEF IsTariff
<1>6. Moves(tariff) <=> /\ c.limit # None
                        /\ (IF c.limit = "Minimum" THEN min ELSE max).after_taxes = None
  BY <1>2 DEF Moves
<1>7. /\ min # None => min.before_taxes \in Int /\ (min.after_taxes # None => min.after_taxes \in Int)
      /\ max # None => max.before_taxes \in Int /\ (max.after_taxes # None => max.after_taxes \in Int)
  BY <1>5 DEF IsLimit
<1>8. \A x \in Int : RoundCurrency(x) \in Int
  BY RoundsNear
<1> HIDE DEF min, max, c, excl, incl, raised, held
<1> DEFINE cross(f) == max # None /\ max[f] # None /\ min[f] > max[f]
           above(total, f) == min # None /\ min[f] # None /\ ~cross(f) => total >= RoundCurrency(min[f])
           below(total, f) == max # None /\ max[f] # None => total <= RoundCurrency(max[f])
<1>9. above(c.excl, "before_taxes") /\ below(c.excl, "before_taxes")
  <2>1. below(c.excl, "before_taxes")
    <3> SUFFICES ASSUME max # None PROVE c.excl <= RoundCurrency(max.before_taxes)
      OBVIOUS
    <3>1. max.before_taxes \in Int
      BY <1>7
    <3>2. Hold(raised.excl, max.before_taxes) <= RoundCurrency(max.before_taxes)
      BY <1>1, <3>1, HeldBack
    <3> QED
      BY <1>2, <1>4, <3>2
  <2>2. above(c.excl, "before_taxes")
    <3> SUFFICES ASSUME min # None, ~cross("before_taxes") PROVE c.excl >= RoundCurrency(min.before_taxes)
      OBVIOUS
    <3>1. min.before_taxes \in Int /\ RoundCurrency(min.before_taxes) \in Int
      BY <1>7, <1>8
    <3>2. Lift(excl, min.before_taxes) >= RoundCurrency(min.before_taxes)
      BY <1>1, <3>1, LiftedIs
    <3>3. raised.excl >= RoundCurrency(min.before_taxes)
      BY <1>3, <3>2
    <3>4. CASE max = None
      BY <1>2, <1>4, <3>3, <3>4
    <3>5. CASE max # None
      <4>1. max.before_taxes \in Int /\ max.before_taxes # None
        BY <1>7, <3>5, PricingAssumption
      <4>2. min.before_taxes <= max.before_taxes
        BY <3>1, <3>5, <4>1
      <4>3. raised.excl \in Int /\ RoundCurrency(min.before_taxes) <= raised.excl
        BY <1>1, <3>1, <3>3 DEF InCents
      <4>4. RoundCurrency(min.before_taxes) <= Hold(raised.excl, max.before_taxes)
        BY <1>1, <3>1, <4>1, <4>2, <4>3, HeldBack
      <4>5. c.excl = Hold(raised.excl, max.before_taxes) /\ c.excl \in Int
        BY <1>1, <1>2, <1>4, <3>5 DEF InCents
      <4> QED
        BY <3>1, <4>4, <4>5
    <3> QED
      BY <3>4, <3>5
  <2> QED
    BY <2>1, <2>2
<1>10. ASSUME ~Moves(tariff)
       PROVE  above(c.incl, "after_taxes") /\ (below(c.incl, "after_taxes") \/ c.incl = c.excl)
  <2> DEFINE top == Greatest({held.incl, held.excl})
  <2>1. held.incl \in Int /\ held.excl \in Int
    BY <1>1 DEF InCents
  <2>2. c.incl = top /\ top \in {held.incl, held.excl} /\ top >= held.incl
    BY <1>1, <1>2, <1>10, GreaterIs
  <2> HIDE DEF top
  <2>3. c.incl \in {held.incl, held.excl} /\ c.incl >= held.incl /\ c.incl \in Int
    BY <2>1, <2>2
  <2>4. below(c.incl, "after_taxes") \/ c.incl = c.excl
    <3> SUFFICES ASSUME max # None, max.after_taxes # None, c.incl = held.incl
                 PROVE  c.incl <= RoundCurrency(max.after_taxes)
      BY <1>2, <2>3
    <3>1. max.after_taxes \in Int
      BY <1>7
    <3>2. Hold(raised.incl, max.after_taxes) <= RoundCurrency(max.after_taxes)
      BY <1>1, <3>1, HeldBack
    <3> QED
      BY <1>4, <3>2
  <2>5. above(c.incl, "after_taxes")
    <3> SUFFICES ASSUME min # None, min.after_taxes # None, ~cross("after_taxes")
                 PROVE  c.incl >= RoundCurrency(min.after_taxes)
      OBVIOUS
    <3>1. min.after_taxes \in Int /\ RoundCurrency(min.after_taxes) \in Int
      BY <1>7, <1>8
    <3>2. Lift(incl, min.after_taxes) >= RoundCurrency(min.after_taxes)
      BY <1>1, <3>1, LiftedIs
    <3>3. raised.incl \in Int /\ RoundCurrency(min.after_taxes) <= raised.incl
      BY <1>1, <1>3, <3>1, <3>2 DEF InCents
    <3>4. RoundCurrency(min.after_taxes) <= held.incl
      <4>1. CASE max = None \/ max.after_taxes = None
        BY <1>4, <3>3, <4>1
      <4>2. CASE max # None /\ max.after_taxes # None
        <5>1. max.after_taxes \in Int /\ min.after_taxes <= max.after_taxes
          BY <1>7, <3>1, <4>2
        <5>2. RoundCurrency(min.after_taxes) <= Hold(raised.incl, max.after_taxes)
          BY <1>1, <3>1, <3>3, <5>1, HeldBack
        <5> QED
          BY <1>4, <4>2, <5>2
      <4> QED
        BY <4>1, <4>2
    <3> QED
      BY <2>1, <2>3, <3>1, <3>4
  <2> QED
    BY <2>4, <2>5
<1>11. CASE Moves(tariff)
  BY <1>6, <1>9, <1>11 DEF Keeps, min, max, c
<1>12. CASE ~Moves(tariff)
  BY <1>9, <1>10, <1>12 DEF Keeps, min, max, c
<1> QED
  BY <1>11, <1>12

-----------------------------------------------------------------------------
(* The invariant. *)

IInv ==
    /\ session \in Sessions
    /\ AreSegments(segments)
    /\ TaxesAccount
    /\ WithinLimits

LEMMA PricingBegins == Init => IInv
<1> SUFFICES ASSUME Init PROVE IInv
  OBVIOUS
<1>1. AreSegments(segments)
  <2>1. AreSegments(<<>>)
    BY SegmentsJoin
  <2>2. segments = <<>>
    BY DEF Init
  <2> HIDE DEF AreSegments
  <2> QED
    BY <2>1, <2>2
<1>2. ~IsBilled
  BY DEF Init, IsBilled, Pricing, Failed
<1>3. session \in Sessions
  BY DEF Init
<1> QED
  BY <1>1, <1>2, <1>3 DEF IInv, TaxesAccount, WithinLimits

(* A bill is made of what the segments and the tariff of the start say.     *)
LEMMA FinishIsSound ==
    ASSUME IInv, Finish
    PROVE  TaxesAccount' /\ WithinLimits'
<1> DEFINE tariff == SelectByPreference(session.tariffs, session.wanted, session.start)
           totals == Clamped(tariff)
           taxes == PresentTaxes(RawLines, totals)
<1>1. session' = session
  BY DEF Finish
<1>2. CASE tariff = None
  <2>1. ~IsBilled'
    BY <1>2 DEF Finish, IsBilled, Failed
  <2> QED
    BY <2>1 DEF TaxesAccount, WithinLimits
<1>3. CASE tariff # None
  <2>1. PICK i \in DOMAIN session.tariffs : tariff = session.tariffs[i]
    <3> DEFINE tariffs == session.tariffs
    <3>1. IsList(tariffs)
      BY PricingAssumption DEF IInv
    <3> HIDE DEF tariffs
    <3>2. SelectByPreference(tariffs, session.wanted, session.start) # None
      BY <1>3 DEF tariffs
    <3>3. \E i \in DOMAIN tariffs :
             SelectByPreference(tariffs, session.wanted, session.start) = tariffs[i]
      BY <3>1, <3>2, PreferredIs
    <3> QED
      BY <3>3 DEF tariffs
  <2>2. IsTariff(tariff) /\ AreSegments(segments)
    BY <2>1, PricingAssumption DEF IInv
  <2>3. bill'.excl = totals.excl /\ bill'.incl = totals.incl /\ bill'.limit = totals.limit
        /\ bill'.taxes = taxes
    BY <1>3 DEF Finish
  <2>4. TaxesAccount'
    <3> DEFINE f == [p \in DOMAIN taxes |-> taxes[p].amount]
    <3>1. InCents(totals.excl) /\ InCents(totals.incl) /\ totals.incl >= totals.excl
      <4> HIDE DEF tariff
      <4> QED
        BY <2>2, ClampedIs
    <3>2. (\A p \in DOMAIN taxes : InCents(taxes[p].amount)) /\ SumOf(f) = totals.incl - totals.excl
      <4> DEFINE lines == RawLines
      <4>1. DOMAIN lines \in SUBSET Int /\ IsFiniteSet(DOMAIN lines)
            /\ \A p \in DOMAIN lines : lines[p].amount \in Int
        BY <2>2, LinesAre
      <4> HIDE DEF totals, lines
      <4> QED
        BY <3>1, <4>1, LinesComeTo DEF lines
    <3>3. \A p \in DOMAIN taxes : taxes[p].amount % Cent = 0
      BY <3>2, CentsAre
    <3> DEFINE price == ToPrice'
    <3>4. price.before_taxes = totals.excl /\ DOMAIN price.taxes = DOMAIN taxes
          /\ \A p \in DOMAIN taxes : price.taxes[p].amount = taxes[p].amount
      <4> HIDE DEF totals, taxes
      <4> QED
        BY <2>3 DEF ToPrice
    <3>5. ToOldPrice'.excl_vat = totals.excl /\ ToOldPrice'.incl_vat = totals.incl
      <4> HIDE DEF totals
      <4> QED
        BY <2>3 DEF ToOldPrice
    <3> DEFINE g == [p \in DOMAIN price.taxes |-> price.taxes[p].amount]
    <3>6. g = f
      <4> HIDE DEF price, taxes
      <4> QED
        BY <3>4
    <3>7. totals.excl \in Int /\ totals.incl \in Int
      BY <3>1 DEF InCents
    <3>8. totals.excl + SumOf(g) = totals.incl
      <4> HIDE DEF f, g, totals
      <4> QED
        BY <3>2, <3>6, <3>7
    <3>9. price.before_taxes + SumOf(g) = ToOldPrice'.incl_vat
      <4> HIDE DEF price, g, totals
      <4> QED
        BY <3>4, <3>5, <3>8
    <3> HIDE DEF totals, taxes
    <3>10. price.before_taxes + SumOf([p \in DOMAIN price.taxes |-> price.taxes[p].amount])
              = ToOldPrice'.incl_vat
      BY <3>9
    <3>11. ToOldPrice'.incl_vat >= ToOldPrice'.excl_vat
      BY <3>1, <3>5
    <3>12. \A p \in DOMAIN price.taxes : price.taxes[p].amount % Cent = 0
      <4> HIDE DEF price
      <4> QED
        BY <3>3, <3>4
    <3> QED
      BY <3>10, <3>11, <3>12 DEF TaxesAccount, Total
  <2>5. WithinLimits'
    <3>1. Keeps(tariff, totals)
      <4> HIDE DEF tariff
      <4> QED
        BY <2>2, ClampedKeeps
    <3> DEFINE left == bill'
    <3>2. Keeps(tariff, left)
      <4>1. left.excl = totals.excl /\ left.incl = totals.incl /\ left.limit = totals.limit
        BY <2>3
      <4> HIDE DEF tariff, totals, left
      <4> QED
        BY <3>1, <4>1 DEF Keeps
    <3> QED
      BY <1>1, <3>2 DEF WithinLimits, Keeps
  <2> QED
    BY <2>4, <2>5
<1> QED
  BY <1>2, <1>3

LEMMA PricingKeeps ==
    ASSUME IInv, [Next]_pvars
    PROVE  IInv'
<1> SUFFICES session' \in Sessions /\ AreSegments(segments') /\ TaxesAccount' /\ WithinLimits'
  BY DEF IInv
<1>1. ASSUME NEW kind \in Kinds, NEW length \in 1..MaxLength, PricePeriod(kind, length)
      PROVE  session' \in Sessions /\ AreSegments(segments') /\ TaxesAccount' /\ WithinLimits'
  <2>1. session' = session /\ bill' = Pricing
    BY <1>1 DEF PricePeriod
  <2>2. AreSegments(segments')
    BY <1>1, PeriodIsPriced DEF IInv
  <2>3. ~IsBilled'
    BY <2>1 DEF IsBilled, Pricing
  <2> QED
    BY <2>1, <2>2, <2>3 DEF IInv, TaxesAccount, WithinLimits
<1>2. ASSUME NEW kind \in Kinds, RefusePeriod(kind)
      PROVE  session' \in Sessions /\ AreSegments(segments') /\ TaxesAccount' /\ WithinLimits'
  <2>1. session' = session /\ segments' = segments /\ bill' = Failed
    BY <1>2 DEF RefusePeriod
  <2>2. ~IsBilled'
    BY <2>1 DEF IsBilled, Failed
  <2> QED
    BY <2>1, <2>2 DEF IInv, TaxesAccount, WithinLimits
<1>3. CASE Finish
  <2>1. session' = session /\ segments' = segments
    BY <1>3 DEF Finish
  <2> QED
    BY <1>3, <2>1, FinishIsSound DEF IInv
<1>4. CASE UNCHANGED pvars
  <2>1. session' = session /\ segments' = segments /\ bill' = bill
    BY <1>4 DEF pvars
  <2>2. TaxesAccount'
    <3>1. TaxesAccount
      BY DEF IInv
    <3>2. ToPrice' = ToPrice /\ ToOldPrice' = ToOldPrice /\ (IsBilled' <=> IsBilled)
      BY <2>1 DEF ToPrice, ToOldPrice, IsBilled
    <3> QED
      BY <3>1, <3>2 DEF TaxesAccount, Total
  <2>3. WithinLimits'
    BY <2>1 DEF IInv, WithinLimits, IsBilled
  <2> QED
    BY <2>1, <2>2, <2>3 DEF IInv
<1> QED
  BY <1>1, <1>2, <1>3, <1>4 DEF Next

(* The tax lines of every bill account for it to the cent: whatever the     *)
(* tariffs, the periods and their number, the limits and the roundings.     *)
(* TaxesAccount of price(), finish() and present_taxes().                   *)
THEOREM BillsAccount == Spec => []TaxesAccount
<1>1. IInv => TaxesAccount
  BY DEF IInv
<1> QED
  BY <1>1, PricingBegins, PricingKeeps, PTL DEF Spec

(* No bill is beyond its tariff's limits, rounded, whatever these are:      *)
(* WithinLimits of finish(), for every session. What it excepts is excepted *)
(* here: the limit applied last names no amount after tax.                  *)
THEOREM BillsKeepLimits == Spec => []WithinLimits
<1>1. IInv => WithinLimits
  BY DEF IInv
<1> QED
  BY <1>1, PricingBegins, PricingKeeps, PTL DEF Spec

-----------------------------------------------------------------------------
(* What a period reads is a session's, at an instant, with energy used.     *)

RunInv ==
    /\ session \in Sessions
    /\ clock \in Int \cup {None}
    /\ used \in [Dimensions -> Int]

LEMMA KindsAre ==
    ASSUME NEW kind \in Kinds
    PROVE  /\ kind.energy \in Int /\ kind.charging \in Int
           /\ kind.parking \in Int /\ kind.reserved \in Int
<1>1. PICK p \in Periods : kind = PeriodFrom(p)
  BY DEF Kinds
<1>2. \A t \in DOMAIN p.dimensions : p.dimensions[t] \in Int
  BY PricingAssumption
<1> DEFINE volume(t) == IF t \in DOMAIN p.dimensions THEN p.dimensions[t] ELSE 0
<1>3. \A t : volume(t) \in Int
  BY <1>2
<1>4. /\ kind.energy = volume("ENERGY") /\ kind.charging = volume("TIME")
      /\ kind.parking = volume("PARKING_TIME")
      /\ kind.reserved = volume("RESERVATION_TIME") + volume("RESERVATION_EXPIRES")
  BY <1>1 DEF PeriodFrom
<1> HIDE DEF volume
<1> QED
  BY <1>3, <1>4

(* What a period consumed of a dimension is a set of the four parts.        *)
LEMMA QuantitiesIn ==
    ASSUME NEW kind \in Kinds, NEW length \in Int
    PROVE  /\ Quantities(kind, length)
                = {q \in {Parts(kind, length)[i] : i \in 1..4} : q.quantity # 0}
           /\ IsFiniteSet(Quantities(kind, length))
           /\ \A q \in Quantities(kind, length) : q.quantity \in Int
<1> DEFINE part == Parts(kind, length)
<1>1. DOMAIN part = 1..4
  BY DEF Parts
<1>2. \A i \in 1..4 : part[i].quantity \in Int
  <2>1. \A v \in Int : v * length \in Int
    OBVIOUS
  <2>2. /\ kind.energy * length \in Int /\ kind.charging * length \in Int
        /\ kind.parking * length \in Int /\ kind.reserved * length \in Int
    BY <2>1, KindsAre
  <2>3. /\ part[1].quantity = kind.energy * length /\ part[2].quantity = kind.charging * length
        /\ part[3].quantity = kind.reserved * length /\ part[4].quantity = kind.parking * length
    BY DEF Parts
  <2> HIDE DEF part
  <2>4. \A i \in 1..4 : i = 1 \/ i = 2 \/ i = 3 \/ i = 4
    OBVIOUS
  <2> QED
    BY <2>2, <2>3, <2>4
<1>3. Seqs!ToSet(part) = {part[i] : i \in 1..4}
  BY <1>1 DEF Seqs!ToSet
<1>4. Quantities(kind, length) = {q \in {part[i] : i \in 1..4} : q.quantity # 0}
  BY <1>3 DEF Quantities
<1> HIDE DEF part
<1>5. IsFiniteSet({part[i] : i \in 1..4})
  <2> DEFINE g == [i \in 1..4 |-> part[i]]
             S == {part[i] : i \in 1..4}
  <2>1. g \in Surjection(1..4, S)
    BY DEF Surjection
  <2>2. IsFiniteSet(1..4)
    <3> DEFINE four == 4
    <3>1. four \in Int /\ 1 \in Int
      OBVIOUS
    <3> HIDE DEF four
    <3>2. IsFiniteSet(1..four)
      BY <3>1, FS_Interval
    <3> QED
      BY <3>2 DEF four
  <2> HIDE DEF g, S
  <2>3. IsFiniteSet(S)
    BY <2>1, <2>2, FS_Surjection
  <2> QED
    BY <2>3 DEF S
<1>6. IsFiniteSet(Quantities(kind, length))
  BY <1>4, <1>5, FS_Subset
<1> QED
  BY <1>2, <1>4, <1>6 DEF part

LEMMA RunBegins == Init => RunInv
BY PricingAssumption DEF Init, RunInv

LEMMA RunKeeps == RunInv /\ [Next]_pvars => RunInv'
<1> SUFFICES ASSUME RunInv, [Next]_pvars PROVE RunInv'
  OBVIOUS
<1>1. ASSUME NEW kind \in Kinds, NEW length \in 1..MaxLength, PricePeriod(kind, length)
      PROVE  RunInv'
  <2>1. session' = session /\ clock' \in {clock + length, clock, None} /\ clock # None
    BY <1>1 DEF PricePeriod
  <2>2. clock' \in Int \cup {None}
    BY <2>1 DEF RunInv
  <2> DEFINE S(d) == {q \in Quantities(kind, length) : q.dimension = d}
             more(d) == Total(S(d), LAMBDA q : q.quantity)
  <2>3. used' = [d \in Dimensions |-> used[d] + more(d)]
    BY <1>1 DEF PricePeriod
  <2>4. ASSUME NEW d \in Dimensions PROVE more(d) \in Int
    <3>1. IsFiniteSet(S(d)) /\ \A q \in S(d) : q.quantity \in Int
      BY QuantitiesIn, FS_Subset
    <3>2. [q \in S(d) |-> q.quantity] \in [S(d) -> Int]
      BY <3>1
    <3> HIDE DEF S
    <3> QED
      BY <3>1, <3>2, IntSums DEF Total
  <2> HIDE DEF more
  <2>5. \A d \in Dimensions : used[d] + more(d) \in Int
    BY <2>4 DEF RunInv
  <2>6. used' \in [Dimensions -> Int]
    BY <2>3, <2>5
  <2> QED
    BY <2>1, <2>2, <2>6 DEF RunInv
<1>2. CASE \E kind \in Kinds : RefusePeriod(kind)
  BY <1>2 DEF RefusePeriod, RunInv
<1>3. CASE Finish
  BY <1>3 DEF Finish, RunInv
<1>4. CASE UNCHANGED pvars
  BY <1>4 DEF pvars, RunInv
<1> QED
  BY <1>1, <1>2, <1>3, <1>4 DEF Next

(* The tariff a period is priced by is the session's.                       *)
LEMMA TariffIn ==
    ASSUME RunInv, NEW kind, TariffOf(kind) # None
    PROVE  \E i \in DOMAIN session.tariffs :
              TariffOf(kind) = session.tariffs[i] /\ IsTariff(session.tariffs[i])
<1> DEFINE tariffs == session.tariffs
<1>1. IsList(tariffs) /\ \A i \in DOMAIN tariffs : IsTariff(tariffs[i])
  BY PricingAssumption DEF RunInv
<1>2. SelectTariff(tariffs, session.wanted, kind.tariff_id, clock) # None
  BY DEF TariffOf
<1>3. \E i \in DOMAIN tariffs :
         SelectTariff(tariffs, session.wanted, kind.tariff_id, clock) = tariffs[i]
  <2> HIDE DEF tariffs
  <2> QED
    BY <1>1, <1>2, SelectedIs
<1> QED
  BY <1>1, <1>3 DEF TariffOf

-----------------------------------------------------------------------------
(* A note that a period spans a change of price.                            *)

RestrictsEnergy(tariff) ==
    \E e \in DOMAIN tariff.elements :
        LET r == tariff.elements[e].restrictions
        IN  "energy" \in DOMAIN r.min \cup DOMAIN r.max

(* Where nothing depends on the energy used, nothing depends on how it is   *)
(* counted.                                                                *)
LEMMA EnergyApart ==
    ASSUME NEW tariff, IsTariff(tariff), ~RestrictsEnergy(tariff),
           NEW dimension, NEW kind, NEW at, NEW u, NEW v, NEW reserving
    PROVE  FindComponent(tariff, dimension, ContextAt(session, kind, at, u, reserving))
              = FindComponent(tariff, dimension, ContextAt(session, kind, at, v, reserving))
<1> DEFINE c == ContextAt(session, kind, at, u, reserving)
           d == ContextAt(session, kind, at, v, reserving)
<1>1. /\ c.time = d.time /\ c.weekday = d.weekday /\ c.reserving = d.reserving
      /\ c.expired = d.expired
  BY DEF ContextAt
<1>2. \A m \in Measures \ {"energy"} : c.lower[m] = d.lower[m] /\ c.upper[m] = d.upper[m]
  BY DEF ContextAt, Measures
<1> HIDE DEF c, d
<1>3. ASSUME NEW e \in DOMAIN tariff.elements
      PROVE  Matches(tariff.elements[e].restrictions, c) <=> Matches(tariff.elements[e].restrictions, d)
  <2> DEFINE r == tariff.elements[e].restrictions
  <2>1. DOMAIN r.min \subseteq Measures \ {"energy"} /\ DOMAIN r.max \subseteq Measures \ {"energy"}
    BY DEF IsTariff, AreBounds, RestrictsEnergy
  <2> HIDE DEF r
  <2>2. /\ \A m \in DOMAIN r.min : c.lower[m] = d.lower[m]
        /\ \A m \in DOMAIN r.max : c.upper[m] = d.upper[m]
    BY <1>2, <2>1
  <2>3. Reserves(r.reservation, c) <=> Reserves(r.reservation, d)
    BY <1>1 DEF Reserves
  <2>4. Matches(r, c) <=> Matches(r, d)
    BY <1>1, <2>2, <2>3 DEF Matches
  <2> QED
    BY <2>4 DEF r
<1>4. FindComponent(tariff, dimension, c) = FindComponent(tariff, dimension, d)
  <2>1. {e \in DOMAIN tariff.elements : /\ Matches(tariff.elements[e].restrictions, c)
                                       /\ Prices(tariff.elements[e], dimension) # {}}
         = {e \in DOMAIN tariff.elements : /\ Matches(tariff.elements[e].restrictions, d)
                                           /\ Prices(tariff.elements[e], dimension) # {}}
    BY <1>3
  <2> QED
    BY <2>1 DEF FindComponent
<1> QED
  BY <1>4 DEF c, d

(* What was consumed in the period was consumed in each of its seconds.     *)
LEMMA EachSecond ==
    ASSUME NEW kind \in Kinds, NEW length \in Int, NEW q \in Quantities(kind, length)
    PROVE  \E p \in Quantities(kind, 1) : p.dimension = q.dimension /\ p.reserving = q.reserving
<1> DEFINE part == Parts(kind, length)
           once == Parts(kind, 1)
           rate == <<kind.energy, kind.charging, kind.reserved, kind.parking>>
<1>1. PICK i \in 1..4 : q = part[i] /\ q.quantity # 0
  BY QuantitiesIn
<1>2. \A j \in 1..4 : j = 1 \/ j = 2 \/ j = 3 \/ j = 4
  OBVIOUS
<1>3. \A j \in 1..4 : rate[j] \in Int
  BY <1>2, KindsAre
<1>4. \A j \in 1..4 : part[j].quantity = rate[j] * length
  <2>1. /\ part[1].quantity = kind.energy * length /\ part[2].quantity = kind.charging * length
        /\ part[3].quantity = kind.reserved * length /\ part[4].quantity = kind.parking * length
    BY DEF Parts
  <2>2. /\ rate[1] = kind.energy /\ rate[2] = kind.charging
        /\ rate[3] = kind.reserved /\ rate[4] = kind.parking
    OBVIOUS
  <2> HIDE DEF part, rate
  <2> QED
    BY <1>2, <2>1, <2>2
<1>5. \A j \in 1..4 : once[j].quantity = rate[j] * 1
  <2>1. /\ once[1].quantity = kind.energy * 1 /\ once[2].quantity = kind.charging * 1
        /\ once[3].quantity = kind.reserved * 1 /\ once[4].quantity = kind.parking * 1
    BY DEF Parts
  <2>2. /\ rate[1] = kind.energy /\ rate[2] = kind.charging
        /\ rate[3] = kind.reserved /\ rate[4] = kind.parking
    OBVIOUS
  <2> HIDE DEF once, rate
  <2> QED
    BY <1>2, <2>1, <2>2
<1>6. \A j \in 1..4 : once[j].dimension = part[j].dimension /\ once[j].reserving = part[j].reserving
  <2>1. /\ once[1].dimension = part[1].dimension /\ once[1].reserving = part[1].reserving
        /\ once[2].dimension = part[2].dimension /\ once[2].reserving = part[2].reserving
        /\ once[3].dimension = part[3].dimension /\ once[3].reserving = part[3].reserving
        /\ once[4].dimension = part[4].dimension /\ once[4].reserving = part[4].reserving
    BY DEF Parts
  <2> HIDE DEF once, part
  <2> QED
    BY <1>2, <2>1
<1> HIDE DEF rate
<1>7. once[i].quantity # 0
  <2> HIDE DEF once, part
  <2> QED
    BY <1>1, <1>3, <1>4, <1>5
<1>8. 1 \in Int
  OBVIOUS
<1>9. once[i] \in Quantities(kind, 1)
  BY <1>7, <1>8, QuantitiesIn
<1> HIDE DEF once, part
<1> QED
  BY <1>1, <1>6, <1>9

(* A period split where its price changes spans no change, unless the price *)
(* changes with the energy used.                                           *)
LEMMA SteadyNeverSpans ==
    ASSUME RunInv, NEW kind \in Kinds, NEW length \in 1..MaxLength, PricePeriod(kind, length),
           steady', NEW q \in Priced(TariffOf(kind), kind, length),
           Spans(TariffOf(kind), kind, length, clock', q)
    PROVE  RestrictsEnergy(TariffOf(kind))
<1> DEFINE tariff == TariffOf(kind)
           t == clock + length - 1
<1> SUFFICES ASSUME ~RestrictsEnergy(tariff) PROVE FALSE
  OBVIOUS
<1>1. /\ tariff # None /\ clock # None /\ clock' # clock /\ clock' \in {clock + length, clock, None}
      /\ \A d \in Dimensions : KeepsPrice(tariff, kind, length, d)
  BY DEF PricePeriod
<1>2. clock \in Int /\ length \in Int /\ length >= 1 /\ IsTariff(tariff)
  BY <1>1, TariffIs, PricingAssumption DEF RunInv
<1>3. clock' = clock + length /\ clock' - 1 = t /\ t \in Seconds(length)
  <2>1. clock' # None
    BY DEF Spans
  <2>2. clock' = clock + length
    BY <1>1, <2>1
  <2> QED
    BY <1>2, <2>2 DEF Seconds
<1>4. q \in Quantities(kind, length)
  BY DEF Priced
<1>5. PICK p \in Quantities(kind, 1) : p.dimension = q.dimension /\ p.reserving = q.reserving
  BY <1>2, <1>4, EachSecond
<1>6. q.dimension \in Dimensions \ {"FLAT"}
  <2>1. PICK i \in 1..4 : q = Parts(kind, length)[i]
    BY <1>2, <1>4, QuantitiesIn
  <2>2. i = 1 \/ i = 2 \/ i = 3 \/ i = 4
    OBVIOUS
  <2> QED
    BY <2>1, <2>2 DEF Parts, Dimensions
<1> DEFINE d == q.dimension
           r == q.reserving
<1>7. KeepsPrice(tariff, kind, length, d) /\ d # "FLAT"
  BY <1>1, <1>6
<1>8. FindComponent(tariff, d, AtSecond(kind, t, r)) = FindComponent(tariff, d, AtStart(kind, r))
  <2> HIDE DEF tariff, t
  <2> QED
    BY <1>3, <1>5, <1>7 DEF KeepsPrice
<1>9. FindComponent(tariff, d, AtEnd(kind, length, clock', r))
         = FindComponent(tariff, d, AtSecond(kind, t, r))
  <2> HIDE DEF tariff, d, r, t
  <2> QED
    BY <1>2, <1>3, EnergyApart DEF AtEnd, AtSecond
<1> QED
  BY <1>8, <1>9 DEF Spans

LEMMA BillNotesAre ==
    ASSUME NEW totals, NEW incl, NEW n \in BillNotes(totals, incl)
    PROVE  n.code \in {"TaxIncludedWithoutRate", "TaxRateIgnored", "MixedTaxBasis", "TotalClamped",
                       "NegativeTax", "UnattributedTax"}
<1> DEFINE codes == {"TaxIncludedWithoutRate", "TaxRateIgnored", "MixedTaxBasis", "TotalClamped",
                     "NegativeTax", "UnattributedTax"}
<1>1. PICK c \in codes : n = Note(c, None, None)
  BY DEF BillNotes
<1> QED
  BY <1>1 DEF Note

SpansInv == RunInv /\ SpansMeansChange

LEMMA SpansKeeps == SpansInv /\ [Next]_pvars => SpansInv'
<1> SUFFICES ASSUME SpansInv, [Next]_pvars PROVE SpansInv'
  OBVIOUS
<1>0. RunInv /\ RunInv'
  BY RunKeeps DEF SpansInv
<1> DEFINE Noted == \E n \in notes : n.code = "PeriodSpansPriceChange"
           Energy == \E i \in DOMAIN session.tariffs : RestrictsEnergy(session.tariffs[i])
<1>e. SpansMeansChange <=> (Noted /\ steady => Energy)
  BY DEF SpansMeansChange, RestrictsEnergy
<1>f. SpansMeansChange' <=> (Noted' /\ steady' => Energy')
  BY DEF SpansMeansChange, RestrictsEnergy
<1>1. ASSUME NEW kind \in Kinds, NEW length \in 1..MaxLength, PricePeriod(kind, length)
      PROVE  SpansMeansChange'
  <2> SUFFICES ASSUME Noted', steady' PROVE Energy'
    BY <1>f
  <2> DEFINE tariff == TariffOf(kind)
  <2>1. /\ session' = session /\ steady /\ tariff # None
        /\ notes' = notes \cup PeriodNotes(tariff, kind, length, clock')
    BY <1>1 DEF PricePeriod
  <2>2. CASE Noted
    BY <1>e, <2>1, <2>2 DEF SpansInv
  <2>3. CASE ~Noted
    <3>1. PICK n \in PeriodNotes(tariff, kind, length, clock') : n.code = "PeriodSpansPriceChange"
      BY <2>1, <2>3
    <3>2. PICK q \in Priced(tariff, kind, length) : Spans(tariff, kind, length, clock', q)
      <4> HIDE DEF tariff
      <4> QED
        BY <3>1 DEF PeriodNotes, Note
    <3>3. RestrictsEnergy(tariff)
      BY <1>0, <1>1, <3>2, SteadyNeverSpans
    <3>4. \E i \in DOMAIN session.tariffs : tariff = session.tariffs[i]
      BY <1>0, <2>1, TariffIn
    <3> HIDE DEF tariff
    <3> QED
      BY <2>1, <3>3, <3>4 DEF RestrictsEnergy
  <2> QED
    BY <2>2, <2>3
<1>2. ASSUME \E kind \in Kinds : RefusePeriod(kind) PROVE SpansMeansChange'
  <2>1. UNCHANGED <<session, notes, steady>>
    BY <1>2 DEF RefusePeriod
  <2> QED
    BY <2>1 DEF SpansInv, SpansMeansChange
<1>3. ASSUME Finish PROVE SpansMeansChange'
  <2>1. UNCHANGED <<session, steady>>
    BY <1>3 DEF Finish
  <2>2. PICK totals, incl : notes' \subseteq notes \cup BillNotes(totals, incl)
    BY <1>3 DEF Finish
  <2>3. Noted' => Noted
    BY <2>2, BillNotesAre
  <2> QED
    BY <1>e, <1>f, <2>1, <2>3 DEF SpansInv
<1>4. ASSUME UNCHANGED pvars PROVE SpansMeansChange'
  BY <1>4 DEF pvars, SpansInv, SpansMeansChange
<1> QED
  BY <1>0, <1>1, <1>2, <1>3, <1>4 DEF Next, SpansInv

LEMMA SpansBegins == Init => SpansInv
BY RunBegins DEF Init, SpansInv, SpansMeansChange

(* "A false positive here would train everybody to ignore the note":        *)
(* spans_price_change() has none, whatever the tariffs and the periods, but *)
(* where a price depends on the energy used.                               *)
THEOREM NoFalseSpans == Spec => []SpansMeansChange
<1>1. SpansInv => SpansMeansChange
  BY DEF SpansInv
<1> QED
  BY <1>1, SpansBegins, SpansKeeps, PTL DEF Spec

-----------------------------------------------------------------------------
(* How each segment came about: by a component that was found where the     *)
(* period began, of the tariff selected there.                             *)

IsPriced(s, of) ==
    \E kind \in Kinds, u \in Int :
       LET tariff == SelectTariff(of.tariffs, of.wanted, kind.tariff_id, s.start)
           found == FindComponent(tariff, s.dimension, ContextAt(of, kind, s.start, u, s.reserved))
       IN  /\ tariff # None /\ found # None
           /\ s.applied = found /\ s.tariff = tariff.id /\ s.basis = tariff.basis
           /\ s.vat = Component(tariff, found).vat
           /\ s.step_size = IF s.dimension = "FLAT" THEN 0 ELSE Component(tariff, found).step_size
           /\ s.dimension \in Dimensions
           /\ s.reserved => s.dimension \in {"TIME", "FLAT"}
           /\ s.start \in Int

ArePriced(list, of) == \E S : list \in Seq(S) /\ \A s \in S : IsPriced(s, of)

(* What a period adds to the segments.                                     *)
SegmentOf(kind, q) ==
    Segment(TariffOf(kind), FindComponent(TariffOf(kind), q.dimension, AtStart(kind, q.reserving)), q)

NewSegments(kind, length) ==
    {SegmentOf(kind, q) : q \in Priced(TariffOf(kind), kind, length)}
    \cup (IF ChargesFlat(FlatAtStart(TariffOf(kind), kind)) THEN {FlatSegment(TariffOf(kind), kind)} ELSE {})

LEMMA SixJoin ==
    ASSUME NEW S, NEW a \in Seq(S), NEW b \in Seq(S), NEW c \in Seq(S), NEW d \in Seq(S),
           NEW e \in Seq(S), NEW f \in Seq(S)
    PROVE  a \o b \o c \o d \o e \o f \in Seq(S)
<1>1. a \o b \in Seq(S)
  OBVIOUS
<1>2. a \o b \o c \in Seq(S)
  BY <1>1
<1>3. a \o b \o c \o d \in Seq(S)
  BY <1>2
<1>4. a \o b \o c \o d \o e \in Seq(S)
  BY <1>3
<1> QED
  BY <1>4

LEMMA PeriodAdds ==
    ASSUME NEW S, segments \in Seq(S), NEW kind, NEW length, PricePeriod(kind, length)
    PROVE  segments' \in Seq(S \cup NewSegments(kind, length))
<1> DEFINE tariff == TariffOf(kind)
           part == Parts(kind, length)
           All == S \cup NewSegments(kind, length)
           segmentOf(q) ==
               IF q \in Priced(tariff, kind, length)
               THEN <<Segment(tariff, FindComponent(tariff, q.dimension, AtStart(kind, q.reserving)), q)>>
               ELSE <<>>
           start == ChargesFlat(FlatAtStart(tariff, kind))
           flat == IF start THEN <<FlatSegment(tariff, kind)>> ELSE <<>>
<1>1. segments' = segments \o segmentOf(part[1]) \o segmentOf(part[2]) \o segmentOf(part[3])
                           \o segmentOf(part[4]) \o flat
  BY DEF PricePeriod
<1>2. ASSUME NEW q PROVE segmentOf(q) \in Seq(All)
  <2>1. CASE q \in Priced(tariff, kind, length)
    <3> DEFINE s == SegmentOf(kind, q)
    <3>1. s \in All /\ segmentOf(q) = <<s>>
      BY <2>1 DEF NewSegments, SegmentOf
    <3> HIDE DEF s, All, segmentOf
    <3> QED
      BY <3>1
  <2>2. CASE q \notin Priced(tariff, kind, length)
    <3>1. segmentOf(q) = <<>>
      BY <2>2
    <3> HIDE DEF All, segmentOf
    <3> QED
      BY <3>1
  <2> QED
    BY <2>1, <2>2
<1>3. flat \in Seq(All)
  <2>1. CASE start
    <3> DEFINE s == FlatSegment(tariff, kind)
    <3>1. s \in All /\ flat = <<s>>
      BY <2>1 DEF NewSegments
    <3> HIDE DEF s, All, flat
    <3> QED
      BY <3>1
  <2>2. CASE ~start
    <3>1. flat = <<>>
      BY <2>2
    <3> HIDE DEF All, flat
    <3> QED
      BY <3>1
  <2> QED
    BY <2>1, <2>2
<1>4. segments \in Seq(All)
  <2>1. S \subseteq All
    OBVIOUS
  <2> HIDE DEF All
  <2> QED
    BY <2>1
<1>5. /\ segmentOf(part[1]) \in Seq(All) /\ segmentOf(part[2]) \in Seq(All)
      /\ segmentOf(part[3]) \in Seq(All) /\ segmentOf(part[4]) \in Seq(All)
  BY <1>2
<1> HIDE DEF segmentOf, flat, All
<1>6. segments \o segmentOf(part[1]) \o segmentOf(part[2]) \o segmentOf(part[3])
               \o segmentOf(part[4]) \o flat \in Seq(All)
  BY <1>3, <1>4, <1>5, SixJoin
<1>7. segments' \in Seq(All)
  BY <1>1, <1>6
<1> QED
  BY <1>7 DEF All

LEMMA PartIsConsumed ==
    ASSUME NEW kind \in Kinds, NEW length \in Int, NEW q \in Quantities(kind, length)
    PROVE  /\ q.dimension \in Dimensions \ {"FLAT"}
           /\ q.reserving \in BOOLEAN
           /\ q.reserving => q.dimension = "TIME"
<1>1. PICK i \in 1..4 : q = Parts(kind, length)[i]
  BY QuantitiesIn
<1>2. i = 1 \/ i = 2 \/ i = 3 \/ i = 4
  OBVIOUS
<1> DEFINE part == Parts(kind, length)
<1>3. /\ part[1].dimension = "ENERGY" /\ part[2].dimension = "TIME"
      /\ part[3].dimension = "TIME" /\ part[4].dimension = "PARKING_TIME"
      /\ part[1].reserving = FALSE /\ part[2].reserving = FALSE
      /\ part[3].reserving = TRUE /\ part[4].reserving = FALSE
  BY DEF Parts
<1> HIDE DEF part
<1>4. q = part[1] \/ q = part[2] \/ q = part[3] \/ q = part[4]
  BY <1>1, <1>2 DEF part
<1> QED
  BY <1>3, <1>4 DEF Dimensions

LEMMA NewArePriced ==
    ASSUME RunInv, NEW kind \in Kinds, NEW length \in 1..MaxLength, PricePeriod(kind, length),
           NEW s \in NewSegments(kind, length)
    PROVE  IsPriced(s, session)
<1> DEFINE tariff == TariffOf(kind)
           u == used["ENERGY"]
<1>1. u \in Int /\ clock \in Int /\ length \in Int /\ tariff # None
  BY PricingAssumption DEF RunInv, Dimensions, PricePeriod
<1>2. tariff = SelectTariff(session.tariffs, session.wanted, kind.tariff_id, clock)
  BY DEF TariffOf
<1>3. CASE \E q \in Priced(tariff, kind, length) : s = SegmentOf(kind, q)
  <2>1. PICK q \in Priced(tariff, kind, length) : s = SegmentOf(kind, q)
    BY <1>3
  <2> DEFINE found == FindComponent(tariff, q.dimension, AtStart(kind, q.reserving))
  <2>2. found # None /\ q \in Quantities(kind, length)
    BY DEF Priced
  <2>3. q.dimension \in Dimensions \ {"FLAT"} /\ (q.reserving => q.dimension = "TIME")
    BY <1>1, <2>2, PartIsConsumed
  <2>4. s = Segment(tariff, found, q)
    BY <2>1 DEF SegmentOf
  <2> HIDE DEF tariff, found
  <2>5. /\ s.dimension = q.dimension /\ s.start = clock /\ s.reserved = q.reserving
        /\ s.applied = found /\ s.tariff = tariff.id /\ s.basis = tariff.basis
        /\ s.vat = Component(tariff, found).vat /\ s.step_size = Component(tariff, found).step_size
    BY <2>4 DEF Segment
  <2>6. found = FindComponent(tariff, s.dimension, ContextAt(session, kind, s.start, u, s.reserved))
    BY <2>5 DEF found, AtStart
  <2> HIDE DEF u
  <2> QED
    BY <1>1, <1>2, <2>2, <2>3, <2>5, <2>6 DEF IsPriced
<1>4. CASE ChargesFlat(FlatAtStart(tariff, kind)) /\ s = FlatSegment(tariff, kind)
  <2> DEFINE found == FlatAtStart(tariff, kind)
             reserving == FindComponent(tariff, "FLAT", AtStart(kind, FALSE)) = None
             q == [dimension |-> "FLAT", quantity |-> 1, reserving |-> reserving]
  <2>1. found # None
    BY <1>4 DEF ChargesFlat
  <2>2. found = FindComponent(tariff, "FLAT", AtStart(kind, reserving))
    BY <2>1 DEF FlatAtStart, FlatFound
  <2>3. s = [Segment(tariff, found, q) EXCEPT !.step_size = 0]
    BY <1>4 DEF FlatSegment
  <2>4. q.dimension = "FLAT" /\ q.reserving = reserving
    OBVIOUS
  <2> HIDE DEF tariff, found, q, reserving
  <2>5. /\ s.dimension = "FLAT" /\ s.start = clock /\ s.reserved = reserving
        /\ s.applied = found /\ s.tariff = tariff.id /\ s.basis = tariff.basis
        /\ s.vat = Component(tariff, found).vat /\ s.step_size = 0
    BY <2>3, <2>4 DEF Segment
  <2>6. found = FindComponent(tariff, s.dimension, ContextAt(session, kind, s.start, u, s.reserved))
    BY <2>2, <2>5 DEF AtStart
  <2> HIDE DEF u
  <2>7. s.dimension \in Dimensions /\ s.dimension \in {"TIME", "FLAT"}
    BY <2>5 DEF Dimensions
  <2> QED
    BY <1>1, <1>2, <2>1, <2>5, <2>6, <2>7 DEF IsPriced
<1> QED
  BY <1>3, <1>4 DEF NewSegments

ReviewInv == RunInv /\ AreSegments(segments) /\ ArePriced(segments, session)

LEMMA ReviewBegins == Init => ReviewInv
<1> SUFFICES ASSUME Init PROVE ReviewInv
  OBVIOUS
<1> DEFINE none == <<>>
<1>1. segments = none
  BY DEF Init
<1>2. none \in Seq({})
  OBVIOUS
<1>3. AreSegments(none)
  BY SegmentsJoin
<1> HIDE DEF none
<1>4. ArePriced(none, session)
  BY <1>2 DEF ArePriced
<1> QED
  BY <1>1, <1>3, <1>4, RunBegins DEF ReviewInv

LEMMA ReviewKeeps == ReviewInv /\ [Next]_pvars => ReviewInv'
<1> SUFFICES ASSUME ReviewInv, [Next]_pvars PROVE AreSegments(segments)' /\ ArePriced(segments, session)'
  BY RunKeeps DEF ReviewInv
<1>1. ASSUME NEW kind \in Kinds, NEW length \in 1..MaxLength, PricePeriod(kind, length)
      PROVE  AreSegments(segments)' /\ ArePriced(segments, session)'
  <2>1. AreSegments(segments')
    BY <1>1, PeriodIsPriced DEF ReviewInv, RunInv
  <2>2. PICK S : segments \in Seq(S) /\ \A s \in S : IsPriced(s, session)
    BY DEF ReviewInv, ArePriced
  <2>3. segments' \in Seq(S \cup NewSegments(kind, length))
    BY <1>1, <2>2, PeriodAdds
  <2>4. \A s \in S \cup NewSegments(kind, length) : IsPriced(s, session)
    BY <1>1, <2>2, NewArePriced DEF ReviewInv
  <2>5. ArePriced(segments', session)
    BY <2>3, <2>4 DEF ArePriced
  <2>6. session' = session
    BY <1>1 DEF PricePeriod
  <2> QED
    BY <2>1, <2>5, <2>6
<1>2. CASE UNCHANGED <<segments, session>>
  BY <1>2 DEF ReviewInv
<1> QED
  BY <1>1, <1>2 DEF Next, RefusePeriod, Finish, pvars

-----------------------------------------------------------------------------
(* What lint() says of a tariff, and how the engine prices by it.           *)

LEMMA NamesAreFound ==
    ASSUME NEW tariff, IsTariff(tariff), NEW dimension, NEW context,
           FindComponent(tariff, dimension, context) # None
    PROVE  \E e \in DOMAIN tariff.elements : \E c \in DOMAIN tariff.elements[e].price_components :
             /\ FindComponent(tariff, dimension, context) = <<e, c>>
             /\ Matches(tariff.elements[e].restrictions, context)
             /\ c = Least(Prices(tariff.elements[e], dimension))
             /\ tariff.elements[e].price_components[c].type = dimension
             /\ \A f \in 1..(e - 1) : Prices(tariff.elements[f], dimension) # {}
                                        => ~Matches(tariff.elements[f].restrictions, context)
<1> DEFINE found == {e \in DOMAIN tariff.elements :
                        /\ Matches(tariff.elements[e].restrictions, context)
                        /\ Prices(tariff.elements[e], dimension) # {}}
           e == Least(found)
           c == Least(Prices(tariff.elements[e], dimension))
<1>1. found # {} /\ FindComponent(tariff, dimension, context) = <<e, c>>
  BY DEF FindComponent
<1>2. IsList(tariff.elements) /\ DOMAIN tariff.elements = 1..Len(tariff.elements)
      /\ Len(tariff.elements) \in Nat
  BY DEF IsTariff, IsList
<1>3. found \in SUBSET (DOMAIN tariff.elements)
  OBVIOUS
<1>4. e \in found /\ \A f \in found : e <= f
  <2>1. IsFiniteSet(DOMAIN tariff.elements) /\ DOMAIN tariff.elements \in SUBSET Nat
    BY <1>2, FS_Interval
  <2>2. IsFiniteSet(found) /\ found \in SUBSET Nat
    BY <1>3, <2>1, FS_Subset
  <2> HIDE DEF found
  <2> QED
    BY <1>1, <2>2, LeastNumber DEF Least
<1>5. ASSUME NEW f \in 1..(e - 1), Prices(tariff.elements[f], dimension) # {},
             Matches(tariff.elements[f].restrictions, context)
      PROVE  FALSE
  <2>1. e \in 1..Len(tariff.elements)
    BY <1>2, <1>4
  <2> HIDE DEF e
  <2>2. f \in DOMAIN tariff.elements /\ ~(e <= f)
    BY <1>2, <2>1
  <2> QED
    BY <1>4, <1>5, <2>2
<1>6. e \in DOMAIN tariff.elements /\ Prices(tariff.elements[e], dimension) # {}
      /\ Matches(tariff.elements[e].restrictions, context)
  BY <1>4
<1> HIDE DEF e, found
<1> DEFINE list == tariff.elements[e].price_components
<1>7. c \in Prices(tariff.elements[e], dimension)
  <2>1. IsList(list)
    BY <1>6 DEF IsTariff
  <2>2. Prices(tariff.elements[e], dimension) \in SUBSET (DOMAIN list)
    BY DEF Prices
  <2> HIDE DEF list
  <2> QED
    BY <1>6, <2>1, <2>2, LeastIndex
<1>8. c \in DOMAIN list /\ list[c].type = dimension
  BY <1>7 DEF Prices
<1> QED
  BY <1>1, <1>5, <1>6, <1>8

(* A tariff is selected because it is active, or because it is named.       *)
LEMMA SelectedBecause ==
    ASSUME NEW tariffs, IsList(tariffs), NEW wanted, NEW id, NEW at,
           SelectTariff(tariffs, wanted, id, at) # None
    PROVE  \E i \in DOMAIN tariffs :
              /\ SelectTariff(tariffs, wanted, id, at) = tariffs[i]
              /\ id = None => IsActiveAt(tariffs[i], at)
              /\ id # None => tariffs[i].id = id
<1> DEFINE active == {i \in DOMAIN tariffs : IsActiveAt(tariffs[i], at)}
           liked == {i \in active : wanted # None /\ tariffs[i].type = wanted}
           general == {i \in active : tariffs[i].type = None}
           best == IF liked # {} THEN liked ELSE IF general # {} THEN general ELSE active
           named == {i \in DOMAIN tariffs : tariffs[i].id = id}
<1>1. CASE id = None
  <2>1. active # {} /\ SelectTariff(tariffs, wanted, id, at) = tariffs[Least(best)]
    BY <1>1 DEF SelectTariff, SelectByPreference
  <2>2. best # {} /\ best \in SUBSET (DOMAIN tariffs) /\ best \subseteq active
    BY <2>1
  <2> HIDE DEF best
  <2>3. Least(best) \in best
    BY <2>2, LeastIndex
  <2> QED
    BY <1>1, <2>1, <2>2, <2>3
<1>2. CASE id # None
  <2>1. named # {} /\ SelectTariff(tariffs, wanted, id, at) = tariffs[Least(named)]
    BY <1>2 DEF SelectTariff
  <2>2. named \in SUBSET (DOMAIN tariffs) /\ \A i \in named : tariffs[i].id = id
    OBVIOUS
  <2> HIDE DEF named
  <2>3. Least(named) \in named
    BY <2>1, <2>2, LeastIndex
  <2> QED
    BY <1>2, <2>1, <2>2, <2>3
<1> QED
  BY <1>1, <1>2

(* Tariffs are told apart by their ids, and a clock shows an instant.       *)
DistinctTariffs ==
    \A s \in Sessions : \A i, j \in DOMAIN s.tariffs :
        s.tariffs[i].id = s.tariffs[j].id => s.tariffs[i] = s.tariffs[j]
ClocksShow == \A at \in Int : Offset[at] \in Int

(* Component c of element e prices a segment: why it does, and at what.      *)
Applies(tariff, s, kind, u, e, c) ==
    LET element == tariff.elements[e]
        component == element.price_components[c]
        context == ContextAt(session, kind, s.start, u, s.reserved)
    IN  /\ s.applied = <<e, c>>
        /\ Matches(element.restrictions, context)
        /\ c = Least(Prices(element, s.dimension))
        /\ component.type = s.dimension
        /\ \A f \in 1..(e - 1) : Prices(tariff.elements[f], s.dimension) # {}
                                   => ~Matches(tariff.elements[f].restrictions, context)
        /\ s.basis = tariff.basis /\ s.vat = component.vat
        /\ s.step_size = IF s.dimension = "FLAT" THEN 0 ELSE component.step_size
        /\ s.dimension \in Dimensions /\ s.start \in Int
        /\ s.reserved => s.dimension \in {"TIME", "FLAT"}
        /\ kind.tariff_id = None => IsActiveAt(tariff, s.start)
        /\ kind.tariff_id # None => tariff.id = kind.tariff_id

LEMMA AppliedIs ==
    ASSUME ReviewInv, DistinctTariffs, NEW j \in DOMAIN session.tariffs,
           NEW i \in PricedBy(session.tariffs[j])
    PROVE  \E kind \in Kinds, u \in Int :
           \E e \in DOMAIN session.tariffs[j].elements :
           \E c \in DOMAIN session.tariffs[j].elements[e].price_components :
              Applies(session.tariffs[j], segments[i], kind, u, e, c)
<1> DEFINE s == segments[i]
           tariffs == session.tariffs
           tariff == tariffs[j]
<1>1. IsPriced(s, session) /\ s.tariff = tariff.id
  <2>1. PICK S : segments \in Seq(S) /\ \A x \in S : IsPriced(x, session)
    BY DEF ReviewInv, ArePriced
  <2>2. i \in DOMAIN segments /\ segments[i].tariff = tariff.id
    BY DEF PricedBy
  <2>3. segments[i] \in S
    BY <2>1, <2>2
  <2> QED
    BY <2>1, <2>2, <2>3
<1>2. PICK kind \in Kinds, u \in Int :
         LET selected == SelectTariff(session.tariffs, session.wanted, kind.tariff_id, s.start)
             found == FindComponent(selected, s.dimension,
                                    ContextAt(session, kind, s.start, u, s.reserved))
         IN  /\ selected # None /\ found # None
             /\ s.applied = found /\ s.tariff = selected.id /\ s.basis = selected.basis
             /\ s.vat = Component(selected, found).vat
             /\ s.step_size = IF s.dimension = "FLAT" THEN 0 ELSE Component(selected, found).step_size
             /\ s.dimension \in Dimensions
             /\ s.reserved => s.dimension \in {"TIME", "FLAT"}
             /\ s.start \in Int
  BY <1>1 DEF IsPriced
<1> DEFINE selected == SelectTariff(tariffs, session.wanted, kind.tariff_id, s.start)
           context == ContextAt(session, kind, s.start, u, s.reserved)
<1>3. IsList(tariffs) /\ (\A k \in DOMAIN tariffs : IsTariff(tariffs[k]))
      /\ (\A k \in DOMAIN tariffs : tariffs[k].id = tariff.id => tariffs[k] = tariff)
  BY PricingAssumption DEF ReviewInv, RunInv, DistinctTariffs
<1>4. selected # None /\ s.tariff = selected.id
  BY <1>2
<1>5. /\ selected = tariff /\ IsTariff(tariff)
      /\ kind.tariff_id = None => IsActiveAt(tariff, s.start)
      /\ kind.tariff_id # None => tariff.id = kind.tariff_id
  <2> HIDE DEF tariffs
  <2>1. PICK k \in DOMAIN tariffs :
             /\ selected = tariffs[k]
             /\ kind.tariff_id = None => IsActiveAt(tariffs[k], s.start)
             /\ kind.tariff_id # None => tariffs[k].id = kind.tariff_id
    BY <1>3, <1>4, SelectedBecause
  <2> HIDE DEF selected
  <2>2. tariffs[k] = tariff
    BY <1>1, <1>3, <1>4, <2>1
  <2>3. IsTariff(tariff)
    BY <1>3, <2>2
  <2> QED
    BY <2>1, <2>2, <2>3
<1> DEFINE found == FindComponent(tariff, s.dimension, context)
<1>6. /\ found # None /\ s.applied = found /\ s.basis = tariff.basis
      /\ s.vat = Component(tariff, found).vat
      /\ s.step_size = IF s.dimension = "FLAT" THEN 0 ELSE Component(tariff, found).step_size
      /\ s.dimension \in Dimensions
      /\ s.reserved => s.dimension \in {"TIME", "FLAT"}
      /\ s.start \in Int
  BY <1>2, <1>5
<1> HIDE DEF tariff, context, s
<1>7. PICK e \in DOMAIN tariff.elements : \E c \in DOMAIN tariff.elements[e].price_components :
             /\ found = <<e, c>>
             /\ Matches(tariff.elements[e].restrictions, context)
             /\ c = Least(Prices(tariff.elements[e], s.dimension))
             /\ tariff.elements[e].price_components[c].type = s.dimension
             /\ \A f \in 1..(e - 1) : Prices(tariff.elements[f], s.dimension) # {}
                                        => ~Matches(tariff.elements[f].restrictions, context)
  BY <1>5, <1>6, NamesAreFound
<1>8. PICK c \in DOMAIN tariff.elements[e].price_components :
             /\ found = <<e, c>>
             /\ Matches(tariff.elements[e].restrictions, context)
             /\ c = Least(Prices(tariff.elements[e], s.dimension))
             /\ tariff.elements[e].price_components[c].type = s.dimension
             /\ \A f \in 1..(e - 1) : Prices(tariff.elements[f], s.dimension) # {}
                                        => ~Matches(tariff.elements[f].restrictions, context)
  BY <1>7
<1>9. Component(tariff, <<e, c>>) = tariff.elements[e].price_components[c]
  BY DEF Component
<1> HIDE DEF found
<1>10. Applies(tariff, s, kind, u, e, c)
  BY <1>5, <1>6, <1>8, <1>9 DEF Applies, context
<1> QED
  BY <1>10 DEF tariff, s

LEMMA ContextIs ==
    ASSUME ClocksShow, session \in Sessions, NEW kind, NEW at \in Int, NEW u \in Int, NEW reserving
    PROVE  LET context == ContextAt(session, kind, at, u, reserving)
           IN  /\ context.reserving = reserving
               /\ \A m \in Measures \ {"power", "current"} :
                     context.lower[m] \in Int /\ context.upper[m] = context.lower[m]
<1> DEFINE context == ContextAt(session, kind, at, u, reserving)
           local == at + Offset[at]
<1>1. local \in Int /\ session.start \in Int /\ DayLength \in Nat \ {0}
  BY PricingAssumption DEF ClocksShow
<1>2. local \div DayLength \in Int /\ at - session.start \in Int
  <2> HIDE DEF local
  <2> QED
    BY <1>1
<1>3. context.reserving = reserving
  BY DEF ContextAt
<1>4. /\ context.lower["date"] = local \div DayLength /\ context.upper["date"] = local \div DayLength
      /\ context.lower["energy"] = u /\ context.upper["energy"] = u
      /\ context.lower["duration"] = at - session.start /\ context.upper["duration"] = at - session.start
  BY DEF ContextAt, Measures
<1>5. \A m \in Measures \ {"power", "current"} : m \in {"date", "energy", "duration"}
  BY DEF Measures
<1> HIDE DEF context, local
<1> QED
  BY <1>2, <1>3, <1>4, <1>5 DEF context

LEMMA ComponentCodes ==
    ASSUME NEW tariff, NEW e, NEW c
    PROVE  LET element == tariff.elements[e]
               component == element.price_components[c]
               codes == ComponentFindings(tariff, e, c)
           IN  /\ "DuplicateDimension" \in codes => c # Least(Prices(element, component.type))
               /\ "UnreachableElement" \in codes => IsClaimed(tariff, e, component.type)
               /\ "FlatStepSize" \in codes => component.type = "FLAT"
               /\ "ZeroStepSize" \in codes => component.type # "FLAT" /\ component.step_size = 0
               /\ "UnusedTimeStepSize" \in codes => component.type = "TIME"
               /\ "TaxRateWithoutTax" \in codes => tariff.basis = "NOT_APPLICABLE"
               /\ "ReservationDimension" \in codes => /\ element.restrictions.reservation # None
                                                     /\ component.type \notin {"FLAT", "TIME"}
BY DEF ComponentFindings, Codes

LEMMA TariffCodes ==
    ASSUME NEW tariff
    PROVE  LET codes == TariffFindings(tariff)
           IN  /\ "NothingPricedByUse" \in codes => ~PricesAny(tariff, {"ENERGY", "TIME"})
               /\ "TaxIncludedWithoutRate" \in codes =>
                     \A e \in DOMAIN tariff.elements :
                     \A c \in DOMAIN tariff.elements[e].price_components :
                        tariff.elements[e].price_components[c].vat = None
               /\ "NeverActive" \in codes => None \notin {tariff.from, tariff.until}
                                             /\ tariff.until <= tariff.from
<1>1. ASSUME "TaxIncludedWithoutRate" \in TariffFindings(tariff),
             NEW e \in DOMAIN tariff.elements, NEW c \in DOMAIN tariff.elements[e].price_components
      PROVE  tariff.elements[e].price_components[c].vat = None
  <2> DEFINE list == tariff.elements[e].price_components
  <2>1. {x.vat : x \in Seqs!ToSet(list)} \subseteq {None}
    BY <1>1 DEF TariffFindings, Codes
  <2> HIDE DEF list
  <2>2. list[c] \in Seqs!ToSet(list)
    BY <1>1 DEF Seqs!ToSet, list
  <2> QED
    BY <2>1, <2>2 DEF list
<1>2. "NothingPricedByUse" \in TariffFindings(tariff) => ~PricesAny(tariff, {"ENERGY", "TIME"})
  BY DEF TariffFindings, Codes
<1>3. "NeverActive" \in TariffFindings(tariff) => None \notin {tariff.from, tariff.until}
                                                  /\ tariff.until <= tariff.from
  BY DEF TariffFindings, Codes
<1> QED
  BY <1>1, <1>2, <1>3

(* Who is not rounded up is billed what was measured.                       *)
LEMMA BilledIs ==
    ASSUME AreSegments(segments), NEW i \in DOMAIN segments,
           \/ ~IsQuantised(segments[i].dimension)
           \/ segments[i].step_size = 0
    PROVE  Billed(i) = segments[i].quantity
<1> DEFINE d == segments[i].dimension
           s == segments[i]
<1>1. IsFiniteSet(DOMAIN segments) /\ (\A k \in DOMAIN segments : IsSegment(segments[k]))
  BY SegmentsAre
<1>2. s.quantity \in Int
  BY <1>1 DEF IsSegment
<1>3. Measured(d) \in Int
  <2> HIDE DEF d
  <2>1. IsFiniteSet(Of(d)) /\ Of(d) \in SUBSET (DOMAIN segments)
    BY <1>1, FS_Subset DEF Of
  <2>2. [k \in Of(d) |-> segments[k].quantity] \in [Of(d) -> Int]
    BY <1>1, <2>1 DEF IsSegment
  <2> QED
    BY <2>1, <2>2, IntSums DEF Measured, Total
<1>4. i = Greatest(Of(d)) => Surplus(d) = 0
  <2>1. CASE ~IsQuantised(d)
    BY <2>1 DEF Surplus
  <2>2. CASE s.step_size = 0
    <3>1. ASSUME i = Greatest(Of(d)) PROVE Surplus(d) = 0 \/ Surplus(d) = Measured(d) - Measured(d)
      <4> DEFINE last == Greatest(Of(d))
      <4>1. segments[last].step_size = 0
        BY <2>2, <3>1
      <4> HIDE DEF d, last
      <4> QED
        BY <4>1 DEF Surplus, Quantised, last
    <3> QED
      BY <1>3, <3>1
  <2> QED
    BY <2>1, <2>2
<1>5. Billed(i) = s.quantity + (IF i = Greatest(Of(d)) THEN Surplus(d) ELSE 0)
  BY DEF Billed
<1> HIDE DEF d, s
<1>6. Billed(i) = s.quantity
  BY <1>2, <1>4, <1>5
<1> QED
  BY <1>6 DEF s

(* An element's findings are kept.                                         *)
LEMMA ElementKeeps ==
    ASSUME ReviewInv, DistinctTariffs, ClocksShow,
           NEW j \in DOMAIN session.tariffs, NEW e \in DOMAIN session.tariffs[j].elements
    PROVE  ElementKeepsWord(session.tariffs[j], e)
<1> DEFINE tariff == session.tariffs[j]
           element == tariff.elements[e]
           by(c) == {i \in PricedBy(tariff) : segments[i].applied = <<e, c>>}
<1>1. IsTariff(tariff) /\ session \in Sessions /\ AreSegments(segments)
  BY PricingAssumption DEF ReviewInv, RunInv
<1>2. ASSUME NEW c \in DOMAIN element.price_components, NEW i \in by(c)
      PROVE  /\ i \in DOMAIN segments
             /\ \E kind \in Kinds, u \in Int : Applies(tariff, segments[i], kind, u, e, c)
  <2>1. i \in PricedBy(tariff) /\ segments[i].applied = <<e, c>>
    OBVIOUS
  <2>2. PICK kind \in Kinds, u \in Int, f \in DOMAIN tariff.elements :
             \E d \in DOMAIN tariff.elements[f].price_components :
                Applies(tariff, segments[i], kind, u, f, d)
    BY <2>1, AppliedIs
  <2>3. PICK d \in DOMAIN tariff.elements[f].price_components :
             Applies(tariff, segments[i], kind, u, f, d)
    BY <2>2
  <2>4. segments[i].applied = <<f, d>>
    BY <2>3 DEF Applies
  <2>5. e = f /\ c = d
    BY <2>1, <2>4
  <2>6. i \in DOMAIN segments
    BY <2>1 DEF PricedBy
  <2> QED
    BY <2>3, <2>5, <2>6
<1> HIDE DEF by, tariff
<1>3. ASSUME NEW c \in DOMAIN element.price_components, NEW i \in by(c)
      PROVE  LET codes == ComponentFindings(tariff, e, c)
                 s == segments[i]
             IN  /\ codes \cap {"DuplicateDimension", "ReservationDimension"} = {}
                 /\ "UnreachableElement" \in codes => s.reserved
                 /\ codes \cap {"FlatStepSize", "ZeroStepSize"} # {} => Billed(i) = s.quantity
                 /\ "UnusedTimeStepSize" \in codes /\ Of("PARKING_TIME") # {}
                        => Billed(i) = s.quantity
                 /\ "TaxRateWithoutTax" \in codes => TaxOf(i) = 0
                 /\ ImpossibleRestrictions(element) \subseteq {"power", "current"}
  <2> DEFINE s == segments[i]
             codes == ComponentFindings(tariff, e, c)
             component == element.price_components[c]
  <2>1. i \in DOMAIN segments
    BY <1>2, <1>3
  <2>2. PICK kind \in Kinds, u \in Int : Applies(tariff, s, kind, u, e, c)
    BY <1>2, <1>3
  <2> DEFINE context == ContextAt(session, kind, s.start, u, s.reserved)
  <2>3. /\ Matches(element.restrictions, context)
        /\ c = Least(Prices(element, s.dimension)) /\ component.type = s.dimension
        /\ s.basis = tariff.basis /\ s.vat = component.vat
        /\ s.step_size = IF s.dimension = "FLAT" THEN 0 ELSE component.step_size
        /\ s.dimension \in Dimensions /\ s.start \in Int
        /\ s.reserved => s.dimension \in {"TIME", "FLAT"}
    BY <2>2 DEF Applies
  <2>4. \A f \in 1..(e - 1) : Prices(tariff.elements[f], s.dimension) # {}
                               => ~Matches(tariff.elements[f].restrictions, context)
    BY <2>2 DEF Applies
  <2>5. /\ context.reserving = s.reserved
        /\ \A m \in Measures \ {"power", "current"} :
              context.lower[m] \in Int /\ context.upper[m] = context.lower[m]
    <3> DEFINE at == s.start
               reserving == s.reserved
    <3>1. at \in Int /\ session \in Sessions
      BY <1>1, <2>3
    <3> HIDE DEF s, at, reserving
    <3>2. /\ ContextAt(session, kind, at, u, reserving).reserving = reserving
          /\ \A m \in Measures \ {"power", "current"} :
                /\ ContextAt(session, kind, at, u, reserving).lower[m] \in Int
                /\ ContextAt(session, kind, at, u, reserving).upper[m]
                      = ContextAt(session, kind, at, u, reserving).lower[m]
      BY <3>1, ContextIs
    <3> QED
      BY <3>2 DEF at, reserving
  <2> HIDE DEF context
  <2>6. "DuplicateDimension" \notin codes
    BY <2>3, ComponentCodes
  <2>7. "ReservationDimension" \notin codes
    <3>1. element.restrictions.reservation # None => context.reserving
      BY <2>3 DEF Matches, Reserves
    <3> QED
      BY <2>3, <2>5, <3>1, ComponentCodes
  <2>8. ASSUME "UnreachableElement" \in codes, ~s.reserved PROVE FALSE
    <3>1. IsClaimed(tariff, e, s.dimension)
      BY <2>3, <2>8, ComponentCodes
    <3>2. PICK f \in 1..(e - 1) : IsFallback(tariff.elements[f])
                                 /\ Prices(tariff.elements[f], s.dimension) # {}
      BY <3>1 DEF IsClaimed
    <3> DEFINE r == tariff.elements[f].restrictions
    <3>3. /\ r.reservation = None /\ r.start_time = None /\ r.end_time = None
          /\ DOMAIN r.min = {} /\ DOMAIN r.max = {} /\ r.day_of_week = {}
      BY <3>2 DEF IsFallback
    <3> HIDE DEF r
    <3>4. ~context.reserving
      BY <2>5, <2>8
    <3>5. Matches(r, context)
      BY <3>3, <3>4 DEF Matches, Reserves, InWindow
    <3> QED
      BY <2>4, <3>2, <3>5 DEF r
  <2>9. ASSUME codes \cap {"FlatStepSize", "ZeroStepSize"} # {} PROVE Billed(i) = s.quantity
    <3>1. component.type = "FLAT" \/ (component.type # "FLAT" /\ component.step_size = 0)
      BY <2>9, ComponentCodes
    <3>2. ~IsQuantised("FLAT")
      BY DEF IsQuantised
    <3> QED
      BY <1>1, <2>1, <2>3, <3>1, <3>2, BilledIs
  <2>10. ASSUME "UnusedTimeStepSize" \in codes, Of("PARKING_TIME") # {} PROVE Billed(i) = s.quantity
    <3>1. s.dimension = "TIME"
      BY <2>3, <2>10, ComponentCodes
    <3>2. ~IsQuantised("TIME")
      BY <2>10 DEF IsQuantised
    <3> QED
      BY <1>1, <2>1, <3>1, <3>2, BilledIs
  <2>11. ASSUME "TaxRateWithoutTax" \in codes PROVE TaxOf(i) = 0
    <3>1. s.basis = "NOT_APPLICABLE"
      BY <2>3, <2>11, ComponentCodes
    <3> QED
      BY <3>1 DEF TaxOf, Tax
  <2>12. ASSUME NEW m \in ImpossibleRestrictions(element), m \notin {"power", "current"} PROVE FALSE
    <3> DEFINE r == element.restrictions
    <3>1. m \in DOMAIN r.min /\ m \in DOMAIN r.max /\ r.min[m] >= r.max[m]
      BY <2>12 DEF ImpossibleRestrictions
    <3>2. AreBounds(r)
      BY <1>1 DEF IsTariff, tariff
    <3> HIDE DEF r
    <3>3. r.min[m] \in Int /\ r.max[m] \in Int /\ m \in Measures
      BY <3>1, <3>2 DEF AreBounds
    <3>4. context.lower[m] \in Int /\ context.upper[m] = context.lower[m]
      BY <2>5, <2>12, <3>3
    <3>5. context.lower[m] >= r.min[m] /\ context.upper[m] < r.max[m]
      BY <2>3, <3>1 DEF Matches, r
    <3> QED
      BY <3>1, <3>3, <3>4, <3>5
  <2> HIDE DEF s, codes, component
  <2>13. /\ codes \cap {"DuplicateDimension", "ReservationDimension"} = {}
         /\ "UnreachableElement" \in codes => s.reserved
         /\ codes \cap {"FlatStepSize", "ZeroStepSize"} # {} => Billed(i) = s.quantity
         /\ "UnusedTimeStepSize" \in codes /\ Of("PARKING_TIME") # {} => Billed(i) = s.quantity
         /\ "TaxRateWithoutTax" \in codes => TaxOf(i) = 0
         /\ ImpossibleRestrictions(element) \subseteq {"power", "current"}
    BY <2>6, <2>7, <2>8, <2>9, <2>10, <2>11, <2>12
  <2> QED
    BY <2>13 DEF s, codes
<1>4. ElementKeepsWord(tariff, e)
  BY <1>3 DEF ElementKeepsWord, by
<1> QED
  BY <1>4 DEF tariff

LEMMA TariffKeeps ==
    ASSUME ReviewInv, DistinctTariffs, NEW j \in DOMAIN session.tariffs
    PROVE  TariffKeepsWord(session.tariffs[j])
<1> DEFINE tariff == session.tariffs[j]
<1>1. IsTariff(tariff)
  BY PricingAssumption DEF ReviewInv, RunInv
<1>2. ASSUME NEW i \in PricedBy(tariff)
      PROVE  LET codes == TariffFindings(tariff)
                 s == segments[i]
             IN  /\ "NothingPricedByUse" \in codes => s.dimension \in {"FLAT", "PARKING_TIME"}
                 /\ "TaxIncludedWithoutRate" \in codes => TaxOf(i) = 0
                 /\ "NeverActive" \in codes => \E k \in Kinds : k.tariff_id = tariff.id
  <2>1. PICK kind \in Kinds, u \in Int, e \in DOMAIN tariff.elements :
             \E c \in DOMAIN tariff.elements[e].price_components :
                Applies(tariff, segments[i], kind, u, e, c)
    BY <1>2, AppliedIs
  <2>2. PICK c \in DOMAIN tariff.elements[e].price_components :
             Applies(tariff, segments[i], kind, u, e, c)
    BY <2>1
  <2> DEFINE s == segments[i]
             component == tariff.elements[e].price_components[c]
             codes == TariffFindings(tariff)
  <2> HIDE DEF tariff
  <2>3. /\ component.type = s.dimension /\ s.vat = component.vat
        /\ s.dimension \in Dimensions /\ s.start \in Int
        /\ kind.tariff_id = None => IsActiveAt(tariff, s.start)
        /\ kind.tariff_id # None => tariff.id = kind.tariff_id
    BY <2>2 DEF Applies
  <2>4. ASSUME "NothingPricedByUse" \in codes PROVE s.dimension \in {"FLAT", "PARKING_TIME"}
    <3>1. c \in Prices(tariff.elements[e], s.dimension)
      BY <2>3 DEF Prices
    <3>2. s.dimension \notin {"ENERGY", "TIME"}
      BY <2>1, <2>4, <3>1, TariffCodes DEF PricesAny
    <3> QED
      BY <2>3, <3>2 DEF Dimensions
  <2>5. ASSUME "TaxIncludedWithoutRate" \in codes PROVE TaxOf(i) = 0
    <3>1. s.vat = None
      BY <2>1, <2>2, <2>3, <2>5, TariffCodes
    <3> QED
      BY <3>1 DEF TaxOf, Tax
  <2>6. ASSUME "NeverActive" \in codes PROVE \E k \in Kinds : k.tariff_id = tariff.id
    <3>1. tariff.from # None /\ tariff.until # None /\ tariff.until <= tariff.from
      BY <2>6, TariffCodes
    <3>2. tariff.from \in Int /\ tariff.until \in Int
      BY <1>1, <3>1 DEF IsTariff
    <3>3. ~IsActiveAt(tariff, s.start)
      <4> DEFINE at == s.start
      <4>1. at \in Int
        BY <2>3
      <4> HIDE DEF at
      <4>2. ~IsActiveAt(tariff, at)
        BY <3>1, <3>2, <4>1 DEF IsActiveAt
      <4> QED
        BY <4>2 DEF at
    <3> QED
      BY <2>3, <3>3
  <2> QED
    BY <2>4, <2>5, <2>6
<1> HIDE DEF tariff
<1>3. TariffKeepsWord(tariff)
  BY <1>2 DEF TariffKeepsWord
<1> QED
  BY <1>3 DEF tariff

(* What lint() finds of a tariff is how the engine prices by it, for any    *)
(* tariffs with ids of their own, and any periods and clock: LintKeepsWord  *)
(* of lint() and find_component(), with what it excepts of three findings:  *)
(* an unreachable component may price reserved time, an unused step_size    *)
(* may count where nobody parked, and of impossible ranges only those of    *)
(* energy, duration and date are said to exclude everything.                *)
THEOREM LintIsRight ==
    ASSUME DistinctTariffs, ClocksShow
    PROVE  Spec => []LintKeepsWord
<1>1. ReviewInv => LintKeepsWord
  <2> SUFFICES ASSUME ReviewInv, NEW tariff \in Seqs!ToSet(session.tariffs)
               PROVE  /\ TariffKeepsWord(tariff)
                      /\ \A e \in DOMAIN tariff.elements : ElementKeepsWord(tariff, e)
    BY DEF LintKeepsWord
  <2>1. PICK j \in DOMAIN session.tariffs : tariff = session.tariffs[j]
    BY DEF Seqs!ToSet
  <2> QED
    BY <2>1, TariffKeeps, ElementKeeps
<1> QED
  BY <1>1, ReviewBegins, ReviewKeeps, PTL DEF Spec

-----------------------------------------------------------------------------
(* The tally of a list of segments: what of a dimension there is, what it   *)
(* is worth, and the last segment of it.                                   *)

LEMMA EmptySum ==
    ASSUME NEW f, DOMAIN f = {}, f = [x \in {} |-> f[x]]
    PROVE  SumOf(f) = 0
<1>1. f \in [{} -> {0}]
  OBVIOUS
<1>2. IsFiniteSet({}) /\ 0 \in {0} /\ \A a, b \in {0} : a + b \in {0}
  BY FS_EmptySet
<1>3. SumOf(f) \in {0}
  BY <1>1, <1>2, SumIn
<1> QED
  BY <1>3

LEMMA SumExtends ==
    ASSUME NEW D, IsFiniteSet(D), NEW x, x \notin D, NEW f \in [D -> Int],
           NEW g \in [D \cup {x} -> Int], \A y \in D : g[y] = f[y]
    PROVE  SumOf(g) = g[x] + SumOf(f)
<1> DEFINE E == D \cup {x}
<1>1. IsFiniteSet(E) /\ x \in E /\ E \ {x} = D
  BY FS_AddElement
<1> HIDE DEF E
<1>2. g \in [E -> Int]
  BY DEF E
<1>3. f \in [E \ {x} -> Int] /\ \A y \in E \ {x} : f[y] = g[y]
  BY <1>1
<1> QED
  BY <1>1, <1>2, <1>3, SumSplits

LEMMA ConstantSum ==
    ASSUME NEW D, IsFiniteSet(D), NEW c \in Int
    PROVE  SumOf([x \in D |-> c]) = Cardinality(D) * c
<1> DEFINE Good == {S \in SUBSET D : SumOf([x \in S |-> c]) = Cardinality(S) * c}
<1>1. ASSUME NEW S \in SUBSET D, \A U \in SUBSET S : U # S => U \in Good
      PROVE  S \in Good
  <2>1. CASE S = {}
    <3> DEFINE f == [x \in S |-> c]
    <3>1. DOMAIN f = {} /\ f = [x \in {} |-> f[x]]
      BY <2>1
    <3> HIDE DEF f
    <3>2. SumOf(f) = 0
      BY <3>1, EmptySum
    <3>3. Cardinality(S) = 0 /\ 0 * c = 0
      BY <2>1, FS_EmptySet
    <3> QED
      BY <3>2, <3>3 DEF f
  <2>2. CASE S # {}
    <3>1. PICK x \in S : TRUE
      BY <2>2
    <3> DEFINE U == S \ {x}
               f == [y \in U |-> c]
               g == [y \in S |-> c]
    <3>2. SumOf(f) = Cardinality(U) * c
      BY <1>1, <3>1
    <3>3. IsFiniteSet(S) /\ Cardinality(U) = Cardinality(S) - 1 /\ Cardinality(S) \in Nat
      BY <3>1, FS_Subset, FS_RemoveElement, FS_CardinalityType
    <3>4. f \in [S \ {x} -> Int] /\ g \in [S -> Int] /\ g[x] = c /\ \A y \in S \ {x} : f[y] = g[y]
      BY <3>1
    <3> HIDE DEF f, g
    <3>5. SumOf(g) = g[x] + SumOf(f)
      BY <3>1, <3>3, <3>4, SumSplits
    <3> DEFINE n == Cardinality(S)
    <3>6. SumOf(g) = c + (n - 1) * c
      BY <3>2, <3>3, <3>4, <3>5
    <3>7. n \in Int
      BY <3>3
    <3> HIDE DEF n, U
    <3>8. c + (n - 1) * c = n * c
      BY <3>7
    <3> QED
      BY <3>6, <3>8 DEF g, n
  <2> QED
    BY <2>1, <2>2
<1> HIDE DEF Good
<1>2. \A S \in SUBSET D : S \in Good
  BY <1>1, BySubsets
<1> QED
  BY <1>2 DEF Good

OfIn(list, d) == {i \in DOMAIN list : list[i].dimension = d}
QuantityIn(list, d) == Total(OfIn(list, d), LAMBDA i : list[i].quantity)
WorthIn(list, d) == Total(OfIn(list, d), LAMBDA i : list[i].quantity * list[i].price)
Tally(list, d) ==
    [some |-> OfIn(list, d) # {}, quantity |-> QuantityIn(list, d), worth |-> WorthIn(list, d),
     last |-> IF OfIn(list, d) = {} THEN None ELSE list[Greatest(OfIn(list, d))]]
With(tally, s) ==
    [some |-> TRUE, quantity |-> s.quantity + tally.quantity,
     worth |-> s.quantity * s.price + tally.worth, last |-> s]

LEMMA TallyGrows ==
    ASSUME NEW list, AreSegments(list), NEW s, IsSegment(s), NEW d
    PROVE  LET more == list \o <<s>>
           IN  /\ AreSegments(more)
               /\ s.dimension = d => Tally(more, d) = With(Tally(list, d), s)
               /\ s.dimension # d => Tally(more, d) = Tally(list, d)
<1> DEFINE more == list \o <<s>>
           n == Len(list) + 1
           D == OfIn(list, d)
           E == OfIn(more, d)
<1>1. AreSegments(<<s>>) /\ AreSegments(more)
  BY SegmentsJoin
<1>2. /\ IsFiniteSet(DOMAIN list) /\ (\A i \in DOMAIN list : IsSegment(list[i]))
      /\ IsFiniteSet(DOMAIN more) /\ (\A i \in DOMAIN more : IsSegment(more[i]))
  BY <1>1, SegmentsAre
<1>3. /\ Len(list) \in Nat /\ DOMAIN list = 1..Len(list)
      /\ DOMAIN more = 1..n /\ more[n] = s /\ \A i \in DOMAIN list : more[i] = list[i]
  <2>1. PICK S : list \in Seq(S)
    BY DEF AreSegments
  <2> DEFINE T == S \cup {s}
  <2>2. list \in Seq(T) /\ s \in T
    BY <2>1
  <2> HIDE DEF T
  <2> QED
    BY <2>2
<1>4. n \notin DOMAIN list /\ DOMAIN more = DOMAIN list \cup {n} /\ n \in Int
  BY <1>3
<1> HIDE DEF n, more
<1>5. IsFiniteSet(D) /\ D \subseteq DOMAIN list /\ n \notin D
  BY <1>2, <1>4, FS_Subset DEF OfIn
<1> DEFINE q == [i \in D |-> list[i].quantity]
           w == [i \in D |-> list[i].quantity * list[i].price]
           r == [i \in E |-> more[i].quantity]
           v == [i \in E |-> more[i].quantity * more[i].price]
<1>6. /\ QuantityIn(list, d) = SumOf(q) /\ WorthIn(list, d) = SumOf(w)
      /\ QuantityIn(more, d) = SumOf(r) /\ WorthIn(more, d) = SumOf(v)
  BY DEF QuantityIn, WorthIn, Total
<1>7. CASE s.dimension # d
  <2>1. E = D
    BY <1>3, <1>4, <1>7 DEF OfIn
  <2>2. r = q /\ v = w
    BY <1>3, <1>5, <2>1
  <2>3. D # {} => more[Greatest(D)] = list[Greatest(D)]
    <3>1. DOMAIN list \in SUBSET Int
      BY <1>3
    <3>2. D # {} => Greatest(D) \in D
      BY <1>5, <3>1, GreatestIs
    <3> QED
      BY <1>3, <1>5, <3>2
  <2>4. Tally(more, d) = Tally(list, d)
    <3> HIDE DEF D, q, w, r, v
    <3>1. QuantityIn(list, d) = QuantityIn(more, d) /\ WorthIn(list, d) = WorthIn(more, d)
      BY <1>6, <2>2
    <3>2. (IF E = {} THEN None ELSE more[Greatest(E)]) = IF D = {} THEN None ELSE list[Greatest(D)]
      BY <2>1, <2>3
    <3> QED
      BY <2>1, <3>1, <3>2 DEF Tally, D
  <2> QED
    BY <1>1, <1>7, <2>4 DEF more
<1>8. CASE s.dimension = d
  <2>1. E = D \cup {n}
    BY <1>3, <1>4, <1>8 DEF OfIn
  <2>2. \A i \in D : list[i].quantity \in Int /\ list[i].quantity * list[i].price \in Int
    BY <1>2, <1>5 DEF IsSegment
  <2>3. s.quantity \in Int /\ s.quantity * s.price \in Int
    BY DEF IsSegment
  <2>4. q \in [D -> Int] /\ w \in [D -> Int]
    BY <2>2
  <2>5. /\ r \in [D \cup {n} -> Int] /\ r[n] = s.quantity /\ \A i \in D : r[i] = q[i]
    <3>1. \A i \in D : r[i] = q[i] /\ i \in E
      BY <1>3, <1>5, <2>1
    <3>2. r[n] = s.quantity
      BY <1>3, <2>1
    <3> QED
      BY <2>1, <2>3, <2>4, <3>1, <3>2
  <2>6. /\ v \in [D \cup {n} -> Int] /\ v[n] = s.quantity * s.price /\ \A i \in D : v[i] = w[i]
    <3>1. \A i \in D : v[i] = w[i] /\ i \in E
      BY <1>3, <1>5, <2>1
    <3>2. v[n] = s.quantity * s.price
      BY <1>3, <2>1
    <3> QED
      BY <2>1, <2>3, <2>4, <3>1, <3>2
  <2>7. E # {} /\ Greatest(E) = n
    <3>1. E \in SUBSET Int /\ IsFiniteSet(E) /\ E # {}
      BY <1>3, <1>4, <1>5, <2>1, FS_AddElement
    <3> HIDE DEF E
    <3>2. Greatest(E) \in E /\ \A x \in E : Greatest(E) >= x
      BY <3>1, GreatestIs
    <3>3. \A x \in D : x < n
      BY <1>3, <1>5 DEF n
    <3> QED
      BY <1>4, <2>1, <3>1, <3>2, <3>3
  <2> HIDE DEF D, E, q, w, r, v
  <2>8. SumOf(r) = s.quantity + SumOf(q)
    BY <1>5, <2>4, <2>5, SumExtends
  <2>9. SumOf(v) = s.quantity * s.price + SumOf(w)
    BY <1>5, <2>4, <2>6, SumExtends
  <2>10. Tally(more, d) = With(Tally(list, d), s)
    <3>1. /\ QuantityIn(more, d) = s.quantity + QuantityIn(list, d)
          /\ WorthIn(more, d) = s.quantity * s.price + WorthIn(list, d)
      BY <1>6, <2>8, <2>9
    <3>2. OfIn(more, d) # {} /\ more[Greatest(OfIn(more, d))] = s
      BY <1>3, <2>7 DEF E
    <3> QED
      BY <3>1, <3>2 DEF Tally, With
  <2> QED
    BY <1>1, <1>8, <2>10 DEF more
<1> QED
  BY <1>7, <1>8

-----------------------------------------------------------------------------
(* What a period adds to the tallies.                                      *)

Added(kind, length, q) ==
    IF q \in Priced(TariffOf(kind), kind, length) THEN <<SegmentOf(kind, q)>> ELSE <<>>
After(kind, length, q, tally) ==
    IF q \in Priced(TariffOf(kind), kind, length) THEN With(tally, SegmentOf(kind, q)) ELSE tally

FlatIs(kind) == FlatAtStart(TariffOf(kind), kind)
AddedFlat(kind) == IF ChargesFlat(FlatIs(kind)) THEN <<FlatSegment(TariffOf(kind), kind)>> ELSE <<>>
AfterFlat(kind, tally) ==
    IF ChargesFlat(FlatIs(kind)) THEN With(tally, FlatSegment(TariffOf(kind), kind)) ELSE tally

LEMMA NothingJoins ==
    ASSUME NEW list, AreSegments(list)
    PROVE  list \o <<>> = list
<1>1. PICK S : list \in Seq(S)
  BY DEF AreSegments
<1> QED
  BY <1>1

LEMMA SegmentIs ==
    ASSUME RunInv, NEW kind \in Kinds, NEW length \in Int, TariffOf(kind) # None,
           NEW q \in Priced(TariffOf(kind), kind, length)
    PROVE  LET s == SegmentOf(kind, q)
           IN  IsSegment(s) /\ s.dimension = q.dimension /\ s.quantity = q.quantity
<1> DEFINE tariff == TariffOf(kind)
           found == FindComponent(tariff, q.dimension, AtStart(kind, q.reserving))
<1>1. IsTariff(tariff)
  BY TariffIs DEF RunInv
<1>2. found # None /\ q \in Quantities(kind, length)
  BY DEF Priced
<1>3. IsComponent(Component(tariff, found))
  <2> HIDE DEF tariff
  <2> QED
    BY <1>1, <1>2, FoundIs
<1>4. q.quantity \in Int
  BY <1>2, QuantitiesIn
<1>5. SegmentOf(kind, q) = Segment(tariff, found, q)
  BY DEF SegmentOf
<1> HIDE DEF tariff, found
<1> QED
  BY <1>3, <1>4, <1>5 DEF Segment, IsSegment, IsComponent

LEMMA TallyTakesPart ==
    ASSUME RunInv, NEW kind \in Kinds, NEW length \in Int, TariffOf(kind) # None,
           NEW list, AreSegments(list), NEW q, NEW d
    PROVE  LET more == list \o Added(kind, length, q)
           IN  /\ AreSegments(more)
               /\ q.dimension = d => Tally(more, d) = After(kind, length, q, Tally(list, d))
               /\ q.dimension # d => Tally(more, d) = Tally(list, d)
<1> DEFINE s == SegmentOf(kind, q)
<1>1. CASE q \in Priced(TariffOf(kind), kind, length)
  <2>1. Added(kind, length, q) = <<s>> /\ After(kind, length, q, Tally(list, d)) = With(Tally(list, d), s)
    BY <1>1 DEF Added, After
  <2>2. IsSegment(s) /\ s.dimension = q.dimension
    BY <1>1, SegmentIs
  <2> HIDE DEF s
  <2> QED
    BY <2>1, <2>2, TallyGrows
<1>2. CASE q \notin Priced(TariffOf(kind), kind, length)
  <2>1. Added(kind, length, q) = <<>> /\ After(kind, length, q, Tally(list, d)) = Tally(list, d)
    BY <1>2 DEF Added, After
  <2> QED
    BY <2>1, NothingJoins
<1> QED
  BY <1>1, <1>2

LEMMA FlatSegmentIs ==
    ASSUME RunInv, NEW kind \in Kinds, TariffOf(kind) # None, FlatIs(kind) # None
    PROVE  LET s == FlatSegment(TariffOf(kind), kind)
           IN  /\ IsSegment(s) /\ s.dimension = "FLAT" /\ s.quantity = 1
               /\ s.price = Component(TariffOf(kind), FlatIs(kind)).price /\ s.step_size = 0
<1> DEFINE tariff == TariffOf(kind)
           found == FlatIs(kind)
           q == [dimension |-> "FLAT", quantity |-> 1,
                 reserving |-> FindComponent(tariff, "FLAT", AtStart(kind, FALSE)) = None]
<1>1. IsTariff(tariff)
  BY TariffIs DEF RunInv
<1>2. \/ found = FindComponent(tariff, "FLAT", AtStart(kind, FALSE))
      \/ found = FindComponent(tariff, "FLAT", AtStart(kind, TRUE))
  BY DEF FlatIs, FlatAtStart, FlatFound
<1>3. IsComponent(Component(tariff, found))
  <2> HIDE DEF found, tariff
  <2>1. found # None
    BY DEF found
  <2> QED
    BY <1>1, <1>2, <2>1, FoundIs
<1>4. FlatSegment(tariff, kind) = [Segment(tariff, found, q) EXCEPT !.step_size = 0]
  BY DEF FlatSegment, FlatIs
<1>5. q.dimension = "FLAT" /\ q.quantity = 1
  OBVIOUS
<1> HIDE DEF found, tariff, q
<1>6. /\ IsSegment(FlatSegment(tariff, kind)) /\ FlatSegment(tariff, kind).dimension = "FLAT"
      /\ FlatSegment(tariff, kind).quantity = 1 /\ FlatSegment(tariff, kind).step_size = 0
      /\ FlatSegment(tariff, kind).price = Component(tariff, found).price
  BY <1>3, <1>4, <1>5 DEF Segment, IsSegment, IsComponent
<1> QED
  BY <1>6 DEF tariff, found

LEMMA TallyTakesFlat ==
    ASSUME RunInv, NEW kind \in Kinds, TariffOf(kind) # None,
           NEW list, AreSegments(list), NEW d
    PROVE  LET more == list \o AddedFlat(kind)
           IN  /\ d = "FLAT" => Tally(more, d) = AfterFlat(kind, Tally(list, d))
               /\ d # "FLAT" => Tally(more, d) = Tally(list, d)
<1> DEFINE s == FlatSegment(TariffOf(kind), kind)
<1>1. CASE ChargesFlat(FlatIs(kind))
  <2>1. AddedFlat(kind) = <<s>> /\ AfterFlat(kind, Tally(list, d)) = With(Tally(list, d), s)
    BY <1>1 DEF AddedFlat, AfterFlat
  <2>2. IsSegment(s) /\ s.dimension = "FLAT"
    BY <1>1, FlatSegmentIs DEF ChargesFlat
  <2> HIDE DEF s
  <2> QED
    BY <2>1, <2>2, TallyGrows
<1>2. CASE ~ChargesFlat(FlatIs(kind))
  <2>1. AddedFlat(kind) = <<>> /\ AfterFlat(kind, Tally(list, d)) = Tally(list, d)
    BY <1>2 DEF AddedFlat, AfterFlat
  <2> QED
    BY <2>1, NothingJoins
<1> QED
  BY <1>1, <1>2

LEMMA PartDimensions ==
    ASSUME NEW kind, NEW length
    PROVE  /\ Parts(kind, length)[1].dimension = "ENERGY"
           /\ Parts(kind, length)[2].dimension = "TIME"
           /\ Parts(kind, length)[3].dimension = "TIME"
           /\ Parts(kind, length)[4].dimension = "PARKING_TIME"
BY DEF Parts

LEMMA PeriodTallies ==
    ASSUME RunInv, AreSegments(segments), NEW kind \in Kinds, NEW length \in 1..MaxLength,
           PricePeriod(kind, length)
    PROVE  LET part == Parts(kind, length)
               before(d) == Tally(segments, d)
           IN  /\ Tally(segments', "ENERGY") = After(kind, length, part[1], before("ENERGY"))
               /\ Tally(segments', "TIME")
                     = After(kind, length, part[3], After(kind, length, part[2], before("TIME")))
               /\ Tally(segments', "PARKING_TIME")
                     = After(kind, length, part[4], before("PARKING_TIME"))
               /\ Tally(segments', "FLAT") = AfterFlat(kind, before("FLAT"))
<1> DEFINE part == Parts(kind, length)
           one == segments \o Added(kind, length, part[1])
           two == one \o Added(kind, length, part[2])
           three == two \o Added(kind, length, part[3])
           four == three \o Added(kind, length, part[4])
<1>1. segments' = four \o AddedFlat(kind)
  BY DEF PricePeriod, Added, AddedFlat, SegmentOf, FlatIs
<1>2. TariffOf(kind) # None /\ length \in Int
  BY PricingAssumption DEF PricePeriod
<1>3. /\ part[1].dimension = "ENERGY" /\ part[2].dimension = "TIME"
      /\ part[3].dimension = "TIME" /\ part[4].dimension = "PARKING_TIME"
  BY PartDimensions
<1> HIDE DEF part, four
<1>4. /\ AreSegments(one)
      /\ Tally(one, "ENERGY") = After(kind, length, part[1], Tally(segments, "ENERGY"))
      /\ \A d \in {"TIME", "PARKING_TIME", "FLAT"} : Tally(one, d) = Tally(segments, d)
  BY <1>2, <1>3, TallyTakesPart
<1> HIDE DEF one
<1>5. /\ AreSegments(two)
      /\ Tally(two, "TIME") = After(kind, length, part[2], Tally(one, "TIME"))
      /\ \A d \in {"ENERGY", "PARKING_TIME", "FLAT"} : Tally(two, d) = Tally(one, d)
  BY <1>2, <1>3, <1>4, TallyTakesPart
<1> HIDE DEF two
<1>6. /\ AreSegments(three)
      /\ Tally(three, "TIME") = After(kind, length, part[3], Tally(two, "TIME"))
      /\ \A d \in {"ENERGY", "PARKING_TIME", "FLAT"} : Tally(three, d) = Tally(two, d)
  BY <1>2, <1>3, <1>5, TallyTakesPart
<1> HIDE DEF three
<1>7. /\ AreSegments(four)
      /\ Tally(four, "PARKING_TIME") = After(kind, length, part[4], Tally(three, "PARKING_TIME"))
      /\ \A d \in {"ENERGY", "TIME", "FLAT"} : Tally(four, d) = Tally(three, d)
  BY <1>2, <1>3, <1>6, TallyTakesPart DEF four
<1>8. /\ Tally(segments', "FLAT") = AfterFlat(kind, Tally(four, "FLAT"))
      /\ \A d \in {"ENERGY", "TIME", "PARKING_TIME"} : Tally(segments', d) = Tally(four, d)
  BY <1>1, <1>2, <1>7, TallyTakesFlat
<1> QED
  BY <1>4, <1>5, <1>6, <1>7, <1>8 DEF part

-----------------------------------------------------------------------------
(* What a CDR's own totals say.                                            *)

LEMMA SingleSum ==
    ASSUME NEW x, NEW f \in [{x} -> Int]
    PROVE  SumOf(f) = f[x]
<1> DEFINE g == [y \in {x} \ {x} |-> f[y]]
<1>1. SumOf(f) = f[x] + SumOf(g)
  <2>1. IsFiniteSet({x}) /\ x \in {x}
    BY FS_Singleton
  <2> QED
    BY <2>1, SumTakes
<1>2. DOMAIN g = {} /\ g = [y \in {} |-> g[y]]
  OBVIOUS
<1> HIDE DEF g
<1>3. SumOf(g) = 0
  BY <1>2, EmptySum
<1> QED
  BY <1>1, <1>3

(* Each dimension's part of a period.                                       *)
LEMMA OnePart ==
    ASSUME NEW kind \in Kinds, NEW length \in Int, NEW d, NEW k \in {1, 4},
           d = Parts(kind, length)[k].dimension
    PROVE  LET q == Parts(kind, length)[k]
           IN  {p \in Quantities(kind, length) : p.dimension = d} = IF q.quantity = 0 THEN {} ELSE {q}
<1> DEFINE part == Parts(kind, length)
<1>1. /\ part[1].dimension = "ENERGY" /\ part[2].dimension = "TIME"
      /\ part[3].dimension = "TIME" /\ part[4].dimension = "PARKING_TIME"
  BY PartDimensions
<1>2. Quantities(kind, length) = {q \in {part[i] : i \in 1..4} : q.quantity # 0}
  BY QuantitiesIn
<1> HIDE DEF part
<1>3. \A i \in 1..4 : i = 1 \/ i = 2 \/ i = 3 \/ i = 4
  OBVIOUS
<1>4. \A p \in Quantities(kind, length) : p.dimension = d => p = part[k]
  <2> SUFFICES ASSUME NEW i \in 1..4, part[i].dimension = d PROVE i = k
    BY <1>2
  <2>1. k = 1 \/ k = 4
    OBVIOUS
  <2>2. d = part[k].dimension
    BY DEF part
  <2> QED
    BY <1>1, <1>3, <2>1, <2>2
<1>5. k \in 1..4
  OBVIOUS
<1>6. part[k] \in Quantities(kind, length) <=> part[k].quantity # 0
  BY <1>2, <1>5
<1>7. part[k].dimension = d
  BY DEF part
<1>8. {p \in Quantities(kind, length) : p.dimension = d}
         = IF part[k].quantity = 0 THEN {} ELSE {part[k]}
  BY <1>4, <1>6, <1>7
<1> QED
  BY <1>8 DEF part

LEMMA OneConsumed ==
    ASSUME NEW kind \in Kinds, NEW length \in Int, NEW d, NEW k \in {1, 4},
           d = Parts(kind, length)[k].dimension,
           NEW S, S = {q \in Quantities(kind, length) : q.dimension = d}
    PROVE  SumOf([q \in S |-> q.quantity]) = Parts(kind, length)[k].quantity
<1> DEFINE part == Parts(kind, length)[k]
           f == [q \in S |-> q.quantity]
<1>1. S = IF part.quantity = 0 THEN {} ELSE {part}
  BY OnePart
<1>2. \A q \in S : q.quantity \in Int
  BY QuantitiesIn
<1> HIDE DEF part
<1>4. CASE part.quantity = 0
  <2>1. S = {}
    BY <1>1, <1>4
  <2>2. DOMAIN f = {} /\ f = [x \in {} |-> f[x]]
    BY <2>1
  <2> HIDE DEF f
  <2>3. SumOf(f) = 0
    BY <2>2, EmptySum
  <2> QED
    BY <1>4, <2>3 DEF part, f
<1>5. CASE part.quantity # 0
  <2>1. S = {part}
    BY <1>1, <1>5
  <2>2. f \in [{part} -> Int] /\ f[part] = part.quantity
    BY <1>2, <2>1
  <2> HIDE DEF f
  <2>3. SumOf(f) = part.quantity
    BY <2>2, SingleSum
  <2> QED
    BY <2>3 DEF part, f
<1> QED
  BY <1>4, <1>5

IsMissed(d) == \E n \in notes : n.code = "NoPriceComponent" /\ n.dimension = d

DoubtInv ==
    /\ ReviewInv
    /\ \A d \in {"ENERGY", "PARKING_TIME"} : Tally(segments, d).quantity = used[d] \/ IsMissed(d)
    /\ IsBilled => \A d \in {"ENERGY", "PARKING_TIME"} : bill.measured[d] = Tally(segments, d).quantity

LEMMA TallyOfNone ==
    ASSUME NEW d
    PROVE  Tally(<<>>, d) = [some |-> FALSE, quantity |-> 0, worth |-> 0, last |-> None]
<1> DEFINE list == <<>>
           q == [i \in OfIn(list, d) |-> list[i].quantity]
           w == [i \in OfIn(list, d) |-> list[i].quantity * list[i].price]
<1>1. OfIn(list, d) = {}
  BY DEF OfIn
<1>2. /\ DOMAIN q = {} /\ q = [x \in {} |-> q[x]]
      /\ DOMAIN w = {} /\ w = [x \in {} |-> w[x]]
  BY <1>1
<1>3. QuantityIn(list, d) = SumOf(q) /\ WorthIn(list, d) = SumOf(w)
  BY DEF QuantityIn, WorthIn, Total
<1> HIDE DEF list, q, w
<1>4. SumOf(q) = 0 /\ SumOf(w) = 0
  BY <1>2, EmptySum
<1>5. Tally(list, d) = [some |-> FALSE, quantity |-> 0, worth |-> 0, last |-> None]
  BY <1>1, <1>3, <1>4 DEF Tally
<1> QED
  BY <1>5 DEF list

LEMMA MeasuredIs ==
    ASSUME NEW d
    PROVE  /\ Measured(d) = Tally(segments, d).quantity
           /\ Of(d) = OfIn(segments, d) /\ (Of(d) # {} <=> Tally(segments, d).some)
<1>1. Of(d) = OfIn(segments, d)
  BY DEF Of, OfIn
<1> QED
  BY <1>1 DEF Measured, Tally, QuantityIn

LEMMA DoubtBegins == Init => DoubtInv
<1> SUFFICES ASSUME Init PROVE DoubtInv
  OBVIOUS
<1>1. ReviewInv /\ ~IsBilled
  BY ReviewBegins DEF Init, IsBilled, Pricing, Failed
<1>2. \A d \in {"ENERGY", "PARKING_TIME"} : used[d] = 0 /\ Tally(segments, d).quantity = 0
  BY TallyOfNone DEF Init, Dimensions
<1> QED
  BY <1>1, <1>2 DEF DoubtInv

LEMMA DoubtKeeps == DoubtInv /\ [Next]_pvars => DoubtInv'
<1> SUFFICES ASSUME DoubtInv, [Next]_pvars PROVE DoubtInv'
  OBVIOUS
<1>0. ReviewInv'
  BY ReviewKeeps DEF DoubtInv
<1>1. ASSUME NEW kind \in Kinds, NEW length \in 1..MaxLength, PricePeriod(kind, length)
      PROVE  DoubtInv'
  <2>1. ~IsBilled'
    BY <1>1 DEF PricePeriod, IsBilled, Pricing
  <2>2. ASSUME NEW d \in {"ENERGY", "PARKING_TIME"}
        PROVE  Tally(segments', d).quantity = used'[d] \/ IsMissed(d)'
    <3> DEFINE k == IF d = "ENERGY" THEN 1 ELSE 4
               part == Parts(kind, length)[k]
               tariff == TariffOf(kind)
               before == Tally(segments, d)
    <3>1. length \in Int /\ RunInv /\ AreSegments(segments) /\ tariff # None
      BY <1>1, PricingAssumption DEF DoubtInv, ReviewInv, PricePeriod
    <3>2. k \in {1, 4} /\ part.dimension = d
      BY PartDimensions
    <3>3. Tally(segments', d) = After(kind, length, part, before)
      BY <1>1, <3>1, PeriodTallies
    <3>4. used'[d] = used[d] + part.quantity
      <4> DEFINE S == {q \in Quantities(kind, length) : q.dimension = d}
      <4>1. used'[d] = used[d] + SumOf([q \in S |-> q.quantity])
        BY <1>1 DEF PricePeriod, Dimensions, Total
      <4>s. S = {q \in Quantities(kind, length) : q.dimension = d}
        OBVIOUS
      <4> HIDE DEF k, S
      <4>2. SumOf([q \in S |-> q.quantity]) = part.quantity
        BY <3>1, <3>2, <4>s, OneConsumed
      <4> QED
        BY <4>1, <4>2
    <3>5. part.quantity \in Int
      <4> HIDE DEF k
      <4>1. \A i \in 1..4 : Parts(kind, length)[i].quantity \in Int
        BY <1>1, QuantitiesAre
      <4> QED
        BY <3>2, <4>1
    <3>6. part \in Quantities(kind, length) <=> part.quantity # 0
      <4> HIDE DEF k
      <4>1. k \in 1..4
        BY <3>2
      <4> QED
        BY <3>1, <4>1, QuantitiesIn
    <3>7. notes' = notes \cup PeriodNotes(tariff, kind, length, clock')
      BY <1>1 DEF PricePeriod
    <3>8. IsMissed(d) => IsMissed(d)'
      BY <3>7 DEF IsMissed
    <3>9. used[d] \in Int
      BY <3>1 DEF RunInv, Dimensions
    <3> HIDE DEF part, tariff, before
    <3>10. CASE part.quantity # 0 /\ part \notin Priced(tariff, kind, length)
      <4> DEFINE n == Note("NoPriceComponent", clock, d)
      <4>1. n \in PeriodNotes(tariff, kind, length, clock')
        BY <3>2, <3>6, <3>10 DEF PeriodNotes
      <4>2. n.code = "NoPriceComponent" /\ n.dimension = d
        BY DEF Note
      <4> HIDE DEF n
      <4> QED
        BY <3>7, <4>1, <4>2 DEF IsMissed
    <3>11. CASE part \in Priced(tariff, kind, length)
      <4>1. Tally(segments', d).quantity = SegmentOf(kind, part).quantity + before.quantity
        BY <3>3, <3>11 DEF After, With, tariff
      <4>2. SegmentOf(kind, part).quantity = part.quantity
        BY <3>1, <3>11, SegmentIs DEF tariff
      <4>3. before.quantity = used[d] \/ IsMissed(d)
        BY DEF DoubtInv, before
      <4> QED
        BY <3>4, <3>5, <3>8, <3>9, <4>1, <4>2, <4>3
    <3>12. CASE part.quantity = 0 /\ part \notin Priced(tariff, kind, length)
      <4>1. Tally(segments', d) = before
        BY <3>3, <3>12 DEF After, tariff
      <4>2. before.quantity = used[d] \/ IsMissed(d)
        BY DEF DoubtInv, before
      <4> QED
        BY <3>4, <3>8, <3>9, <3>12, <4>1, <4>2
    <3> QED
      BY <3>10, <3>11, <3>12
  <2> QED
    BY <1>0, <2>1, <2>2 DEF DoubtInv
<1>2. ASSUME \E kind \in Kinds : RefusePeriod(kind) PROVE DoubtInv'
  <2>1. segments' = segments /\ used' = used /\ notes' = notes /\ ~IsBilled'
    BY <1>2 DEF RefusePeriod, IsBilled, Failed
  <2> QED
    BY <1>0, <2>1 DEF DoubtInv, IsMissed
<1>3. ASSUME Finish PROVE DoubtInv'
  <2>1. segments' = segments /\ used' = used /\ notes \subseteq notes'
    BY <1>3 DEF Finish
  <2>2. IsBilled' => \A d \in Dimensions : bill'.measured[d] = Measured(d)
    <3> DEFINE tariff == SelectByPreference(session.tariffs, session.wanted, session.start)
    <3>1. CASE tariff = None
      BY <1>3, <3>1 DEF Finish, Failed, IsBilled
    <3>2. CASE tariff # None
      <4> DEFINE stated == [d \in Dimensions |-> Total(Of(d), LAMBDA i : Stated(i))]
                 totals == Clamped(tariff)
                 measured == [d \in Dimensions |-> Measured(d)]
                 taxes == PresentTaxes(RawLines, totals)
      <4>1. bill' = [state |-> "billed", measured |-> measured, stated |-> stated,
                     excl |-> totals.excl, incl |-> totals.incl, limit |-> totals.limit,
                     taxes |-> taxes]
        BY <1>3, <3>2 DEF Finish
      <4>2. \A d \in Dimensions : measured[d] = Measured(d)
        OBVIOUS
      <4> HIDE DEF stated, totals, measured, taxes
      <4>3. bill'.measured = measured
        BY <4>1
      <4> QED
        BY <4>2, <4>3
    <3> QED
      BY <3>1, <3>2
  <2> QED
    BY <1>0, <2>1, <2>2, MeasuredIs DEF DoubtInv, IsMissed, Dimensions
<1>4. ASSUME UNCHANGED pvars PROVE DoubtInv'
  BY <1>0, <1>4 DEF pvars, DoubtInv, IsMissed, IsBilled
<1> QED
  BY <1>1, <1>2, <1>3, <1>4 DEF Next

LEMMA DimensionTotalsAre ==
    ASSUME AreSegments(segments), NEW d, NEW reserved
    PROVE  DimensionTotal(d) \in Int /\ TimeCost(reserved) \in Int
<1>1. IsFiniteSet(DOMAIN segments) /\ \A i \in DOMAIN segments : Cost(i) \in Int
  BY SegmentsAre, CostsAre
<1> DEFINE timed == {i \in Of("TIME") : segments[i].reserved = reserved}
<1>2. /\ IsFiniteSet(Of(d)) /\ Of(d) \subseteq DOMAIN segments
      /\ IsFiniteSet(timed) /\ timed \subseteq DOMAIN segments
  BY <1>1, FS_Subset DEF Of
<1>3. [i \in Of(d) |-> Cost(i)] \in [Of(d) -> Int] /\ [i \in timed |-> Cost(i)] \in [timed -> Int]
  BY <1>1, <1>2
<1> HIDE DEF timed
<1>4. Total(timed, LAMBDA i : Cost(i)) \in Int
  BY <1>2, <1>3, IntSums DEF Total
<1> QED
  BY <1>2, <1>3, <1>4, IntSums DEF DimensionTotal, TimeCost, Total, timed

(* Whatever the session and its tariffs, verify_cdr() finds an honest CDR   *)
(* at odds with itself only where a note says something had no price, or    *)
(* where a fee stands beside parking or a reservation that cost nothing:    *)
(* DoubtsAreNoted of verify_cdr() and price().                             *)
THEOREM HonestCdrsPass == Spec => []DoubtsAreNoted
<1>1. DoubtInv => DoubtsAreNoted
  <2> SUFFICES ASSUME DoubtInv, IsBilled, clock # None,
                      NEW fee \in {"fixed", "parking", "reservation"},
                      NEW w \in Divergences(HonestCdr(fee))
               PROVE  \/ /\ w \in {"EnergyVolume", "ParkingVolume"}
                         /\ \E n \in notes : /\ n.code = "NoPriceComponent"
                                             /\ n.dimension = IF w = "EnergyVolume" THEN "ENERGY"
                                                              ELSE "PARKING_TIME"
                      \/ /\ w \in {"FixedCost", "ParkingCost", "ReservationCost"} /\ fee # "fixed"
                         /\ DimensionTotal("PARKING_TIME") = 0 /\ TimeCost(TRUE) = 0
    BY DEF DoubtsAreNoted
  <2> DEFINE computed == Computed(session.start, clock)
             cdr == HonestCdr(fee)
             flat == DimensionTotal("FLAT")
             parking == DimensionTotal("PARKING_TIME")
             reserved == TimeCost(TRUE)
  <2>1. flat \in Int /\ parking \in Int /\ reserved \in Int
    BY DimensionTotalsAre DEF DoubtInv, ReviewInv
  <2>2. /\ w \in DOMAIN computed /\ cdr[w] # None /\ cdr[w] # computed[w]
        /\ w \in {"ParkingCost", "FixedCost", "ReservationCost"} => Attributable
    BY DEF Divergences
  <2>3. /\ DOMAIN computed = {"TotalBeforeTaxes", "TotalAfterTaxes", "EnergyCost", "TimeCost",
                              "ParkingCost", "FixedCost", "ReservationCost", "EnergyVolume",
                              "ParkingVolume", "TimeVolume"}
        /\ computed["FixedCost"] = flat /\ computed["ParkingCost"] = parking
        /\ computed["ReservationCost"] = reserved
        /\ computed["EnergyVolume"] = bill.measured["ENERGY"]
        /\ computed["ParkingVolume"] = bill.measured["PARKING_TIME"]
    BY DEF Computed
  <2>4. /\ \A x \in {"TotalBeforeTaxes", "TotalAfterTaxes", "EnergyCost", "TimeCost", "TimeVolume"} :
              cdr[x] = computed[x]
        /\ cdr["FixedCost"] = IF fee = "fixed" THEN flat ELSE 0
        /\ cdr["ParkingCost"] = parking + IF fee = "parking" THEN flat ELSE 0
        /\ cdr["ReservationCost"] = IF reserved = 0 /\ fee # "reservation" THEN None
                                    ELSE reserved + IF fee = "reservation" THEN flat ELSE 0
        /\ cdr["EnergyVolume"] = used["ENERGY"] /\ cdr["ParkingVolume"] = used["PARKING_TIME"]
    BY DEF HonestCdr, Computed
  <2>5. Attributable => flat = 0 \/ (parking = 0 /\ reserved = 0)
    BY DEF Attributable
  <2>6. \A d \in {"ENERGY", "PARKING_TIME"} : bill.measured[d] = used[d] \/ IsMissed(d)
    BY DEF DoubtInv
  <2> HIDE DEF computed, cdr, flat, parking, reserved
  <2>7. CASE w = "EnergyVolume"
    BY <2>2, <2>3, <2>4, <2>6, <2>7 DEF IsMissed
  <2>8. CASE w = "ParkingVolume"
    BY <2>2, <2>3, <2>4, <2>6, <2>8 DEF IsMissed
  <2>9. CASE w \in {"FixedCost", "ParkingCost", "ReservationCost"}
    <3>1. fee # "fixed" /\ flat # 0
      BY <2>1, <2>2, <2>3, <2>4, <2>9
    <3> QED
      BY <2>2, <2>5, <2>9, <3>1 DEF parking, reserved
  <2> QED
    BY <2>2, <2>3, <2>4, <2>7, <2>8, <2>9
<1> QED
  BY <1>1, DoubtBegins, DoubtKeeps, PTL DEF Spec

-----------------------------------------------------------------------------
(* What the meter makes of a period that keeps its price.                   *)

PriceOf(kind, q) ==
    Component(TariffOf(kind),
              FindComponent(TariffOf(kind), q.dimension, AtStart(kind, q.reserving)))

LEMMA SecondsAre ==
    ASSUME NEW length \in Nat \ {0}, clock \in Int
    PROVE  /\ IsFiniteSet(Seconds(length)) /\ Cardinality(Seconds(length)) = length
           /\ Seconds(length) # {} /\ Seconds(length) \in SUBSET Int
<1> DEFINE a == clock
           b == clock + length - 1
<1>1. a \in Int /\ b \in Int /\ ~(a > b) /\ b - a + 1 = length /\ a \in a..b
  OBVIOUS
<1>2. Seconds(length) = a..b
  BY DEF Seconds
<1> HIDE DEF a, b
<1>3. IsFiniteSet(a..b) /\ Cardinality(a..b) = b - a + 1
  BY <1>1, FS_Interval
<1> QED
  BY <1>1, <1>2, <1>3

LEMMA LastPartIs ==
    ASSUME NEW P, P # {}
    PROVE  /\ LastPart(P) \in P
           /\ LastPart(P).reserving \/ \A o \in P : ~o.reserving
<1>1. \E q \in P : q.reserving \/ \A o \in P : ~o.reserving
  <2>1. CASE \E q \in P : q.reserving
    BY <2>1
  <2>2. CASE \A q \in P : ~q.reserving
    BY <2>2
  <2> QED
    BY <2>1, <2>2
<1> QED
  BY <1>1 DEF LastPart

(* What the meter reads after a period whose every second has the parts P.  *)
CountsParts(kind, length, d, P, amounts, costs) ==
    MeteredPeriod(TariffOf(kind), kind, length)[d] =
        IF P = {} THEN meter[d]
        ELSE [quantity |-> meter[d].quantity + length * SumOf(amounts),
              cost |-> meter[d].cost + length * SumOf(costs),
              price |-> PriceOf(kind, LastPart(P)).price,
              step |-> PriceOf(kind, LastPart(P)).step_size]

LEMMA SteadyMeter ==
    ASSUME RunInv, NEW kind \in Kinds, NEW length \in Nat \ {0}, clock # None,
           TariffOf(kind) # None, NEW d, d \in Dimensions, d # "FLAT",
           KeepsPrice(TariffOf(kind), kind, length, d),
           NEW P, P = {q \in Priced(TariffOf(kind), kind, 1) : q.dimension = d},
           NEW amounts, amounts = [q \in P |-> q.quantity],
           NEW costs, costs = [q \in P |-> q.quantity * PriceOf(kind, q).price]
    PROVE  CountsParts(kind, length, d, P, amounts, costs)
<1> DEFINE tariff == TariffOf(kind)
           Now == Seconds(length)
           parts(t) == Metered(tariff, kind, t, d)
           counted == {t \in Now : parts(t) # {}}
           A == SumOf(amounts)
           B == SumOf(costs)
           f == [t \in counted |-> SumOf([q \in parts(t) |-> q.quantity])]
           g == [t \in counted |-> SumOf([q \in parts(t) |->
                                             q.quantity * RateAt(tariff, kind, t, q).price])]
           end == Greatest(counted)
           last == RateAt(tariff, kind, end, LastPart(parts(end)))
<1>1. /\ clock \in Int
      /\ IsFiniteSet(Now) /\ Cardinality(Now) = length /\ Now # {} /\ Now \in SUBSET Int
  BY SecondsAre DEF RunInv
<1>2. ASSUME NEW t \in Now, NEW q \in Quantities(kind, 1), q.dimension = d
      PROVE  FindComponent(tariff, d, AtSecond(kind, t, q.reserving))
                = FindComponent(tariff, d, AtStart(kind, q.reserving))
  BY <1>2 DEF KeepsPrice
<1>3. ASSUME NEW t \in Now PROVE parts(t) = P
  <2> HIDE DEF tariff
  <2>1. parts(t) = {q \in Quantities(kind, 1) :
                       /\ q.dimension = d
                       /\ FindComponent(tariff, d, AtSecond(kind, t, q.reserving)) # None}
    BY DEF Metered
  <2>2. P = {q \in Quantities(kind, 1) :
                /\ q.dimension = d
                /\ FindComponent(tariff, d, AtStart(kind, q.reserving)) # None}
    BY DEF Priced, tariff
  <2> QED
    BY <1>2, <2>1, <2>2
<1>4. ASSUME NEW t \in Now, NEW q \in P
      PROVE  RateAt(tariff, kind, t, q) = PriceOf(kind, q)
  <2>1. q \in Quantities(kind, 1) /\ q.dimension = d
    BY DEF Priced
  <2>2. FindComponent(tariff, q.dimension, AtSecond(kind, t, q.reserving))
           = FindComponent(tariff, q.dimension, AtStart(kind, q.reserving))
    BY <1>2, <2>1
  <2> QED
    BY <2>2 DEF RateAt, PriceOf
<1>5. MeteredPeriod(tariff, kind, length)[d] =
         IF counted = {} THEN meter[d]
         ELSE [quantity |-> meter[d].quantity + SumOf(f), cost |-> meter[d].cost + SumOf(g),
               price |-> last.price, step |-> last.step_size]
  BY DEF MeteredPeriod, Total
<1> HIDE DEF tariff, Now, parts
<1>6. CASE P = {}
  <2>1. counted = {}
    BY <1>3, <1>6
  <2> QED
    BY <1>5, <1>6, <2>1 DEF tariff, CountsParts
<1>7. CASE P # {}
  <2>1. counted = Now
    BY <1>3, <1>7
  <2>2. f = [t \in Now |-> A]
    BY <1>3, <2>1
  <2>3. g = [t \in Now |-> B]
    <3>1. ASSUME NEW t \in Now
          PROVE  [q \in parts(t) |-> q.quantity * RateAt(tariff, kind, t, q).price]
                    = [q \in P |-> q.quantity * PriceOf(kind, q).price]
      <4>1. parts(t) = P
        BY <1>3
      <4>2. \A q \in P : RateAt(tariff, kind, t, q).price = PriceOf(kind, q).price
        BY <1>4
      <4> QED
        BY <4>1, <4>2
    <3> HIDE DEF counted
    <3> QED
      BY <2>1, <3>1
  <2>4. A \in Int /\ B \in Int
    <3>1. 1 \in Int /\ IsFiniteSet(P) /\ \A q \in P : q.quantity \in Int
      <4>1. 1 \in Int /\ P \subseteq Quantities(kind, 1)
        BY DEF Priced
      <4> QED
        BY <4>1, QuantitiesIn, FS_Subset
    <3>2. \A q \in P : PriceOf(kind, q).price \in Int
      <4> SUFFICES ASSUME NEW q \in P PROVE PriceOf(kind, q).price \in Int
        OBVIOUS
      <4> DEFINE found == FindComponent(tariff, q.dimension, AtStart(kind, q.reserving))
      <4>1. IsTariff(tariff) /\ found # None
        BY TariffIs DEF RunInv, Priced, tariff
      <4>2. IsComponent(Component(tariff, found))
        BY <4>1, FoundIs
      <4> HIDE DEF found
      <4>3. PriceOf(kind, q) = Component(tariff, found)
        BY DEF PriceOf, tariff, found
      <4> QED
        BY <4>2, <4>3 DEF IsComponent
    <3>3. /\ [q \in P |-> q.quantity] \in [P -> Int]
          /\ [q \in P |-> q.quantity * PriceOf(kind, q).price] \in [P -> Int]
      BY <3>1, <3>2
    <3> QED
      BY <3>1, <3>3, IntSums
  <2>5. end \in Now
    <3>1. Greatest(Now) \in Now
      BY <1>1, GreatestIs
    <3> QED
      BY <2>1, <3>1
  <2>6. last = PriceOf(kind, LastPart(P))
    <3>1. LastPart(P) \in P
      BY <1>7, LastPartIs
    <3> HIDE DEF end
    <3>2. parts(end) = P
      BY <1>3, <2>5
    <3> QED
      BY <1>4, <2>5, <3>1, <3>2
  <2> HIDE DEF A, B, f, g, last, end
  <2>7. SumOf(f) = length * A /\ SumOf(g) = length * B
    BY <1>1, <2>2, <2>3, <2>4, ConstantSum
  <2>8. counted # {}
    BY <1>1, <2>1
  <2> QED
    BY <1>5, <1>7, <2>6, <2>7, <2>8 DEF A, B, tariff, CountsParts
<1> QED
  BY <1>6, <1>7

(* A part of a period is as often as it has seconds what of it is consumed   *)
(* in one, at the same price.                                              *)
LEMMA PartOnce ==
    ASSUME RunInv, NEW kind \in Kinds, NEW length \in Nat \ {0}, TariffOf(kind) # None,
           NEW i \in 1..4
    PROVE  LET part == Parts(kind, length)[i]
               once == Parts(kind, 1)[i]
           IN  /\ once.quantity \in Int /\ part.quantity = length * once.quantity
               /\ part.dimension = once.dimension /\ part.reserving = once.reserving
               /\ PriceOf(kind, part) = PriceOf(kind, once)
               /\ part \in Priced(TariffOf(kind), kind, length)
                     <=> once \in Priced(TariffOf(kind), kind, 1)
               /\ once \in Priced(TariffOf(kind), kind, 1) => PriceOf(kind, once).price \in Int
<1> DEFINE part == Parts(kind, length)[i]
           once == Parts(kind, 1)[i]
           rate == <<kind.energy, kind.charging, kind.reserved, kind.parking>>
           tariff == TariffOf(kind)
           found == FindComponent(tariff, once.dimension, AtStart(kind, once.reserving))
<1>1. \A j \in 1..4 : j = 1 \/ j = 2 \/ j = 3 \/ j = 4
  OBVIOUS
<1>2. \A j \in 1..4 : rate[j] \in Int
  BY <1>1, KindsAre
<1>3. /\ part.quantity = rate[i] * length /\ once.quantity = rate[i] * 1
      /\ part.dimension = once.dimension /\ part.reserving = once.reserving
  <2> DEFINE all == Parts(kind, length)
             ones == Parts(kind, 1)
  <2>1. /\ rate[1] = kind.energy /\ rate[2] = kind.charging
        /\ rate[3] = kind.reserved /\ rate[4] = kind.parking
    OBVIOUS
  <2>2. /\ all[1].quantity = kind.energy * length /\ all[2].quantity = kind.charging * length
        /\ all[3].quantity = kind.reserved * length /\ all[4].quantity = kind.parking * length
        /\ ones[1].quantity = kind.energy * 1 /\ ones[2].quantity = kind.charging * 1
        /\ ones[3].quantity = kind.reserved * 1 /\ ones[4].quantity = kind.parking * 1
    BY DEF Parts
  <2>3. /\ ones[1].dimension = all[1].dimension /\ ones[1].reserving = all[1].reserving
        /\ ones[2].dimension = all[2].dimension /\ ones[2].reserving = all[2].reserving
        /\ ones[3].dimension = all[3].dimension /\ ones[3].reserving = all[3].reserving
        /\ ones[4].dimension = all[4].dimension /\ ones[4].reserving = all[4].reserving
    BY DEF Parts
  <2> HIDE DEF all, ones, rate
  <2>4. \A j \in 1..4 : /\ all[j].quantity = rate[j] * length /\ ones[j].quantity = rate[j] * 1
                        /\ all[j].dimension = ones[j].dimension /\ all[j].reserving = ones[j].reserving
    BY <1>1, <2>1, <2>2, <2>3
  <2>5. /\ all[i].quantity = rate[i] * length /\ ones[i].quantity = rate[i] * 1
        /\ all[i].dimension = ones[i].dimension /\ all[i].reserving = ones[i].reserving
    BY <2>4
  <2> QED
    BY <2>5 DEF all, ones
<1>4. once.quantity \in Int /\ part.quantity = length * once.quantity
  <2> HIDE DEF part, once, rate
  <2> QED
    BY <1>2, <1>3
<1>5. 1 \in Int /\ length \in Int /\ (part.quantity # 0 <=> once.quantity # 0)
  <2> HIDE DEF part, once, rate
  <2> QED
    BY <1>4
<1>6. /\ part \in Quantities(kind, length) <=> part.quantity # 0
      /\ once \in Quantities(kind, 1) <=> once.quantity # 0
  BY <1>5, QuantitiesIn
<1> HIDE DEF part, once, tariff
<1>7. PriceOf(kind, part) = PriceOf(kind, once)
  BY <1>3 DEF PriceOf
<1>8. part \in Priced(tariff, kind, length) <=> once \in Priced(tariff, kind, 1)
  BY <1>3, <1>5, <1>6 DEF Priced
<1>9. ASSUME once \in Priced(tariff, kind, 1) PROVE PriceOf(kind, once).price \in Int
  <2>1. IsTariff(tariff) /\ found # None
    BY <1>9, TariffIs DEF RunInv, Priced, tariff
  <2>2. IsComponent(Component(tariff, found))
    BY <2>1, FoundIs
  <2> HIDE DEF found
  <2>3. PriceOf(kind, once) = Component(tariff, found)
    BY DEF PriceOf, tariff, found
  <2> QED
    BY <2>2, <2>3 DEF IsComponent
<1> QED
  BY <1>3, <1>4, <1>7, <1>8, <1>9 DEF part, once, tariff

LEMMA SegmentCosts ==
    ASSUME NEW kind, NEW q
    PROVE  /\ SegmentOf(kind, q).price = PriceOf(kind, q).price
           /\ SegmentOf(kind, q).step_size = PriceOf(kind, q).step_size
           /\ SegmentOf(kind, q).quantity = q.quantity
BY DEF SegmentOf, Segment, PriceOf

(* What the meter reads where a tally says the same.                        *)
Reads(t) ==
    [quantity |-> t.quantity, cost |-> t.worth,
     price |-> IF t.some THEN t.last.price ELSE 0, step |-> IF t.some THEN t.last.step_size ELSE 0]

LEMMA ReadsAfter ==
    ASSUME NEW kind, NEW length, NEW q, NEW t
    PROVE  Reads(After(kind, length, q, t)) =
              IF q \in Priced(TariffOf(kind), kind, length)
              THEN [quantity |-> q.quantity + t.quantity,
                    cost |-> q.quantity * PriceOf(kind, q).price + t.worth,
                    price |-> PriceOf(kind, q).price, step |-> PriceOf(kind, q).step_size]
              ELSE Reads(t)
<1> DEFINE s == SegmentOf(kind, q)
<1>1. /\ s.price = PriceOf(kind, q).price /\ s.step_size = PriceOf(kind, q).step_size
      /\ s.quantity = q.quantity
  BY SegmentCosts
<1> HIDE DEF s
<1>2. CASE q \in Priced(TariffOf(kind), kind, length)
  <2>1. After(kind, length, q, t) = With(t, s)
    BY <1>2 DEF After, s
  <2>2. Reads(With(t, s)) = [quantity |-> s.quantity + t.quantity,
                             cost |-> s.quantity * s.price + t.worth,
                             price |-> s.price, step |-> s.step_size]
    BY DEF Reads, With
  <2> QED
    BY <1>1, <1>2, <2>1, <2>2
<1>3. CASE q \notin Priced(TariffOf(kind), kind, length)
  BY <1>3 DEF After
<1> QED
  BY <1>2, <1>3

TallyIsInt(t) == t.quantity \in Int /\ t.worth \in Int

LEMMA TallyInts ==
    ASSUME NEW list, AreSegments(list), NEW d
    PROVE  TallyIsInt(Tally(list, d))
<1> DEFINE D == OfIn(list, d)
<1>1. IsFiniteSet(D) /\ \A i \in D : IsSegment(list[i])
  BY SegmentsAre, FS_Subset DEF OfIn
<1>2. \A i \in D : list[i].quantity \in Int /\ list[i].quantity * list[i].price \in Int
  BY <1>1 DEF IsSegment
<1>3. /\ [i \in D |-> list[i].quantity] \in [D -> Int]
      /\ [i \in D |-> list[i].quantity * list[i].price] \in [D -> Int]
  BY <1>2
<1> HIDE DEF D
<1>4. /\ SumOf([i \in D |-> list[i].quantity]) \in Int
      /\ SumOf([i \in D |-> list[i].quantity * list[i].price]) \in Int
  BY <1>1, <1>3, IntSums
<1>5. QuantityIn(list, d) \in Int /\ WorthIn(list, d) \in Int
  BY <1>4 DEF QuantityIn, WorthIn, Total, D
<1> QED
  BY <1>5 DEF Tally, TallyIsInt

LEMMA Multiplied ==
    ASSUME NEW n \in Int, NEW a \in Int, NEW p \in Int
    PROVE  (n * a) * p = n * (a * p)
OBVIOUS

(* One part that has a price: the meter counts it second by second.         *)
LEMMA ReadsOne ==
    ASSUME RunInv, NEW kind \in Kinds, NEW length \in Nat \ {0}, TariffOf(kind) # None,
           NEW k \in 1..4, Parts(kind, 1)[k] \in Priced(TariffOf(kind), kind, 1),
           NEW t, TallyIsInt(t), NEW P, P = {Parts(kind, 1)[k]},
           NEW f, f = [q \in P |-> q.quantity],
           NEW g, g = [q \in P |-> q.quantity * PriceOf(kind, q).price]
    PROVE  Reads(After(kind, length, Parts(kind, length)[k], t)) =
              [quantity |-> t.quantity + length * SumOf(f),
               cost |-> t.worth + length * SumOf(g),
               price |-> PriceOf(kind, LastPart(P)).price,
               step |-> PriceOf(kind, LastPart(P)).step_size]
<1> DEFINE part == Parts(kind, length)[k]
           once == Parts(kind, 1)[k]
           price == PriceOf(kind, once)
           more == length * once.quantity
           cost == length * (once.quantity * price.price)
<1>1. /\ once.quantity \in Int /\ part.quantity = length * once.quantity
      /\ PriceOf(kind, part) = price /\ price.price \in Int
      /\ part \in Priced(TariffOf(kind), kind, length)
  BY PartOnce
<1> HIDE DEF part, once
<1>2. P = {once}
  BY DEF once
<1>3. f \in [{once} -> Int] /\ g \in [{once} -> Int]
      /\ f[once] = once.quantity /\ g[once] = once.quantity * price.price
  <2>1. once \in P /\ \A q \in P : q = once
    BY <1>2
  <2>2. f[once] = once.quantity
    BY <2>1
  <2>3. g[once] = once.quantity * price.price
    BY <2>1
  <2>4. DOMAIN f = {once} /\ DOMAIN g = {once} /\ f = [q \in DOMAIN f |-> f[q]]
        /\ g = [q \in DOMAIN g |-> g[q]]
    BY <1>2
  <2>5. once.quantity * price.price \in Int
    BY <1>1
  <2> QED
    BY <1>1, <2>2, <2>3, <2>4, <2>5
<1>4. LastPart(P) = once
  BY <1>2, LastPartIs
<1> HIDE DEF price
<1>5. SumOf(f) = once.quantity /\ SumOf(g) = once.quantity * price.price
  BY <1>3, SingleSum
<1>6. Reads(After(kind, length, part, t)) =
         [quantity |-> part.quantity + t.quantity, cost |-> part.quantity * price.price + t.worth,
          price |-> price.price, step |-> price.step_size]
  BY <1>1, ReadsAfter
<1>7. part.quantity * price.price = cost
  BY <1>1, Multiplied
<1>8. more \in Int /\ cost \in Int
  BY <1>1
<1>9. /\ length * SumOf(f) = more /\ length * SumOf(g) = cost /\ part.quantity = more
  BY <1>1, <1>5
<1> HIDE DEF more, cost
<1>10. /\ part.quantity + t.quantity = t.quantity + length * SumOf(f)
       /\ part.quantity * price.price + t.worth = t.worth + length * SumOf(g)
  BY <1>7, <1>8, <1>9 DEF TallyIsInt
<1>11. PriceOf(kind, LastPart(P)) = price
  BY <1>4 DEF price
<1> QED
  BY <1>6, <1>10, <1>11 DEF part

(* Energy and parking: one part each.                                      *)
LEMMA SteadySingle ==
    ASSUME RunInv, NEW kind \in Kinds, NEW length \in Nat \ {0}, clock # None,
           TariffOf(kind) # None, NEW k \in {1, 4}, NEW d, d \in Dimensions, d # "FLAT",
           d = Parts(kind, length)[k].dimension,
           KeepsPrice(TariffOf(kind), kind, length, d),
           NEW t, TallyIsInt(t), meter[d] = Reads(t)
    PROVE  MeteredPeriod(TariffOf(kind), kind, length)[d]
              = Reads(After(kind, length, Parts(kind, length)[k], t))
<1> DEFINE part == Parts(kind, length)[k]
           once == Parts(kind, 1)[k]
           P == {q \in Priced(TariffOf(kind), kind, 1) : q.dimension = d}
           new == MeteredPeriod(TariffOf(kind), kind, length)[d]
           f == [q \in P |-> q.quantity]
           g == [q \in P |-> q.quantity * PriceOf(kind, q).price]
<1>0. k \in 1..4
  OBVIOUS
<1>1. /\ part.dimension = once.dimension
      /\ part \in Priced(TariffOf(kind), kind, length) <=> once \in Priced(TariffOf(kind), kind, 1)
  BY <1>0, PartOnce
<1>2. P = IF once \in Priced(TariffOf(kind), kind, 1) THEN {once} ELSE {}
  <2>1. {q \in Quantities(kind, 1) : q.dimension = d} = IF once.quantity = 0 THEN {} ELSE {once}
    <3>1. 1 \in Int /\ d = Parts(kind, 1)[k].dimension
      BY <1>1
    <3> QED
      BY <3>1, OnePart
  <2>2. P = {q \in {q \in Quantities(kind, 1) : q.dimension = d} : q \in Priced(TariffOf(kind), kind, 1)}
    BY DEF Priced
  <2>3. once \in Priced(TariffOf(kind), kind, 1) => once \in P
    <3>1. once \in Priced(TariffOf(kind), kind, 1) => once.dimension = d
      BY <1>1
    <3> QED
      BY <3>1
  <2> HIDE DEF P, once
  <2> QED
    BY <2>1, <2>2, <2>3
<1>p. P = {q \in Priced(TariffOf(kind), kind, 1) : q.dimension = d}
  OBVIOUS
<1>f. f = [q \in P |-> q.quantity] /\ g = [q \in P |-> q.quantity * PriceOf(kind, q).price]
  OBVIOUS
<1> HIDE DEF P, f, g
<1>3. new = IF P = {} THEN meter[d]
            ELSE [quantity |-> meter[d].quantity + length * SumOf(f),
                  cost |-> meter[d].cost + length * SumOf(g),
                  price |-> PriceOf(kind, LastPart(P)).price,
                  step |-> PriceOf(kind, LastPart(P)).step_size]
  <2> HIDE DEF part, once
  <2>1. d \in Dimensions /\ d # "FLAT" /\ length \in Nat \ {0} /\ kind \in Kinds
    OBVIOUS
  <2>2. CountsParts(kind, length, d, P, f, g)
    BY ONLY RunInv, clock # None, TariffOf(kind) # None,
            KeepsPrice(TariffOf(kind), kind, length, d), <1>p, <1>f, <2>1, SteadyMeter
  <2> QED
    BY <2>2 DEF CountsParts
<1>4. meter[d].quantity = t.quantity /\ meter[d].cost = t.worth
  BY DEF Reads
<1>5. CASE once \notin Priced(TariffOf(kind), kind, 1)
  <2>1. new = meter[d]
    BY <1>2, <1>3, <1>5
  <2>2. Reads(After(kind, length, part, t)) = Reads(t)
    BY <1>1, <1>5, ReadsAfter
  <2> QED
    BY <2>1, <2>2
<1>6. CASE once \in Priced(TariffOf(kind), kind, 1)
  <2>1. P = {once}
    BY <1>2, <1>6
  <2>2. Reads(After(kind, length, part, t)) =
           [quantity |-> t.quantity + length * SumOf(f), cost |-> t.worth + length * SumOf(g),
            price |-> PriceOf(kind, LastPart(P)).price,
            step |-> PriceOf(kind, LastPart(P)).step_size]
    BY <1>0, <1>6, <1>f, <2>1, ReadsOne
  <2> HIDE DEF part, once, new
  <2>3. new = Reads(After(kind, length, part, t))
    BY <1>3, <1>4, <2>1, <2>2
  <2> QED
    BY <2>3 DEF new, part
<1> QED
  BY <1>5, <1>6

(* Of charging and of reserved time, either may have a price.               *)
LEMMA TwoParts ==
    ASSUME NEW kind \in Kinds, NEW P,
           P = {q \in Priced(TariffOf(kind), kind, 1) : q.dimension = "TIME"}
    PROVE  LET a == Parts(kind, 1)[2]
               b == Parts(kind, 1)[3]
           IN  /\ P \subseteq {a, b}
               /\ a \in P <=> a \in Priced(TariffOf(kind), kind, 1)
               /\ b \in P <=> b \in Priced(TariffOf(kind), kind, 1)
               /\ a # b /\ ~a.reserving /\ b.reserving
<1> DEFINE ones == Parts(kind, 1)
<1>1. /\ ones[1].dimension = "ENERGY" /\ ones[2].dimension = "TIME"
      /\ ones[3].dimension = "TIME" /\ ones[4].dimension = "PARKING_TIME"
  BY PartDimensions
<1>2. ~ones[2].reserving /\ ones[3].reserving
  BY DEF Parts
<1>3. 1 \in Int
  OBVIOUS
<1>4. Quantities(kind, 1) = {q \in {ones[i] : i \in 1..4} : q.quantity # 0}
  BY <1>3, QuantitiesIn
<1> HIDE DEF ones
<1>5. \A i \in 1..4 : i = 1 \/ i = 2 \/ i = 3 \/ i = 4
  OBVIOUS
<1>6. \A q \in Quantities(kind, 1) : q.dimension = "TIME" => q = ones[2] \/ q = ones[3]
  BY <1>1, <1>4, <1>5
<1>7. \A q \in P : q \in Quantities(kind, 1) /\ q.dimension = "TIME"
  BY DEF Priced
<1> QED
  BY <1>1, <1>2, <1>6, <1>7 DEF ones

LEMMA SteadyTime ==
    ASSUME RunInv, NEW kind \in Kinds, NEW length \in Nat \ {0}, clock # None,
           TariffOf(kind) # None, KeepsPrice(TariffOf(kind), kind, length, "TIME"),
           NEW t, TallyIsInt(t), meter["TIME"] = Reads(t)
    PROVE  MeteredPeriod(TariffOf(kind), kind, length)["TIME"]
              = Reads(After(kind, length, Parts(kind, length)[3],
                            After(kind, length, Parts(kind, length)[2], t)))
<1> DEFINE charged == Parts(kind, length)[2]
           reserved == Parts(kind, length)[3]
           a == Parts(kind, 1)[2]
           b == Parts(kind, 1)[3]
           P == {q \in Priced(TariffOf(kind), kind, 1) : q.dimension = "TIME"}
           new == MeteredPeriod(TariffOf(kind), kind, length)["TIME"]
           IsP(q) == q \in Priced(TariffOf(kind), kind, 1)
           u == After(kind, length, charged, t)
           f == [q \in P |-> q.quantity]
           g == [q \in P |-> q.quantity * PriceOf(kind, q).price]
<1>0. 2 \in 1..4 /\ 3 \in 1..4
  OBVIOUS
<1>1. /\ charged \in Priced(TariffOf(kind), kind, length) <=> IsP(a)
      /\ reserved \in Priced(TariffOf(kind), kind, length) <=> IsP(b)
      /\ a.quantity \in Int /\ charged.quantity = length * a.quantity
      /\ b.quantity \in Int /\ reserved.quantity = length * b.quantity
      /\ PriceOf(kind, charged) = PriceOf(kind, a) /\ PriceOf(kind, reserved) = PriceOf(kind, b)
      /\ IsP(a) => PriceOf(kind, a).price \in Int
      /\ IsP(b) => PriceOf(kind, b).price \in Int
  BY <1>0, PartOnce
<1>p. P = {q \in Priced(TariffOf(kind), kind, 1) : q.dimension = "TIME"}
  OBVIOUS
<1>f. f = [q \in P |-> q.quantity] /\ g = [q \in P |-> q.quantity * PriceOf(kind, q).price]
  OBVIOUS
<1> HIDE DEF P, f, g
<1>2. /\ P \subseteq {a, b} /\ (a \in P <=> IsP(a)) /\ (b \in P <=> IsP(b))
      /\ a # b /\ ~a.reserving /\ b.reserving
  BY <1>p, TwoParts
<1> HIDE DEF charged, reserved, a, b, u, IsP
<1>3. new = IF P = {} THEN meter["TIME"]
            ELSE [quantity |-> meter["TIME"].quantity + length * SumOf(f),
                  cost |-> meter["TIME"].cost + length * SumOf(g),
                  price |-> PriceOf(kind, LastPart(P)).price,
                  step |-> PriceOf(kind, LastPart(P)).step_size]
  <2>1. "TIME" \in Dimensions /\ "TIME" # "FLAT" /\ length \in Nat \ {0} /\ kind \in Kinds
    BY DEF Dimensions
  <2>2. CountsParts(kind, length, "TIME", P, f, g)
    BY ONLY RunInv, clock # None, TariffOf(kind) # None,
            KeepsPrice(TariffOf(kind), kind, length, "TIME"), <1>p, <1>f, <2>1, SteadyMeter
  <2> QED
    BY <2>2 DEF CountsParts
<1>4. meter["TIME"].quantity = t.quantity /\ meter["TIME"].cost = t.worth
  BY DEF Reads
<1> HIDE DEF new
<1>5. CASE ~IsP(a) /\ ~IsP(b)
  <2>1. P = {}
    BY <1>2, <1>5
  <2>2. u = t /\ After(kind, length, reserved, u) = u
    BY <1>1, <1>5 DEF After, u
  <2> QED
    BY <1>3, <2>1, <2>2 DEF new, u, charged, reserved
<1>6. CASE IsP(a) /\ ~IsP(b)
  <2>1. P = {a}
    BY <1>2, <1>6
  <2>2. After(kind, length, reserved, u) = u
    BY <1>1, <1>6 DEF After
  <2>3. Reads(u) =
           [quantity |-> t.quantity + length * SumOf(f), cost |-> t.worth + length * SumOf(g),
            price |-> PriceOf(kind, LastPart(P)).price,
            step |-> PriceOf(kind, LastPart(P)).step_size]
    BY <1>0, <1>6, <1>f, <2>1, ReadsOne DEF u, charged, a, IsP
  <2>4. new = Reads(After(kind, length, reserved, u))
    BY <1>3, <1>4, <2>1, <2>2, <2>3
  <2> QED
    BY <2>4 DEF new, u, charged, reserved
<1>7. CASE ~IsP(a) /\ IsP(b)
  <2>1. P = {b}
    BY <1>2, <1>7
  <2>2. u = t
    BY <1>1, <1>7 DEF After, u
  <2>3. Reads(After(kind, length, reserved, t)) =
           [quantity |-> t.quantity + length * SumOf(f), cost |-> t.worth + length * SumOf(g),
            price |-> PriceOf(kind, LastPart(P)).price,
            step |-> PriceOf(kind, LastPart(P)).step_size]
    BY <1>0, <1>7, <1>f, <2>1, ReadsOne DEF reserved, b, IsP
  <2>4. new = Reads(After(kind, length, reserved, u))
    BY <1>3, <1>4, <2>1, <2>2, <2>3
  <2> QED
    BY <2>4 DEF new, u, charged, reserved
<1>8. CASE IsP(a) /\ IsP(b)
  <2>1. P = {a} \cup {b}
    BY <1>2, <1>8
  <2> DEFINE pa == PriceOf(kind, a)
             pb == PriceOf(kind, b)
             D == {a}
             fa == [q \in D |-> q.quantity]
             ga == [q \in D |-> q.quantity * PriceOf(kind, q).price]
  <2>2. pa.price \in Int /\ pb.price \in Int
    BY <1>1, <1>8
  <2>3. /\ fa \in [D -> Int] /\ ga \in [D -> Int] /\ fa \in [{a} -> Int] /\ ga \in [{a} -> Int]
        /\ fa[a] = a.quantity /\ ga[a] = a.quantity * pa.price
        /\ f \in [D \cup {b} -> Int] /\ g \in [D \cup {b} -> Int]
        /\ f[b] = b.quantity /\ g[b] = b.quantity * pb.price
        /\ (\A y \in D : f[y] = fa[y]) /\ (\A y \in D : g[y] = ga[y])
    <3>1. \A q \in P : q.quantity \in Int /\ q.quantity * PriceOf(kind, q).price \in Int
      BY <1>1, <2>1, <2>2
    <3>2. f \in [P -> Int] /\ g \in [P -> Int]
      BY <1>f, <3>1
    <3>3. a \in P /\ b \in P /\ P = D \cup {b}
      BY <2>1
    <3>4. f[b] = b.quantity /\ g[b] = b.quantity * pb.price
      BY <1>f, <3>3
    <3>5. f[a] = a.quantity /\ g[a] = a.quantity * pa.price
      BY <1>f, <3>3
    <3>6. fa \in [D -> Int] /\ ga \in [D -> Int] /\ fa[a] = a.quantity /\ ga[a] = a.quantity * pa.price
      BY <1>1, <2>2
    <3> HIDE DEF fa, ga, pa, pb
    <3> QED
      BY <3>2, <3>3, <3>4, <3>5, <3>6
  <2>4. LastPart(P) = b
    BY <1>2, <2>1, LastPartIs
  <2>5. IsFiniteSet(D) /\ b \notin D
    BY <1>2, FS_Singleton
  <2>6. new = [quantity |-> t.quantity + length * SumOf(f), cost |-> t.worth + length * SumOf(g),
               price |-> pb.price, step |-> pb.step_size]
    <3>1. P # {}
      BY <2>1
    <3> QED
      BY <1>3, <1>4, <2>4, <3>1
  <2> HIDE DEF fa, ga
  <2>7. SumOf(fa) = a.quantity /\ SumOf(ga) = a.quantity * pa.price
    BY <2>3, SingleSum
  <2> HIDE DEF D
  <2>8. SumOf(f) = b.quantity + a.quantity /\ SumOf(g) = b.quantity * pb.price + a.quantity * pa.price
    <3>f. f \in [D \cup {b} -> Int] /\ fa \in [D -> Int] /\ (\A y \in D : f[y] = fa[y])
      BY <2>3
    <3>g. g \in [D \cup {b} -> Int] /\ ga \in [D -> Int] /\ (\A y \in D : g[y] = ga[y])
      BY <2>3
    <3>1. SumOf(f) = f[b] + SumOf(fa)
      BY ONLY <2>5, <3>f, SumExtends
    <3>2. SumOf(g) = g[b] + SumOf(ga)
      BY ONLY <2>5, <3>g, SumExtends
    <3> QED
      BY <2>3, <2>7, <3>1, <3>2
  <2>9. u = With(t, SegmentOf(kind, charged))
    BY <1>1, <1>8 DEF After, u
  <2>10. u.quantity = charged.quantity + t.quantity /\ u.worth = charged.quantity * pa.price + t.worth
    BY <1>1, <2>9, SegmentCosts DEF With
  <2>11. Reads(After(kind, length, reserved, u)) =
            [quantity |-> reserved.quantity + u.quantity,
             cost |-> reserved.quantity * pb.price + u.worth,
             price |-> pb.price, step |-> pb.step_size]
    BY <1>1, <1>8, ReadsAfter DEF IsP
  <2> HIDE DEF pa, pb
  <2>12. /\ charged.quantity * pa.price = length * (a.quantity * pa.price)
         /\ reserved.quantity * pb.price = length * (b.quantity * pb.price)
    BY <1>1, <2>2, Multiplied
  <2> DEFINE x == a.quantity * pa.price
             y == b.quantity * pb.price
  <2>13. x \in Int /\ y \in Int
    BY <1>1, <2>2
  <2> HIDE DEF x, y
  <2>14. /\ reserved.quantity + u.quantity = t.quantity + length * SumOf(f)
    BY <1>1, <2>8, <2>10 DEF TallyIsInt
  <2>15. reserved.quantity * pb.price + u.worth = t.worth + length * SumOf(g)
    <3>1. /\ reserved.quantity * pb.price = length * y
          /\ u.worth = length * x + t.worth /\ SumOf(g) = y + x
      BY <2>8, <2>10, <2>12 DEF x, y
    <3>2. t.worth \in Int /\ length \in Int
      BY DEF TallyIsInt
    <3> QED
      BY <2>13, <3>1, <3>2
  <2>16. new = Reads(After(kind, length, reserved, u))
    BY <2>6, <2>11, <2>14, <2>15
  <2> QED
    BY <2>16 DEF new, u, charged, reserved
<1> QED
  BY <1>5, <1>6, <1>7, <1>8

(* The start fee: once in a session.                                       *)
LEMMA SteadyFlat ==
    ASSUME RunInv, NEW kind \in Kinds, NEW length \in Nat \ {0}, clock # None,
           TariffOf(kind) # None, KeepsPrice(TariffOf(kind), kind, length, "FLAT"),
           NEW t, meter["FLAT"] = Reads(t), flat_charged \in BOOLEAN, flat_charged <=> t.some,
           t.some => t.quantity = 1, ~t.some => t.quantity = 0 /\ t.worth = 0
    PROVE  MeteredPeriod(TariffOf(kind), kind, length)["FLAT"] = Reads(AfterFlat(kind, t))
<1> DEFINE tariff == TariffOf(kind)
           Now == Seconds(length)
           charged == {at \in Now : FlatAt(tariff, kind, at) # None}
           fee == Component(tariff, FlatAt(tariff, kind, Least(charged)))
           new == MeteredPeriod(tariff, kind, length)["FLAT"]
           s == FlatSegment(tariff, kind)
<1>1. new = IF meter["FLAT"].quantity = 1 \/ charged = {} THEN meter["FLAT"]
            ELSE [quantity |-> 1, cost |-> fee.price, price |-> fee.price, step |-> 0]
  BY DEF MeteredPeriod, Dimensions, Total
<1>2. \A at \in Now : FlatAt(tariff, kind, at) = FlatIs(kind)
  BY DEF KeepsPrice, FlatIs
<1>3. meter["FLAT"].quantity = t.quantity
  BY DEF Reads
<1>4. charged = IF FlatIs(kind) = None THEN {} ELSE Now
  <2> HIDE DEF tariff, Now
  <2> QED
    BY <1>2
<1>5. Now # {} /\ Least(Now) \in Now
  <2>1. clock \in Int
    BY DEF RunInv
  <2>2. clock \in Now /\ \A y \in Now : clock <= y
    BY <2>1 DEF Seconds
  <2> HIDE DEF Now
  <2> QED
    BY <2>2 DEF Least
<1> HIDE DEF new, charged
<1>6. CASE t.some \/ FlatIs(kind) = None
  <2>1. new = meter["FLAT"]
    BY <1>1, <1>3, <1>4, <1>6
  <2>2. AfterFlat(kind, t) = t
    BY <1>6 DEF AfterFlat, ChargesFlat
  <2> QED
    BY <2>1, <2>2 DEF new
<1>7. CASE ~t.some /\ FlatIs(kind) # None
  <2>1. new = [quantity |-> 1, cost |-> fee.price, price |-> fee.price, step |-> 0]
    BY <1>1, <1>3, <1>4, <1>5, <1>7
  <2>2. FlatAt(tariff, kind, Least(charged)) = FlatIs(kind)
    <3>1. charged = Now
      BY <1>4, <1>7
    <3> HIDE DEF Now, tariff
    <3> QED
      BY <1>2, <1>5, <3>1
  <2>3. fee = Component(tariff, FlatIs(kind))
    BY <2>2
  <2>4. AfterFlat(kind, t) = With(t, s)
    BY <1>7 DEF AfterFlat, ChargesFlat
  <2>5. IsSegment(s) /\ s.quantity = 1 /\ s.price = Component(tariff, FlatIs(kind)).price /\ s.step_size = 0
    BY <1>7, FlatSegmentIs
  <2> HIDE DEF s, fee, tariff
  <2>6. s.price = fee.price /\ s.price \in Int
    BY <2>3, <2>5 DEF IsSegment
  <2>7. s.quantity + t.quantity = 1 /\ s.quantity * s.price + t.worth = s.price
    BY <1>7, <2>5, <2>6
  <2>8. Reads(With(t, s)) = [quantity |-> s.quantity + t.quantity,
                             cost |-> s.quantity * s.price + t.worth,
                             price |-> s.price, step |-> s.step_size]
    BY DEF Reads, With
  <2>9. Reads(With(t, s)) = new
    BY <2>1, <2>5, <2>6, <2>7, <2>8
  <2> QED
    BY <2>4, <2>9 DEF new, tariff
<1> QED
  BY <1>6, <1>7

LEMMA NoneTallied ==
    ASSUME NEW list, NEW d, ~Tally(list, d).some
    PROVE  Tally(list, d).quantity = 0 /\ Tally(list, d).worth = 0
<1> DEFINE q == [i \in OfIn(list, d) |-> list[i].quantity]
           w == [i \in OfIn(list, d) |-> list[i].quantity * list[i].price]
<1>1. OfIn(list, d) = {}
  BY DEF Tally
<1>2. /\ DOMAIN q = {} /\ q = [x \in {} |-> q[x]]
      /\ DOMAIN w = {} /\ w = [x \in {} |-> w[x]]
  BY <1>1
<1>3. Tally(list, d).quantity = SumOf(q) /\ Tally(list, d).worth = SumOf(w)
  BY DEF Tally, QuantityIn, WorthIn, Total
<1> HIDE DEF q, w
<1>4. SumOf(q) = 0 /\ SumOf(w) = 0
  BY <1>2, EmptySum
<1> QED
  BY <1>3, <1>4

-----------------------------------------------------------------------------
(* What is stated of a dimension: what its segments are worth, and what the *)
(* last of them asks of the surplus.                                       *)

MayRound(d) ==
    d \in {"ENERGY", "PARKING_TIME"} \/ (d = "TIME" /\ ~Tally(segments, "PARKING_TIME").some)
Due(d) ==
    LET t == Tally(segments, d)
    IN  t.worth + IF t.some /\ MayRound(d)
                  THEN (Quantised(t.quantity, t.last.step_size) - t.quantity) * t.last.price
                  ELSE 0

LEMMA StatedIs ==
    ASSUME AreSegments(segments), NEW d
    PROVE  Total(Of(d), LAMBDA i : Stated(i)) = Due(d)
<1> DEFINE D == Of(d)
           f == [i \in D |-> Stated(i)]
           g == [i \in D |-> segments[i].quantity * segments[i].price]
           t == Tally(segments, d)
           last == Greatest(D)
<1>0. D = OfIn(segments, d) /\ D \subseteq DOMAIN segments /\ \A i \in D : segments[i].dimension = d
  BY DEF Of, OfIn
<1>1. /\ IsFiniteSet(D) /\ D \in SUBSET Int /\ \A i \in D : IsSegment(segments[i])
  BY <1>0, SegmentsAre, FS_Subset
<1>2. Total(D, LAMBDA i : Stated(i)) = SumOf(f) /\ t.worth = SumOf(g)
  BY <1>0 DEF Total, Tally, WorthIn
<1>3. Surplus(d) \in Int
  BY SurplusIs
<1>4. IsQuantised(d) <=> MayRound(d)
  BY MeasuredIs DEF IsQuantised, MayRound
<1>5. (D # {} <=> t.some) /\ Measured(d) = t.quantity
  BY MeasuredIs
<1>6. \A i \in D : Stated(i) = (segments[i].quantity + IF i = last THEN Surplus(d) ELSE 0)
                                  * segments[i].price
  BY <1>0 DEF Stated, Billed
<1> HIDE DEF D
<1>7. CASE D = {}
  <2>1. DOMAIN f = {} /\ f = [x \in {} |-> f[x]]
    BY <1>7
  <2> HIDE DEF f
  <2>2. SumOf(f) = 0
    BY <2>1, EmptySum
  <2>3. t.worth = 0 /\ ~t.some
    BY <1>5, <1>7, NoneTallied
  <2> QED
    BY <1>2, <2>2, <2>3 DEF Due, D
<1>8. CASE D # {}
  <2>1. last \in D
    BY <1>1, <1>8, GreatestIs
  <2>2. t.last = segments[last]
    BY <1>0, <1>8 DEF Tally
  <2> HIDE DEF last
  <2> DEFINE s == segments[last]
             more == Surplus(d)
             h == [i \in D \ {last} |-> g[i]]
  <2>3. s.quantity \in Int /\ s.price \in Int
    BY <1>1, <2>1 DEF IsSegment
  <2>4. f[last] = (s.quantity + more) * s.price /\ g[last] = s.quantity * s.price
    BY <1>6, <2>1
  <2>5. \A i \in D \ {last} : f[i] = g[i]
    <3>1. \A i \in D \ {last} : segments[i].quantity + 0 = segments[i].quantity
      BY <1>1 DEF IsSegment
    <3> QED
      BY <1>6, <3>1
  <2>6. g \in [D -> Int]
    <3>1. \A i \in D : segments[i].quantity * segments[i].price \in Int
      BY <1>1 DEF IsSegment
    <3> QED
      BY <3>1
  <2>7. f \in [D -> Int] /\ h \in [D \ {last} -> Int]
    <3>1. (s.quantity + more) * s.price \in Int
      BY <1>3, <2>3
    <3>2. \A i \in D : f[i] \in Int
      BY <2>4, <2>5, <2>6, <3>1
    <3>3. f = [i \in D |-> f[i]] /\ \A i \in D \ {last} : h[i] \in Int
      BY <2>6
    <3> HIDE DEF f
    <3> QED
      BY <3>2, <3>3
  <2>8. \A i \in D \ {last} : h[i] = f[i] /\ h[i] = g[i]
    BY <2>5
  <2> HIDE DEF f, g, h
  <2>i. IsFiniteSet(D)
    BY <1>1
  <2>f. f \in [D -> Int] /\ h \in [D \ {last} -> Int] /\ (\A i \in D \ {last} : h[i] = f[i])
    BY <2>7, <2>8
  <2>g. g \in [D -> Int] /\ h \in [D \ {last} -> Int] /\ (\A i \in D \ {last} : h[i] = g[i])
    BY <2>6, <2>7, <2>8
  <2>9. SumOf(f) = f[last] + SumOf(h)
    BY ONLY <2>i, <2>1, <2>f, SumSplits
  <2>10. SumOf(g) = g[last] + SumOf(h)
    BY ONLY <2>i, <2>1, <2>g, SumSplits
  <2>11. SumOf(h) \in Int
    <3>1. IsFiniteSet(D \ {last})
      BY <1>1, FS_Subset
    <3> QED
      BY <2>7, <3>1, IntSums
  <2>12. more = IF MayRound(d) THEN Quantised(t.quantity, s.step_size) - t.quantity ELSE 0
    BY <1>4, <1>5, <1>8 DEF Surplus, D, last
  <2> HIDE DEF more, s
  <2>13. SumOf(f) = t.worth + more * s.price
    <3> DEFINE p == s.price
               n == s.quantity
    <3>1. p \in Int /\ n \in Int /\ more \in Int
      BY <1>3, <2>3 DEF more
    <3> HIDE DEF p, n
    <3>2. (n + more) * p = n * p + more * p /\ n * p \in Int /\ more * p \in Int
      BY <3>1
    <3>3. f[last] = n * p + more * p /\ g[last] = n * p
      BY <2>4, <3>2 DEF n, p
    <3>4. SumOf(f) = t.worth + more * p
      BY <1>2, <2>9, <2>10, <2>11, <3>2, <3>3
    <3> QED
      BY <3>4 DEF p
  <2>14. t.worth \in Int /\ s.price \in Int
    BY <2>3, TallyInts DEF TallyIsInt
  <2>15. Due(d) = t.worth + more * s.price
    <3>1. CASE MayRound(d)
      BY <1>5, <1>8, <2>2, <2>12, <3>1 DEF Due, s
    <3>2. CASE ~MayRound(d)
      BY <2>12, <2>14, <3>2 DEF Due
    <3> QED
      BY <3>1, <3>2
  <2> QED
    BY <1>2, <2>13, <2>15 DEF D
<1> QED
  BY <1>7, <1>8

-----------------------------------------------------------------------------
(* The bill and the meter.                                                 *)

(* Nobody parks for less than no time.                                     *)
ParkingLasts == \A kind \in Kinds : kind.parking >= 0

MeterInv ==
    /\ ReviewInv
    /\ flat_charged \in BOOLEAN /\ (flat_charged <=> Tally(segments, "FLAT").some)
    /\ flat_charged => Tally(segments, "FLAT").quantity = 1
    /\ Tally(segments, "PARKING_TIME").some => Tally(segments, "PARKING_TIME").quantity > 0
    /\ steady => \A d \in Dimensions : meter[d] = Reads(Tally(segments, d))
    /\ IsBilled => \A d \in Dimensions : bill.stated[d] = Due(d)

LEMMA MeterBegins == Init => MeterInv
<1> SUFFICES ASSUME Init PROVE MeterInv
  OBVIOUS
<1>1. ReviewInv /\ ~IsBilled
  BY ReviewBegins DEF Init, IsBilled, Pricing, Failed
<1>2. \A d : Tally(segments, d) = [some |-> FALSE, quantity |-> 0, worth |-> 0, last |-> None]
  BY TallyOfNone DEF Init
<1>3. \A d \in Dimensions : meter[d] = Reads(Tally(segments, d))
  <2>1. \A d \in Dimensions : meter[d] = [quantity |-> 0, cost |-> 0, price |-> 0, step |-> 0]
    BY DEF Init
  <2> QED
    BY <1>2, <2>1 DEF Reads
<1>4. flat_charged = FALSE
  BY DEF Init
<1>5. ~Tally(segments, "FLAT").some /\ ~Tally(segments, "PARKING_TIME").some
  BY <1>2
<1> QED
  BY <1>1, <1>3, <1>4, <1>5 DEF MeterInv

(* A period adds its one parking part, if that has a price.                 *)
LEMMA ParkingGrows ==
    ASSUME ParkingLasts, RunInv, NEW kind \in Kinds, NEW length \in Nat \ {0}, TariffOf(kind) # None,
           NEW t, t.quantity \in Int, t.some => t.quantity > 0, ~t.some => t.quantity = 0
    PROVE  LET u == After(kind, length, Parts(kind, length)[4], t)
           IN  u.some => u.quantity > 0
<1> DEFINE part == Parts(kind, length)[4]
           u == After(kind, length, part, t)
<1>1. part.quantity = kind.parking * length /\ kind.parking \in Int
  BY KindsAre DEF Parts
<1> HIDE DEF part
<1>2. part.quantity >= 0 /\ part.quantity \in Int
  <2> DEFINE n == kind.parking
  <2>1. n >= 0 /\ n \in Int
    BY <1>1 DEF ParkingLasts
  <2> HIDE DEF n
  <2>2. n * length >= 0 /\ n * length \in Int
    BY <2>1
  <2> QED
    BY <1>1, <2>2 DEF n
<1>3. CASE part \in Priced(TariffOf(kind), kind, length)
  <2>1. u = With(t, SegmentOf(kind, part))
    BY <1>3 DEF After
  <2>2. u.quantity = part.quantity + t.quantity
    BY <2>1, SegmentCosts DEF With
  <2>3. part.quantity # 0
    BY <1>3 DEF Priced, Quantities
  <2>4. t.quantity >= 0
    OBVIOUS
  <2> HIDE DEF u
  <2>5. u.quantity > 0
    BY <1>2, <2>2, <2>3, <2>4
  <2> QED
    BY <2>5 DEF u, part
<1>4. CASE part \notin Priced(TariffOf(kind), kind, length)
  <2>1. u = t
    BY <1>4 DEF After
  <2> QED
    BY <2>1 DEF part
<1> QED
  BY <1>3, <1>4

LEMMA MeterKeeps == ParkingLasts /\ MeterInv /\ [Next]_pvars => MeterInv'
<1> SUFFICES ASSUME ParkingLasts, MeterInv, [Next]_pvars PROVE MeterInv'
  OBVIOUS
<1>0. ReviewInv'
  BY ReviewKeeps DEF MeterInv
<1>1. ASSUME NEW kind \in Kinds, NEW length \in 1..MaxLength, PricePeriod(kind, length)
      PROVE  MeterInv'
  <2> DEFINE part == Parts(kind, length)
             before(d) == Tally(segments, d)
             after(d) == Tally(segments', d)
  <2>1. /\ RunInv /\ AreSegments(segments) /\ TariffOf(kind) # None /\ clock # None
        /\ length \in Nat \ {0} /\ length \in Int /\ ~IsBilled'
    BY <1>1, PricingAssumption
       DEF MeterInv, ReviewInv, PricePeriod, IsBilled, Pricing
  <2>2. /\ after("ENERGY") = After(kind, length, part[1], before("ENERGY"))
        /\ after("TIME") = After(kind, length, part[3], After(kind, length, part[2], before("TIME")))
        /\ after("PARKING_TIME") = After(kind, length, part[4], before("PARKING_TIME"))
        /\ after("FLAT") = AfterFlat(kind, before("FLAT"))
    BY <1>1, <2>1, PeriodTallies
  <2>3. \A d : TallyIsInt(before(d)) /\ (~before(d).some => before(d).quantity = 0 /\ before(d).worth = 0)
    BY <2>1, TallyInts, NoneTallied
  <2>4. after("PARKING_TIME").some => after("PARKING_TIME").quantity > 0
    <3> DEFINE t == before("PARKING_TIME")
    <3>1. /\ t.quantity \in Int /\ (t.some => t.quantity > 0) /\ (~t.some => t.quantity = 0)
      BY <2>3 DEF MeterInv, TallyIsInt
    <3> HIDE DEF t
    <3>2. LET u == After(kind, length, Parts(kind, length)[4], t) IN u.some => u.quantity > 0
      BY <2>1, <3>1, ParkingGrows
    <3> QED
      BY <2>2, <3>2 DEF t
  <2>5. /\ flat_charged' \in BOOLEAN /\ (flat_charged' <=> after("FLAT").some)
        /\ flat_charged' => after("FLAT").quantity = 1
    <3> DEFINE t == before("FLAT")
               s == FlatSegment(TariffOf(kind), kind)
    <3>1. flat_charged' = (flat_charged \/ ChargesFlat(FlatIs(kind)))
      BY <1>1 DEF PricePeriod, FlatIs
    <3>2. /\ flat_charged \in BOOLEAN /\ (flat_charged <=> t.some) /\ (flat_charged => t.quantity = 1)
          /\ (~t.some => t.quantity = 0)
      BY <2>3 DEF MeterInv
    <3> HIDE DEF t
    <3>3. CASE ChargesFlat(FlatIs(kind))
      <4>1. ~flat_charged /\ FlatIs(kind) # None
        BY <3>3 DEF ChargesFlat
      <4>2. s.quantity = 1
        BY <2>1, <4>1, FlatSegmentIs
      <4>3. after("FLAT") = With(t, s)
        BY <2>2, <3>3 DEF AfterFlat, t
      <4>4. t.quantity = 0 /\ flat_charged'
        BY <3>1, <3>2, <3>3, <4>1
      <4>5. after("FLAT").some /\ after("FLAT").quantity = s.quantity + t.quantity
        BY <4>3 DEF With
      <4> HIDE DEF s, after
      <4>6. after("FLAT").quantity = 1
        BY <4>2, <4>4, <4>5
      <4>7. flat_charged' \in BOOLEAN
        BY <3>1, <3>2, <3>3
      <4> QED
        BY <4>4, <4>5, <4>6, <4>7
    <3>4. CASE ~ChargesFlat(FlatIs(kind))
      <4>1. after("FLAT") = t
        BY <2>2, <3>4 DEF AfterFlat, t
      <4> QED
        BY <3>1, <3>2, <3>4, <4>1
    <3> QED
      BY <3>3, <3>4
  <2>6. ASSUME steady' PROVE \A d \in Dimensions : meter'[d] = Reads(after(d))
    <3>1. /\ \A d \in Dimensions : KeepsPrice(TariffOf(kind), kind, length, d)
          /\ \A d \in Dimensions : meter[d] = Reads(before(d))
          /\ meter' = MeteredPeriod(TariffOf(kind), kind, length)
      BY <1>1, <2>6 DEF PricePeriod, MeterInv
    <3>2. /\ "ENERGY" \in Dimensions /\ "TIME" \in Dimensions /\ "PARKING_TIME" \in Dimensions
          /\ "FLAT" \in Dimensions
          /\ \A d \in Dimensions : d = "ENERGY" \/ d = "TIME" \/ d = "PARKING_TIME" \/ d = "FLAT"
      BY DEF Dimensions
    <3>3. meter'["ENERGY"] = Reads(after("ENERGY"))
      <4>1. /\ 1 \in {1, 4} /\ "ENERGY" # "FLAT" /\ "ENERGY" = Parts(kind, length)[1].dimension
            /\ KeepsPrice(TariffOf(kind), kind, length, "ENERGY")
            /\ TallyIsInt(before("ENERGY")) /\ meter["ENERGY"] = Reads(before("ENERGY"))
        BY <2>3, <3>1, <3>2, PartDimensions
      <4>2. MeteredPeriod(TariffOf(kind), kind, length)["ENERGY"]
               = Reads(After(kind, length, Parts(kind, length)[1], before("ENERGY")))
        BY <2>1, <3>2, <4>1, SteadySingle
      <4> QED
        BY <2>2, <3>1, <4>2
    <3>4. meter'["PARKING_TIME"] = Reads(after("PARKING_TIME"))
      <4>1. /\ 4 \in {1, 4} /\ "PARKING_TIME" # "FLAT"
            /\ "PARKING_TIME" = Parts(kind, length)[4].dimension
            /\ KeepsPrice(TariffOf(kind), kind, length, "PARKING_TIME")
            /\ TallyIsInt(before("PARKING_TIME"))
            /\ meter["PARKING_TIME"] = Reads(before("PARKING_TIME"))
        BY <2>3, <3>1, <3>2, PartDimensions
      <4>2. MeteredPeriod(TariffOf(kind), kind, length)["PARKING_TIME"]
               = Reads(After(kind, length, Parts(kind, length)[4], before("PARKING_TIME")))
        BY <2>1, <3>2, <4>1, SteadySingle
      <4> QED
        BY <2>2, <3>1, <4>2
    <3>5. meter'["TIME"] = Reads(after("TIME"))
      <4>1. MeteredPeriod(TariffOf(kind), kind, length)["TIME"]
               = Reads(After(kind, length, Parts(kind, length)[3],
                             After(kind, length, Parts(kind, length)[2], before("TIME"))))
        BY <2>1, <2>3, <3>1, <3>2, SteadyTime
      <4> QED
        BY <2>2, <3>1, <4>1
    <3>6. meter'["FLAT"] = Reads(after("FLAT"))
      <4> DEFINE t == before("FLAT")
      <4>1. /\ meter["FLAT"] = Reads(t) /\ flat_charged \in BOOLEAN /\ (flat_charged <=> t.some)
            /\ (t.some => t.quantity = 1) /\ (~t.some => t.quantity = 0 /\ t.worth = 0)
        BY <2>3, <3>1, <3>2 DEF MeterInv
      <4> HIDE DEF t
      <4>2. MeteredPeriod(TariffOf(kind), kind, length)["FLAT"] = Reads(AfterFlat(kind, t))
        BY <2>1, <3>1, <3>2, <4>1, SteadyFlat
      <4> QED
        BY <2>2, <3>1, <4>2 DEF t
    <3> HIDE DEF after
    <3> QED
      BY <3>2, <3>3, <3>4, <3>5, <3>6
  <2> QED
    BY <1>0, <2>1, <2>4, <2>5, <2>6 DEF MeterInv
<1>2. ASSUME \E kind \in Kinds : RefusePeriod(kind) PROVE MeterInv'
  <2>1. /\ segments' = segments /\ flat_charged' = flat_charged /\ steady' = steady
        /\ meter' = meter /\ ~IsBilled'
    BY <1>2 DEF RefusePeriod, IsBilled, Failed
  <2> QED
    BY <1>0, <2>1 DEF MeterInv
<1>3. ASSUME Finish PROVE MeterInv'
  <2>1. /\ segments' = segments /\ flat_charged' = flat_charged /\ steady' = steady
        /\ meter' = meter
    BY <1>3 DEF Finish
  <2>2. IsBilled' => \A d \in Dimensions : bill'.stated[d] = Due(d)
    <3> DEFINE tariff == SelectByPreference(session.tariffs, session.wanted, session.start)
    <3>1. CASE tariff = None
      BY <1>3, <3>1 DEF Finish, Failed, IsBilled
    <3>2. CASE tariff # None
      <4> DEFINE stated == [d \in Dimensions |-> Total(Of(d), LAMBDA i : Stated(i))]
                 totals == Clamped(tariff)
                 measured == [d \in Dimensions |-> Measured(d)]
                 taxes == PresentTaxes(RawLines, totals)
      <4>1. bill' = [state |-> "billed", measured |-> measured, stated |-> stated,
                     excl |-> totals.excl, incl |-> totals.incl, limit |-> totals.limit,
                     taxes |-> taxes]
        BY <1>3, <3>2 DEF Finish
      <4>2. \A d \in Dimensions : stated[d] = Due(d)
        BY StatedIs DEF MeterInv, ReviewInv
      <4> HIDE DEF stated, totals, measured, taxes
      <4>3. bill'.stated = stated
        BY <4>1
      <4> QED
        BY <4>2, <4>3
    <3> QED
      BY <3>1, <3>2
  <2>3. \A d \in Dimensions : Due(d)' = Due(d)
    BY <2>1 DEF Due, MayRound
  <2> QED
    BY <1>0, <2>1, <2>2, <2>3 DEF MeterInv
<1>4. ASSUME UNCHANGED pvars PROVE MeterInv'
  BY <1>0, <1>4 DEF pvars, MeterInv, IsBilled, Due, MayRound
<1> QED
  BY <1>1, <1>2, <1>3, <1>4 DEF Next

(* The bill of a session whose periods were split wherever a price changes  *)
(* is what pricing it second by second comes to, for any tariff with any   *)
(* step_size, and any number of periods of any length: BilledAsMetered of   *)
(* price() and quantise_and_cost().                                        *)
THEOREM BillsAreMetered ==
    ASSUME ParkingLasts
    PROVE  Spec => []BilledAsMetered
<1>1. MeterInv => BilledAsMetered
  <2> SUFFICES ASSUME MeterInv, IsBilled, steady, NEW d \in Dimensions
               PROVE  bill.stated[d] = Owed(d)
    BY DEF BilledAsMetered
  <2> DEFINE t == Tally(segments, d)
             parked == Tally(segments, "PARKING_TIME")
  <2>1. bill.stated[d] = Due(d) /\ meter[d] = Reads(t) /\ meter["PARKING_TIME"] = Reads(parked)
    BY DEF MeterInv, Dimensions
  <2>2. TallyIsInt(t) /\ TallyIsInt(parked)
    BY TallyInts DEF MeterInv, ReviewInv
  <2>3. /\ meter[d].quantity = t.quantity /\ meter[d].cost = t.worth
        /\ t.some => meter[d].price = t.last.price /\ meter[d].step = t.last.step_size
        /\ ~t.some => meter[d].price = 0 /\ meter[d].step = 0
    BY <2>1 DEF Reads
  <2>4. meter["PARKING_TIME"].quantity # 0 <=> parked.some
    <3>1. meter["PARKING_TIME"].quantity = parked.quantity
      BY <2>1 DEF Reads
    <3>2. parked.some => parked.quantity > 0
      BY DEF MeterInv
    <3>3. ~parked.some => parked.quantity = 0
      BY NoneTallied
    <3>4. parked.some \in BOOLEAN
      BY DEF Tally
    <3> HIDE DEF parked
    <3> QED
      BY <3>1, <3>2, <3>3, <3>4
  <2>5. d = "FLAT" \/ (d = "TIME" /\ meter["PARKING_TIME"].quantity # 0) <=> ~MayRound(d)
    BY <2>4 DEF MayRound, Dimensions
  <2>6. t.some => t.last.price \in Int /\ t.last.step_size \in Nat
    <3>1. ASSUME OfIn(segments, d) # {}
          PROVE  IsSegment(segments[Greatest(OfIn(segments, d))])
      <4> DEFINE D == OfIn(segments, d)
      <4>1. AreSegments(segments)
        BY DEF MeterInv, ReviewInv
      <4>2. /\ IsFiniteSet(D) /\ D \in SUBSET Int /\ D # {} /\ D \subseteq DOMAIN segments
            /\ \A i \in DOMAIN segments : IsSegment(segments[i])
        BY <3>1, <4>1, SegmentsAre, FS_Subset DEF OfIn
      <4> HIDE DEF D
      <4>3. Greatest(D) \in D
        BY <4>2, GreatestIs
      <4> QED
        BY <4>2, <4>3 DEF D
    <3> QED
      BY <3>1 DEF Tally, IsSegment
  <2>7. Owed(d) = meter[d].cost
                     + IF ~MayRound(d) THEN 0
                       ELSE meter[d].price
                               * (Quantised(meter[d].quantity, meter[d].step) - meter[d].quantity)
    BY <2>5 DEF Owed
  <2> HIDE DEF t
  <2>8. CASE t.some
    <3> DEFINE more == Quantised(t.quantity, t.last.step_size) - t.quantity
               p == t.last.price
    <3>1. Due(d) = t.worth + IF MayRound(d) THEN more * p ELSE 0
      BY <2>8 DEF Due, t
    <3>2. Owed(d) = t.worth + IF ~MayRound(d) THEN 0 ELSE p * more
      BY <2>3, <2>7, <2>8
    <3>3. more \in Int /\ p \in Int
      BY <2>2, <2>6, <2>8 DEF TallyIsInt, Quantised
    <3> HIDE DEF more, p
    <3>4. more * p = p * more
      BY <3>3
    <3> QED
      BY <2>1, <3>1, <3>2, <3>4
  <2>9. CASE ~t.some
    <3>1. Due(d) = t.worth + 0
      BY <2>9 DEF Due, t
    <3>2. Quantised(meter[d].quantity, meter[d].step) = t.quantity
      BY <2>3, <2>9 DEF Quantised
    <3>3. Owed(d) = t.worth + IF ~MayRound(d) THEN 0 ELSE 0 * (t.quantity - t.quantity)
      BY <2>3, <2>7, <2>9, <3>2
    <3>4. 0 * (t.quantity - t.quantity) = 0
      BY <2>2 DEF TallyIsInt
    <3> QED
      BY <2>1, <3>1, <3>3, <3>4
  <2> QED
    BY <2>8, <2>9
<1> QED
  BY <1>1, MeterBegins, MeterKeeps, PTL DEF Spec
=============================================================================
