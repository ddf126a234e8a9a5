---------------------------- MODULE FairShareProofs ----------------------------
(***************************************************************************)
(* Safety of the fair shares for any number of tenants and any demands,    *)
(* weights and capacity: what the passes of the loop hand out is neither   *)
(* more than there is nor less, and equal weights make equal shares.       *)
(***************************************************************************)
EXTENDS FairShare, FiniteSetTheorems, TLAPS

TypeOK ==
  /\ demand \in [Tenant -> Nat]
  /\ weight \in [Tenant -> Nat]
  /\ total \in Nat
  /\ granted \in [Tenant -> Nat]
  /\ remaining \in Nat
  /\ returned \in BOOLEAN

\* As long as there is something left, tenants of equal weight whose demand is
\* not met have the same and nobody has more; the last bytes, one each, make a
\* difference of at most one.
Level ==
  (\A t, u \in Items : weight[t] = weight[u])
    => \A t \in Unmet, u \in Items :
         IF remaining > 0 THEN granted[u] <= granted[t]
                          ELSE granted[u] <= granted[t] + 1

Inv == TypeOK /\ SharesSound /\ Level

----------------------------------------------------------------------------
(* Sums *)

LEMMA TenantFinite == IsFiniteSet(Tenant) /\ \A S \in SUBSET Tenant : IsFiniteSet(S)
<1>1. IsFiniteSet(Tenant)
  BY FairShareAssumption, FS_Interval DEF Tenant
<1> QED BY <1>1, FS_Subset

\* The units of a sum are finitely many.
LEMMA SumType ==
  ASSUME NEW S \in SUBSET Tenant, NEW f \in [Tenant -> Nat]
  PROVE  IsFiniteSet(Units(f, S)) /\ Sum(f, S) \in Nat
<1> DEFINE of == [t \in S |-> {t} \X (1..f[t])]
           all == {{t} \X (1..f[t]) : t \in S}
<1>1. of \in Surjection(S, all)
  BY DEF Surjection
<1>2. IsFiniteSet(all)
  <2> HIDE DEF of, all
  <2> QED BY <1>1, TenantFinite, FS_Surjection
<1>3. ASSUME NEW T \in all PROVE IsFiniteSet(T)
  <2>1. PICK t \in S : T = {t} \X (1..f[t])
    OBVIOUS
  <2>2. IsFiniteSet(1..f[t])
    BY FS_Interval
  <2>3. IsFiniteSet({t})
    BY FS_Singleton
  <2> QED BY <2>1, <2>2, <2>3, FS_Product
<1>4. IsFiniteSet(UNION all)
  <2> HIDE DEF all
  <2> QED BY <1>2, <1>3, FS_UNION
<1>5. IsFiniteSet(Units(f, S))
  BY <1>4 DEF Units
<1> QED BY <1>5, FS_CardinalityType DEF Sum

\* A unit belongs to a member and has a number up to its count.
LEMMA UnitOf ==
  ASSUME NEW S, NEW f, NEW x
  PROVE  x \in Units(f, S) <=> \E t \in S : \E i \in 1..f[t] : x = <<t, i>>
BY DEF Units

\* The sum of two functions is the sum of their sums.
LEMMA SumAdd ==
  ASSUME NEW f \in [Tenant -> Nat], NEW g \in [Tenant -> Nat]
  PROVE  Sum([t \in Tenant |-> f[t] + g[t]], Tenant) = Sum(f, Tenant) + Sum(g, Tenant)
<1> DEFINE h == [t \in Tenant |-> f[t] + g[t]]
           A == Units(f, Tenant)
           B == Units(g, Tenant)
           shift == [x \in B |-> <<x[1], f[x[1]] + x[2]>>]
           C == {x \in Units(h, Tenant) : x[2] > f[x[1]]}
<1>1. IsFiniteSet(A) /\ IsFiniteSet(B) /\ h \in [Tenant -> Nat]
  BY SumType
<1>2. shift \in Bijection(B, C)
  <2>1. ASSUME NEW x \in B PROVE shift[x] \in C
    <3>1. PICK t \in Tenant, i \in Nat : i \in 1..g[t] /\ x = <<t, i>>
      BY UnitOf
    <3>2. shift[x] = <<t, f[t] + i>>
      BY <3>1
    <3>3. f[t] + i \in 1..h[t] /\ f[t] + i > f[t]
      BY <3>1
    <3>4. shift[x] \in Units(h, Tenant)
      BY <3>2, <3>3, UnitOf
    <3> QED BY <3>2, <3>3, <3>4
  <2>2. ASSUME NEW x \in B, NEW y \in B, shift[x] = shift[y] PROVE x = y
    <3>1. PICK t \in Tenant, i \in Nat : i \in 1..g[t] /\ x = <<t, i>>
      BY UnitOf
    <3>2. PICK u \in Tenant, j \in Nat : j \in 1..g[u] /\ y = <<u, j>>
      BY UnitOf
    <3>3. <<t, f[t] + i>> = <<u, f[u] + j>>
      BY <2>2, <3>1, <3>2
    <3>4. t = u /\ f[t] + i = f[t] + j
      BY <3>3
    <3> QED BY <3>1, <3>2, <3>4
  <2>3. ASSUME NEW y \in C PROVE \E x \in B : shift[x] = y
    <3>1. PICK t \in Tenant, j \in Nat : j \in 1..h[t] /\ y = <<t, j>>
      BY UnitOf
    <3>2. j > f[t] /\ j - f[t] \in 1..g[t]
      BY <3>1
    <3>3. <<t, j - f[t]>> \in B
      BY <3>2, UnitOf
    <3>4. shift[<<t, j - f[t]>>] = <<t, f[t] + (j - f[t])>>
      BY <3>3
    <3> QED BY <3>1, <3>2, <3>3, <3>4
  <2>4. shift \in [B -> C]
    BY <2>1
  <2> QED BY <2>2, <2>3, <2>4 DEF Bijection, Injection, Surjection, IsInjective
<1>3. IsFiniteSet(C) /\ Cardinality(C) = Sum(g, Tenant)
  <2> HIDE DEF shift, C
  <2> QED BY <1>1, <1>2, FS_Bijection DEF ExistsBijection, Sum
<1>4. Units(h, Tenant) = A \cup C /\ A \cap C = {}
  <2>1. ASSUME NEW x \in A PROVE x \in Units(h, Tenant) /\ x \notin C
    <3>1. PICK t \in Tenant, i \in Nat : i \in 1..f[t] /\ x = <<t, i>>
      BY UnitOf
    <3>2. i \in 1..h[t] /\ ~(i > f[t])
      BY <3>1
    <3> QED BY <3>1, <3>2, UnitOf
  <2>2. ASSUME NEW x \in Units(h, Tenant), x \notin C PROVE x \in A
    <3>1. PICK t \in Tenant, i \in Nat : i \in 1..h[t] /\ x = <<t, i>>
      BY UnitOf
    <3>2. i \in 1..f[t]
      BY <2>2, <3>1
    <3> QED BY <3>1, <3>2, UnitOf
  <2> QED BY <2>1, <2>2
<1>5. Cardinality(A \cup C) = Cardinality(A) + Cardinality(C)
  <2> HIDE DEF A, C
  <2>1. Cardinality(A) \in Nat /\ Cardinality(C) \in Nat
    BY <1>1, <1>3, FS_CardinalityType
  <2>2. Cardinality(A \cup C) = Cardinality(A) + Cardinality(C) - Cardinality(A \cap C)
    BY <1>1, <1>3, FS_Union
  <2>3. Cardinality(A \cap C) = 0
    BY <1>4, FS_EmptySet
  <2> QED BY <2>1, <2>2, <2>3
<1> QED BY <1>3, <1>4, <1>5 DEF Sum

\* A member with a positive count makes the sum positive, and a sum of zero
\* makes every count zero.
LEMMA SumPositive ==
  ASSUME NEW S \in SUBSET Tenant, NEW f \in [Tenant -> Nat]
  PROVE  Sum(f, S) = 0 <=> \A t \in S : f[t] = 0
<1>1. IsFiniteSet(Units(f, S))
  BY SumType
<1>2. Sum(f, S) = 0 <=> Units(f, S) = {}
  BY <1>1, FS_EmptySet DEF Sum
<1>3. ASSUME NEW t \in S, f[t] # 0 PROVE Units(f, S) # {}
  <2>1. 1 \in 1..f[t]
    BY <1>3
  <2>2. <<t, 1>> \in Units(f, S)
    BY <2>1, UnitOf
  <2> QED BY <2>2
<1>4. ASSUME \A t \in S : f[t] = 0 PROVE Units(f, S) = {}
  BY <1>4, UnitOf
<1> QED BY <1>2, <1>3, <1>4

\* Equal counts make a product.
LEMMA SumEqual ==
  ASSUME NEW S \in SUBSET Tenant, NEW f \in [Tenant -> Nat], NEW c \in Nat,
         \A t \in S : f[t] = c
  PROVE  Sum(f, S) = Cardinality(S) * c
<1>1. Units(f, S) = S \X (1..c)
  <2>1. ASSUME NEW x PROVE x \in Units(f, S) <=> x \in S \X (1..c)
    <3>1. x \in Units(f, S) <=> \E t \in S : \E i \in 1..c : x = <<t, i>>
      BY UnitOf
    <3> QED BY <3>1
  <2> QED BY <2>1
<1>2. IsFiniteSet(1..c) /\ Cardinality(1..c) = c
  BY FS_Interval
<1> QED BY <1>1, <1>2, TenantFinite, FS_Product DEF Sum

----------------------------------------------------------------------------
(* Arithmetic of the proportional shares *)

\* A number has one quotient and one remainder.
LEMMA Digits ==
  ASSUME NEW w \in Nat \ {0}, NEW a \in Nat, NEW b \in Nat,
         NEW i \in 1..w, NEW j \in 1..w, a * w + i = b * w + j
  PROVE  a = b /\ i = j
<1>1. ASSUME NEW x \in Nat, NEW y \in Nat, x < y PROVE y * w >= x * w + w
  <2>1. PICK z \in Nat : y = x + 1 + z
    <3>1. y - x - 1 \in Nat /\ y = x + 1 + (y - x - 1)
      BY <1>1
    <3> QED BY <3>1
  <2>2. y * w = x * w + w + z * w
    BY <2>1
  <2>3. z * w \in Nat /\ x * w \in Nat
    OBVIOUS
  <2> QED BY <2>2, <2>3
<1>2. a * w \in Nat /\ b * w \in Nat
  OBVIOUS
<1>3. ~(a < b)
  BY <1>1, <1>2
<1>4. ~(b < a)
  BY <1>1, <1>2
<1> QED BY <1>2, <1>3, <1>4

\* What a quotient rounded down is.
LEMMA Quotient ==
  ASSUME NEW m \in Nat, NEW r \in Nat \ {0}
  PROVE  /\ m \div r \in Nat /\ m % r \in 0..(r - 1)
         /\ m = (m \div r) * r + (m % r)
         /\ (m \div r) * r <= m
         /\ \A c \in Nat : m < c * r => m \div r < c
<1>1. m \div r \in Nat /\ m % r \in 0..(r - 1)
  OBVIOUS
<1>2. m = (m \div r) * r + (m % r)
  <2>1. m = r * (m \div r) + (m % r)
    OBVIOUS
  <2> DEFINE q == m \div r
             e == m % r
  <2>2. m = r * q + e /\ q \in Nat /\ e \in Nat
    BY <1>1, <2>1
  <2> HIDE DEF q, e
  <2>3. m = q * r + e
    BY <2>2
  <2> QED BY <2>3 DEF q, e
<1>3. (m \div r) * r \in Nat
  BY <1>1
<1>4. ASSUME NEW c \in Nat, m < c * r, ~(m \div r < c) PROVE FALSE
  <2> DEFINE q == m \div r
  <2>1. PICK z \in Nat : q = c + z
    <3>1. q - c \in Nat /\ q = c + (q - c)
      BY <1>1, <1>4
    <3> QED BY <3>1
  <2> HIDE DEF q
  <2>2. q * r = c * r + z * r /\ c * r \in Nat /\ z * r \in Nat
    BY <2>1
  <2>3. q * r <= m
    BY <1>1, <1>2, <1>3 DEF q
  <2> QED BY <1>4, <2>2, <2>3
<1> QED BY <1>1, <1>2, <1>3, <1>4

\* If each share times the sum of the weights is at most the capacity times
\* the weight, the shares together are at most the capacity: each unit of a
\* share, split into as many parts as there are units of weight, finds its own
\* place in the units of weight, each split into the capacity.
LEMMA SharesFit ==
  ASSUME NEW S \in SUBSET Tenant, NEW g \in [Tenant -> Nat], NEW w \in [Tenant -> Nat],
         NEW r \in Nat \ {0}, Sum(w, S) > 0,
         \A t \in S : g[t] * Sum(w, S) <= w[t] * r
  PROVE  Sum(g, S) <= r
<1> DEFINE W == Sum(w, S)
           A == Units(g, S) \X (1..W)
           B == Units(w, S) \X (1..r)
           m == [x \in A |-> (x[1][2] - 1) * W + (x[2] - 1)]
           place == [x \in A |-> <<<<x[1][1], 1 + m[x] \div r>>, 1 + (m[x] % r)>>]
<1>1. W \in Nat \ {0} /\ Sum(g, S) \in Nat
  BY SumType
<1>2. IsFiniteSet(A) /\ Cardinality(A) = Sum(g, S) * W
      /\ IsFiniteSet(B) /\ Cardinality(B) = W * r
  <2>1. IsFiniteSet(Units(g, S)) /\ IsFiniteSet(Units(w, S))
    BY SumType
  <2>2. IsFiniteSet(1..W) /\ Cardinality(1..W) = W
    BY <1>1, FS_Interval
  <2>3. IsFiniteSet(1..r) /\ Cardinality(1..r) = r
    BY FS_Interval
  <2>4. IsFiniteSet(A) /\ Cardinality(A) = Cardinality(Units(g, S)) * Cardinality(1..W)
    BY <2>1, <2>2, FS_Product
  <2>5. IsFiniteSet(B) /\ Cardinality(B) = Cardinality(Units(w, S)) * Cardinality(1..r)
    BY <2>1, <2>3, FS_Product
  <2> QED BY <2>2, <2>3, <2>4, <2>5 DEF Sum
<1>3. ASSUME NEW x \in A
      PROVE  \E t \in S, i \in Nat \ {0}, j \in 1..W :
               /\ x = <<<<t, i>>, j>> /\ i <= g[t]
               /\ m[x] = (i - 1) * W + (j - 1)
  <2>1. PICK u \in Units(g, S), j \in 1..W : x = <<u, j>>
    OBVIOUS
  <2>2. PICK t \in S, i \in Nat : i \in 1..g[t] /\ u = <<t, i>>
    BY UnitOf
  <2> QED BY <2>1, <2>2
<1>4. place \in Injection(A, B)
  <2>1. ASSUME NEW x \in A PROVE place[x] \in B /\ m[x] \in Nat
    <3>1. PICK t \in S, i \in Nat \ {0}, j \in 1..W :
            /\ x = <<<<t, i>>, j>> /\ i <= g[t]
            /\ m[x] = (i - 1) * W + (j - 1)
      BY <1>3
    <3>2. (i - 1) * W \in Nat /\ m[x] \in Nat
      BY <1>1, <3>1
    <3>3. m[x] < i * W
      BY <1>1, <3>1, <3>2
    <3>4. i * W <= g[t] * W
      <4>1. PICK z \in Nat : g[t] = i + z
        <5>1. g[t] - i \in Nat /\ g[t] = i + (g[t] - i)
          BY <3>1
        <5> QED BY <5>1
      <4>2. g[t] * W = i * W + z * W /\ i * W \in Nat /\ z * W \in Nat
        BY <1>1, <4>1
      <4> QED BY <4>2
    <3>5. m[x] < w[t] * r
      BY <1>1, <3>2, <3>3, <3>4
    <3>6. m[x] \div r \in Nat /\ m[x] \div r < w[t] /\ m[x] % r \in 0..(r - 1)
      BY <3>2, <3>5, Quotient
    <3>7. 1 + m[x] \div r \in 1..w[t] /\ 1 + (m[x] % r) \in 1..r
      <4> HIDE DEF m
      <4> DEFINE q == m[x] \div r
                 e == m[x] % r
      <4>1. q \in Nat /\ q < w[t] /\ e \in 0..(r - 1)
        BY <3>6
      <4> HIDE DEF q, e
      <4>2. 1 + q \in 1..w[t] /\ 1 + e \in 1..r
        BY <3>1, <4>1
      <4> QED BY <4>2, Zenon DEF q, e
    <3>8. <<t, 1 + m[x] \div r>> \in Units(w, S)
      BY <3>7, UnitOf
    <3>9. place[x] = <<<<t, 1 + m[x] \div r>>, 1 + (m[x] % r)>>
      BY <3>1
    <3> QED BY <3>2, <3>7, <3>8, <3>9
  <2>2. ASSUME NEW x \in A, NEW y \in A, place[x] = place[y] PROVE x = y
    <3>1. PICK t \in S, i \in Nat \ {0}, j \in 1..W :
            /\ x = <<<<t, i>>, j>> /\ m[x] = (i - 1) * W + (j - 1)
      BY <1>3
    <3>2. PICK u \in S, k \in Nat \ {0}, l \in 1..W :
            /\ y = <<<<u, k>>, l>> /\ m[y] = (k - 1) * W + (l - 1)
      BY <1>3
    <3>3. place[x] = <<<<t, 1 + m[x] \div r>>, 1 + (m[x] % r)>>
      BY <3>1
    <3>4. place[y] = <<<<u, 1 + m[y] \div r>>, 1 + (m[y] % r)>>
      BY <3>2
    <3> HIDE DEF place, m
    <3>5. m[x] \in Nat /\ m[y] \in Nat
      BY <2>1
    <3>6. /\ t = u /\ m[x] \div r = m[y] \div r /\ m[x] % r = m[y] % r
      <4> DEFINE q == m[x] \div r
                 e == m[x] % r
                 p == m[y] \div r
                 d == m[y] % r
      <4>1. <<<<t, 1 + q>>, 1 + e>> = <<<<u, 1 + p>>, 1 + d>>
        BY <2>2, <3>3, <3>4, Zenon
      <4>2. q \in Nat /\ p \in Nat /\ e \in Nat /\ d \in Nat
        <5>1. m[x] \div r \in Nat /\ m[x] % r \in 0..(r - 1)
          BY <3>5, Quotient
        <5>2. m[y] \div r \in Nat /\ m[y] % r \in 0..(r - 1)
          BY <3>5, Quotient
        <5> QED BY <5>1, <5>2
      <4> HIDE DEF q, e, p, d
      <4>3. t = u /\ 1 + q = 1 + p /\ 1 + e = 1 + d
        BY <4>1
      <4>4. q = p /\ e = d
        BY <4>2, <4>3
      <4> QED BY <4>3, <4>4 DEF q, e, p, d
    <3>7. m[x] = m[y]
      <4> DEFINE q == m[x] \div r
                 e == m[x] % r
                 p == m[y] \div r
                 d == m[y] % r
      <4>1. m[x] = q * r + e
        BY <3>5, Quotient
      <4>2. m[y] = p * r + d
        BY <3>5, Quotient
      <4>3. q = p /\ e = d
        BY <3>6
      <4> HIDE DEF q, e, p, d
      <4> QED BY <4>1, <4>2, <4>3
    <3>8. (i - 1) * W + j = (k - 1) * W + l
      <4> DEFINE a == (i - 1) * W
                 b == (k - 1) * W
      <4>1. a \in Nat /\ b \in Nat
        BY <1>1, <3>1, <3>2
      <4>2. a + (j - 1) = b + (l - 1)
        BY <3>1, <3>2, <3>7
      <4> HIDE DEF a, b
      <4>3. a + j = b + l
        BY <3>1, <3>2, <4>1, <4>2
      <4> QED BY <4>3 DEF a, b
    <3>9. i - 1 = k - 1 /\ j = l
      <4>1. i - 1 \in Nat /\ k - 1 \in Nat
        BY <3>1, <3>2
      <4> HIDE DEF W
      <4> QED BY <1>1, <3>8, <4>1, Digits
    <3> QED BY <3>1, <3>2, <3>6, <3>9
  <2>3. place \in [A -> B]
    BY <2>1
  <2> QED BY <2>2, <2>3 DEF Injection, IsInjective
<1>5. Cardinality(A) <= Cardinality(B)
  <2> HIDE DEF A, B, place
  <2> QED BY <1>2, <1>4, FS_Injection
<1>6. Sum(g, S) * W <= W * r
  BY <1>2, <1>5
<1>7. ASSUME Sum(g, S) > r PROVE FALSE
  <2> DEFINE G == Sum(g, S)
  <2>1. PICK z \in Nat : G = r + 1 + z
    <3>1. G - r - 1 \in Nat /\ G = r + 1 + (G - r - 1)
      BY <1>1, <1>7
    <3> QED BY <3>1
  <2> HIDE DEF G, W
  <2>2. G * W = W * r + W + z * W /\ z * W \in Nat /\ W * r \in Nat
    BY <1>1, <2>1
  <2> QED BY <1>1, <1>6, <2>2 DEF G
<1> QED BY <1>1, <1>7

----------------------------------------------------------------------------
(* The first tenants in order *)

\* Each member of a set of tenants has a place of its own in their order, and
\* the first n are n of them, if there are as many.
LEMMA FirstInOrder ==
  ASSUME NEW S \in SUBSET Tenant, NEW n \in Nat
  PROVE  LET L == {t \in S : Cardinality({u \in S : u < t}) < n}
         IN  /\ IsFiniteSet(L) /\ Cardinality(L) \in Nat /\ Cardinality(L) <= n
             /\ n <= Cardinality(S) => Cardinality(L) = n
<1> DEFINE below(t) == {u \in S : u < t}
           size == Cardinality(S)
           rank == [t \in S |-> Cardinality(below(t))]
           L == {t \in S : Cardinality(below(t)) < n}
           few == [t \in L |-> Cardinality(below(t))]
<1>1. /\ IsFiniteSet(S) /\ size \in Nat /\ S \subseteq Nat
      /\ \A T \in SUBSET S : IsFiniteSet(T) /\ Cardinality(T) \in Nat
  <2>1. \A T \in SUBSET S : IsFiniteSet(T)
    BY TenantFinite
  <2> QED BY <2>1, FairShareAssumption, FS_CardinalityType DEF Tenant
<1>2. ASSUME NEW t \in S, NEW T \in SUBSET S, below(t) \subseteq T, t \in T
      PROVE  Cardinality(below(t)) < Cardinality(T)
  <2>1. t \notin below(t)
    BY <1>1
  <2>2. /\ Cardinality(below(t)) <= Cardinality(T)
        /\ Cardinality(T) = Cardinality(below(t)) => T = below(t)
    <3> HIDE DEF below
    <3> QED BY <1>1, <1>2, FS_Subset
  <2>3. Cardinality(below(t)) \in Nat /\ Cardinality(T) \in Nat
    BY <1>1
  <2> HIDE DEF below
  <2> QED BY <1>2, <2>1, <2>2, <2>3
<1>3. \A t \in S : Cardinality(below(t)) \in Nat /\ Cardinality(below(t)) < size
  BY <1>1, <1>2
<1>4. ASSUME NEW t \in S, NEW u \in S, t < u
      PROVE  Cardinality(below(t)) < Cardinality(below(u))
  <2>1. ASSUME NEW x \in S, x < t PROVE x < u
    <3>1. x \in Nat /\ t \in Nat /\ u \in Nat
      BY <1>1
    <3> QED BY <1>4, <2>1, <3>1
  <2>2. below(t) \subseteq below(u) /\ t \in below(u)
    BY <1>4, <2>1
  <2> QED BY <1>2, <2>2
<1>5. ASSUME NEW t \in S, NEW u \in S, Cardinality(below(t)) = Cardinality(below(u))
      PROVE  t = u
  <2> HIDE DEF below
  <2> QED BY <1>1, <1>3, <1>4, <1>5
<1> HIDE DEF below
<1>6. rank \in Injection(S, 0..(size - 1))
  <2>1. \A t \in S : Cardinality(below(t)) \in 0..(size - 1)
    BY <1>1, <1>3
  <2> HIDE DEF size
  <2>2. rank \in [S -> 0..(size - 1)]
    BY <2>1
  <2> QED BY <1>5, <2>2 DEF Injection, IsInjective
<1>7. few \in Injection(L, 0..(n - 1))
  <2>1. \A t \in L : t \in S /\ Cardinality(below(t)) \in 0..(n - 1)
    BY <1>1, <1>3
  <2>2. few \in [L -> 0..(n - 1)]
    BY <2>1
  <2>3. \A t, u \in L : few[t] = few[u] => t = u
    BY <1>5
  <2> HIDE DEF few, L
  <2> QED BY <2>2, <2>3 DEF Injection, IsInjective
<1>8. /\ IsFiniteSet(0..(n - 1)) /\ Cardinality(0..(n - 1)) = n
      /\ IsFiniteSet(0..(size - 1)) /\ Cardinality(0..(size - 1)) = size
  <2>1. ASSUME NEW k \in Nat
        PROVE  IsFiniteSet(0..(k - 1)) /\ Cardinality(0..(k - 1)) = k
    <3>1. /\ IsFiniteSet(0..(k - 1))
          /\ Cardinality(0..(k - 1)) = IF 0 > k - 1 THEN 0 ELSE (k - 1) - 0 + 1
      BY FS_Interval
    <3> QED BY <3>1
  <2> QED BY <1>1, <2>1
<1>9. IsFiniteSet(L) /\ Cardinality(L) \in Nat /\ L \subseteq S
  BY <1>1
<1>10. Cardinality(L) <= n
  <2> HIDE DEF few, L
  <2> QED BY <1>7, <1>8, FS_Injection
<1>11. ASSUME n <= size PROVE Cardinality(L) >= n
  <2>1. rank \in Surjection(S, 0..(size - 1))
    <3> HIDE DEF rank
    <3> QED BY <1>6, <1>8, FS_Injection
  <2>2. ASSUME NEW i \in 0..(n - 1) PROVE \E t \in L : few[t] = i
    <3>1. i \in 0..(size - 1)
      BY <1>1, <1>11
    <3>2. PICK t \in S : rank[t] = i
      BY <2>1, <3>1 DEF Surjection
    <3> QED BY <3>2
  <2>3. few \in Surjection(L, 0..(n - 1))
    BY <1>3, <2>2 DEF Surjection
  <2> HIDE DEF few, L
  <2> QED BY <1>8, <1>9, <2>3, FS_Surjection
<1>12. /\ IsFiniteSet(L) /\ Cardinality(L) \in Nat /\ Cardinality(L) <= n
       /\ n <= size => Cardinality(L) = n
  BY <1>9, <1>10, <1>11
<1> QED BY <1>12 DEF below

----------------------------------------------------------------------------
(* A pass of the loop *)

LEMMA Members ==
  ASSUME TypeOK
  PROVE  /\ Items \subseteq Tenant /\ Unmet \subseteq Items
         /\ \A t \in Tenant : demand[t] \in Nat /\ weight[t] \in Nat /\ granted[t] \in Nat
         /\ \A t \in Items : weight[t] > 0
         /\ \A t \in Unmet : granted[t] < demand[t]
BY DEF TypeOK, Items, Unmet

\* A proportional share is a number, and together with the others it fits.
LEMMA ShareFacts ==
  ASSUME TypeOK, Looping
  PROVE  /\ Sum(weight, Unmet) \in Nat \ {0}
         /\ \A t \in Unmet :
              /\ ShareOf(t) \in Nat
              /\ ShareOf(t) * Sum(weight, Unmet) <= remaining * weight[t]
              /\ ShareOf(t) = 0 => remaining * weight[t] < Sum(weight, Unmet)
<1> DEFINE W == Sum(weight, Unmet)
<1>1. W \in Nat /\ W # 0
  <2>1. weight \in [Tenant -> Nat] /\ Unmet \in SUBSET Tenant
    BY Members DEF TypeOK
  <2>2. PICK t \in Unmet : weight[t] > 0
    BY Members DEF Looping
  <2> QED BY <2>1, <2>2, SumType, SumPositive
<1>2. ASSUME NEW t \in Unmet
      PROVE  /\ ShareOf(t) \in Nat /\ ShareOf(t) * W <= remaining * weight[t]
             /\ ShareOf(t) = 0 => remaining * weight[t] < W
  <2> DEFINE m == remaining * weight[t]
  <2>1. m \in Nat
    BY Members DEF TypeOK
  <2>2. ShareOf(t) = m \div W
    BY DEF ShareOf
  <2> HIDE DEF m, W
  <2>3. /\ m \div W \in Nat /\ m % W \in 0..(W - 1) /\ (m \div W) * W <= m
        /\ m = (m \div W) * W + (m % W)
    BY <1>1, <2>1, Quotient
  <2>4. ASSUME m \div W = 0 PROVE m < W
    <3>1. m = 0 * W + (m % W)
      BY <2>3, <2>4
    <3> DEFINE e == m % W
    <3>2. m = 0 * W + e /\ e \in 0..(W - 1)
      BY <2>3, <3>1
    <3> HIDE DEF e
    <3> QED BY <1>1, <3>2
  <2> QED BY <2>2, <2>3, <2>4 DEF m
<1> QED BY <1>1, <1>2

\* What a pass gives: no more than is asked for, to the unmet only, and no
\* more in all than there is.
LEMMA GiveFacts ==
  ASSUME TypeOK, Looping
  PROVE  /\ Give \in [Tenant -> Nat]
         /\ \A t \in Unmet : /\ Give[t] = Least(demand[t] - granted[t], ShareOf(t))
                             /\ Give[t] <= demand[t] - granted[t] /\ Give[t] <= ShareOf(t)
         /\ \A t \in Tenant \ Unmet : Give[t] = 0
         /\ Sum(Give, Tenant) \in Nat /\ Sum(Give, Tenant) <= remaining
<1> DEFINE W == Sum(weight, Unmet)
<1>1. /\ Unmet \in SUBSET Tenant /\ weight \in [Tenant -> Nat]
      /\ remaining \in Nat \ {0} /\ W \in Nat \ {0}
  BY Members, ShareFacts DEF TypeOK, Looping
<1>2. ASSUME NEW t \in Tenant
      PROVE  /\ Give[t] \in Nat
             /\ t \notin Unmet => Give[t] = 0
             /\ t \in Unmet => /\ Give[t] = Least(demand[t] - granted[t], ShareOf(t))
                               /\ Give[t] <= demand[t] - granted[t]
                               /\ Give[t] <= ShareOf(t)
  <2>1. CASE t \in Unmet
    <3>1. ShareOf(t) \in Nat /\ demand[t] - granted[t] \in Nat
      BY <2>1, Members, ShareFacts
    <3>2. Give[t] = Least(demand[t] - granted[t], ShareOf(t))
      BY <2>1 DEF Give
    <3> QED BY <2>1, <3>1, <3>2 DEF Least
  <2>2. CASE t \notin Unmet
    BY <2>2 DEF Give
  <2> QED BY <2>1, <2>2
<1>3. Give \in [Tenant -> Nat]
  <2>1. Give = [t \in Tenant |-> Give[t]]
    BY DEF Give
  <2> QED BY <1>2, <2>1
<1>4. ASSUME NEW t \in Unmet PROVE Give[t] * W <= weight[t] * remaining
  <2>1. /\ Give[t] \in Nat /\ ShareOf(t) \in Nat /\ Give[t] <= ShareOf(t)
        /\ ShareOf(t) * W <= remaining * weight[t]
    <3>1. t \in Tenant
      BY <1>1
    <3> QED BY <1>2, <3>1, ShareFacts
  <2>2. PICK z \in Nat : ShareOf(t) = Give[t] + z
    <3>1. ShareOf(t) - Give[t] \in Nat /\ ShareOf(t) = Give[t] + (ShareOf(t) - Give[t])
      BY <2>1
    <3> QED BY <3>1
  <2>3. weight[t] \in Nat
    BY <1>1
  <2> DEFINE g == Give[t]
             s == ShareOf(t)
             v == weight[t]
  <2>4. s = g + z /\ g \in Nat /\ v \in Nat /\ s * W <= remaining * v
    BY <2>1, <2>2, <2>3
  <2> HIDE DEF g, s, v, W
  <2>5. s * W = g * W + z * W /\ g * W \in Nat /\ z * W \in Nat
    BY <1>1, <2>4
  <2>6. g * W <= v * remaining
    BY <1>1, <2>4, <2>5
  <2> QED BY <2>6 DEF g, v
<1>5. Sum(Give, Unmet) <= remaining
  BY <1>1, <1>3, <1>4, SharesFit
<1>6. Units(Give, Tenant) = Units(Give, Unmet)
  <2>1. ASSUME NEW x, x \in Units(Give, Tenant) PROVE x \in Units(Give, Unmet)
    <3>1. PICK t \in Tenant : \E i \in 1..Give[t] : x = <<t, i>>
      BY <2>1, UnitOf
    <3>2. t \in Unmet
      <4>1. CASE t \notin Unmet
        <5>1. Give[t] = 0
          BY <1>2, <4>1
        <5> QED BY <3>1, <5>1
      <4> QED BY <4>1
    <3> QED BY <3>1, <3>2, UnitOf
  <2>2. ASSUME NEW x, x \in Units(Give, Unmet) PROVE x \in Units(Give, Tenant)
    <3>1. PICK t \in Unmet : \E i \in 1..Give[t] : x = <<t, i>>
      BY <2>2, UnitOf
    <3> QED BY <1>1, <3>1, UnitOf
  <2> QED BY <2>1, <2>2
<1>7. Sum(Give, Tenant) \in Nat /\ Sum(Give, Tenant) <= remaining
  BY <1>3, <1>5, <1>6, SumType DEF Sum
<1> QED BY <1>1, <1>2, <1>3, <1>7

----------------------------------------------------------------------------
(* The invariant is kept *)

\* A step that is no pass leaves the books alone.
LEMMA InputsKept ==
  ASSUME TypeOK, ShareNext
  PROVE  /\ demand' = demand /\ weight' = weight /\ total' = total /\ Items' = Items
BY DEF ShareNext, ShareOut, ByteByByte, LoopEnds, inputs, Items

LEMMA ShareOutInv ==
  ASSUME Inv, ShareOut
  PROVE  Inv'
<1>1. /\ TypeOK /\ Looping /\ returned' = returned /\ ~returned
      /\ granted' = [t \in Tenant |-> granted[t] + Give[t]]
      /\ remaining' = remaining - Sum(Give, Tenant)
      /\ demand' = demand /\ weight' = weight /\ total' = total /\ Items' = Items
  BY InputsKept DEF Inv, ShareOut, ShareNext, Looping
<1>2. /\ Give \in [Tenant -> Nat]
      /\ Sum(Give, Tenant) \in Nat /\ Sum(Give, Tenant) <= remaining
  BY <1>1, GiveFacts
<1>3. granted \in [Tenant -> Nat] /\ remaining \in Nat /\ total \in Nat
  BY <1>1 DEF TypeOK
<1>4. ASSUME NEW t \in Tenant
      PROVE  /\ granted'[t] = granted[t] + Give[t] /\ granted'[t] \in Nat
             /\ granted'[t] >= granted[t]
             /\ t \notin Unmet => granted'[t] = granted[t]
             /\ t \in Unmet => granted'[t] <= demand[t]
  <2>1. granted'[t] = granted[t] + Give[t] /\ granted[t] \in Nat /\ Give[t] \in Nat
    BY <1>1, <1>2, <1>3
  <2>2. t \in Unmet => Give[t] <= demand[t] - granted[t] /\ demand[t] \in Nat
    BY <1>1, GiveFacts, Members
  <2>3. t \notin Unmet => Give[t] = 0
    BY <1>1, GiveFacts
  <2> QED BY <2>1, <2>2, <2>3
<1>5. remaining' \in Nat
  BY <1>1, <1>2, <1>3
<1>6. TypeOK'
  <2>1. granted' \in [Tenant -> Nat]
    BY <1>1, <1>2, <1>3
  <2> QED BY <1>1, <1>5, <2>1 DEF TypeOK
<1>7. SharesSound'
  <2>1. Sum(granted', Tenant) = Sum(granted, Tenant) + Sum(Give, Tenant)
    BY <1>1, <1>2, <1>3, SumAdd
  <2>2. Sum(granted, Tenant) \in Nat /\ Sum(granted, Tenant) + remaining = total
    BY <1>3, SumType DEF Inv, SharesSound, NoOvercommit
  <2>3. Sum(granted', Tenant) + remaining' = total'
    BY <1>1, <1>2, <1>3, <2>1, <2>2
  <2>4. \A t \in Tenant : granted'[t] <= demand'[t]
    BY <1>1, <1>4 DEF Inv, SharesSound, NoOvercommit
  <2> QED BY <1>1, <1>5, <2>3, <2>4 DEF SharesSound, NoOvercommit, WorkConserving
<1>8. Level'
  <2> SUFFICES ASSUME \A t, u \in Items : weight[t] = weight[u],
                      NEW t \in Unmet', NEW u \in Items
               PROVE  granted'[u] <= granted'[t]
    <3>1. \A t \in Items : granted'[t] \in Nat
      BY <1>1, <1>4, Members
    <3>2. Unmet' \subseteq Items
      BY <1>1 DEF Unmet
    <3> QED BY <1>1, <3>1, <3>2 DEF Level
  <2>1. t \in Items /\ t \in Tenant /\ u \in Tenant /\ granted'[t] < demand[t]
    BY <1>1, Members DEF Unmet
  <2>2. t \in Unmet
    BY <1>1, <1>4, <2>1, Members DEF Unmet
  <2>3. granted[u] <= granted[t]
    BY <1>1, <2>2 DEF Inv, Level, Looping
  <2>4. ShareOf(u) = ShareOf(t)
    BY <2>1 DEF ShareOf
  <2>5. Give[t] = ShareOf(t) /\ ShareOf(t) \in Nat
    <3>1. ShareOf(t) \in Nat /\ Give[t] = Least(demand[t] - granted[t], ShareOf(t))
      BY <1>1, <2>2, GiveFacts, ShareFacts
    <3>2. Give[t] # demand[t] - granted[t]
      BY <1>1, <1>4, <2>1, Members
    <3> QED BY <3>1, <3>2 DEF Least
  <2>6. CASE u \in Unmet
    <3>1. Give[u] <= ShareOf(t) /\ Give[u] \in Nat
      BY <1>1, <1>2, <2>1, <2>4, <2>6, GiveFacts
    <3> QED BY <1>3, <1>4, <2>1, <2>3, <2>5, <3>1
  <2>7. CASE u \notin Unmet
    BY <1>3, <1>4, <2>1, <2>3, <2>7
  <2> QED BY <2>6, <2>7
<1> QED BY <1>6, <1>7, <1>8 DEF Inv

\* Single bytes: as many as are left, or one for each unmet demand.
LEMMA ByteByByteInv ==
  ASSUME Inv, ByteByByte
  PROVE  Inv'
<1> DEFINE one == [t \in Tenant |-> IF t \in Lucky THEN 1 ELSE 0]
<1>1. /\ TypeOK /\ Looping /\ returned' = returned /\ ~returned /\ Sum(Give, Tenant) = 0
      /\ granted' = [t \in Tenant |-> IF t \in Lucky THEN granted[t] + 1 ELSE granted[t]]
      /\ remaining' = remaining - Cardinality(Lucky)
      /\ demand' = demand /\ weight' = weight /\ total' = total /\ Items' = Items
  BY InputsKept DEF Inv, ByteByByte, ShareNext, Looping
<1>2. /\ granted \in [Tenant -> Nat] /\ remaining \in Nat /\ remaining > 0 /\ total \in Nat
      /\ Unmet \in SUBSET Tenant
  BY <1>1, Members DEF TypeOK, Looping
<1>3. /\ IsFiniteSet(Lucky) /\ Cardinality(Lucky) \in Nat
      /\ Cardinality(Lucky) <= remaining
      /\ remaining <= Cardinality(Unmet) => Cardinality(Lucky) = remaining
  <2>1. LET L == {t \in Unmet : Cardinality({u \in Unmet : u < t}) < remaining}
        IN  /\ IsFiniteSet(L) /\ Cardinality(L) \in Nat /\ Cardinality(L) <= remaining
            /\ remaining <= Cardinality(Unmet) => Cardinality(L) = remaining
    BY <1>2, FirstInOrder
  <2> QED BY <2>1 DEF Lucky
<1>4. Lucky \subseteq Unmet /\ Lucky \in SUBSET Tenant
  BY <1>2 DEF Lucky
<1>5. ASSUME NEW t \in Tenant
      PROVE  /\ granted'[t] = granted[t] + one[t] /\ granted'[t] \in Nat
             /\ granted[t] <= granted'[t] /\ granted'[t] <= granted[t] + 1
             /\ t \in Lucky => granted'[t] <= demand[t]
             /\ t \notin Lucky => granted'[t] = granted[t]
  <2>1. granted[t] \in Nat /\ (t \in Lucky => demand[t] \in Nat /\ granted[t] < demand[t])
    BY <1>1, <1>4, Members
  <2> QED BY <1>1, <2>1
<1>6. granted' \in [Tenant -> Nat] /\ granted' = [t \in Tenant |-> granted[t] + one[t]]
  <2>1. granted' = [t \in Tenant |-> granted'[t]]
    BY <1>1
  <2> HIDE DEF one
  <2> QED BY <1>5, <2>1
<1>7. remaining' \in Nat
  BY <1>1, <1>2, <1>3
<1>8. TypeOK'
  BY <1>1, <1>6, <1>7 DEF TypeOK
<1>9. SharesSound'
  <2>1. one \in [Tenant -> Nat]
    OBVIOUS
  <2>2. Sum(granted', Tenant) = Sum(granted, Tenant) + Sum(one, Tenant)
    <3> HIDE DEF one
    <3> QED BY <1>2, <1>6, <2>1, SumAdd
  <2>3. Sum(one, Tenant) = Cardinality(Lucky)
    <3>1. Units(one, Tenant) = Units(one, Lucky)
      <4>1. ASSUME NEW x, x \in Units(one, Tenant) PROVE x \in Units(one, Lucky)
        <5>1. PICK t \in Tenant : \E i \in 1..one[t] : x = <<t, i>>
          BY <4>1, UnitOf
        <5>2. t \in Lucky
          BY <5>1
        <5> QED BY <5>1, <5>2, UnitOf
      <4>2. ASSUME NEW x, x \in Units(one, Lucky) PROVE x \in Units(one, Tenant)
        <5>1. PICK t \in Lucky : \E i \in 1..one[t] : x = <<t, i>>
          BY <4>2, UnitOf
        <5> QED BY <1>4, <5>1, UnitOf
      <4> QED BY <4>1, <4>2
    <3>2. \A t \in Lucky : one[t] = 1
      BY <1>4
    <3>3. Sum(one, Lucky) = Cardinality(Lucky) * 1
      <4> HIDE DEF one
      <4> QED BY <1>4, <2>1, <3>2, SumEqual
    <3> QED BY <1>3, <3>1, <3>3 DEF Sum
  <2>4. Sum(granted, Tenant) \in Nat /\ Sum(granted, Tenant) + remaining = total
    BY <1>2, SumType DEF Inv, SharesSound, NoOvercommit
  <2>5. Sum(granted', Tenant) + remaining' = total'
    BY <1>1, <1>2, <1>3, <2>2, <2>3, <2>4
  <2>6. \A t \in Tenant : granted'[t] <= demand'[t]
    BY <1>1, <1>5 DEF Inv, SharesSound, NoOvercommit
  <2> QED BY <1>1, <1>7, <2>5, <2>6 DEF SharesSound, NoOvercommit, WorkConserving
<1>10. Level'
  <2> SUFFICES ASSUME \A t, u \in Items : weight[t] = weight[u],
                      NEW t \in Unmet', NEW u \in Items
               PROVE  remaining' = 0 /\ granted'[u] <= granted'[t] + 1
    <3>1. Unmet' \subseteq Items
      BY <1>1 DEF Unmet
    <3> QED BY <1>1, <3>1 DEF Level
  <2>1. t \in Items /\ t \in Tenant /\ u \in Tenant /\ granted'[t] < demand[t]
    BY <1>1, Members DEF Unmet
  <2>2. t \in Unmet
    <3>1. granted[t] \in Nat /\ demand[t] \in Nat /\ granted[t] <= granted'[t]
      BY <1>1, <1>5, <2>1, Members
    <3>2. granted'[t] \in Nat
      BY <1>5, <2>1
    <3> QED BY <2>1, <3>1, <3>2 DEF Unmet
  <2>3. granted[u] <= granted[t]
    BY <1>2, <2>2 DEF Inv, Level
  <2>4. granted'[u] <= granted'[t] + 1
    BY <1>2, <1>5, <2>1, <2>3
  <2>5. ShareOf(t) = 0
    <3>1. Give[t] = 0
      BY <1>1, <2>1, GiveFacts, SumPositive
    <3>2. /\ ShareOf(t) \in Nat /\ demand[t] - granted[t] > 0
          /\ Give[t] = Least(demand[t] - granted[t], ShareOf(t))
      BY <1>1, <2>2, GiveFacts, ShareFacts, Members
    <3> QED BY <3>1, <3>2 DEF Least
  <2>6. remaining < Cardinality(Unmet)
    <3> DEFINE w == weight[t]
               n == Cardinality(Unmet)
    <3>1. w \in Nat /\ w > 0 /\ n \in Nat
      BY <1>1, <1>2, <2>1, Members, TenantFinite, FS_CardinalityType
    <3>2. \A v \in Unmet : weight[v] = w
      BY <1>1, <2>1, Members
    <3>3. Sum(weight, Unmet) = n * w
      <4>1. weight \in [Tenant -> Nat]
        BY <1>1 DEF TypeOK
      <4> HIDE DEF w
      <4> QED BY <1>2, <3>1, <3>2, <4>1, SumEqual
    <3>4. remaining * w < n * w
      BY <1>1, <2>2, <2>5, <3>3, ShareFacts
    <3>5. ASSUME remaining >= n PROVE FALSE
      <4>1. PICK z \in Nat : remaining = n + z
        <5>1. remaining - n \in Nat /\ remaining = n + (remaining - n)
          BY <1>2, <3>1, <3>5
        <5> QED BY <5>1
      <4> HIDE DEF w, n
      <4>2. remaining * w = n * w + z * w /\ n * w \in Nat /\ z * w \in Nat
        BY <3>1, <4>1
      <4> QED BY <3>4, <4>2
    <3> QED BY <1>2, <3>1, <3>5
  <2>7. remaining' = 0
    <3>1. Cardinality(Unmet) \in Nat
      BY <1>2, TenantFinite, FS_CardinalityType
    <3> QED BY <1>1, <1>2, <1>3, <2>6, <3>1
  <2> QED BY <2>4, <2>7
<1> QED BY <1>8, <1>9, <1>10 DEF Inv

LEMMA InitInv == ShareInit => Inv
<1> SUFFICES ASSUME ShareInit PROVE Inv
  OBVIOUS
<1>1. TypeOK
  <2>1. 0..MaxDemand \subseteq Nat /\ 0..MaxWeight \subseteq Nat /\ 0..MaxTotal \subseteq Nat
    BY FairShareAssumption
  <2>2. demand \in [Tenant -> Nat] /\ weight \in [Tenant -> Nat] /\ total \in Nat
    BY <2>1 DEF ShareInit
  <2> QED BY <2>2 DEF ShareInit, TypeOK
<1>2. Sum(granted, Tenant) = 0
  BY SumPositive DEF ShareInit
<1>3. SharesSound
  BY <1>1, <1>2 DEF ShareInit, SharesSound, NoOvercommit, WorkConserving, TypeOK
<1>4. Level
  <2>1. Items \subseteq Tenant /\ Unmet \subseteq Tenant /\ \A t \in Tenant : granted[t] = 0
    BY <1>1, Members DEF ShareInit
  <2> QED BY <2>1 DEF Level
<1> QED BY <1>1, <1>3, <1>4 DEF Inv

LEMMA NextInv == Inv /\ [ShareNext]_shareVars => Inv'
<1> SUFFICES ASSUME Inv, [ShareNext]_shareVars PROVE Inv'
  OBVIOUS
<1>1. CASE LoopEnds
  <2>1. /\ UNCHANGED <<demand, weight, total, granted, remaining>>
        /\ remaining = 0 \/ Unmet = {}
        /\ returned' = TRUE
    BY <1>1 DEF LoopEnds, inputs
  <2>2. Unmet' = Unmet /\ Items' = Items
    BY <2>1 DEF Unmet, Items
  <2>3. TypeOK' /\ Level'
    BY <1>1, <2>1, <2>2 DEF Inv, TypeOK, Level, LoopEnds
  <2>4. remaining = 0 \/ \A t \in Items : granted[t] = demand[t]
    <3>1. ASSUME Unmet = {}, NEW t \in Items PROVE granted[t] = demand[t]
      <4>1. t \in Tenant /\ granted[t] \in Nat /\ demand[t] \in Nat /\ granted[t] <= demand[t]
        BY Members DEF Inv, SharesSound, NoOvercommit
      <4> QED BY <3>1, <4>1 DEF Unmet
    <3> QED BY <2>1, <3>1
  <2> QED BY <2>1, <2>2, <2>3, <2>4 DEF Inv, SharesSound, NoOvercommit, WorkConserving
<1>2. CASE UNCHANGED shareVars
  BY <1>2 DEF shareVars, inputs, Inv, TypeOK, SharesSound, NoOvercommit, WorkConserving, Level,
              Unmet, Items
<1> QED BY <1>1, <1>2, ShareOutInv, ByteByByteInv DEF ShareNext

LEMMA FairShareInv == ShareSpec => []Inv
BY InitInv, NextInv, PTL DEF ShareSpec

\* AllocateFairShare hands out neither more than there is nor more than was
\* asked for at any pass, and on its return nothing that somebody could use is
\* left: for any number of tenants, any demands, weights and capacity.
THEOREM CapacityShared == ShareSpec => []SharesSound
<1>1. Inv => SharesSound
  BY DEF Inv
<1> QED BY <1>1, FairShareInv, PTL

\* With equal weights AllocateFairShare is max-min fair up to the last byte.
THEOREM EqualsShared == ShareSpec => []EqualWeightFair
<1>1. Inv => EqualWeightFair
  <2> SUFFICES ASSUME Inv, \A t, u \in Items : weight[t] = weight[u],
                      NEW t \in Unmet, NEW u \in Items
               PROVE  granted[u] <= granted[t] + 1
    BY DEF EqualWeightFair
  <2>1. granted[t] \in Nat /\ granted[u] \in Nat
    BY Members DEF Inv
  <2> QED BY <2>1 DEF Inv, Level
<1> QED BY <1>1, FairShareInv, PTL

=============================================================================
