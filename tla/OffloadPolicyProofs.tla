------------------------ MODULE OffloadPolicyProofs ------------------------
(***************************************************************************)
(* Safety of S3FIFOCachePolicy for any keys, capacity and sequence of      *)
(* calls: its containers agree at every turn of evict(), and evict() takes *)
(* what it may take, or nothing.                                           *)
(***************************************************************************)
EXTENDS OffloadPolicy, FiniteSetTheorems, SequenceTheorems, NaturalsInduction, TLAPS

----------------------------------------------------------------------------
(* Queues: sequences in which no element is twice.                         *)

LEMMA SeqFacts ==
  ASSUME NEW S, NEW s \in Seq(S)
  PROVE  /\ Len(s) \in Nat /\ DOMAIN s = 1..Len(s)
         /\ Range(s) \subseteq S /\ \A i \in 1..Len(s) : s[i] \in S
BY DEF Range

LEMMA EmptyQueue ==
  ASSUME NEW S
  PROVE  <<>> \in Seq(S) /\ Range(<<>>) = {} /\ IsInjective(<<>>) /\ Len(<<>>) = 0
BY DEF Range, IsInjective

\* To the end of a queue.
LEMMA QueueAppend ==
  ASSUME NEW S, NEW s \in Seq(S), NEW k \in S
  PROVE  /\ Append(s, k) \in Seq(S) /\ Len(Append(s, k)) = Len(s) + 1
         /\ Range(Append(s, k)) = Range(s) \cup {k}
         /\ IsInjective(s) /\ k \notin Range(s) => IsInjective(Append(s, k))
<1>1. /\ Append(s, k) \in Seq(S) /\ Len(Append(s, k)) = Len(s) + 1
      /\ DOMAIN Append(s, k) = 1..(Len(s) + 1) /\ DOMAIN s = 1..Len(s)
      /\ Len(s) \in Nat
  OBVIOUS
<1>2. \A i \in 1..Len(s) : Append(s, k)[i] = s[i]
  OBVIOUS
<1>3. Append(s, k)[Len(s) + 1] = k
  OBVIOUS
<1>4. Range(Append(s, k)) = Range(s) \cup {k}
  BY <1>1, <1>2, <1>3 DEF Range
<1>5. ASSUME IsInjective(s), k \notin Range(s),
             NEW i \in DOMAIN Append(s, k), NEW j \in DOMAIN Append(s, k),
             Append(s, k)[i] = Append(s, k)[j]
      PROVE  i = j
  <2>1. \A n \in 1..Len(s) : s[n] # k
    BY <1>1, <1>5 DEF Range
  <2> QED BY <1>1, <1>2, <1>3, <1>5, <2>1 DEF IsInjective
<1> QED BY <1>1, <1>4, <1>5 DEF IsInjective

\* From the front of a queue.
LEMMA QueueTail ==
  ASSUME NEW S, NEW s \in Seq(S), s # <<>>
  PROVE  /\ Tail(s) \in Seq(S) /\ Head(s) \in Range(s) /\ Head(s) \in S
         /\ Len(Tail(s)) = Len(s) - 1
         /\ Range(s) = Range(Tail(s)) \cup {Head(s)}
         /\ IsInjective(s) => IsInjective(Tail(s)) /\ Head(s) \notin Range(Tail(s))
<1>1. /\ Tail(s) \in Seq(S) /\ Len(Tail(s)) = Len(s) - 1 /\ Head(s) = s[1]
      /\ DOMAIN Tail(s) = 1..(Len(s) - 1) /\ DOMAIN s = 1..Len(s)
      /\ Len(s) \in Nat /\ Len(s) >= 1
  OBVIOUS
<1>2. \A i \in 1..(Len(s) - 1) : Tail(s)[i] = s[i + 1] /\ i + 1 \in DOMAIN s
  BY <1>1
<1>3. Head(s) \in Range(s) /\ Head(s) \in S
  BY <1>1 DEF Range
<1>4. Range(Tail(s)) \subseteq Range(s)
  BY <1>1, <1>2 DEF Range
<1>5. ASSUME NEW k \in Range(s), k # Head(s) PROVE k \in Range(Tail(s))
  <2>1. PICK i \in DOMAIN s : s[i] = k /\ i # 1
    BY <1>1, <1>5 DEF Range
  <2>2. i - 1 \in DOMAIN Tail(s) /\ Tail(s)[i - 1] = k
    BY <1>1, <1>2, <2>1
  <2> QED BY <2>2 DEF Range
<1>6. ASSUME IsInjective(s) PROVE IsInjective(Tail(s)) /\ Head(s) \notin Range(Tail(s))
  BY <1>1, <1>2, <1>6 DEF IsInjective, Range
<1> QED BY <1>1, <1>3, <1>4, <1>5, <1>6

\* One queue in front of another.
Joined(S, s, t) ==
  /\ s \o t \in Seq(S) /\ Len(s \o t) = Len(s) + Len(t)
  /\ Range(s \o t) = Range(s) \cup Range(t)
  /\ IsInjective(s) /\ IsInjective(t) /\ Range(s) \cap Range(t) = {} => IsInjective(s \o t)

LEMMA QueueConcat ==
  ASSUME NEW S, NEW s \in Seq(S), NEW t \in Seq(S)
  PROVE  Joined(S, s, t)
<1>1. /\ s \o t \in Seq(S) /\ Len(s \o t) = Len(s) + Len(t)
      /\ DOMAIN s = 1..Len(s) /\ DOMAIN t = 1..Len(t)
      /\ DOMAIN (s \o t) = 1..(Len(s) + Len(t)) /\ Len(s) \in Nat /\ Len(t) \in Nat
  OBVIOUS
<1>2. \A i \in 1..(Len(s) + Len(t)) :
        (s \o t)[i] = IF i <= Len(s) THEN s[i] ELSE t[i - Len(s)]
  OBVIOUS
<1>3. Range(s \o t) = Range(s) \cup Range(t)
  BY RangeConcatenation
<1>4. ASSUME IsInjective(s), IsInjective(t), Range(s) \cap Range(t) = {},
             NEW i \in 1..(Len(s) + Len(t)), NEW j \in 1..(Len(s) + Len(t)),
             (s \o t)[i] = (s \o t)[j]
      PROVE  i = j
  <2>1. \A m \in 1..Len(s), n \in 1..Len(t) : s[m] # t[n]
    BY <1>1, <1>4 DEF Range
  <2>2. \A m \in 1..(Len(s) + Len(t)) :
          \/ m \in 1..Len(s) /\ (s \o t)[m] = s[m]
          \/ m - Len(s) \in 1..Len(t) /\ m > Len(s) /\ (s \o t)[m] = t[m - Len(s)]
    BY <1>1, <1>2
  <2>3. /\ \A m, n \in 1..Len(s) : s[m] = s[n] => m = n
        /\ \A m, n \in 1..Len(t) : t[m] = t[n] => m = n
    BY <1>1, <1>4 DEF IsInjective
  <2>4. CASE i \in 1..Len(s) /\ j \in 1..Len(s)
    BY <1>2, <1>4, <2>3, <2>4
  <2>5. CASE i \notin 1..Len(s) /\ j \notin 1..Len(s)
    BY <1>1, <1>4, <2>2, <2>3, <2>5
  <2>6. CASE (i \in 1..Len(s)) # (j \in 1..Len(s))
    BY <1>1, <1>4, <2>1, <2>2, <2>6
  <2> QED BY <2>4, <2>5, <2>6
<1> QED BY <1>1, <1>3, <1>4 DEF IsInjective, Joined

\* The end of a queue, without its m oldest.
LEMMA QueueSuffix ==
  ASSUME NEW S, NEW s \in Seq(S), NEW m \in 0..Len(s)
  PROVE  /\ SubSeq(s, m + 1, Len(s)) \in Seq(S)
         /\ Len(SubSeq(s, m + 1, Len(s))) = Len(s) - m
         /\ Range(SubSeq(s, m + 1, Len(s))) \subseteq Range(s)
         /\ IsInjective(s) => IsInjective(SubSeq(s, m + 1, Len(s)))
<1> DEFINE t == SubSeq(s, m + 1, Len(s))
<1>1. /\ t \in Seq(S) /\ Len(t) = Len(s) - m /\ Len(s) \in Nat /\ DOMAIN s = 1..Len(s)
      /\ DOMAIN t = 1..(Len(s) - m)
  BY SubSeqProperties
<1>2. \A i \in 1..(Len(s) - m) : t[i] = s[m + i] /\ m + i \in 1..Len(s)
  BY <1>1, SubSeqProperties
<1> HIDE DEF t
<1>3. Range(t) \subseteq Range(s)
  BY <1>1, <1>2 DEF Range
<1>4. ASSUME IsInjective(s) PROVE IsInjective(t)
  <2>1. \A i, j \in 1..Len(s) : s[i] = s[j] => i = j
    BY <1>1, <1>4 DEF IsInjective
  <2>2. ASSUME NEW i \in 1..(Len(s) - m), NEW j \in 1..(Len(s) - m), t[i] = t[j]
        PROVE  i = j
    BY <1>1, <1>2, <2>1, <2>2
  <2> QED BY <1>1, <2>2 DEF IsInjective
<1> QED BY <1>1, <1>3, <1>4 DEF t

\* One element taken out of a queue.
LEMMA QueueCut ==
  ASSUME NEW S, NEW s \in Seq(S), NEW n \in 1..Len(s)
  PROVE  /\ RemoveAt(s, n) \in Seq(S) /\ Len(RemoveAt(s, n)) = Len(s) - 1
         /\ Range(s) = Range(RemoveAt(s, n)) \cup {s[n]}
         /\ IsInjective(s) => /\ IsInjective(RemoveAt(s, n))
                              /\ s[n] \notin Range(RemoveAt(s, n))
<1> DEFINE t == RemoveAt(s, n)
           a == SubSeq(s, 1, n - 1)
           b == SubSeq(s, n + 1, Len(s))
<1>1. /\ a \in Seq(S) /\ Len(a) = n - 1 /\ \A i \in 1..(n - 1) : a[i] = s[i]
      /\ Len(s) \in Nat /\ DOMAIN s = 1..Len(s)
  BY SubSeqProperties
<1>2. /\ b \in Seq(S) /\ Len(b) = Len(s) - n
      /\ \A i \in 1..(Len(s) - n) : b[i] = s[n + i]
  BY SubSeqProperties
<1>3. t = a \o b
  BY DEF RemoveAt
<1> HIDE DEF t, a, b
<1>4. t \in Seq(S) /\ Len(t) = Len(s) - 1 /\ DOMAIN t = 1..(Len(s) - 1)
  <2>1. t \in Seq(S) /\ Len(t) = Len(a) + Len(b)
    BY <1>1, <1>2, <1>3, ConcatProperties
  <2>2. Len(t) = Len(s) - 1
    BY <1>1, <1>2, <2>1
  <2> QED BY <2>1, <2>2, LenProperties
<1>5. \A i \in 1..(Len(s) - 1) : t[i] = IF i < n THEN s[i] ELSE s[i + 1]
  <2> SUFFICES ASSUME NEW i \in 1..(Len(s) - 1)
               PROVE  t[i] = IF i < n THEN s[i] ELSE s[i + 1]
    OBVIOUS
  <2>1. t[i] = IF i <= n - 1 THEN a[i] ELSE b[i - (n - 1)]
    BY <1>1, <1>2, <1>3
  <2>2. CASE i < n
    BY <1>1, <2>1, <2>2
  <2>3. CASE ~(i < n)
    <3>1. i - (n - 1) \in 1..(Len(s) - n) /\ n + (i - (n - 1)) = i + 1
      BY <1>1, <2>3
    <3> QED BY <1>1, <1>2, <2>1, <2>3, <3>1
  <2> QED BY <2>2, <2>3
<1>6. Range(t) \cup {s[n]} \subseteq Range(s)
  <2>1. ASSUME NEW i \in 1..(Len(s) - 1) PROVE \E j \in 1..Len(s) : t[i] = s[j]
    <3>1. i \in 1..Len(s) /\ i + 1 \in 1..Len(s)
      BY <1>1
    <3> QED BY <1>5, <3>1
  <2> QED BY <1>1, <1>4, <2>1 DEF Range
<1>7. ASSUME NEW k \in Range(s), k # s[n] PROVE k \in Range(t)
  <2>1. PICK i \in 1..Len(s) : s[i] = k /\ i # n
    BY <1>1, <1>7 DEF Range
  <2>2. CASE i < n
    <3>1. i \in DOMAIN t /\ t[i] = k
      BY <1>1, <1>4, <1>5, <2>1, <2>2
    <3> QED BY <3>1 DEF Range
  <2>3. CASE i > n
    <3>1. i - 1 \in DOMAIN t /\ t[i - 1] = k
      BY <1>1, <1>4, <1>5, <2>1, <2>3
    <3> QED BY <3>1 DEF Range
  <2> QED BY <1>1, <2>1, <2>2, <2>3
<1>8. ASSUME IsInjective(s) PROVE IsInjective(t) /\ s[n] \notin Range(t)
  <2>1. \A i, j \in 1..Len(s) : s[i] = s[j] => i = j
    BY <1>1, <1>8 DEF IsInjective
  <2>2. ASSUME NEW i \in 1..(Len(s) - 1), NEW j \in 1..(Len(s) - 1), t[i] = t[j]
        PROVE  i = j
    BY <1>1, <1>5, <2>1, <2>2
  <2>3. ASSUME NEW i \in 1..(Len(s) - 1) PROVE t[i] # s[n]
    BY <1>1, <1>5, <2>1
  <2> QED BY <1>4, <2>2, <2>3 DEF IsInjective, Range
<1> QED BY <1>4, <1>6, <1>7, <1>8 DEF t

\* OrderedDict.pop: exactly the key is gone.
LEMMA QueueRemoveFirst ==
  ASSUME NEW S, NEW s \in Seq(S), IsInjective(s), NEW k
  PROVE  /\ RemoveFirst(s, k) \in Seq(S) /\ IsInjective(RemoveFirst(s, k))
         /\ Range(RemoveFirst(s, k)) = Range(s) \ {k}
         /\ Len(RemoveFirst(s, k)) <= Len(s)
<1>1. Len(s) \in Nat /\ DOMAIN s = 1..Len(s)
  OBVIOUS
<1>2. CASE k \in Range(s)
  <2> DEFINE I == {i \in 1..Len(s) : s[i] = k}
  <2>1. PICK n \in 1..Len(s) : s[n] = k
    BY <1>1, <1>2 DEF Range
  <2>2. I = {n}
    BY <1>1, <2>1 DEF IsInjective
  <2>3. Min(I) = n
    BY <2>2 DEF Min
  <2>4. SelectInSeq(s, LAMBDA v : v = k) = n
    BY <2>2, <2>3 DEF SelectInSeq
  <2>5. RemoveFirst(s, k) = RemoveAt(s, n)
    BY <2>1, <2>4 DEF RemoveFirst
  <2> QED BY <1>1, <2>1, <2>5, QueueCut
<1>3. CASE k \notin Range(s)
  <2>1. RemoveFirst(s, k) = s
    BY <1>1, <1>3 DEF RemoveFirst, Range
  <2> QED BY <1>1, <1>3, <2>1
<1> QED BY <1>2, <1>3

\* A queue is as long as the set of its elements is large.
LEMMA QueueSize ==
  ASSUME NEW S, NEW s \in Seq(S), IsInjective(s)
  PROVE  IsFiniteSet(Range(s)) /\ Cardinality(Range(s)) = Len(s)
<1>1. Len(s) \in Nat /\ DOMAIN s = 1..Len(s) /\ s \in [1..Len(s) -> Range(s)]
  BY DEF Range
<1>2. s \in Bijection(1..Len(s), Range(s))
  BY <1>1 DEF Bijection, Injection, Surjection, IsInjective, Range
<1>3. IsFiniteSet(1..Len(s)) /\ Cardinality(1..Len(s)) = Len(s)
  BY <1>1, FS_Interval
<1>4. ExistsBijection(1..Len(s), Range(s))
  BY <1>2 DEF ExistsBijection
<1> QED BY <1>3, <1>4, FS_Bijection, Zenon

----------------------------------------------------------------------------
(* Loops: what holds before the first turn and is kept by every turn holds   *)
(* after the last, and a loop over n turns has a result.                     *)

\* A non-empty set of numbers has a least member.
LEMMA LeastNumber ==
  ASSUME NEW S \in SUBSET Nat, S # {}
  PROVE  \E n \in S : \A m \in S : n <= m
<1>1. PICK n \in S : \A m \in S : ~(<<m, n>> \in OpToRel(<, Nat))
  BY NatLessThanWellFounded, WFMin
<1>2. \A m \in S : ~(m < n)
  BY <1>1 DEF OpToRel
<1> QED BY <1>2

LEMMA Upwards ==
  ASSUME NEW n \in Nat, NEW T \in SUBSET (0..n), 0 \in T,
         \A i \in 1..n : i - 1 \in T => i \in T
  PROVE  \A i \in 0..n : i \in T
<1> SUFFICES ASSUME NEW x \in 0..n, x \notin T PROVE FALSE
  OBVIOUS
<1> DEFINE missed == {i \in 0..n : i \notin T}
<1>1. missed \in SUBSET Nat /\ missed # {}
  OBVIOUS
<1>2. PICK i \in missed : \A m \in missed : i <= m
  <2> HIDE DEF missed
  <2> QED BY <1>1, LeastNumber
<1>3. i \in 1..n /\ i \notin T
  <2>1. i \in 0..n /\ i \notin T
    BY <1>2
  <2> QED BY <2>1
<1>4. i - 1 \in T
  <2>1. i - 1 \in 0..n /\ ~(i <= i - 1)
    BY <1>3
  <2> QED BY <1>2, <2>1
<1> QED BY <1>3, <1>4

\* The values before the first and after every turn of a loop.
IsLoop(step, n, X) == step \in [(1..n) \X X -> X]
IsRun(g, step, n, X, base) ==
  g \in [0..n -> X] /\ g[0] = base /\ \A i \in 1..n : g[i] = step[<<i, g[i - 1]>>]

LEMMA LoopResult ==
  ASSUME NEW n \in Nat, NEW X, NEW base \in X, NEW step, IsLoop(step, n, X)
  PROVE  \E g : IsRun(g, step, n, X, base)
<1> USE DEF IsLoop
<1> DEFINE Run(g, m) ==
             g \in [0..m -> X] /\ g[0] = base /\ \A i \in 1..m : g[i] = step[<<i, g[i - 1]>>]
           T == {m \in 0..n : \E g : Run(g, m)}
<1>1. 0 \in T
  <2> DEFINE z == [i \in 0..0 |-> base]
  <2>1. Run(z, 0)
    OBVIOUS
  <2> HIDE DEF z
  <2> QED BY <2>1
<1>2. ASSUME NEW m \in 1..n, m - 1 \in T PROVE m \in T
  <2>1. PICK g : Run(g, m - 1)
    BY <1>2
  <2> DEFINE h == [i \in 0..m |-> IF i = m THEN step[<<m, g[m - 1]>>] ELSE g[i]]
  <2>2. g[m - 1] \in X /\ step[<<m, g[m - 1]>>] \in X
    BY <1>2, <2>1
  <2>3. \A i \in 0..(m - 1) : h[i] = g[i] /\ g[i] \in X
    BY <2>1
  <2>4. h \in [0..m -> X]
    <3>1. ASSUME NEW i \in 0..m PROVE h[i] \in X
      <4>1. i = m \/ i \in 0..(m - 1)
        OBVIOUS
      <4> QED BY <2>2, <2>3, <4>1
    <3> QED BY <3>1
  <2>5. h[0] = base /\ h[m] = step[<<m, h[m - 1]>>]
    <3>1. 0 \in 0..(m - 1) /\ m - 1 \in 0..(m - 1) /\ m \in 0..m
      OBVIOUS
    <3>2. h[m] = step[<<m, g[m - 1]>>]
      BY <3>1
    <3> QED BY <2>1, <2>3, <3>1, <3>2
  <2>6. \A i \in 1..m : h[i] = step[<<i, h[i - 1]>>]
    <3> SUFFICES ASSUME NEW i \in 1..m PROVE h[i] = step[<<i, h[i - 1]>>]
      OBVIOUS
    <3>1. CASE i = m
      BY <2>5, <3>1
    <3>2. CASE i # m
      <4>1. i \in 1..(m - 1) /\ i \in 0..(m - 1) /\ i - 1 \in 0..(m - 1)
        BY <3>2
      <4> HIDE DEF h
      <4> QED BY <2>1, <2>3, <4>1
    <3> QED BY <3>1, <3>2
  <2> HIDE DEF h
  <2>7. Run(h, m)
    BY <2>4, <2>5, <2>6
  <2> QED BY <2>7
<1>3. n \in T
  <2>1. T \in SUBSET (0..n)
    OBVIOUS
  <2> HIDE DEF T
  <2> QED BY <1>1, <1>2, <2>1, Upwards
<1> QED BY <1>3 DEF IsRun

----------------------------------------------------------------------------
(* The operators of evict() *)

LEMMA CapacityFacts ==
  SmallBudget \in Nat /\ GhostCapacity \in Nat /\ GhostCapacity >= 1 /\ Capacity \in Nat
<1>1. Capacity \in Nat /\ 2 * Capacity \in Nat /\ Capacity \div 10 \in Nat
  BY PolicyAssumption
<1> QED BY <1>1 DEF SmallBudget, GhostCapacity, AtLeastOne

Pairs == Key \X BOOLEAN

LEMMA KeysFacts ==
  ASSUME NEW s \in Seq(Pairs)
  PROVE  /\ Keys(s) \in Seq(Key) /\ Len(Keys(s)) = Len(s)
         /\ \A i \in 1..Len(s) : Keys(s)[i] = s[i][1] /\ s[i][1] \in Key
                                 /\ s[i][2] \in BOOLEAN
<1>1. Len(s) \in Nat /\ DOMAIN s = 1..Len(s) /\ \A i \in 1..Len(s) : s[i] \in Pairs
  OBVIOUS
<1>2. \A i \in 1..Len(s) : s[i][1] \in Key /\ s[i][2] \in BOOLEAN
  BY <1>1 DEF Pairs
<1>3. Keys(s) \in [1..Len(s) -> Key]
  BY <1>1, <1>2 DEF Keys
<1>4. Keys(s) \in Seq(Key) /\ Len(Keys(s)) = Len(s)
  BY <1>1, <1>3, IsASeq, LenProperties
<1> QED BY <1>1, <1>2, <1>4 DEF Keys

LEMMA KeysAppend ==
  ASSUME NEW s \in Seq(Pairs), NEW k \in Key, NEW b \in BOOLEAN,
         NEW t, t = Append(s, <<k, b>>)
  PROVE  t \in Seq(Pairs) /\ Keys(t) = Append(Keys(s), k) /\ Len(t) = Len(s) + 1
<1> DEFINE l == Keys(t)
           r == Append(Keys(s), k)
<1>1. <<k, b>> \in Pairs /\ t \in Seq(Pairs)
  BY DEF Pairs
<1>2. /\ Len(t) = Len(s) + 1 /\ t[Len(s) + 1] = <<k, b>> /\ Len(s) \in Nat
      /\ \A i \in 1..Len(s) : t[i] = s[i]
  BY <1>1, AppendProperties
<1>3. /\ l \in Seq(Key) /\ Len(l) = Len(t)
      /\ \A i \in 1..Len(t) : l[i] = t[i][1]
  BY <1>1, KeysFacts
<1>4. /\ r \in Seq(Key) /\ Len(r) = Len(s) + 1 /\ r[Len(s) + 1] = k
      /\ \A i \in 1..Len(s) : r[i] = s[i][1]
  BY KeysFacts, AppendProperties
<1> HIDE DEF l, r
<1>5. ASSUME NEW i \in 1..Len(l) PROVE l[i] = r[i]
  <2>1. i \in 1..Len(t)
    BY <1>3
  <2>2. i = Len(s) + 1 \/ i \in 1..Len(s)
    BY <1>2, <2>1
  <2>3. l[i] = t[i][1]
    BY <1>3, <2>1
  <2>4. CASE i = Len(s) + 1
    <3>1. t[i] = <<k, b>> /\ r[i] = k
      BY <1>2, <1>4, <2>4
    <3>2. t[i][1] = <<k, b>>[1]
      BY <3>1, Zenon
    <3>3. <<k, b>>[1] = k
      OBVIOUS
    <3> QED BY <2>3, <3>1, <3>2, <3>3, Zenon
  <2>5. CASE i \in 1..Len(s)
    <3>1. t[i] = s[i] /\ r[i] = s[i][1]
      BY <1>2, <1>4, <2>5
    <3> QED BY <2>3, <3>1
  <2> QED BY <2>2, <2>4, <2>5
<1>6. l = r
  BY <1>2, <1>3, <1>4, <1>5, SeqEqual
<1> QED BY <1>1, <1>2, <1>6 DEF l, r

\* The victims of a queue are those whose flag names it.
LEMMA TakenFromFacts ==
  ASSUME victims \in Seq(Pairs), IsInjective(Keys(victims)), NEW b \in BOOLEAN
  PROVE  /\ TakenFrom(b) \in Seq(Key) /\ IsInjective(TakenFrom(b))
         /\ Range(TakenFrom(b)) =
              {victims[i][1] : i \in {j \in 1..Len(victims) : victims[j][2] = b}}
<1> DEFINE n == Len(victims)
           Of(m) == {victims[i][1] : i \in {j \in 1..m : victims[j][2] = b}}
           step == [p \in (1..n) \X Seq(Key) |->
                      IF victims[p[1]][2] = b THEN Append(p[2], victims[p[1]][1])
                                              ELSE p[2]]
           Body(f, i) == IF i = 0 THEN <<>>
                         ELSE IF victims[i][2] = b THEN Append(f[i - 1], victims[i][1])
                         ELSE f[i - 1]
           Run(f) == f = [i \in 0..n |-> Body(f, i)]
<1>1. /\ n \in Nat /\ \A i \in 1..n : victims[i][1] \in Key
      /\ \A i, j \in 1..n : victims[i][1] = victims[j][1] => i = j
  <2>1. /\ n \in Nat /\ DOMAIN Keys(victims) = 1..n
        /\ \A i \in 1..n : Keys(victims)[i] = victims[i][1] /\ victims[i][1] \in Key
    BY KeysFacts, LenProperties
  <2> QED BY <2>1 DEF IsInjective
<1>2. IsLoop(step, n, Seq(Key))
  BY <1>1, AppendProperties DEF IsLoop
<1>3. PICK g \in [0..n -> Seq(Key)] :
        g[0] = <<>> /\ \A i \in 1..n : g[i] = step[<<i, g[i - 1]>>]
  <2>1. <<>> \in Seq(Key)
    BY EmptySeq
  <2> HIDE DEF step, n
  <2>2. PICK g : IsRun(g, step, n, Seq(Key), <<>>)
    BY <1>1, <1>2, <2>1, LoopResult
  <2> QED BY <2>2 DEF IsRun
<1>4. \A i \in 1..n : g[i] = IF victims[i][2] = b THEN Append(g[i - 1], victims[i][1])
                                                 ELSE g[i - 1]
  <2> SUFFICES ASSUME NEW i \in 1..n
               PROVE  g[i] = IF victims[i][2] = b THEN Append(g[i - 1], victims[i][1])
                                                  ELSE g[i - 1]
    OBVIOUS
  <2>1. g[i - 1] \in Seq(Key)
    BY <1>1
  <2>2. <<i, g[i - 1]>> \in (1..n) \X Seq(Key)
    BY <2>1
  <2>3. step[<<i, g[i - 1]>>] = IF victims[i][2] = b THEN Append(g[i - 1], victims[i][1])
                                                     ELSE g[i - 1]
    BY <2>2
  <2> QED BY <1>3, <2>3
<1>5. Run(g)
  <2>1. ASSUME NEW i \in 0..n PROVE g[i] = Body(g, i)
    <3>1. CASE i = 0
      BY <1>3, <3>1
    <3>2. CASE i # 0
      <4>1. i \in 1..n
        BY <1>1, <3>2
      <4> QED BY <1>4, <3>2, <4>1
    <3> QED BY <3>1, <3>2
  <2> HIDE DEF Body
  <2> QED BY <2>1
<1>6. TakenFrom(b) = (CHOOSE f : Run(f))[n]
  BY DEF TakenFrom
<1>7. PICK f : Run(f) /\ TakenFrom(b) = f[n]
  BY <1>5, <1>6
<1>8. /\ f[0] = <<>>
      /\ \A i \in 1..n : f[i] = IF victims[i][2] = b THEN Append(f[i - 1], victims[i][1])
                                                    ELSE f[i - 1]
  <2>1. \A i \in 0..n : f[i] = Body(f, i)
    <3> HIDE DEF Body
    <3> QED BY <1>7
  <2> QED BY <1>1, <2>1
<1> HIDE DEF n
<1> DEFINE T == {m \in 0..n : f[m] \in Seq(Key) /\ IsInjective(f[m]) /\ Range(f[m]) = Of(m)}
<1>9. 0 \in T
  <2>1. Of(0) = {}
    OBVIOUS
  <2>2. 0 \in 0..n
    BY <1>1
  <2> HIDE DEF Of
  <2> QED BY <1>8, <2>1, <2>2, EmptyQueue
<1>10. ASSUME NEW m \in 1..n, m - 1 \in T PROVE m \in T
  <2>1. f[m - 1] \in Seq(Key) /\ IsInjective(f[m - 1]) /\ Range(f[m - 1]) = Of(m - 1)
    BY <1>10
  <2>n. 1..m = 1..(m - 1) \cup {m} /\ m \notin 1..(m - 1) /\ 1..m \subseteq 1..n
    BY <1>1
  <2>2. CASE victims[m][2] = b
    <3>1. Of(m) = Of(m - 1) \cup {victims[m][1]}
      BY <2>2, <2>n
    <3>2. victims[m][1] \notin Of(m - 1)
      <4>1. \A j \in 1..(m - 1) : victims[j][1] # victims[m][1]
        BY <1>1, <2>n
      <4> QED BY <4>1
    <3>3. f[m] = Append(f[m - 1], victims[m][1]) /\ victims[m][1] \in Key
      BY <1>1, <1>8, <2>2
    <3> HIDE DEF Of
    <3>4. f[m] \in Seq(Key) /\ IsInjective(f[m]) /\ Range(f[m]) = Of(m)
      BY <2>1, <3>1, <3>2, <3>3, QueueAppend
    <3> QED BY <1>1, <3>4
  <2>3. CASE victims[m][2] # b
    <3>1. Of(m) = Of(m - 1)
      BY <1>1, <2>3, <2>n
    <3>2. f[m] = f[m - 1]
      BY <1>8, <2>3
    <3> HIDE DEF Of
    <3> QED BY <1>1, <2>1, <3>1, <3>2
  <2> QED BY <2>2, <2>3
<1>11. n \in T
  <2>1. T \in SUBSET (0..n) /\ n \in 0..n
    BY <1>1
  <2> HIDE DEF T
  <2> QED BY <1>1, <1>9, <1>10, <2>1, Upwards
<1> QED BY <1>7, <1>11 DEF n

\* A ghost queue without duplicates, within its capacity and over the keys of R.
Ghosts(R) ==
  {g \in Seq(Key) : IsInjective(g) /\ Len(g) <= GhostCapacity /\ Range(g) \subseteq R}

\* _ghost_insert keeps it so.
LEMMA GhostInsertFacts ==
  ASSUME NEW R, NEW g \in Ghosts(R), NEW k \in Key, k \in R
  PROVE  GhostInsert(g, k) \in Ghosts(R)
<1> DEFINE rest == RemoveFirst(g, k)
           longer == Append(rest, k)
           excess == IF Len(longer) > GhostCapacity THEN Len(longer) - GhostCapacity ELSE 0
           kept == SubSeq(longer, excess + 1, Len(longer))
<1>1. g \in Seq(Key) /\ IsInjective(g) /\ Len(g) <= GhostCapacity /\ Range(g) \subseteq R
  BY DEF Ghosts
<1>2. /\ rest \in Seq(Key) /\ IsInjective(rest) /\ Range(rest) = Range(g) \ {k}
  BY <1>1, QueueRemoveFirst
<1> HIDE DEF rest
<1>3. /\ longer \in Seq(Key) /\ IsInjective(longer) /\ Range(longer) \subseteq R
      /\ Len(longer) \in Nat
  BY <1>1, <1>2, QueueAppend
<1> HIDE DEF longer
<1>4. excess \in 0..Len(longer) /\ Len(longer) - excess <= GhostCapacity
  BY <1>3, CapacityFacts
<1> HIDE DEF excess
<1>5. /\ kept \in Seq(Key) /\ Len(kept) = Len(longer) - excess
      /\ Range(kept) \subseteq Range(longer) /\ IsInjective(kept)
  BY <1>3, <1>4, QueueSuffix
<1>6. GhostInsert(g, k) = kept
  BY DEF GhostInsert, rest, longer, excess
<1> HIDE DEF kept
<1> QED BY <1>3, <1>4, <1>5, <1>6 DEF Ghosts

\* So do any number of insertions.
LEMMA GhostsAfterFacts ==
  ASSUME NEW keys \in Seq(Key), NEW R, ghost \in Ghosts(R), Range(keys) \subseteq R
  PROVE  GhostsAfter(keys) \in Ghosts(R)
<1> DEFINE n == Len(keys)
           step == [p \in (1..n) \X Ghosts(R) |-> GhostInsert(p[2], keys[p[1]])]
           Body(f, i) == IF i = 0 THEN ghost ELSE GhostInsert(f[i - 1], keys[i])
           Run(f) == f = [i \in 0..n |-> Body(f, i)]
<1>1. n \in Nat /\ \A i \in 1..n : keys[i] \in Key /\ keys[i] \in R
  BY SeqFacts DEF Range
<1>2. IsLoop(step, n, Ghosts(R))
  BY <1>1, GhostInsertFacts DEF IsLoop
<1>3. PICK g : IsRun(g, step, n, Ghosts(R), ghost)
  <2> HIDE DEF step, n
  <2> QED BY <1>1, <1>2, LoopResult
<1>4. Run(g)
  <2>1. ASSUME NEW i \in 0..n PROVE g[i] = Body(g, i)
    <3>1. CASE i = 0
      BY <1>3, <3>1 DEF IsRun
    <3>2. CASE i # 0
      <4>1. i \in 1..n /\ i - 1 \in 0..n
        BY <1>1, <3>2
      <4>2. g[i - 1] \in Ghosts(R)
        BY <1>3, <4>1 DEF IsRun
      <4>3. step[<<i, g[i - 1]>>] = GhostInsert(g[i - 1], keys[i])
        BY <4>1, <4>2
      <4> QED BY <1>3, <3>2, <4>1, <4>3 DEF IsRun
    <3> QED BY <3>1, <3>2
  <2>2. DOMAIN g = 0..n /\ g = [i \in DOMAIN g |-> g[i]]
    BY <1>3 DEF IsRun
  <2> HIDE DEF Body
  <2> QED BY <2>1, <2>2
<1>5. GhostsAfter(keys) = (CHOOSE f : Run(f))[n]
  BY DEF GhostsAfter
<1>6. PICK f : Run(f) /\ GhostsAfter(keys) = f[n]
  BY <1>4, <1>5
<1>7. \A i \in 0..n : f[i] = Body(f, i)
  <2> HIDE DEF Body
  <2> QED BY <1>6
<1> HIDE DEF n
<1> DEFINE T == {m \in 0..n : f[m] \in Ghosts(R)}
<1>8. 0 \in T
  BY <1>1, <1>7
<1>9. ASSUME NEW m \in 1..n, m - 1 \in T PROVE m \in T
  <2>1. m \in 0..n /\ f[m] = GhostInsert(f[m - 1], keys[m])
    BY <1>1, <1>7
  <2> QED BY <1>1, <1>9, <2>1, GhostInsertFacts
<1>10. n \in T
  <2>1. T \in SUBSET (0..n) /\ n \in 0..n
    BY <1>1
  <2> HIDE DEF T
  <2> QED BY <1>1, <1>8, <1>9, <2>1, Upwards
<1> QED BY <1>6, <1>10 DEF n

----------------------------------------------------------------------------
(* The inductive invariant *)

TypeOK ==
  /\ blocks \subseteq Key /\ evictable \subseteq blocks
  /\ small \in Seq(Key) /\ main \in Seq(Key)
  /\ skippedSmall \in Seq(Key) /\ skippedMain \in Seq(Key) /\ victims \in Seq(Pairs)
  /\ freq \in [blocks -> Nat]
  /\ call \in {"idle", "evict"} /\ want \in Nat

\* The five queues hold the members of S, each in one of them and once.
Placed(S, a, b, c, d, e) ==
  /\ IsInjective(a) /\ IsInjective(b) /\ IsInjective(c) /\ IsInjective(d) /\ IsInjective(e)
  /\ Range(a) \cap (Range(b) \cup Range(c) \cup Range(d) \cup Range(e)) = {}
  /\ Range(b) \cap (Range(c) \cup Range(d) \cup Range(e)) = {}
  /\ Range(c) \cap (Range(d) \cup Range(e)) = {}
  /\ Range(d) \cap Range(e) = {}
  /\ Range(a) \cup Range(b) \cup Range(c) \cup Range(d) \cup Range(e) = S

\* What evict() has taken is what it may take, what it has set aside is not.
LoopInv ==
  /\ call = "idle" => victims = <<>> /\ skippedSmall = <<>> /\ skippedMain = <<>>
  /\ call = "evict" => Len(victims) <= want
  /\ Range(Keys(victims)) \subseteq Candidates
  /\ Candidates \cap (Range(skippedSmall) \cup Range(skippedMain)) = {}

Inv ==
  /\ TypeOK /\ LoopInv
  /\ Placed(blocks, small, main, skippedSmall, skippedMain, Keys(victims))
  /\ ghost \in Ghosts(Key \ blocks)

LEMMA NoVictims == <<>> \in Seq(Pairs) /\ Keys(<<>>) = <<>>
<1>1. <<>> \in Seq(Pairs)
  BY EmptySeq
<1>2. Keys(<<>>) \in Seq(Key) /\ Len(Keys(<<>>)) = 0
  BY <1>1, KeysFacts, EmptyQueue
<1> QED BY <1>1, <1>2, EmptySeq

LEMMA InitInv == Init => Inv
<1> SUFFICES ASSUME Init PROVE Inv
  OBVIOUS
<1>1. TypeOK
  BY NoVictims, EmptySeq DEF Init, TypeOK
<1>2. /\ Range(small) = {} /\ Range(main) = {} /\ Range(skippedSmall) = {}
      /\ Range(skippedMain) = {} /\ Range(Keys(victims)) = {} /\ Range(ghost) = {}
      /\ IsInjective(small) /\ IsInjective(main) /\ IsInjective(skippedSmall)
      /\ IsInjective(skippedMain) /\ IsInjective(Keys(victims)) /\ IsInjective(ghost)
  BY EmptyQueue, NoVictims DEF Init
<1>3. Placed(blocks, small, main, skippedSmall, skippedMain, Keys(victims))
  BY <1>2 DEF Init, Placed
<1>4. ghost \in Ghosts(Key \ blocks)
  BY <1>2, EmptyQueue, CapacityFacts DEF Init, Ghosts
<1>5. LoopInv
  BY <1>2 DEF Init, LoopInv
<1> QED BY <1>1, <1>3, <1>4, <1>5 DEF Inv

\* Ghosts of fewer keys are ghosts of more.
LEMMA GhostsMonotone ==
  ASSUME NEW R, NEW Q, R \subseteq Q, NEW g \in Ghosts(R)
  PROVE  g \in Ghosts(Q)
BY DEF Ghosts

\* Between two calls of evict() the blocks are in the two queues.
LEMMA BetweenCalls ==
  ASSUME Inv, call = "idle"
  PROVE  /\ IsInjective(small) /\ IsInjective(main) /\ Range(small) \cap Range(main) = {}
         /\ Range(small) \cup Range(main) = blocks
<1>1. Keys(victims) = <<>> /\ skippedSmall = <<>> /\ skippedMain = <<>>
  BY NoVictims DEF Inv, LoopInv
<1> QED BY <1>1, EmptyQueue DEF Inv, Placed

\* It is enough to show the same of the two queues after a call.
LEMMA CallKeeps ==
  ASSUME Inv, Idle,
         blocks' \subseteq Key, evictable' \subseteq blocks',
         small' \in Seq(Key), main' \in Seq(Key), freq' \in [blocks' -> Nat],
         IsInjective(small'), IsInjective(main'), Range(small') \cap Range(main') = {},
         Range(small') \cup Range(main') = blocks', ghost' \in Ghosts(Key \ blocks')
  PROVE  Inv'
<1>1. /\ call = "idle" /\ call' = call /\ want' = want /\ protected' = protected
      /\ victims' = victims /\ skippedSmall' = skippedSmall /\ skippedMain' = skippedMain
  BY DEF Idle, loop
<1>2. /\ victims' = <<>> /\ Keys(victims') = <<>> /\ skippedSmall' = <<>>
      /\ skippedMain' = <<>>
  BY <1>1, NoVictims DEF Inv, LoopInv
<1>3. TypeOK'
  BY <1>1 DEF Inv, TypeOK
<1>4. LoopInv'
  BY <1>1, <1>2, EmptyQueue DEF Inv, LoopInv
<1>5. Placed(blocks', small', main', skippedSmall', skippedMain', Keys(victims'))
  BY <1>2, EmptyQueue DEF Placed
<1> QED BY <1>3, <1>4, <1>5 DEF Inv

LEMMA InsertKeeps ==
  ASSUME Inv, NEW k \in Key, NEW pinned \in BOOLEAN, Insert(k, pinned)
  PROVE  Inv'
<1>1. /\ Idle /\ k \notin blocks /\ blocks' = blocks \cup {k} /\ freq' = FreqWith(k, 0)
      /\ ghost' = RemoveFirst(ghost, k) /\ small' = Append(small, k) /\ main' = main
      /\ evictable' \subseteq evictable \cup {k} /\ call = "idle"
  BY DEF Insert, Idle
<1>2. /\ blocks \subseteq Key /\ evictable \subseteq blocks /\ small \in Seq(Key)
      /\ main \in Seq(Key) /\ freq \in [blocks -> Nat]
  BY DEF Inv, TypeOK
<1>3. /\ IsInjective(small) /\ IsInjective(main) /\ Range(small) \cap Range(main) = {}
      /\ Range(small) \cup Range(main) = blocks
  BY <1>1, BetweenCalls
<1>4. /\ small' \in Seq(Key) /\ IsInjective(small') /\ Range(small') = Range(small) \cup {k}
  BY <1>1, <1>2, <1>3, QueueAppend
<1>5. freq' \in [blocks' -> Nat]
  BY <1>1, <1>2 DEF FreqWith
<1>6. ghost' \in Ghosts(Key \ blocks')
  <2>1. ghost \in Seq(Key) /\ IsInjective(ghost) /\ Len(ghost) <= GhostCapacity
        /\ Range(ghost) \subseteq Key \ blocks
    BY DEF Inv, Ghosts
  <2>2. /\ ghost' \in Seq(Key) /\ IsInjective(ghost') /\ Range(ghost') = Range(ghost) \ {k}
        /\ Len(ghost') <= Len(ghost)
    BY <1>1, <2>1, QueueRemoveFirst
  <2>3. Len(ghost') <= GhostCapacity
    BY <2>1, <2>2, CapacityFacts, LenProperties
  <2> QED BY <1>1, <2>1, <2>2, <2>3 DEF Ghosts
<1> QED BY <1>1, <1>2, <1>3, <1>4, <1>5, <1>6, CallKeeps

LEMMA RemoveKeeps ==
  ASSUME Inv, NEW k \in Key, RemoveBlock(k)
  PROVE  Inv'
<1>1. /\ Idle /\ blocks' = blocks \ {k} /\ freq' = FreqWithout({k}) /\ ghost' = ghost
      /\ small' = RemoveFirst(small, k) /\ main' = RemoveFirst(main, k)
      /\ evictable' = evictable \ {k} /\ call = "idle"
  BY DEF RemoveBlock, Idle
<1>2. /\ blocks \subseteq Key /\ evictable \subseteq blocks /\ small \in Seq(Key)
      /\ main \in Seq(Key) /\ freq \in [blocks -> Nat]
  BY DEF Inv, TypeOK
<1>3. /\ IsInjective(small) /\ IsInjective(main) /\ Range(small) \cap Range(main) = {}
      /\ Range(small) \cup Range(main) = blocks
  BY <1>1, BetweenCalls
<1>4. /\ small' \in Seq(Key) /\ IsInjective(small') /\ Range(small') = Range(small) \ {k}
      /\ main' \in Seq(Key) /\ IsInjective(main') /\ Range(main') = Range(main) \ {k}
  BY <1>1, <1>2, <1>3, QueueRemoveFirst
<1>5. freq' \in [blocks' -> Nat]
  BY <1>1, <1>2 DEF FreqWithout
<1>6. ghost' \in Ghosts(Key \ blocks')
  <2>1. Key \ blocks \subseteq Key \ blocks' /\ ghost \in Ghosts(Key \ blocks)
    BY <1>1 DEF Inv
  <2> QED BY <1>1, <2>1, GhostsMonotone
<1> QED BY <1>1, <1>2, <1>3, <1>4, <1>5, <1>6, CallKeeps

LEMMA OtherCallsKeep ==
  ASSUME Inv,
         \/ Clear
         \/ \E k \in Key : Touch(k) \/ \E free \in BOOLEAN : Mark(k, free)
  PROVE  Inv'
<1>1. Idle /\ call = "idle"
  BY DEF Clear, Touch, Mark, Idle
<1>2. /\ blocks \subseteq Key /\ evictable \subseteq blocks /\ small \in Seq(Key)
      /\ main \in Seq(Key) /\ freq \in [blocks -> Nat] /\ ghost \in Ghosts(Key \ blocks)
      /\ IsInjective(small) /\ IsInjective(main) /\ Range(small) \cap Range(main) = {}
      /\ Range(small) \cup Range(main) = blocks
  BY <1>1, BetweenCalls DEF Inv, TypeOK
<1>3. CASE Clear
  <2>1. /\ blocks' = {} /\ evictable' = {} /\ small' = <<>> /\ main' = <<>>
        /\ freq' = [k \in {} |-> 0] /\ ghost' = <<>>
    BY <1>3 DEF Clear
  <2>2. ghost' \in Ghosts(Key \ blocks')
    BY <2>1, EmptyQueue, CapacityFacts DEF Ghosts
  <2>3. freq' \in [blocks' -> Nat]
    BY <2>1
  <2> QED BY <1>1, <2>1, <2>2, <2>3, EmptyQueue, CallKeeps
<1>4. ASSUME NEW k \in Key, Touch(k) PROVE Inv'
  <2>1. /\ blocks' = blocks /\ evictable' = evictable /\ small' = small /\ main' = main
        /\ ghost' = ghost
        /\ freq' = [freq EXCEPT ![k] = IF @ < FreqCap THEN @ + 1 ELSE FreqCap]
    BY <1>4 DEF Touch
  <2>2. k \in blocks /\ freq[k] \in Nat
    BY <1>2, <1>4 DEF Touch
  <2>3. (IF freq[k] < FreqCap THEN freq[k] + 1 ELSE FreqCap) \in Nat
    BY <2>2 DEF FreqCap
  <2>4. freq' \in [blocks' -> Nat]
    BY <1>2, <2>1, <2>3
  <2> QED BY <1>1, <1>2, <2>1, <2>4, CallKeeps
<1>5. ASSUME NEW k \in Key, NEW free \in BOOLEAN, Mark(k, free) PROVE Inv'
  <2>1. /\ blocks' = blocks /\ small' = small /\ main' = main /\ freq' = freq
        /\ ghost' = ghost /\ evictable' \subseteq blocks
    BY <1>2, <1>5 DEF Mark, queues
  <2> QED BY <1>1, <1>2, <2>1, CallKeeps
<1> QED BY <1>3, <1>4, <1>5

\* evict() starts with nothing taken and nothing set aside.
LEMMA EvictKeeps ==
  ASSUME Inv, NEW n \in 0..MaxWant, NEW keep \in SUBSET Key, Evict(n, keep)
  PROVE  Inv'
<1>1. /\ call = "idle" /\ call' = "evict" /\ want' = n /\ victims' = <<>>
      /\ skippedSmall' = <<>> /\ skippedMain' = <<>>
      /\ blocks' = blocks /\ evictable' = evictable /\ small' = small /\ main' = main
      /\ freq' = freq /\ ghost' = ghost
  BY DEF Evict, queues
<1>2. n \in Nat
  BY PolicyAssumption
<1>3. Keys(victims') = <<>> /\ victims' \in Seq(Pairs) /\ Len(victims') = 0
  BY <1>1, NoVictims, EmptyQueue
<1>4. TypeOK'
  BY <1>1, <1>2, <1>3, EmptySeq DEF Inv, TypeOK
<1>5. LoopInv'
  BY <1>1, <1>2, <1>3, EmptyQueue DEF LoopInv
<1>6. Placed(blocks', small', main', skippedSmall', skippedMain', Keys(victims'))
  BY <1>1, <1>3, EmptyQueue, BetweenCalls DEF Placed
<1> QED BY <1>1, <1>4, <1>5, <1>6 DEF Inv

\* What a turn of the loop leaves alone.
LEMMA TurnFacts ==
  ASSUME Inv, Turn
  PROVE  /\ call = "evict" /\ Len(victims) < want /\ blocks' = blocks
         /\ evictable' = evictable /\ ghost' = ghost /\ call' = call /\ want' = want
         /\ protected' = protected /\ Candidates' = Candidates
         /\ small \in Seq(Key) /\ main \in Seq(Key) /\ skippedSmall \in Seq(Key)
         /\ skippedMain \in Seq(Key) /\ victims \in Seq(Pairs) /\ Keys(victims) \in Seq(Key)
         /\ freq \in [blocks -> Nat] /\ want \in Nat /\ Len(victims) \in Nat
         /\ Range(Keys(victims)) \subseteq Candidates
         /\ Candidates \cap (Range(skippedSmall) \cup Range(skippedMain)) = {}
         /\ Placed(blocks, small, main, skippedSmall, skippedMain, Keys(victims))
<1>1. Keys(victims) \in Seq(Key) /\ Len(victims) \in Nat
  BY KeysFacts, LenProperties DEF Inv, TypeOK
<1> QED BY <1>1 DEF Turn, Inv, TypeOK, LoopInv, Candidates

\* A turn keeps the invariant if it keeps the blocks in place.
LEMMA TurnKeeps ==
  ASSUME Inv, Turn,
         small' \in Seq(Key), main' \in Seq(Key), freq' \in [blocks -> Nat],
         skippedSmall' \in Seq(Key), skippedMain' \in Seq(Key), victims' \in Seq(Pairs),
         Len(victims') <= want, Range(Keys(victims')) \subseteq Candidates,
         Candidates \cap (Range(skippedSmall') \cup Range(skippedMain')) = {},
         Placed(blocks, small', main', skippedSmall', skippedMain', Keys(victims'))
  PROVE  Inv'
<1>1. /\ call = "evict" /\ blocks' = blocks /\ evictable' = evictable /\ ghost' = ghost
      /\ call' = call /\ want' = want /\ Candidates' = Candidates
  BY TurnFacts
<1>2. TypeOK'
  BY <1>1 DEF Inv, TypeOK
<1>3. LoopInv'
  BY <1>1 DEF LoopInv
<1> QED BY <1>1, <1>2, <1>3 DEF Inv

LEMMA SmallTurns ==
  ASSUME Inv, SmallReused \/ SmallSkip \/ SmallVictim
  PROVE  Inv'
<1> DEFINE k == Head(small)
<1>1. Turn /\ small # <<>> /\ small' = Tail(small)
  BY DEF SmallReused, SmallSkip, SmallVictim, PopSmall
<1>2. /\ small' \in Seq(Key) /\ k \in Key /\ Range(small) = Range(small') \cup {k}
      /\ IsInjective(small') /\ k \notin Range(small')
  BY <1>1, TurnFacts, QueueTail DEF Placed
<1>3. k \in blocks /\ k \notin Range(main) /\ k \notin Range(skippedSmall)
      /\ k \notin Range(skippedMain) /\ k \notin Range(Keys(victims))
  BY <1>1, <1>2, TurnFacts DEF Placed
<1> HIDE DEF k
<1>4. CASE SmallReused
  <2>1. /\ freq' = [freq EXCEPT ![k] = 0] /\ main' = Append(main, k) /\ victims' = victims
        /\ skippedSmall' = skippedSmall /\ skippedMain' = skippedMain
    BY <1>4 DEF SmallReused, k, loop
  <2>2. /\ main' \in Seq(Key) /\ Range(main') = Range(main) \cup {k} /\ IsInjective(main')
    BY <1>1, <1>2, <1>3, <2>1, TurnFacts, QueueAppend DEF Placed
  <2>3. freq' \in [blocks -> Nat]
    BY <1>1, <2>1, TurnFacts
  <2>4. Placed(blocks, small', main', skippedSmall, skippedMain, Keys(victims))
    BY <1>1, <1>2, <1>3, <2>2, TurnFacts DEF Placed
  <2> QED BY <1>1, <1>2, <2>1, <2>2, <2>3, <2>4, TurnFacts, TurnKeeps
<1>5. CASE SmallSkip
  <2>1. /\ freq' = freq /\ main' = main /\ victims' = victims /\ Skipped(k)
        /\ skippedSmall' = Append(skippedSmall, k) /\ skippedMain' = skippedMain
    BY <1>5 DEF SmallSkip, k
  <2>2. /\ skippedSmall' \in Seq(Key) /\ Range(skippedSmall') = Range(skippedSmall) \cup {k}
        /\ IsInjective(skippedSmall')
    BY <1>1, <1>2, <1>3, <2>1, TurnFacts, QueueAppend DEF Placed
  <2>3. k \notin Candidates
    BY <2>1 DEF Skipped, Candidates
  <2>4. Placed(blocks, small', main, skippedSmall', skippedMain, Keys(victims))
    BY <1>1, <1>2, <1>3, <2>2, TurnFacts DEF Placed
  <2>5. Candidates \cap (Range(skippedSmall') \cup Range(skippedMain)) = {}
    BY <1>1, <2>2, <2>3, TurnFacts
  <2> QED BY <1>1, <1>2, <2>1, <2>2, <2>4, <2>5, TurnFacts, TurnKeeps
<1>6. CASE SmallVictim
  <2>1. /\ freq' = freq /\ main' = main /\ victims' = Append(victims, <<k, TRUE>>)
        /\ ~Skipped(k) /\ skippedSmall' = skippedSmall /\ skippedMain' = skippedMain
    BY <1>6 DEF SmallVictim, k
  <2>2. /\ victims' \in Seq(Pairs) /\ Keys(victims') = Append(Keys(victims), k)
        /\ Len(victims') = Len(victims) + 1
    BY <1>1, <1>2, <2>1, TurnFacts, KeysAppend
  <2>3. /\ Range(Keys(victims')) = Range(Keys(victims)) \cup {k}
        /\ IsInjective(Keys(victims'))
    BY <1>1, <1>2, <1>3, <2>2, TurnFacts, QueueAppend DEF Placed
  <2>4. k \in Candidates
    BY <2>1 DEF Skipped, Candidates
  <2>5. Placed(blocks, small', main, skippedSmall, skippedMain, Keys(victims'))
    BY <1>1, <1>2, <1>3, <2>3, TurnFacts DEF Placed
  <2>6. Len(victims') <= want /\ Range(Keys(victims')) \subseteq Candidates
    BY <1>1, <2>2, <2>3, <2>4, TurnFacts
  <2> QED BY <1>1, <1>2, <2>1, <2>2, <2>5, <2>6, TurnFacts, TurnKeeps
<1> QED BY <1>4, <1>5, <1>6

LEMMA MainTurns ==
  ASSUME Inv, MainSecondChance \/ MainSkip \/ MainVictim
  PROVE  Inv'
<1> DEFINE k == Head(main)
           rest == Tail(main)
<1>1. Turn /\ main # <<>> /\ small' = small
  BY DEF MainSecondChance, MainSkip, MainVictim, PopMain, FromSmall
<1>2. /\ rest \in Seq(Key) /\ k \in Key /\ Range(main) = Range(rest) \cup {k}
      /\ IsInjective(rest) /\ k \notin Range(rest)
  BY <1>1, TurnFacts, QueueTail DEF Placed
<1>3. k \in blocks /\ k \notin Range(small) /\ k \notin Range(skippedSmall)
      /\ k \notin Range(skippedMain) /\ k \notin Range(Keys(victims))
  BY <1>1, <1>2, TurnFacts DEF Placed
<1> HIDE DEF k, rest
<1>4. CASE MainSecondChance
  <2>1. /\ freq' = [freq EXCEPT ![k] = @ - 1] /\ freq[k] > 0 /\ main' = Append(rest, k)
        /\ victims' = victims /\ skippedSmall' = skippedSmall /\ skippedMain' = skippedMain
    BY <1>4 DEF MainSecondChance, k, rest, loop
  <2>2. /\ main' \in Seq(Key) /\ Range(main') = Range(main) /\ IsInjective(main')
    BY <1>1, <1>2, <1>3, <2>1, TurnFacts, QueueAppend
  <2>3. freq' \in [blocks -> Nat]
    <3>1. freq[k] \in Nat /\ freq \in [blocks -> Nat]
      BY <1>1, <1>3, TurnFacts
    <3>2. freq[k] - 1 \in Nat
      BY <2>1, <3>1
    <3> QED BY <2>1, <3>1, <3>2
  <2>4. Placed(blocks, small, main', skippedSmall, skippedMain, Keys(victims))
    BY <1>1, <2>2, TurnFacts DEF Placed
  <2> QED BY <1>1, <2>1, <2>2, <2>3, <2>4, TurnFacts, TurnKeeps
<1>5. CASE MainSkip
  <2>1. /\ freq' = freq /\ main' = rest /\ victims' = victims /\ Skipped(k)
        /\ skippedSmall' = skippedSmall /\ skippedMain' = Append(skippedMain, k)
    BY <1>5 DEF MainSkip, k, rest
  <2>2. /\ skippedMain' \in Seq(Key) /\ Range(skippedMain') = Range(skippedMain) \cup {k}
        /\ IsInjective(skippedMain')
    BY <1>1, <1>2, <1>3, <2>1, TurnFacts, QueueAppend DEF Placed
  <2>3. k \notin Candidates
    BY <2>1 DEF Skipped, Candidates
  <2>4. Placed(blocks, small, main', skippedSmall, skippedMain', Keys(victims))
    BY <1>1, <1>2, <1>3, <2>1, <2>2, TurnFacts DEF Placed
  <2>5. Candidates \cap (Range(skippedSmall) \cup Range(skippedMain')) = {}
    BY <1>1, <2>2, <2>3, TurnFacts
  <2> QED BY <1>1, <1>2, <2>1, <2>2, <2>4, <2>5, TurnFacts, TurnKeeps
<1>6. CASE MainVictim
  <2>1. /\ freq' = freq /\ main' = rest /\ victims' = Append(victims, <<k, FALSE>>)
        /\ ~Skipped(k) /\ skippedSmall' = skippedSmall /\ skippedMain' = skippedMain
    BY <1>6 DEF MainVictim, k, rest
  <2>2. /\ victims' \in Seq(Pairs) /\ Keys(victims') = Append(Keys(victims), k)
        /\ Len(victims') = Len(victims) + 1
    BY <1>1, <1>2, <2>1, TurnFacts, KeysAppend
  <2>3. /\ Range(Keys(victims')) = Range(Keys(victims)) \cup {k}
        /\ IsInjective(Keys(victims'))
    BY <1>1, <1>2, <1>3, <2>2, TurnFacts, QueueAppend DEF Placed
  <2>4. k \in Candidates
    BY <1>1, <2>1 DEF Skipped, Candidates
  <2>5. Placed(blocks, small, main', skippedSmall, skippedMain, Keys(victims'))
    <3>1. Placed(blocks, small, main, skippedSmall, skippedMain, Keys(victims))
      BY <1>1, TurnFacts
    <3>2. main' = rest
      BY <2>1
    <3> QED BY <1>2, <1>3, <2>3, <3>1, <3>2 DEF Placed
  <2>6. Len(victims') <= want /\ Range(Keys(victims')) \subseteq Candidates
    BY <1>1, <2>2, <2>3, <2>4, TurnFacts
  <2> QED BY <1>1, <1>2, <2>1, <2>2, <2>5, <2>6, TurnFacts, TurnKeeps
<1> QED BY <1>4, <1>5, <1>6

\* When evict() returns nothing is left aside, so the two queues must hold
\* what it leaves.
LEMMA FinishKeeps ==
  ASSUME Inv, Finish,
         blocks' \subseteq Key, evictable' \subseteq blocks',
         small' \in Seq(Key), main' \in Seq(Key), freq' \in [blocks' -> Nat],
         IsInjective(small'), IsInjective(main'), Range(small') \cap Range(main') = {},
         Range(small') \cup Range(main') = blocks', ghost' \in Ghosts(Key \ blocks')
  PROVE  Inv'
<1>1. /\ call' = "idle" /\ want' = 0 /\ victims' = <<>> /\ skippedSmall' = <<>>
      /\ skippedMain' = <<>>
  BY DEF Finish
<1>2. Keys(victims') = <<>> /\ victims' \in Seq(Pairs)
  BY <1>1, NoVictims
<1>3. TypeOK'
  BY <1>1, <1>2, EmptyQueue DEF TypeOK
<1>4. LoopInv'
  BY <1>1, <1>2, EmptyQueue DEF LoopInv
<1>5. Placed(blocks', small', main', skippedSmall', skippedMain', Keys(victims'))
  BY <1>1, <1>2, EmptyQueue DEF Placed
<1> QED BY <1>3, <1>4, <1>5 DEF Inv

\* The victims, by the queue they came from.
LEMMA TakenParts ==
  ASSUME Inv
  PROVE  /\ TakenFrom(TRUE) \in Seq(Key) /\ IsInjective(TakenFrom(TRUE))
         /\ TakenFrom(FALSE) \in Seq(Key) /\ IsInjective(TakenFrom(FALSE))
         /\ Range(TakenFrom(TRUE)) \cap Range(TakenFrom(FALSE)) = {}
         /\ Range(TakenFrom(TRUE)) \cup Range(TakenFrom(FALSE)) = Range(Keys(victims))
<1> DEFINE n == Len(victims)
           Of(b) == {victims[i][1] : i \in {j \in 1..n : victims[j][2] = b}}
<1>1. victims \in Seq(Pairs) /\ IsInjective(Keys(victims))
  BY DEF Inv, TypeOK, Placed
<1>2. /\ DOMAIN Keys(victims) = 1..n
      /\ \A i \in 1..n : Keys(victims)[i] = victims[i][1] /\ victims[i][2] \in BOOLEAN
  BY <1>1, KeysFacts, LenProperties
<1>3. \A i, j \in 1..n : victims[i][1] = victims[j][1] => i = j
  BY <1>1, <1>2 DEF IsInjective
<1>4. /\ TakenFrom(TRUE) \in Seq(Key) /\ IsInjective(TakenFrom(TRUE))
      /\ Range(TakenFrom(TRUE)) = Of(TRUE)
  BY <1>1, TakenFromFacts
<1>5. /\ TakenFrom(FALSE) \in Seq(Key) /\ IsInjective(TakenFrom(FALSE))
      /\ Range(TakenFrom(FALSE)) = Of(FALSE)
  BY <1>1, TakenFromFacts
<1>6. Of(TRUE) \cap Of(FALSE) = {}
  BY <1>3
<1>7. Of(TRUE) \cup Of(FALSE) = Range(Keys(victims))
  <2>1. Of(TRUE) \cup Of(FALSE) \subseteq Range(Keys(victims))
    BY <1>2 DEF Range
  <2>2. ASSUME NEW k \in Range(Keys(victims)) PROVE k \in Of(TRUE) \cup Of(FALSE)
    <3>1. PICK i \in 1..n : k = victims[i][1]
      BY <1>2 DEF Range
    <3>2. victims[i][2] = TRUE \/ victims[i][2] = FALSE
      BY <1>2
    <3> QED BY <3>1, <3>2
  <2> QED BY <2>1, <2>2
<1> HIDE DEF Of
<1> QED BY <1>4, <1>5, <1>6, <1>7

LEMMA SucceedsKeeps ==
  ASSUME Inv, EvictSucceeds
  PROVE  Inv'
<1> DEFINE K == Range(Keys(victims))
<1>1. /\ Finish /\ small' = skippedSmall \o small /\ main' = skippedMain \o main
      /\ blocks' = blocks \ K /\ freq' = FreqWithout(K) /\ evictable' = evictable \ K
      /\ ghost' = GhostsAfter(TakenFrom(TRUE))
  BY DEF EvictSucceeds
<1>2. /\ blocks \subseteq Key /\ evictable \subseteq blocks /\ small \in Seq(Key)
      /\ main \in Seq(Key) /\ skippedSmall \in Seq(Key) /\ skippedMain \in Seq(Key)
      /\ freq \in [blocks -> Nat]
      /\ Placed(blocks, small, main, skippedSmall, skippedMain, Keys(victims))
  BY DEF Inv, TypeOK
<1>3. /\ small' \in Seq(Key) /\ IsInjective(small')
      /\ Range(small') = Range(skippedSmall) \cup Range(small)
  <2>1. Joined(Key, skippedSmall, small)
    BY <1>2, QueueConcat
  <2> QED BY <1>1, <1>2, <2>1 DEF Placed, Joined
<1>4. /\ main' \in Seq(Key) /\ IsInjective(main')
      /\ Range(main') = Range(skippedMain) \cup Range(main)
  <2>1. Joined(Key, skippedMain, main)
    BY <1>2, QueueConcat
  <2> QED BY <1>1, <1>2, <2>1 DEF Placed, Joined
<1>5. /\ Range(small') \cap Range(main') = {} /\ Range(small') \cup Range(main') = blocks'
      /\ K \subseteq blocks
  BY <1>1, <1>2, <1>3, <1>4 DEF Placed
<1>6. freq' \in [blocks' -> Nat]
  BY <1>1, <1>2 DEF FreqWithout
<1>7. ghost' \in Ghosts(Key \ blocks')
  <2>1. TakenFrom(TRUE) \in Seq(Key) /\ Range(TakenFrom(TRUE)) \subseteq K
    BY TakenParts
  <2>2. Range(TakenFrom(TRUE)) \subseteq Key \ blocks' /\ Key \ blocks \subseteq Key \ blocks'
    BY <1>1, <1>2, <1>5, <2>1
  <2>3. ghost \in Ghosts(Key \ blocks')
    BY <2>2, GhostsMonotone DEF Inv
  <2> QED BY <1>1, <2>1, <2>2, <2>3, GhostsAfterFacts
<1> HIDE DEF K
<1> QED BY <1>1, <1>2, <1>3, <1>4, <1>5, <1>6, <1>7, FinishKeeps

LEMMA FailsKeeps ==
  ASSUME Inv, EvictFails
  PROVE  Inv'
<1>1. /\ Finish /\ small = <<>> /\ main = <<>>
      /\ small' = skippedSmall \o TakenFrom(TRUE) /\ main' = skippedMain \o TakenFrom(FALSE)
      /\ blocks' = blocks /\ freq' = freq /\ evictable' = evictable /\ ghost' = ghost
  BY DEF EvictFails
<1>2. /\ blocks \subseteq Key /\ evictable \subseteq blocks /\ skippedSmall \in Seq(Key)
      /\ skippedMain \in Seq(Key) /\ freq \in [blocks -> Nat]
      /\ ghost \in Ghosts(Key \ blocks)
      /\ Placed(blocks, small, main, skippedSmall, skippedMain, Keys(victims))
  BY DEF Inv, TypeOK
<1>3. Range(small) = {} /\ Range(main) = {}
  BY <1>1, EmptyQueue
<1>4. /\ small' \in Seq(Key) /\ IsInjective(small')
      /\ Range(small') = Range(skippedSmall) \cup Range(TakenFrom(TRUE))
  <2>1. /\ IsInjective(skippedSmall) /\ Range(skippedSmall) \cap Range(Keys(victims)) = {}
    BY <1>2 DEF Placed
  <2>2. /\ TakenFrom(TRUE) \in Seq(Key) /\ IsInjective(TakenFrom(TRUE))
        /\ Range(skippedSmall) \cap Range(TakenFrom(TRUE)) = {}
    BY <2>1, TakenParts
  <2>3. Joined(Key, skippedSmall, TakenFrom(TRUE))
    BY <1>2, <2>2, QueueConcat
  <2> QED BY <1>1, <2>1, <2>2, <2>3 DEF Joined
<1>5. /\ main' \in Seq(Key) /\ IsInjective(main')
      /\ Range(main') = Range(skippedMain) \cup Range(TakenFrom(FALSE))
  <2>1. /\ IsInjective(skippedMain) /\ Range(skippedMain) \cap Range(Keys(victims)) = {}
    BY <1>2 DEF Placed
  <2>2. /\ TakenFrom(FALSE) \in Seq(Key) /\ IsInjective(TakenFrom(FALSE))
        /\ Range(skippedMain) \cap Range(TakenFrom(FALSE)) = {}
    BY <2>1, TakenParts
  <2>3. Joined(Key, skippedMain, TakenFrom(FALSE))
    BY <1>2, <2>2, QueueConcat
  <2> QED BY <1>1, <2>1, <2>2, <2>3 DEF Joined
<1>6. Range(small') \cap Range(main') = {} /\ Range(small') \cup Range(main') = blocks'
  BY <1>1, <1>2, <1>3, <1>4, <1>5, TakenParts DEF Placed
<1> QED BY <1>1, <1>2, <1>4, <1>5, <1>6, FinishKeeps

LEMMA NextKeepsInv == Inv /\ [Next]_vars => Inv'
<1> SUFFICES ASSUME Inv, [Next]_vars PROVE Inv'
  OBVIOUS
<1>1. CASE UNCHANGED vars
  BY <1>1 DEF vars, queues, loop, Inv, TypeOK, LoopInv, Candidates
<1>2. CASE Evicting
  BY <1>2, SmallTurns, MainTurns, SucceedsKeeps, FailsKeeps DEF Evicting
<1> QED BY <1>1, <1>2, InsertKeeps, RemoveKeeps, OtherCallsKeep, EvictKeeps DEF Next

LEMMA PolicyInv == Spec => []Inv
BY InitInv, NextKeepsInv, PTL DEF Spec

----------------------------------------------------------------------------
(* Theorems *)

\* The candidates are finitely many, and evict() has taken some of them.
LEMMA CandidatesFinite ==
  ASSUME Inv
  PROVE  /\ IsFiniteSet(blocks) /\ IsFiniteSet(Candidates)
         /\ Cardinality(Candidates) \in Nat
         /\ IsFiniteSet(Range(Keys(victims)))
         /\ Cardinality(Range(Keys(victims))) = Len(victims)
         /\ Len(victims) \in Nat
<1>1. /\ small \in Seq(Key) /\ main \in Seq(Key) /\ skippedSmall \in Seq(Key)
      /\ skippedMain \in Seq(Key) /\ Keys(victims) \in Seq(Key)
      /\ Len(Keys(victims)) = Len(victims) /\ Len(victims) \in Nat
  BY KeysFacts, LenProperties DEF Inv, TypeOK
<1>2. /\ IsFiniteSet(Range(small)) /\ IsFiniteSet(Range(main))
      /\ IsFiniteSet(Range(skippedSmall)) /\ IsFiniteSet(Range(skippedMain))
      /\ IsFiniteSet(Range(Keys(victims)))
      /\ Cardinality(Range(Keys(victims))) = Len(Keys(victims))
  BY <1>1, QueueSize DEF Inv, Placed
<1>3. IsFiniteSet(blocks)
  <2>1. IsFiniteSet(Range(small) \cup Range(main))
    BY <1>2, FS_Union
  <2>2. IsFiniteSet(Range(small) \cup Range(main) \cup Range(skippedSmall))
    BY <1>2, <2>1, FS_Union
  <2>3. IsFiniteSet(Range(small) \cup Range(main) \cup Range(skippedSmall)
                     \cup Range(skippedMain))
    BY <1>2, <2>2, FS_Union
  <2>4. IsFiniteSet(Range(small) \cup Range(main) \cup Range(skippedSmall)
                     \cup Range(skippedMain) \cup Range(Keys(victims)))
    BY <1>2, <2>3, FS_Union
  <2> QED BY <2>4 DEF Inv, Placed
<1>4. Candidates \subseteq blocks
  BY DEF Candidates, Inv, TypeOK
<1> QED BY <1>1, <1>2, <1>3, <1>4, FS_Subset, FS_CardinalityType

\* At every turn of evict() and between the calls the five containers of the
\* policy agree: no block is lost or doubled in its queues, frequencies and
\* evictable keys are those of blocks held, and ghosts are gone.
THEOREM PolicyBooksAgree == Spec => []BooksAgree
<1>1. Inv => BooksAgree
  <2> SUFFICES ASSUME Inv PROVE BooksAgree
    OBVIOUS
  <2> DEFINE a == small \o main
             b == a \o skippedSmall
             c == b \o skippedMain
             d == c \o Keys(victims)
  <2>1. /\ small \in Seq(Key) /\ main \in Seq(Key) /\ skippedSmall \in Seq(Key)
        /\ skippedMain \in Seq(Key) /\ Keys(victims) \in Seq(Key)
        /\ Placed(blocks, small, main, skippedSmall, skippedMain, Keys(victims))
    BY KeysFacts DEF Inv, TypeOK
  <2>2. a \in Seq(Key) /\ IsInjective(a) /\ Range(a) = Range(small) \cup Range(main)
    <3>1. Joined(Key, small, main)
      BY <2>1, QueueConcat
    <3> QED BY <2>1, <3>1 DEF Placed, Joined
  <2> HIDE DEF a
  <2>3. b \in Seq(Key) /\ IsInjective(b) /\ Range(b) = Range(a) \cup Range(skippedSmall)
    <3>1. Joined(Key, a, skippedSmall)
      BY <2>1, <2>2, QueueConcat
    <3> QED BY <2>1, <2>2, <3>1 DEF Placed, Joined
  <2> HIDE DEF b
  <2>4. c \in Seq(Key) /\ IsInjective(c) /\ Range(c) = Range(b) \cup Range(skippedMain)
    <3>1. Joined(Key, b, skippedMain)
      BY <2>1, <2>3, QueueConcat
    <3> QED BY <2>1, <2>2, <2>3, <3>1 DEF Placed, Joined
  <2> HIDE DEF c
  <2>5. d \in Seq(Key) /\ IsInjective(d) /\ Range(d) = Range(c) \cup Range(Keys(victims))
    <3>1. Joined(Key, c, Keys(victims))
      BY <2>1, <2>4, QueueConcat
    <3> QED BY <2>1, <2>2, <2>3, <2>4, <3>1 DEF Placed, Joined
  <2> HIDE DEF d
  <2>6. Range(d) = blocks /\ Len(d) = Cardinality(blocks)
    BY <2>1, <2>2, <2>3, <2>4, <2>5, QueueSize DEF Placed
  <2>7. QueuePartition
    BY <2>6 DEF QueuePartition, a, b, c, d
  <2>8. GhostsAreGone
    <3>1. /\ ghost \in Seq(Key) /\ IsInjective(ghost) /\ Len(ghost) <= GhostCapacity
          /\ Range(ghost) \subseteq Key \ blocks
      BY DEF Inv, Ghosts
    <3> QED BY <3>1, QueueSize DEF GhostsAreGone
  <2> QED BY <2>7, <2>8 DEF Inv, TypeOK, BooksAgree
<1> QED BY <1>1, PolicyInv, PTL

\* evict(n, protected) returns n blocks that are neither in use nor protected,
\* and takes exactly these out, if there are that many; else it returns None.
THEOREM EvictIsExact == Spec => EvictExact
<1> DEFINE Exact ==
      call = "evict" /\ call' = "idle" =>
        IF Cardinality(Candidates) < want
          THEN ~result'.ok
          ELSE /\ result'.ok /\ Len(result'.keys) = want
               /\ Range(result'.keys) \subseteq Candidates
               /\ blocks' = blocks \ Range(result'.keys)
<1>1. ASSUME Inv, [Next]_vars PROVE [Exact]_vars
  <2> SUFFICES ASSUME call = "evict", call' = "idle" PROVE Exact
    OBVIOUS
  <2> USE <1>1
  <2> DEFINE K == Range(Keys(victims))
  <2>1. /\ IsFiniteSet(Candidates) /\ Cardinality(Candidates) \in Nat /\ want \in Nat
        /\ Cardinality(K) = Len(victims) /\ K \subseteq Candidates /\ Len(victims) \in Nat
    BY CandidatesFinite DEF Inv, TypeOK, LoopInv
  <2>2. EvictSucceeds \/ EvictFails
    BY DEF Next, vars, Evicting, Evict, Insert, Mark, RemoveBlock, Touch, Clear, Idle,
           SmallReused, SmallSkip, SmallVictim, MainSecondChance, MainSkip, MainVictim,
           PopSmall, PopMain, Turn
  <2>3. CASE EvictSucceeds
    <3>1. /\ Len(victims) = want /\ blocks' = blocks \ K
          /\ result' = [ok |-> TRUE, keys |-> Keys(victims)]
      BY <2>3 DEF EvictSucceeds
    <3>2. Cardinality(K) <= Cardinality(Candidates)
      BY <2>1, FS_Subset
    <3>3. Len(Keys(victims)) = Len(victims)
      BY KeysFacts DEF Inv, TypeOK
    <3>4. result'.ok = TRUE /\ result'.keys = Keys(victims)
      BY <3>1
    <3> QED BY <2>1, <3>1, <3>2, <3>3, <3>4
  <2>4. CASE EvictFails
    <3>1. Len(victims) < want /\ small = <<>> /\ main = <<>> /\ result' = None
      BY <2>4 DEF EvictFails
    <3>2. Range(small) = {} /\ Range(main) = {}
      BY <3>1, EmptyQueue
    <3>3. Candidates = K
      BY <2>1, <3>2 DEF Inv, LoopInv, Placed, TypeOK, Candidates
    <3>4. Cardinality(Candidates) < want
      BY <2>1, <3>1, <3>3
    <3>5. ~result'.ok
      BY <3>1 DEF None
    <3> QED BY <3>4, <3>5
  <2> QED BY <2>2, <2>3, <2>4
<1> QED BY <1>1, PolicyInv, PTL DEF Spec, EvictExact
=============================================================================
