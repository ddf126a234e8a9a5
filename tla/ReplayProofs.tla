---------------------------- MODULE ReplayProofs ----------------------------
(***************************************************************************)
(* Safety of the benchmark's caches, of its two tiers and of its replays,  *)
(* for any blocks, policies, capacities, traces and lock files.            *)
(***************************************************************************)
EXTENDS Replay, FiniteSetTheorems, SequenceTheorems, NaturalsInduction, TLAPS

----------------------------------------------------------------------------
(* Queues: sequences in which no element is twice.                         *)

LEMMA SeqFacts ==
  ASSUME NEW S, NEW s \in Seq(S)
  PROVE  /\ Len(s) \in Nat /\ DOMAIN s = 1..Len(s)
         /\ Range(s) \subseteq S /\ \A i \in 1..Len(s) : s[i] \in S
BY DEF Range

LEMMA EmptyQueue ==
  ASSUME NEW S
  PROVE  <<>> \in Seq(S) /\ Range(<<>>) = {} /\ IsInjective(<<>>) /\ Len(<<>>) = 0
BY DEF Range, IsInjective

\* To the end of a queue.
LEMMA QueueAppend ==
  ASSUME NEW S, NEW s \in Seq(S), NEW k \in S
  PROVE  /\ Append(s, k) \in Seq(S) /\ Len(Append(s, k)) = Len(s) + 1
         /\ Range(Append(s, k)) = Range(s) \cup {k}
         /\ IsInjective(s) /\ k \notin Range(s) => IsInjective(Append(s, k))
<1>1. /\ Append(s, k) \in Seq(S) /\ Len(Append(s, k)) = Len(s) + 1
      /\ DOMAIN Append(s, k) = 1..(Len(s) + 1) /\ DOMAIN s = 1..Len(s)
      /\ Len(s) \in Nat
  OBVIOUS
<1>2. \A i \in 1..Len(s) : Append(s, k)[i] = s[i]
  OBVIOUS
<1>3. Append(s, k)[Len(s) + 1] = k
  OBVIOUS
<1>4. Range(Append(s, k)) = Range(s) \cup {k}
  BY <1>1, <1>2, <1>3 DEF Range
<1>5. ASSUME IsInjective(s), k \notin Range(s),
             NEW i \in DOMAIN Append(s, k), NEW j \in DOMAIN Append(s, k),
             Append(s, k)[i] = Append(s, k)[j]
      PROVE  i = j
  <2>1. \A n \in 1..Len(s) : s[n] # k
    BY <1>1, <1>5 DEF Range
  <2> QED BY <1>1, <1>2, <1>3, <1>5, <2>1 DEF IsInjective
<1> QED BY <1>1, <1>4, <1>5 DEF IsInjective

\* From the front of a queue.
LEMMA QueueTail ==
  ASSUME NEW S, NEW s \in Seq(S), s # <<>>
  PROVE  /\ Tail(s) \in Seq(S) /\ Head(s) \in Range(s) /\ Head(s) \in S
         /\ Len(Tail(s)) = Len(s) - 1
         /\ Range(s) = Range(Tail(s)) \cup {Head(s)}
         /\ IsInjective(s) => IsInjective(Tail(s)) /\ Head(s) \notin Range(Tail(s))
<1>1. /\ Tail(s) \in Seq(S) /\ Len(Tail(s)) = Len(s) - 1 /\ Head(s) = s[1]
      /\ DOMAIN Tail(s) = 1..(Len(s) - 1) /\ DOMAIN s = 1..Len(s)
      /\ Len(s) \in Nat /\ Len(s) >= 1
  OBVIOUS
<1>2. \A i \in 1..(Len(s) - 1) : Tail(s)[i] = s[i + 1] /\ i + 1 \in DOMAIN s
  BY <1>1
<1>3. Head(s) \in Range(s) /\ Head(s) \in S
  BY <1>1 DEF Range
<1>4. Range(Tail(s)) \subseteq Range(s)
  BY <1>1, <1>2 DEF Range
<1>5. ASSUME NEW k \in Range(s), k # Head(s) PROVE k \in Range(Tail(s))
  <2>1. PICK i \in DOMAIN s : s[i] = k /\ i # 1
    BY <1>1, <1>5 DEF Range
  <2>2. i - 1 \in DOMAIN Tail(s) /\ Tail(s)[i - 1] = k
    BY <1>1, <1>2, <2>1
  <2> QED BY <2>2 DEF Range
<1>6. ASSUME IsInjective(s) PROVE IsInjective(Tail(s)) /\ Head(s) \notin Range(Tail(s))
  BY <1>1, <1>2, <1>6 DEF IsInjective, Range
<1> QED BY <1>1, <1>3, <1>4, <1>5, <1>6

\* One queue in front of another.
Joined(S, s, t) ==
  /\ s \o t \in Seq(S) /\ Len(s \o t) = Len(s) + Len(t)
  /\ Range(s \o t) = Range(s) \cup Range(t)
  /\ IsInjective(s) /\ IsInjective(t) /\ Range(s) \cap Range(t) = {} => IsInjective(s \o t)

LEMMA QueueConcat ==
  ASSUME NEW S, NEW s \in Seq(S), NEW t \in Seq(S)
  PROVE  Joined(S, s, t)
<1>1. /\ s \o t \in Seq(S) /\ Len(s \o t) = Len(s) + Len(t)
      /\ DOMAIN s = 1..Len(s) /\ DOMAIN t = 1..Len(t)
      /\ DOMAIN (s \o t) = 1..(Len(s) + Len(t)) /\ Len(s) \in Nat /\ Len(t) \in Nat
  OBVIOUS
<1>2. \A i \in 1..(Len(s) + Len(t)) :
        (s \o t)[i] = IF i <= Len(s) THEN s[i] ELSE t[i - Len(s)]
  OBVIOUS
<1>3. Range(s \o t) = Range(s) \cup Range(t)
  BY RangeConcatenation
<1>4. ASSUME IsInjective(s), IsInjective(t), Range(s) \cap Range(t) = {},
             NEW i \in 1..(Len(s) + Len(t)), NEW j \in 1..(Len(s) + Len(t)),
             (s \o t)[i] = (s \o t)[j]
      PROVE  i = j
  <2>1. \A m \in 1..Len(s), n \in 1..Len(t) : s[m] # t[n]
    BY <1>1, <1>4 DEF Range
  <2>2. \A m \in 1..(Len(s) + Len(t)) :
          \/ m \in 1..Len(s) /\ (s \o t)[m] = s[m]
          \/ m - Len(s) \in 1..Len(t) /\ m > Len(s) /\ (s \o t)[m] = t[m - Len(s)]
    BY <1>1, <1>2
  <2>3. /\ \A m, n \in 1..Len(s) : s[m] = s[n] => m = n
        /\ \A m, n \in 1..Len(t) : t[m] = t[n] => m = n
    BY <1>1, <1>4 DEF IsInjective
  <2>4. CASE i \in 1..Len(s) /\ j \in 1..Len(s)
    BY <1>2, <1>4, <2>3, <2>4
  <2>5. CASE i \notin 1..Len(s) /\ j \notin 1..Len(s)
    BY <1>1, <1>4, <2>2, <2>3, <2>5
  <2>6. CASE (i \in 1..Len(s)) # (j \in 1..Len(s))
    BY <1>1, <1>4, <2>1, <2>2, <2>6
  <2> QED BY <2>4, <2>5, <2>6
<1> QED BY <1>1, <1>3, <1>4 DEF IsInjective, Joined

\* The end of a queue, without its m oldest.
LEMMA QueueSuffix ==
  ASSUME NEW S, NEW s \in Seq(S), NEW m \in 0..Len(s)
  PROVE  /\ SubSeq(s, m + 1, Len(s)) \in Seq(S)
         /\ Len(SubSeq(s, m + 1, Len(s))) = Len(s) - m
         /\ Range(SubSeq(s, m + 1, Len(s))) \subseteq Range(s)
         /\ IsInjective(s) => IsInjective(SubSeq(s, m + 1, Len(s)))
<1> DEFINE t == SubSeq(s, m + 1, Len(s))
<1>1. /\ t \in Seq(S) /\ Len(t) = Len(s) - m /\ Len(s) \in Nat /\ DOMAIN s = 1..Len(s)
      /\ DOMAIN t = 1..(Len(s) - m)
  BY SubSeqProperties
<1>2. ASSUME NEW i \in 1..(Len(s) - m) PROVE t[i] = s[m + i] /\ m + i \in 1..Len(s)
  <2>1. \A j \in (m + 1)..Len(s) : s[j] \in S
    OBVIOUS
  <2>2. Len(s) \in Nat /\ m \in Nat /\ i \in Nat /\ 1 <= i /\ i <= Len(s) - m
    OBVIOUS
  <2>3. i \in 1..(Len(s) - (m + 1) + 1) /\ m + 1 + i - 1 = m + i /\ m + i \in 1..Len(s)
    BY <2>2
  <2>4. t[i] = s[m + 1 + i - 1]
    BY <2>1, <2>2, <2>3, SubSeqProperties
  <2> QED BY <2>3, <2>4
<1> HIDE DEF t
<1>3. Range(t) \subseteq Range(s)
  BY <1>1, <1>2 DEF Range
<1>4. ASSUME IsInjective(s) PROVE IsInjective(t)
  <2>1. \A i, j \in 1..Len(s) : s[i] = s[j] => i = j
    BY <1>1, <1>4 DEF IsInjective
  <2>2. ASSUME NEW i \in 1..(Len(s) - m), NEW j \in 1..(Len(s) - m), t[i] = t[j]
        PROVE  i = j
    <3>1. m + i = m + j
      BY <1>1, <1>2, <2>1, <2>2
    <3> QED BY <3>1
  <2> QED BY <1>1, <2>2 DEF IsInjective
<1> QED BY <1>1, <1>3, <1>4 DEF t

\* One element taken out of a queue.
LEMMA QueueCut ==
  ASSUME NEW S, NEW s \in Seq(S), NEW n \in 1..Len(s)
  PROVE  /\ RemoveAt(s, n) \in Seq(S) /\ Len(RemoveAt(s, n)) = Len(s) - 1
         /\ Range(s) = Range(RemoveAt(s, n)) \cup {s[n]}
         /\ IsInjective(s) => /\ IsInjective(RemoveAt(s, n))
                              /\ s[n] \notin Range(RemoveAt(s, n))
<1> DEFINE t == RemoveAt(s, n)
           a == SubSeq(s, 1, n - 1)
           b == SubSeq(s, n + 1, Len(s))
<1>1. /\ a \in Seq(S) /\ Len(a) = n - 1 /\ \A i \in 1..(n - 1) : a[i] = s[i]
      /\ Len(s) \in Nat /\ DOMAIN s = 1..Len(s)
  BY SubSeqProperties
<1>2. /\ b \in Seq(S) /\ Len(b) = Len(s) - n
      /\ \A i \in 1..(Len(s) - n) : b[i] = s[n + i]
  BY SubSeqProperties
<1>3. t = a \o b
  BY DEF RemoveAt
<1> HIDE DEF t, a, b
<1>4. t \in Seq(S) /\ Len(t) = Len(s) - 1 /\ DOMAIN t = 1..(Len(s) - 1)
  <2>1. t \in Seq(S) /\ Len(t) = Len(a) + Len(b)
    BY <1>1, <1>2, <1>3, ConcatProperties
  <2>2. Len(t) = Len(s) - 1
    BY <1>1, <1>2, <2>1
  <2> QED BY <2>1, <2>2, LenProperties
<1>5. \A i \in 1..(Len(s) - 1) : t[i] = IF i < n THEN s[i] ELSE s[i + 1]
  <2> SUFFICES ASSUME NEW i \in 1..(Len(s) - 1)
               PROVE  t[i] = IF i < n THEN s[i] ELSE s[i + 1]
    OBVIOUS
  <2>1. t[i] = IF i <= n - 1 THEN a[i] ELSE b[i - (n - 1)]
    BY <1>1, <1>2, <1>3
  <2>2. CASE i < n
    BY <1>1, <2>1, <2>2
  <2>3. CASE ~(i < n)
    <3>1. i - (n - 1) \in 1..(Len(s) - n) /\ n + (i - (n - 1)) = i + 1
      BY <1>1, <2>3
    <3> QED BY <1>1, <1>2, <2>1, <2>3, <3>1
  <2> QED BY <2>2, <2>3
<1>6. Range(t) \cup {s[n]} \subseteq Range(s)
  <2>1. ASSUME NEW i \in 1..(Len(s) - 1) PROVE \E j \in 1..Len(s) : t[i] = s[j]
    <3>1. i \in 1..Len(s) /\ i + 1 \in 1..Len(s)
      BY <1>1
    <3> QED BY <1>5, <3>1
  <2> QED BY <1>1, <1>4, <2>1 DEF Range
<1>7. ASSUME NEW k \in Range(s), k # s[n] PROVE k \in Range(t)
  <2>1. PICK i \in 1..Len(s) : s[i] = k /\ i # n
    BY <1>1, <1>7 DEF Range
  <2>2. CASE i < n
    <3>1. i \in DOMAIN t /\ t[i] = k
      BY <1>1, <1>4, <1>5, <2>1, <2>2
    <3> QED BY <3>1 DEF Range
  <2>3. CASE i > n
    <3>1. i - 1 \in DOMAIN t /\ t[i - 1] = k
      BY <1>1, <1>4, <1>5, <2>1, <2>3
    <3> QED BY <3>1 DEF Range
  <2> QED BY <1>1, <2>1, <2>2, <2>3
<1>8. ASSUME IsInjective(s) PROVE IsInjective(t) /\ s[n] \notin Range(t)
  <2>1. \A i, j \in 1..Len(s) : s[i] = s[j] => i = j
    BY <1>1, <1>8 DEF IsInjective
  <2>2. ASSUME NEW i \in 1..(Len(s) - 1), NEW j \in 1..(Len(s) - 1), t[i] = t[j]
        PROVE  i = j
    BY <1>1, <1>5, <2>1, <2>2
  <2>3. ASSUME NEW i \in 1..(Len(s) - 1) PROVE t[i] # s[n]
    BY <1>1, <1>5, <2>1
  <2> QED BY <1>4, <2>2, <2>3 DEF IsInjective, Range
<1> QED BY <1>4, <1>6, <1>7, <1>8 DEF t

\* A queue cut at its v-th element, the front put behind the rest.
Rotated(S, s, v, t) ==
  /\ t \in Seq(S) /\ IsInjective(t) /\ Len(t) = Len(s) - 1
  /\ Range(t) = Range(s) \ {s[v]}
  /\ Range(SubSeq(s, 1, v - 1)) = {s[i] : i \in 1..(v - 1)}

LEMMA QueueRotate ==
  ASSUME NEW S, NEW s \in Seq(S), IsInjective(s), NEW v \in 1..Len(s)
  PROVE  Rotated(S, s, v, SubSeq(s, v + 1, Len(s)) \o SubSeq(s, 1, v - 1))
<1> DEFINE t == SubSeq(s, v + 1, Len(s)) \o SubSeq(s, 1, v - 1)
<1> DEFINE a == SubSeq(s, 1, v - 1)
           b == SubSeq(s, v + 1, Len(s))
<1>1. /\ Len(s) \in Nat /\ DOMAIN s = 1..Len(s)
      /\ \A i, j \in 1..Len(s) : s[i] = s[j] => i = j
  BY DEF IsInjective
<1>2. /\ a \in Seq(S) /\ Len(a) = v - 1 /\ DOMAIN a = 1..(v - 1)
      /\ \A i \in 1..(v - 1) : a[i] = s[i] /\ i \in 1..Len(s) /\ i < v
  BY <1>1, SubSeqProperties
<1>3. /\ b \in Seq(S) /\ Len(b) = Len(s) - v /\ DOMAIN b = 1..(Len(s) - v)
      /\ \A i \in 1..(Len(s) - v) : b[i] = s[v + i] /\ v + i \in 1..Len(s) /\ v + i > v
  <2>1. \A j \in (v + 1)..Len(s) : s[j] \in S
    BY <1>1
  <2>2. b \in Seq(S) /\ Len(b) = Len(s) - v
    <3>1. v + 1 \in Int /\ Len(s) \in Int
      BY <1>1
    <3>2. b \in Seq(S) /\ Len(b) = IF v + 1 <= Len(s) THEN Len(s) - (v + 1) + 1 ELSE 0
      BY <2>1, <3>1, SubSeqProperties
    <3>3. Len(s) \in Nat /\ v \in Nat /\ v <= Len(s)
      OBVIOUS
    <3>4. (IF v + 1 <= Len(s) THEN Len(s) - (v + 1) + 1 ELSE 0) = Len(s) - v
      BY <3>3
    <3> QED BY <3>2, <3>4
  <2>3. DOMAIN b = 1..(Len(s) - v)
    BY <2>2
  <2>4. ASSUME NEW i \in 1..(Len(s) - v)
        PROVE  b[i] = s[v + i] /\ v + i \in 1..Len(s) /\ v + i > v
    <3>1. /\ i \in 1..(Len(s) - (v + 1) + 1) /\ v + 1 + i - 1 = v + i
          /\ v + i \in 1..Len(s) /\ v + i > v
      BY <1>1
    <3>2. b[i] = s[v + 1 + i - 1]
      BY <1>1, <2>1, <3>1, SubSeqProperties
    <3> QED BY <3>1, <3>2
  <2> QED BY <2>2, <2>3, <2>4
<1>4. t = b \o a
  OBVIOUS
<1> HIDE DEF a, b, t
<1>5. Range(a) = {s[i] : i \in 1..(v - 1)}
  BY <1>2 DEF Range
<1>6. Range(b) = {s[i] : i \in (v + 1)..Len(s)}
  <2>1. ASSUME NEW i \in (v + 1)..Len(s) PROVE i - v \in 1..(Len(s) - v) /\ b[i - v] = s[i]
    BY <1>1, <1>3
  <2>2. ASSUME NEW i \in 1..(Len(s) - v) PROVE v + i \in (v + 1)..Len(s)
    BY <1>1
  <2>3. Range(b) = {b[i] : i \in 1..(Len(s) - v)}
    BY <1>3 DEF Range
  <2>4. \A i \in 1..(Len(s) - v) : b[i] \in {s[j] : j \in (v + 1)..Len(s)}
    BY <1>3, <2>2
  <2>5. \A i \in (v + 1)..Len(s) : s[i] \in {b[j] : j \in 1..(Len(s) - v)}
    BY <2>1
  <2> QED BY <2>3, <2>4, <2>5
<1>7. IsInjective(a)
  BY <1>1, <1>2 DEF IsInjective
<1>8. IsInjective(b)
  <2>1. ASSUME NEW i \in 1..(Len(s) - v), NEW j \in 1..(Len(s) - v), b[i] = b[j]
        PROVE  i = j
    <3>1. v + i = v + j
      BY <1>1, <1>3, <2>1
    <3> QED BY <3>1
  <2> QED BY <1>3, <2>1 DEF IsInjective
<1>9. Range(a) \cap Range(b) = {}
  <2>1. ASSUME NEW i \in 1..(v - 1), NEW j \in (v + 1)..Len(s) PROVE s[i] # s[j]
    BY <1>1
  <2> QED BY <1>5, <1>6, <2>1
<1>10. Range(a) \cup Range(b) = Range(s) \ {s[v]}
  <2>1. ASSUME NEW i \in 1..Len(s), i # v
        PROVE  i \in 1..(v - 1) \/ i \in (v + 1)..Len(s)
    BY <1>1, <2>1
  <2>2. ASSUME NEW i \in 1..(v - 1) PROVE i \in 1..Len(s) /\ s[i] # s[v]
    BY <1>1
  <2>3. ASSUME NEW i \in (v + 1)..Len(s) PROVE i \in 1..Len(s) /\ s[i] # s[v]
    BY <1>1
  <2>4. Range(s) = {s[i] : i \in 1..Len(s)}
    BY <1>1 DEF Range
  <2>5. \A x \in Range(a) \cup Range(b) : x \in Range(s) \ {s[v]}
    BY <1>5, <1>6, <2>2, <2>3, <2>4
  <2>6. \A x \in Range(s) \ {s[v]} : x \in Range(a) \cup Range(b)
    BY <1>5, <1>6, <2>1, <2>4
  <2> QED BY <2>5, <2>6
<1>11. Joined(S, b, a)
  BY <1>2, <1>3, QueueConcat
<1>12. b \o a \in Seq(S) /\ IsInjective(b \o a) /\ Len(b \o a) = Len(b) + Len(a)
  BY <1>7, <1>8, <1>9, <1>11 DEF Joined
<1>13. Range(b \o a) = Range(s) \ {s[v]}
  BY <1>10, <1>11 DEF Joined
<1>14. Len(b) + Len(a) = Len(s) - 1
  BY <1>1, <1>2, <1>3
<1>15. /\ t \in Seq(S) /\ IsInjective(t) /\ Len(t) = Len(s) - 1
       /\ Range(t) = Range(s) \ {s[v]}
  BY <1>4, <1>12, <1>13, <1>14, Zenon
<1>16. Rotated(S, s, v, t)
  BY <1>5, <1>15 DEF a, Rotated
<1> QED BY <1>16 DEF t

\* OrderedDict.pop: exactly the key is gone.
LEMMA QueueRemoveFirst ==
  ASSUME NEW S, NEW s \in Seq(S), IsInjective(s), NEW k
  PROVE  /\ RemoveFirst(s, k) \in Seq(S) /\ IsInjective(RemoveFirst(s, k))
         /\ Range(RemoveFirst(s, k)) = Range(s) \ {k}
         /\ k \in Range(s) => Len(RemoveFirst(s, k)) = Len(s) - 1
         /\ k \notin Range(s) => RemoveFirst(s, k) = s
<1>1. Len(s) \in Nat /\ DOMAIN s = 1..Len(s)
  OBVIOUS
<1>2. CASE k \in Range(s)
  <2> DEFINE I == {i \in 1..Len(s) : s[i] = k}
  <2>1. PICK n \in 1..Len(s) : s[n] = k
    BY <1>1, <1>2 DEF Range
  <2>2. I = {n}
    BY <1>1, <2>1 DEF IsInjective
  <2>3. Min(I) = n
    BY <2>2 DEF Min
  <2>4. SelectInSeq(s, LAMBDA v : v = k) = n
    BY <2>2, <2>3 DEF SelectInSeq
  <2>5. RemoveFirst(s, k) = RemoveAt(s, n)
    BY <2>1, <2>4 DEF RemoveFirst
  <2>6. /\ RemoveAt(s, n) \in Seq(S) /\ Len(RemoveAt(s, n)) = Len(s) - 1
        /\ Range(s) = Range(RemoveAt(s, n)) \cup {s[n]}
        /\ IsInjective(RemoveAt(s, n)) /\ s[n] \notin Range(RemoveAt(s, n))
    BY <2>1, QueueCut
  <2>7. Range(RemoveAt(s, n)) = Range(s) \ {k}
    BY <2>1, <2>6
  <2> QED BY <1>2, <2>5, <2>6, <2>7
<1>3. CASE k \notin Range(s)
  <2>1. RemoveFirst(s, k) = s
    BY <1>1, <1>3 DEF RemoveFirst, Range
  <2> QED BY <1>1, <1>3, <2>1
<1> QED BY <1>2, <1>3

----------------------------------------------------------------------------
(* Loops: what holds before the first turn and is kept by every turn holds   *)
(* after the last, and a loop over n turns has a result.                     *)

\* A non-empty set of numbers has a least member.
LEMMA LeastNumber ==
  ASSUME NEW S \in SUBSET Nat, S # {}
  PROVE  \E n \in S : \A m \in S : n <= m
<1>1. PICK n \in S : \A m \in S : ~(<<m, n>> \in OpToRel(<, Nat))
  BY NatLessThanWellFounded, WFMin
<1>2. \A m \in S : ~(m < n)
  BY <1>1 DEF OpToRel
<1> QED BY <1>2

LEMMA Upwards ==
  ASSUME NEW n \in Nat, NEW T \in SUBSET (0..n), 0 \in T,
         \A i \in 1..n : i - 1 \in T => i \in T
  PROVE  \A i \in 0..n : i \in T
<1> SUFFICES ASSUME NEW x \in 0..n, x \notin T PROVE FALSE
  OBVIOUS
<1> DEFINE missed == {i \in 0..n : i \notin T}
<1>1. missed \in SUBSET Nat /\ missed # {}
  OBVIOUS
<1>2. PICK i \in missed : \A m \in missed : i <= m
  <2> HIDE DEF missed
  <2> QED BY <1>1, LeastNumber
<1>3. i \in 1..n /\ i \notin T
  <2>1. i \in 0..n /\ i \notin T
    BY <1>2
  <2> QED BY <2>1
<1>4. i - 1 \in T
  <2>1. i - 1 \in 0..n /\ ~(i <= i - 1)
    BY <1>3
  <2> QED BY <1>2, <2>1
<1> QED BY <1>3, <1>4

\* The values before the first and after every turn of a loop.
IsLoop(turns, n, X) == turns \in [(1..n) \X X -> X]
IsRun(g, turns, n, X, base) ==
  g \in [0..n -> X] /\ g[0] = base /\ \A i \in 1..n : g[i] = turns[<<i, g[i - 1]>>]

LEMMA LoopResult ==
  ASSUME NEW n \in Nat, NEW X, NEW base \in X, NEW turns, IsLoop(turns, n, X)
  PROVE  \E g : IsRun(g, turns, n, X, base)
<1> USE DEF IsLoop
<1> DEFINE Run(g, m) ==
             g \in [0..m -> X] /\ g[0] = base /\ \A i \in 1..m : g[i] = turns[<<i, g[i - 1]>>]
           T == {m \in 0..n : \E g : Run(g, m)}
<1>1. 0 \in T
  <2> DEFINE z == [i \in 0..0 |-> base]
  <2>1. Run(z, 0)
    OBVIOUS
  <2> HIDE DEF z
  <2> QED BY <2>1
<1>2. ASSUME NEW m \in 1..n, m - 1 \in T PROVE m \in T
  <2>1. PICK g : Run(g, m - 1)
    BY <1>2
  <2> DEFINE h == [i \in 0..m |-> IF i = m THEN turns[<<m, g[m - 1]>>] ELSE g[i]]
  <2>2. g[m - 1] \in X /\ turns[<<m, g[m - 1]>>] \in X
    BY <1>2, <2>1
  <2>3. \A i \in 0..(m - 1) : h[i] = g[i] /\ g[i] \in X
    BY <2>1
  <2>4. h \in [0..m -> X]
    <3>1. ASSUME NEW i \in 0..m PROVE h[i] \in X
      <4>1. i = m \/ i \in 0..(m - 1)
        OBVIOUS
      <4> QED BY <2>2, <2>3, <4>1
    <3> QED BY <3>1
  <2>5. h[0] = base /\ h[m] = turns[<<m, h[m - 1]>>]
    <3>1. 0 \in 0..(m - 1) /\ m - 1 \in 0..(m - 1) /\ m \in 0..m
      OBVIOUS
    <3>2. h[m] = turns[<<m, g[m - 1]>>]
      BY <3>1
    <3> QED BY <2>1, <2>3, <3>1, <3>2
  <2>6. \A i \in 1..m : h[i] = turns[<<i, h[i - 1]>>]
    <3> SUFFICES ASSUME NEW i \in 1..m PROVE h[i] = turns[<<i, h[i - 1]>>]
      OBVIOUS
    <3>1. CASE i = m
      BY <2>5, <3>1
    <3>2. CASE i # m
      <4>1. i \in 1..(m - 1) /\ i \in 0..(m - 1) /\ i - 1 \in 0..(m - 1)
        BY <3>2
      <4> HIDE DEF h
      <4> QED BY <2>1, <2>3, <4>1
    <3> QED BY <3>1, <3>2
  <2> HIDE DEF h
  <2>7. Run(h, m)
    BY <2>4, <2>5, <2>6
  <2> QED BY <2>7
<1>3. n \in T
  <2>1. T \in SUBSET (0..n)
    OBVIOUS
  <2> HIDE DEF T
  <2> QED BY <1>1, <1>2, <2>1, Upwards
<1> QED BY <1>3 DEF IsRun

----------------------------------------------------------------------------
(* What a policy is between two calls of it.                                 *)

Policies ==
  [name : PolicyNames, capacity : Nat \ {0}, store : Seq(Key), main : Seq(Key),
   ghost : Seq(Key), mark : [Key -> Nat], cursor : Key \cup {NoKey}]

IsS3(p) == p.name \in S3Family
StoreCap(p) == IF IsS3(p) THEN SmallCap(p) ELSE p.capacity
RestCap(p) == IF IsS3(p) THEN MainCap(p) ELSE 0

\* The queues.
Shape(p) ==
  /\ p \in Policies
  /\ IsInjective(p.store) /\ IsInjective(p.main) /\ IsInjective(p.ghost)
  /\ Range(p.store) \cap Range(p.main) = {}
  /\ Range(p.ghost) \cap Resident(p) = {}
  /\ Len(p.store) <= StoreCap(p) /\ Len(p.main) <= RestCap(p)
  /\ Len(p.ghost) <= GhostCap(p)
  /\ ~IsS3(p) => p.ghost = <<>>

\* What is noted about keys that are neither held nor in X.
Unmarked(p, X) == \A k \in Key : k \notin Resident(p) /\ k \notin X => p.mark[k] = 0

Sound(p) == Shape(p) /\ Unmarked(p, {})

LEMMA CapacityFacts ==
  ASSUME NEW p \in Policies
  PROVE  /\ p.capacity \in Nat \ {0}
         /\ SmallCap(p) \in Nat /\ SmallCap(p) >= 1
         /\ MainCap(p) \in Nat /\ SmallCap(p) + MainCap(p) = p.capacity
         /\ GhostCap(p) \in Nat /\ GhostCap(p) >= 1
         /\ StoreCap(p) \in Nat /\ StoreCap(p) >= 1 /\ RestCap(p) \in Nat
         /\ StoreCap(p) + RestCap(p) = p.capacity
<1>1. p.capacity \in Nat \ {0}
  BY DEF Policies
<1>2. /\ p.capacity \div 10 \in Nat /\ p.capacity \div 10 <= p.capacity
      /\ 2 * p.capacity \in Nat /\ 2 * p.capacity >= 1
  BY <1>1
<1>3. /\ SmallCap(p) \in Nat /\ SmallCap(p) >= 1 /\ SmallCap(p) <= p.capacity
  BY <1>1, <1>2 DEF SmallCap, AtLeast
<1>4. MainCap(p) \in Nat /\ SmallCap(p) + MainCap(p) = p.capacity
  BY <1>1, <1>3 DEF MainCap
<1> QED BY <1>1, <1>2, <1>3, <1>4 DEF GhostCap, StoreCap, RestCap

LEMMA FieldFacts ==
  ASSUME NEW p \in Policies
  PROVE  /\ p.name \in PolicyNames /\ p.capacity \in Nat \ {0}
         /\ p.store \in Seq(Key) /\ p.main \in Seq(Key) /\ p.ghost \in Seq(Key)
         /\ p.mark \in [Key -> Nat] /\ p.cursor \in Key \cup {NoKey}
         /\ Len(p.store) \in Nat /\ Len(p.main) \in Nat /\ Len(p.ghost) \in Nat
         /\ Range(p.store) \subseteq Key /\ Range(p.main) \subseteq Key
         /\ Range(p.ghost) \subseteq Key /\ Resident(p) \subseteq Key
<1>1. /\ p.name \in PolicyNames /\ p.capacity \in Nat \ {0}
      /\ p.store \in Seq(Key) /\ p.main \in Seq(Key) /\ p.ghost \in Seq(Key)
      /\ p.mark \in [Key -> Nat] /\ p.cursor \in Key \cup {NoKey}
  BY DEF Policies
<1> QED BY <1>1, SeqFacts DEF Resident

\* A sound policy is what WellFormed asks for.
LEMMA SoundIsWellFormed ==
  ASSUME NEW p, Sound(p)
  PROVE  WellFormed(p)
<1> USE DEF Sound, Shape
<1>1. /\ p.store \in Seq(Key) /\ p.main \in Seq(Key)
      /\ Len(p.store) \in Nat /\ Len(p.main) \in Nat
  BY FieldFacts
<1>2. Joined(Key, p.store, p.main)
  BY <1>1, QueueConcat
<1>3. IsInjective(p.store \o p.main)
  BY <1>2 DEF Joined
<1>4. Len(p.store) + Len(p.main) <= p.capacity
  <2>1. /\ StoreCap(p) \in Nat /\ RestCap(p) \in Nat /\ StoreCap(p) + RestCap(p) = p.capacity
        /\ Len(p.store) <= StoreCap(p) /\ Len(p.main) <= RestCap(p)
    BY CapacityFacts
  <2> DEFINE a == Len(p.store)
             b == Len(p.main)
             n == p.capacity
  <2>2. a \in Nat /\ b \in Nat /\ StoreCap(p) + RestCap(p) = n /\ a <= StoreCap(p) /\ b <= RestCap(p)
    BY <1>1, <2>1
  <2> HIDE DEF Sound, Shape, a, b, n
  <2>3. a + b <= n
    BY <2>1, <2>2
  <2> QED BY <2>3 DEF a, b, n
<1>5. p.name \in S3Family => Len(p.store) <= SmallCap(p) /\ Len(p.main) <= MainCap(p)
  BY DEF StoreCap, RestCap, IsS3
<1> QED BY <1>3, <1>4, <1>5 DEF WellFormed, Unmarked

LEMMA NewPolicy ==
  ASSUME NEW name \in PolicyNames, NEW n \in Nat \ {0}
  PROVE  /\ Sound(make_policy(name, n)) /\ Resident(make_policy(name, n)) = {}
         /\ make_policy(name, n).name = name /\ make_policy(name, n).capacity = n
<1> DEFINE p == make_policy(name, n)
<1>1. /\ p.name = name /\ p.capacity = n /\ p.store = <<>> /\ p.main = <<>>
      /\ p.ghost = <<>> /\ p.mark = [k \in Key |-> 0]
  BY DEF make_policy
<1>2. p \in Policies
  <2>1. <<>> \in Seq(Key)
    BY EmptySeq
  <2> QED BY <2>1 DEF make_policy, Policies
<1> HIDE DEF p
<1>3. Resident(p) = {}
  BY <1>1, EmptyQueue DEF Resident
<1>4. Shape(p)
  BY <1>1, <1>2, <1>3, EmptyQueue, CapacityFacts DEF Shape
<1>5. Unmarked(p, {})
  BY <1>1 DEF Unmarked
<1> QED BY <1>1, <1>3, <1>4, <1>5 DEF p, Sound

----------------------------------------------------------------------------
(* Admissions.  A policy that is given a block it does not hold takes it in  *)
(* and lets go of at most one block, perhaps that block itself.              *)

Admitted(p, k, r) ==
  /\ Sound(r.policy) /\ r.policy.name = p.name /\ r.policy.capacity = p.capacity
  /\ \/ /\ r.victim = NoKey
        /\ Resident(r.policy) = Resident(p) \cup {k}
     \/ /\ r.victim \in Resident(p) \cup {k}
        /\ Resident(r.policy) = (Resident(p) \cup {k}) \ {r.victim}

LEMMA SameCaps ==
  ASSUME NEW p, NEW q, q.name = p.name, q.capacity = p.capacity
  PROVE  /\ StoreCap(q) = StoreCap(p) /\ RestCap(q) = RestCap(p)
         /\ GhostCap(q) = GhostCap(p) /\ SmallCap(q) = SmallCap(p)
         /\ MainCap(q) = MainCap(p) /\ (IsS3(q) <=> IsS3(p))
<1>1. SmallCap(q) = SmallCap(p) /\ GhostCap(q) = GhostCap(p)
  BY DEF SmallCap, GhostCap
<1>2. MainCap(q) = MainCap(p)
  BY <1>1 DEF MainCap
<1> QED BY <1>1, <1>2 DEF StoreCap, RestCap, IsS3

\* What is noted about the victim is forgotten.
LEMMA EvictedSound ==
  ASSUME NEW q, Shape(q), NEW v \in Key, Unmarked(q, {v})
  PROVE  /\ Sound(Evicted(q, v).policy) /\ Evicted(q, v).victim = v
         /\ Resident(Evicted(q, v).policy) = Resident(q)
         /\ Evicted(q, v).policy.name = q.name
         /\ Evicted(q, v).policy.capacity = q.capacity
         /\ Evicted(q, v).policy.store = q.store
         /\ Evicted(q, v).policy.main = q.main
<1> DEFINE r == Evicted(q, v).policy
<1>1. q \in Policies
  BY DEF Shape
<1>2. /\ r \in Policies /\ r.name = q.name /\ r.capacity = q.capacity
      /\ r.store = q.store /\ r.main = q.main /\ r.ghost = q.ghost
      /\ r.mark = [q.mark EXCEPT ![v] = 0] /\ Evicted(q, v).victim = v
  BY <1>1 DEF Policies, Evicted
<1>3. q.mark \in [Key -> Nat]
  BY <1>1, FieldFacts
<1> HIDE DEF r
<1>4. Resident(r) = Resident(q)
  BY <1>2 DEF Resident
<1>5. Shape(r)
  <2>1. /\ StoreCap(r) = StoreCap(q) /\ RestCap(r) = RestCap(q)
        /\ GhostCap(r) = GhostCap(q) /\ (IsS3(r) <=> IsS3(q))
    BY <1>2, SameCaps
  <2> QED BY <1>2, <1>4, <2>1 DEF Shape
<1>6. Unmarked(r, {})
  BY <1>2, <1>3, <1>4 DEF Unmarked
<1> QED BY <1>2, <1>4, <1>5, <1>6 DEF r, Sound

LEMMA KeptFacts == ASSUME NEW p PROVE Kept(p).policy = p /\ Kept(p).victim = NoKey
BY DEF Kept

\* LRU and SIEVE have one queue.
LEMMA OtherQueues ==
  ASSUME NEW p, Sound(p), ~IsS3(p)
  PROVE  p.main = <<>> /\ p.ghost = <<>> /\ p.capacity = StoreCap(p)
<1>1. p.main \in Seq(Key) /\ Len(p.main) <= 0
  BY FieldFacts DEF Sound, Shape, RestCap
<1>2. p.main = <<>>
  <2> DEFINE m == p.main
  <2>1. m \in Seq(Key) /\ Len(m) <= 0
    BY <1>1
  <2> HIDE DEF m
  <2>2. m = <<>>
    BY <2>1
  <2> QED BY <2>2 DEF m
<1> QED BY <1>2 DEF Sound, Shape, StoreCap

\* A policy of one queue with a block behind it.
LEMMA MovedToEnd ==
  ASSUME NEW p, Sound(p), ~IsS3(p), NEW k \in Key
  PROVE  /\ MoveToEnd(p.store, k) \in Seq(Key) /\ IsInjective(MoveToEnd(p.store, k))
         /\ Range(MoveToEnd(p.store, k)) = Range(p.store) \cup {k}
         /\ k \notin Range(p.store) => MoveToEnd(p.store, k) = Append(p.store, k)
         /\ k \notin Range(p.store) => Len(MoveToEnd(p.store, k)) = Len(p.store) + 1
         /\ k \in Range(p.store) => Len(MoveToEnd(p.store, k)) = Len(p.store)
         /\ p.main = <<>> /\ Range(p.main) = {} /\ Resident(p) = Range(p.store)
         /\ p.ghost = <<>> /\ p.capacity = StoreCap(p)
<1> DEFINE s == p.store
           rest == RemoveFirst(s, k)
<1>1. p \in Policies /\ s \in Seq(Key) /\ IsInjective(s) /\ Len(s) \in Nat
  BY FieldFacts DEF Sound, Shape
<1>2. p.main = <<>> /\ p.ghost = <<>> /\ p.capacity = StoreCap(p)
  BY OtherQueues
<1>3. Range(p.main) = {} /\ Resident(p) = Range(s)
  BY <1>2, EmptyQueue DEF Resident
<1> HIDE DEF s
<1>4. /\ rest \in Seq(Key) /\ IsInjective(rest) /\ Range(rest) = Range(s) \ {k}
      /\ k \in Range(s) => Len(rest) = Len(s) - 1
      /\ k \notin Range(s) => rest = s
  BY <1>1, QueueRemoveFirst
<1>5. MoveToEnd(s, k) = Append(rest, k)
  BY DEF MoveToEnd
<1> HIDE DEF rest
<1>6. /\ Append(rest, k) \in Seq(Key) /\ Len(Append(rest, k)) = Len(rest) + 1
      /\ Range(Append(rest, k)) = Range(rest) \cup {k} /\ IsInjective(Append(rest, k))
  BY <1>4, QueueAppend
<1>7. k \in Range(s) => Len(rest) + 1 = Len(s)
  BY <1>1, <1>4
<1> QED BY <1>2, <1>3, <1>4, <1>5, <1>6, <1>7 DEF s

\* Such a policy with another queue.
LEMMA OneQueue ==
  ASSUME NEW p, Sound(p), ~IsS3(p), NEW q \in Policies,
         q.name = p.name, q.capacity = p.capacity, q.main = p.main, q.ghost = p.ghost,
         IsInjective(q.store), Len(q.store) <= p.capacity
  PROVE  Shape(q) /\ Resident(q) = Range(q.store) /\ ~IsS3(q)
<1>1. p.main = <<>> /\ p.ghost = <<>> /\ p.capacity = StoreCap(p)
  BY OtherQueues
<1>2. /\ StoreCap(q) = StoreCap(p) /\ RestCap(q) = RestCap(p)
      /\ GhostCap(q) = GhostCap(p) /\ (IsS3(q) <=> IsS3(p))
  BY SameCaps
<1>3. Range(q.ghost) = {} /\ Range(q.main) = {} /\ IsInjective(q.main) /\ IsInjective(q.ghost)
  BY <1>1, EmptyQueue
<1>4. Resident(q) = Range(q.store)
  BY <1>3 DEF Resident
<1>5. Len(q.main) <= RestCap(q) /\ Len(q.ghost) <= GhostCap(q)
  BY <1>1, <1>2 DEF Sound, Shape
<1> QED BY <1>1, <1>2, <1>3, <1>4, <1>5 DEF Shape

\* LRU lets go of the block used least recently, and only when it is full.
LEMMA LruAdmitted ==
  ASSUME NEW p, Sound(p), ~IsS3(p), NEW k \in Key, k \notin Resident(p)
  PROVE  /\ Admitted(p, k, LruAdmit(p, k))
         /\ \/ /\ Len(p.store) < p.capacity /\ LruAdmit(p, k).victim = NoKey
               /\ LruAdmit(p, k).policy.store = Append(p.store, k)
            \/ /\ Len(p.store) = p.capacity /\ p.store # <<>>
               /\ LruAdmit(p, k).victim = Head(p.store)
               /\ LruAdmit(p, k).policy.store = Append(Tail(p.store), k)
<1> DEFINE order == MoveToEnd(p.store, k)
           n == p.capacity
           s == p.store
<1>1. /\ p \in Policies /\ s \in Seq(Key) /\ IsInjective(s) /\ Len(s) \in Nat
      /\ n \in Nat \ {0} /\ Len(s) <= n /\ Unmarked(p, {}) /\ p.mark \in [Key -> Nat]
  BY FieldFacts, MovedToEnd DEF Sound, Shape
<1>2. /\ order \in Seq(Key) /\ IsInjective(order) /\ Range(order) = Range(s) \cup {k}
      /\ order = Append(s, k) /\ Len(order) = Len(s) + 1
      /\ p.main = <<>> /\ Range(p.main) = {} /\ Resident(p) = Range(s)
      /\ p.ghost = <<>> /\ n = StoreCap(p)
  BY MovedToEnd
<1>3. /\ LruAdmit(p, k) = IF Len(order) <= n
                            THEN Kept([p EXCEPT !.store = order])
                            ELSE Evicted([p EXCEPT !.store = Tail(order)], Head(order))
  BY DEF LruAdmit
<1>4. ASSUME NEW t \in Seq(Key), IsInjective(t), Len(t) <= n,
             NEW q, q = [p EXCEPT !.store = t]
      PROVE  /\ Shape(q) /\ Resident(q) = Range(t) /\ q.name = p.name
             /\ q.capacity = n /\ q.store = t /\ q.mark = p.mark
  <2>1. /\ q \in Policies /\ q.name = p.name /\ q.capacity = p.capacity /\ q.store = t
        /\ q.main = p.main /\ q.ghost = p.ghost /\ q.mark = p.mark
    BY <1>1, <1>4 DEF Policies
  <2> QED BY <1>4, <2>1, OneQueue
<1>5. CASE Len(s) < n
  <2> DEFINE q == [p EXCEPT !.store = order]
  <2> HIDE DEF order, n, s
  <2>1. Len(order) <= n
    BY <1>1, <1>2, <1>5
  <2>2. /\ Shape(q) /\ Resident(q) = Range(order) /\ q.name = p.name
        /\ q.capacity = n /\ q.store = order /\ q.mark = p.mark
    BY <1>2, <1>4, <2>1
  <2>3. LruAdmit(p, k) = Kept(q)
    BY <1>3, <2>1
  <2> HIDE DEF q
  <2>4. LruAdmit(p, k).policy = q /\ LruAdmit(p, k).victim = NoKey
    BY <2>3, KeptFacts
  <2>5. Resident(q) = Resident(p) \cup {k}
    BY <1>2, <2>2
  <2>6. Sound(q)
    BY <1>1, <2>2, <2>5 DEF Sound, Unmarked
  <2> QED BY <1>2, <1>5, <2>2, <2>4, <2>5, <2>6 DEF Admitted, n, s
<1>6. CASE ~(Len(s) < n)
  <2> DEFINE t == Tail(order)
             v == Head(order)
             q == [p EXCEPT !.store = t]
  <2> HIDE DEF order, n, s
  <2>1. ~(Len(order) <= n) /\ Len(s) = n /\ s # <<>> /\ order # <<>>
    BY <1>1, <1>2, <1>6
  <2>2. v = Head(s) /\ t = Append(Tail(s), k)
    BY <1>1, <1>2, <2>1, HeadTailAppend
  <2>3. /\ t \in Seq(Key) /\ Len(t) = Len(order) - 1 /\ IsInjective(t) /\ v \in Key
        /\ Range(order) = Range(t) \cup {v} /\ v \notin Range(t)
    BY <1>2, <2>1, QueueTail
  <2>4. v \in Range(s)
    BY <1>1, <2>1, <2>2, QueueTail
  <2>5. LruAdmit(p, k) = Evicted(q, v)
    BY <1>3, <2>1
  <2> HIDE DEF t, v
  <2>6. Len(t) <= n
    BY <1>1, <1>2, <2>1, <2>3
  <2>7. /\ Shape(q) /\ Resident(q) = Range(t) /\ q.name = p.name
        /\ q.capacity = n /\ q.store = t /\ q.mark = p.mark
    BY <1>4, <2>3, <2>6
  <2> HIDE DEF q
  <2>8. Unmarked(q, {v})
    BY <1>1, <1>2, <2>3, <2>7 DEF Unmarked
  <2>9. /\ Sound(LruAdmit(p, k).policy) /\ LruAdmit(p, k).victim = v
        /\ Resident(LruAdmit(p, k).policy) = Resident(q)
        /\ LruAdmit(p, k).policy.name = p.name
        /\ LruAdmit(p, k).policy.capacity = n
        /\ LruAdmit(p, k).policy.store = t
    BY <2>3, <2>5, <2>7, <2>8, EvictedSound
  <2>10. Resident(q) = (Resident(p) \cup {k}) \ {v} /\ v \in Resident(p)
    BY <1>2, <2>3, <2>4, <2>7
  <2> QED BY <2>1, <2>2, <2>9, <2>10 DEF Admitted, n, s
<1> QED BY <1>5, <1>6

\* One of finitely many numbers is the greatest.
LEMMA Greatest ==
  ASSUME NEW n \in Nat \ {0}, NEW f, \A i \in 1..n : f[i] \in Nat
  PROVE  \E i \in 1..n : \A j \in 1..n : f[j] <= f[i]
<1> DEFINE Top(m) == \E i \in 1..(m + 1) : \A j \in 1..(m + 1) : f[j] <= f[i]
           T == {m \in 0..(n - 1) : Top(m)}
<1>1. 0 \in T
  <2>1. 1..(0 + 1) = {1} /\ 0 \in 0..(n - 1) /\ f[1] <= f[1]
    OBVIOUS
  <2>2. Top(0)
    BY <2>1
  <2> QED BY <2>1, <2>2
<1>2. ASSUME NEW m \in 1..(n - 1), m - 1 \in T PROVE m \in T
  <2>1. PICK i \in 1..m : \A j \in 1..m : f[j] <= f[i]
    BY <1>2
  <2>2. m + 1 \in 1..n /\ 1..(m + 1) = 1..m \cup {m + 1} /\ i \in 1..n /\ 1..m \subseteq 1..n
    OBVIOUS
  <2>3. f[m + 1] \in Nat /\ f[i] \in Nat /\ \A j \in 1..m : f[j] \in Nat
    BY <2>2
  <2>4. CASE f[m + 1] <= f[i]
    <3>1. Top(m)
      BY <2>1, <2>2, <2>4
    <3> QED BY <3>1
  <2>5. CASE ~(f[m + 1] <= f[i])
    <3>1. \A j \in 1..(m + 1) : f[j] <= f[m + 1]
      BY <2>1, <2>2, <2>3, <2>5
    <3>2. Top(m)
      BY <2>2, <3>1
    <3> QED BY <3>2
  <2> QED BY <2>4, <2>5
<1>3. n - 1 \in T
  <2>1. T \in SUBSET (0..(n - 1)) /\ n - 1 \in Nat /\ n - 1 \in 0..(n - 1)
    OBVIOUS
  <2> HIDE DEF T
  <2> QED BY <1>1, <1>2, <2>1, Upwards
<1>4. Top(n - 1) /\ n - 1 + 1 = n
  BY <1>3
<1> QED BY <1>4

\* The least member is a member.
LEMMA MinFacts ==
  ASSUME NEW S \in SUBSET Nat, S # {}
  PROVE  Min(S) \in S /\ \A m \in S : Min(S) <= m
BY LeastNumber DEF Min

\* The victim of prefix-aware LRU is one of its blocks.
LEMMA PrefixVictimHeld ==
  ASSUME NEW order \in Seq(Key), order # <<>>, NEW d \in [Key -> Nat]
  PROVE  PrefixVictim(order, d) \in Range(order)
<1> DEFINE oldest == {i \in DOMAIN order : i <= CandidateWindow}
           deepest == {i \in oldest : \A j \in oldest : d[order[j]] <= d[order[i]]}
           n == IF Len(order) <= CandidateWindow THEN Len(order) ELSE CandidateWindow
           f == [i \in 1..n |-> d[order[i]]]
<1>1. /\ Len(order) \in Nat \ {0} /\ DOMAIN order = 1..Len(order)
      /\ \A i \in 1..Len(order) : order[i] \in Key
  OBVIOUS
<1>2. oldest = 1..n /\ n \in Nat \ {0} /\ 1..n \subseteq 1..Len(order)
  BY <1>1, PolicyAssumption
<1> HIDE DEF oldest, n
<1>3. \A i \in 1..n : f[i] = d[order[i]] /\ f[i] \in Nat
  BY <1>1, <1>2
<1> HIDE DEF f
<1>4. PICK i \in 1..n : \A j \in 1..n : f[j] <= f[i]
  BY <1>2, <1>3, Greatest
<1>5. i \in deepest
  BY <1>2, <1>3, <1>4
<1>6. deepest \in SUBSET Nat /\ deepest \subseteq 1..Len(order)
  BY <1>1, <1>2
<1>7. PrefixVictim(order, d) = order[Min(deepest)]
  BY DEF PrefixVictim, oldest
<1> HIDE DEF deepest
<1>8. Min(deepest) \in 1..Len(order)
  BY <1>5, <1>6, MinFacts
<1> QED BY <1>1, <1>7, <1>8 DEF Range

LEMMA PrefixAdmitted ==
  ASSUME NEW p, Sound(p), ~IsS3(p), NEW k \in Key, k \notin Resident(p), NEW b \in Nat
  PROVE  Admitted(p, k, PrefixAdmit(p, k, b))
<1> DEFINE order == MoveToEnd(p.store, k)
           d == [p.mark EXCEPT ![k] = b]
           v == PrefixVictim(order, d)
           rest == RemoveFirst(order, v)
           n == p.capacity
           s == p.store
           r == PrefixAdmit(p, k, b)
<1>1. /\ p \in Policies /\ s \in Seq(Key) /\ Len(s) \in Nat
      /\ n \in Nat \ {0} /\ Len(s) <= n /\ Unmarked(p, {}) /\ p.mark \in [Key -> Nat]
  BY FieldFacts, OtherQueues DEF Sound, Shape
<1>2. /\ order \in Seq(Key) /\ IsInjective(order) /\ Range(order) = Range(s) \cup {k}
      /\ Len(order) = Len(s) + 1 /\ Resident(p) = Range(s)
  BY MovedToEnd
<1>3. r = IF Len(order) <= n
            THEN Kept([p EXCEPT !.store = order, !.mark = d])
            ELSE Evicted([p EXCEPT !.store = rest, !.mark = d], v)
  BY DEF PrefixAdmit
<1> HIDE DEF order, s, r
<1>4. d \in [Key -> Nat] /\ \A j \in Key : j # k => d[j] = p.mark[j]
  BY <1>1
<1>5. order # <<>>
  BY <1>1, <1>2
<1>6. v \in Range(order) /\ v \in Key
  <2>1. v \in Range(order)
    BY <1>2, <1>4, <1>5, PrefixVictimHeld
  <2> QED BY <1>2, <2>1, SeqFacts
<1>7. /\ rest \in Seq(Key) /\ IsInjective(rest) /\ Range(rest) = Range(order) \ {v}
      /\ Len(rest) = Len(order) - 1
  BY <1>2, <1>6, QueueRemoveFirst
<1> HIDE DEF d, v, rest
<1>8. ASSUME NEW t \in Seq(Key), IsInjective(t), Len(t) <= n,
             NEW q, q = [p EXCEPT !.store = t, !.mark = d]
      PROVE  /\ Shape(q) /\ Resident(q) = Range(t) /\ q.name = p.name
             /\ q.capacity = n /\ q.mark = d
  <2>1. /\ q \in Policies /\ q.name = p.name /\ q.capacity = p.capacity /\ q.store = t
        /\ q.main = p.main /\ q.ghost = p.ghost /\ q.mark = d
    BY <1>1, <1>4, <1>8 DEF Policies
  <2> QED BY <1>8, <2>1, OneQueue
<1> HIDE DEF n
<1>9. CASE Len(order) <= n
  <2> DEFINE q == [p EXCEPT !.store = order, !.mark = d]
  <2>1. /\ Shape(q) /\ Resident(q) = Range(order) /\ q.name = p.name
        /\ q.capacity = n /\ q.mark = d
    BY <1>2, <1>8, <1>9
  <2>2. r = Kept(q)
    BY <1>3, <1>9
  <2> HIDE DEF q
  <2>3. r.policy = q /\ r.victim = NoKey
    BY <2>2, KeptFacts
  <2>4. Resident(q) = Resident(p) \cup {k}
    BY <1>2, <2>1
  <2>5. Sound(q)
    BY <1>1, <1>4, <2>1, <2>4 DEF Sound, Unmarked
  <2> QED BY <2>1, <2>3, <2>4, <2>5 DEF Admitted, n, r
<1>10. CASE ~(Len(order) <= n)
  <2> DEFINE q == [p EXCEPT !.store = rest, !.mark = d]
  <2>1. Len(rest) <= n
    BY <1>1, <1>2, <1>7
  <2>2. /\ Shape(q) /\ Resident(q) = Range(rest) /\ q.name = p.name
        /\ q.capacity = n /\ q.mark = d
    BY <1>7, <1>8, <2>1
  <2>3. r = Evicted(q, v)
    BY <1>3, <1>10
  <2> HIDE DEF q
  <2>4. Unmarked(q, {v})
    BY <1>1, <1>2, <1>4, <1>7, <2>2 DEF Unmarked
  <2>5. /\ Sound(r.policy) /\ r.victim = v /\ Resident(r.policy) = Resident(q)
        /\ r.policy.name = p.name /\ r.policy.capacity = n
    BY <1>6, <2>2, <2>3, <2>4, EvictedSound
  <2> QED BY <1>2, <1>6, <1>7, <2>2, <2>5 DEF Admitted, n, r
<1> QED BY <1>9, <1>10

\* SIEVE lets go of the block its hand stops at.
LEMMA SieveEvicted ==
  ASSUME NEW p, Sound(p), ~IsS3(p), p.store # <<>>
  PROVE  /\ Sound(SieveEvict(p).policy) /\ SieveEvict(p).victim \in Resident(p)
         /\ Resident(SieveEvict(p).policy) = Resident(p) \ {SieveEvict(p).victim}
         /\ SieveEvict(p).policy.name = p.name
         /\ SieveEvict(p).policy.capacity = p.capacity
         /\ Len(SieveEvict(p).policy.store) < p.capacity
<1> DEFINE s == p.store
           n == Len(s)
           start == IF p.cursor \in Range(s) THEN CHOOSE i \in 1..n : s[i] = p.cursor ELSE 1
           UnderHand(i) == s[1 + ((start - 1 + i) % n)]
           unvisited == {i \in 0..(n - 1) : p.mark[UnderHand(i)] = 0}
           passed == IF unvisited = {} THEN n ELSE Min(unvisited)
           cleared == {UnderHand(i) : i \in 0..(passed - 1)}
           victim == UnderHand(passed)
           rest == RemoveFirst(s, victim)
           f == [k \in Key |-> IF k \in cleared THEN 0 ELSE p.mark[k]]
           c == IF n > 1 THEN UnderHand(passed + 1) ELSE NoKey
           q == [p EXCEPT !.store = rest, !.mark = f, !.cursor = c]
           r == SieveEvict(p)
<1>1. /\ p \in Policies /\ s \in Seq(Key) /\ IsInjective(s) /\ n \in Nat \ {0}
      /\ DOMAIN s = 1..n /\ p.capacity \in Nat /\ n <= p.capacity
      /\ Unmarked(p, {}) /\ p.mark \in [Key -> Nat]
  <2>1. /\ p \in Policies /\ s \in Seq(Key) /\ IsInjective(s) /\ n <= p.capacity
        /\ Unmarked(p, {}) /\ p.mark \in [Key -> Nat] /\ p.capacity \in Nat /\ s # <<>>
    BY FieldFacts, OtherQueues DEF Sound, Shape
  <2> HIDE DEF s
  <2>2. Len(s) \in Nat \ {0} /\ DOMAIN s = 1..Len(s)
    BY <2>1, EmptySeq, LenProperties
  <2> QED BY <2>1, <2>2
<1>2. Resident(p) = Range(s) /\ Range(s) \subseteq Key
  BY <1>1, OtherQueues, EmptyQueue, SeqFacts DEF Resident
<1>3. r = Evicted(q, victim)
  BY DEF SieveEvict
<1> HIDE DEF s, n, r
<1>4. start \in 1..n
  <2>1. CASE p.cursor \in Range(s)
    <3>1. \E i \in 1..n : s[i] = p.cursor
      BY <1>1, <2>1 DEF Range
    <3> QED BY <2>1, <3>1
  <2>2. CASE p.cursor \notin Range(s)
    BY <1>1, <2>2
  <2> QED BY <2>1, <2>2
<1> HIDE DEF start
<1>5. ASSUME NEW i \in Nat PROVE UnderHand(i) \in Range(s)
  <2>1. start - 1 + i \in Nat
    BY <1>1, <1>4
  <2>2. (start - 1 + i) % n \in 0..(n - 1)
    BY <1>1, <2>1
  <2>3. 1 + ((start - 1 + i) % n) \in 1..n
    BY <1>1, <2>2
  <2> QED BY <1>1, <2>3 DEF Range
<1> HIDE DEF UnderHand
<1>6. passed \in Nat
  <2>1. unvisited \in SUBSET Nat
    BY <1>1
  <2> HIDE DEF unvisited
  <2>2. unvisited # {} => Min(unvisited) \in Nat
    BY <2>1, MinFacts
  <2> QED BY <1>1, <2>2
<1> HIDE DEF passed
<1>7. victim \in Range(s) /\ victim \in Key /\ c \in Key \cup {NoKey}
  <2>1. UnderHand(passed) \in Range(s) /\ UnderHand(passed + 1) \in Range(s)
    BY <1>5, <1>6
  <2> QED BY <1>2, <2>1
<1>8. f \in [Key -> Nat] /\ \A k \in Key : p.mark[k] = 0 => f[k] = 0
  BY <1>1
<1> HIDE DEF victim, f, c
<1>9. /\ rest \in Seq(Key) /\ IsInjective(rest) /\ Range(rest) = Range(s) \ {victim}
      /\ Len(rest) = n - 1
  BY <1>1, <1>7, QueueRemoveFirst DEF n
<1> HIDE DEF rest
<1>10. /\ q \in Policies /\ q.name = p.name /\ q.capacity = p.capacity /\ q.store = rest
       /\ q.main = p.main /\ q.ghost = p.ghost /\ q.mark = f
  BY <1>1, <1>7, <1>8, <1>9 DEF Policies
<1> HIDE DEF q
<1>11. Len(rest) < p.capacity /\ Len(rest) <= p.capacity
  <2> DEFINE m == p.capacity
  <2>1. m \in Nat /\ n <= m
    BY <1>1
  <2> HIDE DEF m
  <2>2. Len(rest) < m /\ Len(rest) <= m
    BY <1>1, <1>9, <2>1
  <2> QED BY <2>2 DEF m
<1>12. Shape(q) /\ Resident(q) = Range(rest)
  BY <1>9, <1>10, <1>11, OneQueue
<1>13. Unmarked(q, {victim})
  BY <1>1, <1>2, <1>8, <1>9, <1>10, <1>12 DEF Unmarked
<1>14. /\ Sound(r.policy) /\ r.victim = victim /\ Resident(r.policy) = Resident(q)
       /\ r.policy.name = q.name /\ r.policy.capacity = q.capacity
       /\ r.policy.store = q.store
  BY <1>3, <1>7, <1>12, <1>13, EvictedSound
<1> QED BY <1>2, <1>7, <1>9, <1>10, <1>11, <1>12, <1>14 DEF r

LEMMA SieveAdmitted ==
  ASSUME NEW p, Sound(p), ~IsS3(p), NEW k \in Key, k \notin Resident(p)
  PROVE  Admitted(p, k, SieveAdmit(p, k))
<1> DEFINE room == IF Len(p.store) < p.capacity THEN Kept(p) ELSE SieveEvict(p)
           o == room.policy
           q == [o EXCEPT !.store = Append(@, k)]
           r == SieveAdmit(p, k)
<1>1. /\ Sound(o) /\ o.name = p.name /\ o.capacity = p.capacity
      /\ Len(o.store) < p.capacity
      /\ \/ room.victim = NoKey /\ Resident(o) = Resident(p)
         \/ room.victim \in Resident(p) /\ Resident(o) = Resident(p) \ {room.victim}
  <2>1. CASE Len(p.store) < p.capacity
    BY <2>1, KeptFacts
  <2>2. CASE ~(Len(p.store) < p.capacity)
    <3>1. p.store # <<>>
      BY <2>2, FieldFacts DEF Sound, Shape
    <3> QED BY <2>2, <3>1, SieveEvicted
  <2> QED BY <2>1, <2>2
<1>2. r.policy = q /\ r.victim = room.victim
  BY DEF SieveAdmit, Kept, SieveEvict, Evicted
<1> HIDE DEF room, r
<1> DEFINE s == o.store
           t == Append(s, k)
           n == p.capacity
<1>3. /\ o \in Policies /\ s \in Seq(Key) /\ IsInjective(s) /\ Len(s) \in Nat
      /\ Len(s) < n /\ n \in Nat /\ ~IsS3(o) /\ o.mark \in [Key -> Nat] /\ Unmarked(o, {})
  <2>1. Sound(o) /\ Shape(o) /\ o \in Policies
    BY <1>1 DEF Sound, Shape
  <2> HIDE DEF o
  <2>2. /\ s \in Seq(Key) /\ IsInjective(s) /\ Len(s) \in Nat
        /\ o.mark \in [Key -> Nat] /\ Unmarked(o, {})
    BY <2>1, FieldFacts DEF Sound, Shape
  <2>3. ~IsS3(o) /\ n \in Nat
    BY <1>1, <2>1, FieldFacts DEF IsS3
  <2> QED BY <1>1, <2>1, <2>2, <2>3
<1>4. Resident(o) = Range(s)
  <2>1. o.main = <<>>
    BY <1>1, <1>3, OtherQueues
  <2> QED BY <2>1, EmptyQueue DEF Resident
<1>5. q.store = t /\ q = [o EXCEPT !.store = t]
  BY <1>3 DEF Policies
<1> HIDE DEF o, s, n
<1>6. /\ t \in Seq(Key) /\ Len(t) = Len(s) + 1 /\ Range(t) = Range(s) \cup {k}
      /\ IsInjective(t) /\ Len(t) <= n
  <2>1. k \notin Range(s)
    BY <1>1, <1>4
  <2>2. /\ t \in Seq(Key) /\ Len(t) = Len(s) + 1 /\ Range(t) = Range(s) \cup {k}
        /\ IsInjective(t)
    BY <1>3, <2>1, QueueAppend
  <2>3. Len(s) + 1 <= n
    BY <1>3
  <2> QED BY <2>2, <2>3
<1> HIDE DEF t
<1>7. /\ q \in Policies /\ q.name = o.name /\ q.capacity = o.capacity
      /\ q.main = o.main /\ q.ghost = o.ghost /\ q.mark = o.mark
  BY <1>3, <1>5, <1>6 DEF Policies
<1> HIDE DEF q
<1>8. Shape(q) /\ Resident(q) = Range(t)
  BY <1>1, <1>3, <1>5, <1>6, <1>7, OneQueue DEF n
<1>9. Resident(q) = Resident(o) \cup {k}
  BY <1>4, <1>6, <1>8
<1>10. Sound(q)
  BY <1>3, <1>7, <1>8, <1>9 DEF Sound, Unmarked
<1>11. r.victim # NoKey => (Resident(p) \ {r.victim}) \cup {k} = (Resident(p) \cup {k}) \ {r.victim}
  BY <1>1, <1>2
<1> QED BY <1>1, <1>2, <1>7, <1>9, <1>10, <1>11 DEF Admitted, r

\* The queues of S3-FIFO from their parts.
LEMMA ThreeQueues ==
  ASSUME NEW p, IsS3(p), NEW q \in Policies, q.name = p.name, q.capacity = p.capacity,
         IsInjective(q.store), IsInjective(q.main), IsInjective(q.ghost),
         Range(q.store) \cap Range(q.main) = {},
         Range(q.ghost) \cap (Range(q.store) \cup Range(q.main)) = {},
         Len(q.store) <= SmallCap(p), Len(q.main) <= MainCap(p), Len(q.ghost) <= GhostCap(p)
  PROVE  Shape(q) /\ IsS3(q)
<1>1. /\ StoreCap(q) = SmallCap(p) /\ RestCap(q) = MainCap(p)
      /\ GhostCap(q) = GhostCap(p) /\ IsS3(q)
  BY SameCaps DEF StoreCap, RestCap
<1> QED BY <1>1 DEF Shape, Resident

LEMMA S3Facts ==
  ASSUME NEW p, Shape(p), IsS3(p)
  PROVE  /\ p \in Policies /\ p.mark \in [Key -> Nat]
         /\ p.store \in Seq(Key) /\ p.main \in Seq(Key) /\ p.ghost \in Seq(Key)
         /\ IsInjective(p.store) /\ IsInjective(p.main) /\ IsInjective(p.ghost)
         /\ Range(p.store) \cap Range(p.main) = {}
         /\ Range(p.ghost) \cap (Range(p.store) \cup Range(p.main)) = {}
         /\ Len(p.store) <= SmallCap(p) /\ Len(p.main) <= MainCap(p)
         /\ Len(p.ghost) <= GhostCap(p)
         /\ Resident(p) = Range(p.store) \cup Range(p.main)
BY FieldFacts DEF Shape, Resident, StoreCap, RestCap

\* The main queue takes in a block, whatever is noted about it, and gives
\* back the first one without frequency.
LEMMA S3MainAdmitted ==
  ASSUME NEW p, Shape(p), IsS3(p), NEW k \in Key, Unmarked(p, {k}),
         k \notin Resident(p), k \notin Range(p.ghost)
  PROVE  Admitted(p, k, S3InsertMain(p, k))
<1> DEFINE m == p.main
           queue == Append(m, k)
           freq == [p.mark EXCEPT ![k] = 0]
           zeros == {i \in DOMAIN queue : freq[queue[i]] = 0}
           v == Min(zeros)
           spared == SubSeq(queue, 1, v - 1)
           rest == SubSeq(queue, v + 1, Len(queue)) \o spared
           f == [j \in Key |-> IF j \in Range(spared) THEN freq[j] - 1 ELSE freq[j]]
           n == MainCap(p)
           r == S3InsertMain(p, k)
<1>1. /\ p \in Policies /\ p.mark \in [Key -> Nat] /\ m \in Seq(Key) /\ IsInjective(m)
      /\ Len(m) <= n /\ n \in Nat /\ Resident(p) = Range(p.store) \cup Range(m)
      /\ IsInjective(p.store) /\ IsInjective(p.ghost)
      /\ Range(p.store) \cap Range(m) = {}
      /\ Range(p.ghost) \cap (Range(p.store) \cup Range(m)) = {}
      /\ Len(p.store) <= SmallCap(p) /\ Len(p.ghost) <= GhostCap(p)
  BY S3Facts, CapacityFacts
<1>2. r = IF Len(queue) <= n
            THEN Kept([p EXCEPT !.main = queue, !.mark = freq])
            ELSE Evicted([p EXCEPT !.main = rest, !.mark = f], queue[v])
  BY DEF S3InsertMain
<1> HIDE DEF m, n, r
<1>3. k \notin Range(m)
  BY <1>1
<1>4. /\ queue \in Seq(Key) /\ Len(queue) = Len(m) + 1 /\ Range(queue) = Range(m) \cup {k}
      /\ IsInjective(queue) /\ Len(m) \in Nat
  BY <1>1, <1>3, QueueAppend
<1>5. /\ DOMAIN queue = 1..Len(queue) /\ Len(queue) \in 1..Len(queue)
      /\ queue[Len(queue)] = k /\ \A i \in 1..Len(queue) : queue[i] \in Key
  <2>1. queue[Len(m) + 1] = k
    BY <1>1, AppendProperties
  <2> HIDE DEF queue
  <2> QED BY <1>4, <2>1
<1> HIDE DEF queue
<1>6. freq \in [Key -> Nat] /\ freq[k] = 0 /\ \A j \in Key : j # k => freq[j] = p.mark[j]
  BY <1>1
<1> HIDE DEF freq
<1>7. \A j \in Key : j \notin Resident(p) => freq[j] = 0
  BY <1>6 DEF Unmarked
<1>8. ASSUME NEW t \in Seq(Key), IsInjective(t), Len(t) <= n,
             Range(t) \subseteq Range(m) \cup {k}, NEW g \in [Key -> Nat]
      PROVE  LET q == [p EXCEPT !.main = t, !.mark = g]
             IN  /\ Shape(q) /\ Resident(q) = Range(p.store) \cup Range(t)
                 /\ q.name = p.name /\ q.capacity = p.capacity /\ q.mark = g
  <2> DEFINE q == [p EXCEPT !.main = t, !.mark = g]
  <2>1. /\ q \in Policies /\ q.name = p.name /\ q.capacity = p.capacity
        /\ q.store = p.store /\ q.main = t /\ q.ghost = p.ghost /\ q.mark = g
    BY <1>1, <1>8 DEF Policies
  <2> HIDE DEF q
  <2>2. /\ Range(p.store) \cap Range(t) = {}
        /\ Range(p.ghost) \cap (Range(p.store) \cup Range(t)) = {}
    BY <1>1, <1>8
  <2>3. Shape(q)
    BY <1>1, <1>8, <2>1, <2>2, ThreeQueues DEF n
  <2>4. /\ Shape(q) /\ Resident(q) = Range(p.store) \cup Range(t)
        /\ q.name = p.name /\ q.capacity = p.capacity /\ q.mark = g
    BY <2>1, <2>3 DEF Resident
  <2> QED BY <2>4 DEF q
<1>9. CASE Len(queue) <= n
  <2> DEFINE q == [p EXCEPT !.main = queue, !.mark = freq]
  <2>1. /\ Shape(q) /\ Resident(q) = Range(p.store) \cup Range(queue)
        /\ q.name = p.name /\ q.capacity = p.capacity /\ q.mark = freq
    <3>1. Range(queue) \subseteq Range(m) \cup {k}
      BY <1>4
    <3> QED BY <1>4, <1>6, <1>8, <1>9, <3>1
  <2>2. r.policy = q /\ r.victim = NoKey
    BY <1>2, <1>9, KeptFacts
  <2> HIDE DEF q
  <2>3. Resident(q) = Resident(p) \cup {k}
    BY <1>1, <1>4, <2>1
  <2>4. Sound(q)
    BY <1>7, <2>1, <2>3 DEF Sound, Unmarked
  <2> QED BY <2>1, <2>2, <2>3, <2>4 DEF Admitted, r
<1>10. CASE ~(Len(queue) <= n)
  <2>1. zeros \in SUBSET Nat /\ Len(queue) \in zeros /\ zeros \subseteq 1..Len(queue)
    BY <1>5, <1>6
  <2>2. v \in zeros /\ \A i \in zeros : v <= i
    <3> HIDE DEF zeros
    <3> QED BY <2>1, MinFacts
  <2>3. v \in 1..Len(queue)
    BY <2>1, <2>2
  <2>4. \A i \in 1..(v - 1) : i \in 1..Len(queue) /\ freq[queue[i]] # 0
    <3> SUFFICES ASSUME NEW i \in 1..(v - 1)
                 PROVE  i \in 1..Len(queue) /\ freq[queue[i]] # 0
      OBVIOUS
    <3> HIDE DEF v
    <3>1. i \in 1..Len(queue) /\ ~(v <= i)
      BY <1>5, <2>3
    <3> QED BY <1>5, <2>2, <3>1
  <2> HIDE DEF v
  <2>5. /\ rest \in Seq(Key) /\ IsInjective(rest) /\ Len(rest) = Len(queue) - 1
        /\ Range(rest) = Range(queue) \ {queue[v]}
        /\ Range(spared) = {queue[i] : i \in 1..(v - 1)}
    <3>1. Rotated(Key, queue, v, rest)
      BY <1>4, <2>3, QueueRotate
    <3> HIDE DEF rest
    <3> QED BY <3>1 DEF Rotated
  <2> HIDE DEF rest, spared
  <2>6. Range(spared) \subseteq Range(queue) /\ \A j \in Range(spared) : freq[j] # 0
    BY <1>5, <2>4, <2>5 DEF Range
  <2>7. f \in [Key -> Nat] /\ \A j \in Key : freq[j] = 0 => f[j] = 0
    <3>1. ASSUME NEW j \in Key
          PROVE  f[j] \in Nat /\ (freq[j] = 0 => f[j] = 0)
      <4>1. freq[j] \in Nat
        BY <1>6
      <4>2. CASE j \in Range(spared)
        <5>1. freq[j] # 0 /\ f[j] = freq[j] - 1
          BY <2>6, <4>2
        <5> HIDE DEF f
        <5> QED BY <4>1, <5>1
      <4>3. CASE j \notin Range(spared)
        BY <4>1, <4>3
      <4> QED BY <4>2, <4>3
    <3> QED BY <3>1
  <2> HIDE DEF f
  <2> DEFINE q == [p EXCEPT !.main = rest, !.mark = f]
             w == queue[v]
  <2>8. w \in Range(queue) /\ w \in Key
    BY <1>5, <2>3 DEF Range
  <2>9. Len(rest) <= n
    BY <1>1, <1>4, <2>5
  <2>10. /\ Shape(q) /\ Resident(q) = Range(p.store) \cup Range(rest)
         /\ q.name = p.name /\ q.capacity = p.capacity /\ q.mark = f
    <3>1. Range(rest) \subseteq Range(m) \cup {k}
      BY <1>4, <2>5
    <3> QED BY <1>8, <2>5, <2>7, <2>9, <3>1
  <2>11. r = Evicted(q, w)
    BY <1>2, <1>10
  <2> HIDE DEF q
  <2>12. Resident(q) = (Resident(p) \cup {k}) \ {w}
    <3>1. w \notin Range(p.store)
      BY <1>1, <1>4, <2>8
    <3> HIDE DEF w
    <3>2. Range(rest) = Range(queue) \ {w}
      BY <2>5 DEF w
    <3> QED BY <1>1, <1>4, <2>10, <3>1, <3>2
  <2>13. Unmarked(q, {w})
    <3> HIDE DEF w
    <3> QED BY <1>7, <2>7, <2>10, <2>12 DEF Unmarked
  <2> HIDE DEF w
  <2>14. /\ Sound(r.policy) /\ r.victim = w /\ Resident(r.policy) = Resident(q)
         /\ r.policy.name = q.name /\ r.policy.capacity = q.capacity
    BY <2>8, <2>10, <2>11, <2>13, EvictedSound
  <2>15. w \in Resident(p) \cup {k}
    BY <1>1, <1>4, <2>8
  <2> QED BY <2>10, <2>12, <2>14, <2>15 DEF Admitted, r
<1> QED BY <1>9, <1>10

LEMMA GhostInserted ==
  ASSUME NEW p, Shape(p), IsS3(p), NEW v \in Key, v \notin Range(p.ghost)
  PROVE  /\ GhostInsert(p, v) \in Seq(Key) /\ IsInjective(GhostInsert(p, v))
         /\ Range(GhostInsert(p, v)) \subseteq Range(p.ghost) \cup {v}
         /\ Len(GhostInsert(p, v)) <= GhostCap(p)
<1> DEFINE g == p.ghost
           longer == Append(g, v)
           n == GhostCap(p)
<1>1. g \in Seq(Key) /\ IsInjective(g) /\ Len(g) <= n /\ n \in Nat /\ v \notin Range(g)
  BY S3Facts, CapacityFacts
<1>2. GhostInsert(p, v) = IF Len(longer) <= n THEN longer ELSE Tail(longer)
  BY DEF GhostInsert
<1> HIDE DEF g, n
<1>3. /\ longer \in Seq(Key) /\ Len(longer) = Len(g) + 1
      /\ Range(longer) = Range(g) \cup {v} /\ IsInjective(longer) /\ Len(g) \in Nat
  BY <1>1, QueueAppend
<1> HIDE DEF longer
<1>4. longer # <<>>
  BY <1>3
<1>5. /\ Tail(longer) \in Seq(Key) /\ Len(Tail(longer)) = Len(longer) - 1
      /\ Range(Tail(longer)) \subseteq Range(longer) /\ IsInjective(Tail(longer))
  BY <1>3, <1>4, QueueTail
<1>6. Len(Tail(longer)) <= n
  BY <1>1, <1>3, <1>5
<1>7. CASE Len(longer) <= n
  BY <1>2, <1>3, <1>7 DEF g, n
<1>8. CASE ~(Len(longer) <= n)
  BY <1>2, <1>3, <1>5, <1>6, <1>8 DEF g, n
<1> QED BY <1>7, <1>8

\* The small queue takes in a block; its oldest goes to the main queue or out.
LEMMA S3SmallAdmitted ==
  ASSUME NEW p, Sound(p), IsS3(p), NEW k \in Key,
         k \notin Resident(p), k \notin Range(p.ghost)
  PROVE  Admitted(p, k, S3InsertSmall(p, k))
<1> DEFINE s == p.store
           queue == Append(s, k)
           v == Head(queue)
           t == Tail(queue)
           q == [p EXCEPT !.store = t]
           n == SmallCap(p)
           r == S3InsertSmall(p, k)
<1>1. /\ p \in Policies /\ p.mark \in [Key -> Nat] /\ s \in Seq(Key) /\ IsInjective(s)
      /\ Len(s) <= n /\ n \in Nat /\ Resident(p) = Range(s) \cup Range(p.main)
      /\ IsInjective(p.main) /\ IsInjective(p.ghost)
      /\ Range(s) \cap Range(p.main) = {}
      /\ Range(p.ghost) \cap (Range(s) \cup Range(p.main)) = {}
      /\ Len(p.main) <= MainCap(p) /\ Len(p.ghost) <= GhostCap(p)
      /\ Shape(p) /\ Unmarked(p, {})
  BY S3Facts, CapacityFacts DEF Sound
<1>2. r = IF Len(queue) <= n THEN Kept([p EXCEPT !.store = queue])
          ELSE IF p.mark[v] > 0 THEN S3InsertMain(q, v)
          ELSE Evicted([q EXCEPT !.ghost = GhostInsert(p, v)], v)
  BY DEF S3InsertSmall
<1> HIDE DEF s, n, r
<1>3. k \notin Range(s) /\ k \notin Range(p.main)
  BY <1>1
<1>4. /\ queue \in Seq(Key) /\ Len(queue) = Len(s) + 1 /\ Range(queue) = Range(s) \cup {k}
      /\ IsInjective(queue) /\ Len(s) \in Nat
  BY <1>1, <1>3, QueueAppend
<1> HIDE DEF queue
<1>5. queue # <<>>
  BY <1>4
<1>6. /\ t \in Seq(Key) /\ Len(t) = Len(queue) - 1 /\ IsInjective(t) /\ v \in Key
      /\ Range(queue) = Range(t) \cup {v} /\ v \notin Range(t) /\ v \in Range(queue)
  BY <1>4, <1>5, QueueTail
<1> HIDE DEF t, v
<1>7. ASSUME NEW u \in Seq(Key), IsInjective(u), Len(u) <= n,
             Range(u) \subseteq Range(s) \cup {k},
             NEW o, o = [p EXCEPT !.store = u]
      PROVE  /\ Shape(o) /\ IsS3(o) /\ Resident(o) = Range(u) \cup Range(p.main)
             /\ o.name = p.name /\ o.capacity = p.capacity /\ o.mark = p.mark
             /\ o.ghost = p.ghost
  <2>1. /\ o \in Policies /\ o.name = p.name /\ o.capacity = p.capacity
        /\ o.store = u /\ o.main = p.main /\ o.ghost = p.ghost /\ o.mark = p.mark
    BY <1>1, <1>7 DEF Policies
  <2>2. /\ Range(u) \cap Range(p.main) = {}
        /\ Range(p.ghost) \cap (Range(u) \cup Range(p.main)) = {}
    BY <1>1, <1>3, <1>7
  <2>3. Shape(o) /\ IsS3(o)
    BY <1>1, <1>7, <2>1, <2>2, ThreeQueues DEF n
  <2> QED BY <2>1, <2>3 DEF Resident
<1>8. CASE Len(queue) <= n
  <2> DEFINE o == [p EXCEPT !.store = queue]
  <2>1. /\ Shape(o) /\ Resident(o) = Range(queue) \cup Range(p.main)
        /\ o.name = p.name /\ o.capacity = p.capacity /\ o.mark = p.mark
    BY <1>4, <1>7, <1>8
  <2>2. r.policy = o /\ r.victim = NoKey
    BY <1>2, <1>8, KeptFacts
  <2> HIDE DEF o
  <2>3. Resident(o) = Resident(p) \cup {k}
    BY <1>1, <1>4, <2>1
  <2>4. Sound(o)
    BY <1>1, <2>1, <2>3 DEF Sound, Unmarked
  <2> QED BY <2>1, <2>2, <2>3, <2>4 DEF Admitted, r
<1>9. CASE ~(Len(queue) <= n)
  <2>1. Len(t) <= n
    BY <1>1, <1>4, <1>6
  <2>2. /\ Shape(q) /\ IsS3(q) /\ Resident(q) = Range(t) \cup Range(p.main)
        /\ q.name = p.name /\ q.capacity = p.capacity /\ q.mark = p.mark
        /\ q.ghost = p.ghost
    BY <1>4, <1>6, <1>7, <2>1
  <2> HIDE DEF q
  <2>3. /\ v \notin Range(p.main) /\ v \notin Range(p.ghost) /\ v \notin Resident(q)
        /\ Resident(q) = (Resident(p) \cup {k}) \ {v} /\ v \in Resident(p) \cup {k}
    BY <1>1, <1>3, <1>4, <1>6, <2>2
  <2>4. Unmarked(q, {v})
    BY <1>1, <2>2, <2>3 DEF Unmarked
  <2>5. CASE p.mark[v] > 0
    <3>1. Admitted(q, v, S3InsertMain(q, v)) /\ r = S3InsertMain(q, v)
      BY <1>2, <1>6, <1>9, <2>2, <2>3, <2>4, <2>5, S3MainAdmitted
    <3>2. Resident(q) \cup {v} = Resident(p) \cup {k}
      BY <2>3
    <3> QED BY <2>2, <3>1, <3>2 DEF Admitted, r
  <2>6. CASE ~(p.mark[v] > 0)
    <3> DEFINE g == GhostInsert(p, v)
               o == [q EXCEPT !.ghost = g]
    <3>1. /\ g \in Seq(Key) /\ IsInjective(g) /\ Len(g) <= GhostCap(p)
          /\ Range(g) \subseteq Range(p.ghost) \cup {v}
      BY <1>1, <1>6, <2>3, GhostInserted
    <3>2. r = Evicted(o, v)
      BY <1>2, <1>9, <2>6
    <3> HIDE DEF g
    <3>3. q \in Policies
      BY <2>2 DEF Shape
    <3>4. /\ o \in Policies /\ o.name = q.name /\ o.capacity = q.capacity
          /\ o.store = q.store /\ o.main = q.main /\ o.ghost = g /\ o.mark = q.mark
      BY <3>1, <3>3 DEF Policies
    <3> HIDE DEF o
    <3>5. /\ IsInjective(q.store) /\ IsInjective(q.main)
          /\ Range(q.store) \cap Range(q.main) = {}
          /\ Range(q.ghost) \cap (Range(q.store) \cup Range(q.main)) = {}
          /\ Len(q.store) <= SmallCap(q) /\ Len(q.main) <= MainCap(q)
          /\ Resident(q) = Range(q.store) \cup Range(q.main)
      BY <2>2, S3Facts
    <3>6. GhostCap(q) = GhostCap(p)
      BY <2>2, SameCaps
    <3>7. Range(g) \cap (Range(q.store) \cup Range(q.main)) = {}
      BY <2>2, <2>3, <3>1, <3>5
    <3>8. Shape(o)
      BY <2>2, <3>1, <3>4, <3>5, <3>6, <3>7, ThreeQueues
    <3>9. Resident(o) = Resident(q)
      BY <3>4 DEF Resident
    <3>10. Unmarked(o, {v})
      BY <2>4, <3>4, <3>9 DEF Unmarked
    <3>11. /\ Sound(r.policy) /\ r.victim = v /\ Resident(r.policy) = Resident(o)
           /\ r.policy.name = o.name /\ r.policy.capacity = o.capacity
      BY <1>6, <3>2, <3>8, <3>10, EvictedSound
    <3> QED BY <2>2, <2>3, <3>4, <3>9, <3>11 DEF Admitted, r
  <2> QED BY <2>5, <2>6
<1> QED BY <1>8, <1>9

\* A block that a ghost remembers goes to the main queue.
LEMMA S3Admitted ==
  ASSUME NEW p, Sound(p), IsS3(p), NEW k \in Key, k \notin Resident(p)
  PROVE  Admitted(p, k, S3Admit(p, k))
<1>1. CASE k \in Range(p.ghost)
  <2> DEFINE g == RemoveFirst(p.ghost, k)
             q == [p EXCEPT !.ghost = g]
             h == p.ghost
             n == GhostCap(p)
  <2>1. /\ p \in Policies /\ h \in Seq(Key) /\ IsInjective(h)
        /\ IsInjective(p.store) /\ IsInjective(p.main)
        /\ Range(p.store) \cap Range(p.main) = {}
        /\ Range(h) \cap (Range(p.store) \cup Range(p.main)) = {}
        /\ Len(p.store) <= SmallCap(p) /\ Len(p.main) <= MainCap(p)
        /\ Len(h) <= n /\ n \in Nat /\ k \in Range(h)
    BY <1>1, S3Facts, CapacityFacts DEF Sound
  <2>2. S3Admit(p, k) = S3InsertMain(q, k)
    BY <1>1 DEF S3Admit
  <2> HIDE DEF h, n
  <2>3. /\ g \in Seq(Key) /\ IsInjective(g) /\ Range(g) = Range(h) \ {k}
        /\ Len(g) = Len(h) - 1 /\ Len(h) \in Nat
    BY <2>1, QueueRemoveFirst DEF h
  <2> HIDE DEF g
  <2>4. Len(g) <= n
    BY <2>1, <2>3
  <2>5. /\ q \in Policies /\ q.name = p.name /\ q.capacity = p.capacity
        /\ q.store = p.store /\ q.main = p.main /\ q.ghost = g /\ q.mark = p.mark
    BY <2>1, <2>3 DEF Policies
  <2> HIDE DEF q
  <2>6. Shape(q) /\ IsS3(q)
    BY <2>1, <2>3, <2>4, <2>5, ThreeQueues DEF n
  <2>7. Resident(q) = Resident(p)
    BY <2>5 DEF Resident
  <2>8. Unmarked(q, {k})
    BY <2>5, <2>7 DEF Unmarked, Sound
  <2>9. Admitted(q, k, S3InsertMain(q, k))
    BY <2>3, <2>5, <2>6, <2>7, <2>8, S3MainAdmitted
  <2> QED BY <2>2, <2>5, <2>7, <2>9 DEF Admitted
<1>2. CASE k \notin Range(p.ghost)
  BY <1>2, S3SmallAdmitted DEF S3Admit
<1> QED BY <1>1, <1>2

----------------------------------------------------------------------------
(* The interface of a policy. *)

\* An LRU policy lets go of its oldest block, and only when it is full.
Oldest(p, k, r) ==
  \/ /\ Len(p.store) < p.capacity /\ r.victim = NoKey
     /\ r.policy.store = Append(p.store, k)
  \/ /\ Len(p.store) = p.capacity /\ p.store # <<>> /\ r.victim = Head(p.store)
     /\ r.policy.store = Append(Tail(p.store), k)

LEMMA AdmitSound ==
  ASSUME NEW p, Sound(p), NEW k \in Key, k \notin Resident(p), NEW b \in Nat
  PROVE  /\ Admitted(p, k, admit(p, k, b))
         /\ p.name = "lru" => Oldest(p, k, admit(p, k, b))
<1>1. p.name \in PolicyNames
  BY FieldFacts DEF Sound, Shape
<1>2. CASE p.name = "lru"
  <2>1. admit(p, k, b) = LruAdmit(p, k) /\ ~IsS3(p)
    BY <1>2 DEF admit, IsS3, S3Family
  <2> QED BY <2>1, LruAdmitted DEF Oldest
<1>3. CASE p.name = "prefix_lru"
  <2>1. admit(p, k, b) = PrefixAdmit(p, k, b) /\ ~IsS3(p)
    BY <1>3 DEF admit, IsS3, S3Family
  <2> QED BY <1>3, <2>1, PrefixAdmitted
<1>4. CASE p.name = "sieve"
  <2>1. admit(p, k, b) = SieveAdmit(p, k) /\ ~IsS3(p)
    BY <1>4 DEF admit, IsS3, S3Family, contains
  <2> QED BY <1>4, <2>1, SieveAdmitted
<1>5. CASE p.name \in S3Family
  <2>1. admit(p, k, b) = S3Admit(p, k) /\ IsS3(p) /\ p.name # "lru"
    BY <1>5 DEF admit, IsS3, S3Family, contains
  <2> QED BY <2>1, S3Admitted
<1> QED BY <1>1, <1>2, <1>3, <1>4, <1>5 DEF PolicyNames, LruFamily

\* What is noted about a block that is held is free.
LEMMA Remarked ==
  ASSUME NEW p, Sound(p), NEW k \in Resident(p), NEW n \in Nat
  PROVE  LET q == [p EXCEPT !.mark[k] = n]
         IN  /\ Sound(q) /\ Resident(q) = Resident(p) /\ q.store = p.store
             /\ q.name = p.name /\ q.capacity = p.capacity
<1> DEFINE q == [p EXCEPT !.mark[k] = n]
<1>1. p \in Policies /\ p.mark \in [Key -> Nat] /\ k \in Key
  BY FieldFacts DEF Sound, Shape
<1>2. /\ q \in Policies /\ q.name = p.name /\ q.capacity = p.capacity
      /\ q.store = p.store /\ q.main = p.main /\ q.ghost = p.ghost
      /\ q.mark = [p.mark EXCEPT ![k] = n]
  BY <1>1 DEF Policies
<1> HIDE DEF q
<1>3. Resident(q) = Resident(p)
  BY <1>2 DEF Resident
<1>4. Shape(q)
  <2>1. /\ StoreCap(q) = StoreCap(p) /\ RestCap(q) = RestCap(p)
        /\ GhostCap(q) = GhostCap(p) /\ (IsS3(q) <=> IsS3(p))
    BY <1>2, SameCaps
  <2> QED BY <1>2, <1>3, <2>1 DEF Shape, Sound
<1>5. Unmarked(q, {})
  BY <1>1, <1>2, <1>3 DEF Unmarked, Sound
<1> QED BY <1>2, <1>3, <1>4, <1>5 DEF q, Sound

LEMMA TouchSound ==
  ASSUME NEW p, Sound(p), NEW k \in Key
  PROVE  /\ Sound(touch(p, k)) /\ Resident(touch(p, k)) = Resident(p)
         /\ touch(p, k).name = p.name /\ touch(p, k).capacity = p.capacity
         /\ p.name = "lru" /\ k \in Resident(p) =>
              touch(p, k).store = MoveToEnd(p.store, k)
<1>1. p.name \in PolicyNames /\ p.mark \in [Key -> Nat] /\ p \in Policies
  BY FieldFacts DEF Sound, Shape
<1>2. CASE k \notin Resident(p)
  BY <1>2 DEF touch, contains
<1>3. CASE k \in Resident(p) /\ p.name \in LruFamily
  <2> DEFINE t == MoveToEnd(p.store, k)
             q == [p EXCEPT !.store = t]
             s == p.store
  <2>1. touch(p, k) = q /\ ~IsS3(p)
    BY <1>3 DEF touch, contains, IsS3, S3Family, LruFamily
  <2>2. /\ t \in Seq(Key) /\ IsInjective(t) /\ Range(t) = Range(s) \cup {k}
        /\ Resident(p) = Range(s) /\ Len(t) = Len(s)
    BY <1>3, <2>1, MovedToEnd
  <2>3. Len(t) <= p.capacity
    BY <2>1, <2>2, OtherQueues DEF Sound, Shape
  <2> HIDE DEF t
  <2>4. /\ q \in Policies /\ q.name = p.name /\ q.capacity = p.capacity /\ q.store = t
        /\ q.main = p.main /\ q.ghost = p.ghost /\ q.mark = p.mark
    BY <1>1, <2>2 DEF Policies
  <2> HIDE DEF q
  <2>5. Shape(q) /\ Resident(q) = Range(t)
    BY <2>1, <2>2, <2>3, <2>4, OneQueue
  <2>6. Resident(q) = Resident(p)
    BY <1>3, <2>2, <2>5
  <2>7. Sound(q)
    BY <2>4, <2>5, <2>6 DEF Sound, Unmarked
  <2> QED BY <2>1, <2>4, <2>6, <2>7 DEF t
<1>4. CASE k \in Resident(p) /\ p.name = "sieve"
  <2>1. touch(p, k) = [p EXCEPT !.mark[k] = 1] /\ 1 \in Nat
    BY <1>1, <1>4 DEF touch, contains, LruFamily, S3Family, Policies
  <2> QED BY <1>4, <2>1, Remarked
<1>5. CASE k \in Resident(p) /\ p.name \in S3Family
  <2> DEFINE n == AtMost(FreqCap, p.mark[k] + 1)
  <2>1. touch(p, k) = [p EXCEPT !.mark[k] = n] /\ p.name # "lru"
    BY <1>1, <1>5 DEF touch, contains, LruFamily, S3Family, Policies
  <2>2. n \in Nat
    <3> DEFINE m == p.mark[k]
    <3>1. m \in Nat
      BY <1>1
    <3> HIDE DEF m
    <3>2. AtMost(FreqCap, m + 1) \in Nat
      BY <3>1, PolicyAssumption DEF AtMost
    <3> QED BY <3>2 DEF m
  <2> HIDE DEF n
  <2> QED BY <1>5, <2>1, <2>2, Remarked
<1> QED BY <1>1, <1>2, <1>3, <1>4, <1>5 DEF PolicyNames

LEMMA RemoveSound ==
  ASSUME NEW p, Sound(p), NEW k \in Key
  PROVE  /\ Sound(remove(p, k)) /\ Resident(remove(p, k)) = Resident(p) \ {k}
         /\ remove(p, k).name = p.name /\ remove(p, k).capacity = p.capacity
         /\ remove(p, k).store = RemoveFirst(p.store, k)
         /\ p.name = "lru" /\ k \in Resident(p) => Len(remove(p, k).store) < p.capacity
<1> DEFINE q == remove(p, k)
           s == p.store
           m == p.main
           t == RemoveFirst(s, k)
           u == RemoveFirst(m, k)
<1>1. /\ p \in Policies /\ p.mark \in [Key -> Nat]
      /\ s \in Seq(Key) /\ m \in Seq(Key) /\ IsInjective(s) /\ IsInjective(m)
      /\ Range(s) \cap Range(m) = {} /\ Shape(p) /\ Len(s) \in Nat /\ Len(m) \in Nat
      /\ StoreCap(p) \in Nat /\ RestCap(p) \in Nat
      /\ Len(s) <= StoreCap(p) /\ Len(m) <= RestCap(p)
  BY FieldFacts, CapacityFacts DEF Sound, Shape
<1>2. q = [p EXCEPT !.store = t, !.main = u, !.mark[k] = 0]
  BY <1>1 DEF remove, Policies
<1>3. Resident(p) = Range(s) \cup Range(m)
  BY DEF Resident
<1> HIDE DEF s, m, q
<1>4. /\ t \in Seq(Key) /\ IsInjective(t) /\ Range(t) = Range(s) \ {k}
      /\ k \in Range(s) => Len(t) = Len(s) - 1
      /\ k \notin Range(s) => t = s
  BY <1>1, QueueRemoveFirst
<1>5. /\ u \in Seq(Key) /\ IsInjective(u) /\ Range(u) = Range(m) \ {k}
      /\ k \in Range(m) => Len(u) = Len(m) - 1
      /\ k \notin Range(m) => u = m
  BY <1>1, QueueRemoveFirst
<1> HIDE DEF t, u
<1>6. /\ Len(t) <= StoreCap(p) /\ Len(u) <= RestCap(p)
      /\ k \in Range(s) => Len(t) < StoreCap(p)
  BY <1>1, <1>4, <1>5
<1>7. /\ q \in Policies /\ q.name = p.name /\ q.capacity = p.capacity
      /\ q.store = t /\ q.main = u /\ q.ghost = p.ghost
      /\ q.mark = [p.mark EXCEPT ![k] = 0]
  BY <1>1, <1>2, <1>4, <1>5 DEF Policies
<1>8. Resident(q) = Resident(p) \ {k}
  BY <1>3, <1>4, <1>5, <1>7 DEF Resident
<1>9. Shape(q)
  <2>1. /\ StoreCap(q) = StoreCap(p) /\ RestCap(q) = RestCap(p)
        /\ GhostCap(q) = GhostCap(p) /\ (IsS3(q) <=> IsS3(p))
    BY <1>7, SameCaps
  <2>2. /\ IsInjective(p.ghost) /\ Range(p.ghost) \cap Resident(p) = {}
        /\ Len(p.ghost) <= GhostCap(p) /\ (~IsS3(p) => p.ghost = <<>>)
    BY <1>1 DEF Shape
  <2>3. Range(t) \cap Range(u) = {}
    BY <1>1, <1>4, <1>5
  <2> QED BY <1>4, <1>5, <1>6, <1>7, <1>8, <2>1, <2>2, <2>3 DEF Shape
<1>10. Unmarked(q, {})
  BY <1>1, <1>7, <1>8 DEF Unmarked, Sound
<1>11. p.name = "lru" /\ k \in Resident(p) => Len(t) < p.capacity
  <2> SUFFICES ASSUME p.name = "lru", k \in Resident(p) PROVE Len(t) < p.capacity
    OBVIOUS
  <2>1. ~IsS3(p)
    BY DEF IsS3, S3Family
  <2>2. p.main = <<>> /\ p.capacity = StoreCap(p)
    BY <2>1, OtherQueues
  <2>3. Range(m) = {}
    BY <2>2, EmptyQueue DEF m
  <2> QED BY <1>3, <1>6, <2>2, <2>3
<1> QED BY <1>7, <1>8, <1>9, <1>10, <1>11 DEF Sound, q, t, s

\* access() brings in at most the block it is asked for.
LEMMA AccessSound ==
  ASSUME NEW p, Sound(p), NEW k \in Key, NEW b \in Nat
  PROVE  /\ Sound(access(p, k, b).policy)
         /\ access(p, k, b).policy.name = p.name
         /\ access(p, k, b).policy.capacity = p.capacity
         /\ Resident(access(p, k, b).policy) \subseteq Resident(p) \cup {k}
<1>1. CASE k \in Resident(p)
  <2>1. access(p, k, b).policy = Hit(p, k, b)
    BY <1>1, KeptFacts DEF access, contains
  <2> DEFINE t == touch(p, k)
  <2>2. /\ Sound(t) /\ Resident(t) = Resident(p) /\ t.name = p.name
        /\ t.capacity = p.capacity
    BY TouchSound
  <2>3. CASE p.name = "prefix_lru"
    <3>1. Hit(p, k, b) = [t EXCEPT !.mark[k] = b]
      BY <2>3 DEF Hit
    <3> HIDE DEF t
    <3> QED BY <1>1, <2>1, <2>2, <3>1, Remarked
  <2>4. CASE p.name # "prefix_lru"
    BY <2>1, <2>2, <2>4 DEF Hit
  <2> QED BY <2>3, <2>4
<1>2. CASE k \notin Resident(p) /\ Bypassed(p, k, b)
  BY <1>2, KeptFacts DEF access, contains
<1>3. CASE k \notin Resident(p) /\ ~Bypassed(p, k, b)
  <2>1. access(p, k, b) = admit(p, k, b)
    BY <1>3 DEF access, contains
  <2> QED BY <1>3, <2>1, AdmitSound DEF Admitted
<1> QED BY <1>1, <1>2, <1>3

----------------------------------------------------------------------------
(* Two tiers. *)

TwoPolicies == [fast : Policies, slow : Policies]

\* Each tier is sound and no block is in both.
TiersOK(t) ==
  /\ t \in TwoPolicies /\ Sound(t.fast) /\ Sound(t.slow)
  /\ Resident(t.fast) \cap Resident(t.slow) = {}

Held(t) == Resident(t.fast) \cup Resident(t.slow)

SameKind(t, u) ==
  /\ u.fast.name = t.fast.name /\ u.fast.capacity = t.fast.capacity
  /\ u.slow.name = t.slow.name /\ u.slow.capacity = t.slow.capacity

\* What an admission to the fast tier may cost: nothing, or the oldest block
\* of a full slow tier.
Cost(t, k, u) ==
  \/ Held(u) = Held(t) \cup {k}
  \/ /\ Len(t.slow.store) = t.slow.capacity /\ Head(t.slow.store) \in Held(t)
     /\ Held(u) = (Held(t) \cup {k}) \ {Head(t.slow.store)}

LEMMA AdmitFastSound ==
  ASSUME NEW t, TiersOK(t), NEW k \in Key, k \notin Held(t)
  PROVE  LET u == AdmitFast(t, k)
         IN  /\ TiersOK(u) /\ SameKind(t, u) /\ Held(u) \subseteq Held(t) \cup {k}
             /\ t.slow.name = "lru" => Cost(t, k, u)
<1> DEFINE u == AdmitFast(t, k)
           o == admit(t.fast, k, 0)
           v == o.victim
           F == Resident(t.fast)
           S == Resident(t.slow)
<1>1. /\ t \in TwoPolicies /\ Sound(t.fast) /\ Sound(t.slow) /\ F \cap S = {}
      /\ k \notin F /\ k \notin S /\ Held(t) = F \cup S
      /\ t.fast \in Policies /\ t.slow \in Policies /\ F \subseteq Key /\ S \subseteq Key
  BY FieldFacts DEF TiersOK, Held, Sound, Shape
<1>2. Admitted(t.fast, k, o)
  BY <1>1, AdmitSound
<1>3. /\ u.fast = o.policy
      /\ u.slow = IF v = NoKey THEN t.slow ELSE admit(t.slow, v, 0).policy
      /\ u = [fast |-> u.fast, slow |-> u.slow]
  BY DEF AdmitFast
<1> HIDE DEF u, o
<1>4. /\ Sound(u.fast) /\ u.fast.name = t.fast.name /\ u.fast.capacity = t.fast.capacity
      /\ u.fast \in Policies
  BY <1>2, <1>3 DEF Admitted, Sound, Shape
<1>5. CASE v = NoKey
  <2>1. Resident(u.fast) = F \cup {k}
    BY <1>1, <1>2, <1>3, <1>5, PolicyAssumption DEF Admitted
  <2>2. u.slow = t.slow
    BY <1>3, <1>5
  <2>3. TiersOK(u) /\ Held(u) = Held(t) \cup {k}
    BY <1>1, <1>3, <1>4, <2>1, <2>2 DEF TiersOK, Held, TwoPolicies
  <2> QED BY <1>4, <2>2, <2>3 DEF u, SameKind, Cost
<1>6. CASE v # NoKey
  <2> DEFINE p == t.slow
             r == admit(p, v, 0)
             w == r.victim
  <2>1. v \in F \cup {k} /\ Resident(u.fast) = (F \cup {k}) \ {v} /\ v \in Key
    BY <1>1, <1>2, <1>3, <1>6 DEF Admitted
  <2>2. v \notin S
    BY <1>1, <2>1
  <2>3. Admitted(p, v, r) /\ (p.name = "lru" => Oldest(p, v, r))
    BY <1>1, <2>1, <2>2, AdmitSound
  <2>4. u.slow = r.policy
    BY <1>3, <1>6
  <2> HIDE DEF r, v
  <2>5. /\ Sound(u.slow) /\ u.slow.name = p.name /\ u.slow.capacity = p.capacity
        /\ u.slow \in Policies
        /\ \/ w = NoKey /\ Resident(u.slow) = S \cup {v}
           \/ w \in S \cup {v} /\ Resident(u.slow) = (S \cup {v}) \ {w}
    BY <2>3, <2>4 DEF Admitted, Sound, Shape
  <2>6. TiersOK(u)
    BY <1>1, <1>3, <1>4, <2>1, <2>5 DEF TiersOK, TwoPolicies
  <2>7. Held(u) \subseteq Held(t) \cup {k}
    BY <1>1, <2>1, <2>5 DEF Held
  <2>8. ASSUME p.name = "lru" PROVE Cost(t, k, u)
    <3>1. CASE w = NoKey
      <4>1. NoKey \notin S \cup {v}
        BY <1>1, <2>1, PolicyAssumption
      <4>2. Resident(u.slow) = S \cup {v}
        BY <2>5, <3>1, <4>1
      <4>3. Held(u) = Held(t) \cup {k}
        BY <1>1, <2>1, <4>2 DEF Held
      <4> QED BY <4>3 DEF Cost
    <3>2. CASE w # NoKey
      <4>1. Len(p.store) = p.capacity /\ p.store # <<>> /\ w = Head(p.store)
        BY <2>3, <2>8, <3>2 DEF Oldest
      <4>2. p.store \in Seq(Key)
        BY <1>1, FieldFacts
      <4>3. w \in Range(p.store)
        <5> DEFINE s == p.store
        <5>1. s \in Seq(Key) /\ s # <<>> /\ w = Head(s)
          BY <4>1, <4>2
        <5> HIDE DEF s, w
        <5>2. w \in Range(s)
          BY <5>1, QueueTail
        <5> QED BY <5>2 DEF s
      <4>4. w \in S /\ Resident(u.slow) = (S \cup {v}) \ {w}
        BY <2>5, <3>2, <4>3 DEF Resident
      <4> HIDE DEF w
      <4>5. Held(u) = (Held(t) \cup {k}) \ {w}
        BY <1>1, <2>1, <2>2, <4>4 DEF Held
      <4> QED BY <1>1, <4>1, <4>4, <4>5 DEF Cost
    <3> QED BY <3>1, <3>2
  <2> QED BY <1>4, <2>5, <2>6, <2>7, <2>8 DEF u, SameKind
<1> QED BY <1>5, <1>6

\* A promotion moves a block, and an LRU slow tier then has room for the one
\* that makes way.
LEMMA PromoteSound ==
  ASSUME NEW t, TiersOK(t), NEW k \in Resident(t.slow)
  PROVE  LET u == Promote(t, k)
         IN  /\ TiersOK(u) /\ SameKind(t, u) /\ Held(u) \subseteq Held(t)
             /\ t.slow.name = "lru" => Held(u) = Held(t)
<1> DEFINE q == remove(t.slow, k)
           a == [t EXCEPT !.slow = q]
           u == Promote(t, k)
<1>1. /\ t \in TwoPolicies /\ Sound(t.fast) /\ Sound(t.slow) /\ k \in Key
      /\ Resident(t.fast) \cap Resident(t.slow) = {}
  BY FieldFacts DEF TiersOK, Sound, Shape
<1>2. /\ Sound(q) /\ Resident(q) = Resident(t.slow) \ {k} /\ q \in Policies
      /\ q.name = t.slow.name /\ q.capacity = t.slow.capacity
      /\ t.slow.name = "lru" => Len(q.store) < q.capacity
  <2> DEFINE p == t.slow
  <2>1. Sound(p) /\ k \in Resident(p)
    BY <1>1
  <2> HIDE DEF p
  <2>2. /\ Sound(remove(p, k)) /\ Resident(remove(p, k)) = Resident(p) \ {k}
        /\ remove(p, k).name = p.name /\ remove(p, k).capacity = p.capacity
        /\ p.name = "lru" => Len(remove(p, k).store) < p.capacity
    BY <1>1, <2>1, RemoveSound
  <2>3. remove(p, k) \in Policies
    BY <2>2 DEF Sound, Shape
  <2> QED BY <2>2, <2>3 DEF p
<1>3. u = AdmitFast(a, k)
  BY <1>1 DEF Promote, TwoPolicies
<1> HIDE DEF q, u
<1>4. a \in TwoPolicies /\ a.fast = t.fast /\ a.slow = q
  BY <1>1, <1>2 DEF TwoPolicies
<1> HIDE DEF a
<1>5. TiersOK(a) /\ SameKind(t, a) /\ Held(a) = Held(t) \ {k} /\ k \notin Held(a) /\ k \in Held(t)
  BY <1>1, <1>2, <1>4 DEF TiersOK, SameKind, Held
<1>6. /\ TiersOK(u) /\ SameKind(a, u) /\ Held(u) \subseteq Held(a) \cup {k}
      /\ a.slow.name = "lru" => Cost(a, k, u)
  BY <1>1, <1>3, <1>5, AdmitFastSound
<1>7. Held(a) \cup {k} = Held(t)
  BY <1>5
<1>8. ASSUME t.slow.name = "lru" PROVE Held(u) = Held(t)
  <2>1. Cost(a, k, u)
    BY <1>2, <1>4, <1>6, <1>8
  <2>2. Len(q.store) # q.capacity
    <3> DEFINE n == Len(q.store)
               c == q.capacity
    <3>1. n \in Nat /\ c \in Nat /\ n < c
      BY <1>2, <1>8, FieldFacts
    <3> HIDE DEF n, c
    <3>2. n # c
      BY <3>1
    <3> QED BY <3>2 DEF n, c
  <2> QED BY <1>4, <1>7, <2>1, <2>2 DEF Cost
<1>9. SameKind(t, u)
  BY <1>5, <1>6 DEF SameKind
<1> QED BY <1>6, <1>7, <1>8, <1>9 DEF u

\* The prefetch of one anchor: the tiers of its turns.
Walked ==
  {w \in [tiers : TwoPolicies, cursor : Key \cup {NoKey}] :
     /\ TiersOK(w.tiers) /\ SameKind(Tiers, w.tiers) /\ Held(w.tiers) \subseteq Held(Tiers)
     /\ slow.name = "lru" => Held(w.tiers) = Held(Tiers)}

Graph == DOMAIN successor \subseteq Key /\ \A j \in DOMAIN successor : successor[j] \in Key

LEMMA HopSound ==
  ASSUME Graph, NEW w \in Walked
  PROVE  Hop(w) \in Walked
<1>1. /\ w \in [tiers : TwoPolicies, cursor : Key \cup {NoKey}]
      /\ TiersOK(w.tiers) /\ SameKind(Tiers, w.tiers) /\ Held(w.tiers) \subseteq Held(Tiers)
      /\ slow.name = "lru" => Held(w.tiers) = Held(Tiers)
  BY DEF Walked
<1>2. CASE w.cursor \notin DOMAIN successor
  <2> DEFINE x == [w EXCEPT !.cursor = NoKey]
  <2>1. Hop(w) = x
    BY <1>2 DEF Hop
  <2>2. x \in [tiers : TwoPolicies, cursor : Key \cup {NoKey}] /\ x.tiers = w.tiers
    BY <1>1
  <2> HIDE DEF x
  <2> QED BY <1>1, <2>1, <2>2 DEF Walked
<1>3. CASE w.cursor \in DOMAIN successor
  <2> DEFINE next == successor[w.cursor]
             t == w.tiers
             u == IF contains(t.slow, next) THEN Promote(t, next) ELSE t
             x == [tiers |-> u, cursor |-> next]
  <2>1. Hop(w) = x
    BY <1>3 DEF Hop
  <2>2. next \in Key /\ TiersOK(t)
    BY <1>1, <1>3 DEF Graph
  <2> HIDE DEF next, t
  <2>3. /\ TiersOK(u) /\ SameKind(t, u) /\ Held(u) \subseteq Held(t)
        /\ t.slow.name = "lru" => Held(u) = Held(t)
    <3>1. CASE next \in Resident(t.slow)
      BY <2>2, <3>1, PromoteSound DEF contains
    <3>2. CASE next \notin Resident(t.slow)
      BY <2>2, <3>2 DEF contains, SameKind
    <3> QED BY <3>1, <3>2
  <2> HIDE DEF u
  <2>4. x \in [tiers : TwoPolicies, cursor : Key \cup {NoKey}] /\ x.tiers = u
    BY <2>2, <2>3 DEF TiersOK
  <2> HIDE DEF x
  <2>5. SameKind(Tiers, t) /\ Held(t) \subseteq Held(Tiers)
        /\ (slow.name = "lru" => Held(t) = Held(Tiers))
    BY <1>1 DEF t
  <2>6. t.slow.name = slow.name
    BY <2>5 DEF SameKind, Tiers
  <2>7. SameKind(Tiers, u)
    BY <2>3, <2>5 DEF SameKind
  <2> QED BY <2>1, <2>3, <2>4, <2>5, <2>6, <2>7 DEF Walked
<1> QED BY <1>2, <1>3

LEMMA WalkSound ==
  ASSUME Graph, TiersOK(Tiers), NEW anchor \in Key, request \in Seq(Key), depth \in Nat
  PROVE  /\ TiersOK(Walk(anchor)) /\ SameKind(Tiers, Walk(anchor))
         /\ Held(Walk(anchor)) \subseteq Held(Tiers)
         /\ slow.name = "lru" => Held(Walk(anchor)) = Held(Tiers)
<1> DEFINE n == Len(request) + depth
           base == [tiers |-> Tiers, cursor |-> anchor]
           turns == [x \in (1..n) \X Walked |-> Hop(x[2])]
           Body(f, i) == IF i = 0 THEN base ELSE Hop(f[i - 1])
           Run(f) == f = [i \in 0..n |-> Body(f, i)]
<1>1. n \in Nat
  OBVIOUS
<1>2. base \in Walked
  <2>1. Tiers \in TwoPolicies
    BY DEF TiersOK
  <2>2. base \in [tiers : TwoPolicies, cursor : Key \cup {NoKey}] /\ base.tiers = Tiers
    <3> HIDE DEF Tiers
    <3> QED BY <2>1
  <2>3. SameKind(Tiers, Tiers)
    BY DEF SameKind
  <2> HIDE DEF base
  <2> QED BY <2>2, <2>3 DEF Walked
<1>3. IsLoop(turns, n, Walked)
  BY HopSound DEF IsLoop
<1>4. PICK g : IsRun(g, turns, n, Walked, base)
  <2> HIDE DEF turns, n, base
  <2> QED BY <1>1, <1>2, <1>3, LoopResult
<1>5. Run(g)
  <2>1. ASSUME NEW i \in 0..n PROVE g[i] = Body(g, i)
    <3> HIDE DEF n, base
    <3>1. CASE i = 0
      BY <1>4, <3>1 DEF IsRun
    <3>2. CASE i # 0
      <4>1. i \in 1..n /\ i - 1 \in 0..n
        BY <1>1, <3>2
      <4>2. g[i - 1] \in Walked
        BY <1>4, <4>1 DEF IsRun
      <4>3. turns[<<i, g[i - 1]>>] = Hop(g[i - 1])
        BY <4>1, <4>2
      <4> QED BY <1>4, <3>2, <4>1, <4>3 DEF IsRun
    <3> QED BY <3>1, <3>2
  <2>2. DOMAIN g = 0..n /\ g = [i \in DOMAIN g |-> g[i]]
    BY <1>4 DEF IsRun
  <2> HIDE DEF Body, n
  <2> QED BY <2>1, <2>2
<1>6. Walk(anchor) = (CHOOSE f : Run(f))[n].tiers
  BY DEF Walk
<1>7. PICK f : Run(f) /\ Walk(anchor) = f[n].tiers
  <2> HIDE DEF Run
  <2> QED BY <1>5, <1>6
<1>8. \A i \in 0..n : f[i] = Body(f, i)
  <2> HIDE DEF Body, n
  <2> QED BY <1>7
<1> HIDE DEF n, base
<1> DEFINE T == {m \in 0..n : f[m] \in Walked}
<1>9. 0 \in T
  BY <1>1, <1>2, <1>8
<1>10. ASSUME NEW m \in 1..n, m - 1 \in T PROVE m \in T
  <2>1. m \in 0..n /\ f[m] = Hop(f[m - 1])
    BY <1>1, <1>8
  <2> QED BY <1>10, <2>1, HopSound
<1>11. n \in T
  <2>1. T \in SUBSET (0..n) /\ n \in 0..n
    BY <1>1
  <2> HIDE DEF T
  <2> QED BY <1>1, <1>9, <1>10, <2>1, Upwards
<1> QED BY <1>7, <1>11 DEF Walked

----------------------------------------------------------------------------
(* The inductive invariant of the simulator: the tiers, and where the        *)
(* running request is.                                                       *)

SimType ==
  /\ depth \in Nat /\ request \in Seq(Key) /\ turn \in Nat \ {0}
  /\ phase \in {"idle", "prefetch", "access"}
  /\ block_hits \in Seq({"fast", "slow", "miss"})
  /\ phase = "prefetch" => turn <= Len(request) /\ depth # 0
  /\ phase = "access" => turn <= Len(request) + 1 /\ Len(block_hits) = turn - 1
  /\ phase # "access" => block_hits = <<>>
  /\ phase = "idle" => request = <<>> /\ turn = 1

SimInv == SimType /\ Graph /\ TiersOK(Tiers)

LEMMA SimIsSound == SimInv => TiersSound
<1> SUFFICES ASSUME SimInv PROVE TiersSound
  OBVIOUS
<1>1. Sound(fast) /\ Sound(slow) /\ Resident(fast) \cap Resident(slow) = {}
  BY DEF SimInv, TiersOK, Tiers
<1> QED BY <1>1, SoundIsWellFormed DEF TiersSound

LEMMA NoGraph == ASSUME successor = [k \in {} |-> NoKey] PROVE Graph
BY DEF Graph

LEMMA EmptyTiers ==
  ASSUME NEW a \in PolicyNames, NEW b \in PolicyNames,
         NEW m \in Nat \ {0}, NEW n \in Nat \ {0}
  PROVE  LET t == [fast |-> make_policy(a, m), slow |-> make_policy(b, n)]
         IN  TiersOK(t) /\ Held(t) = {} /\ Resident(t.slow) = {}
<1> DEFINE f == make_policy(a, m)
           s == make_policy(b, n)
           t == [fast |-> f, slow |-> s]
<1>1. /\ Sound(f) /\ Resident(f) = {} /\ Sound(s) /\ Resident(s) = {}
  BY NewPolicy
<1>2. f \in Policies /\ s \in Policies
  BY <1>1 DEF Sound, Shape
<1> HIDE DEF f, s
<1>3. t.fast = f /\ t.slow = s /\ t \in TwoPolicies
  BY <1>2 DEF TwoPolicies
<1> HIDE DEF t
<1>4. TiersOK(t) /\ Held(t) = {} /\ Resident(t.slow) = {}
  BY <1>1, <1>3 DEF TiersOK, Held
<1> QED BY <1>4 DEF t, f, s

LEMMA NoRequest ==
  ASSUME depth \in Nat, request = <<>>, phase = "idle", turn = 1, block_hits = <<>>
  PROVE  SimType
<1>1. request \in Seq(Key) /\ block_hits \in Seq({"fast", "slow", "miss"})
  BY EmptySeq
<1> QED BY <1>1 DEF SimType

LEMMA InitSim == Init => SimInv
<1> SUFFICES ASSUME Init PROVE SimInv
  OBVIOUS
<1>1. PICK a \in FastPolicies, m \in FastBlocks : fast = make_policy(a, m)
  BY DEF Init
<1>2. PICK b \in SlowPolicies, n \in SlowBlocks : slow = make_policy(b, n)
  BY DEF Init
<1>3. /\ a \in PolicyNames /\ b \in PolicyNames /\ m \in Nat \ {0} /\ n \in Nat \ {0}
      /\ PrefetchDepths \subseteq Nat
  BY SimulatorAssumption
<1>4. TiersOK(Tiers)
  BY <1>1, <1>2, <1>3, EmptyTiers DEF Tiers
<1>5. SimType
  BY <1>3, NoRequest DEF Init
<1> QED BY <1>4, <1>5, NoGraph DEF Init, SimInv

\* What a step does to the blocks that are held.
Moves == Held(Tiers') \subseteq Held(Tiers) /\ (slow.name = "lru" => Held(Tiers') = Held(Tiers))

LEMMA HeldFacts ==
  /\ Held(Tiers) = InTiers
  /\ Held(Tiers') = Resident(fast') \cup Resident(slow')
BY DEF Held, Tiers, InTiers

LEMMA SetTiersFacts ==
  ASSUME NEW t, t \in TwoPolicies, SetTiers(t)
  PROVE  Tiers' = t
<1>1. t = [fast |-> t.fast, slow |-> t.slow]
  BY DEF TwoPolicies
<1> QED BY <1>1 DEF SetTiers, Tiers

LEMMA TiersUnchanged ==
  ASSUME UNCHANGED tiers, TiersOK(Tiers)
  PROVE  TiersOK(Tiers)' /\ Moves
<1>1. Tiers' = Tiers
  BY DEF tiers, Tiers
<1>2. TiersOK(Tiers')
  BY <1>1
<1> QED BY <1>1, <1>2 DEF Moves

LEMMA ArriveKeeps ==
  ASSUME SimInv, NEW hash_ids \in Seq(Key), Arrive(hash_ids)
  PROVE  SimInv' /\ Moves /\ block_hits' = <<>>
<1>1. TiersOK(Tiers)' /\ Moves /\ Graph'
  BY TiersUnchanged DEF SimInv, Arrive, Graph
<1>2. SimType'
  <2>1. /\ depth' = depth /\ request' = hash_ids /\ turn' = 1 /\ block_hits' = <<>>
        /\ phase' = IF depth = 0 \/ hash_ids = <<>> THEN "access" ELSE "prefetch"
        /\ depth \in Nat
    BY DEF Arrive, SimInv, SimType
  <2>2. block_hits' \in Seq({"fast", "slow", "miss"}) /\ Len(block_hits') = 0
    BY <2>1, EmptySeq
  <2>3. Len(hash_ids) \in Nat /\ (hash_ids # <<>> => Len(hash_ids) >= 1)
    OBVIOUS
  <2> QED BY <2>1, <2>2, <2>3 DEF SimType
<1> QED BY <1>1, <1>2 DEF SimInv, Arrive

LEMMA PrefetchKeeps ==
  ASSUME SimInv, PrefetchAnchor
  PROVE  SimInv' /\ Moves /\ UNCHANGED block_hits
<1> DEFINE anchor == request[turn]
<1>1. /\ phase = "prefetch" /\ NextTurn /\ turn \in Nat \ {0} /\ turn <= Len(request)
      /\ UNCHANGED <<depth, successor, request, block_hits>> /\ request \in Seq(Key)
      /\ Graph /\ TiersOK(Tiers) /\ depth \in Nat /\ depth # 0 /\ block_hits = <<>>
      /\ block_hits \in Seq({"fast", "slow", "miss"})
  BY DEF PrefetchAnchor, SimInv, SimType
<1>2. anchor \in Key
  BY <1>1
<1>3. TiersOK(Tiers)' /\ Moves
  <2>1. CASE InStore(Tiers, anchor)
    <3> DEFINE t == Walk(anchor)
    <3>1. SetTiers(t)
      BY <2>1 DEF PrefetchAnchor
    <3>2. /\ TiersOK(t) /\ Held(t) \subseteq Held(Tiers)
          /\ slow.name = "lru" => Held(t) = Held(Tiers)
      BY <1>1, <1>2, WalkSound
    <3> HIDE DEF t
    <3>3. Tiers' = t
      BY <3>1, <3>2, SetTiersFacts DEF TiersOK
    <3>4. TiersOK(Tiers')
      BY <3>2, <3>3
    <3> QED BY <3>2, <3>3, <3>4 DEF Moves
  <2>2. CASE ~InStore(Tiers, anchor)
    BY <1>1, <2>2, TiersUnchanged DEF PrefetchAnchor
  <2> QED BY <2>1, <2>2
<1>4. SimType'
  <2>1. /\ Len(request) \in Nat /\ Len(block_hits) = 0
    BY <1>1
  <2>2. CASE turn = Len(request)
    <3>1. phase' = "access" /\ turn' = 1
      BY <1>1, <2>2 DEF NextTurn
    <3> QED BY <1>1, <2>1, <3>1 DEF SimType
  <2>3. CASE turn # Len(request)
    <3>1. phase' = "prefetch" /\ turn' = turn + 1
      BY <1>1, <2>3 DEF NextTurn
    <3>2. turn + 1 <= Len(request) /\ turn + 1 \in Nat \ {0}
      BY <1>1, <2>1, <2>3
    <3> QED BY <1>1, <2>1, <3>1, <3>2 DEF SimType
  <2> QED BY <2>2, <2>3
<1>5. Graph'
  BY <1>1 DEF Graph
<1> QED BY <1>1, <1>3, <1>4, <1>5 DEF SimInv

\* What an access notes, whatever tier the block is in.
LEMMA AccessingKeeps ==
  ASSUME SimInv, NEW k \in Key, NEW found \in {"fast", "slow", "miss"}, Accessing(k, found)
  PROVE  /\ SimType' /\ Graph' /\ k = request[turn] /\ phase = "access"
         /\ Len(block_hits') = Len(block_hits) + 1 /\ Last(block_hits') = found
<1>1. /\ phase = "access" /\ turn <= Len(request) /\ k = request[turn]
      /\ block_hits' = Append(block_hits, found) /\ NextTurn
      /\ depth' = depth /\ request' = request
      /\ successor' = IF turn = 1 THEN successor
                      ELSE [j \in DOMAIN successor \cup {request[turn - 1]} |->
                              IF j = request[turn - 1] THEN k ELSE successor[j]]
  BY DEF Accessing
<1>2. /\ depth \in Nat /\ request \in Seq(Key) /\ turn \in Nat \ {0}
      /\ block_hits \in Seq({"fast", "slow", "miss"}) /\ Len(block_hits) = turn - 1
      /\ Graph
  BY <1>1 DEF SimInv, SimType
<1>3. turn' = turn + 1 /\ phase' = "access"
  BY <1>1 DEF NextTurn
<1>4. /\ block_hits' \in Seq({"fast", "slow", "miss"}) /\ Len(block_hits') = Len(block_hits) + 1
      /\ block_hits'[Len(block_hits) + 1] = found
  BY <1>1, <1>2, AppendProperties
<1>5. Last(block_hits') = found
  BY <1>4 DEF Last
<1>6. SimType'
  <2>1. Len(request) \in Nat /\ turn + 1 \in Nat \ {0} /\ turn + 1 <= Len(request) + 1
    BY <1>1, <1>2
  <2>2. Len(block_hits) + 1 = (turn + 1) - 1
    BY <1>2
  <2> QED BY <1>1, <1>2, <1>3, <1>4, <2>1, <2>2 DEF SimType
<1>7. Graph'
  <2>1. CASE turn = 1
    BY <1>1, <1>2, <2>1 DEF Graph
  <2>2. CASE turn # 1
    <3> DEFINE prior == request[turn - 1]
    <3>1. prior \in Key
      <4>1. turn - 1 \in 1..Len(request)
        BY <1>1, <1>2, <2>2
      <4> QED BY <1>2, <4>1
    <3>2. successor' = [j \in DOMAIN successor \cup {prior} |->
                          IF j = prior THEN k ELSE successor[j]]
      BY <1>1, <2>2
    <3> HIDE DEF prior
    <3> QED BY <1>2, <3>1, <3>2 DEF Graph
  <2> QED BY <2>1, <2>2
<1> QED BY <1>1, <1>4, <1>5, <1>6, <1>7

LEMMA FastHitKeeps ==
  ASSUME SimInv, NEW k \in Key, FastHit(k)
  PROVE  SimInv' /\ Moves /\ Last(block_hits') = "fast"
<1>1. /\ contains(fast, k) /\ fast' = touch(fast, k) /\ slow' = slow /\ Accessing(k, "fast")
      /\ Sound(fast) /\ Sound(slow) /\ Resident(fast) \cap Resident(slow) = {}
      /\ slow \in Policies
  BY DEF FastHit, SimInv, TiersOK, Tiers, Sound, Shape
<1>2. SimType' /\ Graph' /\ Last(block_hits') = "fast"
  BY <1>1, AccessingKeeps
<1>3. Sound(fast') /\ Resident(fast') = Resident(fast)
  BY <1>1, TouchSound
<1> DEFINE t == [fast |-> fast', slow |-> slow']
<1>4. /\ Tiers' = t /\ t.fast = fast' /\ t.slow = slow /\ t \in TwoPolicies
  BY <1>1, <1>3 DEF Tiers, TwoPolicies, Sound, Shape
<1> HIDE DEF t
<1>5. TiersOK(t)
  BY <1>1, <1>3, <1>4 DEF TiersOK
<1>6. Held(t) = Held(Tiers)
  BY <1>3, <1>4 DEF Held, Tiers
<1>7. TiersOK(Tiers)' /\ Moves
  BY <1>4, <1>5, <1>6 DEF Moves
<1> QED BY <1>2, <1>7 DEF SimInv

LEMMA SlowHitKeeps ==
  ASSUME SimInv, NEW k \in Key, SlowHit(k)
  PROVE  SimInv' /\ Moves /\ Last(block_hits') = "slow"
<1> DEFINE t == Promote(Tiers, k)
<1>1. TiersOK(Tiers) /\ k \in Resident(Tiers.slow) /\ SetTiers(t) /\ Accessing(k, "slow")
  BY DEF SlowHit, SimInv, Tiers, contains
<1>2. SimType' /\ Graph' /\ Last(block_hits') = "slow"
  BY <1>1, AccessingKeeps
<1>3. /\ TiersOK(t) /\ Held(t) \subseteq Held(Tiers)
      /\ Tiers.slow.name = "lru" => Held(t) = Held(Tiers)
  BY <1>1, PromoteSound
<1> HIDE DEF t
<1>4. Tiers' = t
  BY <1>1, <1>3, SetTiersFacts DEF TiersOK
<1>5. TiersOK(Tiers)' /\ Moves
  BY <1>3, <1>4 DEF Moves, Tiers
<1> QED BY <1>2, <1>5 DEF SimInv

LEMMA MissKeeps ==
  ASSUME SimInv, NEW k \in Key, Miss(k)
  PROVE  /\ SimInv' /\ Last(block_hits') = "miss" /\ k \notin InTiers
         /\ Held(Tiers') \subseteq Held(Tiers) \cup {k}
         /\ slow.name = "lru" => Cost(Tiers, k, Tiers')
<1> DEFINE t == AdmitFast(Tiers, k)
<1>1. TiersOK(Tiers) /\ k \notin Held(Tiers) /\ SetTiers(t) /\ Accessing(k, "miss")
  BY DEF Miss, SimInv, Tiers, InStore, contains, Held
<1>2. SimType' /\ Graph' /\ Last(block_hits') = "miss"
  BY <1>1, AccessingKeeps
<1>3. /\ TiersOK(t) /\ Held(t) \subseteq Held(Tiers) \cup {k}
      /\ Tiers.slow.name = "lru" => Cost(Tiers, k, t)
  BY <1>1, AdmitFastSound
<1> HIDE DEF t
<1>4. Tiers' = t
  BY <1>1, <1>3, SetTiersFacts DEF TiersOK
<1>5. TiersOK(Tiers)' /\ Tiers.slow = slow
  BY <1>3, <1>4 DEF Tiers
<1> QED BY <1>1, <1>2, <1>3, <1>4, <1>5, HeldFacts DEF SimInv

LEMMA ReturnKeeps ==
  ASSUME SimInv, Return
  PROVE  SimInv' /\ Moves /\ block_hits' = <<>>
<1>1. TiersOK(Tiers)' /\ Moves /\ Graph'
  BY TiersUnchanged DEF SimInv, Return, Graph
<1>2. SimType'
  <2>1. /\ depth' \in Nat /\ request' = <<>> /\ phase' = "idle" /\ turn' = 1
        /\ block_hits' = <<>>
    BY DEF Return, SimInv, SimType
  <2>2. request' \in Seq(Key) /\ block_hits' \in Seq({"fast", "slow", "miss"})
    BY <2>1, EmptySeq
  <2> QED BY <2>1, <2>2 DEF SimType
<1> QED BY <1>1, <1>2 DEF SimInv, Return

\* A step that moves blocks and notes no miss.
LEMMA MovesConserve ==
  ASSUME Moves, ~(Len(block_hits') > Len(block_hits) /\ Last(block_hits') = "miss")
  PROVE  Conserved
BY HeldFacts DEF Moves, Conserved

LEMMA MissConserves ==
  ASSUME SimInv, NEW k \in Key, Miss(k)
  PROVE  Conserved
<1> DEFINE after == Held(Tiers')
           missed == Len(block_hits') > Len(block_hits) /\ Last(block_hits') = "miss"
           lost == InTiers \ after
<1>1. /\ Accessing(k, "miss") /\ Last(block_hits') = "miss" /\ k \notin InTiers
      /\ after \subseteq InTiers \cup {k} /\ (slow.name = "lru" => Cost(Tiers, k, Tiers'))
  BY MissKeeps, HeldFacts DEF Miss
<1>2. k = request[turn] /\ missed
  <2>1. k = request[turn] /\ Len(block_hits') = Len(block_hits) + 1
    BY <1>1, AccessingKeeps
  <2>2. Len(block_hits) \in Nat
    BY DEF SimInv, SimType
  <2> QED BY <1>1, <2>1, <2>2
<1> HIDE DEF missed
<1>3. after = Resident(fast') \cup Resident(slow')
  BY HeldFacts
<1>4. ASSUME slow.name = "lru"
      PROVE  /\ k \in after
             /\ lost # {} => Len(slow.store) = slow.capacity /\ lost = {Head(slow.store)}
  <2> DEFINE h == Head(slow.store)
             full == Len(slow.store) = slow.capacity
  <2>1. \/ after = InTiers \cup {k}
        \/ full /\ h \in InTiers /\ after = (InTiers \cup {k}) \ {h}
    BY <1>1, <1>4, HeldFacts DEF Cost, Tiers
  <2> HIDE DEF after, h, full
  <2>2. k \in after /\ (lost # {} => full /\ lost = {h})
    BY <1>1, <2>1
  <2> QED BY <2>2 DEF h, full
<1>5. contains(fast', k) \/ contains(slow', k) <=> k \in after
  BY <1>3 DEF contains
<1> HIDE DEF after
<1>6. after \ InTiers \subseteq {k}
  BY <1>1
<1> QED BY <1>2, <1>3, <1>4, <1>5, <1>6 DEF Conserved, missed

LEMMA SimNext ==
  ASSUME SimInv, Next
  PROVE  SimInv' /\ Conserved
<1>0. block_hits \in Seq({"fast", "slow", "miss"}) /\ Len(block_hits) \in Nat
  BY DEF SimInv, SimType
<1>1. ASSUME NEW hash_ids \in Requests, Arrive(hash_ids) PROVE SimInv' /\ Conserved
  <2>1. hash_ids \in Seq(Key)
    BY SimulatorAssumption DEF Requests
  <2>2. SimInv' /\ Moves /\ block_hits' = <<>>
    BY <1>1, <2>1, ArriveKeeps
  <2>3. ~(Len(block_hits') > Len(block_hits))
    BY <1>0, <2>2
  <2> QED BY <2>2, <2>3, MovesConserve
<1>2. ASSUME PrefetchAnchor PROVE SimInv' /\ Conserved
  <2>1. SimInv' /\ Moves /\ block_hits' = block_hits
    BY <1>2, PrefetchKeeps
  <2>2. ~(Len(block_hits') > Len(block_hits))
    BY <1>0, <2>1
  <2> QED BY <2>1, <2>2, MovesConserve
<1>3. ASSUME NEW k \in Key, FastHit(k) PROVE SimInv' /\ Conserved
  BY <1>3, FastHitKeeps, MovesConserve
<1>4. ASSUME NEW k \in Key, SlowHit(k) PROVE SimInv' /\ Conserved
  BY <1>4, SlowHitKeeps, MovesConserve
<1>5. ASSUME NEW k \in Key, Miss(k) PROVE SimInv' /\ Conserved
  BY <1>5, MissKeeps, MissConserves
<1>6. ASSUME Return PROVE SimInv' /\ Conserved
  <2>1. SimInv' /\ Moves /\ block_hits' = <<>>
    BY <1>6, ReturnKeeps
  <2>2. ~(Len(block_hits') > Len(block_hits))
    BY <1>0, <2>1
  <2> QED BY <2>1, <2>2, MovesConserve
<1> QED BY <1>1, <1>2, <1>3, <1>4, <1>5, <1>6 DEF Next, AccessBlock

LEMMA SimStutters ==
  ASSUME SimInv, UNCHANGED vars
  PROVE  SimInv'
BY DEF SimInv, SimType, Graph, TiersOK, TwoPolicies, Tiers, tiers, vars

LEMMA SimInvariance == Spec => []SimInv
<1>1. ASSUME SimInv, [Next]_vars PROVE SimInv'
  BY <1>1, SimNext, SimStutters
<1> QED BY <1>1, InitSim, PTL DEF Spec

\* Whatever the policies and the capacities: the queues of both tiers stay
\* apart and within their bounds at every turn of process_request, and no
\* block is in both tiers.
THEOREM TiersStaySound == Spec => []TiersSound
BY SimInvariance, SimIsSound, PTL

\* No block comes from nowhere, and an LRU slow tier loses one only to a miss
\* that finds it full, the one it kept longest.
THEOREM BlocksAreConserved == Spec => BlocksConserved
<1>1. ASSUME SimInv, [Next]_vars PROVE [Conserved]_vars
  BY <1>1, SimNext
<1> QED BY <1>1, SimInvariance, PTL DEF Spec, BlocksConserved

----------------------------------------------------------------------------
(* Replays.  A trace without its blank lines. *)

LEMMA PlanFacts ==
  ASSUME NEW S, NEW ls \in Seq(S)
  PROVE  parse_trace_lines(ls) \in Seq({l \in Range(ls) : l.kind # "blank"})
<1> DEFINE n == Len(ls)
           X == Seq({l \in Range(ls) : l.kind # "blank"})
           turns == [x \in (1..n) \X X |-> IF ls[x[1]].kind = "blank" THEN x[2]
                                           ELSE Append(x[2], ls[x[1]])]
           Body(f, i) == IF i = 0 THEN <<>>
                         ELSE IF ls[i].kind = "blank" THEN f[i - 1]
                         ELSE Append(f[i - 1], ls[i])
           Run(f) == f = [i \in 0..n |-> Body(f, i)]
<1>1. n \in Nat /\ \A i \in 1..n : ls[i] \in Range(ls)
  BY DEF Range
<1>2. <<>> \in X
  BY EmptySeq
<1>3. ASSUME NEW i \in 1..n, NEW s \in X
      PROVE  (IF ls[i].kind = "blank" THEN s ELSE Append(s, ls[i])) \in X
  <2>1. CASE ls[i].kind = "blank"
    BY <2>1
  <2>2. CASE ls[i].kind # "blank"
    <3>1. ls[i] \in {l \in Range(ls) : l.kind # "blank"}
      BY <1>1, <2>2
    <3> QED BY <2>2, <3>1, AppendProperties
  <2> QED BY <2>1, <2>2
<1> HIDE DEF X
<1>4. IsLoop(turns, n, X)
  BY <1>3 DEF IsLoop
<1>5. PICK g : IsRun(g, turns, n, X, <<>>)
  <2> HIDE DEF turns, n
  <2> QED BY <1>1, <1>2, <1>4, LoopResult
<1>6. Run(g)
  <2>1. ASSUME NEW i \in 0..n PROVE g[i] = Body(g, i)
    <3> HIDE DEF n
    <3>1. CASE i = 0
      BY <1>5, <3>1 DEF IsRun
    <3>2. CASE i # 0
      <4>1. i \in 1..n /\ i - 1 \in 0..n
        BY <1>1, <3>2
      <4>2. g[i - 1] \in X
        BY <1>5, <4>1 DEF IsRun
      <4>3. turns[<<i, g[i - 1]>>] = IF ls[i].kind = "blank" THEN g[i - 1]
                                     ELSE Append(g[i - 1], ls[i])
        BY <4>1, <4>2
      <4>4. g[i] = turns[<<i, g[i - 1]>>]
        BY <1>5, <4>1 DEF IsRun
      <4> QED BY <3>2, <4>3, <4>4
    <3> QED BY <3>1, <3>2
  <2>2. DOMAIN g = 0..n /\ g = [i \in DOMAIN g |-> g[i]]
    BY <1>5 DEF IsRun
  <2> HIDE DEF Body, n
  <2> QED BY <2>1, <2>2
<1>7. parse_trace_lines(ls) = (CHOOSE f : Run(f))[n]
  BY DEF parse_trace_lines
<1>8. PICK f : Run(f) /\ parse_trace_lines(ls) = f[n]
  <2> HIDE DEF Run
  <2> QED BY <1>6, <1>7
<1>9. \A i \in 0..n : f[i] = Body(f, i)
  <2> HIDE DEF Body, n
  <2> QED BY <1>8
<1> HIDE DEF n
<1> DEFINE T == {m \in 0..n : f[m] \in X}
<1>10. 0 \in T
  BY <1>1, <1>2, <1>9
<1>11. ASSUME NEW m \in 1..n, m - 1 \in T PROVE m \in T
  <2>1. m \in 0..n /\ f[m - 1] \in X
    BY <1>1, <1>11
  <2>2. f[m] = IF ls[m].kind = "blank" THEN f[m - 1] ELSE Append(f[m - 1], ls[m])
    BY <1>1, <1>9, <2>1
  <2> QED BY <1>3, <2>1, <2>2
<1>12. n \in T
  <2>1. T \in SUBSET (0..n) /\ n \in 0..n
    BY <1>1
  <2> HIDE DEF T
  <2> QED BY <1>1, <1>10, <1>11, <2>1, Upwards
<1> QED BY <1>8, <1>12 DEF X

\* The records of a trace that parses, and the one a replay is at.
LEMMA PlanLines ==
  ASSUME lines \in Seq(Lines), ~Malformed(lines)
  PROVE  /\ Len(plan) \in Nat /\ DOMAIN plan = 1..Len(plan)
         /\ \A i \in 1..Len(plan) : plan[i] \in Records
<1>1. plan \in Seq({l \in Range(lines) : l.kind # "blank"})
  BY PlanFacts DEF plan
<1> HIDE DEF plan
<1>2. Len(plan) \in Nat /\ DOMAIN plan = 1..Len(plan)
  BY <1>1
<1> SUFFICES ASSUME NEW n \in 1..Len(plan) PROVE plan[n] \in Records
  BY <1>2
<1>3. plan[n] \in Range(lines) /\ plan[n].kind # "blank"
  BY <1>1
<1>4. PICK i \in DOMAIN lines : plan[n] = lines[i]
  BY <1>3 DEF Range
<1>5. lines[i] \in Lines /\ lines[i].kind # "malformed"
  BY <1>4 DEF Malformed
<1> QED BY <1>3, <1>4, <1>5 DEF Lines

LEMMA PlanRecords ==
  ASSUME lines \in Seq(Lines), ~Malformed(lines)
  PROVE  Len(plan) \in Nat /\ \A i \in 1..Len(plan) : plan[i].hash_ids \in Seq(Key)
<1>1. Len(plan) \in Nat /\ \A i \in 1..Len(plan) : plan[i] \in Records
  BY PlanLines
<1>2. \A record \in Records : record.hash_ids \in Seq(Key)
  BY SimulatorAssumption DEF Records, Requests
<1> HIDE DEF plan
<1> QED BY <1>1, <1>2

LEMMA RecordFacts ==
  ASSUME lines \in Seq(Lines), ~Malformed(lines), step \in Nat \ {0}, step <= Len(plan)
  PROVE  plan[step].hash_ids \in Seq(Key)
<1>1. Len(plan) \in Nat
  BY PlanRecords
<1>2. step \in 1..Len(plan)
  BY <1>1
<1> QED BY <1>2, PlanRecords

----------------------------------------------------------------------------
(* The inductive invariant of replays: what the caches hold and what was a   *)
(* hit has been accessed before, in the same replay.                         *)

Events == [hash_id : Key, hit : BOOLEAN]

\* The blocks accessed before the i-th block of the running request.
Before(i) == {log[j].hash_id : j \in 1..Len(log)} \cup {request[j] : j \in 1..(i - 1)}

Recent == Before(IF phase = "access" THEN turn ELSE 1)

History ==
  /\ log \in Seq(Events)
  /\ Held(Tiers) \subseteq Recent
  /\ \A i \in 1..Len(block_hits) : block_hits[i] # "miss" => request[i] \in Before(i)
  /\ CompulsoryMisses

\* The running call; the baseline leaves the slow tier empty.
Calls ==
  /\ lines \in Seq(Lines) /\ step \in Nat \ {0}
  /\ cfg \in Configs \cup {NoConfig}
  /\ cfg = NoConfig => phase = "idle"
  /\ cfg # NoConfig => ~Malformed(lines)
  /\ cfg # NoConfig /\ cfg.target = "baseline" => Resident(slow) = {} /\ depth = 0

ReplayInv == SimInv /\ History /\ Calls

\* An access of a block, in the baseline or in the tiers.
Access ==
  /\ phase = "access" /\ turn <= Len(request)
  /\ turn' = turn + 1 /\ phase' = "access" /\ UNCHANGED <<request, log>>
  /\ \E found \in {"fast", "slow", "miss"} :
       /\ block_hits' = Append(block_hits, found)
       /\ found # "miss" => request[turn] \in Held(Tiers)
  /\ Held(Tiers') \subseteq Held(Tiers) \cup {request[turn]}

LEMMA AccessHistory ==
  ASSUME SimInv, History, Access
  PROVE  History'
<1>1. /\ phase = "access" /\ turn <= Len(request) /\ turn' = turn + 1 /\ phase' = "access"
      /\ request' = request /\ log' = log
      /\ Held(Tiers') \subseteq Held(Tiers) \cup {request[turn]}
      /\ turn \in Nat \ {0} /\ Len(block_hits) = turn - 1 /\ Len(block_hits) \in Nat
      /\ block_hits \in Seq({"fast", "slow", "miss"})
  BY DEF Access, SimInv, SimType
<1>2. PICK found \in {"fast", "slow", "miss"} :
        /\ block_hits' = Append(block_hits, found)
        /\ found # "miss" => request[turn] \in Held(Tiers)
  BY DEF Access
<1>3. \A i : Before(i)' = Before(i)
  BY <1>1 DEF Before
<1>4. 1..(turn + 1 - 1) = 1..(turn - 1) \cup {turn}
  BY <1>1
<1>5. Before(turn + 1) = Before(turn) \cup {request[turn]}
  BY <1>4 DEF Before
<1>6. Held(Tiers) \subseteq Before(turn)
  BY <1>1 DEF History, Recent
<1>7. Held(Tiers') \subseteq Before(turn + 1)
  BY <1>1, <1>5, <1>6
<1>8. /\ Len(block_hits') = turn /\ block_hits'[turn] = found
      /\ \A i \in 1..(turn - 1) : block_hits'[i] = block_hits[i]
  <2>1. /\ Len(block_hits') = Len(block_hits) + 1 /\ block_hits'[Len(block_hits) + 1] = found
        /\ \A i \in 1..Len(block_hits) : block_hits'[i] = block_hits[i]
    BY <1>1, <1>2, AppendProperties
  <2>2. Len(block_hits) + 1 = turn
    BY <1>1
  <2> QED BY <1>1, <2>1, <2>2
<1>9. ASSUME NEW i \in 1..turn, block_hits'[i] # "miss" PROVE request[i] \in Before(i)
  <2>1. CASE i = turn
    BY <1>2, <1>6, <1>8, <1>9, <2>1
  <2>2. CASE i # turn
    <3>1. i \in 1..(turn - 1)
      BY <1>1, <2>2
    <3> QED BY <1>1, <1>8, <1>9, <3>1 DEF History
  <2> QED BY <2>1, <2>2
<1>10. CompulsoryMisses' /\ log' \in Seq(Events)
  BY <1>1 DEF History, CompulsoryMisses
<1>11. \A i \in 1..Len(block_hits') : block_hits'[i] # "miss" => request'[i] \in Before(i)'
  BY <1>1, <1>3, <1>8, <1>9
<1>12. Held(Tiers') \subseteq Recent'
  <2>1. Recent' = Before(turn + 1)
    BY <1>1 DEF Recent, Before
  <2> QED BY <1>7, <2>1
<1> QED BY <1>1, <1>10, <1>11, <1>12 DEF History

\* Steps that move blocks between the tiers and access none.
LEMMA QuietHistory ==
  ASSUME SimInv, History, Moves, block_hits' = <<>>, log' = log,
         phase # "access", phase' = "access" => turn' = 1
  PROVE  History'
<1>1. Held(Tiers) \subseteq Before(1)
  BY DEF History, Recent
<1>2. Recent' = Before(1)
  <2>1. 1..(1 - 1) = {}
    OBVIOUS
  <2> QED BY <2>1 DEF Recent, Before
<1>3. Held(Tiers') \subseteq Recent'
  BY <1>1, <1>2 DEF Moves
<1>4. 1..Len(block_hits') = {}
  OBVIOUS
<1>5. CompulsoryMisses' /\ log' \in Seq(Events)
  BY DEF History, CompulsoryMisses
<1> QED BY <1>3, <1>4, <1>5 DEF History

\* The elements of a sequence that continues another.
Spliced(S, s, t, u) ==
  /\ u \in Seq(S) /\ Len(u) = Len(s) + Len(t)
  /\ \A i \in 1..Len(s) : u[i] = s[i]
  /\ \A i \in 1..Len(t) : u[Len(s) + i] = t[i]

LEMMA Splice ==
  ASSUME NEW S, NEW s \in Seq(S), NEW t \in Seq(S)
  PROVE  Spliced(S, s, t, s \o t)
<1> DEFINE u == s \o t
<1>1. /\ u \in Seq(S) /\ Len(u) = Len(s) + Len(t) /\ Len(s) \in Nat /\ Len(t) \in Nat
      /\ \A i \in 1..(Len(s) + Len(t)) : u[i] = IF i <= Len(s) THEN s[i] ELSE t[i - Len(s)]
  BY ConcatProperties
<1> HIDE DEF u
<1>2. \A i \in 1..Len(s) : u[i] = s[i]
  BY <1>1
<1>3. ASSUME NEW i \in 1..Len(t) PROVE u[Len(s) + i] = t[i]
  <2>1. Len(s) + i \in 1..(Len(s) + Len(t)) /\ ~(Len(s) + i <= Len(s)) /\ Len(s) + i - Len(s) = i
    BY <1>1
  <2> QED BY <1>1, <2>1
<1>4. Spliced(S, s, t, u)
  BY <1>1, <1>2, <1>3 DEF Spliced
<1> QED BY <1>4 DEF u

\* The end of a record: its accesses go to the log.
LEMMA LogGrows ==
  ASSUME SimInv, History, EndRecord
  PROVE  /\ log' \in Seq(Events) /\ Len(log') = Len(log) + Len(request)
         /\ Len(log) \in Nat /\ Len(request) \in Nat /\ Len(block_hits) = Len(request)
         /\ \A i \in 1..Len(log) : log'[i] = log[i]
         /\ \A i \in 1..Len(request) : /\ log'[Len(log) + i].hash_id = request[i]
                                       /\ log'[Len(log) + i].hit <=> block_hits[i] # "miss"
<1> DEFINE new == [i \in DOMAIN request |->
                     [hash_id |-> request[i], hit |-> block_hits[i] # "miss"]]
           n == Len(request)
           l == Len(log)
<1>1. phase = "access" /\ turn > n /\ log' = log \o new
  BY DEF EndRecord, Return
<1>2. /\ request \in Seq(Key) /\ n \in Nat /\ DOMAIN request = 1..n
      /\ Len(block_hits) = n /\ log \in Seq(Events) /\ l \in Nat
  <2>1. /\ request \in Seq(Key) /\ turn \in Nat /\ turn <= n + 1 /\ Len(block_hits) = turn - 1
        /\ log \in Seq(Events)
    BY <1>1 DEF SimInv, SimType, History
  <2> QED BY <1>1, <2>1
<1>3. /\ new \in Seq(Events) /\ Len(new) = n
      /\ \A i \in 1..n : new[i].hash_id = request[i] /\ new[i].hit = (block_hits[i] # "miss")
  <2>1. new \in [1..n -> Events]
    BY <1>2 DEF Events
  <2>2. new \in Seq(Events)
    BY <1>2, <2>1
  <2>3. Len(new) = n
    BY <1>2, <2>1, <2>2, LenProperties
  <2> QED BY <1>2, <2>2, <2>3
<1> HIDE DEF new
<1>4. Spliced(Events, log, new, log')
  BY <1>1, <1>2, <1>3, Splice
<1> QED BY <1>2, <1>3, <1>4 DEF Spliced

LEMMA EndHistory ==
  ASSUME SimInv, History, EndRecord
  PROVE  History'
<1> DEFINE n == Len(request)
           l == Len(log)
<1>1. /\ phase = "access" /\ turn > n /\ Return
      /\ phase' = "idle" /\ block_hits' = <<>> /\ UNCHANGED tiers
  BY DEF EndRecord, Return
<1>2. /\ n \in Nat /\ turn = n + 1 /\ Len(block_hits) = n /\ l \in Nat /\ DOMAIN log = 1..l
  <2>1. /\ request \in Seq(Key) /\ turn \in Nat /\ turn <= n + 1 /\ Len(block_hits) = turn - 1
        /\ log \in Seq(Events)
    BY <1>1 DEF SimInv, SimType, History
  <2> QED BY <1>1, <2>1
<1>3. /\ log' \in Seq(Events) /\ Len(log') = l + n /\ \A i \in 1..l : log'[i] = log[i]
      /\ \A i \in 1..n : log'[l + i].hash_id = request[i]
      /\ \A i \in 1..n : log'[l + i].hit <=> block_hits[i] # "miss"
  BY LogGrows
<1> HIDE DEF n, l
<1>4. DOMAIN log' = 1..(l + n)
  BY <1>3, LenProperties
<1>6. ASSUME NEW i \in 1..(n + 1), NEW k \in Before(i)
      PROVE  \E j \in 1..(l + i - 1) : log'[j].hash_id = k
  <2>1. CASE \E j \in 1..l : log[j].hash_id = k
    <3>1. PICK j \in 1..l : log[j].hash_id = k
      BY <2>1
    <3>2. j \in 1..(l + i - 1)
      BY <1>2
    <3>3. log'[j].hash_id = k
      BY <1>3, <3>1
    <3> QED BY <3>2, <3>3
  <2>2. CASE \E j \in 1..(i - 1) : request[j] = k
    <3>1. PICK j \in 1..(i - 1) : request[j] = k
      BY <2>2
    <3>2. j \in 1..n /\ l + j \in 1..(l + i - 1)
      BY <1>2
    <3>3. log'[l + j].hash_id = k
      BY <1>3, <3>1, <3>2
    <3> QED BY <3>2, <3>3
  <2> QED BY <1>6, <2>1, <2>2 DEF Before, l
<1>7. CompulsoryMisses'
  <2> SUFFICES ASSUME NEW i \in 1..(l + n), log'[i].hit
               PROVE  \E j \in 1..(i - 1) : log'[j].hash_id = log'[i].hash_id
    BY <1>4 DEF CompulsoryMisses
  <2>1. CASE i \in 1..l
    <3>1. PICK j \in 1..(i - 1) : log[j].hash_id = log[i].hash_id
      BY <1>2, <1>3, <2>1 DEF History, CompulsoryMisses
    <3>2. j \in 1..l
      BY <1>2, <2>1
    <3> QED BY <1>3, <2>1, <3>1, <3>2
  <2>2. CASE i \notin 1..l
    <3> DEFINE m == i - l
    <3>1. m \in 1..n /\ i = l + m /\ m \in 1..(n + 1) /\ l + m - 1 = i - 1
      BY <1>2, <2>2
    <3> HIDE DEF m
    <3>2. log'[i].hash_id = request[m] /\ block_hits[m] # "miss"
      BY <1>3, <3>1
    <3>3. request[m] \in Before(m)
      BY <1>2, <3>1, <3>2 DEF History
    <3>4. PICK j \in 1..(l + m - 1) : log'[j].hash_id = request[m]
      BY <1>6, <3>1, <3>3
    <3> QED BY <3>1, <3>2, <3>4
  <2> QED BY <2>1, <2>2
<1>8. Held(Tiers') \subseteq Recent'
  <2>1. Tiers' = Tiers
    BY <1>1 DEF tiers, Tiers
  <2>2. Held(Tiers) \subseteq Before(n + 1)
    BY <1>1, <1>2 DEF History, Recent
  <2>3. ASSUME NEW k \in Before(n + 1) PROVE k \in Recent'
    <3>1. n + 1 \in 1..(n + 1) /\ l + (n + 1) - 1 = l + n
      BY <1>2
    <3>2. PICK j \in 1..(l + n) : log'[j].hash_id = k
      BY <1>6, <2>3, <3>1
    <3> QED BY <1>1, <1>3, <3>2 DEF Before, Recent
  <2> QED BY <2>1, <2>2, <2>3
<1>9. 1..Len(block_hits') = {}
  BY <1>1
<1> QED BY <1>1, <1>3, <1>7, <1>8, <1>9 DEF History

LEMMA NoHistory ==
  ASSUME log = <<>>, block_hits = <<>>, Held(Tiers) = {}
  PROVE  History
<1>1. log \in Seq(Events) /\ DOMAIN log = {} /\ 1..Len(block_hits) = {}
  BY EmptySeq
<1> QED BY <1>1 DEF History, CompulsoryMisses

LEMMA ConfigFacts ==
  ASSUME NEW c \in Configs
  PROVE  /\ PolicyName(c) \in PolicyNames /\ Pool(c) \in Nat \ {0}
         /\ Pool(c) * SlowFactor \in Nat \ {0} /\ c # NoConfig
         /\ (IF c.target = "project" /\ c.prefetch THEN ProjectDepth ELSE 0) \in Nat
<1>1. /\ c.target \in {"baseline", "project"} /\ c.policy \in PolicyNames \cup {""}
      /\ BaselinePool \in Nat \ {0} /\ ProjectPool \in Nat \ {0}
      /\ SlowFactor \in Nat \ {0} /\ ProjectDepth \in Nat
  BY ReplayAssumption
<1>2. "s3fifo" \in PolicyNames /\ "lru" \in PolicyNames
  BY DEF PolicyNames, LruFamily, S3Family
<1>3. PolicyName(c) \in PolicyNames
  <2>1. CASE c.policy # ""
    BY <1>1, <2>1 DEF PolicyName
  <2>2. CASE c.policy = "" /\ c.target = "project"
    BY <1>2, <2>2 DEF PolicyName
  <2>3. CASE c.policy = "" /\ c.target = "baseline"
    BY <1>2, <2>3 DEF PolicyName
  <2> QED BY <1>1, <2>1, <2>2, <2>3
<1>4. Pool(c) \in Nat \ {0}
  BY <1>1 DEF Pool
<1>5. \A m, n \in Nat \ {0} : m * n \in Nat \ {0}
  OBVIOUS
<1>6. c # NoConfig
  <2>1. NoConfig.target = "none"
    BY DEF NoConfig
  <2> QED BY <1>1, <2>1
<1> QED BY <1>1, <1>3, <1>4, <1>5, <1>6

LEMMA InitReplay == ReplayInit => ReplayInv
<1> SUFFICES ASSUME ReplayInit PROVE ReplayInv
  OBVIOUS
<1>1. "lru" \in PolicyNames /\ 1 \in Nat \ {0}
  BY DEF PolicyNames, LruFamily
<1>2. TiersOK(Tiers) /\ Held(Tiers) = {}
  BY <1>1, EmptyTiers DEF ReplayInit, Tiers
<1>3. SimInv
  <2>1. SimType
    BY NoRequest DEF ReplayInit
  <2> QED BY <1>2, <2>1, NoGraph DEF ReplayInit, SimInv
<1>4. History
  BY <1>2, NoHistory DEF ReplayInit
<1>5. lines \in Seq(Lines)
  <2>1. PICK n \in 0..MaxLines : lines \in [1..n -> Lines]
    BY DEF ReplayInit
  <2>2. MaxLines \in Nat
    BY ReplayAssumption
  <2>3. n \in Nat
    BY <2>2
  <2> HIDE DEF Lines
  <2> QED BY <2>1, <2>3
<1>6. Calls
  BY <1>5 DEF ReplayInit, Calls
<1> QED BY <1>3, <1>4, <1>6 DEF ReplayInv

LEMMA CallKeeps ==
  ASSUME ReplayInv, NEW c \in Configs, Call(c)
  PROVE  ReplayInv'
<1>1. /\ cfg = NoConfig /\ ~Malformed(lines) /\ cfg' = c /\ step' = 1 /\ Fresh(c)
      /\ UNCHANGED <<lines, request, phase, turn, block_hits>>
      /\ phase = "idle" /\ lines \in Seq(Lines) /\ SimType
  BY DEF Call, ReplayInv, Calls, SimInv
<1>2. /\ request = <<>> /\ turn = 1 /\ block_hits = <<>>
  BY <1>1 DEF SimType
<1>3. /\ PolicyName(c) \in PolicyNames /\ "lru" \in PolicyNames /\ Pool(c) \in Nat \ {0}
      /\ Pool(c) * SlowFactor \in Nat \ {0} /\ c # NoConfig
  BY ConfigFacts DEF PolicyNames, LruFamily
<1>4. /\ fast' = make_policy(PolicyName(c), Pool(c))
      /\ slow' = make_policy("lru", Pool(c) * SlowFactor)
      /\ depth' = (IF c.target = "project" /\ c.prefetch THEN ProjectDepth ELSE 0)
      /\ successor' = [k \in {} |-> NoKey] /\ log' = <<>>
  BY <1>1 DEF Fresh
<1>5. TiersOK(Tiers') /\ Held(Tiers') = {} /\ Resident(slow') = {}
  BY <1>3, <1>4, EmptyTiers DEF Tiers
<1>6. SimType'
  <2>1. depth' \in Nat
    BY <1>4, ConfigFacts
  <2>2. /\ request' = <<>> /\ phase' = "idle" /\ turn' = 1 /\ block_hits' = <<>>
    BY <1>1, <1>2
  <2>3. request' \in Seq(Key) /\ block_hits' \in Seq({"fast", "slow", "miss"})
    BY <2>2, EmptySeq
  <2> QED BY <2>1, <2>2, <2>3 DEF SimType
<1>7. Graph'
  BY <1>4 DEF Graph
<1>8. History'
  <2>1. log' \in Seq(Events) /\ DOMAIN log' = {} /\ 1..Len(block_hits') = {}
    BY <1>1, <1>2, <1>4, EmptySeq
  <2> QED BY <1>5, <2>1 DEF History, CompulsoryMisses
<1>9. Calls'
  <2>1. c.target = "baseline" => depth' = 0
    BY <1>4
  <2>2. Malformed(lines)' <=> Malformed(lines)
    BY <1>1 DEF Malformed
  <2> QED BY <1>1, <1>3, <1>5, <2>1, <2>2 DEF Calls
<1> QED BY <1>5, <1>6, <1>7, <1>8, <1>9 DEF ReplayInv, SimInv

\* Steps that leave the caches and the log as they are.
LEMMA IdleKeeps ==
  ASSUME ReplayInv, UNCHANGED <<vars, lines, step, log>>,
         cfg' = cfg \/ (cfg' = NoConfig /\ phase = "idle")
  PROVE  ReplayInv'
<1>1. SimInv'
  BY SimStutters DEF ReplayInv
<1>2. History'
  <2>1. /\ log' = log /\ request' = request /\ block_hits' = block_hits
        /\ phase' = phase /\ turn' = turn /\ Tiers' = Tiers
    BY DEF vars, tiers, Tiers
  <2>2. Recent' = Recent /\ \A i : Before(i)' = Before(i)
    BY <2>1 DEF Recent, Before
  <2>3. CompulsoryMisses' <=> CompulsoryMisses
    BY <2>1 DEF CompulsoryMisses
  <2> QED BY <2>1, <2>2, <2>3 DEF ReplayInv, History
<1>3. Calls'
  <2>1. phase' = phase /\ slow' = slow /\ depth' = depth /\ lines' = lines /\ step' = step
    BY DEF vars, tiers
  <2>2. Malformed(lines)' <=> Malformed(lines)
    BY <2>1 DEF Malformed
  <2> QED BY <2>1, <2>2 DEF ReplayInv, Calls
<1> QED BY <1>1, <1>2, <1>3 DEF ReplayInv

\* Steps of a running replay leave its call as it is.
LEMMA RunningKeeps ==
  ASSUME ReplayInv, Running, UNCHANGED <<lines, cfg, depth>>, step' \in Nat \ {0},
         cfg.target = "baseline" => slow' = slow
  PROVE  Calls'
<1>1. Malformed(lines)' <=> Malformed(lines)
  BY DEF Malformed
<1> QED BY <1>1 DEF ReplayInv, Calls, Running

LEMMA NextRecordKeeps ==
  ASSUME ReplayInv, NextRecord
  PROVE  ReplayInv'
<1>1. /\ Running /\ step <= Len(plan) /\ Arrive(plan[step].hash_ids)
      /\ UNCHANGED <<lines, cfg, step, log>> /\ SimInv /\ History /\ Calls
  BY DEF NextRecord, ReplayInv, samples
<1>2. lines \in Seq(Lines) /\ ~Malformed(lines) /\ step \in Nat \ {0}
  BY <1>1 DEF Calls, Running
<1>3. plan[step].hash_ids \in Seq(Key)
  BY <1>1, <1>2, RecordFacts
<1>4. SimInv' /\ Moves /\ block_hits' = <<>>
  BY <1>1, <1>3, ArriveKeeps
<1>5. phase = "idle" /\ turn' = 1 /\ depth' = depth /\ slow' = slow
  BY <1>1 DEF Arrive, tiers
<1>6. History'
  BY <1>1, <1>4, <1>5, QuietHistory
<1>7. Calls'
  <2>1. UNCHANGED <<lines, cfg, depth>> /\ step' \in Nat \ {0}
    BY <1>1, <1>2, <1>5
  <2> QED BY <1>1, <1>5, <2>1, RunningKeeps
<1> QED BY <1>4, <1>6, <1>7 DEF ReplayInv

LEMMA AccessTiers ==
  ASSUME SimInv, AccessBlock, UNCHANGED log
  PROVE  SimInv' /\ Access /\ depth' = depth
<1>1. PICK k \in Key : FastHit(k) \/ SlowHit(k) \/ Miss(k)
  BY DEF AccessBlock
<1>2. ASSUME NEW found \in {"fast", "slow", "miss"}, Accessing(k, found),
             Held(Tiers') \subseteq Held(Tiers) \cup {k}, found # "miss" => k \in Held(Tiers)
      PROVE  Access /\ depth' = depth
  <2>1. /\ phase = "access" /\ turn <= Len(request) /\ k = request[turn] /\ NextTurn
        /\ block_hits' = Append(block_hits, found) /\ request' = request /\ depth' = depth
    BY <1>2 DEF Accessing
  <2>2. turn' = turn + 1 /\ phase' = "access"
    BY <2>1 DEF NextTurn
  <2> QED BY <1>2, <2>1, <2>2 DEF Access
<1>3. CASE FastHit(k)
  <2>1. SimInv' /\ Moves /\ Accessing(k, "fast") /\ k \in Held(Tiers)
    BY <1>3, FastHitKeeps DEF FastHit, contains, Held, Tiers
  <2> QED BY <1>2, <2>1 DEF Moves
<1>4. CASE SlowHit(k)
  <2>1. SimInv' /\ Moves /\ Accessing(k, "slow") /\ k \in Held(Tiers)
    BY <1>4, SlowHitKeeps DEF SlowHit, contains, Held, Tiers
  <2> QED BY <1>2, <2>1 DEF Moves
<1>5. CASE Miss(k)
  <2>1. SimInv' /\ Accessing(k, "miss") /\ Held(Tiers') \subseteq Held(Tiers) \cup {k}
    BY <1>5, MissKeeps DEF Miss
  <2> QED BY <1>2, <2>1
<1> QED BY <1>1, <1>3, <1>4, <1>5

LEMMA TieredKeeps ==
  ASSUME ReplayInv, Tiered
  PROVE  ReplayInv'
<1>1. /\ Running /\ cfg.target = "project" /\ (PrefetchAnchor \/ AccessBlock)
      /\ UNCHANGED <<lines, cfg, step, log>> /\ SimInv /\ History /\ step \in Nat \ {0}
  BY DEF Tiered, ReplayInv, samples, Calls
<1>2. SimInv' /\ History' /\ depth' = depth
  <2>1. CASE PrefetchAnchor
    <3>1. SimInv' /\ Moves /\ block_hits' = block_hits
      BY <1>1, <2>1, PrefetchKeeps
    <3>2. /\ phase = "prefetch" /\ depth' = depth /\ (phase' = "access" => turn' = 1)
      BY <2>1 DEF PrefetchAnchor, NextTurn
    <3>3. block_hits = <<>>
      BY <1>1, <3>2 DEF SimInv, SimType
    <3> QED BY <1>1, <3>1, <3>2, <3>3, QuietHistory
  <2>2. CASE AccessBlock
    BY <1>1, <2>2, AccessTiers, AccessHistory
  <2> QED BY <1>1, <2>1, <2>2
<1>3. Calls'
  BY <1>1, <1>2, RunningKeeps
<1> QED BY <1>2, <1>3 DEF ReplayInv

LEMMA PoolAccessKeeps ==
  ASSUME ReplayInv, PoolAccess
  PROVE  ReplayInv'
<1> DEFINE k == request[turn]
           r == access(fast, k, turn - 1).policy
           found == IF contains(fast, k) THEN "fast" ELSE "miss"
<1>1. /\ Running /\ cfg.target = "baseline" /\ phase = "access" /\ turn <= Len(request)
      /\ fast' = r /\ block_hits' = Append(block_hits, found) /\ turn' = turn + 1
      /\ UNCHANGED <<slow, depth, successor, request, phase, lines, cfg, step, log>>
      /\ SimInv /\ History /\ step \in Nat \ {0} /\ Resident(slow) = {}
  BY DEF PoolAccess, ReplayInv, samples, Calls, Running
<1>2. /\ turn \in Nat \ {0} /\ request \in Seq(Key) /\ Sound(fast) /\ Sound(slow)
      /\ slow \in Policies /\ Graph /\ depth \in Nat
      /\ block_hits \in Seq({"fast", "slow", "miss"}) /\ Len(block_hits) = turn - 1
  BY <1>1 DEF SimInv, SimType, TiersOK, Tiers, Sound, Shape
<1>3. k \in Key /\ turn - 1 \in Nat
  BY <1>1, <1>2
<1> HIDE DEF k
<1>4. Sound(r) /\ Resident(r) \subseteq Resident(fast) \cup {k} /\ r \in Policies
  <2>1. Sound(r) /\ Resident(r) \subseteq Resident(fast) \cup {k}
    BY <1>2, <1>3, AccessSound
  <2> QED BY <2>1 DEF Sound, Shape
<1> HIDE DEF r
<1> DEFINE t == [fast |-> r, slow |-> slow]
<1>5. t \in TwoPolicies /\ t.fast = r /\ t.slow = slow /\ Tiers' = t
  BY <1>1, <1>2, <1>4 DEF TwoPolicies, Tiers
<1> HIDE DEF t
<1>6. TiersOK(t) /\ Held(t) \subseteq Held(Tiers) \cup {k}
  BY <1>1, <1>2, <1>4, <1>5 DEF TiersOK, Held, Tiers
<1>7. found # "miss" => k \in Held(Tiers)
  BY DEF contains, Held, Tiers
<1>8. found \in {"fast", "slow", "miss"}
  OBVIOUS
<1> HIDE DEF found
<1>9. SimType'
  <2>1. /\ block_hits' \in Seq({"fast", "slow", "miss"})
        /\ Len(block_hits') = Len(block_hits) + 1
    BY <1>1, <1>2, <1>8, AppendProperties
  <2>2. /\ Len(request) \in Nat /\ turn + 1 \in Nat \ {0} /\ turn + 1 <= Len(request) + 1
        /\ Len(block_hits) + 1 = (turn + 1) - 1
    BY <1>1, <1>2
  <2> QED BY <1>1, <1>2, <2>1, <2>2 DEF SimType
<1>10. SimInv'
  <2>1. Graph'
    BY <1>1, <1>2 DEF Graph
  <2> QED BY <1>5, <1>6, <1>9, <2>1 DEF SimInv
<1>11. Access
  BY <1>1, <1>5, <1>6, <1>7, <1>8 DEF Access, k
<1>12. History'
  BY <1>1, <1>11, AccessHistory
<1>13. Calls'
  BY <1>1, RunningKeeps
<1> QED BY <1>10, <1>12, <1>13 DEF ReplayInv

LEMMA EndRecordKeeps ==
  ASSUME ReplayInv, EndRecord
  PROVE  ReplayInv'
<1>1. /\ Running /\ Return /\ step' = step + 1 /\ UNCHANGED <<lines, cfg>>
      /\ SimInv /\ History /\ step \in Nat \ {0}
  BY DEF EndRecord, ReplayInv, Calls
<1>2. SimInv' /\ depth' = depth /\ slow' = slow
  BY <1>1, ReturnKeeps DEF Return, tiers
<1>3. History'
  BY <1>1, EndHistory
<1>4. Calls'
  <2>1. step' \in Nat \ {0}
    BY <1>1
  <2> QED BY <1>1, <1>2, <2>1, RunningKeeps
<1> QED BY <1>2, <1>3, <1>4 DEF ReplayInv

LEMMA ReplayStep ==
  ASSUME ReplayInv, [ReplayNext]_replay_vars
  PROVE  ReplayInv'
<1>1. ASSUME NEW c \in Configs, CallRaises(c) PROVE ReplayInv'
  BY <1>1, IdleKeeps DEF CallRaises, samples
<1>2. ASSUME NEW lock \in LockFiles, Report(lock) \/ ReportRaises(lock) PROVE ReplayInv'
  BY <1>2, IdleKeeps DEF Report, ReportRaises, Finished, samples
<1>3. CASE UNCHANGED replay_vars
  BY <1>3, IdleKeeps DEF replay_vars, samples
<1> QED BY <1>1, <1>2, <1>3, CallKeeps, NextRecordKeeps, TieredKeeps, PoolAccessKeeps,
           EndRecordKeeps DEF ReplayNext

LEMMA ReplayInvariance == ReplaySpec => []ReplayInv
BY InitReplay, ReplayStep, PTL DEF ReplaySpec

\* Whatever was replayed before and whatever is prefetched: no block is a hit
\* before it has been accessed in the same replay.
THEOREM MissesAreCompulsory == ReplaySpec => []CompulsoryMisses
<1>1. ReplayInv => CompulsoryMisses
  BY DEF ReplayInv, History
<1> QED BY <1>1, ReplayInvariance, PTL

\* The tiers of every replay are sound, those of the baseline included.
THEOREM ReplayTiersSound == ReplaySpec => []TiersSound
<1>1. ReplayInv => TiersSound
  BY SimIsSound DEF ReplayInv
<1> QED BY <1>1, ReplayInvariance, PTL

----------------------------------------------------------------------------
(* The lock file.  After every line a key has the value of the last line     *)
(* that assigns it.                                                          *)

LockLines == {<<>>} \cup (STRING \X STRING)
LockFields == UNION {[D -> STRING] : D \in SUBSET STRING}

LEMMA AssignFacts ==
  ASSUME NEW fields \in LockFields, NEW line \in LockLines
  PROVE  /\ Assign(fields, line) \in LockFields
         /\ line = <<>> => Assign(fields, line) = fields
         /\ line # <<>> => /\ DOMAIN Assign(fields, line) = DOMAIN fields \cup {line[1]}
                           /\ Assign(fields, line)[line[1]] = line[2]
                           /\ \A k \in DOMAIN fields \ {line[1]} :
                                Assign(fields, line)[k] = fields[k]
<1>1. CASE line = <<>>
  BY <1>1 DEF Assign
<1>2. CASE line # <<>>
  <2>1. line[1] \in STRING /\ line[2] \in STRING
    BY <1>2 DEF LockLines
  <2>2. PICK D \in SUBSET STRING : fields \in [D -> STRING]
    BY DEF LockFields
  <2> DEFINE new == [k \in DOMAIN fields \cup {line[1]} |->
                       IF k = line[1] THEN line[2] ELSE fields[k]]
  <2>3. Assign(fields, line) = new
    BY <1>2 DEF Assign
  <2>4. new \in [D \cup {line[1]} -> STRING] /\ D \cup {line[1]} \in SUBSET STRING
    BY <2>1, <2>2
  <2>5. new \in LockFields
    <3> HIDE DEF new
    <3> QED BY <2>4 DEF LockFields
  <2> QED BY <1>2, <2>3, <2>5
<1> QED BY <1>1, <1>2

\* Line n of text assigns key.
Assigns(text, n, key) == text[n] # <<>> /\ text[n][1] = key

\* What the first m lines of text leave.
Holds(fields, text, m) ==
  /\ fields \in LockFields
  /\ \A key : /\ key \in DOMAIN fields <=> \E n \in 1..m : Assigns(text, n, key)
              /\ \A n \in 1..m :
                   Assigns(text, n, key) /\ (\A j \in 1..m : Assigns(text, j, key) => j <= n)
                     => fields[key] = text[n][2]

LEMMA AssignHolds ==
  ASSUME NEW text \in Seq(LockLines), NEW m \in 1..Len(text), NEW fields,
         Holds(fields, text, m - 1)
  PROVE  Holds(Assign(fields, text[m]), text, m)
<1> DEFINE line == text[m]
           new == Assign(fields, line)
<1>1. fields \in LockFields /\ line \in LockLines
  BY DEF Holds
<1> HIDE DEF line
<1>2. /\ new \in LockFields
      /\ line = <<>> => new = fields
      /\ line # <<>> => /\ DOMAIN new = DOMAIN fields \cup {line[1]}
                        /\ new[line[1]] = line[2]
                        /\ \A k \in DOMAIN fields \ {line[1]} : new[k] = fields[k]
  BY <1>1, AssignFacts
<1> HIDE DEF new
<1>3. 1..m = 1..(m - 1) \cup {m} /\ m \notin 1..(m - 1) /\ \A j \in 1..(m - 1) : ~(m <= j)
  OBVIOUS
<1>4. ASSUME NEW key
      PROVE  /\ key \in DOMAIN new <=> \E n \in 1..m : Assigns(text, n, key)
             /\ \A n \in 1..m :
                  Assigns(text, n, key) /\ (\A j \in 1..m : Assigns(text, j, key) => j <= n)
                    => new[key] = text[n][2]
  <2>1. /\ key \in DOMAIN fields <=> \E n \in 1..(m - 1) : Assigns(text, n, key)
        /\ \A n \in 1..(m - 1) :
             /\ Assigns(text, n, key)
             /\ \A j \in 1..(m - 1) : Assigns(text, j, key) => j <= n
             => fields[key] = text[n][2]
    BY DEF Holds
  <2>2. Assigns(text, m, key) <=> line # <<>> /\ line[1] = key
    BY DEF Assigns, line
  <2>3. CASE Assigns(text, m, key)
    <3>1. key \in DOMAIN new /\ new[key] = text[m][2]
      BY <1>2, <2>2, <2>3 DEF line
    <3>2. \A n \in 1..m : m <= n => n = m
      BY <1>3
    <3> QED BY <1>3, <2>3, <3>1, <3>2
  <2>4. CASE ~Assigns(text, m, key)
    <3>1. /\ key \in DOMAIN new <=> key \in DOMAIN fields
          /\ key \in DOMAIN fields => new[key] = fields[key]
      BY <1>2, <2>2, <2>4
    <3> QED BY <1>3, <2>1, <2>4, <3>1
  <2> QED BY <2>3, <2>4
<1> QED BY <1>2, <1>4 DEF Holds, new, line

LEMMA LockHolds ==
  ASSUME NEW text \in Seq(LockLines)
  PROVE  Holds(parse_lock_text(text), text, Len(text))
<1> DEFINE n == Len(text)
           base == [k \in {} |-> ""]
           turns == [x \in (1..n) \X LockFields |-> Assign(x[2], text[x[1]])]
           Body(f, i) == IF i = 0 THEN base ELSE Assign(f[i - 1], text[i])
           Run(f) == f = [i \in 0..n |-> Body(f, i)]
<1>1. n \in Nat /\ \A i \in 1..n : text[i] \in LockLines
  OBVIOUS
<1>2. base \in LockFields /\ DOMAIN base = {}
  <2>1. base \in [{} -> STRING] /\ {} \in SUBSET STRING /\ DOMAIN base = {}
    OBVIOUS
  <2> HIDE DEF base
  <2> QED BY <2>1 DEF LockFields
<1>3. \A i \in 1..n, f \in LockFields : Assign(f, text[i]) \in LockFields
  <2> HIDE DEF n
  <2> QED BY <1>1, AssignFacts
<1> HIDE DEF base
<1>4. IsLoop(turns, n, LockFields)
  <2> HIDE DEF n
  <2> QED BY <1>3 DEF IsLoop
<1>5. PICK g : IsRun(g, turns, n, LockFields, base)
  <2> HIDE DEF turns, n
  <2> QED BY <1>1, <1>2, <1>4, LoopResult
<1>6. Run(g)
  <2>1. ASSUME NEW i \in 0..n PROVE g[i] = Body(g, i)
    <3> HIDE DEF n
    <3>1. CASE i = 0
      BY <1>5, <3>1 DEF IsRun
    <3>2. CASE i # 0
      <4>1. i \in 1..n /\ i - 1 \in 0..n
        BY <1>1, <3>2
      <4>2. g[i - 1] \in LockFields /\ g[i] = turns[<<i, g[i - 1]>>]
        BY <1>5, <4>1 DEF IsRun
      <4>3. turns[<<i, g[i - 1]>>] = Assign(g[i - 1], text[i])
        BY <4>1, <4>2
      <4> QED BY <3>2, <4>2, <4>3
    <3> QED BY <3>1, <3>2
  <2>2. DOMAIN g = 0..n /\ g = [i \in DOMAIN g |-> g[i]]
    BY <1>5 DEF IsRun
  <2> HIDE DEF Body, n
  <2> QED BY <2>1, <2>2
<1>7. parse_lock_text(text) = (CHOOSE f : Run(f))[n]
  BY DEF parse_lock_text, base
<1>8. PICK f : Run(f) /\ parse_lock_text(text) = f[n]
  <2> HIDE DEF Run
  <2> QED BY <1>6, <1>7
<1>9. \A i \in 0..n : f[i] = Body(f, i)
  <2> HIDE DEF Body, n
  <2> QED BY <1>8
<1> DEFINE T == {m \in 0..n : Holds(f[m], text, m)}
<1>10. 0 \in T
  <2>1. f[0] = base /\ 0 \in 0..n /\ 1..0 = {}
    BY <1>1, <1>9
  <2> QED BY <1>2, <2>1 DEF Holds
<1>11. ASSUME NEW m \in 1..n, m - 1 \in T PROVE m \in T
  <2>1. m \in 0..n /\ Holds(f[m - 1], text, m - 1)
    BY <1>1, <1>11
  <2>2. f[m] = Assign(f[m - 1], text[m])
    BY <1>1, <1>9, <2>1
  <2> QED BY <2>1, <2>2, AssignHolds
<1>12. n \in T
  <2>1. T \in SUBSET (0..n) /\ n \in 0..n
    BY <1>1
  <2> HIDE DEF T, n
  <2> QED BY <1>1, <1>10, <1>11, <2>1, Upwards
<1> QED BY <1>8, <1>12

LEMMA MaxFacts ==
  ASSUME NEW n \in Nat, NEW S \in SUBSET (1..n), S # {}
  PROVE  Max(S) \in S /\ \A m \in S : m <= Max(S)
<1> DEFINE below == {n - x : x \in S}
<1>1. below \in SUBSET Nat /\ below # {}
  <2>1. \A x \in S : x \in 1..n /\ n - x \in Nat
    OBVIOUS
  <2>2. below \in SUBSET Nat
    BY <2>1
  <2> QED BY <2>2
<1>2. PICK d \in below : \A e \in below : d <= e
  <2> HIDE DEF below
  <2> QED BY <1>1, LeastNumber
<1>3. PICK x \in S : d = n - x
  BY <1>2
<1>4. \A y \in S : x >= y
  <2> SUFFICES ASSUME NEW y \in S PROVE x >= y
    OBVIOUS
  <2>1. n - y \in below /\ x \in 1..n /\ y \in 1..n
    OBVIOUS
  <2>2. d <= n - y
    BY <1>2, <2>1
  <2> HIDE DEF below
  <2> QED BY <1>3, <2>1, <2>2
<1>5. Max(S) \in S /\ \A y \in S : Max(S) >= y
  BY <1>4 DEF Max
<1> QED BY <1>5

\* The lines of text that assign key, as CommitTraced writes them.
LinesOf(text, key) == {n \in DOMAIN text : text[n] # <<>> /\ text[n][1] = key}

LEMMA LockRead ==
  ASSUME NEW file \in LockFiles, ~LockRaises(file)
  PROVE  /\ file.is_file /\ LinesOf(file.text, "mooncake_version") # {}
         /\ read_mooncake_lock(file) = file.text[Max(LinesOf(file.text, "mooncake_commit"))][2]
<1> DEFINE text == file.text
           fields == parse_lock_text(text)
<1>1. text \in Seq(LockLines)
  BY ReplayAssumption DEF LockLines
<1>2. /\ file.is_file /\ "mooncake_commit" \in DOMAIN fields
      /\ "mooncake_version" \in DOMAIN fields
  BY DEF LockRaises, RequiredKeys
<1>3. Holds(fields, text, Len(text)) /\ read_mooncake_lock(file) = fields["mooncake_commit"]
  BY <1>1, LockHolds DEF read_mooncake_lock
<1> HIDE DEF fields
<1>4. Len(text) \in Nat /\ DOMAIN text = 1..Len(text)
  BY <1>1
<1> HIDE DEF text
<1>5. ASSUME NEW key \in DOMAIN fields
      PROVE  /\ LinesOf(text, key) # {}
             /\ fields[key] = text[Max(LinesOf(text, key))][2]
  <2> DEFINE S == LinesOf(text, key)
  <2>1. \A j \in 1..Len(text) : j \in S <=> Assigns(text, j, key)
    BY <1>4 DEF LinesOf, Assigns
  <2>2. S \in SUBSET (1..Len(text))
    BY <1>4 DEF LinesOf
  <2>3. S # {}
    <3>1. \E j \in 1..Len(text) : Assigns(text, j, key)
      BY <1>3, <1>5 DEF Holds
    <3> HIDE DEF S
    <3> QED BY <2>1, <3>1
  <2> HIDE DEF S
  <2>4. Max(S) \in S /\ \A m \in S : m <= Max(S)
    BY <1>4, <2>2, <2>3, MaxFacts
  <2>5. Max(S) \in 1..Len(text)
    BY <2>2, <2>4
  <2>6. Assigns(text, Max(S), key) /\ \A j \in 1..Len(text) : Assigns(text, j, key) => j <= Max(S)
    BY <2>1, <2>4, <2>5
  <2>7. fields[key] = text[Max(S)][2]
    BY <1>3, <2>5, <2>6 DEF Holds
  <2> QED BY <2>3, <2>7 DEF S
<1> QED BY <1>2, <1>3, <1>5 DEF text

\* A report that says which commit it is of.
Traced(r) ==
  IF r.config.mooncake_commit # "" THEN r.mooncake_commit = r.config.mooncake_commit
  ELSE /\ r.lock.is_file /\ LinesOf(r.lock.text, "mooncake_version") # {}
       /\ r.mooncake_commit = r.lock.text[Max(LinesOf(r.lock.text, "mooncake_commit"))][2]

LEMMA TracedReports ==
  CommitTraced <=> \A i \in DOMAIN reports : ~reports[i].raised => Traced(reports[i])
BY DEF CommitTraced, Returned, Traced, LinesOf

ReportsInv == CommitTraced /\ \E S : reports \in Seq(S)

\* A sequence of anything, with r behind it.
LEMMA OneMore ==
  ASSUME NEW s, \E S : s \in Seq(S), NEW r, NEW t, t = Append(s, r)
  PROVE  /\ \E S : t \in Seq(S)
         /\ Len(s) \in Nat /\ DOMAIN s = 1..Len(s) /\ DOMAIN t = 1..(Len(s) + 1)
         /\ t[Len(s) + 1] = r /\ \A i \in 1..Len(s) : t[i] = s[i]
<1>1. PICK S : s \in Seq(S)
  OBVIOUS
<1> DEFINE S2 == S \cup {r}
<1>2. s \in Seq(S2) /\ r \in S2
  <2>1. s \in [1..Len(s) -> S2] /\ Len(s) \in Nat
    BY <1>1
  <2> HIDE DEF S2
  <2>2. s \in Seq(S2)
    BY <2>1
  <2> QED BY <2>2 DEF S2
<1> HIDE DEF S2
<1>3. /\ t \in Seq(S2) /\ Len(t) = Len(s) + 1
      /\ \A i \in 1..Len(s) : t[i] = s[i]
      /\ t[Len(s) + 1] = r
  BY <1>2, AppendProperties
<1>4. Len(s) \in Nat /\ DOMAIN s = 1..Len(s) /\ DOMAIN t = 1..(Len(s) + 1)
  BY <1>2, <1>3
<1> QED BY <1>3, <1>4

LEMMA ReportAdded ==
  ASSUME ReportsInv, NEW r, reports' = Append(reports, r), ~r.raised => Traced(r)
  PROVE  ReportsInv'
<1>1. /\ \E S : reports' \in Seq(S)
      /\ Len(reports) \in Nat /\ DOMAIN reports = 1..Len(reports)
      /\ DOMAIN reports' = 1..(Len(reports) + 1)
      /\ reports'[Len(reports) + 1] = r
      /\ \A i \in 1..Len(reports) : reports'[i] = reports[i]
  BY OneMore DEF ReportsInv
<1>2. \A i \in DOMAIN reports' : ~reports'[i].raised => Traced(reports'[i])
  <2>1. \A i \in DOMAIN reports : ~reports[i].raised => Traced(reports[i])
    BY TracedReports DEF ReportsInv
  <2> SUFFICES ASSUME NEW i \in DOMAIN reports', ~reports'[i].raised
               PROVE  Traced(reports'[i])
    OBVIOUS
  <2>2. i \in 1..Len(reports) \/ i = Len(reports) + 1
    BY <1>1
  <2> QED BY <1>1, <2>1, <2>2
<1>3. CommitTraced'
  BY <1>2 DEF CommitTraced, Returned, Traced, LinesOf
<1> QED BY <1>1, <1>3 DEF ReportsInv

LEMMA ReportsStep ==
  ASSUME ReportsInv, [ReplayNext]_replay_vars
  PROVE  ReportsInv'
<1>1. CASE UNCHANGED reports
  <2>1. \A i \in DOMAIN reports' : ~reports'[i].raised => Traced(reports'[i])
    BY <1>1, TracedReports DEF ReportsInv
  <2>2. CommitTraced'
    BY <2>1 DEF CommitTraced, Returned, Traced, LinesOf
  <2> QED BY <1>1, <2>2 DEF ReportsInv
<1>2. ASSUME NEW c, reports' = Append(reports, [config |-> c, raised |-> TRUE])
      PROVE  ReportsInv'
  <2> DEFINE r == [config |-> c, raised |-> TRUE]
  <2>1. reports' = Append(reports, r) /\ r.raised
    BY <1>2
  <2> HIDE DEF r
  <2> QED BY <2>1, ReportAdded
<1>3. ASSUME NEW lock \in LockFiles, Report(lock) PROVE ReportsInv'
  <2> DEFINE commit == IF cfg.mooncake_commit # "" THEN cfg.mooncake_commit
                       ELSE read_mooncake_lock(lock)
         r == [config |-> cfg, raised |-> FALSE, lock |-> lock, mooncake_commit |-> commit,
               throughput |-> IF plan = <<>> THEN <<0, 1>> ELSE <<tokens, Sum(e2e)>>,
               ttft |-> percentiles(ttft), e2e |-> percentiles(e2e),
               rates |-> rates(log), log |-> log,
               skipped |-> {b \in DOMAIN RequiredCapability :
                              RequiredCapability[b] \notin cfg.hardware}]
  <2>1. /\ reports' = Append(reports, r) /\ r.config = cfg /\ r.lock = lock
        /\ r.mooncake_commit = commit
    <3>1. reports' = Append(reports, r)
      BY <1>3, Zenon DEF Report
    <3> QED BY <3>1
  <2> HIDE DEF r
  <2>2. cfg.mooncake_commit = "" => ~LockRaises(lock)
    BY <1>3 DEF Report
  <2>3. Traced(r)
    <3>1. CASE cfg.mooncake_commit # ""
      BY <2>1, <3>1 DEF Traced
    <3>2. CASE cfg.mooncake_commit = ""
      <4>1. /\ lock.is_file /\ LinesOf(lock.text, "mooncake_version") # {}
            /\ commit = lock.text[Max(LinesOf(lock.text, "mooncake_commit"))][2]
        BY <2>2, <3>2, LockRead
      <4> HIDE DEF commit
      <4> QED BY <2>1, <3>2, <4>1 DEF Traced
    <3> QED BY <3>1, <3>2
  <2> QED BY <2>1, <2>3, ReportAdded
<1>4. CASE UNCHANGED replay_vars
  BY <1>1, <1>4 DEF replay_vars
<1>5. ASSUME NEW c \in Configs, Call(c) \/ CallRaises(c) PROVE ReportsInv'
  BY <1>1, <1>2, <1>5 DEF Call, CallRaises
<1>6. ASSUME NEW lock \in LockFiles, ReportRaises(lock) PROVE ReportsInv'
  BY <1>2, <1>6 DEF ReportRaises
<1>7. CASE NextRecord \/ Tiered \/ PoolAccess \/ EndRecord
  BY <1>1, <1>7 DEF NextRecord, Tiered, PoolAccess, EndRecord
<1> QED BY <1>3, <1>4, <1>5, <1>6, <1>7 DEF ReplayNext

\* Every report of every sequence of replays names the commit the caller gave
\* or the last one that the lock file assigns.
THEOREM CommitsAreTraced == ReplaySpec => []CommitTraced
<1>1. ReplayInit => ReportsInv
  <2> SUFFICES ASSUME ReplayInit PROVE ReportsInv
    OBVIOUS
  <2>1. reports = <<>>
    BY DEF ReplayInit
  <2>2. reports \in Seq({}) /\ DOMAIN reports = {}
    BY <2>1, EmptySeq
  <2> QED BY <2>2 DEF ReportsInv, CommitTraced, Returned
<1>2. ReportsInv => CommitTraced
  BY DEF ReportsInv
<1> QED BY <1>1, <1>2, ReportsStep, PTL DEF ReplaySpec

----------------------------------------------------------------------------
(* Two LRU tiers are one LRU cache.  Sequences are told apart by their       *)
(* elements: c is a queue s with t behind it, s with k behind it, t without  *)
(* its head or s without its n-th element.                                   *)

IsJoin(S, c, s, t) ==
  /\ c \in Seq(S) /\ Len(c) = Len(s) + Len(t)
  /\ \A i \in 1..Len(s) : c[i] = s[i]
  /\ \A i \in 1..Len(t) : c[Len(s) + i] = t[i]

IsLonger(S, c, s, k) ==
  /\ c \in Seq(S) /\ Len(c) = Len(s) + 1
  /\ \A i \in 1..Len(s) : c[i] = s[i]
  /\ c[Len(s) + 1] = k

IsRest(S, c, s) ==
  /\ c \in Seq(S) /\ Len(s) = Len(c) + 1
  /\ \A i \in 1..Len(c) : c[i] = s[i + 1]

IsWithout(S, c, s, n) ==
  /\ c \in Seq(S) /\ Len(c) = Len(s) - 1
  /\ \A i \in 1..Len(c) : c[i] = IF i < n THEN s[i] ELSE s[i + 1]

LEMMA JoinIs ==
  ASSUME NEW S, NEW s \in Seq(S), NEW t \in Seq(S)
  PROVE  IsJoin(S, s \o t, s, t)
<1>1. /\ s \o t \in Seq(S) /\ Len(s \o t) = Len(s) + Len(t)
      /\ \A i \in 1..(Len(s) + Len(t)) :
           (s \o t)[i] = IF i <= Len(s) THEN s[i] ELSE t[i - Len(s)]
      /\ Len(s) \in Nat /\ Len(t) \in Nat
  BY ConcatProperties
<1>2. ASSUME NEW i \in 1..Len(t) PROVE (s \o t)[Len(s) + i] = t[i]
  <2>1. /\ Len(s) + i \in 1..(Len(s) + Len(t)) /\ ~(Len(s) + i <= Len(s))
        /\ Len(s) + i - Len(s) = i
    BY <1>1
  <2> QED BY <1>1, <2>1
<1>3. ASSUME NEW i \in 1..Len(s) PROVE (s \o t)[i] = s[i]
  <2>1. i \in 1..(Len(s) + Len(t)) /\ i <= Len(s)
    BY <1>1
  <2> QED BY <1>1, <2>1
<1> QED BY <1>1, <1>2, <1>3 DEF IsJoin

LEMMA LongerIs ==
  ASSUME NEW S, NEW s \in Seq(S), NEW k \in S
  PROVE  IsLonger(S, Append(s, k), s, k)
BY AppendProperties DEF IsLonger

LEMMA RestIs ==
  ASSUME NEW S, NEW s \in Seq(S), s # <<>>
  PROVE  IsRest(S, Tail(s), s) /\ Head(s) = s[1] /\ Head(s) \in S
<1>1. /\ Tail(s) \in Seq(S) /\ Len(Tail(s)) = Len(s) - 1 /\ Head(s) \in S
      /\ \A i \in 1..Len(Tail(s)) : Tail(s)[i] = s[i + 1]
      /\ Len(s) \in Nat
  BY HeadTailProperties
<1>2. Len(s) = Len(Tail(s)) + 1
  BY <1>1
<1>3. Head(s) = s[1]
  OBVIOUS
<1> QED BY <1>1, <1>2, <1>3 DEF IsRest

LEMMA WithoutIs ==
  ASSUME NEW S, NEW s \in Seq(S), IsInjective(s), NEW n \in 1..Len(s)
  PROVE  IsWithout(S, RemoveFirst(s, s[n]), s, n)
<1> DEFINE k == s[n]
           t == RemoveAt(s, n)
           a == SubSeq(s, 1, n - 1)
           b == SubSeq(s, n + 1, Len(s))
           I == {i \in 1..Len(s) : s[i] = k}
<1>1. Len(s) \in Nat /\ DOMAIN s = 1..Len(s) /\ I = {n}
  BY DEF IsInjective
<1>2. RemoveFirst(s, k) = t
  <2>1. Min(I) = n
    BY <1>1 DEF Min
  <2>2. SelectInSeq(s, LAMBDA v : v = k) = n
    BY <1>1, <2>1 DEF SelectInSeq
  <2> QED BY <2>2 DEF RemoveFirst
<1>3. /\ a \in Seq(S) /\ Len(a) = n - 1 /\ \A i \in 1..(n - 1) : a[i] = s[i]
  BY SubSeqProperties
<1>4. /\ b \in Seq(S) /\ Len(b) = Len(s) - n
      /\ \A i \in 1..(Len(s) - n) : b[i] = s[n + i]
  BY SubSeqProperties
<1>5. IsJoin(S, t, a, b)
  BY <1>3, <1>4, JoinIs DEF RemoveAt
<1> HIDE DEF t, a, b
<1>6. t \in Seq(S) /\ Len(t) = Len(s) - 1
  BY <1>1, <1>3, <1>4, <1>5 DEF IsJoin
<1>7. ASSUME NEW i \in 1..(Len(s) - 1) PROVE t[i] = IF i < n THEN s[i] ELSE s[i + 1]
  <2>1. CASE i < n
    <3>1. i \in 1..(n - 1) /\ i \in 1..Len(a)
      BY <1>1, <1>3, <2>1
    <3> QED BY <1>3, <1>5, <2>1, <3>1 DEF IsJoin
  <2>2. CASE ~(i < n)
    <3> DEFINE j == i - (n - 1)
    <3>1. j \in 1..Len(b) /\ j \in 1..(Len(s) - n) /\ Len(a) + j = i /\ n + j = i + 1
      BY <1>1, <1>3, <1>4, <2>2
    <3> HIDE DEF j
    <3> QED BY <1>4, <1>5, <2>2, <3>1 DEF IsJoin
  <2> QED BY <2>1, <2>2
<1> QED BY <1>2, <1>6, <1>7 DEF IsWithout, k

\* A block behind both.
LEMMA JoinLonger ==
  ASSUME NEW S, NEW s \in Seq(S), NEW t \in Seq(S), NEW k \in S, NEW j, NEW tk, NEW x, NEW y,
         IsJoin(S, j, s, t), IsLonger(S, tk, t, k), IsJoin(S, x, s, tk), IsLonger(S, y, j, k)
  PROVE  x = y
<1>1. /\ Len(s) \in Nat /\ Len(t) \in Nat /\ j \in Seq(S) /\ x \in Seq(S) /\ y \in Seq(S)
      /\ Len(j) = Len(s) + Len(t) /\ Len(x) = Len(s) + (Len(t) + 1) /\ Len(y) = Len(x)
  BY DEF IsJoin, IsLonger
<1>2. ASSUME NEW i \in 1..Len(x) PROVE x[i] = y[i]
  <2>1. CASE i \in 1..Len(s)
    <3>1. i \in 1..Len(j)
      BY <1>1, <2>1
    <3> QED BY <2>1, <3>1 DEF IsJoin, IsLonger
  <2>2. CASE i \notin 1..Len(s)
    <3> DEFINE m == i - Len(s)
    <3>1. m \in 1..(Len(t) + 1) /\ i = Len(s) + m
      BY <1>1, <2>2
    <3> HIDE DEF m
    <3>2. x[i] = tk[m]
      BY <3>1 DEF IsJoin, IsLonger
    <3>3. CASE m \in 1..Len(t)
      <4>1. i \in 1..Len(j) /\ j[i] = t[m] /\ tk[m] = t[m]
        BY <1>1, <3>1, <3>3 DEF IsJoin, IsLonger
      <4> QED BY <3>2, <4>1 DEF IsLonger
    <3>4. CASE m = Len(t) + 1
      <4>1. i = Len(j) + 1
        BY <1>1, <3>1, <3>4
      <4> QED BY <3>2, <3>4, <4>1 DEF IsLonger
    <3> QED BY <1>1, <3>1, <3>3, <3>4
  <2> QED BY <2>1, <2>2
<1> QED BY <1>1, <1>2, SeqEqual

\* The head of the second behind the first.
LEMMA JoinShifted ==
  ASSUME NEW S, NEW s \in Seq(S), NEW t \in Seq(S), NEW sh, NEW r, NEW x, NEW y,
         t # <<>>, IsLonger(S, sh, s, t[1]), IsRest(S, r, t),
         IsJoin(S, x, sh, r), IsJoin(S, y, s, t)
  PROVE  x = y
<1>1. /\ Len(s) \in Nat /\ Len(r) \in Nat /\ x \in Seq(S) /\ y \in Seq(S)
      /\ Len(t) = Len(r) + 1 /\ Len(sh) = Len(s) + 1
      /\ Len(x) = (Len(s) + 1) + Len(r) /\ Len(y) = Len(x)
  BY DEF IsJoin, IsLonger, IsRest
<1>2. ASSUME NEW i \in 1..Len(x) PROVE x[i] = y[i]
  <2>1. CASE i \in 1..Len(s)
    <3>1. i \in 1..Len(sh)
      BY <1>1, <2>1
    <3> QED BY <2>1, <3>1 DEF IsJoin, IsLonger
  <2>2. CASE i = Len(s) + 1
    <3>1. i \in 1..Len(sh) /\ 1 \in 1..Len(t)
      BY <1>1, <2>2
    <3> QED BY <2>2, <3>1 DEF IsJoin, IsLonger
  <2>3. CASE i \notin 1..(Len(s) + 1)
    <3> DEFINE m == i - (Len(s) + 1)
    <3>1. m \in 1..Len(r) /\ i = Len(sh) + m /\ i = Len(s) + (m + 1) /\ m + 1 \in 1..Len(t)
      BY <1>1, <2>3
    <3> HIDE DEF m
    <3>2. x[i] = r[m] /\ r[m] = t[m + 1] /\ y[i] = t[m + 1]
      BY <3>1 DEF IsJoin, IsRest
    <3> QED BY <3>2
  <2> QED BY <1>1, <2>1, <2>2, <2>3
<1> QED BY <1>1, <1>2, SeqEqual

\* Without the head of the first.
LEMMA JoinRest ==
  ASSUME NEW S, NEW s \in Seq(S), NEW t \in Seq(S), NEW r, NEW j, NEW x, NEW y,
         IsRest(S, r, s), IsJoin(S, j, s, t), IsJoin(S, x, r, t), IsRest(S, y, j)
  PROVE  x = y
<1>1. /\ Len(r) \in Nat /\ Len(t) \in Nat /\ x \in Seq(S) /\ y \in Seq(S)
      /\ Len(s) = Len(r) + 1 /\ Len(j) = Len(s) + Len(t) /\ Len(x) = Len(r) + Len(t)
      /\ Len(j) = Len(y) + 1 /\ Len(y) \in Nat
  BY DEF IsJoin, IsRest
<1>2. Len(x) = Len(y)
  BY <1>1
<1>3. ASSUME NEW i \in 1..Len(x) PROVE x[i] = y[i]
  <2>1. y[i] = j[i + 1]
    BY <1>2 DEF IsRest
  <2>2. CASE i \in 1..Len(r)
    <3>1. i + 1 \in 1..Len(s)
      BY <1>1, <2>2
    <3> QED BY <2>1, <2>2, <3>1 DEF IsJoin, IsRest
  <2>3. CASE i \notin 1..Len(r)
    <3> DEFINE m == i - Len(r)
    <3>1. m \in 1..Len(t) /\ i = Len(r) + m /\ i + 1 = Len(s) + m
      BY <1>1, <2>3
    <3> HIDE DEF m
    <3> QED BY <2>1, <3>1 DEF IsJoin
  <2> QED BY <2>2, <2>3
<1> QED BY <1>1, <1>2, <1>3, SeqEqual

\* Without an element of the first, or of the second.
LEMMA JoinWithoutFirst ==
  ASSUME NEW S, NEW s \in Seq(S), NEW t \in Seq(S), NEW n \in 1..Len(s),
         NEW c, NEW j, NEW x, NEW y, IsWithout(S, c, s, n), IsJoin(S, j, s, t),
         IsJoin(S, x, c, t), IsWithout(S, y, j, n)
  PROVE  x = y
<1>1. /\ Len(s) \in Nat \ {0} /\ Len(t) \in Nat /\ x \in Seq(S) /\ y \in Seq(S)
      /\ Len(c) = Len(s) - 1 /\ Len(j) = Len(s) + Len(t) /\ Len(x) = Len(c) + Len(t)
      /\ Len(y) = Len(j) - 1
  BY DEF IsJoin, IsWithout
<1>2. Len(x) = Len(y)
  BY <1>1
<1>3. ASSUME NEW i \in 1..Len(x) PROVE x[i] = y[i]
  <2>1. y[i] = IF i < n THEN j[i] ELSE j[i + 1]
    BY <1>2 DEF IsWithout
  <2>2. CASE i \in 1..Len(c)
    <3>1. i \in 1..Len(s) /\ i + 1 \in 1..Len(s)
      BY <1>1, <2>2
    <3> QED BY <2>1, <2>2, <3>1 DEF IsJoin, IsWithout
  <2>3. CASE i \notin 1..Len(c)
    <3> DEFINE m == i - Len(c)
    <3>1. m \in 1..Len(t) /\ i = Len(c) + m /\ i + 1 = Len(s) + m /\ ~(i < n)
      BY <1>1, <2>3
    <3> HIDE DEF m
    <3> QED BY <2>1, <3>1 DEF IsJoin
  <2> QED BY <2>2, <2>3
<1> QED BY <1>1, <1>2, <1>3, SeqEqual

LEMMA JoinWithoutSecond ==
  ASSUME NEW S, NEW s \in Seq(S), NEW t \in Seq(S), NEW n \in 1..Len(t),
         NEW c, NEW j, NEW x, NEW y, IsWithout(S, c, t, n), IsJoin(S, j, s, t),
         IsJoin(S, x, s, c), IsWithout(S, y, j, Len(s) + n)
  PROVE  x = y
<1>1. /\ Len(s) \in Nat /\ Len(t) \in Nat \ {0} /\ x \in Seq(S) /\ y \in Seq(S)
      /\ Len(c) = Len(t) - 1 /\ Len(j) = Len(s) + Len(t) /\ Len(x) = Len(s) + Len(c)
      /\ Len(y) = Len(j) - 1
  BY DEF IsJoin, IsWithout
<1>2. Len(x) = Len(y)
  BY <1>1
<1>3. ASSUME NEW i \in 1..Len(x) PROVE x[i] = y[i]
  <2>1. y[i] = IF i < Len(s) + n THEN j[i] ELSE j[i + 1]
    BY <1>2 DEF IsWithout
  <2>2. CASE i \in 1..Len(s)
    <3>1. i < Len(s) + n
      BY <1>1, <2>2
    <3> QED BY <2>1, <2>2, <3>1 DEF IsJoin
  <2>3. CASE i \notin 1..Len(s)
    <3> DEFINE m == i - Len(s)
    <3>1. /\ m \in 1..Len(c) /\ i = Len(s) + m /\ i + 1 = Len(s) + (m + 1)
          /\ m \in 1..Len(t) /\ m + 1 \in 1..Len(t) /\ (i < Len(s) + n <=> m < n)
      BY <1>1, <2>3
    <3> HIDE DEF m
    <3>2. x[i] = IF m < n THEN t[m] ELSE t[m + 1]
      BY <3>1 DEF IsJoin, IsWithout
    <3>3. j[i] = t[m] /\ j[i + 1] = t[m + 1]
      BY <3>1 DEF IsJoin
    <3> QED BY <2>1, <3>1, <3>2, <3>3
  <2> QED BY <2>2, <2>3
<1> QED BY <1>1, <1>2, <1>3, SeqEqual

\* x is the sequence used, or the last n elements of it if it is longer.
IsLatest(n, x, used) == x = IF Len(used) <= n THEN used ELSE Flat!Latest(n, used)

\* A block k into the queues s and f of the slow and of the fast tier.
LEMMA QueuesAdmit ==
  ASSUME NEW S, NEW s \in Seq(S), NEW f \in Seq(S), NEW k \in S, NEW m \in Nat, NEW n \in Nat,
         Len(s) <= m, Len(f) <= n, NEW s2, NEW f2,
         \/ Len(f) < n /\ f2 = Append(f, k) /\ s2 = s
         \/ /\ Len(f) = n /\ f # <<>> /\ f2 = Append(Tail(f), k)
            /\ \/ Len(s) < m /\ s2 = Append(s, Head(f))
               \/ Len(s) = m /\ s # <<>> /\ s2 = Append(Tail(s), Head(f))
  PROVE  IsLatest(n + m, s2 \o f2, Append(s \o f, k))
<1> DEFINE both == s \o f
           used == Append(both, k)
           fk == Append(f, k)
           sfk == s \o fk
           x == s2 \o f2
<1>1. /\ Len(s) \in Nat /\ Len(f) \in Nat /\ IsJoin(S, both, s, f) /\ both \in Seq(S)
      /\ Len(both) = Len(s) + Len(f)
  BY JoinIs DEF IsJoin
<1>2. IsLonger(S, fk, f, k) /\ fk \in Seq(S)
  BY LongerIs DEF IsLonger
<1> HIDE DEF both, fk
<1>3. IsLonger(S, used, both, k) /\ IsJoin(S, sfk, s, fk)
  BY <1>1, <1>2, LongerIs, JoinIs
<1> HIDE DEF used, sfk
<1>4. sfk = used
  BY <1>1, <1>2, <1>3, JoinLonger
<1>5. used \in Seq(S) /\ Len(used) = Len(s) + Len(f) + 1
  BY <1>1, <1>3 DEF IsLonger
<1>6. CASE Len(f) < n /\ f2 = fk /\ s2 = s
  <2>1. x = used /\ Len(used) <= n + m
    BY <1>1, <1>4, <1>5, <1>6 DEF sfk
  <2> QED BY <2>1 DEF IsLatest, used, both
<1>7. CASE /\ Len(f) = n /\ f # <<>> /\ f2 = Append(Tail(f), k)
           /\ \/ Len(s) < m /\ s2 = Append(s, Head(f))
              \/ Len(s) = m /\ s # <<>> /\ s2 = Append(Tail(s), Head(f))
  <2>1. /\ fk # <<>> /\ Head(fk) = Head(f) /\ Tail(fk) = f2 /\ Head(f) \in S
        /\ IsRest(S, f2, fk) /\ fk[1] = Head(f) /\ f2 \in Seq(S)
    <3>1. Head(fk) = Head(f) /\ Tail(fk) = f2
      BY <1>7, HeadTailAppend DEF fk
    <3>2. fk # <<>>
      BY <1>1, <1>2 DEF IsLonger
    <3>3. Head(f) \in S
      BY <1>7, RestIs
    <3>4. IsRest(S, Tail(fk), fk) /\ Head(fk) = fk[1]
      BY <1>2, <3>2, RestIs
    <3>5. f2 \in Seq(S)
      BY <3>1, <3>4 DEF IsRest
    <3> QED BY <3>1, <3>2, <3>3, <3>4, <3>5
  <2>2. CASE Len(s) < m /\ s2 = Append(s, Head(f))
    <3>1. IsLonger(S, s2, s, fk[1]) /\ s2 \in Seq(S)
      BY <2>1, <2>2, LongerIs DEF IsLonger
    <3>2. IsJoin(S, x, s2, f2)
      BY <2>1, <3>1, JoinIs
    <3> HIDE DEF x
    <3>3. x = used /\ Len(used) <= n + m
      BY <1>1, <1>2, <1>3, <1>4, <1>5, <1>7, <2>1, <2>2, <3>1, <3>2, JoinShifted
    <3> QED BY <3>3 DEF IsLatest, used, both, x
  <2>3. CASE Len(s) = m /\ s # <<>> /\ s2 = Append(Tail(s), Head(f))
    <3> DEFINE r == Tail(s)
               rfk == r \o fk
    <3>1. IsRest(S, r, s) /\ r \in Seq(S)
      BY <2>3, RestIs DEF IsRest
    <3> HIDE DEF r
    <3>2. IsLonger(S, s2, r, fk[1]) /\ s2 \in Seq(S)
      BY <2>1, <2>3, <3>1, LongerIs DEF IsLonger, r
    <3>3. IsJoin(S, x, s2, f2) /\ IsJoin(S, rfk, r, fk)
      BY <1>2, <2>1, <3>1, <3>2, JoinIs
    <3> HIDE DEF x, rfk
    <3>4. x = rfk
      BY <1>2, <2>1, <3>1, <3>2, <3>3, JoinShifted
    <3>5. used # <<>>
      BY <1>1, <1>5
    <3>6. IsRest(S, Tail(used), used) /\ Tail(used) = SubSeq(used, 2, Len(used))
      BY <1>5, <3>5, RestIs, TailIsSubSeq
    <3>7. rfk = Tail(used)
      BY <1>2, <1>3, <1>4, <3>1, <3>3, <3>6, JoinRest
    <3>8. ~(Len(used) <= n + m) /\ Len(used) - (n + m) + 1 = 2
      BY <1>1, <1>5, <1>7, <2>3
    <3>9. x = Flat!Latest(n + m, used)
      BY <3>4, <3>6, <3>7, <3>8 DEF Flat!Latest
    <3> QED BY <3>8, <3>9 DEF IsLatest, used, both, x
  <2> QED BY <1>7, <2>2, <2>3
<1> QED BY <1>6, <1>7 DEF fk

LruTiers(t) == TiersOK(t) /\ t.fast.name = "lru" /\ t.slow.name = "lru"
Order(t) == t.slow.store \o t.fast.store
Room(t) == t.fast.capacity + t.slow.capacity

\* The blocks of the tiers u in the order of their last use, one of k being
\* the last, when t are the tiers before it.
Uses(t, k, u) == IsLatest(Room(t), Order(u), Append(RemoveFirst(Order(t), k), k))

LEMMA LruFacts ==
  ASSUME NEW p, Sound(p), p.name = "lru"
  PROVE  /\ p.store \in Seq(Key) /\ IsInjective(p.store) /\ Resident(p) = Range(p.store)
         /\ Len(p.store) \in Nat /\ Len(p.store) <= p.capacity /\ p.capacity \in Nat
<1>1. ~IsS3(p) /\ p \in Policies
  BY DEF IsS3, S3Family, Sound, Shape
<1>2. p.main = <<>> /\ p.capacity = StoreCap(p)
  BY <1>1, OtherQueues
<1>3. Resident(p) = Range(p.store)
  BY <1>2, EmptyQueue DEF Resident
<1> QED BY <1>1, <1>2, <1>3, FieldFacts DEF Sound, Shape

LEMMA OrderFacts ==
  ASSUME NEW t, LruTiers(t)
  PROVE  Order(t) \in Seq(Key) /\ IsInjective(Order(t)) /\ Range(Order(t)) = Held(t)
<1> DEFINE s == t.slow.store
           f == t.fast.store
<1>1. /\ Sound(t.fast) /\ Sound(t.slow) /\ t.fast.name = "lru" /\ t.slow.name = "lru"
      /\ Resident(t.fast) \cap Resident(t.slow) = {}
  BY DEF LruTiers, TiersOK
<1>2. /\ s \in Seq(Key) /\ IsInjective(s) /\ Resident(t.slow) = Range(s)
      /\ f \in Seq(Key) /\ IsInjective(f) /\ Resident(t.fast) = Range(f)
  BY <1>1, LruFacts
<1>3. Order(t) = s \o f
  BY DEF Order
<1> HIDE DEF s, f
<1>4. Joined(Key, s, f)
  BY <1>2, QueueConcat
<1>5. Range(s \o f) = Held(t) /\ IsInjective(s \o f) /\ s \o f \in Seq(Key)
  BY <1>1, <1>2, <1>4 DEF Joined, Held
<1> QED BY <1>3, <1>5

\* Admission to the fast tier, for a block that is in none.
LEMMA AdmitOrdered ==
  ASSUME NEW t, LruTiers(t), NEW k \in Key, k \notin Held(t)
  PROVE  IsLatest(Room(t), Order(AdmitFast(t, k)), Append(Order(t), k))
<1> DEFINE u == AdmitFast(t, k)
           o == admit(t.fast, k, 0)
           v == o.victim
           s == t.slow.store
           f == t.fast.store
           s2 == u.slow.store
           f2 == u.fast.store
           m == t.slow.capacity
           n == t.fast.capacity
<1>1. /\ Sound(t.fast) /\ Sound(t.slow) /\ t.fast.name = "lru" /\ t.slow.name = "lru"
      /\ Resident(t.fast) \cap Resident(t.slow) = {}
      /\ k \notin Resident(t.fast) /\ k \notin Resident(t.slow)
  BY DEF LruTiers, TiersOK, Held
<1>2. /\ s \in Seq(Key) /\ Resident(t.slow) = Range(s) /\ Len(s) <= m /\ m \in Nat
      /\ f \in Seq(Key) /\ Resident(t.fast) = Range(f) /\ Len(f) <= n /\ n \in Nat
  BY <1>1, LruFacts
<1>3. Oldest(t.fast, k, o)
  BY <1>1, AdmitSound
<1>4. /\ u.fast = o.policy
      /\ u.slow = IF v = NoKey THEN t.slow ELSE admit(t.slow, v, 0).policy
  BY DEF AdmitFast
<1>5. \/ Len(f) < n /\ v = NoKey /\ f2 = Append(f, k)
      \/ Len(f) = n /\ f # <<>> /\ v = Head(f) /\ f2 = Append(Tail(f), k)
  BY <1>3, <1>4 DEF Oldest
<1>6. CASE Len(f) < n /\ v = NoKey /\ f2 = Append(f, k)
  <2>1. s2 = s
    BY <1>4, <1>6
  <2> HIDE DEF s, f, s2, f2, m, n
  <2>2. IsLatest(n + m, s2 \o f2, Append(s \o f, k))
    BY <1>2, <1>6, <2>1, QueuesAdmit
  <2> QED BY <2>2 DEF Order, Room, s, f, s2, f2, m, n, u
<1>7. CASE Len(f) = n /\ f # <<>> /\ v = Head(f) /\ f2 = Append(Tail(f), k)
  <2>1. v \in Range(f) /\ v \in Key
    <3> HIDE DEF f, v
    <3> QED BY <1>2, <1>7, QueueTail
  <2>2. v # NoKey /\ v \notin Resident(t.slow)
    BY <1>1, <1>2, <2>1, PolicyAssumption
  <2> DEFINE r == admit(t.slow, v, 0)
  <2>3. Oldest(t.slow, v, r) /\ u.slow = r.policy
    <3>1. u.slow = r.policy
      BY <1>4, <2>2
    <3> HIDE DEF v
    <3> QED BY <1>1, <2>1, <2>2, <3>1, AdmitSound
  <2>4. \/ Len(s) < m /\ s2 = Append(s, v)
        \/ Len(s) = m /\ s # <<>> /\ s2 = Append(Tail(s), v)
    <3> HIDE DEF r, v, u
    <3> QED BY <2>3 DEF Oldest
  <2> HIDE DEF s, f, s2, f2, m, n, v
  <2>5. \/ Len(s) < m /\ s2 = Append(s, Head(f))
        \/ Len(s) = m /\ s # <<>> /\ s2 = Append(Tail(s), Head(f))
    BY <1>7, <2>4
  <2>6. IsLatest(n + m, s2 \o f2, Append(s \o f, k))
    BY <1>2, <1>7, <2>5, QueuesAdmit
  <2> QED BY <2>6 DEF Order, Room, s, f, s2, f2, m, n, u
<1> QED BY <1>5, <1>6, <1>7

LEMMA MissUses ==
  ASSUME NEW t, LruTiers(t), NEW k \in Key, k \notin Held(t)
  PROVE  Uses(t, k, AdmitFast(t, k))
<1> DEFINE o == Order(t)
<1>1. o \in Seq(Key) /\ IsInjective(o) /\ k \notin Range(o)
  BY OrderFacts
<1> HIDE DEF o
<1>2. RemoveFirst(o, k) = o
  BY <1>1, QueueRemoveFirst
<1>3. RemoveFirst(Order(t), k) = Order(t)
  BY <1>2 DEF o
<1> QED BY <1>3, AdmitOrdered DEF Uses

\* A block of the slow tier is out of the order before it comes in again.
LEMMA SlowUses ==
  ASSUME NEW t, LruTiers(t), NEW k \in Resident(t.slow)
  PROVE  Uses(t, k, Promote(t, k))
<1> DEFINE q == remove(t.slow, k)
           a == [t EXCEPT !.slow = q]
           s == t.slow.store
           f == t.fast.store
           c == q.store
<1>1. /\ t \in TwoPolicies /\ Sound(t.fast) /\ Sound(t.slow) /\ k \in Key
      /\ t.fast.name = "lru" /\ t.slow.name = "lru"
      /\ Resident(t.fast) \cap Resident(t.slow) = {}
  BY FieldFacts DEF LruTiers, TiersOK, Sound, Shape
<1>2. /\ Sound(q) /\ Resident(q) = Resident(t.slow) \ {k} /\ q \in Policies
      /\ q.name = "lru" /\ q.capacity = t.slow.capacity /\ c = RemoveFirst(s, k)
  <2> DEFINE p == t.slow
  <2>1. Sound(p) /\ p.name = "lru"
    BY <1>1
  <2> HIDE DEF p
  <2>2. /\ Sound(remove(p, k)) /\ Resident(remove(p, k)) = Resident(p) \ {k}
        /\ remove(p, k).name = p.name /\ remove(p, k).capacity = p.capacity
        /\ remove(p, k).store = RemoveFirst(p.store, k)
    BY <1>1, <2>1, RemoveSound
  <2>3. remove(p, k) \in Policies
    BY <2>2 DEF Sound, Shape
  <2> QED BY <2>1, <2>2, <2>3 DEF p
<1>3. Promote(t, k) = AdmitFast(a, k)
  BY <1>1 DEF Promote, TwoPolicies
<1> HIDE DEF q
<1>4. a \in TwoPolicies /\ a.fast = t.fast /\ a.slow = q
  BY <1>1, <1>2 DEF TwoPolicies
<1> HIDE DEF a
<1>5. LruTiers(a) /\ k \notin Held(a) /\ Room(a) = Room(t)
  BY <1>1, <1>2, <1>4 DEF LruTiers, TiersOK, Held, Room
<1>6. IsLatest(Room(a), Order(AdmitFast(a, k)), Append(Order(a), k))
  BY <1>1, <1>5, AdmitOrdered
<1>7. Order(a) = RemoveFirst(Order(t), k)
  <2>1. /\ s \in Seq(Key) /\ IsInjective(s) /\ Resident(t.slow) = Range(s) /\ f \in Seq(Key)
        /\ Order(t) = s \o f /\ Order(a) = c \o f
    BY <1>1, <1>4, LruFacts DEF Order
  <2>2. s \o f \in Seq(Key) /\ IsInjective(s \o f)
    BY <2>1, OrderFacts
  <2> DEFINE j == s \o f
             x == c \o f
             y == RemoveFirst(j, k)
  <2> HIDE DEF s, f, c
  <2>3. PICK n \in 1..Len(s) : s[n] = k
    BY <2>1 DEF Range
  <2>4. IsWithout(Key, c, s, n) /\ IsJoin(Key, j, s, f) /\ c \in Seq(Key)
    <3>1. c = RemoveFirst(s, k)
      BY <1>2 DEF s, c
    <3>2. IsWithout(Key, c, s, n)
      BY <2>1, <2>3, <3>1, WithoutIs
    <3>3. IsJoin(Key, j, s, f)
      BY <2>1, JoinIs
    <3> QED BY <3>2, <3>3 DEF IsWithout
  <2>5. IsJoin(Key, x, c, f)
    BY <2>1, <2>4, JoinIs
  <2>6. n \in 1..Len(j) /\ j[n] = k
    BY <2>1, <2>3, <2>4 DEF IsJoin
  <2> HIDE DEF j, x
  <2>7. IsWithout(Key, y, j, n)
    BY <2>2, <2>6, WithoutIs DEF j
  <2> HIDE DEF y
  <2>8. x = y
    BY <2>1, <2>3, <2>4, <2>5, <2>7, JoinWithoutFirst
  <2> QED BY <2>1, <2>8 DEF x, y, j
<1> QED BY <1>3, <1>5, <1>6, <1>7 DEF Uses

\* A block of the fast tier.
LEMMA FastUses ==
  ASSUME NEW t, LruTiers(t), NEW k \in Resident(t.fast), NEW u,
         u.fast = touch(t.fast, k), u.slow = t.slow
  PROVE  Uses(t, k, u)
<1> DEFINE s == t.slow.store
           f == t.fast.store
           c == RemoveFirst(f, k)
           ck == Append(c, k)
           j == s \o f
           sc == s \o c
           x == s \o ck
           y == RemoveFirst(j, k)
           used == Append(y, k)
<1>1. /\ Sound(t.fast) /\ Sound(t.slow) /\ t.fast.name = "lru" /\ t.slow.name = "lru"
      /\ k \in Key
  BY FieldFacts DEF LruTiers, TiersOK, Sound, Shape
<1>2. /\ s \in Seq(Key) /\ Len(s) <= t.slow.capacity /\ t.slow.capacity \in Nat
      /\ f \in Seq(Key) /\ IsInjective(f) /\ Resident(t.fast) = Range(f)
      /\ Len(f) <= t.fast.capacity /\ t.fast.capacity \in Nat
  BY <1>1, LruFacts
<1>3. j \in Seq(Key) /\ IsInjective(j) /\ Order(t) = j
  BY OrderFacts DEF Order
<1>4. Order(u) = x
  <2>1. u.fast.store = MoveToEnd(f, k)
    BY <1>1, TouchSound
  <2> QED BY <2>1 DEF Order, MoveToEnd
<1>5. Room(t) \in Nat /\ Len(s) + Len(f) <= Room(t)
  <2> DEFINE a == Len(s)
             b == Len(f)
             m == t.slow.capacity
             n == t.fast.capacity
  <2>1. a \in Nat /\ b \in Nat /\ m \in Nat /\ n \in Nat /\ a <= m /\ b <= n
    BY <1>2
  <2>2. Room(t) = n + m
    BY DEF Room
  <2> HIDE DEF a, b, m, n
  <2>3. n + m \in Nat /\ a + b <= n + m
    BY <2>1
  <2> QED BY <2>2, <2>3 DEF a, b
<1> HIDE DEF s, f
<1>6. PICK n \in 1..Len(f) : f[n] = k
  BY <1>2 DEF Range
<1>7. IsWithout(Key, c, f, n) /\ c \in Seq(Key) /\ IsJoin(Key, j, s, f)
  BY <1>2, <1>6, WithoutIs, JoinIs DEF IsWithout
<1> HIDE DEF c, j
<1>8. IsLonger(Key, ck, c, k) /\ ck \in Seq(Key) /\ IsJoin(Key, sc, s, c) /\ sc \in Seq(Key)
  BY <1>1, <1>2, <1>7, LongerIs, JoinIs DEF IsLonger, IsJoin
<1> HIDE DEF ck, sc
<1>9. IsJoin(Key, x, s, ck)
  BY <1>2, <1>8, JoinIs
<1>10. /\ Len(s) + n \in 1..Len(j) /\ j[Len(s) + n] = k
  <2>1. Len(s) \in Nat /\ Len(f) \in Nat /\ Len(j) = Len(s) + Len(f)
    BY <1>2, <1>7 DEF IsJoin
  <2> QED BY <1>6, <1>7, <2>1 DEF IsJoin
<1>11. IsWithout(Key, y, j, Len(s) + n)
  BY <1>3, <1>10, WithoutIs
<1> HIDE DEF x, y
<1>12. sc = y
  BY <1>2, <1>6, <1>7, <1>8, <1>11, JoinWithoutSecond
<1>13. IsLonger(Key, used, sc, k)
  BY <1>1, <1>8, <1>12, LongerIs
<1> HIDE DEF used
<1>14. x = used
  BY <1>1, <1>2, <1>7, <1>8, <1>9, <1>13, JoinLonger
<1>15. Len(used) <= Room(t)
  <2>1. /\ Len(s) \in Nat /\ Len(f) \in Nat /\ Len(c) = Len(f) - 1
        /\ Len(sc) = Len(s) + Len(c) /\ Len(used) = Len(sc) + 1
    BY <1>2, <1>7, <1>8, <1>13 DEF IsJoin, IsLonger, IsWithout
  <2> QED BY <1>5, <2>1
<1> QED BY <1>3, <1>4, <1>14, <1>15 DEF Uses, IsLatest, used, y

\* The answers to the accesses q whose outcomes are h, as Flat has them.
AnswerOf(k, found) == <<k, found # "miss">>
Answers(h, q) == [i \in DOMAIN h |-> AnswerOf(q[i], h[i])]

IsAnswered(h, found, q, k) == Answers(Append(h, found), q) = Append(Answers(h, q), AnswerOf(k, found))

LEMMA Answered ==
  ASSUME NEW S, NEW h \in Seq(S), NEW found \in S, NEW q \in Seq(Key), Len(h) < Len(q)
  PROVE  IsAnswered(h, found, q, q[Len(h) + 1])
<1> DEFINE A == Key \X BOOLEAN
           hf == Append(h, found)
           a == Answers(h, q)
           x == Answers(hf, q)
           n == Len(h)
           k == q[n + 1]
           y == Append(a, AnswerOf(k, found))
<1>1. /\ n \in Nat /\ DOMAIN h = 1..n /\ hf \in Seq(S) /\ Len(hf) = n + 1
      /\ DOMAIN hf = 1..(n + 1) /\ hf[n + 1] = found
      /\ \A i \in 1..n : hf[i] = h[i]
  BY AppendProperties, LenProperties
<1>2. \A b \in Key : \A o : AnswerOf(b, o) \in A
  BY DEF AnswerOf
<1>3. Len(q) \in Nat /\ \A i \in 1..(n + 1) : q[i] \in Key
  BY <1>1
<1> HIDE DEF hf, n, A
<1>4. a = [i \in 1..n |-> AnswerOf(q[i], h[i])]
  BY <1>1 DEF Answers
<1>5. x = [i \in 1..(n + 1) |-> AnswerOf(q[i], hf[i])]
  BY <1>1 DEF Answers
<1>6. \A i \in 1..n : i \in 1..(n + 1)
  BY <1>1
<1> HIDE DEF a, x
<1>7. a \in [1..n -> A] /\ x \in [1..(n + 1) -> A] /\ AnswerOf(k, found) \in A
  BY <1>1, <1>2, <1>3, <1>4, <1>5, <1>6
<1>8. a \in Seq(A) /\ Len(a) = n
  <2>1. a \in Seq(A)
    BY <1>1, <1>7
  <2> QED BY <1>1, <1>7, <2>1, LenProperties
<1>9. x \in Seq(A) /\ Len(x) = n + 1
  <2>1. n + 1 \in Nat
    BY <1>1
  <2>2. x \in Seq(A)
    BY <1>7, <2>1
  <2> QED BY <1>7, <2>1, <2>2, LenProperties
<1>10. IsLonger(A, y, a, AnswerOf(k, found))
  BY <1>7, <1>8, LongerIs
<1> HIDE DEF y
<1>11. ASSUME NEW i \in 1..(n + 1) PROVE x[i] = y[i]
  <2>1. x[i] = AnswerOf(q[i], hf[i])
    BY <1>5
  <2>2. CASE i \in 1..n
    <3>1. a[i] = AnswerOf(q[i], h[i]) /\ y[i] = a[i]
      BY <1>4, <1>8, <1>10, <2>2 DEF IsLonger
    <3> QED BY <1>1, <2>1, <2>2, <3>1
  <2>3. CASE i = n + 1
    BY <1>1, <1>8, <1>10, <2>1, <2>3 DEF IsLonger
  <2> QED BY <1>1, <2>2, <2>3
<1>12. x = y
  BY <1>8, <1>9, <1>10, <1>11, SeqEqual DEF IsLonger
<1> QED BY <1>12 DEF IsAnswered, x, y, a, hf, n

LEMMA NoAnswers == ASSUME NEW q PROVE Answers(<<>>, q) = <<>>
BY DEF Answers

flat_vars ==
  <<fast.capacity + slow.capacity,
    IF PlainLru THEN slow.store \o fast.store ELSE <<>>,
    IF PlainLru THEN [i \in DOMAIN block_hits |-> <<request[i], block_hits[i] # "miss">>]
    ELSE <<>> >>

\* The policies of a simulator are the ones it was built with.
SameSimulator == SameKind(Tiers, Tiers') /\ depth' = depth

LEMMA SimulatorKept ==
  ASSUME SimInv, Next
  PROVE  SameSimulator
<1> USE DEF SameSimulator
<1>1. ASSUME UNCHANGED <<tiers, depth>> PROVE SameSimulator
  BY <1>1 DEF tiers, Tiers, SameKind
<1>2. ASSUME PrefetchAnchor PROVE SameSimulator
  <2> DEFINE anchor == request[turn]
             t == Walk(anchor)
  <2>1. /\ anchor \in Key /\ depth' = depth /\ TiersOK(Tiers) /\ Graph
        /\ request \in Seq(Key) /\ depth \in Nat
    BY <1>2 DEF PrefetchAnchor, SimInv, SimType
  <2>2. CASE InStore(Tiers, anchor)
    <3>1. SetTiers(t)
      BY <1>2, <2>2 DEF PrefetchAnchor
    <3>2. TiersOK(t) /\ SameKind(Tiers, t)
      BY <2>1, WalkSound
    <3> HIDE DEF t
    <3>3. Tiers' = t
      BY <3>1, <3>2, SetTiersFacts DEF TiersOK
    <3> QED BY <2>1, <3>2, <3>3
  <2>3. CASE ~InStore(Tiers, anchor)
    BY <1>1, <1>2, <2>1, <2>3 DEF PrefetchAnchor
  <2> QED BY <2>2, <2>3
<1>3. ASSUME NEW k \in Key, FastHit(k) PROVE SameSimulator
  <2>1. /\ Sound(fast) /\ fast' = touch(fast, k) /\ slow' = slow /\ depth' = depth
    BY <1>3 DEF FastHit, Accessing, SimInv, TiersOK, Tiers
  <2>2. fast'.name = fast.name /\ fast'.capacity = fast.capacity
    BY <2>1, TouchSound
  <2> QED BY <2>1, <2>2 DEF SameKind, Tiers
<1>4. ASSUME NEW k \in Key, SlowHit(k) PROVE SameSimulator
  <2> DEFINE t == Promote(Tiers, k)
  <2>1. TiersOK(Tiers) /\ k \in Resident(Tiers.slow) /\ SetTiers(t) /\ depth' = depth
    BY <1>4 DEF SlowHit, Accessing, SimInv, Tiers, contains
  <2>2. TiersOK(t) /\ SameKind(Tiers, t)
    BY <2>1, PromoteSound
  <2> HIDE DEF t
  <2>3. Tiers' = t
    BY <2>1, <2>2, SetTiersFacts DEF TiersOK
  <2> QED BY <2>1, <2>2, <2>3
<1>5. ASSUME NEW k \in Key, Miss(k) PROVE SameSimulator
  <2> DEFINE t == AdmitFast(Tiers, k)
  <2>1. TiersOK(Tiers) /\ k \notin Held(Tiers) /\ SetTiers(t) /\ depth' = depth
    BY <1>5 DEF Miss, Accessing, SimInv, Tiers, InStore, contains, Held
  <2>2. TiersOK(t) /\ SameKind(Tiers, t)
    BY <2>1, AdmitFastSound
  <2> HIDE DEF t
  <2>3. Tiers' = t
    BY <2>1, <2>2, SetTiersFacts DEF TiersOK
  <2> QED BY <2>1, <2>2, <2>3
<1>6. ASSUME NEW hash_ids, Arrive(hash_ids) PROVE SameSimulator
  BY <1>1, <1>6 DEF Arrive
<1>7. ASSUME Return PROVE SameSimulator
  BY <1>1, <1>7 DEF Return
<1> QED BY <1>2, <1>3, <1>4, <1>5, <1>6, <1>7 DEF Next, AccessBlock

LEMMA KindFacts ==
  ASSUME SameSimulator
  PROVE  /\ fast'.capacity = fast.capacity /\ slow'.capacity = slow.capacity
         /\ PlainLru' <=> PlainLru
BY DEF SameSimulator, SameKind, Tiers, PlainLru

\* Both modules take the operators on sequences from the same library.
LEMMA SameRemoval ==
  ASSUME NEW s, NEW k
  PROVE  Flat!RemoveFirst(s, k) = RemoveFirst(s, k)
BY DEF Flat!RemoveFirst, RemoveFirst, Flat!RemoveAt, RemoveAt, Flat!SelectInSeq, SelectInSeq,
       Flat!Min, Min

\* One access of the tiers is one access of the cache.
LEMMA AccessIsAccess ==
  ASSUME SimInv, PlainLru, SameSimulator, NEW k \in Key, NEW found \in {"fast", "slow", "miss"},
         Accessing(k, found), Uses(Tiers, k, Tiers'), k \in Held(Tiers) <=> found # "miss"
  PROVE  Flat!Access(k)
<1>1. /\ fast'.capacity = fast.capacity /\ slow'.capacity = slow.capacity /\ PlainLru'
  BY KindFacts
<1>2. LruTiers(Tiers)
  BY DEF SimInv, PlainLru, LruTiers, Tiers
<1>3. Order(Tiers) = slow.store \o fast.store /\ Order(Tiers') = slow'.store \o fast'.store
      /\ Room(Tiers) = fast.capacity + slow.capacity
  BY DEF Order, Tiers, Room
<1> DEFINE order == slow.store \o fast.store
           room == fast.capacity + slow.capacity
<1>4. AnswerOf(k, found) = <<k, k \in Flat!Range(order)>>
  <2>1. Range(order) = Held(Tiers)
    BY <1>2, <1>3, OrderFacts
  <2>2. Flat!Range(order) = Range(order)
    BY DEF Flat!Range, Range
  <2> HIDE DEF order
  <2>3. (found # "miss") = (k \in Flat!Range(order))
    BY <2>1, <2>2
  <2> QED BY <2>3, Zenon DEF AnswerOf
<1>5. /\ phase = "access" /\ turn <= Len(request) /\ k = request[turn]
      /\ block_hits' = Append(block_hits, found) /\ request' = request
      /\ block_hits \in Seq({"fast", "slow", "miss"}) /\ request \in Seq(Key)
      /\ turn \in Nat \ {0} /\ Len(block_hits) = turn - 1
  BY DEF Accessing, SimInv, SimType
<1>6. Len(block_hits) < Len(request) /\ k = request[Len(block_hits) + 1]
  BY <1>5
<1>7. IsAnswered(block_hits, found, request, k)
  BY <1>5, <1>6, Answered
<1>8. Answers(block_hits', request') = Append(Answers(block_hits, request), AnswerOf(k, found))
  BY <1>5, <1>7 DEF IsAnswered
<1> DEFINE used == Append(Flat!RemoveFirst(order, k), k)
<1>9. slow'.store \o fast'.store = IF Len(used) <= room THEN used ELSE Flat!Latest(room, used)
  <2>1. Flat!RemoveFirst(order, k) = RemoveFirst(order, k)
    BY SameRemoval
  <2> QED BY <1>3, <2>1 DEF Uses, IsLatest
<1>10. /\ Answers(block_hits, request) =
            [i \in DOMAIN block_hits |-> <<request[i], block_hits[i] # "miss">>]
       /\ Answers(block_hits', request') =
            [i \in DOMAIN block_hits' |-> <<request'[i], block_hits'[i] # "miss">>]
  BY Zenon DEF Answers, AnswerOf
<1>11. fast'.capacity + slow'.capacity = fast.capacity + slow.capacity
  BY <1>1
<1> QED BY <1>1, <1>4, <1>8, <1>9, <1>10, <1>11, Zenon DEF Flat!Access

LEMMA AccessUses ==
  ASSUME SimInv, PlainLru, AccessBlock
  PROVE  \E k \in Key, found \in {"fast", "slow", "miss"} :
           /\ Accessing(k, found) /\ Uses(Tiers, k, Tiers')
           /\ k \in Held(Tiers) <=> found # "miss"
<1>1. LruTiers(Tiers)
  BY DEF SimInv, PlainLru, LruTiers, Tiers
<1>2. PICK k \in Key : FastHit(k) \/ SlowHit(k) \/ Miss(k)
  BY DEF AccessBlock
<1>3. CASE FastHit(k)
  <2>1. /\ k \in Resident(Tiers.fast) /\ Tiers'.fast = touch(Tiers.fast, k)
        /\ Tiers'.slow = Tiers.slow /\ Accessing(k, "fast") /\ k \in Held(Tiers)
    BY <1>3 DEF FastHit, Tiers, contains, Held
  <2>2. Uses(Tiers, k, Tiers')
    BY <1>1, <2>1, FastUses
  <2> QED BY <2>1, <2>2
<1>4. CASE SlowHit(k)
  <2> DEFINE t == Promote(Tiers, k)
  <2>1. /\ k \in Resident(Tiers.slow) /\ SetTiers(t) /\ Accessing(k, "slow") /\ k \in Held(Tiers)
    BY <1>4 DEF SlowHit, Tiers, contains, Held
  <2>2. TiersOK(t) /\ Uses(Tiers, k, t)
    BY <1>1, <2>1, PromoteSound, SlowUses DEF LruTiers
  <2> HIDE DEF t
  <2>3. Tiers' = t
    BY <2>1, <2>2, SetTiersFacts DEF TiersOK
  <2> QED BY <2>1, <2>2, <2>3
<1>5. CASE Miss(k)
  <2> DEFINE t == AdmitFast(Tiers, k)
  <2>1. k \notin Held(Tiers) /\ SetTiers(t) /\ Accessing(k, "miss")
    BY <1>5 DEF Miss, Tiers, InStore, contains, Held
  <2>2. TiersOK(t) /\ Uses(Tiers, k, t)
    BY <1>1, <2>1, AdmitFastSound, MissUses DEF LruTiers
  <2> HIDE DEF t
  <2>3. Tiers' = t
    BY <2>1, <2>2, SetTiersFacts DEF TiersOK
  <2> QED BY <2>1, <2>2, <2>3
<1> QED BY <1>2, <1>3, <1>4, <1>5

LEMMA AccessRefines ==
  ASSUME SimInv, PlainLru, SameSimulator, AccessBlock
  PROVE  \E k \in Key : Flat!Access(k)
<1>1. PICK k \in Key, found \in {"fast", "slow", "miss"} :
        /\ Accessing(k, found) /\ Uses(Tiers, k, Tiers')
        /\ k \in Held(Tiers) <=> found # "miss"
  BY AccessUses
<1> QED BY <1>1, AccessIsAccess

\* Between two requests the cache forgets its answers.
LEMMA RequestRefines ==
  ASSUME PlainLru, SameSimulator, UNCHANGED tiers, block_hits' = <<>>
  PROVE  Flat!NewRequest
<1>1. /\ fast' = fast /\ slow' = slow /\ PlainLru'
  BY KindFacts DEF tiers
<1>2. [i \in DOMAIN block_hits' |-> <<request'[i], block_hits'[i] # "miss">>] = <<>>
  <2>1. Answers(block_hits', request') = <<>>
    BY NoAnswers
  <2> QED BY <2>1, Zenon DEF Answers, AnswerOf
<1>3. /\ fast'.capacity + slow'.capacity = fast.capacity + slow.capacity
      /\ slow'.store \o fast'.store = slow.store \o fast.store
  BY <1>1
<1> QED BY <1>1, <1>2, <1>3, Zenon DEF Flat!NewRequest

LEMMA LruStep ==
  ASSUME SimInv, [Next]_vars
  PROVE  [Flat!Next]_flat_vars
<1>1. CASE UNCHANGED vars
  <2>1. fast' = fast /\ slow' = slow /\ depth' = depth /\ request' = request
        /\ block_hits' = block_hits
    BY <1>1 DEF vars, tiers
  <2>2. PlainLru' <=> PlainLru
    BY <2>1 DEF PlainLru
  <2>3. flat_vars' = flat_vars
    BY <2>1, <2>2, Zenon DEF flat_vars
  <2> QED BY <2>3
<1>2. CASE Next /\ ~PlainLru
  <2>1. SameSimulator
    BY <1>2, SimulatorKept
  <2>2. /\ fast'.capacity = fast.capacity /\ slow'.capacity = slow.capacity /\ ~PlainLru'
    BY <1>2, <2>1, KindFacts
  <2>3. flat_vars' = flat_vars
    BY <1>2, <2>2 DEF flat_vars
  <2> QED BY <2>3
<1>3. CASE Next /\ PlainLru
  <2>1. SameSimulator
    BY <1>3, SimulatorKept
  <2>2. CASE \E hash_ids \in Requests : Arrive(hash_ids)
    <3>1. UNCHANGED tiers /\ block_hits' = <<>>
      BY <2>2 DEF Arrive
    <3> QED BY <1>3, <2>1, <3>1, RequestRefines DEF Flat!Next
  <2>3. CASE PrefetchAnchor
    <3>1. FALSE
      BY <1>3, <2>3 DEF PrefetchAnchor, SimInv, SimType, PlainLru
    <3> QED BY <3>1
  <2>4. CASE AccessBlock
    BY <1>3, <2>1, <2>4, AccessRefines DEF Flat!Next
  <2>5. CASE Return
    <3>1. UNCHANGED tiers /\ block_hits' = <<>>
      BY <2>5 DEF Return
    <3> QED BY <1>3, <2>1, <3>1, RequestRefines DEF Flat!Next
  <2> QED BY <1>3, <2>2, <2>3, <2>4, <2>5 DEF Next
<1> QED BY <1>1, <1>2, <1>3

LEMMA LruInit == Init => Flat!Init
<1> SUFFICES ASSUME Init PROVE Flat!Init
  OBVIOUS
<1>1. PICK a \in FastPolicies, m \in FastBlocks : fast = make_policy(a, m)
  BY DEF Init
<1>2. PICK b \in SlowPolicies, n \in SlowBlocks : slow = make_policy(b, n)
  BY DEF Init
<1>3. m \in Nat \ {0} /\ n \in Nat \ {0} /\ block_hits = <<>>
  BY SimulatorAssumption DEF Init
<1>4. fast.capacity = m /\ fast.store = <<>> /\ slow.capacity = n /\ slow.store = <<>>
  BY <1>1, <1>2 DEF make_policy
<1>5. fast.capacity + slow.capacity \in Nat \ {0}
  <2>1. m + n \in Nat \ {0}
    BY <1>3
  <2> QED BY <1>4, <2>1
<1>6. slow.store \o fast.store = <<>>
  BY <1>4, ConcatEmptySeq, EmptySeq
<1>7. [i \in DOMAIN block_hits |-> <<request[i], block_hits[i] # "miss">>] = <<>>
  <2>1. Answers(block_hits, request) = <<>>
    BY <1>3, NoAnswers
  <2> QED BY <2>1, Zenon DEF Answers, AnswerOf
<1> QED BY <1>5, <1>6, <1>7, Zenon DEF Flat!Init

\* For all capacities and any requests: two LRU tiers without prefetch answer
\* every access as one LRU cache of their joint capacity does.
THEOREM TwoTiersRefineLru == Spec => TwoTiersAreOneLru
<1>1. SimInv /\ [Next]_vars => [Flat!Next]_flat_vars
  BY LruStep
<1> QED BY <1>1, LruInit, SimInvariance, PTL
        DEF Spec, TwoTiersAreOneLru, Flat!Spec, flat_vars

----------------------------------------------------------------------------
(* What an LRU cache holds is a matter of the accesses alone.  H are the     *)
(* blocks accessed, m of them so far.                                        *)

\* The blocks used after the last use of k.
Since(H, m, k) == {H[i] : i \in {n \in 1..m : \A j \in n..m : H[j] # k}}
Seen(H, m) == {H[i] : i \in 1..m}

\* o is what a cache of c blocks holds, the block used last at the end.
IsLru(H, m, o, c) ==
  /\ o \in Seq(Key) /\ IsInjective(o) /\ Len(o) <= c
  /\ Range(o) \subseteq Seen(H, m)
  /\ \A i \in 1..Len(o) : Since(H, m, o[i]) = {o[j] : j \in (i + 1)..Len(o)}
  /\ \A k \in Seen(H, m) : k \notin Range(o) => Len(o) = c /\ Range(o) \subseteq Since(H, m, k)

LEMMA SamePast ==
  ASSUME NEW m \in Nat, NEW H, NEW G, \A i \in 1..m : G[i] = H[i], NEW o, NEW c, IsLru(H, m, o, c)
  PROVE  IsLru(G, m, o, c)
<1>1. Seen(G, m) = Seen(H, m)
  BY DEF Seen
<1>2. ASSUME NEW k PROVE Since(G, m, k) = Since(H, m, k)
  <2>1. ASSUME NEW n \in 1..m
        PROVE  (\A j \in n..m : G[j] # k) <=> (\A j \in n..m : H[j] # k)
    <3>1. \A j \in n..m : j \in 1..m
      OBVIOUS
    <3> QED BY <3>1
  <2> QED BY <2>1 DEF Since
<1> QED BY <1>1, <1>2 DEF IsLru

LEMMA SinceNext ==
  ASSUME NEW m \in Nat, NEW H, NEW x
  PROVE  LET k == H[m + 1]
         IN  /\ x # k => Since(H, m + 1, x) = Since(H, m, x) \cup {k}
             /\ x = k => Since(H, m + 1, x) = {}
             /\ Seen(H, m + 1) = Seen(H, m) \cup {k}
<1> DEFINE k == H[m + 1]
           I == {n \in 1..m : \A j \in n..m : H[j] # x}
           I2 == {n \in 1..(m + 1) : \A j \in n..(m + 1) : H[j] # x}
<1>1. 1..(m + 1) = 1..m \cup {m + 1} /\ m + 1 \notin 1..m
  OBVIOUS
<1>2. \A n \in 1..(m + 1) : n..(m + 1) = n..m \cup {m + 1}
  OBVIOUS
<1>3. x = k => I2 = {}
  BY <1>2
<1>4. x # k => I2 = I \cup {m + 1}
  <2> SUFFICES ASSUME x # k PROVE I2 = I \cup {m + 1}
    OBVIOUS
  <2>1. ASSUME NEW n \in 1..m PROVE n \in I2 <=> n \in I
    BY <1>1, <1>2
  <2>2. m + 1 \in I2
    <3>1. \A j \in (m + 1)..(m + 1) : j = m + 1
      OBVIOUS
    <3> QED BY <1>1, <3>1
  <2>3. I2 \subseteq 1..(m + 1) /\ I \subseteq 1..m
    OBVIOUS
  <2> HIDE DEF I, I2
  <2> QED BY <1>1, <2>1, <2>2, <2>3
<1>5. Since(H, m, x) = {H[i] : i \in I} /\ Since(H, m + 1, x) = {H[i] : i \in I2}
  BY DEF Since
<1> HIDE DEF I, I2
<1>6. Seen(H, m + 1) = Seen(H, m) \cup {k}
  BY <1>1 DEF Seen
<1> QED BY <1>3, <1>4, <1>5, <1>6

\* A larger cache holds what a smaller one does.
LEMMA LruIncluded ==
  ASSUME NEW m \in Nat, NEW H, NEW o, NEW c \in Nat, NEW p, NEW d \in Nat, c <= d,
         IsLru(H, m, o, c), IsLru(H, m, p, d)
  PROVE  Range(o) \subseteq Range(p)
<1> SUFFICES ASSUME NEW k \in Range(o), k \notin Range(p) PROVE FALSE
  OBVIOUS
<1>1. /\ o \in Seq(Key) /\ p \in Seq(Key) /\ Len(o) \in Nat /\ Len(p) \in Nat
      /\ DOMAIN o = 1..Len(o) /\ DOMAIN p = 1..Len(p) /\ Len(o) <= c
  BY DEF IsLru
<1>2. PICK i \in 1..Len(o) : o[i] = k
  BY <1>1 DEF Range
<1>3. Len(p) = d /\ Range(p) \subseteq {o[j] : j \in (i + 1)..Len(o)}
  BY <1>2 DEF IsLru
<1> DEFINE S == 1..d
           T == (i + 1)..Len(o)
           f == [n \in S |-> CHOOSE j \in T : o[j] = p[n]]
<1>4. ASSUME NEW n \in S PROVE f[n] \in T /\ o[f[n]] = p[n]
  <2>1. p[n] \in Range(p)
    BY <1>1, <1>3 DEF Range
  <2>2. \E j \in T : o[j] = p[n]
    BY <1>3, <2>1
  <2> HIDE DEF T
  <2> QED BY <2>2
<1>5. f \in [S -> T]
  <2>1. f = [n \in S |-> f[n]]
    OBVIOUS
  <2> HIDE DEF f, S, T
  <2> QED BY <1>4, <2>1
<1>6. IsFiniteSet(S) /\ IsFiniteSet(T) /\ Cardinality(T) < Cardinality(S)
  <2>1. IsFiniteSet(1..d) /\ Cardinality(1..d) = IF 1 > d THEN 0 ELSE d - 1 + 1
    BY FS_Interval
  <2>2. /\ IsFiniteSet((i + 1)..Len(o))
        /\ Cardinality((i + 1)..Len(o)) = IF i + 1 > Len(o) THEN 0 ELSE Len(o) - (i + 1) + 1
    <3> DEFINE a == i + 1
               b == Len(o)
    <3>1. a \in Int /\ b \in Int
      BY <1>1
    <3> HIDE DEF a, b
    <3>2. IsFiniteSet(a..b) /\ Cardinality(a..b) = IF a > b THEN 0 ELSE b - a + 1
      BY <3>1, FS_Interval
    <3> QED BY <3>2 DEF a, b
  <2>3. d >= 1 /\ Len(o) - (i + 1) + 1 < d
    BY <1>1
  <2> QED BY <1>1, <2>1, <2>2, <2>3
<1> HIDE DEF f, T
<1>7. PICK x \in S, y \in S : x # y /\ f[x] = f[y]
  <2> HIDE DEF S
  <2> QED BY <1>5, <1>6, FS_PigeonHole
<1>8. p[x] = p[y]
  BY <1>4, <1>7
<1> QED BY <1>1, <1>3, <1>7, <1>8 DEF IsLru, IsInjective

LEMMA NothingUsed ==
  ASSUME NEW H, NEW c \in Nat
  PROVE  IsLru(H, 0, <<>>, c)
<1>1. Seen(H, 0) = {} /\ 1..0 = {}
  BY DEF Seen
<1>2. <<>> \in Seq(Key) /\ Range(<<>>) = {} /\ IsInjective(<<>>) /\ Len(<<>>) = 0
  BY EmptyQueue
<1> QED BY <1>1, <1>2 DEF IsLru

\* The three ways the queue o may go on to q when k is used: k was in it, k is
\* new and there is room, k is new and there is none.
LEMMA LruUse ==
  ASSUME NEW m \in Nat, NEW H, NEW c \in Nat \ {0}, NEW o, IsLru(H, m, o, c),
         H[m + 1] \in Key, NEW q, IsLatest(c, q, Append(RemoveFirst(o, H[m + 1]), H[m + 1]))
  PROVE  IsLru(H, m + 1, q, c)
<1> DEFINE k == H[m + 1]
           l == Len(o)
           rest == RemoveFirst(o, k)
           used == Append(rest, k)
<1>1. /\ o \in Seq(Key) /\ IsInjective(o) /\ l <= c /\ l \in Nat /\ DOMAIN o = 1..l
      /\ Range(o) \subseteq Seen(H, m)
      /\ \A i \in 1..l : Since(H, m, o[i]) = {o[j] : j \in (i + 1)..l}
      /\ \A x \in Seen(H, m) : x \notin Range(o) => l = c /\ Range(o) \subseteq Since(H, m, x)
      /\ k \in Key
  <2>1. o \in Seq(Key) /\ IsInjective(o) /\ Len(o) <= c /\ Range(o) \subseteq Seen(H, m)
    BY DEF IsLru
  <2>2. /\ \A i \in 1..Len(o) : Since(H, m, o[i]) = {o[j] : j \in (i + 1)..Len(o)}
        /\ \A x \in Seen(H, m) :
             x \notin Range(o) => Len(o) = c /\ Range(o) \subseteq Since(H, m, x)
    BY DEF IsLru
  <2>3. Len(o) \in Nat /\ DOMAIN o = 1..Len(o)
    BY <2>1
  <2> QED BY <2>1, <2>2, <2>3
<1>2. /\ \A x : x # k => Since(H, m + 1, x) = Since(H, m, x) \cup {k}
      /\ Since(H, m + 1, k) = {}
      /\ Seen(H, m + 1) = Seen(H, m) \cup {k}
  BY SinceNext
<1> HIDE DEF k, l
<1>3. /\ rest \in Seq(Key) /\ IsInjective(rest) /\ Range(rest) = Range(o) \ {k}
      /\ k \notin Range(o) => rest = o
  BY <1>1, QueueRemoveFirst
<1> HIDE DEF rest
<1>4. /\ used \in Seq(Key) /\ IsInjective(used) /\ Range(used) = (Range(o) \ {k}) \cup {k}
      /\ Len(used) = Len(rest) + 1
  BY <1>1, <1>3, QueueAppend
<1>5. IsLonger(Key, used, rest, k)
  BY <1>1, <1>3, LongerIs
<1>6. q = IF Len(used) <= c THEN used ELSE Flat!Latest(c, used)
  BY DEF IsLatest, used, rest, k
<1> HIDE DEF used
<1>7. CASE k \in Range(o)
  <2>1. PICK n \in 1..l : o[n] = k
    BY <1>1, <1>7 DEF Range
  <2>2. IsWithout(Key, rest, o, n)
    BY <1>1, <2>1, WithoutIs DEF rest, l
  <2>3. /\ Len(used) = l /\ used[l] = k
        /\ \A i \in 1..(l - 1) : used[i] = IF i < n THEN o[i] ELSE o[i + 1]
    <3>1. Len(rest) = l - 1 /\ \A i \in 1..(l - 1) : rest[i] = IF i < n THEN o[i] ELSE o[i + 1]
      BY <2>2 DEF IsWithout, l
    <3>2. Len(rest) + 1 = l
      BY <1>1, <2>1, <3>1
    <3> QED BY <1>5, <3>1, <3>2 DEF IsLonger
  <2>4. q = used
    BY <1>1, <1>6, <2>3
  <2>5. Range(used) = Range(o)
    BY <1>4, <1>7
  <2>6. ASSUME NEW i \in 1..l
        PROVE  Since(H, m + 1, used[i]) = {used[j] : j \in (i + 1)..l}
    <3>1. CASE i = l
      BY <1>1, <1>2, <2>3, <3>1
    <3>2. CASE i # l
      <4> DEFINE p == IF i < n THEN i ELSE i + 1
      <4>1. p \in 1..l /\ p # n /\ used[i] = o[p] /\ i \in 1..(l - 1)
        BY <1>1, <2>1, <2>3, <3>2
      <4>2. o[p] # k
        BY <1>1, <2>1, <4>1 DEF IsInjective
      <4>3. Since(H, m + 1, used[i]) = {o[j] : j \in (p + 1)..l} \cup {k}
        BY <1>1, <1>2, <4>1, <4>2
      <4>4. ASSUME NEW j \in (p + 1)..l PROVE \E x \in (i + 1)..l : used[x] = o[j]
        <5>1. CASE j = n
          BY <1>1, <2>1, <2>3, <3>2, <5>1
        <5>2. CASE j < n
          <6>1. j \in (i + 1)..l /\ j \in 1..(l - 1)
            BY <1>1, <2>1, <4>1, <5>2
          <6> QED BY <2>3, <5>2, <6>1
        <5>3. CASE j > n
          <6>1. j - 1 \in (i + 1)..l /\ j - 1 \in 1..(l - 1) /\ ~(j - 1 < n) /\ (j - 1) + 1 = j
            BY <1>1, <2>1, <4>1, <5>3
          <6> QED BY <2>3, <6>1
        <5> QED BY <1>1, <2>1, <5>1, <5>2, <5>3
      <4>5. ASSUME NEW x \in (i + 1)..l
            PROVE  used[x] = k \/ \E j \in (p + 1)..l : used[x] = o[j]
        <5>1. CASE x = l
          BY <2>3, <5>1
        <5>2. CASE x # l /\ x < n
          <6>1. x \in 1..(l - 1) /\ x \in (p + 1)..l
            BY <1>1, <4>1, <5>2
          <6> QED BY <2>3, <5>2, <6>1
        <5>3. CASE x # l /\ ~(x < n)
          <6>1. x \in 1..(l - 1) /\ x + 1 \in (p + 1)..l
            BY <1>1, <4>1, <5>3
          <6> QED BY <2>3, <5>3, <6>1
        <5> QED BY <5>1, <5>2, <5>3
      <4>6. k \in {used[x] : x \in (i + 1)..l}
        BY <1>1, <2>3, <3>2
      <4> HIDE DEF p
      <4> QED BY <4>3, <4>4, <4>5, <4>6
    <3> QED BY <3>1, <3>2
  <2>7. ASSUME NEW x \in Seen(H, m + 1), x \notin Range(used)
        PROVE  l = c /\ Range(used) \subseteq Since(H, m + 1, x)
    BY <1>1, <1>2, <1>7, <2>5, <2>7
  <2>8. Range(used) \subseteq Seen(H, m + 1)
    BY <1>1, <1>2, <2>5
  <2>9. /\ q \in Seq(Key) /\ IsInjective(q) /\ Len(q) <= c /\ Len(q) = l
        /\ Range(q) \subseteq Seen(H, m + 1)
    BY <1>1, <1>4, <2>3, <2>4, <2>8
  <2>10. /\ \A i \in 1..l : Since(H, m + 1, q[i]) = {q[j] : j \in (i + 1)..l}
         /\ \A x \in Seen(H, m + 1) :
              x \notin Range(q) => l = c /\ Range(q) \subseteq Since(H, m + 1, x)
    BY <2>4, <2>6, <2>7
  <2> QED BY <2>9, <2>10 DEF IsLru
<1>8. CASE k \notin Range(o)
  <2>1. /\ Len(used) = l + 1 /\ used[l + 1] = k /\ Range(used) = Range(o) \cup {k}
        /\ \A i \in 1..l : used[i] = o[i]
    BY <1>3, <1>4, <1>5, <1>8 DEF IsLonger, l
  <2>2. ASSUME NEW i \in 1..l
        PROVE  Since(H, m + 1, o[i]) = {used[j] : j \in (i + 1)..(l + 1)}
    <3>1. o[i] # k
      BY <1>1, <1>8 DEF Range
    <3>2. Since(H, m + 1, o[i]) = {o[j] : j \in (i + 1)..l} \cup {k}
      BY <1>1, <1>2, <3>1
    <3>3. (i + 1)..(l + 1) = (i + 1)..l \cup {l + 1} /\ \A j \in (i + 1)..l : j \in 1..l
      BY <1>1
    <3> QED BY <2>1, <3>2, <3>3
  <2>3. CASE l < c
    <3>1. q = used /\ Len(used) <= c
      BY <1>1, <1>6, <2>1, <2>3
    <3>2. ASSUME NEW i \in 1..(l + 1)
          PROVE  Since(H, m + 1, used[i]) = {used[j] : j \in (i + 1)..(l + 1)}
      <4>1. CASE i \in 1..l
        BY <2>1, <2>2, <4>1
      <4>2. CASE i = l + 1
        BY <1>1, <1>2, <2>1, <4>2
      <4> QED BY <1>1, <4>1, <4>2
    <3>3. \A x \in Seen(H, m + 1) : x \in Range(used)
      BY <1>1, <1>2, <2>1, <2>3
    <3>4. Range(used) \subseteq Seen(H, m + 1)
      BY <1>1, <1>2, <2>1
    <3>5. /\ q \in Seq(Key) /\ IsInjective(q) /\ Len(q) <= c /\ Len(q) = l + 1
          /\ Range(q) \subseteq Seen(H, m + 1)
      BY <1>4, <2>1, <3>1, <3>4
    <3>6. /\ \A i \in 1..(l + 1) : Since(H, m + 1, q[i]) = {q[j] : j \in (i + 1)..(l + 1)}
          /\ \A x \in Seen(H, m + 1) : x \in Range(q)
      BY <3>1, <3>2, <3>3
    <3> QED BY <3>5, <3>6 DEF IsLru
  <2>4. CASE l = c
    <3>1. used # <<>> /\ ~(Len(used) <= c) /\ Len(used) - c + 1 = 2
      BY <1>1, <1>4, <2>1, <2>4
    <3>2. q = Tail(used)
      BY <1>4, <1>6, <3>1, TailIsSubSeq DEF Flat!Latest
    <3>3. /\ q \in Seq(Key) /\ IsInjective(q) /\ Range(used) = Range(q) \cup {Head(used)}
          /\ Head(used) \notin Range(q) /\ Len(q) = Len(used) - 1
      BY <1>4, <3>1, <3>2, QueueTail
    <3>4. IsRest(Key, q, used) /\ Head(used) = used[1]
      BY <1>4, <3>1, <3>2, RestIs
    <3>5. Len(q) = l /\ \A i \in 1..l : q[i] = used[i + 1]
      BY <1>1, <2>1, <3>3, <3>4 DEF IsRest
    <3>6. ASSUME NEW i \in 1..l
          PROVE  {used[j] : j \in (i + 1)..(l + 1)} = {q[j] : j \in i..l}
      <4>1. \A j \in (i + 1)..(l + 1) : j - 1 \in i..l /\ j - 1 \in 1..l /\ (j - 1) + 1 = j
        BY <1>1
      <4>2. \A j \in i..l : j + 1 \in (i + 1)..(l + 1) /\ j \in 1..l
        BY <1>1
      <4> QED BY <3>5, <4>1, <4>2
    <3>7. ASSUME NEW i \in 1..l
          PROVE  Since(H, m + 1, q[i]) = {q[j] : j \in (i + 1)..l}
      <4>1. CASE i = l
        BY <1>1, <1>2, <2>1, <3>5, <4>1
      <4>2. CASE i # l
        <5>1. i + 1 \in 1..l /\ q[i] = o[i + 1]
          BY <1>1, <2>1, <3>5, <4>2
        <5> QED BY <2>2, <3>6, <5>1
      <4> QED BY <4>1, <4>2
    <3>8. ASSUME NEW x \in Seen(H, m + 1), x \notin Range(q)
          PROVE  Range(q) \subseteq Since(H, m + 1, x)
      <4>1. CASE x = Head(used)
        <5>1. 1 \in 1..l /\ x = o[1]
          BY <1>1, <2>1, <2>4, <3>4, <4>1
        <5>2. Since(H, m + 1, x) = {q[j] : j \in 1..l}
          BY <2>2, <3>6, <5>1
        <5> QED BY <3>3, <3>5, <5>2 DEF Range
      <4>2. CASE x # Head(used)
        <5>1. x \notin Range(o) /\ x # k
          BY <2>1, <3>3, <3>8, <4>2
        <5>2. Range(o) \cup {k} \subseteq Since(H, m + 1, x)
          BY <1>1, <1>2, <3>8, <5>1
        <5> QED BY <2>1, <3>3, <5>2
      <4> QED BY <4>1, <4>2
    <3>9. Range(q) \subseteq Seen(H, m + 1)
      BY <1>1, <1>2, <2>1, <3>3
    <3> QED BY <1>1, <2>4, <3>3, <3>5, <3>7, <3>8, <3>9 DEF IsLru
  <2> QED BY <1>1, <2>3, <2>4
<1> QED BY <1>7, <1>8

----------------------------------------------------------------------------
(* The trace: the blocks of all records, one after the other.  w[i] are the  *)
(* blocks of the first i records of the plan.                                *)

Unfolds(w, p) ==
  /\ w \in [0..Len(p) -> Seq(Key)] /\ w[0] = <<>>
  /\ \A i \in 1..Len(p) : Spliced(Key, w[i - 1], p[i].hash_ids, w[i])

Whole == CHOOSE w : Unfolds(w, plan)
Trace == Whole[Len(plan)]

LEMMA WholeUnfolds ==
  ASSUME lines \in Seq(Lines), ~Malformed(lines)
  PROVE  Unfolds(Whole, plan)
<1> DEFINE n == Len(plan)
           X == Seq(Key)
           turns == [x \in (1..n) \X X |-> x[2] \o plan[x[1]].hash_ids]
<1>1. n \in Nat /\ \A i \in 1..n : plan[i].hash_ids \in X
  BY PlanRecords
<1> HIDE DEF plan
<1>2. <<>> \in X
  BY EmptySeq
<1>3. IsLoop(turns, n, X)
  <2>1. ASSUME NEW i \in 1..n, NEW s \in X PROVE s \o plan[i].hash_ids \in X
    BY <1>1, ConcatProperties
  <2> HIDE DEF X, n
  <2> QED BY <2>1 DEF IsLoop
<1>4. PICK g : IsRun(g, turns, n, X, <<>>)
  <2> HIDE DEF turns, n, X
  <2> QED BY <1>1, <1>2, <1>3, LoopResult
<1>5. g \in [0..n -> X] /\ g[0] = <<>>
  BY <1>4 DEF IsRun
<1>6. ASSUME NEW i \in 1..n PROVE Spliced(Key, g[i - 1], plan[i].hash_ids, g[i])
  <2>1. i - 1 \in 0..n
    BY <1>1
  <2>2. g[i - 1] \in X /\ g[i] = turns[<<i, g[i - 1]>>]
    BY <1>4, <1>5, <2>1 DEF IsRun
  <2>3. turns[<<i, g[i - 1]>>] = g[i - 1] \o plan[i].hash_ids
    <3> HIDE DEF X, n
    <3> QED BY <2>2
  <2>4. Spliced(Key, g[i - 1], plan[i].hash_ids, g[i - 1] \o plan[i].hash_ids)
    BY <1>1, <2>2, Splice
  <2> QED BY <2>2, <2>3, <2>4
<1>7. Unfolds(g, plan)
  BY <1>5, <1>6 DEF Unfolds
<1> QED BY <1>7 DEF Whole

\* t begins with s.
Starts(s, t) == Len(s) <= Len(t) /\ \A j \in 1..Len(s) : t[j] = s[j]

LEMMA WholeStarts ==
  ASSUME lines \in Seq(Lines), ~Malformed(lines), NEW i \in 0..Len(plan)
  PROVE  Starts(Whole[i], Trace) /\ Trace \in Seq(Key)
<1> DEFINE n == Len(plan)
           T == {m \in 0..n : m >= i => Starts(Whole[i], Whole[m])}
<1>1. n \in Nat /\ i \in 0..n
  BY PlanRecords
<1>2. Unfolds(Whole, plan)
  BY WholeUnfolds
<1> HIDE DEF plan, Whole
<1>3. \A m \in 0..n : Whole[m] \in Seq(Key) /\ Len(Whole[m]) \in Nat
  <2>1. \A m \in 0..n : Whole[m] \in Seq(Key)
    BY <1>2 DEF Unfolds
  <2>2. \A s \in Seq(Key) : Len(s) \in Nat
    OBVIOUS
  <2> HIDE DEF n
  <2> QED BY <2>1, <2>2
<1>4. \A m \in 1..n : Starts(Whole[m - 1], Whole[m])
  <2> SUFFICES ASSUME NEW m \in 1..n PROVE Starts(Whole[m - 1], Whole[m])
    OBVIOUS
  <2>1. Spliced(Key, Whole[m - 1], plan[m].hash_ids, Whole[m])
    BY <1>2 DEF Unfolds
  <2> DEFINE a == Len(Whole[m - 1])
             b == Len(plan[m].hash_ids)
  <2>2. m - 1 \in 0..n
    BY <1>1
  <2>3. a \in Nat /\ b \in Nat
    BY <1>3, <2>2, PlanRecords
  <2>4. Len(Whole[m]) = a + b
    BY <2>1 DEF Spliced
  <2> HIDE DEF a, b
  <2>5. a <= Len(Whole[m])
    BY <2>3, <2>4
  <2> QED BY <2>1, <2>5 DEF Spliced, Starts, a
<1>5. Starts(Whole[i], Whole[i])
  BY <1>1, <1>3 DEF Starts
<1> HIDE DEF n
<1>6. 0 \in T
  <2>1. 0 >= i => i = 0
    BY <1>1
  <2> QED BY <1>1, <1>5, <2>1
<1>7. ASSUME NEW m \in 1..n, m - 1 \in T PROVE m \in T
  <2> SUFFICES ASSUME m >= i PROVE Starts(Whole[i], Whole[m])
    BY <1>1
  <2>1. CASE m = i
    BY <1>5, <2>1
  <2>2. CASE m # i
    <3>1. m - 1 >= i /\ m - 1 \in 0..n /\ m \in 0..n
      BY <1>1, <2>2
    <3>2. Starts(Whole[i], Whole[m - 1])
      BY <1>7, <3>1
    <3>3. Starts(Whole[m - 1], Whole[m])
      BY <1>4
    <3>4. Len(Whole[i]) \in Nat /\ Len(Whole[m - 1]) \in Nat /\ Len(Whole[m]) \in Nat
      BY <1>1, <1>3, <3>1
    <3> QED BY <3>2, <3>3, <3>4 DEF Starts
  <2> QED BY <2>1, <2>2
<1>8. n \in T
  <2>1. T \in SUBSET (0..n) /\ n \in 0..n
    BY <1>1
  <2> HIDE DEF T
  <2> QED BY <1>1, <1>6, <1>7, <2>1, Upwards
<1> QED BY <1>1, <1>3, <1>8 DEF Trace, n

\* The blocks of a record are the next ones of the trace.
LEMMA RecordInTrace ==
  ASSUME lines \in Seq(Lines), ~Malformed(lines), NEW i \in 1..Len(plan)
  PROVE  LET l == Len(Whole[i - 1])
             ids == plan[i].hash_ids
         IN  /\ l \in Nat /\ ids \in Seq(Key) /\ Len(Whole[i]) = l + Len(ids)
             /\ \A j \in 1..Len(ids) : Trace[l + j] = ids[j]
<1> DEFINE l == Len(Whole[i - 1])
           ids == plan[i].hash_ids
<1>1. Len(plan) \in Nat /\ ids \in Seq(Key) /\ Len(ids) \in Nat
  BY PlanRecords
<1>2. i - 1 \in 0..Len(plan) /\ i \in 0..Len(plan)
  BY <1>1
<1>3. Starts(Whole[i], Trace)
  BY <1>2, WholeStarts
<1>4. Whole[i - 1] \in Seq(Key) /\ Spliced(Key, Whole[i - 1], ids, Whole[i])
  BY <1>2, WholeUnfolds DEF Unfolds
<1>5. l \in Nat /\ Len(Whole[i]) = l + Len(ids) /\ \A j \in 1..Len(ids) : Whole[i][l + j] = ids[j]
  BY <1>4 DEF Spliced
<1> HIDE DEF l, ids
<1>6. ASSUME NEW j \in 1..Len(ids) PROVE Trace[l + j] = ids[j]
  <2>1. l + j \in 1..Len(Whole[i])
    BY <1>1, <1>5
  <2> QED BY <1>3, <1>5, <2>1 DEF Starts
<1> QED BY <1>1, <1>5, <1>6 DEF l, ids

LEMMA SameTrace ==
  ASSUME UNCHANGED lines
  PROVE  plan' = plan /\ Whole' = Whole /\ Trace' = Trace
<1>1. plan' = plan
  BY DEF plan
<1> QED BY <1>1 DEF Whole, Trace

----------------------------------------------------------------------------
(* A replay logs the trace, block by block. *)

Tracing ==
  cfg # NoConfig =>
    /\ step \in 1..(Len(plan) + 1) /\ Len(log) = Len(Whole[step - 1])
    /\ \A i \in 1..Len(log) : log[i].hash_id = Trace[i]
    /\ phase # "idle" => step <= Len(plan) /\ request = plan[step].hash_ids

\* Steps within a record, and between the replays.
LEMMA TracingOn ==
  ASSUME Tracing, UNCHANGED <<lines, log, step>>,
         cfg' = NoConfig \/ (cfg' = cfg /\ UNCHANGED request /\ (phase = "idle" => phase' = "idle"))
  PROVE  Tracing'
<1>1. plan' = plan /\ Whole' = Whole /\ Trace' = Trace
  BY SameTrace
<1> QED BY <1>1 DEF Tracing

LEMMA TracingStep ==
  ASSUME ReplayInv, Tracing, [ReplayNext]_replay_vars
  PROVE  Tracing'
<1>1. SimInv /\ History /\ Calls /\ lines \in Seq(Lines) /\ SimType
  BY DEF ReplayInv, Calls, SimInv
<1>2. ASSUME NEW c \in Configs, Call(c) PROVE Tracing'
  <2>1. /\ lines' = lines /\ step' = 1 /\ log' = <<>> /\ phase' = "idle" /\ ~Malformed(lines)
    BY <1>1, <1>2 DEF Call, Fresh, Calls
  <2>2. plan' = plan /\ Whole' = Whole /\ Trace' = Trace
    BY <2>1, SameTrace
  <2>3. Len(plan) \in Nat /\ Whole[0] = <<>>
    BY <1>1, <2>1, WholeUnfolds, PlanRecords DEF Unfolds
  <2>4. Len(<<>>) = 0 /\ step' \in 1..(Len(plan) + 1) /\ step' - 1 = 0 /\ 1..0 = {}
    BY <2>1, <2>3
  <2> QED BY <2>1, <2>2, <2>3, <2>4 DEF Tracing
<1>3. ASSUME NEW c \in Configs, CallRaises(c) PROVE Tracing'
  BY <1>3, TracingOn DEF CallRaises, samples
<1>4. CASE NextRecord
  <2>1. /\ UNCHANGED <<lines, cfg, step, log>> /\ cfg # NoConfig /\ step <= Len(plan)
        /\ request' = plan[step].hash_ids
    BY <1>4 DEF NextRecord, Running, Arrive, samples
  <2>2. plan' = plan /\ Whole' = Whole /\ Trace' = Trace
    BY <2>1, SameTrace
  <2> QED BY <2>1, <2>2 DEF Tracing
<1>5. CASE Tiered
  <2>1. /\ UNCHANGED <<lines, cfg, step, log>> /\ (PrefetchAnchor \/ AccessBlock)
    BY <1>5 DEF Tiered, samples
  <2>2. phase # "idle" /\ request' = request
    BY <2>1 DEF PrefetchAnchor, AccessBlock, FastHit, SlowHit, Miss, Accessing
  <2> QED BY <2>1, <2>2, TracingOn
<1>6. CASE PoolAccess
  <2>1. UNCHANGED <<lines, cfg, step, log, request, phase>>
    BY <1>6 DEF PoolAccess, samples
  <2> QED BY <2>1, TracingOn
<1>7. CASE EndRecord
  <2>1. /\ UNCHANGED <<lines, cfg>> /\ step' = step + 1 /\ cfg # NoConfig /\ phase' = "idle"
        /\ phase = "access" /\ ~Malformed(lines)
    BY <1>1, <1>7 DEF EndRecord, Return, Running, Calls
  <2>2. plan' = plan /\ Whole' = Whole /\ Trace' = Trace
    BY <2>1, SameTrace
  <2>3. /\ step \in 1..(Len(plan) + 1) /\ step <= Len(plan) /\ request = plan[step].hash_ids
        /\ Len(log) = Len(Whole[step - 1]) /\ \A i \in 1..Len(log) : log[i].hash_id = Trace[i]
    BY <2>1 DEF Tracing
  <2>4. Len(plan) \in Nat
    BY <1>1, <2>1, PlanRecords
  <2>5. step \in 1..Len(plan) /\ step + 1 \in 1..(Len(plan) + 1) /\ (step + 1) - 1 = step
    BY <2>3, <2>4
  <2> DEFINE l == Len(log)
             n == Len(request)
  <2>6. Len(Whole[step]) = l + n /\ \A j \in 1..n : Trace[l + j] = request[j]
    BY <1>1, <2>1, <2>3, <2>5, RecordInTrace
  <2>7. /\ l \in Nat /\ n \in Nat /\ Len(log') = l + n /\ \A i \in 1..l : log'[i] = log[i]
        /\ \A i \in 1..n : log'[l + i].hash_id = request[i]
    BY <1>1, <1>7, LogGrows
  <2> HIDE DEF l, n
  <2>8. ASSUME NEW i \in 1..(l + n) PROVE log'[i].hash_id = Trace[i]
    <3>1. CASE i \in 1..l
      BY <2>3, <2>7, <3>1 DEF l
    <3>2. CASE i \notin 1..l
      <4> DEFINE j == i - l
      <4>1. j \in 1..n /\ i = l + j
        BY <2>7, <3>2
      <4> HIDE DEF j
      <4> QED BY <2>6, <2>7, <4>1
    <3> QED BY <3>1, <3>2
  <2> QED BY <2>1, <2>2, <2>5, <2>6, <2>7, <2>8 DEF Tracing
<1>8. ASSUME NEW lock \in LockFiles, Report(lock) \/ ReportRaises(lock) PROVE Tracing'
  BY <1>8, TracingOn DEF Report, ReportRaises, Finished, samples
<1>9. CASE UNCHANGED replay_vars
  BY <1>9, TracingOn DEF replay_vars, samples, vars
<1> QED BY <1>2, <1>3, <1>4, <1>5, <1>6, <1>7, <1>8, <1>9 DEF ReplayNext

----------------------------------------------------------------------------
(* A replay of LRU pools answers every access as an LRU cache of their joint *)
(* capacity does after the part of the trace before it.                      *)

Cap(c) == IF c.target = "project" THEN ProjectPool + ProjectPool * SlowFactor ELSE BaselinePool

Queue == IF cfg.target = "project" THEN Order(Tiers) ELSE fast.store
Size == IF cfg.target = "project" THEN Room(Tiers) ELSE fast.capacity

Looked(H, n, c, hit) == \E o : IsLru(H, n - 1, o, c) /\ (hit <=> H[n] \in Range(o))

LruReplay ==
  cfg # NoConfig /\ PlainLruConfig(cfg) =>
    /\ PlainLru /\ Size = Cap(cfg)
    /\ IsLru(Trace, Len(log) + Len(block_hits), Queue, Cap(cfg))
    /\ \A i \in 1..Len(log) : Looked(Trace, i, Cap(cfg), log[i].hit)
    /\ \A i \in 1..Len(block_hits) :
         Looked(Trace, Len(log) + i, Cap(cfg), block_hits[i] # "miss")

LEMMA CapFacts ==
  ASSUME NEW c \in Configs
  PROVE  Cap(c) \in Nat \ {0}
<1>1. ProjectPool \in Nat \ {0} /\ BaselinePool \in Nat \ {0} /\ SlowFactor \in Nat \ {0}
  BY ReplayAssumption
<1>2. \A m, n \in Nat \ {0} : m * n \in Nat
  OBVIOUS
<1>3. \A m \in Nat \ {0}, n \in Nat : m + n \in Nat \ {0}
  OBVIOUS
<1> QED BY <1>1, <1>2, <1>3 DEF Cap

\* An access: k is the next block of the trace.
LEMMA LruAccess ==
  ASSUME ReplayInv, Tracing, LruReplay, Running, PlainLruConfig(cfg),
         UNCHANGED <<lines, cfg, log>>, phase = "access", turn <= Len(request),
         NEW found, block_hits' = Append(block_hits, found), PlainLru', Size' = Size,
         IsLatest(Size, Queue', Append(RemoveFirst(Queue, request[turn]), request[turn])),
         found # "miss" <=> request[turn] \in Range(Queue)
  PROVE  LruReplay'
<1> DEFINE k == request[turn]
           m == Len(log) + Len(block_hits)
           c == Cap(cfg)
<1>1. /\ cfg # NoConfig /\ cfg \in Configs /\ lines \in Seq(Lines) /\ ~Malformed(lines)
      /\ SimType /\ History
  BY DEF Running, ReplayInv, Calls, SimInv
<1>2. Trace' = Trace /\ cfg' = cfg /\ log' = log
  BY SameTrace
<1>3. c \in Nat \ {0}
  BY <1>1, CapFacts
<1>4. /\ PlainLru /\ Size = c /\ IsLru(Trace, m, Queue, c)
      /\ \A i \in 1..Len(log) : Looked(Trace, i, c, log[i].hit)
      /\ \A i \in 1..Len(block_hits) : Looked(Trace, Len(log) + i, c, block_hits[i] # "miss")
  BY <1>1 DEF LruReplay
<1>5. /\ turn \in Nat \ {0} /\ request \in Seq(Key) /\ Len(block_hits) = turn - 1
      /\ Len(log) \in Nat /\ block_hits \in Seq({"fast", "slow", "miss"})
      /\ Len(request) \in Nat /\ turn \in 1..Len(request)
  <2>1. /\ turn \in Nat \ {0} /\ request \in Seq(Key) /\ Len(block_hits) = turn - 1
        /\ block_hits \in Seq({"fast", "slow", "miss"}) /\ log \in Seq(Events)
    BY <1>1 DEF SimType, History
  <2> QED BY <2>1
<1>6. Trace[m + 1] = k /\ k \in Key /\ m \in Nat /\ m + 1 = Len(log) + turn
  <2>1. /\ step \in 1..Len(plan) /\ request = plan[step].hash_ids
        /\ Len(log) = Len(Whole[step - 1])
    <3>1. /\ step \in 1..(Len(plan) + 1) /\ step <= Len(plan) /\ request = plan[step].hash_ids
          /\ Len(log) = Len(Whole[step - 1])
      BY <1>1 DEF Tracing
    <3>2. Len(plan) \in Nat
      BY <1>1, PlanRecords
    <3> QED BY <3>1, <3>2
  <2>2. \A j \in 1..Len(request) : Trace[Len(log) + j] = request[j]
    BY <1>1, <2>1, RecordInTrace
  <2>3. m \in Nat /\ m + 1 = Len(log) + turn
    BY <1>5
  <2> HIDE DEF m
  <2> QED BY <1>5, <2>2, <2>3
<1> HIDE DEF k, m, c
<1>7. IsLru(Trace, m + 1, Queue', c)
  BY <1>3, <1>4, <1>6, LruUse DEF k
<1>8. Looked(Trace, m + 1, c, found # "miss")
  <2>1. (m + 1) - 1 = m
    BY <1>6
  <2> QED BY <1>4, <1>6, <2>1 DEF Looked, k
<1> DEFINE h == block_hits
           h2 == block_hits'
<1>9. /\ Len(h2) = Len(h) + 1 /\ h2[Len(h) + 1] = found
      /\ \A i \in 1..Len(h) : h2[i] = h[i]
      /\ Len(h) \in Nat
  BY <1>5, AppendProperties
<1>10. Len(log) + Len(h2) = m + 1 /\ Len(log) + (Len(h) + 1) = m + 1
  BY <1>5, <1>9 DEF m
<1>11. ASSUME NEW i \in 1..Len(h2) PROVE Looked(Trace, Len(log) + i, c, h2[i] # "miss")
  <2>1. CASE i = Len(h) + 1
    BY <1>8, <1>9, <1>10, <2>1
  <2>2. CASE i # Len(h) + 1
    <3>1. i \in 1..Len(h)
      BY <1>9, <2>2
    <3> QED BY <1>4, <1>9, <3>1
  <2> QED BY <2>1, <2>2
<1>12. IsLru(Trace, Len(log) + Len(h2), Queue', c)
  BY <1>7, <1>10
<1> QED BY <1>2, <1>4, <1>11, <1>12 DEF LruReplay, c

\* The pool of the baseline: what an access makes of its queue.
LEMMA PoolUses ==
  ASSUME NEW p, Sound(p), p.name = "lru", NEW k \in Key, NEW b \in Nat
  PROVE  IsLatest(p.capacity, access(p, k, b).policy.store, Append(RemoveFirst(p.store, k), k))
<1> DEFINE q == access(p, k, b).policy.store
           used == MoveToEnd(p.store, k)
<1>1. /\ p.store \in Seq(Key) /\ IsInjective(p.store) /\ Resident(p) = Range(p.store)
      /\ Len(p.store) \in Nat /\ Len(p.store) <= p.capacity /\ p.capacity \in Nat
  BY LruFacts
<1>2. ~IsS3(p) /\ p.name # "prefix_lru" /\ p.name # "s3fifo_prefix"
  BY DEF IsS3, S3Family
<1>3. /\ used \in Seq(Key) /\ Len(used) \in Nat
      /\ k \notin Range(p.store) => used = Append(p.store, k) /\ Len(used) = Len(p.store) + 1
      /\ k \in Range(p.store) => Len(used) = Len(p.store)
  BY <1>2, MovedToEnd
<1> SUFFICES q = IF Len(used) <= p.capacity THEN used ELSE Flat!Latest(p.capacity, used)
  BY DEF IsLatest, MoveToEnd
<1>4. CASE k \in Resident(p)
  <2>1. access(p, k, b) = Kept(touch(p, k))
    BY <1>2, <1>4 DEF access, Hit, contains
  <2>2. q = touch(p, k).store
    BY <2>1, KeptFacts
  <2>3. touch(p, k).store = used
    BY <1>4, TouchSound
  <2> HIDE DEF q, used
  <2> QED BY <1>1, <1>3, <1>4, <2>2, <2>3
<1>5. CASE k \notin Resident(p)
  <2>1. access(p, k, b) = admit(p, k, b)
    BY <1>2, <1>5 DEF access, contains, Bypassed
  <2>2. Oldest(p, k, admit(p, k, b))
    BY <1>5, AdmitSound
  <2>3. CASE Len(p.store) < p.capacity /\ q = Append(p.store, k)
    <3> HIDE DEF q, used
    <3> QED BY <1>1, <1>3, <1>5, <2>3
  <2>4. CASE Len(p.store) = p.capacity /\ p.store # <<>> /\ q = Append(Tail(p.store), k)
    <3>1. Len(used) = Len(p.store) + 1 /\ used = Append(p.store, k)
      BY <1>1, <1>3, <1>5
    <3>2. Append(Tail(p.store), k) = Tail(used)
      <4>1. Tail(Append(p.store, k)) = Append(Tail(p.store), k)
        BY <1>1, <2>4, SMT
      <4> QED BY <3>1, <4>1
    <3>3. ~(Len(used) <= p.capacity) /\ Len(used) - p.capacity + 1 = 2 /\ used # <<>>
      <4>1. Len(<<>>) = 0
        OBVIOUS
      <4> HIDE DEF used
      <4> QED BY <1>1, <2>4, <3>1, <4>1
    <3>4. Flat!Latest(p.capacity, used) = Tail(used)
      <4> HIDE DEF used
      <4> QED BY <1>3, <3>3, TailIsSubSeq DEF Flat!Latest
    <3> HIDE DEF q, used
    <3> QED BY <2>4, <3>2, <3>3, <3>4
  <2> QED BY <2>1, <2>2, <2>3, <2>4 DEF Oldest
<1> QED BY <1>4, <1>5

LEMMA LruCalled ==
  ASSUME ReplayInv, NEW c \in Configs, Call(c)
  PROVE  LruReplay'
<1> SUFFICES ASSUME PlainLruConfig(c) PROVE LruReplay'
  BY DEF Call, LruReplay, PlainLruConfig, PolicyName
<1>1. /\ cfg' = c /\ log' = <<>> /\ block_hits' = block_hits /\ phase = "idle" /\ SimType
      /\ fast' = make_policy(PolicyName(c), Pool(c))
      /\ slow' = make_policy("lru", Pool(c) * SlowFactor)
      /\ depth' = (IF c.target = "project" /\ c.prefetch THEN ProjectDepth ELSE 0)
  BY DEF Call, Fresh, ReplayInv, Calls, SimInv
<1>2. PolicyName(c) = "lru" /\ depth' = 0 /\ block_hits' = <<>>
  BY <1>1 DEF PlainLruConfig, SimType
<1>3. /\ fast'.name = "lru" /\ fast'.capacity = Pool(c) /\ fast'.store = <<>>
      /\ slow'.name = "lru" /\ slow'.capacity = Pool(c) * SlowFactor /\ slow'.store = <<>>
  BY <1>1, <1>2 DEF make_policy
<1>4. PlainLru'
  BY <1>2, <1>3 DEF PlainLru
<1>5. Tiers'.fast = fast' /\ Tiers'.slow = slow'
  BY DEF Tiers
<1>6. Size' = Cap(c)
  BY <1>1, <1>3, <1>5 DEF Size, Room, Cap, Pool
<1>7. Queue' = <<>>
  <2>1. Order(Tiers') = <<>>
    BY <1>3, <1>5, ConcatEmptySeq, EmptySeq DEF Order
  <2> QED BY <1>1, <1>3, <2>1 DEF Queue
<1>8. Cap(c) \in Nat
  BY CapFacts
<1>9. IsLru(Trace', 0, <<>>, Cap(c))
  BY <1>8, NothingUsed
<1>10. Len(log') + Len(block_hits') = 0 /\ 1..Len(log') = {} /\ 1..Len(block_hits') = {}
  BY <1>1, <1>2
<1> QED BY <1>1, <1>4, <1>6, <1>7, <1>9, <1>10 DEF LruReplay

LEMMA LruOn ==
  ASSUME LruReplay, UNCHANGED <<lines, log>>,
         cfg' = NoConfig \/ (cfg' = cfg /\ UNCHANGED <<fast, slow, depth, block_hits>>)
  PROVE  LruReplay'
<1>1. Trace' = Trace
  BY SameTrace
<1>2. CASE cfg' = NoConfig
  BY <1>2 DEF LruReplay
<1>3. CASE cfg' = cfg /\ UNCHANGED <<fast, slow, depth, block_hits>>
  <2>1. Size' = Size /\ Queue' = Queue /\ (PlainLru' <=> PlainLru)
    BY <1>3 DEF Size, Queue, Tiers, PlainLru
  <2>2. cfg' = cfg /\ block_hits' = block_hits /\ log' = log
    BY <1>3
  <2>3. PlainLruConfig(cfg)' <=> PlainLruConfig(cfg)
    BY <2>2 DEF PlainLruConfig, PolicyName
  <2> QED BY <1>1, <2>1, <2>2, <2>3 DEF LruReplay, Cap
<1> QED BY <1>2, <1>3

LEMMA LruEnd ==
  ASSUME ReplayInv, LruReplay, EndRecord
  PROVE  LruReplay'
<1>1. /\ SimInv /\ History /\ cfg # NoConfig /\ UNCHANGED <<lines, cfg, fast, slow, depth>>
      /\ block_hits' = <<>>
  BY DEF ReplayInv, EndRecord, Running, Return, tiers
<1> SUFFICES ASSUME PlainLruConfig(cfg) PROVE LruReplay'
  BY <1>1 DEF LruReplay, PlainLruConfig, PolicyName
<1> DEFINE l == Len(log)
           n == Len(request)
           c == Cap(cfg)
<1>2. Trace' = Trace /\ Size' = Size /\ Queue' = Queue /\ (PlainLru' <=> PlainLru) /\ cfg' = cfg
  BY <1>1, SameTrace DEF Size, Queue, Tiers, PlainLru
<1>3. /\ PlainLru /\ Size = c /\ IsLru(Trace, l + Len(block_hits), Queue, c)
      /\ \A i \in 1..l : Looked(Trace, i, c, log[i].hit)
      /\ \A i \in 1..Len(block_hits) : Looked(Trace, l + i, c, block_hits[i] # "miss")
  BY <1>1 DEF LruReplay
<1>4. /\ l \in Nat /\ n \in Nat /\ Len(log') = l + n /\ Len(block_hits) = n
      /\ \A i \in 1..l : log'[i] = log[i]
      /\ \A i \in 1..n : log'[l + i].hit <=> block_hits[i] # "miss"
  BY <1>1, LogGrows
<1> HIDE DEF l, n, c
<1>5. ASSUME NEW i \in 1..(l + n) PROVE Looked(Trace, i, c, log'[i].hit)
  <2>1. CASE i \in 1..l
    BY <1>3, <1>4, <2>1
  <2>2. CASE i \notin 1..l
    <3> DEFINE j == i - l
    <3>1. j \in 1..n /\ i = l + j
      BY <1>4, <2>2
    <3> HIDE DEF j
    <3>2. Looked(Trace, l + j, c, block_hits[j] # "miss")
      BY <1>3, <1>4, <3>1
    <3>3. log'[l + j].hit <=> block_hits[j] # "miss"
      BY <1>4, <3>1
    <3> QED BY <3>1, <3>2, <3>3 DEF Looked
  <2> QED BY <2>1, <2>2
<1>6. Len(log') + Len(block_hits') = l + n /\ 1..Len(block_hits') = {}
  BY <1>1, <1>4
<1>7. IsLru(Trace, Len(log') + Len(block_hits'), Queue', c)
  BY <1>2, <1>3, <1>4, <1>6
<1> QED BY <1>2, <1>3, <1>4, <1>5, <1>6, <1>7 DEF LruReplay, c

LEMMA LruTiered ==
  ASSUME ReplayInv, Tracing, LruReplay, Tiered
  PROVE  LruReplay'
<1>1. /\ Running /\ cfg.target = "project" /\ (PrefetchAnchor \/ AccessBlock)
      /\ UNCHANGED <<lines, cfg, log>> /\ SimInv
  BY DEF Tiered, ReplayInv, samples
<1> SUFFICES ASSUME PlainLruConfig(cfg) PROVE LruReplay'
  BY <1>1 DEF LruReplay, PlainLruConfig, PolicyName
<1>2. PlainLru
  BY <1>1 DEF LruReplay, Running
<1>3. AccessBlock
  BY <1>1, <1>2 DEF PrefetchAnchor, SimInv, SimType, PlainLru
<1>4. SameSimulator
  BY <1>1, <1>3, SimulatorKept DEF Next
<1>5. PICK k \in Key, found \in {"fast", "slow", "miss"} :
        /\ Accessing(k, found) /\ Uses(Tiers, k, Tiers')
        /\ k \in Held(Tiers) <=> found # "miss"
  BY <1>1, <1>2, <1>3, AccessUses
<1>6. /\ phase = "access" /\ turn <= Len(request) /\ k = request[turn]
      /\ block_hits' = Append(block_hits, found)
  BY <1>5 DEF Accessing
<1>7. PlainLru' /\ fast'.capacity = fast.capacity /\ slow'.capacity = slow.capacity
  BY <1>2, <1>4, KindFacts
<1>8. Size = Room(Tiers) /\ Size' = Size
  BY <1>1, <1>7 DEF Size, Room, Tiers
<1>9. Queue = Order(Tiers) /\ Queue' = Order(Tiers')
  BY <1>1 DEF Queue
<1>10. Range(Queue) = Held(Tiers)
  <2>1. LruTiers(Tiers)
    BY <1>1, <1>2 DEF SimInv, PlainLru, LruTiers, Tiers
  <2> QED BY <1>9, <2>1, OrderFacts
<1>11. IsLatest(Size, Queue', Append(RemoveFirst(Queue, request[turn]), request[turn]))
  BY <1>5, <1>6, <1>8, <1>9 DEF Uses
<1>12. found # "miss" <=> request[turn] \in Range(Queue)
  BY <1>5, <1>6, <1>10
<1> QED BY <1>1, <1>6, <1>7, <1>8, <1>11, <1>12, LruAccess

LEMMA LruPool ==
  ASSUME ReplayInv, Tracing, LruReplay, PoolAccess
  PROVE  LruReplay'
<1> DEFINE k == request[turn]
           r == access(fast, k, turn - 1).policy
           found == IF contains(fast, k) THEN "fast" ELSE "miss"
<1>1. /\ Running /\ cfg.target = "baseline" /\ phase = "access" /\ turn <= Len(request)
      /\ fast' = r /\ block_hits' = Append(block_hits, found)
      /\ UNCHANGED <<slow, depth, lines, cfg, log>> /\ SimInv
  BY DEF PoolAccess, ReplayInv, samples
<1> SUFFICES ASSUME PlainLruConfig(cfg) PROVE LruReplay'
  BY <1>1 DEF LruReplay, PlainLruConfig, PolicyName
<1>2. PlainLru
  BY <1>1 DEF LruReplay, Running
<1>3. /\ turn \in Nat \ {0} /\ request \in Seq(Key) /\ Sound(fast) /\ fast.name = "lru"
  BY <1>1, <1>2 DEF SimInv, SimType, TiersOK, Tiers, PlainLru
<1>4. k \in Key /\ turn - 1 \in Nat
  BY <1>1, <1>3
<1> HIDE DEF k
<1>5. /\ IsLatest(fast.capacity, r.store, Append(RemoveFirst(fast.store, k), k))
      /\ r.name = fast.name /\ r.capacity = fast.capacity
  <2> DEFINE b == turn - 1
  <2>1. b \in Nat
    BY <1>4
  <2> HIDE DEF b
  <2>2. /\ access(fast, k, b).policy.name = fast.name
        /\ access(fast, k, b).policy.capacity = fast.capacity
    BY <1>3, <1>4, <2>1, AccessSound
  <2>3. IsLatest(fast.capacity, access(fast, k, b).policy.store,
                 Append(RemoveFirst(fast.store, k), k))
    BY <1>3, <1>4, <2>1, PoolUses
  <2> QED BY <2>2, <2>3 DEF b
<1> HIDE DEF r
<1>6. Size = fast.capacity /\ Size' = Size /\ Queue = fast.store /\ Queue' = r.store
  BY <1>1, <1>5 DEF Size, Queue
<1>7. PlainLru'
  BY <1>1, <1>2, <1>5 DEF PlainLru
<1>8. found # "miss" <=> k \in Range(Queue)
  BY <1>3, <1>6, LruFacts DEF contains
<1> HIDE DEF found
<1>9. /\ IsLatest(Size, Queue', Append(RemoveFirst(Queue, request[turn]), request[turn]))
      /\ found # "miss" <=> request[turn] \in Range(Queue)
  BY <1>5, <1>6, <1>8 DEF k
<1> QED BY <1>1, <1>6, <1>7, <1>9, LruAccess

LEMMA LruReplayStep ==
  ASSUME ReplayInv, Tracing, LruReplay, [ReplayNext]_replay_vars
  PROVE  LruReplay'
<1>1. ASSUME NEW c \in Configs, CallRaises(c) PROVE LruReplay'
  BY <1>1, LruOn DEF CallRaises, samples, vars, tiers
<1>2. CASE NextRecord
  <2>1. /\ UNCHANGED <<lines, cfg, log, fast, slow, depth>> /\ phase = "idle" /\ block_hits' = <<>>
    BY <1>2 DEF NextRecord, Arrive, samples, tiers
  <2>2. block_hits = <<>>
    BY <2>1 DEF ReplayInv, SimInv, SimType
  <2> QED BY <2>1, <2>2, LruOn
<1>3. ASSUME NEW lock \in LockFiles, Report(lock) \/ ReportRaises(lock) PROVE LruReplay'
  BY <1>3, LruOn DEF Report, ReportRaises, Finished, samples
<1>4. CASE UNCHANGED replay_vars
  BY <1>4, LruOn DEF replay_vars, samples, vars, tiers
<1> QED BY <1>1, <1>2, <1>3, <1>4, LruCalled, LruTiered, LruPool, LruEnd DEF ReplayNext

----------------------------------------------------------------------------
(* What the reports say of that. *)

\* r is the report of a replay of the whole trace.
Replayed(H, r) ==
  /\ r.config \in Configs /\ Len(r.log) = Len(H) /\ r.log \in Seq(Events)
  /\ \A i \in 1..Len(H) : r.log[i].hash_id = H[i]
  /\ PlainLruConfig(r.config) =>
       \A i \in 1..Len(H) : Looked(H, i, Cap(r.config), r.log[i].hit)

LogsInv ==
  /\ \E S : reports \in Seq(S)
  /\ \A i \in DOMAIN reports :
       ~reports[i].raised => Replayed(Trace, reports[i]) /\ Trace \in Seq(Key)

LEMMA LogAdded ==
  ASSUME LogsInv, UNCHANGED lines, NEW r, reports' = Append(reports, r),
         ~r.raised => Replayed(Trace, r) /\ Trace \in Seq(Key)
  PROVE  LogsInv'
<1>1. /\ \E S : reports' \in Seq(S)
      /\ Len(reports) \in Nat /\ DOMAIN reports = 1..Len(reports)
      /\ DOMAIN reports' = 1..(Len(reports) + 1)
      /\ reports'[Len(reports) + 1] = r
      /\ \A i \in 1..Len(reports) : reports'[i] = reports[i]
  BY OneMore DEF LogsInv
<1>2. Trace' = Trace
  BY SameTrace
<1>3. ASSUME NEW i \in DOMAIN reports', ~reports'[i].raised
      PROVE  Replayed(Trace, reports'[i]) /\ Trace \in Seq(Key)
  <2>1. i \in 1..Len(reports) \/ i = Len(reports) + 1
    BY <1>1
  <2> QED BY <1>1, <1>3, <2>1 DEF LogsInv
<1> QED BY <1>1, <1>2, <1>3 DEF LogsInv

LEMMA LogsStep ==
  ASSUME ReplayInv, Tracing, LruReplay, LogsInv, [ReplayNext]_replay_vars
  PROVE  LogsInv'
<1>1. CASE UNCHANGED <<lines, reports>>
  <2>1. Trace' = Trace
    BY <1>1, SameTrace
  <2> QED BY <1>1, <2>1 DEF LogsInv
<1>2. ASSUME NEW c, reports' = Append(reports, [config |-> c, raised |-> TRUE]), lines' = lines
      PROVE  LogsInv'
  <2> DEFINE r == [config |-> c, raised |-> TRUE]
  <2>1. reports' = Append(reports, r) /\ r.raised
    BY <1>2
  <2> HIDE DEF r
  <2> QED BY <1>2, <2>1, LogAdded
<1>3. ASSUME NEW lock \in LockFiles, Report(lock) PROVE LogsInv'
  <2> DEFINE commit == IF cfg.mooncake_commit # "" THEN cfg.mooncake_commit
                       ELSE read_mooncake_lock(lock)
         r == [config |-> cfg, raised |-> FALSE, lock |-> lock, mooncake_commit |-> commit,
               throughput |-> IF plan = <<>> THEN <<0, 1>> ELSE <<tokens, Sum(e2e)>>,
               ttft |-> percentiles(ttft), e2e |-> percentiles(e2e),
               rates |-> rates(log), log |-> log,
               skipped |-> {b \in DOMAIN RequiredCapability :
                              RequiredCapability[b] \notin cfg.hardware}]
  <2>1. /\ reports' = Append(reports, r) /\ r.config = cfg /\ r.log = log
    <3>1. reports' = Append(reports, r)
      BY <1>3, Zenon DEF Report
    <3> QED BY <3>1
  <2> HIDE DEF r
  <2>2. /\ cfg # NoConfig /\ cfg \in Configs /\ phase = "idle" /\ step > Len(plan)
        /\ lines' = lines /\ lines \in Seq(Lines) /\ ~Malformed(lines) /\ log \in Seq(Events)
        /\ block_hits = <<>>
    BY <1>3 DEF Report, Finished, Running, ReplayInv, Calls, History, SimInv, SimType
  <2>3. Len(plan) \in Nat /\ step \in 1..(Len(plan) + 1) /\ Len(log) = Len(Whole[step - 1])
        /\ \A i \in 1..Len(log) : log[i].hash_id = Trace[i]
    BY <2>2, PlanRecords DEF Tracing
  <2>4. step - 1 = Len(plan) /\ Len(plan) \in 0..Len(plan)
    BY <2>2, <2>3
  <2>5. Len(log) = Len(Trace)
    BY <2>3, <2>4 DEF Trace
  <2>6. Trace \in Seq(Key)
    BY <2>2, <2>4, WholeStarts
  <2>7. PlainLruConfig(cfg) => \A i \in 1..Len(log) : Looked(Trace, i, Cap(cfg), log[i].hit)
    BY <2>2 DEF LruReplay
  <2>8. Replayed(Trace, r)
    BY <2>1, <2>2, <2>3, <2>5, <2>7 DEF Replayed
  <2> QED BY <2>1, <2>2, <2>6, <2>8, LogAdded
<1>4. CASE UNCHANGED replay_vars
  BY <1>1, <1>4 DEF replay_vars
<1>5. ASSUME NEW c \in Configs, Call(c) \/ CallRaises(c) PROVE LogsInv'
  BY <1>1, <1>2, <1>5 DEF Call, CallRaises
<1>6. ASSUME NEW lock \in LockFiles, ReportRaises(lock) PROVE LogsInv'
  BY <1>2, <1>6 DEF ReportRaises, Finished
<1>7. CASE NextRecord \/ Tiered \/ PoolAccess \/ EndRecord
  BY <1>1, <1>7 DEF NextRecord, Tiered, PoolAccess, EndRecord
<1> QED BY <1>3, <1>4, <1>5, <1>6, <1>7 DEF ReplayNext

LEMMA LogsInit == ReplayInit => Tracing /\ LruReplay /\ LogsInv
<1> SUFFICES ASSUME ReplayInit PROVE Tracing /\ LruReplay /\ LogsInv
  OBVIOUS
<1>1. cfg = NoConfig /\ reports = <<>>
  BY DEF ReplayInit
<1>2. reports \in Seq({}) /\ DOMAIN reports = {}
  BY <1>1, EmptySeq
<1> QED BY <1>1, <1>2 DEF Tracing, LruReplay, LogsInv

LEMMA LogsCompared == LogsInv => LargerLruHits
<1> SUFFICES ASSUME LogsInv, NEW i \in Returned, NEW j \in Returned,
                    PlainLruConfig(reports[i].config), PlainLruConfig(reports[j].config),
                    reports[i].config.target = "project", reports[j].config.target = "baseline",
                    BaselinePool <= ProjectPool * (1 + SlowFactor),
                    NEW n \in DOMAIN reports[j].log, reports[j].log[n].hit
             PROVE  reports[i].log[n].hit
  BY DEF LargerLruHits
<1> DEFINE p == reports[i]
           b == reports[j]
<1>1. Replayed(Trace, p) /\ Replayed(Trace, b) /\ Trace \in Seq(Key)
  BY DEF Returned, LogsInv
<1> HIDE DEF p, b
<1>2. n \in 1..Len(Trace) /\ Len(Trace) \in Nat
  BY <1>1 DEF Replayed, b
<1>3. PICK o : IsLru(Trace, n - 1, o, Cap(b.config)) /\ Trace[n] \in Range(o)
  <2>1. Looked(Trace, n, Cap(b.config), b.log[n].hit)
    BY <1>1, <1>2 DEF Replayed, b
  <2> QED BY <2>1 DEF Looked, b
<1>4. PICK q : IsLru(Trace, n - 1, q, Cap(p.config)) /\ (p.log[n].hit <=> Trace[n] \in Range(q))
  <2>1. Looked(Trace, n, Cap(p.config), p.log[n].hit)
    BY <1>1, <1>2 DEF Replayed, p
  <2> QED BY <2>1 DEF Looked
<1>5. Cap(b.config) \in Nat /\ Cap(p.config) \in Nat /\ Cap(b.config) <= Cap(p.config)
  <2>1. b.config \in Configs /\ p.config \in Configs
    BY <1>1 DEF Replayed
  <2>2. Cap(b.config) = BaselinePool /\ Cap(p.config) = ProjectPool + ProjectPool * SlowFactor
    BY DEF Cap, p, b
  <2>3. ProjectPool * (1 + SlowFactor) = ProjectPool + ProjectPool * SlowFactor
    <3>1. \A x, y \in Nat : x * (1 + y) = x + x * y
      OBVIOUS
    <3>2. ProjectPool \in Nat /\ SlowFactor \in Nat
      BY ReplayAssumption
    <3> QED BY <3>1, <3>2
  <2> QED BY <2>1, <2>2, <2>3, CapFacts
<1>6. n - 1 \in Nat
  BY <1>2
<1>7. Range(o) \subseteq Range(q)
  BY <1>3, <1>4, <1>5, <1>6, LruIncluded
<1> QED BY <1>3, <1>4, <1>7 DEF p

\* For any trace and any pools: on the same trace two LRU tiers without
\* prefetch hit wherever an LRU pool no larger than both together does.
THEOREM LargerLruAlwaysHits == ReplaySpec => []LargerLruHits
<1> DEFINE LruInv == Tracing /\ LruReplay /\ LogsInv
<1>1. ReplayInit => LruInv
  BY LogsInit
<1>2. ReplayInv /\ LruInv /\ [ReplayNext]_replay_vars => LruInv'
  BY TracingStep, LruReplayStep, LogsStep
<1>3. LruInv => LargerLruHits
  BY LogsCompared
<1> HIDE DEF LruInv
<1> QED BY <1>1, <1>2, <1>3, ReplayInvariance, PTL DEF ReplaySpec

----------------------------------------------------------------------------
(* A replay is determined by its trace and its configuration.  Its state as  *)
(* a value, and the step it takes from there.                                *)

Position(t, d, su, ids, ph, n, hits) ==
  [tiers |-> t, depth |-> d, successor |-> su, request |-> ids,
   phase |-> ph, turn |-> n, block_hits |-> hits]
Sim == Position(Tiers, depth, successor, request, phase, turn, block_hits)

Books == [step |-> step, log |-> log, ttft |-> ttft, e2e |-> e2e, tokens |-> tokens]
Now == [sim |-> Sim, books |-> Books]

ArriveOf(s, ids) ==
  Position(s.tiers, s.depth, s.successor, ids,
           IF s.depth = 0 \/ ids = <<>> THEN "access" ELSE "prefetch", 1, <<>>)

HopOf(su, w) ==
  IF w.cursor \notin DOMAIN su THEN [w EXCEPT !.cursor = NoKey]
  ELSE LET next == su[w.cursor]
       IN  [tiers |-> IF contains(w.tiers.slow, next) THEN Promote(w.tiers, next)
                                                      ELSE w.tiers,
            cursor |-> next]

WalkOf(ids, d, su, t, anchor) ==
  LET budget == Len(ids) + d
      walk[i \in 0..budget] ==
        IF i = 0 THEN [tiers |-> t, cursor |-> anchor] ELSE HopOf(su, walk[i - 1])
  IN  walk[budget].tiers

Both(t) == [fast |-> t.fast, slow |-> t.slow]

AnchorOf(s) ==
  LET anchor == s.request[s.turn]
      last == s.turn = Len(s.request)
  IN  Position(IF InStore(s.tiers, anchor)
                 THEN Both(WalkOf(s.request, s.depth, s.successor, s.tiers, anchor))
                 ELSE s.tiers,
               s.depth, s.successor, s.request,
               IF last THEN "access" ELSE "prefetch", IF last THEN 1 ELSE s.turn + 1, s.block_hits)

Learned(su, ids, n) ==
  IF n = 1 THEN su
  ELSE [j \in DOMAIN su \cup {ids[n - 1]} |-> IF j = ids[n - 1] THEN ids[n] ELSE su[j]]

AccessOf(s, t, su, found) ==
  Position(t, s.depth, su, s.request, "access", s.turn + 1, Append(s.block_hits, found))

TieredOf(s) ==
  LET k == s.request[s.turn]
      su == Learned(s.successor, s.request, s.turn)
  IN  IF contains(s.tiers.fast, k)
        THEN AccessOf(s, [fast |-> touch(s.tiers.fast, k), slow |-> s.tiers.slow], su, "fast")
      ELSE IF contains(s.tiers.slow, k) THEN AccessOf(s, Both(Promote(s.tiers, k)), su, "slow")
      ELSE AccessOf(s, Both(AdmitFast(s.tiers, k)), su, "miss")

PoolOf(s) ==
  LET k == s.request[s.turn]
  IN  AccessOf(s, [fast |-> access(s.tiers.fast, k, s.turn - 1).policy, slow |-> s.tiers.slow],
               s.successor, IF contains(s.tiers.fast, k) THEN "fast" ELSE "miss")

ReturnOf(s) == Position(s.tiers, s.depth, s.successor, <<>>, "idle", 1, <<>>)

FirstOf(hits) ==
  LET Of(outcome) == Cardinality({i \in DOMAIN hits : hits[i] = outcome})
  IN  AtLeast(Prefill, Of("miss") * Prefill + Of("slow") * Transfer)

LogOf(ids, hits) == [i \in DOMAIN ids |-> [hash_id |-> ids[i], hit |-> hits[i] # "miss"]]

BooksOf(b, record, s) ==
  [step |-> b.step + 1, log |-> b.log \o LogOf(s.request, s.block_hits),
   ttft |-> Append(b.ttft, FirstOf(s.block_hits)),
   e2e |-> Append(b.e2e, FirstOf(s.block_hits) + record.output_length),
   tokens |-> b.tokens + InputLength(record) + record.output_length]

Onward(c, p, s) ==
  IF s.sim.phase = "idle" THEN
    [sim |-> ArriveOf(s.sim, p[s.books.step].hash_ids), books |-> s.books]
  ELSE IF s.sim.phase = "prefetch" THEN [sim |-> AnchorOf(s.sim), books |-> s.books]
  ELSE IF s.sim.turn <= Len(s.sim.request) THEN
    [sim |-> IF c.target = "project" THEN TieredOf(s.sim) ELSE PoolOf(s.sim), books |-> s.books]
  ELSE [sim |-> ReturnOf(s.sim), books |-> BooksOf(s.books, p[s.books.step], s.sim)]

Start(c) ==
  [sim |-> Position([fast |-> make_policy(PolicyName(c), Pool(c)),
                     slow |-> make_policy("lru", Pool(c) * SlowFactor)],
                    IF c.target = "project" /\ c.prefetch THEN ProjectDepth ELSE 0,
                    [k \in {} |-> NoKey], <<>>, "idle", 1, <<>>),
   books |-> [step |-> 1, log |-> <<>>, ttft |-> <<>>, e2e |-> <<>>, tokens |-> 0]]

Ended(p, s) == s.sim.phase = "idle" /\ s.books.step > Len(p)

----------------------------------------------------------------------------
(* The steps of a replay are these. *)

LEMMA NowFacts ==
  /\ Now.sim = Sim /\ Now.books = Books
  /\ Sim.tiers = Tiers /\ Sim.depth = depth /\ Sim.successor = successor
  /\ Sim.request = request /\ Sim.phase = phase /\ Sim.turn = turn
  /\ Sim.block_hits = block_hits
  /\ Books.step = step /\ Books.log = log /\ Books.ttft = ttft /\ Books.e2e = e2e
  /\ Books.tokens = tokens
  /\ Tiers.fast = fast /\ Tiers.slow = slow
BY DEF Now, Sim, Position, Books, Tiers

LEMMA WalkIs ==
  ASSUME NEW k
  PROVE  Walk(k) = WalkOf(request, depth, successor, Tiers, k)
BY DEF Walk, WalkOf, Hop, HopOf

LEMMA FirstIs == TimeToFirst = FirstOf(block_hits)
BY DEF TimeToFirst, FirstOf, Count

LEMMA SetBoth ==
  ASSUME NEW t, SetTiers(t)
  PROVE  Tiers' = Both(t)
BY DEF SetTiers, Tiers, Both

LEMMA OnwardArrive ==
  ASSUME NextRecord
  PROVE  Now' = Onward(cfg, plan, Now)
<1> DEFINE ids == plan[step].hash_ids
<1>1. /\ phase = "idle" /\ Books' = Books /\ Tiers' = Tiers /\ depth' = depth
      /\ successor' = successor /\ request' = ids /\ turn' = 1 /\ block_hits' = <<>>
      /\ phase' = IF depth = 0 \/ ids = <<>> THEN "access" ELSE "prefetch"
  BY DEF NextRecord, Arrive, samples, tiers, Tiers, Books
<1>2. Sim' = ArriveOf(Sim, ids)
  <2> HIDE DEF ids
  <2>1. Sim' = Position(Tiers', depth', successor', request', phase', turn', block_hits')
    BY DEF Sim
  <2> QED BY <1>1, <2>1, NowFacts DEF ArriveOf
<1>3. Now' = [sim |-> Sim', books |-> Books']
  BY DEF Now
<1> QED BY <1>1, <1>2, <1>3, NowFacts DEF Onward

LEMMA OnwardAnchor ==
  ASSUME Tiered, PrefetchAnchor
  PROVE  Now' = Onward(cfg, plan, Now)
<1> DEFINE anchor == request[turn]
           w == WalkOf(request, depth, successor, Tiers, anchor)
           last == turn = Len(request)
<1>1. /\ phase = "prefetch" /\ Books' = Books /\ depth' = depth
      /\ successor' = successor /\ request' = request /\ block_hits' = block_hits
      /\ (IF last THEN phase' = "access" /\ turn' = 1 ELSE turn' = turn + 1 /\ phase' = "prefetch")
      /\ (IF InStore(Tiers, anchor) THEN SetTiers(w) ELSE Tiers' = Tiers)
  BY WalkIs DEF Tiered, PrefetchAnchor, NextTurn, samples, tiers, Tiers, Books
<1>2. Tiers' = IF InStore(Tiers, anchor) THEN Both(w) ELSE Tiers
  <2> HIDE DEF w, anchor
  <2> QED BY <1>1, SetBoth
<1>3. Sim' = AnchorOf(Sim)
  <2>1. Sim' = Position(Tiers', depth', successor', request', phase', turn', block_hits')
    BY DEF Sim
  <2> QED BY <1>1, <1>2, <2>1, NowFacts DEF AnchorOf
<1>4. Now' = [sim |-> Sim', books |-> Books']
  BY DEF Now
<1> QED BY <1>1, <1>3, <1>4, NowFacts DEF Onward

LEMMA OnwardTiered ==
  ASSUME Tiered, AccessBlock
  PROVE  Now' = Onward(cfg, plan, Now)
<1>1. /\ cfg.target = "project" /\ Books' = Books
  BY DEF Tiered, samples, Books
<1>2. PICK k \in Key : FastHit(k) \/ SlowHit(k) \/ Miss(k)
  BY DEF AccessBlock
<1>3. ASSUME NEW found, Accessing(k, found), NEW t, Tiers' = t
      PROVE  Sim' = AccessOf(Sim, t, Learned(successor, request, turn), found)
  <2>1. /\ depth' = depth /\ successor' = Learned(successor, request, turn)
        /\ request' = request /\ phase' = "access" /\ turn' = turn + 1
        /\ block_hits' = Append(block_hits, found)
    BY <1>3 DEF Accessing, NextTurn, Learned
  <2>2. Sim' = Position(Tiers', depth', successor', request', phase', turn', block_hits')
    BY DEF Sim
  <2> QED BY <1>3, <2>1, <2>2, NowFacts DEF AccessOf
<1>4. /\ phase = "access" /\ turn <= Len(request) /\ k = request[turn]
  BY <1>2 DEF FastHit, SlowHit, Miss, Accessing
<1>5. Sim' = TieredOf(Sim)
  <2>1. CASE FastHit(k)
    <3>1. contains(fast, k) /\ Accessing(k, "fast")
          /\ Tiers' = [fast |-> touch(fast, k), slow |-> slow]
      BY <2>1 DEF FastHit, Tiers
    <3> QED BY <1>3, <1>4, <3>1, NowFacts DEF TieredOf
  <2>2. CASE SlowHit(k)
    <3>1. ~contains(fast, k) /\ contains(slow, k) /\ Accessing(k, "slow")
          /\ Tiers' = Both(Promote(Tiers, k))
      BY <2>2, SetBoth DEF SlowHit
    <3> QED BY <1>3, <1>4, <3>1, NowFacts DEF TieredOf
  <2>3. CASE Miss(k)
    <3>1. ~contains(fast, k) /\ ~contains(slow, k) /\ Accessing(k, "miss")
          /\ Tiers' = Both(AdmitFast(Tiers, k))
      BY <2>3, SetBoth, NowFacts DEF Miss, InStore
    <3> QED BY <1>3, <1>4, <3>1, NowFacts DEF TieredOf
  <2> QED BY <1>2, <2>1, <2>2, <2>3
<1>6. Now' = [sim |-> Sim', books |-> Books']
  BY DEF Now
<1> QED BY <1>1, <1>4, <1>5, <1>6, NowFacts DEF Onward

LEMMA OnwardPool ==
  ASSUME PoolAccess
  PROVE  Now' = Onward(cfg, plan, Now)
<1> DEFINE k == request[turn]
           found == IF contains(fast, k) THEN "fast" ELSE "miss"
           t == [fast |-> access(fast, k, turn - 1).policy, slow |-> slow]
<1>1. /\ cfg.target = "baseline" /\ Books' = Books /\ phase = "access" /\ turn <= Len(request)
      /\ Tiers' = t /\ depth' = depth /\ successor' = successor /\ request' = request
      /\ phase' = "access" /\ turn' = turn + 1 /\ block_hits' = Append(block_hits, found)
  BY DEF PoolAccess, samples, Books, Tiers
<1>2. Sim' = PoolOf(Sim)
  <2>1. Sim' = Position(Tiers', depth', successor', request', phase', turn', block_hits')
    BY DEF Sim
  <2>2. Sim' = AccessOf(Sim, t, successor, found)
    <3> HIDE DEF t, found
    <3> QED BY <1>1, <2>1, NowFacts DEF AccessOf
  <2> QED BY <2>2, NowFacts DEF PoolOf
<1>3. Now' = [sim |-> Sim', books |-> Books']
  BY DEF Now
<1> QED BY <1>1, <1>2, <1>3, NowFacts DEF Onward

LEMMA OnwardEnd ==
  ASSUME SimInv, EndRecord
  PROVE  Now' = Onward(cfg, plan, Now)
<1>1. /\ phase = "access" /\ ~(turn <= Len(request)) /\ Tiers' = Tiers /\ depth' = depth
      /\ successor' = successor /\ request' = <<>> /\ phase' = "idle" /\ turn' = 1
      /\ block_hits' = <<>>
  <2>1. Return /\ turn > Len(request) /\ request \in Seq(Key) /\ turn \in Nat
    BY DEF EndRecord, Return, SimInv, SimType
  <2>2. ~(turn <= Len(request))
    BY <2>1
  <2> QED BY <2>1, <2>2 DEF Return, tiers, Tiers
<1>2. Sim' = ReturnOf(Sim)
  <2>1. Sim' = Position(Tiers', depth', successor', request', phase', turn', block_hits')
    BY DEF Sim
  <2> QED BY <1>1, <2>1, NowFacts DEF ReturnOf
<1> DEFINE first == FirstOf(block_hits)
           new == LogOf(request, block_hits)
<1>3. /\ step' = step + 1 /\ log' = log \o new /\ ttft' = Append(ttft, first)
      /\ e2e' = Append(e2e, first + plan[step].output_length)
      /\ tokens' = tokens + InputLength(plan[step]) + plan[step].output_length
  <2>1. log' = log \o new
    BY Zenon DEF EndRecord, LogOf
  <2> QED BY <2>1, FirstIs DEF EndRecord
<1>4. Books' = BooksOf(Books, plan[step], Sim)
  <2>1. Books' = [step |-> step', log |-> log', ttft |-> ttft', e2e |-> e2e', tokens |-> tokens']
    BY DEF Books
  <2> QED BY <1>3, <2>1, NowFacts DEF BooksOf
<1>5. Now' = [sim |-> Sim', books |-> Books']
  BY DEF Now
<1> QED BY <1>1, <1>2, <1>4, <1>5, NowFacts DEF Onward

LEMMA OnwardStart ==
  ASSUME ReplayInv, NEW c \in Configs, Call(c)
  PROVE  Now' = Start(c)
<1>1. /\ phase = "idle" /\ SimType /\ UNCHANGED <<request, phase, turn, block_hits>>
  BY DEF Call, ReplayInv, Calls, SimInv
<1>2. request' = <<>> /\ turn' = 1 /\ block_hits' = <<>> /\ phase' = "idle"
  BY <1>1 DEF SimType
<1> DEFINE t == [fast |-> make_policy(PolicyName(c), Pool(c)),
                 slow |-> make_policy("lru", Pool(c) * SlowFactor)]
           d == IF c.target = "project" /\ c.prefetch THEN ProjectDepth ELSE 0
<1>3. /\ Tiers' = t /\ depth' = d /\ successor' = [k \in {} |-> NoKey]
      /\ Books' = [step |-> 1, log |-> <<>>, ttft |-> <<>>, e2e |-> <<>>, tokens |-> 0]
  BY DEF Call, Fresh, Tiers, Books
<1>4. Now' = [sim |-> Position(Tiers', depth', successor', request', phase', turn', block_hits'),
              books |-> Books']
  BY DEF Now, Sim
<1> QED BY <1>2, <1>3, <1>4 DEF Start

----------------------------------------------------------------------------
(* The course of a replay: g[i] is its state after i steps. *)

IsCourse(g, m, c, p) ==
  /\ m \in Nat /\ g[0] = Start(c)
  /\ \A i \in 1..m : g[i] = Onward(c, p, g[i - 1]) /\ ~Ended(p, g[i - 1])

LEMMA CourseGrows ==
  ASSUME NEW c, NEW p, NEW g, NEW m, IsCourse(g, m, c, p), ~Ended(p, g[m]),
         NEW s, s = Onward(c, p, g[m])
  PROVE  \E h, n : IsCourse(h, n, c, p) /\ h[n] = s
<1> DEFINE h == [i \in 0..(m + 1) |-> IF i = m + 1 THEN s ELSE g[i]]
<1>1. m \in Nat /\ g[0] = Start(c)
      /\ \A i \in 1..m : g[i] = Onward(c, p, g[i - 1]) /\ ~Ended(p, g[i - 1])
  BY DEF IsCourse
<1>2. h[m + 1] = s /\ \A i \in 0..m : h[i] = g[i]
  BY <1>1
<1> HIDE DEF h
<1>3. ASSUME NEW i \in 1..(m + 1) PROVE h[i] = Onward(c, p, h[i - 1]) /\ ~Ended(p, h[i - 1])
  <2>1. i - 1 \in 0..m
    BY <1>1
  <2>2. h[i - 1] = g[i - 1]
    BY <1>2, <2>1
  <2>3. CASE i = m + 1
    <3>1. i - 1 = m
      BY <1>1, <2>3
    <3> QED BY <1>2, <2>2, <2>3, <3>1
  <2>4. CASE i # m + 1
    <3>1. i \in 1..m /\ i \in 0..m
      BY <1>1, <2>4
    <3> QED BY <1>1, <1>2, <2>2, <3>1
  <2> QED BY <2>3, <2>4
<1>4. m + 1 \in Nat /\ 0 \in 0..m
  BY <1>1
<1>5. IsCourse(h, m + 1, c, p)
  BY <1>1, <1>2, <1>3, <1>4 DEF IsCourse
<1> QED BY <1>2, <1>5

LEMMA CourseUnique ==
  ASSUME NEW c, NEW p, NEW g, NEW m, IsCourse(g, m, c, p), Ended(p, g[m]),
         NEW h, NEW n, IsCourse(h, n, c, p), Ended(p, h[n])
  PROVE  g[m] = h[n]
<1>1. ASSUME NEW f1, NEW m1, IsCourse(f1, m1, c, p), Ended(p, f1[m1]),
             NEW f2, NEW m2, IsCourse(f2, m2, c, p), Ended(p, f2[m2]), m1 <= m2
      PROVE  f1[m1] = f2[m2]
  <2>1. /\ m1 \in Nat /\ m2 \in Nat /\ f1[0] = f2[0]
        /\ \A i \in 1..m1 : f1[i] = Onward(c, p, f1[i - 1])
        /\ \A i \in 1..m2 : f2[i] = Onward(c, p, f2[i - 1]) /\ ~Ended(p, f2[i - 1])
    BY <1>1 DEF IsCourse
  <2> DEFINE T == {i \in 0..m1 : f1[i] = f2[i]}
  <2>2. 0 \in T
    BY <2>1
  <2>3. ASSUME NEW i \in 1..m1, i - 1 \in T PROVE i \in T
    <3>1. i \in 1..m2 /\ i \in 0..m1 /\ f1[i - 1] = f2[i - 1]
      BY <1>1, <2>1, <2>3
    <3> QED BY <2>1, <3>1
  <2>4. T \in SUBSET (0..m1) /\ m1 \in 0..m1
    BY <2>1
  <2>5. m1 \in T
    <3> HIDE DEF T
    <3> QED BY <2>1, <2>2, <2>3, <2>4, Upwards
  <2>6. f1[m1] = f2[m1]
    BY <2>5
  <2>7. CASE m1 = m2
    BY <2>6, <2>7
  <2>8. CASE m1 # m2
    <3>1. m1 + 1 \in 1..m2 /\ (m1 + 1) - 1 = m1
      BY <1>1, <2>1, <2>8
    <3>2. ~Ended(p, f2[(m1 + 1) - 1])
      BY <2>1, <3>1
    <3> QED BY <1>1, <2>6, <3>1, <3>2
  <2> QED BY <2>7, <2>8
<1>2. m \in Nat /\ n \in Nat
  BY DEF IsCourse
<1>3. CASE m <= n
  BY <1>1, <1>3
<1>4. CASE n <= m
  BY <1>1, <1>4
<1> QED BY <1>2, <1>3, <1>4

\* The running replay is on its course.
OnCourse == cfg # NoConfig => \E g, m : IsCourse(g, m, cfg, plan) /\ g[m] = Now

LEMMA OnCourseStep ==
  ASSUME ReplayInv, OnCourse, [ReplayNext]_replay_vars
  PROVE  OnCourse'
<1>1. CASE UNCHANGED <<lines, cfg>> /\ cfg # NoConfig /\ Now' = Onward(cfg, plan, Now)
           /\ ~Ended(plan, Now)
  <2>1. PICK g, m : IsCourse(g, m, cfg, plan) /\ g[m] = Now
    BY <1>1 DEF OnCourse
  <2>2. \E h, n : IsCourse(h, n, cfg, plan) /\ h[n] = Now'
    BY <1>1, <2>1, CourseGrows
  <2>3. plan' = plan /\ cfg' = cfg
    BY <1>1, SameTrace
  <2> QED BY <2>2, <2>3 DEF OnCourse
<1>2. CASE cfg' = NoConfig
  BY <1>2 DEF OnCourse
<1>3. ASSUME NEW c \in Configs, Call(c) PROVE OnCourse'
  <2>1. Now' = Start(c) /\ cfg' = c
    BY <1>3, OnwardStart DEF Call
  <2> DEFINE g == [i \in {0} |-> Start(c)]
  <2>2. g[0] = Start(c) /\ 1..0 = {}
    OBVIOUS
  <2> HIDE DEF g
  <2>3. IsCourse(g, 0, c, plan')
    BY <2>2 DEF IsCourse
  <2> QED BY <2>1, <2>2, <2>3 DEF OnCourse
<1>4. ASSUME NEW c \in Configs, CallRaises(c) PROVE OnCourse'
  BY <1>2, <1>4 DEF CallRaises
<1>5. CASE NextRecord
  <2>1. /\ UNCHANGED <<lines, cfg>> /\ cfg # NoConfig /\ Now' = Onward(cfg, plan, Now)
        /\ step <= Len(plan)
    BY <1>5, OnwardArrive DEF NextRecord, Running
  <2>2. step \in Nat /\ Len(plan) \in Nat
    BY <2>1, PlanRecords DEF ReplayInv, Calls
  <2> QED BY <1>1, <2>1, <2>2, NowFacts DEF Ended
<1>6. CASE Tiered
  <2>1. /\ UNCHANGED <<lines, cfg>> /\ cfg # NoConfig /\ Now' = Onward(cfg, plan, Now)
    BY <1>6, OnwardAnchor, OnwardTiered DEF Tiered, Running
  <2>2. phase # "idle"
    BY <1>6 DEF Tiered, PrefetchAnchor, AccessBlock, FastHit, SlowHit, Miss, Accessing
  <2> QED BY <1>1, <2>1, <2>2, NowFacts DEF Ended
<1>7. CASE PoolAccess
  <2>1. /\ UNCHANGED <<lines, cfg>> /\ cfg # NoConfig /\ Now' = Onward(cfg, plan, Now)
        /\ phase # "idle"
    BY <1>7, OnwardPool DEF PoolAccess, Running
  <2> QED BY <1>1, <2>1, NowFacts DEF Ended
<1>8. CASE EndRecord
  <2>1. /\ UNCHANGED <<lines, cfg>> /\ cfg # NoConfig /\ Now' = Onward(cfg, plan, Now)
        /\ phase # "idle"
    BY <1>8, OnwardEnd DEF EndRecord, Return, Running, ReplayInv
  <2> QED BY <1>1, <2>1, NowFacts DEF Ended
<1>9. ASSUME NEW lock \in LockFiles, Report(lock) \/ ReportRaises(lock) PROVE OnCourse'
  BY <1>2, <1>9 DEF Report, ReportRaises, Finished
<1>10. CASE UNCHANGED replay_vars
  <2>1. Now' = Now /\ cfg' = cfg /\ lines' = lines
    BY <1>10 DEF replay_vars, vars, tiers, samples, Now, Sim, Books, Tiers
  <2>2. plan' = plan
    BY <2>1, SameTrace
  <2> QED BY <2>1, <2>2 DEF OnCourse
<1> QED BY <1>3, <1>4, <1>5, <1>6, <1>7, <1>8, <1>9, <1>10 DEF ReplayNext

----------------------------------------------------------------------------
(* A report is made of the end of the course. *)

ReportOf(c, lock, p, b) ==
  [config |-> c, raised |-> FALSE, lock |-> lock,
   mooncake_commit |-> IF c.mooncake_commit # "" THEN c.mooncake_commit
                       ELSE read_mooncake_lock(lock),
   throughput |-> IF p = <<>> THEN <<0, 1>> ELSE <<b.tokens, Sum(b.e2e)>>,
   ttft |-> percentiles(b.ttft), e2e |-> percentiles(b.e2e),
   rates |-> rates(b.log), log |-> b.log,
   skipped |-> {x \in DOMAIN RequiredCapability : RequiredCapability[x] \notin c.hardware}]

IsResult(p, r) ==
  \E g, m : /\ IsCourse(g, m, r.config, p) /\ Ended(p, g[m])
            /\ r = ReportOf(r.config, r.lock, p, g[m].books)

ResultsInv ==
  /\ \E S : reports \in Seq(S)
  /\ \A i \in DOMAIN reports : ~reports[i].raised => IsResult(plan, reports[i])

LEMMA ResultAdded ==
  ASSUME ResultsInv, UNCHANGED lines, NEW r, reports' = Append(reports, r),
         ~r.raised => IsResult(plan, r)
  PROVE  ResultsInv'
<1>1. /\ \E S : reports' \in Seq(S)
      /\ Len(reports) \in Nat /\ DOMAIN reports = 1..Len(reports)
      /\ DOMAIN reports' = 1..(Len(reports) + 1)
      /\ reports'[Len(reports) + 1] = r
      /\ \A i \in 1..Len(reports) : reports'[i] = reports[i]
  BY OneMore DEF ResultsInv
<1>2. plan' = plan
  BY SameTrace
<1>3. ASSUME NEW i \in DOMAIN reports', ~reports'[i].raised PROVE IsResult(plan, reports'[i])
  <2>1. i \in 1..Len(reports) \/ i = Len(reports) + 1
    BY <1>1
  <2> QED BY <1>1, <1>3, <2>1 DEF ResultsInv
<1> QED BY <1>1, <1>2, <1>3 DEF ResultsInv

LEMMA ResultsStep ==
  ASSUME ReplayInv, OnCourse, ResultsInv, [ReplayNext]_replay_vars
  PROVE  ResultsInv'
<1>1. CASE UNCHANGED <<lines, reports>>
  <2>1. plan' = plan
    BY <1>1, SameTrace
  <2> QED BY <1>1, <2>1 DEF ResultsInv
<1>2. ASSUME NEW c, reports' = Append(reports, [config |-> c, raised |-> TRUE]), lines' = lines
      PROVE  ResultsInv'
  <2> DEFINE r == [config |-> c, raised |-> TRUE]
  <2>1. reports' = Append(reports, r) /\ r.raised
    BY <1>2
  <2> HIDE DEF r
  <2> QED BY <1>2, <2>1, ResultAdded
<1>3. ASSUME NEW lock \in LockFiles, Report(lock) PROVE ResultsInv'
  <2> DEFINE r == ReportOf(cfg, lock, plan, Books)
  <2>1. reports' = Append(reports, r)
    <3> DEFINE r2 == [config |-> cfg, raised |-> FALSE, lock |-> lock,
                 mooncake_commit |-> IF cfg.mooncake_commit # "" THEN cfg.mooncake_commit
                                     ELSE read_mooncake_lock(lock),
                 throughput |-> IF plan = <<>> THEN <<0, 1>> ELSE <<tokens, Sum(e2e)>>,
                 ttft |-> percentiles(ttft), e2e |-> percentiles(e2e),
                 rates |-> rates(log), log |-> log,
                 skipped |-> {b \in DOMAIN RequiredCapability :
                                RequiredCapability[b] \notin cfg.hardware}]
    <3>1. reports' = Append(reports, r2)
      BY <1>3, Zenon DEF Report
    <3>2. r = r2
      BY NowFacts DEF ReportOf
    <3> HIDE DEF r, r2
    <3> QED BY <3>1, <3>2
  <2>2. r.config = cfg /\ r.lock = lock
    BY DEF ReportOf
  <2>3. /\ cfg # NoConfig /\ lines' = lines /\ Ended(plan, Now)
    BY <1>3, NowFacts DEF Report, Finished, Running, Ended
  <2>4. PICK g, m : IsCourse(g, m, cfg, plan) /\ g[m] = Now
    BY <2>3 DEF OnCourse
  <2>5. r = ReportOf(cfg, lock, plan, g[m].books)
    BY <2>4, NowFacts
  <2> HIDE DEF r
  <2>6. IsResult(plan, r)
    BY <2>2, <2>3, <2>4, <2>5 DEF IsResult
  <2> QED BY <2>1, <2>3, <2>6, ResultAdded
<1>4. CASE UNCHANGED replay_vars
  BY <1>1, <1>4 DEF replay_vars
<1>5. ASSUME NEW c \in Configs, Call(c) \/ CallRaises(c) PROVE ResultsInv'
  BY <1>1, <1>2, <1>5 DEF Call, CallRaises
<1>6. ASSUME NEW lock \in LockFiles, ReportRaises(lock) PROVE ResultsInv'
  BY <1>2, <1>6 DEF ReportRaises, Finished
<1>7. CASE NextRecord \/ Tiered \/ PoolAccess \/ EndRecord
  BY <1>1, <1>7 DEF NextRecord, Tiered, PoolAccess, EndRecord
<1> QED BY <1>3, <1>4, <1>5, <1>6, <1>7 DEF ReplayNext

LEMMA ResultsAgree == ResultsInv => Reproducible
<1> SUFFICES ASSUME ResultsInv, NEW i \in Returned, NEW j \in Returned,
                    reports[i].config = reports[j].config, reports[i].lock = reports[j].lock
             PROVE  reports[i] = reports[j]
  BY DEF Reproducible
<1>1. IsResult(plan, reports[i]) /\ IsResult(plan, reports[j])
  BY DEF ResultsInv, Returned
<1>2. PICK g, m : /\ IsCourse(g, m, reports[i].config, plan) /\ Ended(plan, g[m])
                  /\ reports[i] = ReportOf(reports[i].config, reports[i].lock, plan, g[m].books)
  BY <1>1 DEF IsResult
<1>3. PICK h, n : /\ IsCourse(h, n, reports[j].config, plan) /\ Ended(plan, h[n])
                  /\ reports[j] = ReportOf(reports[j].config, reports[j].lock, plan, h[n].books)
  BY <1>1 DEF IsResult
<1>4. g[m] = h[n]
  BY <1>2, <1>3, CourseUnique
<1> QED BY <1>2, <1>3, <1>4

\* For any trace, configurations and lock files: replaying with the same
\* configuration and lock gives the same report, whatever was replayed in
\* between.
THEOREM ReplaysAreReproducible == ReplaySpec => []Reproducible
<1>1. ReplayInit => OnCourse /\ ResultsInv
  <2> SUFFICES ASSUME ReplayInit PROVE OnCourse /\ ResultsInv
    OBVIOUS
  <2>1. cfg = NoConfig /\ reports = <<>>
    BY DEF ReplayInit
  <2>2. reports \in Seq({}) /\ DOMAIN reports = {}
    BY <2>1, EmptySeq
  <2> QED BY <2>1, <2>2 DEF OnCourse, ResultsInv
<1>2. ReplayInv /\ OnCourse /\ ResultsInv /\ [ReplayNext]_replay_vars => (OnCourse /\ ResultsInv)'
  BY OnCourseStep, ResultsStep
<1>3. ResultsInv => Reproducible
  BY ResultsAgree
<1> QED BY <1>1, <1>2, <1>3, ReplayInvariance, PTL DEF ReplaySpec

----------------------------------------------------------------------------
(* Samples in ascending order.  The place of a sample is the number of those *)
(* at or before it, equal ones in the order they were taken.                 *)

IsOrder(s, p) ==
  /\ p \in [1..Len(s) -> 1..Len(s)]
  /\ \A i, j \in 1..Len(s) : p[i] = p[j] => i = j
  /\ \A i \in 1..Len(s) : \E j \in 1..Len(s) : p[j] = i
  /\ \A i, j \in 1..Len(s) : i < j => s[p[i]] <= s[p[j]]

LEMMA OneToOneOnto ==
  ASSUME NEW n \in Nat, NEW f \in [1..n -> 1..n], \A i, j \in 1..n : f[i] = f[j] => i = j
  PROVE  \A i \in 1..n : \E j \in 1..n : f[j] = i
<1> DEFINE S == 1..n
<1>1. IsFiniteSet(S)
  BY FS_Interval
<1>2. f \in Injection(S, S)
  BY DEF Injection, IsInjective
<1>3. f \in Surjection(S, S)
  <2> HIDE DEF S
  <2> QED BY <1>1, <1>2, FS_Injection
<1> QED BY <1>3 DEF Surjection

LEMMA OrderExists ==
  ASSUME NEW s \in Seq(Int)
  PROVE  \E p : IsOrder(s, p)
<1> DEFINE n == Len(s)
           Upto(l, j) == s[l] < s[j] \/ (s[l] = s[j] /\ l <= j)
           B(j) == {l \in 1..n : Upto(l, j)}
           pos == [j \in 1..n |-> Cardinality(B(j))]
<1>1. n \in Nat /\ \A i \in 1..n : s[i] \in Int
  OBVIOUS
<1>2. /\ \A i, j \in 1..n : i # j => Upto(i, j) \/ Upto(j, i)
      /\ \A i, j \in 1..n : i # j => ~(Upto(i, j) /\ Upto(j, i))
      /\ \A i, j, l \in 1..n : Upto(l, i) /\ Upto(i, j) => Upto(l, j)
      /\ \A i \in 1..n : Upto(i, i)
      /\ \A i, j \in 1..n : Upto(i, j) => s[i] <= s[j]
  <2> HIDE DEF n
  <2>1. \A i, j \in 1..n : i # j => Upto(i, j) \/ Upto(j, i)
    BY <1>1
  <2>2. \A i, j \in 1..n : i # j => ~(Upto(i, j) /\ Upto(j, i))
    BY <1>1
  <2>3. \A i, j, l \in 1..n : Upto(l, i) /\ Upto(i, j) => Upto(l, j)
    BY <1>1
  <2>4. \A i \in 1..n : Upto(i, i)
    BY <1>1
  <2>5. \A i, j \in 1..n : Upto(i, j) => s[i] <= s[j]
    BY <1>1
  <2> QED BY <2>1, <2>2, <2>3, <2>4, <2>5
<1> HIDE DEF Upto, n
<1>3. IsFiniteSet(1..n) /\ Cardinality(1..n) = n
  <2>1. IsFiniteSet(1..n) /\ Cardinality(1..n) = IF 1 > n THEN 0 ELSE n - 1 + 1
    BY <1>1, FS_Interval
  <2> QED BY <1>1, <2>1
<1>4. \A j \in 1..n : IsFiniteSet(B(j)) /\ Cardinality(B(j)) \in Nat /\ Cardinality(B(j)) <= n
  <2> SUFFICES ASSUME NEW j \in 1..n
               PROVE  IsFiniteSet(B(j)) /\ Cardinality(B(j)) \in Nat /\ Cardinality(B(j)) <= n
    OBVIOUS
  <2>1. B(j) \in SUBSET (1..n)
    OBVIOUS
  <2> HIDE DEF B
  <2> QED BY <1>3, <2>1, FS_Subset, FS_CardinalityType
<1>5. ASSUME NEW i \in 1..n, NEW j \in 1..n, i # j, Upto(i, j)
      PROVE  Cardinality(B(i)) < Cardinality(B(j))
  <2>1. B(i) \in SUBSET B(j)
    BY <1>2, <1>5
  <2>2. j \in B(j) /\ j \notin B(i)
    BY <1>2, <1>5
  <2> HIDE DEF B
  <2>3. Cardinality(B(i)) <= Cardinality(B(j)) /\ Cardinality(B(i)) # Cardinality(B(j))
    BY <1>4, <2>1, <2>2, FS_Subset
  <2> QED BY <1>4, <2>3
<1>6. \A j \in 1..n : pos[j] \in 1..n
  <2> SUFFICES ASSUME NEW j \in 1..n PROVE Cardinality(B(j)) \in 1..n
    OBVIOUS
  <2>1. j \in B(j)
    BY <1>2
  <2> HIDE DEF B
  <2>2. Cardinality(B(j)) # 0
    BY <1>4, <2>1, FS_EmptySet
  <2> QED BY <1>1, <1>4, <2>2
<1>7. \A i, j \in 1..n : i # j /\ Upto(i, j) => pos[i] < pos[j]
  <2> HIDE DEF B
  <2> QED BY <1>5
<1> HIDE DEF B
<1>8. pos \in [1..n -> 1..n]
  BY <1>6
<1> HIDE DEF pos
<1>9. \A i, j \in 1..n : pos[i] = pos[j] => i = j
  <2> SUFFICES ASSUME NEW i \in 1..n, NEW j \in 1..n, pos[i] = pos[j], i # j PROVE FALSE
    OBVIOUS
  <2>1. pos[i] < pos[j] \/ pos[j] < pos[i]
    BY <1>2, <1>7
  <2> QED BY <1>6, <2>1
<1>10. \A i \in 1..n : \E j \in 1..n : pos[j] = i
  BY <1>1, <1>8, <1>9, OneToOneOnto
<1> DEFINE p == [i \in 1..n |-> CHOOSE j \in 1..n : pos[j] = i]
<1>11. \A i \in 1..n : p[i] \in 1..n /\ pos[p[i]] = i
  BY <1>10
<1>12. p \in [1..n -> 1..n]
  BY <1>11
<1> HIDE DEF p
<1>13. \A i, j \in 1..n : p[i] = p[j] => i = j
  BY <1>11
<1>14. \A i \in 1..n : \E j \in 1..n : p[j] = i
  <2> SUFFICES ASSUME NEW i \in 1..n PROVE p[pos[i]] = i /\ pos[i] \in 1..n
    OBVIOUS
  <2>1. pos[i] \in 1..n
    BY <1>6
  <2>2. p[pos[i]] \in 1..n /\ pos[p[pos[i]]] = pos[i]
    BY <1>11, <2>1
  <2> QED BY <1>9, <2>1, <2>2
<1>15. \A i, j \in 1..n : i < j => s[p[i]] <= s[p[j]]
  <2> SUFFICES ASSUME NEW i \in 1..n, NEW j \in 1..n, i < j PROVE s[p[i]] <= s[p[j]]
    OBVIOUS
  <2>1. p[i] \in 1..n /\ p[j] \in 1..n /\ pos[p[i]] < pos[p[j]] /\ ~(pos[p[j]] < pos[p[i]])
        /\ p[i] # p[j]
    BY <1>11
  <2>2. Upto(p[i], p[j])
    BY <1>2, <1>7, <2>1
  <2> QED BY <1>2, <2>1, <2>2
<1> QED BY <1>12, <1>13, <1>14, <1>15 DEF IsOrder, n

LEMMA SortedFacts ==
  ASSUME NEW s \in Seq(Int)
  PROVE  \E p : IsOrder(s, p) /\ sorted(s) = [i \in 1..Len(s) |-> s[p[i]]]
<1> DEFINE D == 1..Len(s)
           Up(p) == \A i, j \in D : i < j => s[p[i]] <= s[p[j]]
<1>1. DOMAIN s = D
  OBVIOUS
<1>2. PICK q : IsOrder(s, q)
  BY OrderExists
<1>3. q \in Bijection(D, D) /\ Up(q)
  BY <1>2 DEF IsOrder, Bijection, Injection, Surjection, IsInjective
<1> DEFINE p == CHOOSE x \in Bijection(D, D) : Up(x)
<1>4. p \in Bijection(D, D) /\ Up(p)
  <2> HIDE DEF Up, D
  <2> QED BY <1>3
<1>5. sorted(s) = [i \in D |-> s[p[i]]]
  BY <1>1 DEF sorted
<1> HIDE DEF p
<1>6. IsOrder(s, p)
  BY <1>4 DEF IsOrder, Bijection, Injection, Surjection, IsInjective
<1> QED BY <1>5, <1>6

IndicesUpTo(s, x) == {i \in 1..Len(s) : s[i] <= x}
SortedUpTo(s, p, x) == {i \in 1..Len(s) : s[p[i]] <= x}

LEMMA IndicesUpToFacts ==
  ASSUME NEW s \in Seq(Int), NEW x \in Int
  PROVE  IsFiniteSet(IndicesUpTo(s, x)) /\ Cardinality(IndicesUpTo(s, x)) \in Nat
<1>1. IndicesUpTo(s, x) \in SUBSET (1..Len(s)) /\ IsFiniteSet(1..Len(s))
  BY FS_Interval DEF IndicesUpTo
<1> QED BY <1>1, FS_Subset, FS_CardinalityType

\* As many samples are at most x before they are sorted as afterwards.
LEMMA SortedCount ==
  ASSUME NEW s \in Seq(Int), NEW p, IsOrder(s, p), NEW x \in Int
  PROVE  /\ IsFiniteSet(SortedUpTo(s, p, x))
         /\ Cardinality(SortedUpTo(s, p, x)) = Cardinality(IndicesUpTo(s, x))
<1> DEFINE n == Len(s)
           A == {i \in 1..n : s[p[i]] <= x}
           C == IndicesUpTo(s, x)
           q == [i \in A |-> p[i]]
<1>1. /\ n \in Nat /\ p \in [1..n -> 1..n] /\ \A i, j \in 1..n : p[i] = p[j] => i = j
      /\ \A i \in 1..n : \E j \in 1..n : p[j] = i
  BY DEF IsOrder
<1>2. IsFiniteSet(A)
  <2>1. A \in SUBSET (1..n) /\ IsFiniteSet(1..n)
    BY FS_Interval
  <2> HIDE DEF A
  <2> QED BY <2>1, FS_Subset
<1>3. \A i \in A : p[i] \in C
  BY <1>1 DEF IndicesUpTo
<1>4. q \in [A -> C]
  BY <1>3
<1>5. \A i, j \in A : q[i] = q[j] => i = j
  BY <1>1
<1>6. \A c \in C : \E i \in A : q[i] = c
  <2> SUFFICES ASSUME NEW c \in C PROVE \E i \in A : p[i] = c
    OBVIOUS
  <2>1. c \in 1..n /\ s[c] <= x
    BY DEF IndicesUpTo
  <2>2. PICK i \in 1..n : p[i] = c
    BY <1>1, <2>1
  <2> QED BY <2>1, <2>2
<1> HIDE DEF A, C, q
<1>7. q \in Bijection(A, C)
  BY <1>4, <1>5, <1>6 DEF Bijection, Injection, Surjection, IsInjective
<1>8. Cardinality(A) = Cardinality(C)
  BY <1>2, <1>7, FS_Bijection DEF ExistsBijection
<1> QED BY <1>2, <1>8 DEF A, C, n, SortedUpTo

\* The rank is the least whole number that is at least p per cent of n.
LEMMA RankFacts ==
  ASSUME NEW n \in Nat \ {0}, NEW p \in 1..100
  PROVE  /\ rank(p, n) \in 1..n /\ p * n \in Nat
         /\ \A c \in Nat : 100 * c >= p * n <=> c >= rank(p, n)
<1> DEFINE a == p * n
           k == (a + 99) \div 100
<1>1. a \in Nat /\ a > 0 /\ a <= 100 * n
  <2>1. \A x \in 1..100, y \in Nat \ {0} : x * y \in Nat /\ x * y > 0 /\ x * y <= 100 * y
    <3> SUFFICES ASSUME NEW x \in 1..100, NEW y \in Nat \ {0}
                 PROVE  x * y \in Nat /\ x * y > 0 /\ x * y <= 100 * y
      OBVIOUS
    <3>1. x * y \in Nat /\ x * y > 0
      OBVIOUS
    <3>2. (100 - x) * y >= 0 /\ (100 - x) * y = 100 * y - x * y
      OBVIOUS
    <3> QED BY <3>1, <3>2
  <2> QED BY <2>1
<1> HIDE DEF a
<1>2. k \in Nat /\ 100 * k >= a /\ 100 * k < a + 100
  BY <1>1
<1>3. rank(p, n) = AtLeast(1, k)
  BY DEF rank, a
<1> HIDE DEF k
<1>4. k \in 1..n /\ rank(p, n) = k
  <2>1. k >= 1 /\ k <= n
    BY <1>1, <1>2
  <2> QED BY <1>2, <1>3, <2>1 DEF AtLeast
<1>5. \A c \in Nat : 100 * c >= a <=> c >= k
  BY <1>1, <1>2
<1> QED BY <1>1, <1>4, <1>5 DEF a

LEMMA PercentileAtRank ==
  ASSUME NEW s \in Seq(Int), s # <<>>, NEW p \in 1..100
  PROVE  IsPercentile(sorted(s)[rank(p, Len(s))], p, s)
<1> DEFINE n == Len(s)
           k == rank(p, n)
<1>1. n \in Nat \ {0} /\ DOMAIN s = 1..n /\ \A i \in 1..n : s[i] \in Int
  BY EmptySeq
<1> HIDE DEF n
<1>r. /\ k \in 1..n /\ p * n \in Nat
      /\ \A c \in Nat : 100 * c >= p * n <=> c >= k
  BY <1>1, RankFacts, Zenon
<1>2. k \in 1..n /\ k \in Int /\ n \in Int
  BY <1>1, <1>r
<1>3. PICK o : IsOrder(s, o) /\ sorted(s) = [i \in 1..n |-> s[o[i]]]
  BY SortedFacts DEF n
<1>4. o \in [1..n -> 1..n] /\ \A i, j \in 1..n : i < j => s[o[i]] <= s[o[j]]
  BY <1>3 DEF IsOrder, n
<1> DEFINE v == s[o[k]]
           A(x) == SortedUpTo(s, o, x)
<1> HIDE DEF k
<1>5. v \in Int /\ sorted(s)[k] = v /\ v \in Range(s)
  BY <1>1, <1>2, <1>3, <1>4 DEF Range
<1>6. \A x \in Int : /\ IsFiniteSet(A(x)) /\ Cardinality(A(x)) = Cardinality(IndicesUpTo(s, x))
                     /\ Cardinality(IndicesUpTo(s, x)) \in Nat
  <2> SUFFICES ASSUME NEW x \in Int
               PROVE  /\ IsFiniteSet(A(x)) /\ Cardinality(A(x)) = Cardinality(IndicesUpTo(s, x))
                      /\ Cardinality(IndicesUpTo(s, x)) \in Nat
    OBVIOUS
  <2>1. IsFiniteSet(A(x)) /\ Cardinality(A(x)) = Cardinality(IndicesUpTo(s, x))
    BY <1>3, SortedCount
  <2> QED BY <2>1, IndicesUpToFacts
<1>7. Cardinality(IndicesUpTo(s, v)) >= k
  <2>1. (1..k) \in SUBSET A(v)
    <3> SUFFICES ASSUME NEW i \in 1..k PROVE i \in 1..n /\ s[o[i]] <= s[o[k]]
      BY DEF SortedUpTo, n
    <3>1. i \in 1..n /\ (i < k \/ i = k)
      BY <1>1, <1>2
    <3>2. s[o[i]] \in Int
      BY <1>1, <1>4, <3>1
    <3> QED BY <1>2, <1>4, <3>1, <3>2
  <2>2. Cardinality(1..k) = k
    <3>1. Cardinality(1..k) = IF 1 > k THEN 0 ELSE k - 1 + 1
      BY <1>2, FS_Interval
    <3> QED BY <1>1, <1>2, <3>1
  <2> HIDE DEF A, v
  <2>3. Cardinality(1..k) <= Cardinality(A(v))
    BY <1>5, <1>6, <2>1, FS_Subset
  <2> QED BY <1>1, <1>2, <1>5, <1>6, <2>2, <2>3
<1>8. ASSUME NEW x \in Int, Cardinality(IndicesUpTo(s, x)) >= k PROVE v <= x
  <2> SUFFICES ASSUME x < v PROVE FALSE
    BY <1>5
  <2>1. A(x) \in SUBSET (1..(k - 1))
    <3> SUFFICES ASSUME NEW i \in 1..n, s[o[i]] <= x, i >= k PROVE FALSE
      BY <1>1, <1>2 DEF SortedUpTo, n
    <3>1. s[o[i]] \in Int /\ o[i] \in 1..n
      BY <1>1, <1>4
    <3>2. k < i \/ k = i
      BY <1>1, <1>2
    <3>3. s[o[k]] <= s[o[i]]
      BY <1>2, <1>4, <3>1, <3>2
    <3> QED BY <1>5, <3>1, <3>3
  <2>2. IsFiniteSet(1..(k - 1)) /\ Cardinality(1..(k - 1)) = k - 1
    <3> DEFINE b == k - 1
    <3>1. b \in Nat /\ b \in Int /\ 1 \in Int
      BY <1>1, <1>2
    <3> HIDE DEF b
    <3>2. IsFiniteSet(1..b) /\ Cardinality(1..b) = IF 1 > b THEN 0 ELSE b - 1 + 1
      BY <3>1, FS_Interval
    <3>3. IsFiniteSet(1..b) /\ Cardinality(1..b) = b
      BY <3>1, <3>2
    <3> QED BY <3>3 DEF b
  <2> HIDE DEF A, v
  <2>3. Cardinality(A(x)) <= k - 1
    BY <2>1, <2>2, FS_Subset
  <2> QED BY <1>1, <1>2, <1>6, <1>8, <2>3
<1>9. \A x \in Range(s) : x \in Int
  BY <1>1 DEF Range
<1> HIDE DEF v
<1>10. /\ 100 * Cardinality(IndicesUpTo(s, v)) >= p * n
       /\ \A x \in Range(s) : 100 * Cardinality(IndicesUpTo(s, x)) >= p * n => v <= x
  <2>1. 100 * Cardinality(IndicesUpTo(s, v)) >= p * n
    BY <1>r, <1>5, <1>6, <1>7
  <2>2. ASSUME NEW x \in Range(s), 100 * Cardinality(IndicesUpTo(s, x)) >= p * n PROVE v <= x
    BY <1>r, <1>6, <1>8, <1>9, <2>2
  <2> QED BY <2>1, <2>2
<1> QED BY <1>1, <1>5, <1>10 DEF IsPercentile, IndicesUpTo, n, k

LEMMA PercentilesAre ==
  ASSUME NEW s \in Seq(Int)
  PROVE  ArePercentiles(percentiles(s), s)
<1> SUFFICES ASSUME s # <<>> PROVE ArePercentiles(percentiles(s), s)
  BY DEF ArePercentiles
<1> DEFINE At(p) == sorted(s)[rank(p, Len(s))]
<1>1. percentiles(s) = [p50 |-> At(50), p90 |-> At(90), p99 |-> At(99)]
  BY DEF percentiles
<1>2. IsPercentile(At(50), 50, s) /\ IsPercentile(At(90), 90, s) /\ IsPercentile(At(99), 99, s)
  BY PercentileAtRank
<1> HIDE DEF At
<1> QED BY <1>1, <1>2 DEF ArePercentiles

----------------------------------------------------------------------------
(* The blocks of the trace, the hits among them and the reused ones. *)

LEMMA SplicedIs ==
  ASSUME NEW S, NEW s \in Seq(S), NEW t \in Seq(S), NEW u, Spliced(S, s, t, u)
  PROVE  u = s \o t
<1> DEFINE v == s \o t
           a == Len(s)
           b == Len(t)
<1>1. Spliced(S, s, t, v)
  BY Splice
<1> HIDE DEF v
<1>2. /\ a \in Nat /\ b \in Nat /\ u \in Seq(S) /\ v \in Seq(S) /\ Len(u) = a + b /\ Len(v) = a + b
      /\ \A i \in 1..a : u[i] = s[i] /\ v[i] = s[i]
      /\ \A i \in 1..b : u[a + i] = t[i] /\ v[a + i] = t[i]
  BY <1>1 DEF Spliced
<1> HIDE DEF a, b
<1>3. ASSUME NEW i \in 1..(a + b) PROVE u[i] = v[i]
  <2>1. CASE i \in 1..a
    BY <1>2, <2>1
  <2>2. CASE i \notin 1..a
    <3> DEFINE j == i - a
    <3>1. j \in 1..b /\ i = a + j
      BY <1>2, <2>2
    <3> HIDE DEF j
    <3> QED BY <1>2, <3>1
  <2> QED BY <2>1, <2>2
<1>4. u = v
  BY <1>2, <1>3, SeqEqual
<1> QED BY <1>4 DEF v

LEMMA TraceFlattened ==
  ASSUME lines \in Seq(Lines), ~Malformed(lines)
  PROVE  FlattenSeq([j \in DOMAIN plan |-> plan[j].hash_ids]) = Trace
<1> DEFINE n == Len(plan)
           seqs == [j \in DOMAIN plan |-> plan[j].hash_ids]
           Body(f, i) == IF i = 1 THEN seqs[i] ELSE f[i - 1] \o seqs[i]
           Run(f) == f = [i \in 1..n |-> Body(f, i)]
<1>1. n \in Nat /\ DOMAIN plan = 1..n /\ \A i \in 1..n : plan[i].hash_ids \in Seq(Key)
  BY PlanLines, PlanRecords
<1>2. /\ Whole \in [0..n -> Seq(Key)] /\ Whole[0] = <<>>
      /\ \A i \in 1..n : Spliced(Key, Whole[i - 1], plan[i].hash_ids, Whole[i])
  BY WholeUnfolds DEF Unfolds
<1> HIDE DEF plan, Whole
<1>3. seqs \in Seq(Seq(Key)) /\ Len(seqs) = n /\ \A i \in 1..n : seqs[i] = plan[i].hash_ids
  <2>1. seqs \in [1..n -> Seq(Key)]
    BY <1>1
  <2>2. \A i \in 1..n : seqs[i] = plan[i].hash_ids
    BY <1>1
  <2> HIDE DEF seqs, n
  <2>3. seqs \in Seq(Seq(Key))
    BY <1>1, <2>1
  <2>4. Len(seqs) = n
    BY <1>1, <2>1, <2>3, LenProperties
  <2> QED BY <2>2, <2>3, <2>4
<1> HIDE DEF seqs
<1>4. CASE n = 0
  <2>1. seqs = <<>>
    BY <1>3, <1>4, EmptySeq
  <2>2. FlattenSeq(seqs) = seqs
    BY <1>3, <1>4 DEF FlattenSeq
  <2>3. Trace = <<>>
    BY <1>2, <1>4 DEF Trace
  <2> QED BY <2>1, <2>2, <2>3 DEF seqs
<1>5. CASE n # 0
  <2>1. FlattenSeq(seqs) = (CHOOSE f : Run(f))[n]
    <3>1. FlattenSeq(seqs) =
            (CHOOSE f : f = [i \in 1..Len(seqs) |-> IF i = 1 THEN seqs[i] ELSE f[i - 1] \o seqs[i]])[Len(seqs)]
      BY <1>3, <1>5 DEF FlattenSeq
    <3> QED BY <1>3, <3>1
  <2> HIDE DEF n
  <2>2. \A i \in 1..n : Whole[i] = Whole[i - 1] \o seqs[i] /\ Whole[i] \in Seq(Key)
    <3> SUFFICES ASSUME NEW i \in 1..n
                 PROVE  Whole[i] = Whole[i - 1] \o seqs[i] /\ Whole[i] \in Seq(Key)
      OBVIOUS
    <3>1. i - 1 \in 0..n /\ i \in 0..n
      BY <1>1
    <3>2. Whole[i - 1] \in Seq(Key) /\ Whole[i] \in Seq(Key) /\ seqs[i] \in Seq(Key)
          /\ Spliced(Key, Whole[i - 1], seqs[i], Whole[i])
      BY <1>1, <1>2, <1>3, <3>1
    <3> QED BY <3>2, SplicedIs
  <2>3. 1 \in 1..n /\ Whole[1] = seqs[1]
    <3>1. 1 \in 1..n /\ 1 - 1 = 0
      BY <1>1, <1>5
    <3>2. Whole[1] = <<>> \o seqs[1] /\ seqs[1] \in Seq(Key)
      BY <1>1, <1>2, <1>3, <2>2, <3>1
    <3> QED BY <3>1, <3>2, ConcatEmptySeq
  <2> DEFINE g == [i \in 1..n |-> Whole[i]]
  <2>4. Run(g)
    <3>1. ASSUME NEW i \in 1..n PROVE g[i] = Body(g, i)
      <4>1. CASE i = 1
        BY <2>3, <4>1
      <4>2. CASE i # 1
        <5>1. i - 1 \in 1..n
          BY <1>1, <4>2
        <5>2. g[i] = Whole[i] /\ g[i - 1] = Whole[i - 1]
          BY <5>1
        <5> HIDE DEF g
        <5> QED BY <2>2, <4>2, <5>2
      <4> QED BY <4>1, <4>2
    <3>2. DOMAIN g = 1..n /\ g = [i \in DOMAIN g |-> g[i]]
      OBVIOUS
    <3> HIDE DEF g, Body
    <3> QED BY <3>1, <3>2
  <2>5. PICK f : Run(f) /\ FlattenSeq(seqs) = f[n]
    <3> HIDE DEF Run, g
    <3> QED BY <2>1, <2>4
  <2>6. \A i \in 1..n : f[i] = Body(f, i)
    <3> HIDE DEF Body
    <3> QED BY <2>5
  <2> DEFINE T == {m \in 0..n : m # 0 => f[m] = Whole[m]}
  <2>7. 0 \in T
    BY <1>1
  <2>8. ASSUME NEW m \in 1..n, m - 1 \in T PROVE m \in T
    <3> SUFFICES f[m] = Whole[m]
      BY <1>1
    <3>1. CASE m = 1
      BY <2>3, <2>6, <3>1
    <3>2. CASE m # 1
      <4>1. m - 1 # 0 /\ f[m - 1] = Whole[m - 1]
        BY <1>1, <2>8, <3>2
      <4>2. f[m] = f[m - 1] \o seqs[m]
        BY <2>6, <3>2
      <4> QED BY <2>2, <4>1, <4>2
    <3> QED BY <3>1, <3>2
  <2>9. n \in T
    <3>1. T \in SUBSET (0..n) /\ n \in 0..n
      BY <1>1
    <3> HIDE DEF T
    <3> QED BY <1>1, <2>7, <2>8, <3>1, Upwards
  <2> QED BY <1>5, <2>5, <2>9 DEF Trace, n, seqs
<1> QED BY <1>4, <1>5

LEMMA RatesAgree ==
  ASSUME NEW l \in Seq(Events)
  PROVE  rates(l).hit[1] > 0 <=> rates(l).reuse[1] > 0
<1> DEFINE hits == {i \in DOMAIN l : l[i].hit}
           Blocks(I) == {l[i].hash_id : i \in I}
           a == Cardinality(hits)
           b == Cardinality(Blocks(hits))
<1>1. CASE l = <<>>
  <2>1. rates(l) = [hit |-> <<0, 1>>, reuse |-> <<0, 1>>]
    BY <1>1 DEF rates
  <2> QED BY <2>1
<1>2. CASE l # <<>>
  <2>1. rates(l) = [hit |-> <<a, Len(l)>>, reuse |-> <<b, Cardinality(Blocks(DOMAIN l))>>]
    BY <1>2 DEF rates
  <2>2. IsFiniteSet(hits)
    <3>1. hits \in SUBSET (1..Len(l)) /\ IsFiniteSet(1..Len(l))
      BY FS_Interval
    <3> HIDE DEF hits
    <3> QED BY <3>1, FS_Subset
  <2>3. IsFiniteSet(Blocks(hits))
    <3> DEFINE f == [i \in hits |-> l[i].hash_id]
    <3>1. f \in Surjection(hits, Blocks(hits))
      <4> HIDE DEF hits
      <4> QED BY DEF Surjection
    <3> HIDE DEF f, hits, Blocks
    <3> QED BY <2>2, <3>1, FS_Surjection
  <2>4. Blocks(hits) = {} <=> hits = {}
    <3> HIDE DEF hits
    <3> QED OBVIOUS
  <2> HIDE DEF hits, Blocks
  <2>5. a \in Nat /\ b \in Nat /\ (a = 0 <=> hits = {}) /\ (b = 0 <=> Blocks(hits) = {})
    BY <2>2, <2>3, FS_EmptySet, FS_CardinalityType
  <2> HIDE DEF a, b
  <2> QED BY <2>1, <2>4, <2>5
<1> QED BY <1>1, <1>2

----------------------------------------------------------------------------
(* A replay takes one sample of each kind per record. *)

Sampled ==
  cfg # NoConfig => /\ ttft \in Seq(Int) /\ Len(ttft) = step - 1
                    /\ e2e \in Seq(Int) /\ Len(e2e) = step - 1

LEMMA TimeFacts ==
  ASSUME SimInv
  PROVE  TimeToFirst \in Int
<1>1. block_hits \in Seq({"fast", "slow", "miss"})
  BY DEF SimInv, SimType
<1>2. ASSUME NEW o PROVE Count(o) \in Nat
  <2> DEFINE S == {i \in DOMAIN block_hits : block_hits[i] = o}
  <2>1. S \in SUBSET (1..Len(block_hits)) /\ IsFiniteSet(1..Len(block_hits))
    BY <1>1, FS_Interval
  <2> HIDE DEF S
  <2>2. Cardinality(S) \in Nat
    BY <2>1, FS_Subset, FS_CardinalityType
  <2> QED BY <2>2 DEF S, Count
<1>3. Count("miss") \in Nat /\ Count("slow") \in Nat
  BY <1>2
<1> QED BY <1>3 DEF TimeToFirst, AtLeast, Prefill, Transfer

LEMMA SampledStep ==
  ASSUME ReplayInv, Tracing, Sampled, [ReplayNext]_replay_vars
  PROVE  Sampled'
<1>1. SimInv /\ Calls /\ lines \in Seq(Lines) /\ step \in Nat
  BY DEF ReplayInv, Calls
<1>2. ASSUME UNCHANGED <<ttft, e2e, step>>, cfg' \in {cfg, NoConfig} PROVE Sampled'
  BY <1>2 DEF Sampled
<1>3. ASSUME NEW c \in Configs, Call(c) PROVE Sampled'
  <2>1. ttft' = <<>> /\ e2e' = <<>> /\ step' = 1
    BY <1>3 DEF Call, Fresh
  <2>2. <<>> \in Seq(Int) /\ Len(<<>>) = 1 - 1
    BY EmptySeq
  <2> QED BY <2>1, <2>2 DEF Sampled
<1>4. CASE EndRecord
  <2>1. /\ cfg # NoConfig /\ phase = "access" /\ ~Malformed(lines) /\ step' = step + 1
        /\ ttft' = Append(ttft, TimeToFirst)
        /\ e2e' = Append(e2e, TimeToFirst + plan[step].output_length)
    BY <1>1, <1>4 DEF EndRecord, Running, Return, Calls
  <2>2. step \in 1..Len(plan)
    BY <2>1, <1>1, PlanLines DEF Tracing
  <2>3. plan[step].output_length \in Int
    <3>1. plan[step] \in Records
      BY <1>1, <2>1, <2>2, PlanLines
    <3> HIDE DEF plan
    <3> QED BY <3>1, ReplayAssumption DEF Records
  <2> DEFINE x == TimeToFirst
             y == TimeToFirst + plan[step].output_length
  <2>4. x \in Int /\ y \in Int
    BY <1>1, <2>3, TimeFacts
  <2>5. ttft' = Append(ttft, x) /\ e2e' = Append(e2e, y)
    BY <2>1
  <2> HIDE DEF x, y
  <2>6. /\ ttft \in Seq(Int) /\ Len(ttft) = step - 1 /\ e2e \in Seq(Int) /\ Len(e2e) = step - 1
    BY <2>1 DEF Sampled
  <2>7. /\ ttft' \in Seq(Int) /\ Len(ttft') = Len(ttft) + 1
        /\ e2e' \in Seq(Int) /\ Len(e2e') = Len(e2e) + 1
    BY <2>4, <2>5, <2>6, AppendProperties
  <2>8. Len(ttft') = step' - 1 /\ Len(e2e') = step' - 1
    BY <1>1, <2>1, <2>6, <2>7
  <2> QED BY <2>7, <2>8 DEF Sampled
<1>5. ASSUME NEW c \in Configs, CallRaises(c) PROVE Sampled'
  BY <1>2, <1>5 DEF CallRaises, samples
<1>6. ASSUME NEW lock \in LockFiles, Report(lock) \/ ReportRaises(lock) PROVE Sampled'
  BY <1>2, <1>6 DEF Report, ReportRaises, Finished, samples
<1>7. CASE NextRecord \/ Tiered \/ PoolAccess
  BY <1>2, <1>7 DEF NextRecord, Tiered, PoolAccess, samples
<1>8. CASE UNCHANGED replay_vars
  BY <1>2, <1>8 DEF replay_vars, samples
<1> QED BY <1>3, <1>4, <1>5, <1>6, <1>7, <1>8 DEF ReplayNext

\* What ReportSound says of a report r and the samples t and e of a plan p.
Fits(p, t, e, r) ==
  /\ Len(t) = Len(p) /\ Len(e) = Len(p)
  /\ ArePercentiles(r.ttft, t) /\ ArePercentiles(r.e2e, e)
  /\ [j \in DOMAIN r.log |-> r.log[j].hash_id] =
       FlattenSeq([j \in DOMAIN p |-> p[j].hash_ids])
  /\ r.rates.hit[1] > 0 <=> r.rates.reuse[1] > 0

LEMMA SoundIs ==
  ReportSound <=> \A i \in DOMAIN reports :
                    ~reports[i].raised /\ i = Len(reports) /\ cfg = NoConfig =>
                      Fits(plan, ttft, e2e, reports[i])
BY DEF ReportSound, Returned, Fits

LEMMA ReportFits ==
  ASSUME ReplayInv, Tracing, Sampled, Finished, NEW r,
         r.ttft = percentiles(ttft), r.e2e = percentiles(e2e), r.log = log, r.rates = rates(log)
  PROVE  Fits(plan, ttft, e2e, r)
<1>1. /\ cfg # NoConfig /\ step > Len(plan) /\ lines \in Seq(Lines) /\ ~Malformed(lines)
      /\ log \in Seq(Events)
  BY DEF Finished, Running, ReplayInv, Calls, History
<1>2. /\ Len(plan) \in Nat /\ step \in 1..(Len(plan) + 1) /\ Len(log) = Len(Whole[step - 1])
      /\ \A i \in 1..Len(log) : log[i].hash_id = Trace[i]
  BY <1>1, PlanRecords DEF Tracing
<1>3. step - 1 = Len(plan) /\ Len(plan) \in 0..Len(plan)
  BY <1>1, <1>2
<1>4. Len(log) = Len(Trace) /\ Trace \in Seq(Key)
  BY <1>1, <1>2, <1>3, WholeStarts DEF Trace
<1>5. /\ ttft \in Seq(Int) /\ Len(ttft) = Len(plan)
      /\ e2e \in Seq(Int) /\ Len(e2e) = Len(plan)
  BY <1>1, <1>3 DEF Sampled
<1>6. ArePercentiles(r.ttft, ttft) /\ ArePercentiles(r.e2e, e2e)
  BY <1>5, PercentilesAre
<1> HIDE DEF plan, Whole, Trace
<1>7. [j \in DOMAIN r.log |-> r.log[j].hash_id] = Trace
  <2>1. DOMAIN log = 1..Len(log) /\ DOMAIN Trace = 1..Len(Trace) /\ Trace = [j \in DOMAIN Trace |-> Trace[j]]
    BY <1>1, <1>4
  <2> QED BY <1>2, <1>4, <2>1
<1>8. r.rates.hit[1] > 0 <=> r.rates.reuse[1] > 0
  BY <1>1, RatesAgree
<1> QED BY <1>1, <1>5, <1>6, <1>7, <1>8, TraceFlattened DEF Fits

SoundReports == ReportSound /\ \E S : reports \in Seq(S)

LEMMA SoundStep ==
  ASSUME ReplayInv, Tracing, Sampled, SoundReports, [ReplayNext]_replay_vars
  PROVE  SoundReports'
<1>1. SoundReports' <=>
        /\ \E S : reports' \in Seq(S)
        /\ \A i \in DOMAIN reports' :
             ~reports'[i].raised /\ i = Len(reports') /\ cfg' = NoConfig =>
               Fits(plan', ttft', e2e', reports'[i])
  BY DEF SoundReports, ReportSound, Returned, Fits
<1>2. ASSUME UNCHANGED reports, cfg' # NoConfig PROVE SoundReports'
  BY <1>1, <1>2 DEF SoundReports
<1>3. ASSUME NEW r, reports' = Append(reports, r),
             ~r.raised => Fits(plan, ttft, e2e, r) /\ UNCHANGED <<lines, ttft, e2e>>
      PROVE  SoundReports'
  <2>1. /\ \E S : reports' \in Seq(S)
        /\ Len(reports) \in Nat /\ DOMAIN reports' = 1..(Len(reports) + 1)
        /\ reports'[Len(reports) + 1] = r
    BY <1>3, OneMore DEF SoundReports
  <2>2. Len(reports') = Len(reports) + 1
    <3>1. PICK S : reports' \in Seq(S)
      BY <2>1
    <3>2. Len(reports') \in Nat /\ DOMAIN reports' = 1..Len(reports')
      BY <3>1, LenProperties
    <3> QED BY <2>1, <3>2
  <2>3. UNCHANGED lines => plan' = plan
    BY SameTrace
  <2> QED BY <1>1, <1>3, <2>1, <2>2, <2>3
<1>4. ASSUME NEW c, reports' = Append(reports, [config |-> c, raised |-> TRUE])
      PROVE  SoundReports'
  <2> DEFINE r == [config |-> c, raised |-> TRUE]
  <2>1. reports' = Append(reports, r) /\ r.raised
    BY <1>4
  <2> HIDE DEF r
  <2> QED BY <1>3, <2>1
<1>5. ASSUME NEW lock \in LockFiles, Report(lock) PROVE SoundReports'
  <2> DEFINE r == [config |-> cfg, raised |-> FALSE, lock |-> lock,
               mooncake_commit |-> IF cfg.mooncake_commit # "" THEN cfg.mooncake_commit
                                   ELSE read_mooncake_lock(lock),
               throughput |-> IF plan = <<>> THEN <<0, 1>> ELSE <<tokens, Sum(e2e)>>,
               ttft |-> percentiles(ttft), e2e |-> percentiles(e2e),
               rates |-> rates(log), log |-> log,
               skipped |-> {b \in DOMAIN RequiredCapability :
                              RequiredCapability[b] \notin cfg.hardware}]
  <2>1. reports' = Append(reports, r)
    BY <1>5, Zenon DEF Report
  <2>2. /\ r.ttft = percentiles(ttft) /\ r.e2e = percentiles(e2e)
        /\ r.log = log /\ r.rates = rates(log)
    OBVIOUS
  <2> HIDE DEF r
  <2>3. Finished /\ UNCHANGED <<lines, ttft, e2e>>
    BY <1>5 DEF Report, Finished, samples
  <2> QED BY <1>3, <2>1, <2>2, <2>3, ReportFits
<1>6. CASE UNCHANGED replay_vars
  <2>1. UNCHANGED <<reports, cfg, ttft, e2e, lines>>
    BY <1>6 DEF replay_vars, samples
  <2>2. plan' = plan
    BY <2>1, SameTrace
  <2> QED BY <1>1, <2>1, <2>2, SoundIs DEF SoundReports
<1>7. ASSUME NEW c \in Configs, Call(c) PROVE SoundReports'
  <2>1. reports' = reports /\ cfg' = c
    BY <1>7 DEF Call
  <2> QED BY <1>2, <2>1, ConfigFacts
<1>8. ASSUME NEW c \in Configs, CallRaises(c) PROVE SoundReports'
  BY <1>4, <1>8 DEF CallRaises
<1>9. ASSUME NEW lock \in LockFiles, ReportRaises(lock) PROVE SoundReports'
  BY <1>4, <1>9 DEF ReportRaises
<1>10. CASE NextRecord \/ Tiered \/ PoolAccess \/ EndRecord
  <2>1. reports' = reports /\ cfg' # NoConfig
    BY <1>10 DEF NextRecord, Tiered, PoolAccess, EndRecord, Running
  <2> QED BY <1>2, <2>1
<1> QED BY <1>5, <1>6, <1>7, <1>8, <1>9, <1>10 DEF ReplayNext

\* For any trace, configurations and lock files: a report's percentiles are
\* those of its samples, one per record, its log has every block of the trace
\* in order, and some block was reused if and only if there was a hit.
THEOREM ReportsAreSound == ReplaySpec => []ReportSound
<1> DEFINE Inv == Tracing /\ Sampled /\ SoundReports
<1>1. ReplayInit => Inv
  <2> SUFFICES ASSUME ReplayInit PROVE Inv
    OBVIOUS
  <2>1. cfg = NoConfig /\ reports = <<>>
    BY DEF ReplayInit
  <2>2. reports \in Seq({}) /\ DOMAIN reports = {}
    BY <2>1, EmptySeq
  <2> QED BY <2>1, <2>2 DEF Tracing, Sampled, SoundReports, ReportSound, Returned
<1>2. ReplayInv /\ Inv /\ [ReplayNext]_replay_vars => Inv'
  BY TracingStep, SampledStep, SoundStep
<1>3. Inv => ReportSound
  BY DEF SoundReports
<1> HIDE DEF Inv
<1> QED BY <1>1, <1>2, <1>3, ReplayInvariance, PTL DEF ReplaySpec
==============================================================================
