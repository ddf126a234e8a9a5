---------------------------- MODULE ConnectorProofs ----------------------------
(***************************************************************************)
(* Safety of the clients of the core for any keys, payloads, tiers,        *)
(* tenants and threads: what they have in the index, in the successor      *)
(* graph and in their results against what is in the store.                *)
(***************************************************************************)
EXTENDS Connector, FiniteSetTheorems, SequenceTheorems, NaturalsInduction, TLAPS

----------------------------------------------------------------------------
(* The edge table and the roll-out queue of PrefixPrefetcher, for every set  *)
(* of keys, every limit and sequences of every length.                       *)

\* The limit is positive: 0 counts as 1.
LEMMA MaxEdgesPositive == MaxEdges \in Nat /\ MaxEdges >= 1
BY PrefetcherAssumption DEF MaxEdges

LEMMA EdgeFunctionsDef ==
  ASSUME NEW f
  PROVE  f \in EdgeFunctions <=> DOMAIN f \subseteq Key /\ f \in [DOMAIN f -> Key]
BY DEF EdgeFunctions

\* Link adds or overwrites one edge.
LEMMA LinkEdges ==
  ASSUME NEW f \in EdgeFunctions, NEW from \in Key, NEW to \in Key
  PROVE  /\ Link(f, from, to) \in EdgeFunctions
         /\ DOMAIN Link(f, from, to) = DOMAIN f \cup {from}
         /\ Link(f, from, to)[from] = to
         /\ \A k \in DOMAIN f \ {from} : Link(f, from, to)[k] = f[k]
<1>1. DOMAIN f \subseteq Key /\ f \in [DOMAIN f -> Key]
  BY EdgeFunctionsDef
<1>2. DOMAIN Link(f, from, to) = DOMAIN f \cup {from}
  BY DEF Link
<1>3. Link(f, from, to) \in [DOMAIN f \cup {from} -> Key]
  BY <1>1 DEF Link
<1>4. Link(f, from, to) \in EdgeFunctions
  BY <1>1, <1>2, <1>3, EdgeFunctionsDef
<1> QED BY <1>1, <1>2, <1>4 DEF Link

\* Appending a key that is not there keeps a queue free of duplicates.
LEMMA AppendDistinct ==
  ASSUME NEW s \in Seq(Key), NEW k \in Key, k \notin Range(s),
         \A i, j \in DOMAIN s : s[i] = s[j] => i = j
  PROVE  /\ Append(s, k) \in Seq(Key)
         /\ Range(Append(s, k)) = Range(s) \cup {k}
         /\ \A i, j \in DOMAIN Append(s, k) :
              Append(s, k)[i] = Append(s, k)[j] => i = j
<1>1. /\ Append(s, k) \in Seq(Key) /\ Len(Append(s, k)) = Len(s) + 1
      /\ DOMAIN Append(s, k) = 1..(Len(s) + 1) /\ DOMAIN s = 1..Len(s)
      /\ Len(s) \in Nat
  OBVIOUS
<1>2. \A i \in 1..Len(s) : Append(s, k)[i] = s[i]
  OBVIOUS
<1>3. Append(s, k)[Len(s) + 1] = k
  OBVIOUS
<1>4. \A i \in 1..Len(s) : s[i] # k
  BY <1>1 DEF Range
<1>5. Range(Append(s, k)) = Range(s) \cup {k}
  BY <1>1, <1>2, <1>3 DEF Range
<1>6. ASSUME NEW i \in DOMAIN Append(s, k), NEW j \in DOMAIN Append(s, k),
             Append(s, k)[i] = Append(s, k)[j]
      PROVE  i = j
  BY <1>1, <1>2, <1>3, <1>4, <1>6
<1> QED BY <1>1, <1>5, <1>6

\* Dropping the head takes exactly its key out of such a queue.
LEMMA TailDistinct ==
  ASSUME NEW s \in Seq(Key), s # <<>>,
         \A i, j \in DOMAIN s : s[i] = s[j] => i = j
  PROVE  /\ Tail(s) \in Seq(Key) /\ Head(s) \in Range(s)
         /\ Range(Tail(s)) = Range(s) \ {Head(s)}
         /\ \A i, j \in DOMAIN Tail(s) : Tail(s)[i] = Tail(s)[j] => i = j
<1>1. /\ Tail(s) \in Seq(Key) /\ Len(Tail(s)) = Len(s) - 1 /\ Head(s) = s[1]
      /\ DOMAIN Tail(s) = 1..(Len(s) - 1) /\ DOMAIN s = 1..Len(s)
      /\ Len(s) \in Nat /\ Len(s) >= 1
  OBVIOUS
<1>2. \A i \in 1..(Len(s) - 1) : Tail(s)[i] = s[i + 1] /\ i + 1 \in DOMAIN s
  BY <1>1
<1>3. Head(s) \in Range(s)
  BY <1>1 DEF Range
<1>4. Range(Tail(s)) \subseteq Range(s) \ {Head(s)}
  BY <1>1, <1>2 DEF Range
<1>5. ASSUME NEW k \in Range(s) \ {Head(s)} PROVE k \in Range(Tail(s))
  <2>1. PICK i \in DOMAIN s : s[i] = k /\ i # 1
    BY <1>1 DEF Range
  <2>2. i - 1 \in DOMAIN Tail(s) /\ Tail(s)[i - 1] = k
    BY <1>1, <1>2, <2>1
  <2> QED BY <2>2 DEF Range
<1>6. \A i, j \in DOMAIN Tail(s) : Tail(s)[i] = Tail(s)[j] => i = j
  BY <1>1, <1>2
<1> QED BY <1>1, <1>3, <1>4, <1>5, <1>6


\* The inductive invariant: the four properties together, and that there are
\* finitely many edges, without which Cardinality says nothing.
EdgesInv ==
  /\ TypeOK /\ FifoMatchesEdges /\ LatestObservation
  /\ IsFiniteSet(DOMAIN successor)
  /\ Cardinality(DOMAIN successor) <= MaxEdges + 1

LEMMA InitInv == Init => EdgesInv
<1> SUFFICES ASSUME Init PROVE EdgesInv
  OBVIOUS
<1>1. DOMAIN successor = {} /\ successor \in EdgeFunctions /\ observed \in EdgeFunctions
  BY EdgeFunctionsDef DEF Init, NoEdges
<1>2. TypeOK
  BY <1>1 DEF Init, TypeOK
<1>3. FifoMatchesEdges
  BY <1>1 DEF Init, FifoMatchesEdges, Range
<1>4. IsFiniteSet(DOMAIN successor) /\ Cardinality(DOMAIN successor) = 0
  BY <1>1, FS_EmptySet
<1> QED BY <1>1, <1>2, <1>3, <1>4, MaxEdgesPositive DEF EdgesInv, LatestObservation

LEMMA RecordKeepsInv ==
  ASSUME EdgesInv, NEW keys \in KeySequences, RecordSequence(keys)
  PROVE  EdgesInv'
<1>1. keys \in Seq(Key)
  BY PrefetcherAssumption, SeqDef DEF KeySequences
<1> QED BY <1>1 DEF EdgesInv, RecordSequence, edgeVars, TypeOK, FifoMatchesEdges,
                    LatestObservation

LEMMA InsertKeepsInv ==
  ASSUME EdgesInv, InsertEdgeLocked
  PROVE  EdgesInv'
<1> DEFINE from == todo[1]
           to == todo[2]
<1>1. /\ from \in Key /\ to \in Key /\ Tail(todo) \in Seq(Key)
      /\ successor \in EdgeFunctions /\ observed \in EdgeFunctions /\ fifo \in Seq(Key)
  BY DEF EdgesInv, TypeOK, InsertEdgeLocked
<1>2. /\ successor' = Link(successor, from, to) /\ fifo' = NewInFifo(from)
      /\ observed' = Link(observed, from, to) /\ todo' = Tail(todo)
  BY DEF InsertEdgeLocked
<1> HIDE DEF from, to
<1>3. Cardinality(DOMAIN successor) \in Nat /\ Cardinality(DOMAIN successor) <= MaxEdges
  <2>1. Cardinality(DOMAIN successor) \in Nat
    BY FS_CardinalityType DEF EdgesInv
  <2>2. CASE fifo = <<>>
    <3>1. DOMAIN successor = {}
      BY <2>2 DEF EdgesInv, FifoMatchesEdges, Range
    <3> QED BY <2>1, <3>1, FS_EmptySet, MaxEdgesPositive
  <2>3. CASE fifo # <<>>
    BY <2>1, <2>3, MaxEdgesPositive DEF InsertEdgeLocked, TooManyEdges
  <2> QED BY <2>2, <2>3
<1>4. /\ successor' \in EdgeFunctions /\ DOMAIN successor' = DOMAIN successor \cup {from}
      /\ successor'[from] = to
      /\ \A k \in DOMAIN successor \ {from} : successor'[k] = successor[k]
  <2>1. /\ Link(successor, from, to) \in EdgeFunctions
        /\ DOMAIN Link(successor, from, to) = DOMAIN successor \cup {from}
        /\ Link(successor, from, to)[from] = to
        /\ \A k \in DOMAIN successor \ {from} : Link(successor, from, to)[k] = successor[k]
    BY <1>1, LinkEdges, Zenon
  <2> QED BY <1>2, <2>1, Zenon
<1>5. /\ observed' \in EdgeFunctions /\ DOMAIN observed' = DOMAIN observed \cup {from}
      /\ observed'[from] = to
      /\ \A k \in DOMAIN observed \ {from} : observed'[k] = observed[k]
  <2>1. /\ Link(observed, from, to) \in EdgeFunctions
        /\ DOMAIN Link(observed, from, to) = DOMAIN observed \cup {from}
        /\ Link(observed, from, to)[from] = to
        /\ \A k \in DOMAIN observed \ {from} : Link(observed, from, to)[k] = observed[k]
    BY <1>1, LinkEdges, Zenon
  <2> QED BY <1>2, <2>1, Zenon
<1>6. fifo' \in Seq(Key) /\ FifoMatchesEdges'
  <2>1. CASE from \in DOMAIN successor
    BY <1>1, <1>2, <1>4, <2>1 DEF NewInFifo, EdgesInv, FifoMatchesEdges
  <2>2. CASE from \notin DOMAIN successor
    BY <1>1, <1>2, <1>4, <2>2, AppendDistinct DEF NewInFifo, EdgesInv, FifoMatchesEdges
  <2> QED BY <2>1, <2>2
<1>7. LatestObservation'
  BY <1>4, <1>5 DEF EdgesInv, LatestObservation
<1>8. /\ IsFiniteSet(DOMAIN successor')
      /\ Cardinality(DOMAIN successor') <= MaxEdges + 1
  <2>1. IsFiniteSet(DOMAIN successor)
    BY DEF EdgesInv
  <2>2. /\ IsFiniteSet(DOMAIN successor \cup {from})
        /\ Cardinality(DOMAIN successor \cup {from}) =
             IF from \in DOMAIN successor THEN Cardinality(DOMAIN successor)
                                          ELSE Cardinality(DOMAIN successor) + 1
    BY <2>1, FS_AddElement, Zenon
  <2> QED BY <1>3, <1>4, <2>2, MaxEdgesPositive
<1> QED BY <1>1, <1>2, <1>4, <1>5, <1>6, <1>7, <1>8 DEF EdgesInv, TypeOK

LEMMA RollOutKeepsInv ==
  ASSUME EdgesInv, RollOut
  PROVE  EdgesInv'
<1>1. /\ fifo \in Seq(Key) /\ fifo # <<>> /\ successor \in EdgeFunctions
      /\ \A i, j \in DOMAIN fifo : fifo[i] = fifo[j] => i = j
      /\ Range(fifo) = DOMAIN successor
  BY DEF RollOut, TooManyEdges, EdgesInv, TypeOK, FifoMatchesEdges
<1>2. /\ successor' = [k \in DOMAIN successor \ {Head(fifo)} |-> successor[k]]
      /\ fifo' = Tail(fifo) /\ todo' = todo /\ observed' = observed
  BY DEF RollOut
<1>3. /\ DOMAIN successor' = DOMAIN successor \ {Head(fifo)}
      /\ \A k \in DOMAIN successor' : successor'[k] = successor[k]
  BY <1>2
<1>4. successor' \in EdgeFunctions
  BY <1>1, <1>2, <1>3, EdgeFunctionsDef
<1>5. fifo' \in Seq(Key) /\ FifoMatchesEdges'
  BY <1>1, <1>2, <1>3, TailDistinct DEF FifoMatchesEdges
<1>6. LatestObservation'
  BY <1>2, <1>3 DEF EdgesInv, LatestObservation
<1>7. /\ IsFiniteSet(DOMAIN successor')
      /\ Cardinality(DOMAIN successor') <= Cardinality(DOMAIN successor)
  BY <1>3, FS_Subset DEF EdgesInv
<1>8. Cardinality(DOMAIN successor') <= MaxEdges + 1
  BY <1>7, FS_CardinalityType, MaxEdgesPositive DEF EdgesInv
<1> QED BY <1>2, <1>4, <1>5, <1>6, <1>7, <1>8 DEF EdgesInv, TypeOK

LEMMA NextKeepsInv == EdgesInv /\ [Next]_vars => EdgesInv'
<1> SUFFICES ASSUME EdgesInv, [Next]_vars PROVE EdgesInv'
  OBVIOUS
<1>1. CASE UNCHANGED vars
  BY <1>1 DEF vars, edgeVars, EdgesInv, TypeOK, FifoMatchesEdges, LatestObservation
<1> QED BY <1>1, RecordKeepsInv, InsertKeepsInv, RollOutKeepsInv DEF Next

LEMMA EdgesInvariance == Spec => []EdgesInv
BY InitInv, NextKeepsInv, PTL DEF Spec

\* The roll-out queue of InsertEdgeLocked holds every key with an edge once.
THEOREM QueueInStep == Spec => []FifoMatchesEdges
<1>1. EdgesInv => FifoMatchesEdges
  BY DEF EdgesInv
<1> QED BY <1>1, EdgesInvariance, PTL

\* The table never exceeds max_edges_ by more than the edge being inserted,
\* and not at all when the lock is free.
THEOREM TableBounded == Spec => []EdgesBounded
<1>1. EdgesInv => EdgesBounded
  <2> SUFFICES ASSUME EdgesInv PROVE EdgesBounded
    OBVIOUS
  <2>1. Cardinality(DOMAIN successor) \in Nat
    BY FS_CardinalityType DEF EdgesInv
  <2>2. ASSUME ~Recording PROVE Cardinality(DOMAIN successor) <= MaxEdges
    <3>1. CASE fifo = <<>>
      <4>1. DOMAIN successor = {}
        BY <3>1 DEF EdgesInv, FifoMatchesEdges, Range
      <4> QED BY <4>1, FS_EmptySet, MaxEdgesPositive
    <3>2. CASE fifo # <<>>
      BY <2>1, <2>2, <3>2, MaxEdgesPositive DEF Recording, TooManyEdges
    <3> QED BY <3>1, <3>2
  <2> QED BY <2>1, <2>2 DEF EdgesInv, EdgesBounded
<1> QED BY <1>1, EdgesInvariance, PTL

\* Every edge in the table is the newest observation of its key.
THEOREM NewestKept == Spec => []LatestObservation
<1>1. EdgesInv => LatestObservation
  BY DEF EdgesInv
<1> QED BY <1>1, EdgesInvariance, PTL

\* The three together, as a run of the clients checks them: the table of the
\* successor graph is sound at every edge of every RecordSequence.
THEOREM TableKept == Spec => []TableSound
<1>1. FifoMatchesEdges /\ EdgesBounded /\ LatestObservation => TableSound
  BY DEF TableSound
<1> QED BY <1>1, QueueInStep, TableBounded, NewestKept, PTL

----------------------------------------------------------------------------
(* Loops: what holds before the first turn and is kept by every turn holds   *)
(* after the last, and a loop over n turns has a result.                     *)

\* A non-empty set of numbers has a least member.
LEMMA LeastNumber ==
  ASSUME NEW S \in SUBSET Nat, S # {}
  PROVE  \E n \in S : \A m \in S : n <= m
<1>1. PICK n \in S : \A m \in S : ~(<<m, n>> \in OpToRel(<, Nat))
  BY NatLessThanWellFounded, WFMin
<1>2. \A m \in S : ~(m < n)
  BY <1>1 DEF OpToRel
<1> QED BY <1>2

LEMMA Upwards ==
  ASSUME NEW n \in Nat, NEW T \in SUBSET (0..n), 0 \in T,
         \A i \in 1..n : i - 1 \in T => i \in T
  PROVE  \A i \in 0..n : i \in T
<1> SUFFICES ASSUME NEW x \in 0..n, x \notin T PROVE FALSE
  OBVIOUS
<1> DEFINE missed == {i \in 0..n : i \notin T}
<1>1. missed \in SUBSET Nat /\ missed # {}
  OBVIOUS
<1>2. PICK i \in missed : \A m \in missed : i <= m
  <2> HIDE DEF missed
  <2> QED BY <1>1, LeastNumber
<1>3. i \in 1..n /\ i \notin T
  <2>1. i \in 0..n /\ i \notin T
    BY <1>2
  <2> QED BY <2>1
<1>4. i - 1 \in T
  <2>1. i - 1 \in 0..n /\ ~(i <= i - 1)
    BY <1>3
  <2> QED BY <1>2, <2>1
<1> QED BY <1>3, <1>4

\* The values before the first and after every turn of a loop.
IsLoop(turns, n, X) == turns \in [(1..n) \X X -> X]
IsRun(g, turns, n, X, base) ==
  g \in [0..n -> X] /\ g[0] = base /\ \A i \in 1..n : g[i] = turns[<<i, g[i - 1]>>]

LEMMA LoopResult ==
  ASSUME NEW n \in Nat, NEW X, NEW base \in X, NEW turns, IsLoop(turns, n, X)
  PROVE  \E g : IsRun(g, turns, n, X, base)
<1> USE DEF IsLoop
<1> DEFINE Run(g, m) ==
             g \in [0..m -> X] /\ g[0] = base /\ \A i \in 1..m : g[i] = turns[<<i, g[i - 1]>>]
           T == {m \in 0..n : \E g : Run(g, m)}
<1>1. 0 \in T
  <2> DEFINE z == [i \in 0..0 |-> base]
  <2>1. Run(z, 0)
    OBVIOUS
  <2> HIDE DEF z
  <2> QED BY <2>1
<1>2. ASSUME NEW m \in 1..n, m - 1 \in T PROVE m \in T
  <2>1. PICK g : Run(g, m - 1)
    BY <1>2
  <2> DEFINE h == [i \in 0..m |-> IF i = m THEN turns[<<m, g[m - 1]>>] ELSE g[i]]
  <2>2. g[m - 1] \in X /\ turns[<<m, g[m - 1]>>] \in X
    BY <1>2, <2>1
  <2>3. \A i \in 0..(m - 1) : h[i] = g[i] /\ g[i] \in X
    BY <2>1
  <2>4. h \in [0..m -> X]
    <3>1. ASSUME NEW i \in 0..m PROVE h[i] \in X
      <4>1. i = m \/ i \in 0..(m - 1)
        OBVIOUS
      <4> QED BY <2>2, <2>3, <4>1
    <3> QED BY <3>1
  <2>5. h[0] = base /\ h[m] = turns[<<m, h[m - 1]>>]
    <3>1. 0 \in 0..(m - 1) /\ m - 1 \in 0..(m - 1) /\ m \in 0..m
      OBVIOUS
    <3>2. h[m] = turns[<<m, g[m - 1]>>]
      BY <3>1
    <3> QED BY <2>1, <2>3, <3>1, <3>2
  <2>6. \A i \in 1..m : h[i] = turns[<<i, h[i - 1]>>]
    <3> SUFFICES ASSUME NEW i \in 1..m PROVE h[i] = turns[<<i, h[i - 1]>>]
      OBVIOUS
    <3>1. CASE i = m
      BY <2>5, <3>1
    <3>2. CASE i # m
      <4>1. i \in 1..(m - 1) /\ i \in 0..(m - 1) /\ i - 1 \in 0..(m - 1)
        BY <3>2
      <4> HIDE DEF h
      <4> QED BY <2>1, <2>3, <4>1
    <3> QED BY <3>1, <3>2
  <2> HIDE DEF h
  <2>7. Run(h, m)
    BY <2>4, <2>5, <2>6
  <2> QED BY <2>7
<1>3. n \in T
  <2>1. T \in SUBSET (0..n)
    OBVIOUS
  <2> HIDE DEF T
  <2> QED BY <1>1, <1>2, <2>1, Upwards
<1> QED BY <1>3 DEF IsRun

----------------------------------------------------------------------------
(* What PredictChain and PredictChainMulti return, for every table of edges. *)

\* The loop of PredictChain: one turn, and what holds after i turns.
AlongEdge(head, w) ==
  IF \/ ~w.going
     \/ w.cursor \notin DOMAIN successor
     \/ Wraps(head, w.chain, successor[w.cursor])
    THEN [w EXCEPT !.going = FALSE]
    ELSE LET k == successor[w.cursor]
         IN  [chain |-> Append(w.chain, k), cursor |-> k, going |-> TRUE]

Walks == [chain : Seq(Key), cursor : Key, going : BOOLEAN]

Prior(head, chain, i) == IF i = 1 THEN head ELSE chain[i - 1]

IsPath(head, chain) ==
  /\ head \notin Range(chain)
  /\ \A j \in 1..Len(chain) : /\ Prior(head, chain, j) \in DOMAIN successor
                              /\ chain[j] = successor[Prior(head, chain, j)]

Stops(head, k) == k \notin DOMAIN successor \/ successor[k] = head

WalkedFor(head, w, i) ==
  /\ w \in Walks /\ IsPath(head, w.chain)
  /\ w.cursor = Prior(head, w.chain, Len(w.chain) + 1)
  /\ Len(w.chain) <= i
  /\ w.going => Len(w.chain) = i
  /\ ~w.going => Stops(head, w.cursor)

LEMMA PathGrows ==
  ASSUME NEW head \in Key, NEW s \in Seq(Key), NEW k \in Key, IsPath(head, s), k # head,
         Prior(head, s, Len(s) + 1) \in DOMAIN successor,
         k = successor[Prior(head, s, Len(s) + 1)]
  PROVE  /\ IsPath(head, Append(s, k))
         /\ Prior(head, Append(s, k), Len(s) + 2) = k
<1> DEFINE t == Append(s, k)
<1>1. /\ t \in Seq(Key) /\ Len(t) = Len(s) + 1 /\ Len(s) \in Nat
      /\ DOMAIN t = 1..(Len(s) + 1) /\ DOMAIN s = 1..Len(s)
  OBVIOUS
<1>2. (\A i \in 1..Len(s) : t[i] = s[i]) /\ t[Len(s) + 1] = k
  OBVIOUS
<1> HIDE DEF t
<1>3. head \notin Range(t)
  <2> SUFFICES ASSUME NEW i \in 1..(Len(s) + 1) PROVE t[i] # head
    BY <1>1 DEF Range
  <2>1. CASE i = Len(s) + 1
    BY <1>2, <2>1
  <2>2. CASE i \in 1..Len(s)
    BY <1>1, <1>2, <2>2 DEF IsPath, Range
  <2> QED BY <1>1, <2>1, <2>2
<1>4. \A j \in 1..(Len(s) + 1) : Prior(head, t, j) = Prior(head, s, j)
  <2> SUFFICES ASSUME NEW j \in 1..(Len(s) + 1), j # 1
               PROVE  t[j - 1] = s[j - 1]
    BY DEF Prior
  <2>1. j - 1 \in 1..Len(s)
    BY <1>1
  <2> QED BY <1>2, <2>1
<1>5. ASSUME NEW j \in 1..(Len(s) + 1)
      PROVE  /\ Prior(head, t, j) \in DOMAIN successor
             /\ t[j] = successor[Prior(head, t, j)]
  <2>1. CASE j = Len(s) + 1
    BY <1>2, <1>4, <2>1
  <2>2. CASE j \in 1..Len(s)
    BY <1>2, <1>4, <2>2 DEF IsPath
  <2> QED BY <1>1, <2>1, <2>2
<1>6. Prior(head, t, Len(s) + 2) = k
  <2>1. Len(s) + 2 # 1 /\ (Len(s) + 2) - 1 = Len(s) + 1
    BY <1>1
  <2> QED BY <1>2, <2>1 DEF Prior
<1>7. IsPath(head, t)
  BY <1>1, <1>3, <1>5 DEF IsPath
<1> QED BY <1>6, <1>7 DEF t

LEMMA AlongEdgeType ==
  ASSUME TypeOK, NEW head \in Key, NEW w \in Walks
  PROVE  AlongEdge(head, w) \in Walks
<1>1. /\ w.chain \in Seq(Key) /\ w.cursor \in Key
      /\ [w EXCEPT !.going = FALSE] \in Walks
  BY DEF Walks
<1>2. CASE \/ ~w.going
           \/ w.cursor \notin DOMAIN successor
           \/ Wraps(head, w.chain, successor[w.cursor])
  BY <1>1, <1>2, Zenon DEF AlongEdge
<1>3. CASE ~(\/ ~w.going
             \/ w.cursor \notin DOMAIN successor
             \/ Wraps(head, w.chain, successor[w.cursor]))
  <2> DEFINE k == successor[w.cursor]
             x == [chain |-> Append(w.chain, k), cursor |-> k, going |-> TRUE]
  <2>1. k \in Key
    BY <1>3, EdgeFunctionsDef DEF TypeOK
  <2>2. AlongEdge(head, w) = x
    BY <1>3, Zenon DEF AlongEdge
  <2> HIDE DEF k
  <2>3. x \in Walks
    BY <1>1, <2>1 DEF Walks
  <2> QED BY <2>2, <2>3
<1> QED BY <1>2, <1>3

LEMMA AlongEdgeWalks ==
  ASSUME TypeOK, NEW head \in Key, NEW i \in Nat, NEW w, WalkedFor(head, w, i)
  PROVE  WalkedFor(head, AlongEdge(head, w), i + 1)
<1>1. /\ w.chain \in Seq(Key) /\ w.cursor \in Key /\ w.going \in BOOLEAN
      /\ Len(w.chain) \in Nat /\ w \in Walks
  BY DEF WalkedFor, Walks
<1>2. CASE \/ ~w.going
           \/ w.cursor \notin DOMAIN successor
           \/ Wraps(head, w.chain, successor[w.cursor])
  <2> DEFINE x == [w EXCEPT !.going = FALSE]
  <2>1. AlongEdge(head, w) = x
    BY <1>2, Zenon DEF AlongEdge
  <2>2. x \in Walks /\ x.chain = w.chain /\ x.cursor = w.cursor /\ x.going = FALSE
    BY <1>1 DEF Walks
  <2>3. Stops(head, w.cursor)
    BY <1>1, <1>2 DEF WalkedFor, Stops, Wraps
  <2> HIDE DEF x
  <2> QED BY <1>1, <2>1, <2>2, <2>3 DEF WalkedFor
<1>3. CASE ~(\/ ~w.going
             \/ w.cursor \notin DOMAIN successor
             \/ Wraps(head, w.chain, successor[w.cursor]))
  <2> DEFINE s == w.chain
             k == successor[w.cursor]
             x == [chain |-> Append(s, k), cursor |-> k, going |-> TRUE]
  <2>1. /\ k \in Key /\ k # head /\ w.cursor \in DOMAIN successor
    BY <1>3, EdgeFunctionsDef DEF TypeOK, Wraps
  <2>2. AlongEdge(head, w) = x
    BY <1>3, Zenon DEF AlongEdge
  <2>3. s \in Seq(Key) /\ IsPath(head, s) /\ w.cursor = Prior(head, s, Len(s) + 1)
        /\ Len(s) = i
    BY <1>1, <1>3 DEF WalkedFor
  <2>4. k = successor[Prior(head, s, Len(s) + 1)]
    BY <2>3
  <2> HIDE DEF s, k
  <2>5. /\ IsPath(head, Append(s, k)) /\ Prior(head, Append(s, k), Len(s) + 2) = k
    BY <2>1, <2>3, <2>4, PathGrows
  <2>6. Append(s, k) \in Seq(Key) /\ Len(Append(s, k)) = i + 1
    BY <2>1, <2>3
  <2>7. x \in Walks /\ x.chain = Append(s, k) /\ x.cursor = k /\ x.going = TRUE
    BY <2>1, <2>6 DEF Walks
  <2>8. (i + 1) + 1 = Len(s) + 2 /\ i + 1 <= i + 1
    BY <2>3
  <2> HIDE DEF x
  <2> QED BY <2>2, <2>5, <2>6, <2>7, <2>8 DEF WalkedFor
<1> QED BY <1>2, <1>3

\* After as many turns as the budget has.
LEMMA WalkExact ==
  ASSUME TypeOK, NEW head \in Key, NEW n \in Nat
  PROVE  WalkedFor(head, Walk(head, n), n)
<1> DEFINE base == [chain |-> <<>>, cursor |-> head, going |-> TRUE]
           turns == [x \in (1..n) \X Walks |-> AlongEdge(head, x[2])]
           Body(f, i) == IF i = 0 THEN base ELSE AlongEdge(head, f[i - 1])
           Run(f) == f = [i \in 0..n |-> Body(f, i)]
<1>1. base \in Walks /\ base.chain = <<>> /\ base.cursor = head /\ base.going = TRUE
  BY EmptySeq DEF Walks
<1>2. WalkedFor(head, base, 0)
  <2>1. Len(<<>>) = 0 /\ Range(<<>>) = {} /\ Prior(head, <<>>, 1) = head
    BY DEF Range, Prior
  <2>2. IsPath(head, <<>>)
    BY <2>1 DEF IsPath
  <2> HIDE DEF base
  <2> QED BY <1>1, <2>1, <2>2 DEF WalkedFor
<1>3. IsLoop(turns, n, Walks)
  BY AlongEdgeType DEF IsLoop
<1> HIDE DEF base
<1>4. PICK g : IsRun(g, turns, n, Walks, base)
  <2> HIDE DEF turns
  <2> QED BY <1>1, <1>3, LoopResult
<1>5. Run(g)
  <2>1. ASSUME NEW i \in 0..n PROVE g[i] = Body(g, i)
    <3>1. CASE i = 0
      BY <1>4, <3>1 DEF IsRun
    <3>2. CASE i # 0
      <4>1. i \in 1..n /\ i - 1 \in 0..n
        BY <3>2
      <4>2. g[i - 1] \in Walks
        BY <1>4, <4>1 DEF IsRun
      <4>3. turns[<<i, g[i - 1]>>] = AlongEdge(head, g[i - 1])
        BY <4>1, <4>2
      <4> QED BY <1>4, <3>2, <4>1, <4>3 DEF IsRun
    <3> QED BY <3>1, <3>2
  <2>2. DOMAIN g = 0..n /\ g = [i \in DOMAIN g |-> g[i]]
    BY <1>4 DEF IsRun
  <2> HIDE DEF Body
  <2> QED BY <2>1, <2>2
<1>6. Walk(head, n) = (CHOOSE f : Run(f))[n]
  BY DEF Walk, AlongEdge, base
<1>7. PICK f : Run(f) /\ Walk(head, n) = f[n]
  <2> HIDE DEF Run
  <2> QED BY <1>5, <1>6
<1>8. \A i \in 0..n : f[i] = Body(f, i)
  <2> HIDE DEF Body
  <2> QED BY <1>7
<1> DEFINE T == {m \in 0..n : WalkedFor(head, f[m], m)}
<1>9. 0 \in T
  BY <1>2, <1>8
<1>10. ASSUME NEW m \in 1..n, m - 1 \in T PROVE m \in T
  <2>1. m \in 0..n /\ f[m] = AlongEdge(head, f[m - 1]) /\ m - 1 \in Nat /\ (m - 1) + 1 = m
    BY <1>8
  <2>2. WalkedFor(head, f[m - 1], m - 1)
    BY <1>10
  <2>3. WalkedFor(head, f[m], (m - 1) + 1)
    BY <2>1, <2>2, AlongEdgeWalks
  <2> QED BY <2>1, <2>3
<1>11. n \in T
  <2>1. T \in SUBSET (0..n) /\ n \in 0..n
    OBVIOUS
  <2> HIDE DEF T
  <2> QED BY <1>9, <1>10, <2>1, Upwards
<1> QED BY <1>7, <1>11

LEMMA ChainIsExact ==
  ASSUME TypeOK, NEW n \in Nat
  PROVE  ChainExact(n)
<1> SUFFICES ASSUME NEW head \in Key
    PROVE  LET chain == PredictChain(head, n)
               path == <<head>> \o chain
               end == Last(path)
           IN  /\ head \notin Range(chain)
               /\ \A i \in DOMAIN chain :
                    path[i] \in DOMAIN successor /\ chain[i] = successor[path[i]]
               /\ Len(chain) <= n
               /\ Len(chain) < n => end \notin DOMAIN successor \/ successor[end] = head
  BY DEF ChainExact
<1> DEFINE w == Walk(head, n)
           chain == PredictChain(head, n)
           path == <<head>> \o chain
<1>1. WalkedFor(head, w, n) /\ chain = w.chain
  BY WalkExact DEF PredictChain
<1> HIDE DEF w, chain
<1>2. /\ chain \in Seq(Key) /\ Len(chain) \in Nat /\ DOMAIN chain = 1..Len(chain)
      /\ w.going \in BOOLEAN
  BY <1>1 DEF WalkedFor, Walks
<1>3. Len(path) = Len(chain) + 1
      /\ \A i \in 1..(Len(chain) + 1) : path[i] = Prior(head, chain, i)
  <2>1. <<head>> \in Seq(Key) /\ Len(<<head>>) = 1 /\ <<head>>[1] = head
    OBVIOUS
  <2>2. Len(path) = Len(chain) + 1 /\ DOMAIN path = 1..(Len(chain) + 1)
    BY <1>2, <2>1
  <2>3. ASSUME NEW i \in 1..(Len(chain) + 1) PROVE path[i] = Prior(head, chain, i)
    BY <1>2, <2>1, <2>2 DEF Prior
  <2> QED BY <2>2, <2>3
<1>4. Last(path) = Prior(head, chain, Len(chain) + 1)
  BY <1>2, <1>3 DEF Last
<1> HIDE DEF path
<1>5. ASSUME NEW i \in DOMAIN chain
      PROVE  path[i] \in DOMAIN successor /\ chain[i] = successor[path[i]]
  <2>1. i \in 1..Len(chain) /\ i \in 1..(Len(chain) + 1)
    BY <1>2
  <2> QED BY <1>1, <1>3, <2>1 DEF WalkedFor, IsPath
<1>6. ASSUME Len(chain) < n PROVE Stops(head, Last(path))
  <2>1. ~w.going
    BY <1>1, <1>2, <1>6 DEF WalkedFor
  <2> QED BY <1>1, <1>4, <2>1 DEF WalkedFor
<1>7. head \notin Range(chain) /\ Len(chain) <= n
  BY <1>1 DEF WalkedFor, IsPath
<1> QED BY <1>5, <1>6, <1>7 DEF chain, path, Stops

LEMMA ChainType ==
  ASSUME TypeOK, NEW head \in Key, NEW n \in Nat
  PROVE  PredictChain(head, n) \in Seq(Key)
BY WalkExact DEF PredictChain, WalkedFor, Walks

\* Keys in the order in which they were first met.
LEMMA UnseenAdded ==
  ASSUME NEW s \in Seq(Key), NEW k \in Key, IsInjective(s)
  PROVE  /\ AddUnseen(s, k) \in Seq(Key) /\ IsInjective(AddUnseen(s, k))
         /\ Range(AddUnseen(s, k)) = Range(s) \cup {k}
<1>1. CASE k \in Range(s)
  BY <1>1 DEF AddUnseen
<1>2. CASE k \notin Range(s)
  <2>1. AddUnseen(s, k) = Append(s, k)
    BY <1>2 DEF AddUnseen
  <2>2. \A i, j \in DOMAIN s : s[i] = s[j] => i = j
    BY DEF IsInjective
  <2>3. /\ Append(s, k) \in Seq(Key)
        /\ Range(Append(s, k)) = Range(s) \cup {k}
        /\ \A i, j \in DOMAIN Append(s, k) :
              Append(s, k)[i] = Append(s, k)[j] => i = j
    BY <1>2, <2>2, AppendDistinct
  <2> QED BY <2>1, <2>3 DEF IsInjective
<1> QED BY <1>1, <1>2

\* The keys of the first n elements of a list.
FirstOf(s, n) == {s[i] : i \in 1..n}

LEMMA FirstOfNext ==
  ASSUME NEW s, NEW n \in Nat
  PROVE  FirstOf(s, n + 1) = FirstOf(s, n) \cup {s[n + 1]} /\ FirstOf(s, 0) = {}
BY DEF FirstOf

LEMMA FirstOfAll ==
  ASSUME NEW S, NEW s \in Seq(S)
  PROVE  FirstOf(s, Len(s)) = Range(s)
BY DEF FirstOf, Range

Distinct == {s \in Seq(Key) : IsInjective(s)}

LEMMA MergeAdds ==
  ASSUME NEW merged \in Distinct, NEW chain \in Seq(Key)
  PROVE  /\ MergeChain(merged, chain) \in Distinct
         /\ Range(MergeChain(merged, chain)) = Range(merged) \cup Range(chain)
<1> DEFINE n == Len(chain)
           turns == [x \in (1..n) \X Distinct |-> AddUnseen(x[2], chain[x[1]])]
           Body(f, i) == IF i = 0 THEN merged ELSE AddUnseen(f[i - 1], chain[i])
           Run(f) == f = [i \in 0..n |-> Body(f, i)]
<1>1. n \in Nat /\ \A i \in 1..n : chain[i] \in Key
  OBVIOUS
<1>2. ASSUME NEW s \in Distinct, NEW i \in 1..n
      PROVE  /\ AddUnseen(s, chain[i]) \in Distinct
             /\ Range(AddUnseen(s, chain[i])) = Range(s) \cup {chain[i]}
  BY <1>1, UnseenAdded DEF Distinct
<1>3. IsLoop(turns, n, Distinct)
  <2> HIDE DEF n
  <2> QED BY <1>2 DEF IsLoop
<1>4. PICK g : IsRun(g, turns, n, Distinct, merged)
  <2> HIDE DEF turns, n
  <2> QED BY <1>1, <1>3, LoopResult
<1>5. Run(g)
  <2>1. ASSUME NEW i \in 0..n PROVE g[i] = Body(g, i)
    <3> HIDE DEF n
    <3>1. CASE i = 0
      BY <1>4, <3>1 DEF IsRun
    <3>2. CASE i # 0
      <4>1. i \in 1..n /\ i - 1 \in 0..n
        BY <1>1, <3>2
      <4>2. g[i - 1] \in Distinct
        BY <1>4, <4>1 DEF IsRun
      <4>3. turns[<<i, g[i - 1]>>] = AddUnseen(g[i - 1], chain[i])
        BY <4>1, <4>2
      <4> QED BY <1>4, <3>2, <4>1, <4>3 DEF IsRun
    <3> QED BY <3>1, <3>2
  <2>2. DOMAIN g = 0..n /\ g = [i \in DOMAIN g |-> g[i]]
    BY <1>4 DEF IsRun
  <2> HIDE DEF Body, n
  <2> QED BY <2>1, <2>2
<1>6. MergeChain(merged, chain) = (CHOOSE f : Run(f))[n]
  BY DEF MergeChain
<1>7. PICK f : Run(f) /\ MergeChain(merged, chain) = f[n]
  <2> HIDE DEF Run
  <2> QED BY <1>5, <1>6
<1>8. \A i \in 0..n : f[i] = Body(f, i)
  <2> HIDE DEF Body, n
  <2> QED BY <1>7
<1>n. FirstOf(chain, n) = Range(chain)
  BY FirstOfAll
<1> HIDE DEF n
<1> DEFINE T == {m \in 0..n : f[m] \in Distinct /\ Range(f[m]) = Range(merged) \cup FirstOf(chain, m)}
<1>9. 0 \in T
  BY <1>1, <1>8, FirstOfNext
<1>10. ASSUME NEW m \in 1..n, m - 1 \in T PROVE m \in T
  <2>1. /\ m \in 0..n /\ f[m] = AddUnseen(f[m - 1], chain[m])
        /\ m - 1 \in Nat /\ (m - 1) + 1 = m
    BY <1>1, <1>8
  <2>2. f[m - 1] \in Distinct /\ Range(f[m - 1]) = Range(merged) \cup FirstOf(chain, m - 1)
    BY <1>10
  <2>3. FirstOf(chain, m) = FirstOf(chain, m - 1) \cup {chain[m]}
    <3>1. FirstOf(chain, (m - 1) + 1) = FirstOf(chain, m - 1) \cup {chain[(m - 1) + 1]}
      BY <2>1, FirstOfNext
    <3> QED BY <2>1, <3>1
  <2>4. f[m] \in Distinct /\ Range(f[m]) = Range(f[m - 1]) \cup {chain[m]}
    BY <1>2, <2>1, <2>2
  <2> QED BY <2>1, <2>2, <2>3, <2>4
<1>11. n \in T
  <2>1. T \in SUBSET (0..n) /\ n \in 0..n
    BY <1>1
  <2> HIDE DEF T
  <2> QED BY <1>1, <1>9, <1>10, <2>1, Upwards
<1> QED BY <1>7, <1>11, <1>n

\* The keys of the chains of the first m anchors.
ChainsOf(anchors, n, m) == UNION {Range(PredictChain(anchors[i], n)) : i \in 1..m}

LEMMA ChainsOfNext ==
  ASSUME NEW s, NEW n, NEW m \in Nat
  PROVE  /\ ChainsOf(s, n, m + 1) = ChainsOf(s, n, m) \cup Range(PredictChain(s[m + 1], n))
         /\ ChainsOf(s, n, 0) = {}
<1> DEFINE C(i) == Range(PredictChain(s[i], n))
<1>1. 1..(m + 1) = 1..m \cup {m + 1} /\ 1..0 = {}
  OBVIOUS
<1> HIDE DEF C
<1>2. UNION {C(i) : i \in 1..(m + 1)} = (UNION {C(i) : i \in 1..m}) \cup C(m + 1)
  <2>1. ASSUME NEW x
        PROVE  (\E i \in 1..(m + 1) : x \in C(i)) <=> (\E i \in 1..m : x \in C(i)) \/ x \in C(m + 1)
    BY <1>1
  <2> QED BY <2>1
<1>3. UNION {C(i) : i \in 1..0} = {}
  BY <1>1
<1> QED BY <1>2, <1>3 DEF C, ChainsOf

LEMMA ChainsOfAll ==
  ASSUME NEW S, NEW s \in Seq(S), NEW n
  PROVE  ChainsOf(s, n, Len(s)) = UNION {Range(PredictChain(a, n)) : a \in Range(s)}
<1> DEFINE C(a) == Range(PredictChain(a, n))
<1> HIDE DEF C
<1>1. UNION {C(s[i]) : i \in 1..Len(s)} = UNION {C(a) : a \in Range(s)}
  BY DEF Range
<1> QED BY <1>1 DEF C, ChainsOf

LEMMA MultiMerges ==
  ASSUME TypeOK, NEW anchors \in Seq(Key), NEW budget \in Nat
  PROVE  MultiIsUnion(anchors, budget) /\ PredictChainMulti(anchors, budget) \in Distinct
<1> DEFINE n == Len(anchors)
           C(i) == PredictChain(anchors[i], budget)
           turns == [x \in (1..n) \X Distinct |-> MergeChain(x[2], C(x[1]))]
           Body(f, i) == IF i = 0 THEN <<>> ELSE MergeChain(f[i - 1], C(i))
           Run(f) == f = [i \in 0..n |-> Body(f, i)]
<1>1. n \in Nat /\ \A i \in 1..n : C(i) \in Seq(Key)
  <2>1. n \in Nat /\ \A i \in 1..n : anchors[i] \in Key
    OBVIOUS
  <2> QED BY <2>1, ChainType
<1>2. ASSUME NEW s \in Distinct, NEW i \in 1..n
      PROVE  /\ MergeChain(s, C(i)) \in Distinct
             /\ Range(MergeChain(s, C(i))) = Range(s) \cup Range(C(i))
  <2> HIDE DEF C
  <2> QED BY <1>1, MergeAdds
<1>b. <<>> \in Distinct /\ Range(<<>>) = {}
  BY EmptySeq DEF Distinct, IsInjective, Range
<1>3. IsLoop(turns, n, Distinct)
  <2> HIDE DEF n, C
  <2> QED BY <1>2 DEF IsLoop
<1>4. PICK g : IsRun(g, turns, n, Distinct, <<>>)
  <2> HIDE DEF turns, n
  <2> QED BY <1>1, <1>b, <1>3, LoopResult
<1>5. Run(g)
  <2>1. ASSUME NEW i \in 0..n PROVE g[i] = Body(g, i)
    <3> HIDE DEF n, C
    <3>1. CASE i = 0
      BY <1>4, <3>1 DEF IsRun
    <3>2. CASE i # 0
      <4>1. i \in 1..n /\ i - 1 \in 0..n
        BY <1>1, <3>2
      <4>2. g[i - 1] \in Distinct
        BY <1>4, <4>1 DEF IsRun
      <4>3. turns[<<i, g[i - 1]>>] = MergeChain(g[i - 1], C(i))
        BY <4>1, <4>2
      <4> QED BY <1>4, <3>2, <4>1, <4>3 DEF IsRun
    <3> QED BY <3>1, <3>2
  <2>2. DOMAIN g = 0..n /\ g = [i \in DOMAIN g |-> g[i]]
    BY <1>4 DEF IsRun
  <2> HIDE DEF Body, n
  <2> QED BY <2>1, <2>2
<1>6. PredictChainMulti(anchors, budget) = (CHOOSE f : Run(f))[n]
  BY DEF PredictChainMulti
<1>7. PICK f : Run(f) /\ PredictChainMulti(anchors, budget) = f[n]
  <2> HIDE DEF Run
  <2> QED BY <1>5, <1>6
<1>8. \A i \in 0..n : f[i] = Body(f, i)
  <2> HIDE DEF Body, n
  <2> QED BY <1>7
<1>n. ChainsOf(anchors, budget, n) = UNION {Range(PredictChain(a, budget)) : a \in Range(anchors)}
  BY ChainsOfAll
<1>c. /\ \A m \in Nat : ChainsOf(anchors, budget, m + 1) =
                          ChainsOf(anchors, budget, m) \cup Range(C(m + 1))
      /\ ChainsOf(anchors, budget, 0) = {}
  BY ChainsOfNext
<1> HIDE DEF n, C
<1> DEFINE T == {m \in 0..n : f[m] \in Distinct /\ Range(f[m]) = ChainsOf(anchors, budget, m)}
<1>9. 0 \in T
  <2>1. 0 \in 0..n /\ f[0] = <<>>
    BY <1>1, <1>8
  <2> QED BY <2>1, <1>b, <1>c
<1>10. ASSUME NEW m \in 1..n, m - 1 \in T PROVE m \in T
  <2>1. /\ m \in 0..n /\ f[m] = MergeChain(f[m - 1], C(m))
        /\ m - 1 \in Nat /\ (m - 1) + 1 = m
    BY <1>1, <1>8
  <2>2. f[m - 1] \in Distinct /\ Range(f[m - 1]) = ChainsOf(anchors, budget, m - 1)
    BY <1>10
  <2>3. ChainsOf(anchors, budget, m) = ChainsOf(anchors, budget, m - 1) \cup Range(C(m))
    <3>1. ChainsOf(anchors, budget, (m - 1) + 1) =
            ChainsOf(anchors, budget, m - 1) \cup Range(C((m - 1) + 1))
      BY <2>1, <1>c
    <3> QED BY <2>1, <3>1
  <2>4. f[m] \in Distinct /\ Range(f[m]) = Range(f[m - 1]) \cup Range(C(m))
    BY <1>2, <2>1, <2>2
  <2> QED BY <2>1, <2>2, <2>3, <2>4
<1>11. n \in T
  <2>1. T \in SUBSET (0..n) /\ n \in 0..n
    BY <1>1
  <2> HIDE DEF T
  <2> QED BY <1>1, <1>9, <1>10, <2>1, Upwards
<1> QED BY <1>7, <1>11, <1>n DEF MultiIsUnion, Distinct

----------------------------------------------------------------------------
(* The invariant *)

IsBlock(b) ==
  b = [payload |-> b.payload, tier |-> b.tier, tenant |-> b.tenant, count |-> b.count,
       ts |-> b.ts, freq |-> b.freq, inMain |-> b.inMain]

\* An entry of an index of tier t is that of a block that is there.
Entry(e, t) ==
  e[2] \in Key /\ blocks[e[2]].tier = t /\ e = <<blocks[e[2]].ts, e[2]>>

\* The part of the store's invariant its clients rest on: a victim is a block
\* the store holds.
Indexed ==
  /\ blocks = [k \in Key |-> blocks[k]] /\ \A k \in Key : IsBlock(blocks[k])
  /\ \A t \in Store!Tier : \A e \in victimIndex[t] : t # Store!Fastest /\ Entry(e, t)
  /\ Store!QuotaEnabled =>
       \A t \in Store!Tier : \A n \in Tenant : \A e \in tenantIndex[t][n] :
         Entry(e, t) /\ blocks[e[2]].tenant = n

IsRequest(r) ==
  r = [kind |-> r.kind, at |-> r.at, pos |-> r.pos, keys |-> r.keys, tensors |-> r.tensors,
       tenant |-> r.tenant, loaded |-> r.loaded, missing |-> r.missing, seen |-> r.seen]

AtPos(r) == r.pos <= Len(r.keys)
KeyAt(r) == r.keys[r.pos]

\* The calls a request of each kind makes.
Course(r, c) ==
  \/ r.kind = "none" /\ r.at \in {"none", "record"} /\ (c # "caller" => r.at = "none")
  \/ r.kind = "store" /\ c = "connector" /\ r.at \in {"put", "register", "record"}
  \/ r.kind = "load" /\ c = "connector" /\ r.at \in {"prefetch", "chain", "get"}
  \/ /\ r.kind = "replay" /\ c \in {"replay", "replay_pair"}
     /\ r.at \in {"chain", "exists", "get", "put", "record"}

\* Keys that were written: those a store or a replay has passed, and the one
\* that is being registered or that the replay found.
Written(r, acc) ==
  /\ r.kind \in {"store", "replay"} =>
       \A j \in 1..Len(r.keys) : j < r.pos => acc[r.keys[j]] # {}
  /\ r.at = "register" \/ (r.kind = "replay" /\ r.at = "get")
       => AtPos(r) /\ acc[KeyAt(r)] # {}

\* What load_kv has found so far.
Accounted(r, acc) ==
  LET done == [i \in 1..(r.pos - 1) |-> r.keys[i]]
  IN  /\ DOMAIN r.loaded \cup r.missing = Range(done)
      /\ DOMAIN r.loaded \cap r.missing = {}
      /\ \A k \in DOMAIN r.loaded : \E w \in acc[k] : w.payload = r.loaded[k]

\* Request r of client c when acc was accepted.
RequestOK(r, acc, c) ==
  /\ IsRequest(r) /\ Course(r, c)
  /\ r.keys \in BlockLists /\ r.pos \in Nat \ {0}
  /\ r.kind = "load" => r.pos <= Len(r.keys) + 1 /\ Accounted(r, acc)
  /\ Written(r, acc)

\* A request whose call is inside the store.
CallOK(r, acc) ==
  /\ r.at = "get" => AtPos(r)
  /\ r.at = "put" => AtPos(r) /\ acc[KeyAt(r)] # {}

Threads ==
  /\ req = [t \in Thread |-> req[t]]
  /\ \A t \in Thread : /\ RequestOK(req[t], accepted, client)
                       /\ holder = t => CallOK(req[t], accepted)

Inside ==
  /\ holder \in Thread \cup {NoThread}
  /\ holder = NoThread => op = "idle"

\* What the store holds was accepted with that content.
Backed ==
  /\ accepted = [k \in Key |-> accepted[k]]
  /\ \A k \in Resident : \E w \in accepted[k] : w.payload = blocks[k].payload

\* The sequence that is being recorded was stored.
RecordedStored ==
  client # "caller" => \A j \in 1..Len(todo) : accepted[todo[j]] # {}

\* A thread in get is answered with a content of its key.
Answered ==
  \A t \in Thread : holder = t /\ req[t].at = "get" =>
    /\ op = "Read" => serving = <<KeyOf(t)>>
    /\ \/ op # "idle" \/ ret.payload = NoPayload
       \/ \E w \in accepted[KeyOf(t)] : w.payload = ret.payload

ConnectorInv ==
  /\ Indexed /\ Inside /\ Threads /\ Backed /\ Answered
  /\ RecordedStored /\ ChainsWereStored /\ IndexCoversStore

----------------------------------------------------------------------------
(* The store under its clients *)

\* The store keeps no block it did not have, and changes no content.
Shrinks ==
  \A j \in Key : blocks'[j].tier # Store!NoTier =>
    blocks[j].tier # Store!NoTier /\ blocks'[j].payload = blocks[j].payload

\* Resettle replaces one block and erases and inserts its index entries.
LEMMA ResettleIndexed ==
  ASSUME Indexed, NEW k \in Key, NEW b, IsBlock(b), Store!Resettle(k, b)
  PROVE  /\ Indexed' /\ blocks'[k] = b
         /\ \A j \in Key \ {k} : blocks'[j] = blocks[j]
<1>1. blocks' = [blocks EXCEPT ![k] = b] /\ blocks = [j \in Key |-> blocks[j]]
  BY DEF Indexed, Store!Resettle
<1>2. /\ blocks' = [j \in Key |-> blocks'[j]] /\ blocks'[k] = b
      /\ \A j \in Key \ {k} : blocks'[j] = blocks[j]
  BY <1>1
<1>3. \A j \in Key : IsBlock(blocks'[j])
  BY <1>2 DEF Indexed
<1>4. ASSUME NEW t \in Store!Tier, NEW e \in victimIndex'[t]
      PROVE  t # Store!Fastest /\ Entry(e, t)'
  <2>1. \/ e = <<b.ts, k>> /\ b.tier = t /\ t # Store!Fastest
        \/ /\ e \in victimIndex[t]
           /\ ~(blocks[k].tier = t /\ t # Store!Fastest /\ e = <<blocks[k].ts, k>>)
    BY <1>4 DEF Store!Resettle, Store!IndexAfter
  <2>2. CASE e = <<b.ts, k>> /\ b.tier = t /\ t # Store!Fastest
    BY <1>2, <2>2 DEF Entry
  <2>3. CASE /\ e \in victimIndex[t]
             /\ ~(blocks[k].tier = t /\ t # Store!Fastest /\ e = <<blocks[k].ts, k>>)
    <3>1. t # Store!Fastest /\ Entry(e, t)
      BY <2>3 DEF Indexed
    <3>2. e[2] # k
      BY <2>3, <3>1 DEF Entry
    <3> QED BY <1>2, <3>1, <3>2 DEF Entry
  <2> QED BY <2>1, <2>2, <2>3
<1>5. ASSUME Store!QuotaEnabled, NEW t \in Store!Tier, NEW n \in Tenant,
             NEW e \in tenantIndex'[t][n]
      PROVE  Entry(e, t)' /\ blocks'[e[2]].tenant = n
  <2>1. \/ e = <<b.ts, k>> /\ b.tier = t /\ b.tenant = n
        \/ /\ e \in tenantIndex[t][n]
           /\ ~(blocks[k].tier = t /\ blocks[k].tenant = n /\ e = <<blocks[k].ts, k>>)
    BY <1>5 DEF Store!Resettle, Store!AccountIndexAfter
  <2>2. CASE e = <<b.ts, k>> /\ b.tier = t /\ b.tenant = n
    BY <1>2, <2>2 DEF Entry
  <2>3. CASE /\ e \in tenantIndex[t][n]
             /\ ~(blocks[k].tier = t /\ blocks[k].tenant = n /\ e = <<blocks[k].ts, k>>)
    <3>1. Entry(e, t) /\ blocks[e[2]].tenant = n
      BY <1>5, <2>3 DEF Indexed
    <3>2. e[2] # k
      BY <2>3, <3>1 DEF Entry
    <3> QED BY <1>2, <3>1, <3>2 DEF Entry
  <2> QED BY <2>1, <2>2, <2>3
<1> QED BY <1>2, <1>3, <1>4, <1>5 DEF Indexed

\* Records of the store with one field written over.
LEMMA FieldWritten ==
  ASSUME NEW b, IsBlock(b), NEW v
  PROVE  /\ IsBlock([b EXCEPT !.tier = v]) /\ [b EXCEPT !.tier = v].payload = b.payload
         /\ IsBlock([b EXCEPT !.ts = v]) /\ [b EXCEPT !.ts = v].payload = b.payload
         /\ IsBlock([b EXCEPT !.count = v]) /\ [b EXCEPT !.count = v].payload = b.payload
<1>1. /\ IsBlock([b EXCEPT !.tier = v]) /\ [b EXCEPT !.tier = v].payload = b.payload
  BY DEF IsBlock
<1>2. /\ IsBlock([b EXCEPT !.ts = v]) /\ [b EXCEPT !.ts = v].payload = b.payload
  BY DEF IsBlock
<1>3. /\ IsBlock([b EXCEPT !.count = v]) /\ [b EXCEPT !.count = v].payload = b.payload
  BY DEF IsBlock
<1> QED BY <1>1, <1>2, <1>3

\* The fields of the S3-FIFO queues leave the rest of the record.
LEMMA QueueFieldWritten ==
  ASSUME NEW b, IsBlock(b), NEW v
  PROVE  /\ IsBlock([b EXCEPT !.freq = v]) /\ [b EXCEPT !.freq = v].payload = b.payload
         /\ [b EXCEPT !.freq = v].ts = b.ts /\ [b EXCEPT !.freq = v].tier = b.tier
         /\ [b EXCEPT !.freq = v].tenant = b.tenant
         /\ IsBlock([b EXCEPT !.inMain = v]) /\ [b EXCEPT !.inMain = v].payload = b.payload
         /\ [b EXCEPT !.inMain = v].ts = b.ts /\ [b EXCEPT !.inMain = v].tier = b.tier
         /\ [b EXCEPT !.inMain = v].tenant = b.tenant
<1>1. /\ IsBlock([b EXCEPT !.freq = v]) /\ [b EXCEPT !.freq = v].payload = b.payload
      /\ [b EXCEPT !.freq = v].ts = b.ts /\ [b EXCEPT !.freq = v].tier = b.tier
      /\ [b EXCEPT !.freq = v].tenant = b.tenant
  BY DEF IsBlock
<1>2. /\ IsBlock([b EXCEPT !.inMain = v]) /\ [b EXCEPT !.inMain = v].payload = b.payload
      /\ [b EXCEPT !.inMain = v].ts = b.ts /\ [b EXCEPT !.inMain = v].tier = b.tier
      /\ [b EXCEPT !.inMain = v].tenant = b.tenant
  BY DEF IsBlock
<1> QED BY <1>1, <1>2

LEMMA DemotedBlock ==
  ASSUME NEW b, IsBlock(b), NEW t, NEW n
  PROVE  /\ IsBlock([b EXCEPT !.tier = t, !.ts = n, !.freq = 0, !.inMain = FALSE])
         /\ [b EXCEPT !.tier = t, !.ts = n, !.freq = 0, !.inMain = FALSE].payload = b.payload
<1> DEFINE x == [b EXCEPT !.tier = t]
           y == [x EXCEPT !.ts = n]
           z == [y EXCEPT !.freq = 0]
<1>1. IsBlock(x) /\ x.payload = b.payload
  BY FieldWritten
<1>2. [b EXCEPT !.tier = t, !.ts = n, !.freq = 0, !.inMain = FALSE] = [z EXCEPT !.inMain = FALSE]
  OBVIOUS
<1> HIDE DEF x
<1>3. IsBlock(y) /\ y.payload = b.payload
  BY <1>1, FieldWritten
<1> HIDE DEF y
<1>4. IsBlock(z) /\ z.payload = b.payload
  BY <1>3, QueueFieldWritten
<1> HIDE DEF z
<1> QED BY <1>2, <1>4, QueueFieldWritten

LEMMA TouchedBlock ==
  ASSUME NEW b, IsBlock(b)
  PROVE  IsBlock(Store!Touched(b)) /\ Store!Touched(b).payload = b.payload
<1> DEFINE x == [b EXCEPT !.count = @ + 1]
<1>1. IsBlock(x) /\ x.payload = b.payload
  BY FieldWritten
<1>2. Store!Touched(b) = [x EXCEPT !.ts = clock + 1]
  BY DEF Store!Touched
<1> HIDE DEF x
<1>3. IsBlock([x EXCEPT !.ts = clock + 1]) /\ [x EXCEPT !.ts = clock + 1].payload = x.payload
  BY <1>1, FieldWritten
<1> QED BY <1>1, <1>2, <1>3, Zenon

LEMMA PromotedBlock ==
  ASSUME NEW b, IsBlock(b), NEW t
  PROVE  /\ IsBlock([b EXCEPT !.tier = t, !.freq = 0, !.inMain = TRUE])
         /\ [b EXCEPT !.tier = t, !.freq = 0, !.inMain = TRUE].payload = b.payload
<1> DEFINE x == [b EXCEPT !.tier = t]
           y == [x EXCEPT !.freq = 0]
<1>1. IsBlock(x) /\ x.payload = b.payload
  BY FieldWritten
<1>2. [b EXCEPT !.tier = t, !.freq = 0, !.inMain = TRUE] = [y EXCEPT !.inMain = TRUE]
  OBVIOUS
<1> HIDE DEF x
<1>3. IsBlock(y) /\ y.payload = b.payload
  BY <1>1, QueueFieldWritten
<1> HIDE DEF y
<1> QED BY <1>2, <1>3, QueueFieldWritten

LEMMA RequeuedBlock ==
  ASSUME NEW b, IsBlock(b)
  PROVE  LET z == [b EXCEPT !.inMain = TRUE, !.freq = 0]
         IN  /\ IsBlock(z) /\ z.payload = b.payload /\ z.ts = b.ts
             /\ z.tier = b.tier /\ z.tenant = b.tenant
<1> DEFINE x == [b EXCEPT !.inMain = TRUE]
<1>1. /\ IsBlock(x) /\ x.payload = b.payload /\ x.ts = b.ts
      /\ x.tier = b.tier /\ x.tenant = b.tenant
  BY QueueFieldWritten
<1>2. [b EXCEPT !.inMain = TRUE, !.freq = 0] = [x EXCEPT !.freq = 0]
  OBVIOUS
<1> HIDE DEF x
<1> DEFINE y == [x EXCEPT !.freq = 0]
<1>3. /\ IsBlock(y) /\ y.payload = x.payload /\ y.ts = x.ts
      /\ y.tier = x.tier /\ y.tenant = x.tenant
  BY <1>1, QueueFieldWritten
<1> HIDE DEF y
<1> QED BY <1>1, <1>2, <1>3 DEF y

\* A record that is settled with the content of a block that was there.
LEMMA ResettleShrinks ==
  ASSUME Indexed, NEW k \in Resident, NEW b, IsBlock(b), Store!Resettle(k, b),
         b.payload = blocks[k].payload \/ b.tier = Store!NoTier
  PROVE  Indexed' /\ Shrinks
<1>1. k \in Key /\ blocks[k].tier # Store!NoTier
  BY DEF Resident, Store!Resident
<1>2. /\ Indexed' /\ blocks'[k] = b
      /\ \A j \in Key \ {k} : blocks'[j] = blocks[j]
  BY <1>1, ResettleIndexed
<1> QED BY <1>1, <1>2 DEF Shrinks

\* A change of a record that leaves its place, tenant and recency.
LEMMA InPlaceShrinks ==
  ASSUME Indexed, NEW k \in Resident, NEW b, IsBlock(b),
         blocks' = [blocks EXCEPT ![k] = b], UNCHANGED <<victimIndex, tenantIndex>>,
         b.payload = blocks[k].payload, b.tier = blocks[k].tier,
         b.ts = blocks[k].ts, b.tenant = blocks[k].tenant
  PROVE  Indexed' /\ Shrinks
<1>1. k \in Key /\ blocks = [j \in Key |-> blocks[j]]
  BY DEF Resident, Store!Resident, Indexed
<1>2. /\ blocks' = [j \in Key |-> blocks'[j]] /\ blocks'[k] = b
      /\ \A j \in Key \ {k} : blocks'[j] = blocks[j]
  BY <1>1
<1>3. \A j \in Key : IsBlock(blocks'[j])
  BY <1>2 DEF Indexed
<1>4. \A j \in Key : /\ blocks'[j].tier = blocks[j].tier /\ blocks'[j].ts = blocks[j].ts
                     /\ blocks'[j].tenant = blocks[j].tenant
                     /\ blocks'[j].payload = blocks[j].payload
  BY <1>2
<1>5. \A e, t : Entry(e, t) => Entry(e, t)'
  BY <1>4 DEF Entry
<1>6. \A e, t : Entry(e, t) => e[2] \in Key
  BY DEF Entry
<1>7. Shrinks
  BY <1>4 DEF Shrinks
<1> QED BY <1>2, <1>3, <1>4, <1>5, <1>6, <1>7 DEF Indexed

\* Nothing of the store changes.
LEMMA QuietShrinks ==
  ASSUME Indexed, UNCHANGED Store!store
  PROVE  Indexed' /\ Shrinks
BY DEF Store!store, Indexed, Entry, Shrinks

LEMMA EvictShrinks ==
  ASSUME Indexed, NEW v \in Resident, NEW t, Store!Evict(v, t)
  PROVE  Indexed' /\ Shrinks /\ UNCHANGED <<op, serving, ret>>
<1> DEFINE slower == Store!NextSlowerConfigured(t)
           demoted == [blocks[v] EXCEPT !.tier = slower, !.ts = clock + 1,
                                        !.freq = 0, !.inMain = FALSE]
<1>1. IsBlock(blocks[v])
  BY DEF Indexed, Resident, Store!Resident
<1>2. IsBlock(demoted) /\ demoted.payload = blocks[v].payload
  BY <1>1, DemotedBlock
<1>3. IsBlock(Store!NoBlock) /\ Store!NoBlock.tier = Store!NoTier
  BY DEF IsBlock, Store!NoBlock
<1>4. /\ Store!Resettle(v, demoted) \/ Store!Resettle(v, Store!NoBlock)
      /\ UNCHANGED <<op, serving, ret>>
  BY DEF Store!Evict
<1> HIDE DEF demoted
<1> QED BY <1>2, <1>3, <1>4, ResettleShrinks

\* The victims of the indexes are there.
LEMMA VictimsResident ==
  ASSUME Indexed, NEW t \in Store!Tier
  PROVE  Store!QuotaVictims(t) \cup Store!LruVictims(t) \subseteq Resident
<1>1. \A e : Entry(e, t) => e[2] \in Resident
  BY DEF Entry, Resident, Store!Resident, Store!Tier, Store!NoTier
<1>2. \A e \in Store!Oldest(victimIndex[t]) : Entry(e, t)
  BY DEF Indexed, Store!Oldest
<1>3. ASSUME Store!QuotaEnabled, NEW n \in Tenant
      PROVE  \A e \in Store!Oldest(tenantIndex[t][n]) : Entry(e, t)
  BY <1>3 DEF Indexed, Store!Oldest
<1>4. Store!LruVictims(t) \subseteq Resident
  BY <1>1, <1>2 DEF Store!LruVictims
<1>5. Store!QuotaVictims(t) \subseteq Resident
  BY <1>1, <1>3 DEF Store!QuotaVictims, Store!WorstTenants
<1> QED BY <1>4, <1>5

\* PlaceLocked, for a write and for a prefetch.
LEMMA PlaceSettles ==
  ASSUME Indexed, NEW k \in Key, NEW p, NEW t, NEW n, Store!PlaceLocked(k, p, t, n)
  PROVE  /\ Indexed' /\ blocks'[k].payload = p
         /\ \A j \in Key \ {k} : blocks'[j] = blocks[j]
<1> DEFINE warm == k \in ghost
           seen == blocks[k].count + 1
           count == IF seen = 1 /\ warm THEN 2 ELSE seen
           main == t = Store!Fastest /\ (warm \/ count > 1)
           b == [payload |-> p, tier |-> t, tenant |-> n, count |-> count,
                 ts |-> clock + 1, freq |-> 0, inMain |-> main]
<1>1. Store!Resettle(k, b)
  BY DEF Store!PlaceLocked
<1> HIDE DEF count, main
<1>2. IsBlock(b) /\ b.payload = p
  BY DEF IsBlock
<1> HIDE DEF b
<1> QED BY <1>1, <1>2, ResettleIndexed

\* A write places its block, and only that.
LEMMA WriteEffect ==
  ASSUME Indexed, NEW k \in Key, NEW p, NEW n, Store!Write(k, p, 0, n)
  PROVE  /\ Indexed' /\ op' = "Write" /\ blocks'[k].payload = p
         /\ \A j \in Key \ {k} : blocks'[j] = blocks[j]
<1> DEFINE t == Store!ResolveConfiguredTier(0)
<1>1. Store!PlaceLocked(k, p, t, n) /\ op' = "Write"
  BY DEF Store!Write, Store!Call
<1> HIDE DEF t
<1> QED BY <1>1, PlaceSettles

\* A read keeps what there is, and answers with the block's content or goes
\* on with the promotion of the block.
LEMMA ReadEffect ==
  ASSUME Indexed, NEW k \in Key,
         \/ Store!ReadMiss(k) \/ Store!ReadFast(k)
         \/ Store!ReadSlowInPlace(k) \/ Store!ReadPromote(k)
  PROVE  /\ Indexed' /\ Shrinks
         /\ \/ op' = "Read" /\ serving' = <<k>>
            \/ op' = "idle" /\ ret'.payload = NoPayload
            \/ op' = "idle" /\ k \in Resident /\ ret'.payload = blocks[k].payload
<1> DEFINE b == blocks[k]
           y == Store!Touched(b)
           n == IF y.freq < 3 THEN y.freq + 1 ELSE 3
           f == [y EXCEPT !.freq = n]
           m == [y EXCEPT !.tier = Store!Fastest, !.freq = 0, !.inMain = TRUE]
<1>1. IsBlock(b)
  BY DEF Indexed
<1>2. IsBlock(y) /\ y.payload = b.payload
  BY <1>1, TouchedBlock
<1>3. CASE Store!ReadMiss(k)
  BY <1>3, QuietShrinks DEF Store!ReadMiss, Store!Return
<1>4. CASE Store!ReadFast(k)
  <2>1. /\ k \in Resident /\ Store!Resettle(k, f)
        /\ op' = "idle" /\ ret'.payload = blocks[k].payload
    BY <1>4 DEF Store!ReadFast, Store!Return, Resident
  <2> HIDE DEF y, n
  <2>2. IsBlock(f) /\ f.payload = y.payload
    BY <1>2, QueueFieldWritten
  <2> HIDE DEF f
  <2> QED BY <1>2, <2>1, <2>2, ResettleShrinks
<1>5. CASE Store!ReadSlowInPlace(k)
  <2>1. /\ k \in Resident /\ Store!Resettle(k, y)
        /\ op' = "idle" /\ ret'.payload = blocks[k].payload
    BY <1>5 DEF Store!ReadSlowInPlace, Store!Return, Resident
  <2> HIDE DEF y
  <2> QED BY <1>2, <2>1, ResettleShrinks
<1>6. CASE Store!ReadPromote(k)
  <2>1. /\ k \in Resident /\ Store!Resettle(k, m) /\ op' = "Read" /\ serving' = <<k>>
    BY <1>6 DEF Store!ReadPromote, Store!Call, Resident
  <2> HIDE DEF y
  <2>2. IsBlock(m) /\ m.payload = y.payload
    BY <1>2, PromotedBlock
  <2> HIDE DEF m
  <2> QED BY <1>2, <2>1, <2>2, ResettleShrinks
<1> QED BY <1>3, <1>4, <1>5, <1>6

\* What a step under the store's lock does to the call it is part of: it goes
\* on, it returns without a block, or it is the end of a read.
Onward ==
  \/ op' = op /\ ret' = ret /\ (op = "Read" => serving' = serving)
  \/ op' = "idle" /\ ret'.payload = NoPayload
  \/ /\ op = "Read" /\ op' = "idle" /\ Head(serving) \in Resident
     /\ ret'.payload = blocks[Head(serving)].payload

LEMMA LockedEffect ==
  ASSUME Indexed, Store!Locked
  PROVE  Indexed' /\ Shrinks /\ Onward
<1>1. CASE Store!FinishRead
  <2>1. UNCHANGED Store!store /\ Onward
    BY <1>1 DEF Store!FinishRead, Store!Return, Onward, Resident
  <2> QED BY <2>1, QuietShrinks
<1>2. CASE Store!FinishCall
  <2>1. UNCHANGED Store!store /\ Onward
    BY <1>2 DEF Store!FinishCall, Store!Return, Onward
  <2> QED BY <2>1, QuietShrinks
<1>3. CASE Store!PrefetchSkip
  <2>1. UNCHANGED Store!store /\ Onward
    BY <1>3 DEF Store!PrefetchSkip, Onward
  <2> QED BY <2>1, QuietShrinks
<1>4. CASE Store!PrefetchPlace
  <2> DEFINE k == Head(serving)
  <2>1. /\ k \in Resident /\ op = "Prefetch" /\ op' = "Prefetch" /\ ret' = ret
        /\ Store!PlaceLocked(k, blocks[k].payload, Store!Fastest, blocks[k].tenant)
    BY <1>4 DEF Store!PrefetchPlace, Store!Prefetchable, Store!Call, Resident
  <2> HIDE DEF k
  <2>2. k \in Key /\ blocks[k].tier # Store!NoTier
    BY <2>1 DEF Resident, Store!Resident
  <2>3. /\ Indexed' /\ blocks'[k].payload = blocks[k].payload
        /\ \A j \in Key \ {k} : blocks'[j] = blocks[j]
    BY <2>1, <2>2, PlaceSettles
  <2> QED BY <2>1, <2>2, <2>3 DEF Shrinks, Onward
<1>5. ASSUME NEW t \in Store!Tier, Store!EvictQuota(t) \/ Store!EvictLru(t)
      PROVE  Indexed' /\ Shrinks /\ Onward
  <2>1. PICK v \in Store!QuotaVictims(t) \cup Store!LruVictims(t) : Store!Evict(v, t)
    BY <1>5 DEF Store!EvictQuota, Store!EvictLru
  <2>2. v \in Resident
    BY VictimsResident
  <2> QED BY <2>1, <2>2, EvictShrinks DEF Onward
<1>6. ASSUME NEW t \in Store!Tier, Store!LeaveEnforce(t)
      PROVE  Indexed' /\ Shrinks /\ Onward
  <2>1. UNCHANGED Store!store /\ Onward
    BY <1>6 DEF Store!LeaveEnforce, Store!Return, Onward
  <2> QED BY <2>1, QuietShrinks
<1>7. CASE Store!S3SmallStale \/ Store!S3MainStale
  <2>1. UNCHANGED Store!store /\ Onward
    BY <1>7 DEF Store!S3SmallStale, Store!S3MainStale, Store!control, Onward
  <2> QED BY <2>1, QuietShrinks
<1>8. CASE Store!S3SmallToMain
  <2> DEFINE k == Head(smallFifo)
             z == [blocks[k] EXCEPT !.inMain = TRUE, !.freq = 0]
  <2>1. /\ k \in Resident /\ blocks' = [blocks EXCEPT ![k] = z]
        /\ UNCHANGED <<victimIndex, tenantIndex, op, serving, ret>>
    BY <1>8 DEF Store!S3SmallToMain, Store!InSmall, Store!control, Resident
  <2> HIDE DEF k
  <2>2. IsBlock(blocks[k])
    BY <2>1 DEF Indexed, Resident, Store!Resident
  <2>3. /\ IsBlock(z) /\ z.payload = blocks[k].payload /\ z.ts = blocks[k].ts
        /\ z.tier = blocks[k].tier /\ z.tenant = blocks[k].tenant
    BY <2>2, RequeuedBlock
  <2> HIDE DEF z
  <2>4. Indexed' /\ Shrinks
    BY <2>1, <2>3, InPlaceShrinks
  <2> QED BY <2>1, <2>4 DEF Onward
<1>9. CASE Store!S3MainSecondChance
  <2> DEFINE k == Head(mainFifo)
             z == [blocks[k] EXCEPT !.freq = @ - 1]
  <2>1. /\ k \in Resident /\ blocks' = [blocks EXCEPT ![k] = z]
        /\ UNCHANGED <<victimIndex, tenantIndex, op, serving, ret>>
    BY <1>9 DEF Store!S3MainSecondChance, Store!InMain, Store!control, Resident
  <2> HIDE DEF k
  <2>2. IsBlock(blocks[k])
    BY <2>1 DEF Indexed, Resident, Store!Resident
  <2>3. /\ IsBlock(z) /\ z.payload = blocks[k].payload /\ z.ts = blocks[k].ts
        /\ z.tier = blocks[k].tier /\ z.tenant = blocks[k].tenant
    BY <2>2, QueueFieldWritten
  <2> HIDE DEF z
  <2>4. Indexed' /\ Shrinks
    BY <2>1, <2>3, InPlaceShrinks
  <2> QED BY <2>1, <2>4 DEF Onward
<1>10. CASE Store!S3SmallEvict \/ Store!S3MainEvict
  <2>1. PICK v \in Resident : Store!Evict(v, Store!Fastest)
    BY <1>10 DEF Store!S3SmallEvict, Store!S3MainEvict, Store!InSmall, Store!InMain, Resident
  <2> QED BY <2>1, EvictShrinks DEF Onward
<1> QED BY <1>1, <1>2, <1>3, <1>4, <1>5, <1>6, <1>7, <1>8, <1>9, <1>10 DEF Store!Locked

----------------------------------------------------------------------------
(* Requests *)

\* s is r but for the fields it has of its own.
LEMMA AtWritten ==
  ASSUME NEW r, IsRequest(r), NEW v
  PROVE  LET s == [r EXCEPT !.at = v]
         IN  /\ IsRequest(s) /\ s.at = v /\ s.kind = r.kind /\ s.pos = r.pos
             /\ s.keys = r.keys /\ s.loaded = r.loaded /\ s.missing = r.missing
BY DEF IsRequest

LEMMA PosWritten ==
  ASSUME NEW r, IsRequest(r), NEW v
  PROVE  LET s == [r EXCEPT !.pos = v]
         IN  /\ IsRequest(s) /\ s.pos = v /\ s.kind = r.kind /\ s.at = r.at
             /\ s.keys = r.keys /\ s.loaded = r.loaded /\ s.missing = r.missing
BY DEF IsRequest

LEMMA SeenWritten ==
  ASSUME NEW r, IsRequest(r), NEW v
  PROVE  LET s == [r EXCEPT !.seen = v]
         IN  /\ IsRequest(s) /\ s.pos = r.pos /\ s.kind = r.kind /\ s.at = r.at
             /\ s.keys = r.keys /\ s.loaded = r.loaded /\ s.missing = r.missing
BY DEF IsRequest

LEMMA LoadedWritten ==
  ASSUME NEW r, IsRequest(r), NEW v
  PROVE  LET s == [r EXCEPT !.loaded = v]
         IN  /\ IsRequest(s) /\ s.pos = r.pos /\ s.kind = r.kind /\ s.at = r.at
             /\ s.keys = r.keys /\ s.loaded = v /\ s.missing = r.missing
BY DEF IsRequest

LEMMA MissingWritten ==
  ASSUME NEW r, IsRequest(r), NEW v
  PROVE  LET s == [r EXCEPT !.missing = v]
         IN  /\ IsRequest(s) /\ s.pos = r.pos /\ s.kind = r.kind /\ s.at = r.at
             /\ s.keys = r.keys /\ s.loaded = r.loaded /\ s.missing = v
BY DEF IsRequest

\* The keys of a request are different keys of blocks.
LEMMA BlockListType ==
  ASSUME NEW s \in BlockLists
  PROVE  /\ s \in KeySequences /\ s \in Seq(Key) /\ Len(s) \in Nat
         /\ DOMAIN s = 1..Len(s) /\ \A j \in 1..Len(s) : s[j] \in Key
         /\ \A i, j \in 1..Len(s) : s[i] = s[j] => i = j
<1>1. PICK n \in 0..MaxBlocks : s \in [1..n -> Requested]
  BY DEF BlockLists
<1>2. n \in Nat /\ n \in 0..MaxLen /\ Requested \subseteq Key
  BY ClientAssumption, PrefetcherAssumption
<1>3. s \in [1..n -> Key]
  BY <1>1, <1>2
<1>4. s \in Seq(Key) /\ Len(s) = n
  BY <1>2, <1>3, SeqDef
<1>5. s \in KeySequences
  BY <1>2, <1>3 DEF KeySequences
<1>6. \A i, j \in DOMAIN s : s[i] = s[j] => i = j
  BY DEF BlockLists, IsInjective
<1> QED BY <1>2, <1>3, <1>4, <1>5, <1>6

LEMMA NoRequestOK ==
  ASSUME NEW acc, NEW c
  PROVE  RequestOK(NoRequest, acc, c) /\ CallOK(NoRequest, acc)
<1>1. /\ NoRequest.kind = "none" /\ NoRequest.at = "none" /\ NoRequest.pos = 1
      /\ NoRequest.keys = <<>>
  BY DEF NoRequest, Request
<1>2. IsRequest(NoRequest)
  BY DEF NoRequest, Request, IsRequest
<1>3. << >> \in BlockLists
  <2>1. << >> \in [1..0 -> Requested] /\ 0 \in 0..MaxBlocks
    BY ClientAssumption
  <2>2. IsInjective(<< >>)
    BY DEF IsInjective
  <2> QED BY <2>1, <2>2 DEF BlockLists
<1> HIDE DEF NoRequest
<1> QED BY <1>1, <1>2, <1>3 DEF RequestOK, CallOK, Course, Written

\* The keys load_kv has been through.
LEMMA DoneKeys ==
  ASSUME NEW s \in BlockLists, NEW n \in Nat \ {0}, n <= Len(s) + 1
  PROVE  /\ Range([i \in 1..(n - 1) |-> s[i]]) = {s[i] : i \in 1..(n - 1)}
         /\ {s[i] : i \in 1..(n - 1)} \subseteq Key
<1>1. Len(s) \in Nat /\ \A j \in 1..Len(s) : s[j] \in Key
  BY BlockListType
<1> QED BY <1>1 DEF Range

\* Writes of others keep a request sound.
LEMMA RequestKept ==
  ASSUME NEW r, NEW acc, NEW acc2, NEW c, RequestOK(r, acc, c),
         \A k \in Key : acc[k] \subseteq acc2[k]
  PROVE  /\ RequestOK(r, acc2, c)
         /\ CallOK(r, acc) => CallOK(r, acc2)
<1>1. /\ r.keys \in BlockLists /\ r.pos \in Nat \ {0}
      /\ IsRequest(r) /\ Course(r, c) /\ Written(r, acc)
  BY DEF RequestOK
<1>2. Len(r.keys) \in Nat /\ \A j \in 1..Len(r.keys) : r.keys[j] \in Key
  BY <1>1, BlockListType
<1>3. AtPos(r) => KeyAt(r) \in Key
  BY <1>1, <1>2 DEF AtPos, KeyAt
<1>4. Written(r, acc2)
  BY <1>1, <1>2, <1>3 DEF Written
<1>5. CallOK(r, acc) => CallOK(r, acc2)
  BY <1>3 DEF CallOK
<1>6. ASSUME r.kind = "load" PROVE r.pos <= Len(r.keys) + 1 /\ Accounted(r, acc2)
  <2>1. r.pos <= Len(r.keys) + 1 /\ Accounted(r, acc)
    BY <1>6 DEF RequestOK
  <2>2. DOMAIN r.loaded \subseteq Key
    BY <1>1, <2>1, DoneKeys DEF Accounted
  <2> QED BY <2>1, <2>2 DEF Accounted
<1> QED BY <1>1, <1>4, <1>5, <1>6 DEF RequestOK

\* Only what a request has still in hand depends on its fields.
LEMMA SameRequest ==
  ASSUME NEW r, NEW s, NEW acc, NEW c, RequestOK(r, acc, c), IsRequest(s),
         s.kind = r.kind, s.at = r.at, s.pos = r.pos, s.keys = r.keys,
         s.loaded = r.loaded, s.missing = r.missing
  PROVE  /\ RequestOK(s, acc, c)
         /\ CallOK(r, acc) => CallOK(s, acc)
BY DEF RequestOK, CallOK, Course, Written, Accounted, AtPos, KeyAt

----------------------------------------------------------------------------
(* Steps *)

\* Thread u has written a block that is not registered yet.
Writes(u) == Calling(u, "register") \/ (holder = u /\ Calling(u, "put"))

\* A step of thread t that changes its request, and writes of t.
LEMMA ThreadsStep ==
  ASSUME Threads, NEW t \in Thread, NEW r, req' = [req EXCEPT ![t] = r],
         client' = client, \A k \in Key : accepted[k] \subseteq accepted'[k],
         RequestOK(r, accepted', client), holder' = t => CallOK(r, accepted'),
         \A u \in Thread \ {t} : holder' # u
  PROVE  /\ Threads' /\ req'[t] = r
         /\ \A u \in Thread \ {t} : req'[u] = req[u]
<1>1. req = [u \in Thread |-> req[u]]
  BY DEF Threads
<1>2. /\ req' = [u \in Thread |-> req'[u]] /\ req'[t] = r
      /\ \A u \in Thread \ {t} : req'[u] = req[u]
  BY <1>1
<1>3. \A u \in Thread \ {t} : RequestOK(req[u], accepted, client)
  BY DEF Threads
<1>4. \A u \in Thread \ {t} : RequestOK(req[u], accepted', client)
  BY <1>3, RequestKept
<1>5. ASSUME NEW u \in Thread
      PROVE  /\ RequestOK(req'[u], accepted', client')
             /\ holder' = u => CallOK(req'[u], accepted')
  <2>1. CASE u = t
    BY <1>2, <2>1
  <2>2. CASE u # t
    BY <1>2, <1>4, <2>2
  <2> QED BY <2>1, <2>2
<1> QED BY <1>2, <1>5 DEF Threads

\* The blocks of the store stay covered when none is added and each thread
\* that has written one registers it or still is about to.
LEMMA CoverKept ==
  ASSUME IndexCoversStore, client' = client, index \subseteq index',
         client = "connector" => Resident' \subseteq Resident,
         \A u \in Thread : client = "connector" /\ Writes(u) =>
           \/ KeyOf(u) \in index'
           \/ Writes(u)' /\ KeyOf(u)' = KeyOf(u)
  PROVE  IndexCoversStore'
<1> SUFFICES ASSUME client = "connector", NEW k \in Resident'
             PROVE  k \in index' \/ \E u \in Thread : Writes(u)' /\ k = KeyOf(u)'
  BY DEF IndexCoversStore, Writes
<1>1. k \in index \/ \E u \in Thread : Writes(u) /\ k = KeyOf(u)
  BY DEF IndexCoversStore, Writes
<1> QED BY <1>1

\* A step between two calls, or at the end of one: nothing moves in the store.
LEMMA BetweenCalls ==
  ASSUME ConnectorInv, NEW t \in Thread, NEW r, req' = [req EXCEPT ![t] = r],
         UNCHANGED <<Store!store, accepted, client, successor>>, op' = "idle",
         holder \in {NoThread, t},
         holder' = NoThread \/ (holder' = t /\ r.at = "record"),
         RequestOK(r, accepted, client), RecordedStored', index \subseteq index',
         client = "connector" /\ Writes(t) =>
           \/ KeyOf(t) \in index'
           \/ r.at = "register" /\ r.pos = req[t].pos /\ r.keys = req[t].keys
  PROVE  ConnectorInv'
<1>1. NoThread \notin Thread
  BY ClientAssumption
<1>2. Indexed'
  BY QuietShrinks DEF ConnectorInv
<1>3. Inside'
  BY DEF Inside
<1>4. /\ Threads' /\ req'[t] = r
      /\ \A u \in Thread \ {t} : req'[u] = req[u]
  <2>1. r.at = "record" => CallOK(r, accepted')
    BY DEF CallOK
  <2>2. Threads /\ \A k \in Key : accepted[k] \subseteq accepted'[k]
    BY DEF ConnectorInv
  <2>3. holder' = t => CallOK(r, accepted')
    BY <1>1, <2>1
  <2>4. \A u \in Thread \ {t} : holder' # u
    BY <1>1
  <2>5. RequestOK(r, accepted', client)
    OBVIOUS
  <2> QED BY <2>2, <2>3, <2>4, <2>5, ThreadsStep
<1>5. Backed'
  BY DEF ConnectorInv, Backed, Resident, Store!Resident, Store!store
<1>6. Answered'
  BY <1>1, <1>4 DEF Answered
<1>7. ChainsWereStored'
  BY DEF ConnectorInv, ChainsWereStored
<1>8. IndexCoversStore'
  <2>1. Resident' = Resident
    BY DEF Resident, Store!Resident, Store!store
  <2>2. ASSUME NEW u \in Thread, client = "connector", Writes(u)
        PROVE  \/ KeyOf(u) \in index'
               \/ Writes(u)' /\ KeyOf(u)' = KeyOf(u)
    <3>1. CASE u = t
      <4>1. AtKey(t)
        BY <2>2, <3>1 DEF Writes, Calling
      <4>2. CASE KeyOf(t) \in index'
        BY <3>1, <4>2
      <4>3. CASE r.at = "register" /\ r.pos = req[t].pos /\ r.keys = req[t].keys
        BY <1>4, <3>1, <4>1, <4>3 DEF Writes, Calling, AtKey, KeyOf
      <4> QED BY <2>2, <3>1, <4>2, <4>3
    <3>2. CASE u # t
      <4>1. Calling(u, "register") /\ req'[u] = req[u]
        BY <1>1, <1>4, <2>2, <3>2 DEF Writes
      <4> QED BY <4>1 DEF Writes, Calling, AtKey, KeyOf
    <3> QED BY <3>1, <3>2
  <2>3. IndexCoversStore
    BY DEF ConnectorInv
  <2> QED BY <2>1, <2>2, <2>3, CoverKept
<1> QED BY <1>2, <1>3, <1>4, <1>5, <1>6, <1>7, <1>8 DEF ConnectorInv

\* What the invariant says of one thread, and what it may keep.
LEMMA ThreadFacts ==
  ASSUME ConnectorInv, NEW t \in Thread
  PROVE  /\ RequestOK(req[t], accepted, client) /\ IsRequest(req[t])
         /\ holder = t => CallOK(req[t], accepted)
         /\ Course(req[t], client) /\ req[t].keys \in BlockLists
         /\ req[t].pos \in Nat \ {0} /\ Len(req[t].keys) \in Nat
         /\ AtKey(t) => KeyOf(t) \in Key
         /\ holder = NoThread => op = "idle"
<1>1. holder = t => CallOK(req[t], accepted)
  BY DEF ConnectorInv, Threads
<1>2. RequestOK(req[t], accepted, client)
  BY DEF ConnectorInv, Threads
<1>3. /\ IsRequest(req[t]) /\ Course(req[t], client) /\ req[t].keys \in BlockLists
      /\ req[t].pos \in Nat \ {0}
  BY <1>2 DEF RequestOK
<1>4. Len(req[t].keys) \in Nat /\ \A j \in 1..Len(req[t].keys) : req[t].keys[j] \in Key
  BY <1>3, BlockListType
<1>5. AtKey(t) => KeyOf(t) \in Key
  BY <1>3, <1>4 DEF AtKey, KeyOf
<1>6. holder = NoThread => op = "idle"
  BY DEF ConnectorInv, Inside
<1> QED BY <1>1, <1>2, <1>3, <1>4, <1>5, <1>6

LEMMA RecordingKept ==
  ASSUME ConnectorInv, UNCHANGED <<client, accepted, todo>>
  PROVE  RecordedStored'
BY DEF ConnectorInv, RecordedStored

\* The request a thread begins.
LEMMA NewRequest ==
  ASSUME NEW kind, NEW at, NEW keys, NEW tensors, NEW tenant, NEW seen
  PROVE  LET r == Request(kind, at, keys, tensors, tenant, seen)
         IN  /\ IsRequest(r) /\ r.kind = kind /\ r.at = at /\ r.pos = 1 /\ r.keys = keys
             /\ r.loaded = NoEdges /\ r.missing = {}
BY DEF Request, IsRequest

LEMMA BeginInv ==
  ASSUME ConnectorInv, NEW t \in Thread, NEW keys \in BlockLists, NEW tensors,
         NEW tenant, NEW kind, NEW at, Begin(t, kind, at, keys, tensors, tenant),
         \/ kind = "none" /\ at = "none"
         \/ kind = "store" /\ at = "put" /\ client = "connector"
         \/ kind = "load" /\ at \in {"prefetch", "get"} /\ client = "connector"
         \/ kind = "replay" /\ at = "chain" /\ client \in {"replay", "replay_pair"}
  PROVE  ConnectorInv'
<1> DEFINE seen == IF kind = "load" THEN Resident ELSE {}
           r == Request(kind, at, keys, tensors, tenant, seen)
<1>1. /\ holder = NoThread /\ req[t].kind = "none" /\ req' = [req EXCEPT ![t] = r]
      /\ UNCHANGED <<vars, storeVars, holder, index, accepted, client>>
  BY DEF Begin, Set, Fixed
<1>2. /\ IsRequest(r) /\ r.kind = kind /\ r.at = at /\ r.pos = 1 /\ r.keys = keys
      /\ r.loaded = NoEdges /\ r.missing = {}
  BY NewRequest
<1> HIDE DEF r
<1>3. UNCHANGED <<Store!store, accepted, client, successor, todo>> /\ op' = "idle"
  BY <1>1, ThreadFacts DEF vars, edgeVars, storeVars, Store!store
<1>4. ~Writes(t)
  <2>1. req[t].at \in {"none", "record"} /\ holder # t
    BY <1>1, ThreadFacts, ClientAssumption DEF Course
  <2> QED BY <2>1 DEF Writes, Calling
<1>5. RequestOK(r, accepted, client)
  <2>1. Course(r, client)
    BY <1>2 DEF Course
  <2>2. Written(r, accepted)
    BY <1>2, BlockListType DEF Written
  <2>3. r.pos <= Len(r.keys) + 1 /\ Accounted(r, accepted)
    <3>1. Len(keys) \in Nat
      BY BlockListType
    <3>2. Range([i \in 1..(r.pos - 1) |-> r.keys[i]]) = {}
      BY <1>2 DEF Range
    <3>3. DOMAIN NoEdges = {}
      BY DEF NoEdges
    <3> QED BY <1>2, <3>1, <3>2, <3>3 DEF Accounted
  <2> QED BY <1>2, <2>1, <2>2, <2>3 DEF RequestOK
<1> QED BY <1>1, <1>3, <1>4, <1>5, RecordingKept, BetweenCalls

LEMMA ArriveInv ==
  ASSUME ConnectorInv, NEW t \in Thread, NEW keys \in BlockLists, Arrive(t, keys)
  PROVE  ConnectorInv'
<1>1. ASSUME NEW tensors \in Tensors, store_kv(t, keys, tensors) PROVE ConnectorInv'
  <2> DEFINE kind == IF Len(keys) = Len(tensors) THEN "store" ELSE "none"
             at == IF Len(keys) = Len(tensors) THEN "put" ELSE "none"
  <2>1. Begin(t, kind, at, keys, tensors, 0) /\ client = "connector"
    BY <1>1 DEF store_kv
  <2>2. (kind = "none" /\ at = "none") \/ (kind = "store" /\ at = "put")
    BY Zenon
  <2> HIDE DEF kind, at
  <2> QED BY <2>1, <2>2, BeginInv
<1>2. CASE load_kv(t, keys)
  <2> DEFINE at == IF reuse THEN "prefetch" ELSE "get"
  <2>1. Begin(t, "load", at, keys, <<>>, 0) /\ client = "connector"
    BY <1>2 DEF load_kv
  <2>2. at \in {"prefetch", "get"}
    OBVIOUS
  <2> HIDE DEF at
  <2> QED BY <2>1, <2>2, BeginInv
<1>3. CASE replay(t, keys)
  <2> DEFINE tensors == [i \in DOMAIN keys |-> Block]
  <2>1. Begin(t, "replay", "chain", keys, tensors, 0) /\ client = "replay"
    BY <1>3 DEF replay
  <2> HIDE DEF tensors
  <2> QED BY <2>1, BeginInv
<1>4. ASSUME NEW tenant \in {1, 2}, replay_pair(t, keys, tenant) PROVE ConnectorInv'
  <2> DEFINE tensors == [i \in DOMAIN keys |-> Block]
  <2>1. Begin(t, "replay", "chain", keys, tensors, tenant) /\ client = "replay_pair"
    BY <1>4 DEF replay_pair
  <2> HIDE DEF tensors
  <2> QED BY <2>1, BeginInv
<1> QED BY <1>1, <1>2, <1>3, <1>4 DEF Arrive

\* The end of a request: returned, or given up where the store raises.
LEMMA EndInv ==
  ASSUME ConnectorInv, NEW t \in Thread, ~Writes(t),
         req' = [req EXCEPT ![t] = NoRequest], op' = "idle",
         UNCHANGED <<Store!store, accepted, client, successor, todo, index>>,
         holder \in {NoThread, t}, holder' = NoThread
  PROVE  ConnectorInv'
<1>1. RequestOK(NoRequest, accepted, client)
  BY NoRequestOK
<1>2. RecordedStored' /\ index \subseteq index'
  BY RecordingKept
<1> QED BY <1>1, <1>2, BetweenCalls

LEMMA PutRaisesInv ==
  ASSUME ConnectorInv, NEW t \in Thread, PutRaises(t)
  PROVE  ConnectorInv'
<1> DEFINE p == req[t].tensors[req[t].pos]
<1>1. /\ holder = NoThread /\ req[t].at = "put" /\ Store!WriteRejected(p, 0)
      /\ req' = [req EXCEPT ![t] = NoRequest]
      /\ UNCHANGED <<vars, holder, index, accepted, client>>
  BY DEF PutRaises, Turn, Set, Fixed
<1> HIDE DEF p
<1>2. UNCHANGED Store!store /\ op' = "idle"
  BY <1>1 DEF Store!WriteRejected, Store!Return
<1>3. ~Writes(t)
  BY <1>1, ClientAssumption DEF Writes, Calling
<1>4. UNCHANGED <<successor, todo>>
  BY <1>1 DEF vars, edgeVars
<1> QED BY <1>1, <1>2, <1>3, <1>4, EndInv

LEMMA LoadReturnsInv ==
  ASSUME ConnectorInv, NEW t \in Thread, LoadReturns(t)
  PROVE  ConnectorInv'
<1>1. /\ holder = NoThread /\ req[t].at = "get" /\ req' = [req EXCEPT ![t] = NoRequest]
      /\ UNCHANGED <<vars, storeVars, holder, index, accepted, client>>
  BY DEF LoadReturns, Turn, Set, Fixed
<1>2. UNCHANGED Store!store /\ op' = "idle"
  BY <1>1, ThreadFacts DEF storeVars, Store!store
<1>3. ~Writes(t)
  BY <1>1 DEF Writes, Calling
<1>4. UNCHANGED <<successor, todo>>
  BY <1>1 DEF vars, edgeVars
<1> QED BY <1>1, <1>2, <1>3, <1>4, EndInv

LEMMA RecordReturnsInv ==
  ASSUME ConnectorInv, NEW t \in Thread, RecordReturns(t)
  PROVE  ConnectorInv'
<1>1. /\ holder = t /\ op = "idle" /\ req[t].at = "record" /\ holder' = NoThread
      /\ req' = [req EXCEPT ![t] = NoRequest]
      /\ UNCHANGED <<vars, storeVars, index, accepted, client>>
  BY DEF RecordReturns, Leave, Set, Fixed
<1>2. UNCHANGED Store!store /\ op' = "idle"
  BY <1>1 DEF storeVars, Store!store
<1>3. ~Writes(t)
  BY <1>1 DEF Writes, Calling
<1>4. UNCHANGED <<successor, todo>>
  BY <1>1 DEF vars, edgeVars
<1> QED BY <1>1, <1>2, <1>3, <1>4, EndInv

\* The next call of a request, of the same key.
LEMMA MoveOK ==
  ASSUME NEW r, NEW acc, NEW c, NEW a, RequestOK(r, acc, c),
         Course([r EXCEPT !.at = a], c),
         a = "register" \/ (r.kind = "replay" /\ a = "get")
           => AtPos(r) /\ acc[KeyAt(r)] # {}
  PROVE  RequestOK([r EXCEPT !.at = a], acc, c)
<1> DEFINE s == [r EXCEPT !.at = a]
<1>1. /\ IsRequest(s) /\ s.at = a /\ s.kind = r.kind /\ s.pos = r.pos
      /\ s.keys = r.keys /\ s.loaded = r.loaded /\ s.missing = r.missing
  BY AtWritten DEF RequestOK
<1>2. Course(s, c)
  OBVIOUS
<1> HIDE DEF s
<1>3. Written(s, acc)
  BY <1>1 DEF RequestOK, Written, AtPos, KeyAt
<1>4. Accounted(r, acc) => Accounted(s, acc)
  BY <1>1 DEF Accounted
<1>5. RequestOK(s, acc, c)
  BY <1>1, <1>2, <1>3, <1>4 DEF RequestOK
<1> QED BY <1>5 DEF s

\* The next call of a request that writes or replays, of the next key.
LEMMA NextOK ==
  ASSUME NEW r, NEW acc, NEW c, NEW a, RequestOK(r, acc, c),
         r.kind \in {"store", "replay"}, a \notin {"register", "get"},
         Course([r EXCEPT !.at = a], c), AtPos(r), acc[KeyAt(r)] # {}
  PROVE  RequestOK([r EXCEPT !.at = a, !.pos = @ + 1], acc, c)
<1> DEFINE n == r.pos + 1
           x == [r EXCEPT !.at = a]
           s == [x EXCEPT !.pos = n]
<1>1. /\ IsRequest(x) /\ x.at = a /\ x.kind = r.kind /\ x.keys = r.keys /\ x.pos = r.pos
      /\ Course(x, c)
  BY AtWritten DEF RequestOK
<1>2. [r EXCEPT !.at = a, !.pos = @ + 1] = s
  BY <1>1
<1> HIDE DEF x
<1>3. /\ IsRequest(s) /\ s.at = a /\ s.kind = r.kind /\ s.pos = r.pos + 1
      /\ s.keys = r.keys
  <2> HIDE DEF n
  <2>1. IsRequest(s) /\ s.at = x.at /\ s.kind = x.kind /\ s.pos = n /\ s.keys = x.keys
    BY <1>1, PosWritten
  <2> QED BY <1>1, <2>1 DEF n
<1>4. Course(s, c)
  BY <1>1, <1>3 DEF Course
<1> HIDE DEF s
<1>5. /\ s.keys \in BlockLists /\ s.pos \in Nat \ {0} /\ Len(r.keys) \in Nat
      /\ r.pos \in Nat
  BY <1>3, BlockListType DEF RequestOK
<1>6. Written(s, acc)
  <2>1. ASSUME NEW j \in 1..Len(r.keys), j < r.pos + 1 PROVE acc[r.keys[j]] # {}
    <3>1. CASE j = r.pos
      BY <3>1 DEF KeyAt
    <3>2. CASE j < r.pos
      BY <3>2 DEF RequestOK, Written
    <3> QED BY <1>5, <2>1, <3>1, <3>2
  <2> QED BY <1>3, <2>1 DEF Written
<1>7. RequestOK(s, acc, c)
  BY <1>3, <1>4, <1>5, <1>6 DEF RequestOK
<1> QED BY <1>2, <1>7

\* A thread between two calls has no block that waits to be registered,
\* unless that is its next call.
LEMMA OutsideWrites ==
  ASSUME NEW t \in Thread, Writes(t)
  PROVE  AtKey(t) /\ (req[t].at = "register" \/ (holder = t /\ req[t].at = "put"))
BY DEF Writes, Calling

LEMMA PutReturnsInv ==
  ASSUME ConnectorInv, NEW t \in Thread, PutReturns(t)
  PROVE  ConnectorInv'
<1> DEFINE r == req[t]
<1>1. /\ holder = t /\ op = "idle" /\ r.at = "put" /\ holder' = NoThread
      /\ UNCHANGED <<vars, storeVars, index, accepted, client>>
  BY DEF PutReturns, Leave, Fixed
<1>2. /\ UNCHANGED Store!store /\ op' = "idle"
      /\ UNCHANGED <<successor, todo>>
  BY <1>1 DEF storeVars, Store!store, vars, edgeVars
<1>3. /\ RequestOK(r, accepted, client) /\ IsRequest(r) /\ Course(r, client)
      /\ CallOK(r, accepted)
  BY <1>1, ThreadFacts
<1>4. AtPos(r) /\ accepted[KeyAt(r)] # {}
  BY <1>1, <1>3 DEF CallOK
<1>5. RecordedStored'
  BY <1>1, <1>2, RecordingKept
<1>6. CASE r.kind = "store"
  <2> DEFINE s == [r EXCEPT !.at = "register"]
  <2>1. req' = [req EXCEPT ![t] = s]
    BY <1>6 DEF PutReturns, GoTo, Set
  <2>2. s.at = "register" /\ s.kind = r.kind /\ s.pos = r.pos /\ s.keys = r.keys
    BY <1>3, AtWritten
  <2>3. Course(s, client)
    BY <1>3, <1>6, <2>2 DEF Course
  <2>4. RequestOK(s, accepted, client)
    BY <1>3, <1>4, <2>3, MoveOK
  <2> HIDE DEF s
  <2> QED BY <1>1, <1>2, <1>5, <2>1, <2>2, <2>4, BetweenCalls
<1>7. CASE r.kind # "store"
  <2> DEFINE s == [r EXCEPT !.at = "exists", !.pos = @ + 1]
  <2>1. req' = [req EXCEPT ![t] = s]
    BY <1>7 DEF PutReturns, NextKey, Set
  <2>2. r.kind = "replay" /\ client # "connector"
    BY <1>1, <1>3, <1>7 DEF Course
  <2>3. Course([r EXCEPT !.at = "exists"], client)
    <3>1. [r EXCEPT !.at = "exists"].at = "exists" /\ [r EXCEPT !.at = "exists"].kind = r.kind
      BY <1>3, AtWritten
    <3> QED BY <1>3, <2>2, <3>1 DEF Course
  <2>4. RequestOK(s, accepted, client)
    BY <1>3, <1>4, <2>2, <2>3, NextOK
  <2> HIDE DEF s
  <2> QED BY <1>1, <1>2, <1>5, <2>1, <2>2, <2>4, BetweenCalls
<1> QED BY <1>6, <1>7

LEMMA RegisterInv ==
  ASSUME ConnectorInv, NEW t \in Thread, register_block(t)
  PROVE  ConnectorInv'
<1> DEFINE r == req[t]
           s == [r EXCEPT !.at = "put", !.pos = @ + 1]
<1>1. /\ holder = NoThread /\ r.at = "register" /\ req' = [req EXCEPT ![t] = s]
      /\ index' = index \cup {KeyOf(t)}
      /\ UNCHANGED <<vars, storeVars, holder, accepted, client>>
  BY DEF register_block, Turn, NextKey, Set, Fixed
<1>2. /\ UNCHANGED Store!store /\ op' = "idle"
      /\ UNCHANGED <<successor, todo>>
  BY <1>1, ThreadFacts DEF storeVars, Store!store, vars, edgeVars
<1>3. RequestOK(r, accepted, client) /\ IsRequest(r) /\ Course(r, client)
  BY ThreadFacts
<1>4. AtPos(r) /\ accepted[KeyAt(r)] # {} /\ r.kind = "store"
  BY <1>1, <1>3 DEF RequestOK, Written, Course
<1>5. RecordedStored'
  BY <1>1, <1>2, RecordingKept
<1>6. Course([r EXCEPT !.at = "put"], client)
  <2>1. [r EXCEPT !.at = "put"].at = "put" /\ [r EXCEPT !.at = "put"].kind = r.kind
    BY <1>3, AtWritten
  <2> QED BY <1>3, <1>4, <2>1 DEF Course
<1>7. RequestOK(s, accepted, client)
  BY <1>3, <1>4, <1>6, NextOK
<1> HIDE DEF s
<1> QED BY <1>1, <1>2, <1>5, <1>7, BetweenCalls

\* RecordSequence begins: what it will link has been stored.
LEMMA RecordInv ==
  ASSUME ConnectorInv, NEW t \in Thread, holder = NoThread, holder' = t,
         NEW keys, RecordSequence(keys), GoTo(t, "record"),
         UNCHANGED <<storeVars, index, accepted, client>>,
         Course([req[t] EXCEPT !.at = "record"], client), ~Writes(t),
         client # "caller" => \A j \in 1..Len(keys) : accepted[keys[j]] # {}
  PROVE  ConnectorInv'
<1> DEFINE r == req[t]
           s == [r EXCEPT !.at = "record"]
<1>1. req' = [req EXCEPT ![t] = s]
  BY DEF GoTo, Set
<1>2. /\ UNCHANGED Store!store /\ op' = "idle"
      /\ UNCHANGED successor /\ todo' = keys
  BY ThreadFacts DEF storeVars, Store!store, RecordSequence, edgeVars
<1>3. RequestOK(r, accepted, client) /\ IsRequest(r)
  BY ThreadFacts
<1>4. RequestOK(s, accepted, client)
  BY <1>3, MoveOK
<1>5. s.at = "record"
  BY <1>3, AtWritten
<1>6. RecordedStored'
  BY <1>2 DEF RecordedStored
<1> HIDE DEF s
<1> QED BY <1>1, <1>2, <1>4, <1>5, <1>6, BetweenCalls

LEMMA RecordSequenceInv ==
  ASSUME ConnectorInv, NEW t \in Thread, record_sequence(t)
  PROVE  ConnectorInv'
<1> DEFINE r == req[t]
<1>1. /\ holder = NoThread /\ r.at \in {"put", "exists"} /\ ~AtKey(t)
      /\ UNCHANGED <<storeVars, index, accepted, client>>
  BY DEF record_sequence, Turn, Fixed
<1>2. /\ RequestOK(r, accepted, client) /\ IsRequest(r) /\ Course(r, client)
      /\ r.pos \in Nat /\ Len(r.keys) \in Nat
  BY ThreadFacts
<1>3. ~Writes(t)
  BY <1>1, OutsideWrites
<1>4. r.kind \in {"store", "replay"}
  BY <1>1, <1>2 DEF Course
<1>5. CASE r.kind = "replay" \/ reuse
  <2>1. RecordSequence(r.keys) /\ holder' = t /\ GoTo(t, "record")
    BY <1>5 DEF record_sequence, Enter
  <2>2. Course([r EXCEPT !.at = "record"], client)
    <3>1. [r EXCEPT !.at = "record"].at = "record" /\ [r EXCEPT !.at = "record"].kind = r.kind
      BY <1>2, AtWritten
    <3> QED BY <1>2, <1>4, <3>1 DEF Course
  <2>3. \A j \in 1..Len(r.keys) : j < r.pos
    BY <1>1, <1>2 DEF AtKey
  <2>4. \A j \in 1..Len(r.keys) : accepted[r.keys[j]] # {}
    BY <1>2, <1>4, <2>3 DEF RequestOK, Written
  <2> QED BY <1>1, <1>3, <2>1, <2>2, <2>4, RecordInv
<1>6. CASE ~(r.kind = "replay" \/ reuse)
  <2>1. req' = [req EXCEPT ![t] = NoRequest] /\ UNCHANGED <<vars, holder>>
    BY <1>6 DEF record_sequence, Set
  <2>2. UNCHANGED <<Store!store, successor, todo>> /\ op' = "idle"
    BY <1>1, <2>1, ThreadFacts DEF storeVars, Store!store, vars, edgeVars
  <2> QED BY <1>1, <1>3, <2>1, <2>2, EndInv
<1> QED BY <1>5, <1>6

LEMMA RecordDirectlyInv ==
  ASSUME ConnectorInv, NEW t \in Thread, NEW keys, RecordDirectly(t, keys)
  PROVE  ConnectorInv'
<1> DEFINE r == req[t]
<1>1. /\ client = "caller" /\ holder = NoThread /\ holder' = t
      /\ RecordSequence(keys) /\ GoTo(t, "record")
      /\ UNCHANGED <<storeVars, index, accepted, client>>
  BY DEF RecordDirectly, Enter, Fixed
<1>2. IsRequest(r) /\ Course(r, client)
  BY ThreadFacts
<1>3. r.kind = "none" /\ r.at \in {"none", "record"}
  BY <1>1, <1>2 DEF Course
<1>4. ~Writes(t)
  BY <1>3, OutsideWrites
<1>5. Course([r EXCEPT !.at = "record"], client)
  <2>1. [r EXCEPT !.at = "record"].at = "record" /\ [r EXCEPT !.at = "record"].kind = r.kind
    BY <1>2, AtWritten
  <2> QED BY <1>1, <1>3, <2>1 DEF Course
<1> QED BY <1>1, <1>4, <1>5, RecordInv

\* After a prefetch: the chain, or the first key.
LEMMA ReadingInv ==
  ASSUME ConnectorInv, NEW t \in Thread, NEW a,
         req[t].at \in {"prefetch", "chain"},
         \/ a = "chain" /\ req[t].at = "prefetch"
         \/ a = Reading(t),
         GoTo(t, a), holder \in {NoThread, t}, holder' = NoThread, op = "idle",
         UNCHANGED <<vars, storeVars, index, accepted, client>>
  PROVE  ConnectorInv'
<1> DEFINE r == req[t]
           s == [r EXCEPT !.at = a]
<1>1. req' = [req EXCEPT ![t] = s]
  BY DEF GoTo, Set
<1>2. UNCHANGED <<Store!store, successor, todo>> /\ op' = "idle"
  BY DEF storeVars, Store!store, vars, edgeVars
<1>3. RequestOK(r, accepted, client) /\ IsRequest(r) /\ Course(r, client)
  BY ThreadFacts
<1>4. ~Writes(t)
  BY OutsideWrites
<1>5. s.at = a /\ s.kind = r.kind
  BY <1>3, AtWritten
<1>6. /\ r.kind \in {"load", "replay"}
      /\ r.kind = "load" => a \in {"chain", "get"}
      /\ r.kind = "replay" => a = "exists"
  BY <1>3 DEF Course, Reading
<1>7. Course(s, client)
  BY <1>3, <1>5, <1>6 DEF Course
<1>8. RequestOK(s, accepted, client)
  BY <1>3, <1>6, <1>7, MoveOK
<1>9. RecordedStored' /\ index \subseteq index'
  BY <1>2, RecordingKept
<1> HIDE DEF s
<1> QED BY <1>1, <1>2, <1>4, <1>8, <1>9, BetweenCalls

LEMMA PrefetchReturnsInv ==
  ASSUME ConnectorInv, NEW t \in Thread, PrefetchReturns(t)
  PROVE  ConnectorInv'
<1> DEFINE a == IF req[t].at = "prefetch" /\ req[t].keys # <<>> THEN "chain" ELSE Reading(t)
<1>1. /\ holder = t /\ op = "idle" /\ holder' = NoThread
      /\ req[t].at \in {"prefetch", "chain"} /\ GoTo(t, a)
      /\ UNCHANGED <<vars, storeVars, index, accepted, client>>
  BY DEF PrefetchReturns, Leave, Fixed
<1>2. (a = "chain" /\ req[t].at = "prefetch") \/ a = Reading(t)
  OBVIOUS
<1> HIDE DEF a
<1> QED BY <1>1, <1>2, ReadingInv

\* A prefetch begins.
LEMMA PrefetchBegins ==
  ASSUME ConnectorInv, NEW t \in Thread, NEW keys, holder = NoThread,
         req[t].at \in {"prefetch", "chain"}, Store!Prefetch(keys), holder' = t,
         UNCHANGED <<vars, req, index, accepted, client>>
  PROVE  ConnectorInv'
<1>1. UNCHANGED <<Store!store, successor, todo>> /\ op' = "Prefetch"
  BY DEF Store!Prefetch, Store!Call, vars, edgeVars
<1>2. Indexed'
  BY <1>1, QuietShrinks DEF ConnectorInv
<1>3. Inside'
  BY ClientAssumption DEF Inside
<1>4. Threads'
  <2>1. CallOK(req[t], accepted)
    BY DEF CallOK
  <2> QED BY <2>1 DEF ConnectorInv, Threads
<1>5. Backed'
  BY <1>1 DEF ConnectorInv, Backed, Resident, Store!Resident, Store!store
<1>6. Answered'
  BY DEF Answered
<1>7. ChainsWereStored' /\ RecordedStored'
  BY <1>1, RecordingKept DEF ConnectorInv, ChainsWereStored
<1>8. IndexCoversStore'
  <2>1. Resident' = Resident
    BY <1>1 DEF Resident, Store!Resident, Store!store
  <2>2. \A u \in Thread : Writes(u) => Writes(u)' /\ KeyOf(u)' = KeyOf(u)
    BY ClientAssumption DEF Writes, Calling, AtKey, KeyOf
  <2>3. IndexCoversStore
    BY DEF ConnectorInv
  <2> QED BY <2>1, <2>2, <2>3, CoverKept
<1> QED BY <1>2, <1>3, <1>4, <1>5, <1>6, <1>7, <1>8 DEF ConnectorInv

LEMMA PrefetchInv ==
  ASSUME ConnectorInv, NEW t \in Thread, prefetch(t)
  PROVE  ConnectorInv'
BY PrefetchBegins DEF prefetch, Turn, Enter, Fixed

LEMMA PrefetchChainInv ==
  ASSUME ConnectorInv, NEW t \in Thread, prefetch_chain_multi(t)
  PROVE  ConnectorInv'
<1> DEFINE chain == PredictChainMulti(req[t].keys, Budget)
<1>1. /\ holder = NoThread /\ req[t].at = "chain"
      /\ UNCHANGED <<vars, index, accepted, client>>
      /\ \/ GoTo(t, Reading(t)) /\ UNCHANGED <<storeVars, holder>>
         \/ Store!Prefetch(chain) /\ holder' = t /\ UNCHANGED req
  BY DEF prefetch_chain_multi, Turn, Enter, Fixed
<1> HIDE DEF chain
<1>2. op = "idle"
  BY <1>1, ThreadFacts
<1>3. CASE GoTo(t, Reading(t)) /\ UNCHANGED <<storeVars, holder>>
  <2> DEFINE a == Reading(t)
  <2>1. GoTo(t, a) /\ a = Reading(t)
    BY <1>3
  <2> HIDE DEF a
  <2> QED BY <1>1, <1>2, <1>3, <2>1, ReadingInv
<1>4. CASE Store!Prefetch(chain) /\ holder' = t /\ UNCHANGED req
  BY <1>1, <1>4, PrefetchBegins
<1> QED BY <1>1, <1>3, <1>4

\* A replay looks for its block, and what it finds has been written.
LEMMA ExistsInv ==
  ASSUME ConnectorInv, NEW t \in Thread, exists(t)
  PROVE  ConnectorInv'
<1> DEFINE r == req[t]
           k == KeyOf(t)
           g == [r EXCEPT !.at = "get"]
           p == [r EXCEPT !.at = "put"]
<1>1. /\ holder = NoThread /\ r.at = "exists" /\ AtKey(t)
      /\ UNCHANGED <<vars, storeVars, holder, index, accepted, client>>
      /\ \/ k \in Resident /\ req' = [req EXCEPT ![t] = [g EXCEPT !.seen = {k}]]
         \/ req' = [req EXCEPT ![t] = p]
  BY DEF exists, Turn, Set, Fixed
<1>2. UNCHANGED <<Store!store, successor, todo>> /\ op' = "idle"
  BY <1>1, ThreadFacts DEF storeVars, Store!store, vars, edgeVars
<1>3. RequestOK(r, accepted, client) /\ IsRequest(r) /\ Course(r, client)
  BY ThreadFacts
<1>4. ~Writes(t)
  BY <1>1, OutsideWrites
<1>5. RecordedStored' /\ index \subseteq index'
  BY <1>1, <1>2, RecordingKept
<1>6. r.kind = "replay" /\ AtPos(r) /\ KeyAt(r) = k
  BY <1>1, <1>3 DEF Course, AtPos, AtKey, KeyAt, KeyOf
<1>7. /\ g.at = "get" /\ g.kind = r.kind /\ p.at = "put" /\ p.kind = r.kind
      /\ Course(g, client) /\ Course(p, client)
  <2>1. g.at = "get" /\ g.kind = r.kind /\ p.at = "put" /\ p.kind = r.kind
    BY <1>3, AtWritten
  <2> QED BY <1>3, <1>6, <2>1 DEF Course
<1>8. CASE k \in Resident /\ req' = [req EXCEPT ![t] = [g EXCEPT !.seen = {k}]]
  <2>1. accepted[k] # {}
    BY <1>8 DEF ConnectorInv, Backed
  <2>2. RequestOK(g, accepted, client)
    BY <1>3, <1>6, <1>7, <2>1, MoveOK
  <2> DEFINE s == [g EXCEPT !.seen = {k}]
  <2> HIDE DEF g, k
  <2>3. IsRequest(g)
    BY <2>2 DEF RequestOK
  <2>4. /\ IsRequest(s) /\ s.pos = g.pos /\ s.kind = g.kind /\ s.at = g.at
        /\ s.keys = g.keys /\ s.loaded = g.loaded /\ s.missing = g.missing
    BY <2>3, SeenWritten
  <2>5. RequestOK(s, accepted, client)
    BY <2>2, <2>4, SameRequest
  <2>6. req' = [req EXCEPT ![t] = s]
    BY <1>8
  <2> HIDE DEF s
  <2> QED BY <1>1, <1>2, <1>4, <1>5, <2>5, <2>6, BetweenCalls
<1>9. CASE req' = [req EXCEPT ![t] = p]
  <2>1. RequestOK(p, accepted, client)
    BY <1>3, <1>7, MoveOK
  <2> HIDE DEF p
  <2> QED BY <1>1, <1>2, <1>4, <1>5, <1>9, <2>1, BetweenCalls
<1> QED BY <1>1, <1>8, <1>9

\* One more key has been read.
LEMMA OneMoreDone ==
  ASSUME NEW s \in BlockLists, NEW n \in Nat \ {0}, n <= Len(s), NEW m, m = n + 1
  PROVE  /\ Range([i \in 1..(m - 1) |-> s[i]]) =
              Range([i \in 1..(n - 1) |-> s[i]]) \cup {s[n]}
         /\ s[n] \notin Range([i \in 1..(n - 1) |-> s[i]])
<1>1. /\ Len(s) \in Nat /\ DOMAIN s = 1..Len(s)
      /\ \A i, j \in 1..Len(s) : s[i] = s[j] => i = j
  BY BlockListType
<1>2. 1..(m - 1) = 1..(n - 1) \cup {n} /\ n \notin 1..(n - 1)
  OBVIOUS
<1>3. Range([i \in 1..(n - 1) |-> s[i]]) = {s[i] : i \in 1..(n - 1)}
  BY DEF Range
<1>4. Range([i \in 1..(m - 1) |-> s[i]]) = {s[i] : i \in 1..(m - 1)}
  BY DEF Range
<1>5. s[n] \notin {s[i] : i \in 1..(n - 1)}
  BY <1>1
<1> QED BY <1>2, <1>3, <1>4, <1>5

\* The answer of get is entered in the result.
LEMMA AnswerOK ==
  ASSUME NEW r, NEW s, NEW acc, NEW c, RequestOK(r, acc, c), r.kind = "load",
         AtPos(r), IsRequest(s), s.kind = "load", s.at = "get", s.pos = r.pos + 1,
         s.keys = r.keys, Course(r, c), NEW p, NEW k, k = KeyAt(r),
         \/ s.loaded = r.loaded /\ s.missing = r.missing \cup {k}
         \/ /\ s.loaded = Link(r.loaded, k, p) /\ s.missing = r.missing
            /\ \E w \in acc[k] : w.payload = p
  PROVE  RequestOK(s, acc, c)
<1>1. /\ r.keys \in BlockLists /\ r.pos \in Nat \ {0} /\ Len(r.keys) \in Nat
      /\ r.pos <= Len(r.keys) /\ Accounted(r, acc)
  BY BlockListType DEF RequestOK, AtPos
<1> DEFINE done == Range([i \in 1..(r.pos - 1) |-> r.keys[i]])
           now == Range([i \in 1..(s.pos - 1) |-> s.keys[i]])
<1>2. now = done \cup {k} /\ k \notin done
  <2> DEFINE q == r.keys
             n == r.pos
             m == s.pos
  <2>1. q \in BlockLists /\ n \in Nat \ {0} /\ n <= Len(q) /\ m = n + 1 /\ k = q[n]
    BY <1>1 DEF KeyAt
  <2>2. /\ now = Range([i \in 1..(m - 1) |-> q[i]])
        /\ done = Range([i \in 1..(n - 1) |-> q[i]])
    OBVIOUS
  <2> HIDE DEF q, n, m, now, done
  <2>3. /\ Range([i \in 1..(m - 1) |-> q[i]]) =
             Range([i \in 1..(n - 1) |-> q[i]]) \cup {q[n]}
        /\ q[n] \notin Range([i \in 1..(n - 1) |-> q[i]])
    BY <2>1, OneMoreDone
  <2> QED BY <2>1, <2>2, <2>3
<1>3. /\ DOMAIN r.loaded \cup r.missing = done /\ DOMAIN r.loaded \cap r.missing = {}
      /\ \A j \in DOMAIN r.loaded : \E w \in acc[j] : w.payload = r.loaded[j]
  BY <1>1 DEF Accounted
<1> HIDE DEF done
<1>4. /\ DOMAIN s.loaded \cup s.missing = now /\ DOMAIN s.loaded \cap s.missing = {}
      /\ \A j \in DOMAIN s.loaded : \E w \in acc[j] : w.payload = s.loaded[j]
  <2> HIDE DEF now
  <2>1. CASE s.loaded = r.loaded /\ s.missing = r.missing \cup {k}
    BY <1>2, <1>3, <2>1
  <2>2. CASE /\ s.loaded = Link(r.loaded, k, p) /\ s.missing = r.missing
             /\ \E w \in acc[k] : w.payload = p
    <3>1. /\ DOMAIN s.loaded = DOMAIN r.loaded \cup {k} /\ s.loaded[k] = p
          /\ \A j \in DOMAIN r.loaded \ {k} : s.loaded[j] = r.loaded[j]
      BY <2>2 DEF Link
    <3> QED BY <1>2, <1>3, <2>2, <3>1
  <2> QED BY <2>1, <2>2
<1>5. Accounted(s, acc)
  BY <1>4 DEF Accounted
<1>6. Course(s, c) /\ Written(s, acc)
  BY DEF Course, Written
<1> QED BY <1>1, <1>5, <1>6 DEF RequestOK

LEMMA GetReturnsInv ==
  ASSUME ConnectorInv, NEW t \in Thread, GetReturns(t)
  PROVE  ConnectorInv'
<1> DEFINE r == req[t]
           k == KeyOf(t)
           n == r.pos + 1
           p == ret.payload
           a == Reading(t)
           x == [r EXCEPT !.pos = n]
           y == [x EXCEPT !.at = a]
           m == r.missing \cup {k}
           l == Link(r.loaded, k, p)
<1>1. /\ holder = t /\ op = "idle" /\ holder' = NoThread /\ r.at = "get"
      /\ UNCHANGED <<vars, storeVars, index, accepted, client>>
  BY DEF GetReturns, Leave, Fixed
<1>2. /\ RequestOK(r, accepted, client) /\ IsRequest(r) /\ Course(r, client)
      /\ AtPos(r) /\ r.pos \in Nat \ {0} /\ KeyAt(r) = k
  BY <1>1, ThreadFacts DEF CallOK, KeyAt, KeyOf
<1>3. UNCHANGED <<Store!store, successor, todo>> /\ op' = "idle"
  BY <1>1 DEF storeVars, Store!store, vars, edgeVars
<1>4. ~Writes(t)
  BY <1>1, OutsideWrites
<1>5. RecordedStored' /\ index \subseteq index'
  BY <1>1, <1>3, RecordingKept
<1>6. /\ r.kind \in {"load", "replay"}
      /\ r.kind = "load" => a = "get"
  BY <1>1, <1>2 DEF Course, Reading
<1>7. p = NoPayload \/ \E w \in accepted[k] : w.payload = p
  BY <1>1 DEF ConnectorInv, Answered
<1>8. /\ IsRequest(y) /\ y.at = a /\ y.kind = r.kind /\ y.pos = n
      /\ y.keys = r.keys /\ y.loaded = r.loaded /\ y.missing = r.missing
  <2> HIDE DEF a, n, r
  <2>1. /\ IsRequest(x) /\ x.kind = r.kind /\ x.pos = n
        /\ x.keys = r.keys /\ x.loaded = r.loaded /\ x.missing = r.missing
    BY <1>2, PosWritten
  <2> HIDE DEF x
  <2> QED BY <2>1, AtWritten
<1>9. CASE r.kind = "replay"
  <2>1. req' = [req EXCEPT ![t] = y]
    BY <1>9 DEF GetReturns, Set
  <2>2. a = "exists"
    BY <1>9 DEF Reading
  <2>3. RequestOK(y, accepted, client)
    <3>1. accepted[k] # {}
      BY <1>1, <1>2, <1>9 DEF RequestOK, Written
    <3>2. /\ y.keys \in BlockLists /\ y.pos \in Nat \ {0} /\ Len(r.keys) \in Nat
      BY <1>2, <1>8, BlockListType DEF RequestOK
    <3>3. Written(y, accepted)
      <4>1. ASSUME NEW j \in 1..Len(r.keys), j < n PROVE accepted[r.keys[j]] # {}
        <5>1. CASE j = r.pos
          BY <1>2, <3>1, <5>1 DEF KeyAt
        <5>2. CASE j < r.pos
          BY <1>2, <1>9, <5>2 DEF RequestOK, Written
        <5> QED BY <1>2, <3>2, <4>1, <5>1, <5>2
      <4> HIDE DEF y, n
      <4> QED BY <1>8, <1>9, <2>2, <4>1 DEF Written
    <3>4. Course(y, client)
      <4> HIDE DEF y
      <4> QED BY <1>2, <1>8, <1>9, <2>2 DEF Course
    <3> HIDE DEF y, n
    <3> QED BY <1>8, <1>9, <3>2, <3>3, <3>4 DEF RequestOK
  <2> HIDE DEF y
  <2> QED BY <1>1, <1>3, <1>4, <1>5, <2>1, <2>3, BetweenCalls
<1>10. ASSUME NEW s, req' = [req EXCEPT ![t] = s], RequestOK(s, accepted, client)
       PROVE  ConnectorInv'
  BY <1>1, <1>3, <1>4, <1>5, <1>10, BetweenCalls
<1>11. CASE r.kind = "load" /\ p = NoPayload
  <2> DEFINE s == [y EXCEPT !.missing = m]
  <2>1. req' = [req EXCEPT ![t] = s]
    <3>1. req' = [req EXCEPT ![t] = [y EXCEPT !.missing = @ \cup {k}]]
      BY <1>11 DEF GetReturns, Set
    <3> QED BY <1>8, <3>1
  <2> HIDE DEF y, m, r, k, n
  <2>2. /\ IsRequest(s) /\ s.pos = y.pos /\ s.kind = y.kind /\ s.at = y.at
        /\ s.keys = y.keys /\ s.loaded = y.loaded /\ s.missing = m
    BY <1>8, MissingWritten
  <2> HIDE DEF s
  <2>3. RequestOK(s, accepted, client)
    BY <1>2, <1>6, <1>8, <1>11, <2>2, AnswerOK DEF m, n
  <2> QED BY <1>10, <2>1, <2>3
<1>12. CASE r.kind = "load" /\ p # NoPayload
  <2> DEFINE s == [y EXCEPT !.loaded = l]
  <2>1. req' = [req EXCEPT ![t] = s]
    <3>1. req' = [req EXCEPT ![t] = [y EXCEPT !.loaded = Link(@, k, p)]]
      BY <1>12 DEF GetReturns, Set
    <3> QED BY <1>8, <3>1
  <2> HIDE DEF y, l, r, k, n, p
  <2>2. /\ IsRequest(s) /\ s.pos = y.pos /\ s.kind = y.kind /\ s.at = y.at
        /\ s.keys = y.keys /\ s.loaded = l /\ s.missing = y.missing
    BY <1>8, LoadedWritten
  <2> HIDE DEF s
  <2>3. RequestOK(s, accepted, client)
    BY <1>2, <1>6, <1>7, <1>8, <1>12, <2>2, AnswerOK DEF l, n
  <2> QED BY <1>10, <2>1, <2>3
<1> QED BY <1>6, <1>9, <1>11, <1>12

\* What the store still holds was accepted.
LEMMA BackedKept ==
  ASSUME Backed, Shrinks, UNCHANGED accepted
  PROVE  Backed' /\ Resident' \subseteq Resident
<1>1. Resident' \subseteq Resident /\ \A k \in Resident' : blocks'[k].payload = blocks[k].payload
  BY DEF Shrinks, Resident, Store!Resident
<1> QED BY <1>1 DEF Backed

LEMMA PutInv ==
  ASSUME ConnectorInv, todo \in Seq(Key), successor \in EdgeFunctions,
         NEW t \in Thread, Put(t)
  PROVE  ConnectorInv'
<1> DEFINE k == KeyOf(t)
           p == req[t].tensors[req[t].pos]
           w == [payload |-> p, tenant |-> req[t].tenant]
<1>1. /\ holder = NoThread /\ req[t].at = "put" /\ AtKey(t) /\ holder' = t
      /\ Store!Write(k, p, 0, req[t].tenant)
      /\ accepted' = [accepted EXCEPT ![k] = @ \cup {w}]
      /\ req' = [u \in Thread |-> [req[u] EXCEPT !.seen = {}]]
      /\ UNCHANGED <<vars, index, client>>
  BY DEF Put, Turn, Enter, Fixed
<1>2. w.payload = p
  OBVIOUS
<1>3. k \in Key /\ NoThread \notin Thread
  BY <1>1, ThreadFacts, ClientAssumption
<1>4. UNCHANGED <<successor, todo>>
  BY <1>1 DEF vars, edgeVars
<1> HIDE DEF p, w, k
<1>5. /\ Indexed' /\ op' = "Write" /\ blocks'[k].payload = p
      /\ \A j \in Key \ {k} : blocks'[j] = blocks[j]
  <2> DEFINE n == req[t].tenant
  <2>1. Store!Write(k, p, 0, n) /\ Indexed
    BY <1>1 DEF ConnectorInv
  <2> HIDE DEF n
  <2> QED BY <1>3, <2>1, WriteEffect
<1>6. /\ accepted' = [j \in Key |-> accepted'[j]] /\ w \in accepted'[k]
      /\ \A j \in Key : accepted[j] \subseteq accepted'[j]
  <2>1. accepted = [j \in Key |-> accepted[j]]
    BY DEF ConnectorInv, Backed
  <2> QED BY <1>1, <1>3, <2>1
<1>7. ASSUME NEW u \in Thread
      PROVE  /\ IsRequest(req'[u]) /\ req'[u].kind = req[u].kind /\ req'[u].at = req[u].at
             /\ req'[u].pos = req[u].pos /\ req'[u].keys = req[u].keys
             /\ req'[u].loaded = req[u].loaded /\ req'[u].missing = req[u].missing
             /\ RequestOK(req'[u], accepted', client)
             /\ CallOK(req[u], accepted') => CallOK(req'[u], accepted')
  <2> DEFINE s == [req[u] EXCEPT !.seen = {}]
  <2>1. IsRequest(req[u]) /\ RequestOK(req[u], accepted, client)
    BY ThreadFacts
  <2>2. RequestOK(req[u], accepted', client)
    BY <1>6, <2>1, RequestKept
  <2>3. /\ IsRequest(s) /\ s.pos = req[u].pos /\ s.kind = req[u].kind /\ s.at = req[u].at
        /\ s.keys = req[u].keys /\ s.loaded = req[u].loaded /\ s.missing = req[u].missing
    BY <2>1, SeenWritten
  <2>4. req'[u] = s
    BY <1>1
  <2> HIDE DEF s
  <2>5. /\ RequestOK(s, accepted', client)
        /\ CallOK(req[u], accepted') => CallOK(s, accepted')
    BY <2>2, <2>3, SameRequest
  <2> QED BY <2>3, <2>4, <2>5
<1>8. Threads'
  <2>1. CallOK(req[t], accepted')
    BY <1>1, <1>6 DEF CallOK, AtPos, AtKey, KeyAt, KeyOf, k
  <2>2. req' = [u \in Thread |-> req'[u]]
    BY <1>1
  <2> QED BY <1>1, <1>7, <2>1, <2>2 DEF Threads
<1>9. Inside'
  BY <1>1, <1>3 DEF Inside
<1>10. Backed'
  <2>1. ASSUME NEW j \in Resident' PROVE \E v \in accepted'[j] : v.payload = blocks'[j].payload
    <3>1. CASE j = k
      BY <1>2, <1>5, <1>6, <3>1
    <3>2. CASE j # k
      <4>1. j \in Key /\ blocks'[j] = blocks[j] /\ j \in Resident
        BY <1>5, <2>1, <3>2 DEF Resident, Store!Resident
      <4> QED BY <1>6, <4>1 DEF ConnectorInv, Backed
    <3> QED BY <3>1, <3>2
  <2> QED BY <1>6, <2>1 DEF Backed
<1>11. Answered'
  BY <1>1, <1>7 DEF Answered
<1>12. RecordedStored' /\ ChainsWereStored'
  <2>1. \A j \in Key : accepted[j] # {} => accepted'[j] # {}
    BY <1>6
  <2>2. \A j \in 1..Len(todo) : todo[j] \in Key
    OBVIOUS
  <2>3. RecordedStored'
    BY <1>1, <1>4, <2>1, <2>2 DEF ConnectorInv, RecordedStored
  <2>4. \A j \in DOMAIN successor : j \in Key /\ successor[j] \in Key
    BY EdgeFunctionsDef
  <2>5. ChainsWereStored'
    BY <1>1, <1>4, <2>1, <2>4 DEF ConnectorInv, ChainsWereStored
  <2> QED BY <2>3, <2>5
<1>13. IndexCoversStore'
  <2> SUFFICES ASSUME client = "connector", NEW j \in Resident'
               PROVE  j \in index' \/ \E u \in Thread : Writes(u)' /\ j = KeyOf(u)'
    BY <1>1 DEF IndexCoversStore, Writes
  <2>1. CASE j = k
    <3>1. Writes(t)' /\ KeyOf(t)' = k
      BY <1>1, <1>7 DEF Writes, Calling, AtKey, KeyOf, k
    <3> QED BY <2>1, <3>1
  <2>2. CASE j # k
    <3>1. j \in Resident
      BY <1>5, <2>2 DEF Resident, Store!Resident
    <3>2. j \in index \/ \E u \in Thread : Writes(u) /\ j = KeyOf(u)
      BY <3>1 DEF ConnectorInv, IndexCoversStore, Writes
    <3>3. ASSUME NEW u \in Thread, Writes(u) PROVE Writes(u)' /\ KeyOf(u)' = KeyOf(u)
      BY <1>1, <1>3, <1>7, <3>3 DEF Writes, Calling, AtKey, KeyOf
    <3> QED BY <1>1, <3>2, <3>3
  <2> QED BY <2>1, <2>2
<1> QED BY <1>5, <1>8, <1>9, <1>10, <1>11, <1>12, <1>13 DEF ConnectorInv

\* A read begins, and may have its answer at once.
LEMMA GetInv ==
  ASSUME ConnectorInv, NEW t \in Thread, get(t)
  PROVE  ConnectorInv'
<1> DEFINE k == KeyOf(t)
<1>1. /\ holder = NoThread /\ req[t].at = "get" /\ AtKey(t) /\ holder' = t
      /\ \/ Store!ReadMiss(k) \/ Store!ReadFast(k)
         \/ Store!ReadSlowInPlace(k) \/ Store!ReadPromote(k)
      /\ UNCHANGED <<vars, req, index, accepted, client>>
  BY DEF get, Turn, Enter, Fixed
<1>2. k \in Key /\ NoThread \notin Thread
  BY <1>1, ThreadFacts, ClientAssumption
<1> HIDE DEF k
<1>3. UNCHANGED <<successor, todo>>
  BY <1>1 DEF vars, edgeVars
<1>4. /\ Indexed' /\ Shrinks
      /\ \/ op' = "Read" /\ serving' = <<k>>
         \/ op' = "idle" /\ ret'.payload = NoPayload
         \/ op' = "idle" /\ k \in Resident /\ ret'.payload = blocks[k].payload
  BY <1>1, <1>2, ReadEffect DEF ConnectorInv
<1>5. Threads'
  <2>1. CallOK(req[t], accepted)
    BY <1>1 DEF CallOK, AtPos, AtKey
  <2> QED BY <1>1, <2>1 DEF ConnectorInv, Threads
<1>6. Inside'
  BY <1>1, <1>2 DEF Inside
<1>7. Backed' /\ Resident' \subseteq Resident
  BY <1>1, <1>4, BackedKept DEF ConnectorInv
<1>8. Answered'
  <2>1. KeyOf(t)' = k
    BY <1>1 DEF KeyOf, k
  <2>2. k \in Resident => \E w \in accepted[k] : w.payload = blocks[k].payload
    BY DEF ConnectorInv, Backed
  <2> QED BY <1>1, <1>4, <2>1, <2>2 DEF Answered
<1>9. RecordedStored' /\ ChainsWereStored'
  BY <1>1, <1>3, RecordingKept DEF ConnectorInv, ChainsWereStored
<1>10. IndexCoversStore'
  <2>1. \A u \in Thread : Writes(u) => Writes(u)' /\ KeyOf(u)' = KeyOf(u)
    BY <1>1, <1>2 DEF Writes, Calling, AtKey, KeyOf
  <2>2. IndexCoversStore
    BY DEF ConnectorInv
  <2> QED BY <1>1, <1>7, <2>1, <2>2, CoverKept
<1> QED BY <1>4, <1>5, <1>6, <1>7, <1>8, <1>9, <1>10 DEF ConnectorInv

LEMMA StoreWorksInv ==
  ASSUME ConnectorInv, StoreWorks
  PROVE  ConnectorInv'
<1>1. /\ holder # NoThread /\ Store!Locked
      /\ UNCHANGED <<vars, client, holder, req, index, accepted>>
  BY DEF StoreWorks, clientVars
<1>2. UNCHANGED <<successor, todo>>
  BY <1>1 DEF vars, edgeVars
<1>3. Indexed' /\ Shrinks /\ Onward
  BY <1>1, LockedEffect DEF ConnectorInv
<1>4. Threads' /\ Inside'
  BY <1>1 DEF ConnectorInv, Threads, Inside
<1>5. Backed' /\ Resident' \subseteq Resident
  BY <1>1, <1>3, BackedKept DEF ConnectorInv
<1>6. Answered'
  <2> SUFFICES ASSUME NEW t \in Thread, holder = t, req[t].at = "get"
               PROVE  /\ op' = "Read" => serving' = <<KeyOf(t)>>
                      /\ \/ op' # "idle" \/ ret'.payload = NoPayload
                         \/ \E w \in accepted[KeyOf(t)] : w.payload = ret'.payload
    BY <1>1 DEF Answered, KeyOf
  <2>1. /\ op = "Read" => serving = <<KeyOf(t)>>
        /\ \/ op # "idle" \/ ret.payload = NoPayload
           \/ \E w \in accepted[KeyOf(t)] : w.payload = ret.payload
    BY DEF ConnectorInv, Answered
  <2>2. CASE op' = op /\ ret' = ret /\ (op = "Read" => serving' = serving)
    BY <2>1, <2>2
  <2>3. CASE op' = "idle" /\ ret'.payload = NoPayload
    BY <2>3
  <2>4. CASE /\ op = "Read" /\ op' = "idle" /\ Head(serving) \in Resident
             /\ ret'.payload = blocks[Head(serving)].payload
    <3>1. Head(serving) = KeyOf(t)
      BY <2>1, <2>4
    <3> QED BY <2>4, <3>1 DEF ConnectorInv, Backed
  <2> QED BY <1>3, <2>2, <2>3, <2>4 DEF Onward
<1>7. RecordedStored' /\ ChainsWereStored'
  BY <1>1, <1>2, RecordingKept DEF ConnectorInv, ChainsWereStored
<1>8. IndexCoversStore'
  <2>1. \A u \in Thread : Writes(u) => Writes(u)' /\ KeyOf(u)' = KeyOf(u)
    BY <1>1 DEF Writes, Calling, AtKey, KeyOf
  <2>2. IndexCoversStore
    BY DEF ConnectorInv
  <2> QED BY <1>1, <1>5, <2>1, <2>2, CoverKept
<1> QED BY <1>3, <1>4, <1>5, <1>6, <1>7, <1>8 DEF ConnectorInv

\* An edge links two keys of the sequence that is being recorded.
LEMMA PrefetcherWorksInv ==
  ASSUME ConnectorInv, todo \in Seq(Key), PrefetcherWorks
  PROVE  ConnectorInv'
<1>1. /\ InsertEdgeLocked \/ RollOut
      /\ UNCHANGED <<storeVars, client, holder, req, index, accepted>>
  BY DEF PrefetcherWorks, clientVars
<1>2. UNCHANGED <<blocks, victimIndex, tenantIndex, op, serving, ret>> /\ UNCHANGED Store!store
  BY <1>1 DEF storeVars, Store!store
<1>3. Indexed' /\ Threads' /\ Inside' /\ Answered' /\ Backed'
  <2>1. Indexed'
    BY <1>2, QuietShrinks DEF ConnectorInv
  <2>2. Threads' /\ Inside'
    BY <1>1, <1>2 DEF ConnectorInv, Threads, Inside
  <2>3. Answered'
    BY <1>1, <1>2 DEF ConnectorInv, Answered, KeyOf
  <2>4. Backed'
    BY <1>1, <1>2 DEF ConnectorInv, Backed, Resident, Store!Resident
  <2> QED BY <2>1, <2>2, <2>3, <2>4
<1>4. IndexCoversStore'
  <2>1. Resident' = Resident
    BY <1>2 DEF Resident, Store!Resident
  <2>2. \A u \in Thread : Writes(u) => Writes(u)' /\ KeyOf(u)' = KeyOf(u)
    BY <1>1 DEF Writes, Calling, AtKey, KeyOf
  <2>3. IndexCoversStore
    BY DEF ConnectorInv
  <2> QED BY <1>1, <2>1, <2>2, <2>3, CoverKept
<1>5. CASE InsertEdgeLocked
  <2> DEFINE from == todo[1]
             to == todo[2]
  <2>1. Len(todo) >= 2 /\ successor' = Link(successor, from, to) /\ todo' = Tail(todo)
    BY <1>5 DEF InsertEdgeLocked
  <2>2. 1 \in 1..Len(todo) /\ 2 \in 1..Len(todo) /\ Len(todo) \in Nat
    BY <2>1
  <2>3. client # "caller" => accepted[from] # {} /\ accepted[to] # {}
    BY <2>2 DEF ConnectorInv, RecordedStored
  <2>4. Len(todo') = Len(todo) - 1 /\ \A j \in 1..(Len(todo) - 1) : todo'[j] = todo[j + 1]
    BY <2>1, <2>2
  <2>5. RecordedStored'
    <3> SUFFICES ASSUME client # "caller", NEW j \in 1..Len(todo') PROVE accepted[todo'[j]] # {}
      BY <1>1 DEF RecordedStored
    <3>1. j + 1 \in 1..Len(todo) /\ todo'[j] = todo[j + 1]
      BY <2>2, <2>4
    <3> QED BY <3>1 DEF ConnectorInv, RecordedStored
  <2> HIDE DEF from, to
  <2>6. /\ DOMAIN successor' = DOMAIN successor \cup {from} /\ successor'[from] = to
        /\ \A j \in DOMAIN successor \ {from} : successor'[j] = successor[j]
    BY <2>1 DEF Link
  <2>7. ChainsWereStored'
    BY <1>1, <2>3, <2>6 DEF ConnectorInv, ChainsWereStored
  <2> QED BY <1>3, <1>4, <2>5, <2>7 DEF ConnectorInv
<1>6. CASE RollOut
  <2>1. /\ DOMAIN successor' \subseteq DOMAIN successor /\ todo' = todo
        /\ \A j \in DOMAIN successor' : successor'[j] = successor[j]
    BY <1>6 DEF RollOut
  <2>2. RecordedStored'
    BY <1>1, <2>1, RecordingKept
  <2>3. ChainsWereStored'
    BY <1>1, <2>1 DEF ConnectorInv, ChainsWereStored
  <2> QED BY <1>3, <1>4, <2>2, <2>3 DEF ConnectorInv
<1> QED BY <1>1, <1>5, <1>6

----------------------------------------------------------------------------
(* The clients *)

LEMMA ConnectorInitInv == ConnectorInit => ConnectorInv
<1> SUFFICES ASSUME ConnectorInit PROVE ConnectorInv
  OBVIOUS
<1>1. /\ blocks = [k \in Key |-> Store!NoBlock] /\ op = "idle"
      /\ victimIndex = [t \in Store!Tier |-> {}]
      /\ tenantIndex = [t \in Store!Tier |-> [n \in Tenant |-> {}]]
      /\ holder = NoThread /\ req = [t \in Thread |-> NoRequest]
      /\ accepted = [k \in Key |-> {}] /\ todo = <<>> /\ successor = NoEdges
  BY DEF ConnectorInit, Init, Store!Init
<1>2. NoThread \notin Thread
  BY ClientAssumption
<1>3. IsBlock(Store!NoBlock) /\ Store!NoBlock.tier = Store!NoTier
  BY DEF IsBlock, Store!NoBlock
<1>4. Indexed
  BY <1>1, <1>3 DEF Indexed
<1>5. Resident = {}
  BY <1>1, <1>3 DEF Resident, Store!Resident
<1>6. Threads
  BY <1>1, NoRequestOK DEF Threads
<1>7. Inside /\ Answered
  BY <1>1, <1>2 DEF Inside, Answered
<1>8. Backed
  BY <1>1, <1>5 DEF Backed
<1>9. RecordedStored /\ ChainsWereStored /\ IndexCoversStore
  BY <1>1, <1>5 DEF RecordedStored, ChainsWereStored, NoEdges, IndexCoversStore
<1> QED BY <1>4, <1>6, <1>7, <1>8, <1>9 DEF ConnectorInv

LEMMA ConnectorNextInv ==
  ASSUME ConnectorInv, EdgesInv, [ConnectorNext]_connectorVars
  PROVE  ConnectorInv'
<1>1. todo \in Seq(Key) /\ successor \in EdgeFunctions
  BY DEF EdgesInv, TypeOK
<1>2. CASE UNCHANGED connectorVars
  <2>1. /\ UNCHANGED <<client, holder, req, index, accepted>>
        /\ UNCHANGED <<blocks, victimIndex, tenantIndex, op, serving, ret>>
        /\ UNCHANGED Store!store /\ UNCHANGED <<successor, todo>>
    BY <1>2 DEF connectorVars, clientVars, storeVars, vars, edgeVars, Store!store
  <2>2. Indexed'
    BY <2>1, QuietShrinks DEF ConnectorInv
  <2>3. Threads' /\ Inside' /\ RecordedStored' /\ ChainsWereStored'
    BY <2>1 DEF ConnectorInv, Threads, Inside, RecordedStored, ChainsWereStored
  <2>4. Answered'
    BY <2>1 DEF ConnectorInv, Answered, KeyOf
  <2>5. Backed'
    BY <2>1 DEF ConnectorInv, Backed, Resident, Store!Resident
  <2>6. IndexCoversStore'
    BY <2>1 DEF ConnectorInv, IndexCoversStore, Calling, AtKey, KeyOf, Resident, Store!Resident
  <2> QED BY <2>2, <2>3, <2>4, <2>5, <2>6 DEF ConnectorInv
<1>3. ASSUME NEW t \in Thread, Proceed(t) PROVE ConnectorInv'
  BY <1>1, <1>3, PutInv, PutRaisesInv, PutReturnsInv, RegisterInv, RecordSequenceInv,
     RecordReturnsInv, PrefetchInv, PrefetchReturnsInv, PrefetchChainInv, ExistsInv,
     GetInv, GetReturnsInv, LoadReturnsInv DEF Proceed
<1>4. ASSUME NEW t \in Thread, NEW keys \in BlockLists, Arrive(t, keys) PROVE ConnectorInv'
  BY <1>4, ArriveInv
<1>5. ASSUME NEW t \in Thread, NEW keys \in KeySequences, RecordDirectly(t, keys)
      PROVE  ConnectorInv'
  BY <1>5, RecordDirectlyInv
<1>6. CASE StoreWorks
  BY <1>6, StoreWorksInv
<1>7. CASE PrefetcherWorks
  BY <1>1, <1>7, PrefetcherWorksInv
<1> QED BY <1>2, <1>3, <1>4, <1>5, <1>6, <1>7 DEF ConnectorNext

\* A step of the clients is one of the prefetcher, or leaves it alone.
LEMMA StepRecords ==
  ASSUME ConnectorInv, [ConnectorNext]_connectorVars
  PROVE  [Next]_vars
<1>1. CASE UNCHANGED connectorVars
  BY <1>1 DEF connectorVars
<1>2. ASSUME NEW t \in Thread, Proceed(t) PROVE [Next]_vars
  <2>1. CASE record_sequence(t)
    <3>1. req[t].keys \in KeySequences
      BY ThreadFacts, BlockListType
    <3> QED BY <2>1, <3>1 DEF record_sequence, Next
  <2>2. CASE ~record_sequence(t)
    BY <1>2, <2>2 DEF Proceed, Put, PutRaises, PutReturns, register_block, RecordReturns,
       prefetch, PrefetchReturns, prefetch_chain_multi, exists, get, GetReturns, LoadReturns
  <2> QED BY <2>1, <2>2
<1>3. ASSUME NEW t \in Thread, NEW keys \in BlockLists, Arrive(t, keys) PROVE [Next]_vars
  BY <1>3 DEF Arrive, store_kv, load_kv, replay, replay_pair, Begin
<1>4. ASSUME NEW t \in Thread, NEW keys \in KeySequences, RecordDirectly(t, keys)
      PROVE  [Next]_vars
  BY <1>4 DEF RecordDirectly, Next
<1>5. CASE StoreWorks
  BY <1>5 DEF StoreWorks
<1>6. CASE PrefetcherWorks
  BY <1>6 DEF PrefetcherWorks, Next
<1> QED BY <1>1, <1>2, <1>3, <1>4, <1>5, <1>6 DEF ConnectorNext

LEMMA ClientsInv == ConnectorSpec => [](ConnectorInv /\ EdgesInv)
<1>1. ConnectorInit => ConnectorInv /\ EdgesInv
  BY ConnectorInitInv, InitInv DEF ConnectorInit
<1>2. ConnectorInv /\ EdgesInv /\ [ConnectorNext]_connectorVars => (ConnectorInv /\ EdgesInv)'
  BY ConnectorNextInv, StepRecords, NextKeepsInv
<1> QED BY <1>1, <1>2, PTL DEF ConnectorSpec

\* The connector, the replays and direct callers use the prefetcher as its
\* specification says: what they make of record_sequence, interleaved with
\* calls of the store, is recordings of lists of keys, one after the other.
THEOREM ClientsRecord == ConnectorSpec => Spec
<1>1. ConnectorInit => Init
  BY DEF ConnectorInit
<1>2. ConnectorInv /\ EdgesInv /\ [ConnectorNext]_connectorVars => [Next]_vars
  BY StepRecords
<1> QED BY <1>1, <1>2, ClientsInv, PTL DEF ConnectorSpec, Spec

----------------------------------------------------------------------------
(* The clients as callers of the store *)

\* A request that puts blocks has a tenant and a block for every key.
Carries(r) ==
  r.kind \in {"store", "replay"} =>
    r.tenant \in Tenant /\ \A j \in 1..Len(r.keys) : r.tensors[j] \in Payload

Carried == \A t \in Thread : Carries(req[t])

SameLoad(r, s) ==
  s.kind = r.kind /\ s.keys = r.keys /\ s.tensors = r.tensors /\ s.tenant = r.tenant

LEMMA LoadWritten ==
  ASSUME NEW r, IsRequest(r), NEW v, NEW w
  PROVE  /\ SameLoad(r, [r EXCEPT !.at = v]) /\ IsRequest([r EXCEPT !.at = v])
         /\ SameLoad(r, [r EXCEPT !.pos = v]) /\ IsRequest([r EXCEPT !.pos = v])
         /\ SameLoad(r, [r EXCEPT !.at = v, !.pos = w])
         /\ IsRequest([r EXCEPT !.at = v, !.pos = w])
         /\ SameLoad(r, [r EXCEPT !.pos = v, !.at = w])
         /\ IsRequest([r EXCEPT !.pos = v, !.at = w])
         /\ SameLoad(r, [r EXCEPT !.at = v, !.seen = w])
         /\ SameLoad(r, [r EXCEPT !.seen = v])
         /\ SameLoad(r, [r EXCEPT !.loaded = v])
         /\ SameLoad(r, [r EXCEPT !.missing = v])
<1>1. SameLoad(r, [r EXCEPT !.at = v]) /\ IsRequest([r EXCEPT !.at = v])
  BY DEF IsRequest, SameLoad
<1>2. SameLoad(r, [r EXCEPT !.pos = v]) /\ IsRequest([r EXCEPT !.pos = v])
  BY DEF IsRequest, SameLoad
<1>3. /\ SameLoad(r, [r EXCEPT !.at = v, !.pos = w])
      /\ IsRequest([r EXCEPT !.at = v, !.pos = w])
  <2> DEFINE a == [r EXCEPT !.at = v]
             s == [a EXCEPT !.pos = w]
  <2>1. [r EXCEPT !.at = v, !.pos = w] = s
    OBVIOUS
  <2>2. SameLoad(r, a) /\ IsRequest(a)
    BY <1>1
  <2> HIDE DEF a
  <2>3. SameLoad(a, s) /\ IsRequest(s)
    BY <2>2 DEF IsRequest, SameLoad
  <2> HIDE DEF s
  <2> QED BY <2>1, <2>2, <2>3 DEF SameLoad
<1>4. /\ SameLoad(r, [r EXCEPT !.pos = v, !.at = w])
      /\ IsRequest([r EXCEPT !.pos = v, !.at = w])
  <2> DEFINE a == [r EXCEPT !.pos = v]
             s == [a EXCEPT !.at = w]
  <2>1. [r EXCEPT !.pos = v, !.at = w] = s
    OBVIOUS
  <2>2. SameLoad(r, a) /\ IsRequest(a)
    BY <1>2
  <2> HIDE DEF a
  <2>3. SameLoad(a, s) /\ IsRequest(s)
    BY <2>2 DEF IsRequest, SameLoad
  <2> HIDE DEF s
  <2> QED BY <2>1, <2>2, <2>3 DEF SameLoad
<1>5. SameLoad(r, [r EXCEPT !.at = v, !.seen = w]) /\ SameLoad(r, [r EXCEPT !.seen = v])
  BY DEF IsRequest, SameLoad
<1>6. SameLoad(r, [r EXCEPT !.loaded = v]) /\ SameLoad(r, [r EXCEPT !.missing = v])
  BY DEF IsRequest, SameLoad
<1> QED BY <1>1, <1>2, <1>3, <1>4, <1>5, <1>6

LEMMA CarriedSet ==
  ASSUME ConnectorInv, Carried, NEW t \in Thread, NEW r, Set(t, r),
         SameLoad(req[t], r) \/ Carries(r)
  PROVE  Carried'
<1>1. \A u \in Thread : req'[u] = IF u = t THEN r ELSE req[u]
  BY DEF ConnectorInv, Threads, Set
<1>2. Carries(r)
  BY DEF SameLoad, Carries, Carried
<1>3. ASSUME NEW u \in Thread PROVE Carries(req'[u])
  BY <1>1, <1>2 DEF Carried
<1> QED BY <1>3 DEF Carried, Carries

LEMMA BeginCarries ==
  ASSUME ConnectorInv, Carried, NEW t \in Thread, NEW keys \in BlockLists, NEW tensors,
         NEW tenant, NEW kind, NEW at, Begin(t, kind, at, keys, tensors, tenant),
         kind \in {"store", "replay"} =>
           tenant \in Tenant /\ \A j \in 1..Len(keys) : tensors[j] \in Payload
  PROVE  Carried'
<1> DEFINE seen == IF kind = "load" THEN Resident ELSE {}
           r == Request(kind, at, keys, tensors, tenant, seen)
<1>1. Set(t, r)
  BY DEF Begin
<1>2. r.kind = kind /\ r.keys = keys /\ r.tensors = tensors /\ r.tenant = tenant
  BY DEF Request
<1> HIDE DEF r
<1> QED BY <1>1, <1>2, CarriedSet DEF Carries

LEMMA ArriveCarries ==
  ASSUME ConnectorInv, Carried, NEW t \in Thread, NEW keys \in BlockLists, Arrive(t, keys)
  PROVE  Carried'
<1>1. /\ Len(keys) \in Nat /\ DOMAIN keys = 1..Len(keys)
      /\ 0 \in Tenant /\ 1 \in Tenant /\ 2 \in Tenant /\ Block \in Payload
  BY BlockListType, ClientAssumption
<1>2. ASSUME NEW tensors \in Tensors, store_kv(t, keys, tensors) PROVE Carried'
  <2>1. PICK n \in 0..MaxBlocks : tensors \in [1..n -> Payload]
    BY DEF Tensors
  <2>2. n \in Nat
    BY ClientAssumption
  <2>3. Len(tensors) = n
    BY <2>1, <2>2
  <2>4. CASE Len(keys) = Len(tensors)
    <3>1. Begin(t, "store", "put", keys, tensors, 0)
      BY <1>2, <2>4 DEF store_kv
    <3>2. \A j \in 1..Len(keys) : tensors[j] \in Payload
      BY <2>1, <2>3, <2>4
    <3> QED BY <1>1, <3>1, <3>2, BeginCarries
  <2>5. CASE Len(keys) # Len(tensors)
    <3>1. Begin(t, "none", "none", keys, tensors, 0)
      BY <1>2, <2>5 DEF store_kv
    <3> QED BY <3>1, BeginCarries
  <2> QED BY <2>4, <2>5
<1>3. CASE load_kv(t, keys)
  <2>1. PICK at : Begin(t, "load", at, keys, <<>>, 0)
    BY <1>3 DEF load_kv
  <2> QED BY <2>1, BeginCarries
<1> DEFINE filled == [i \in DOMAIN keys |-> Block]
<1>4. \A j \in 1..Len(keys) : filled[j] \in Payload
  BY <1>1
<1>5. CASE replay(t, keys)
  <2>1. Begin(t, "replay", "chain", keys, filled, 0)
    BY <1>5 DEF replay
  <2> HIDE DEF filled
  <2> QED BY <1>1, <1>4, <2>1, BeginCarries
<1>6. ASSUME NEW tenant \in {1, 2}, replay_pair(t, keys, tenant) PROVE Carried'
  <2>1. Begin(t, "replay", "chain", keys, filled, tenant)
    BY <1>6 DEF replay_pair
  <2>2. tenant \in Tenant
    BY <1>1
  <2> HIDE DEF filled
  <2> QED BY <1>4, <2>1, <2>2, BeginCarries
<1> QED BY <1>2, <1>3, <1>5, <1>6 DEF Arrive

LEMMA ProceedCarries ==
  ASSUME ConnectorInv, Carried, NEW t \in Thread, Proceed(t)
  PROVE  Carried'
<1> DEFINE r == req[t]
<1>1. IsRequest(r) /\ \A u \in Thread : IsRequest(req[u])
  BY ThreadFacts
<1>2. Carries(NoRequest)
  BY DEF Carries, NoRequest, Request
<1>3. ASSUME UNCHANGED req PROVE Carried'
  BY <1>3 DEF Carried, Carries
<1>4. ASSUME NEW s, Set(t, s), SameLoad(r, s) \/ Carries(s) PROVE Carried'
  BY <1>4, CarriedSet
<1>5. ASSUME NEW at, GoTo(t, at) PROVE Carried'
  <2>1. Set(t, [r EXCEPT !.at = at])
    BY <1>5 DEF GoTo
  <2> HIDE DEF r
  <2> QED BY <1>1, <1>4, <2>1, LoadWritten
<1>6. ASSUME NEW at, NextKey(t, at) PROVE Carried'
  <2>1. Set(t, [r EXCEPT !.at = at, !.pos = r.pos + 1])
    BY <1>6 DEF NextKey
  <2> HIDE DEF r
  <2> QED BY <1>1, <1>4, <2>1, LoadWritten
<1>7. ASSUME Set(t, NoRequest) PROVE Carried'
  <2> HIDE DEF NoRequest
  <2> QED BY <1>2, <1>4, <1>7
<1>8. CASE Put(t)
  <2>1. req' = [u \in Thread |-> [req[u] EXCEPT !.seen = {}]]
    BY <1>8 DEF Put
  <2>2. ASSUME NEW u \in Thread PROVE Carries(req'[u])
    <3> DEFINE q == req[u]
               s == [q EXCEPT !.seen = {}]
    <3>1. req'[u] = s
      BY <2>1
    <3>2. SameLoad(q, s)
      <4> HIDE DEF q
      <4>1. IsRequest(q)
        BY <1>1 DEF q
      <4> QED BY <4>1, LoadWritten
    <3>3. Carries(q)
      BY DEF Carried
    <3> HIDE DEF q, s
    <3> QED BY <3>1, <3>2, <3>3 DEF Carries, SameLoad
  <2> QED BY <2>2 DEF Carried, Carries
<1>9. CASE PutRaises(t) \/ RecordReturns(t) \/ LoadReturns(t)
  BY <1>7, <1>9 DEF PutRaises, RecordReturns, LoadReturns
<1>10. CASE PutReturns(t)
  BY <1>5, <1>6, <1>10 DEF PutReturns
<1>11. CASE register_block(t)
  BY <1>6, <1>11 DEF register_block
<1>12. CASE record_sequence(t)
  BY <1>5, <1>7, <1>12 DEF record_sequence
<1>13. CASE prefetch(t) \/ get(t)
  BY <1>3, <1>13 DEF prefetch, get
<1>14. CASE PrefetchReturns(t)
  BY <1>5, <1>14 DEF PrefetchReturns
<1>15. CASE prefetch_chain_multi(t)
  BY <1>3, <1>5, <1>15 DEF prefetch_chain_multi
<1>16. CASE exists(t)
  <2>1. \/ Set(t, [r EXCEPT !.at = "get", !.seen = {KeyOf(t)}])
        \/ Set(t, [r EXCEPT !.at = "put"])
    BY <1>16 DEF exists
  <2> HIDE DEF r
  <2> QED BY <1>1, <1>4, <2>1, LoadWritten
<1>17. CASE GetReturns(t)
  <2> DEFINE q == [r EXCEPT !.pos = r.pos + 1, !.at = Reading(t)]
             k == KeyOf(t)
  <2>1. \/ Set(t, q) \/ Set(t, [q EXCEPT !.missing = q.missing \cup {k}])
        \/ Set(t, [q EXCEPT !.loaded = Link(q.loaded, k, ret.payload)])
    BY <1>17 DEF GetReturns
  <2>2. SameLoad(r, q) /\ IsRequest(q)
    <3> HIDE DEF r
    <3> QED BY <1>1, LoadWritten
  <2> HIDE DEF q, r
  <2>3. /\ SameLoad(q, [q EXCEPT !.missing = q.missing \cup {k}])
        /\ SameLoad(q, [q EXCEPT !.loaded = Link(q.loaded, k, ret.payload)])
    BY <2>2, LoadWritten
  <2>4. /\ SameLoad(r, [q EXCEPT !.missing = q.missing \cup {k}])
        /\ SameLoad(r, [q EXCEPT !.loaded = Link(q.loaded, k, ret.payload)])
    BY <2>2, <2>3 DEF SameLoad
  <2> QED BY <1>4, <2>1, <2>2, <2>4
<1> QED BY <1>8, <1>9, <1>10, <1>11, <1>12, <1>13, <1>14, <1>15, <1>16, <1>17 DEF Proceed

LEMMA CarriedStep ==
  ASSUME ConnectorInv, Carried, [ConnectorNext]_connectorVars
  PROVE  Carried'
<1>1. CASE UNCHANGED req
  BY <1>1 DEF Carried, Carries
<1>2. ASSUME NEW t \in Thread, NEW keys \in KeySequences, RecordDirectly(t, keys)
      PROVE  Carried'
  <2> DEFINE r == req[t]
  <2>1. Set(t, [r EXCEPT !.at = "record"]) /\ IsRequest(r)
    BY <1>2, ThreadFacts DEF RecordDirectly, GoTo
  <2> HIDE DEF r
  <2>2. SameLoad(r, [r EXCEPT !.at = "record"])
    BY <2>1, LoadWritten
  <2> QED BY <2>1, <2>2, CarriedSet DEF r
<1>3. CASE UNCHANGED connectorVars \/ StoreWorks \/ PrefetcherWorks
  BY <1>1, <1>3 DEF connectorVars, clientVars, StoreWorks, PrefetcherWorks
<1> QED BY <1>2, <1>3, ProceedCarries, ArriveCarries DEF ConnectorNext

\* Different keys are not more than there are.
LEMMA DistinctIsList ==
  ASSUME NEW s \in Seq(Key), IsInjective(s)
  PROVE  s \in Store!KeyLists
<1>1. Len(s) \in Nat /\ DOMAIN s = 1..Len(s) /\ s \in [1..Len(s) -> Key]
  OBVIOUS
<1>2. s \in Injection(1..Len(s), Key)
  BY <1>1 DEF Injection, IsInjective
<1>3. IsFiniteSet(1..Len(s)) /\ Cardinality(1..Len(s)) = Len(s)
  BY <1>1, FS_Interval
<1>4. /\ IsFiniteSet(Key) /\ Cardinality(Key) \in Nat /\ MaxPredicted \in Nat
      /\ Cardinality(Key) <= MaxPredicted
  BY ClientAssumption, FS_CardinalityType
<1>5. Len(s) <= Cardinality(Key)
  <2>1. Cardinality(1..Len(s)) <= Cardinality(Key)
    BY <1>2, <1>4, FS_Injection
  <2> QED BY <1>3, <2>1
<1>6. Len(s) \in 0..MaxPredicted
  BY <1>1, <1>4, <1>5
<1> QED BY <1>1, <1>6 DEF Store!KeyLists

LEMMA StepUsesStore ==
  ASSUME ConnectorInv, EdgesInv, Carried, [ConnectorNext]_connectorVars
  PROVE  [Store!Next]_(Store!vars)
<1>1. ASSUME UNCHANGED storeVars PROVE UNCHANGED Store!vars
  BY <1>1 DEF storeVars, Store!vars, Store!store, Store!queues, Store!control
<1>2. CASE UNCHANGED connectorVars \/ PrefetcherWorks
  BY <1>1, <1>2 DEF connectorVars, PrefetcherWorks
<1>3. CASE StoreWorks
  BY <1>3 DEF StoreWorks, Store!Next
<1>4. ASSUME NEW t \in Thread, NEW keys \in KeySequences, RecordDirectly(t, keys)
      PROVE  UNCHANGED Store!vars
  BY <1>1, <1>4 DEF RecordDirectly
<1>5. ASSUME NEW t \in Thread, NEW keys \in BlockLists, Arrive(t, keys)
      PROVE  UNCHANGED Store!vars
  BY <1>1, <1>5 DEF Arrive, store_kv, load_kv, replay, replay_pair, Begin
<1>6. ASSUME NEW t \in Thread, Proceed(t) PROVE [Store!Next]_(Store!vars)
  <2>1. /\ req[t].keys \in Seq(Key) /\ IsInjective(req[t].keys)
        /\ Course(req[t], client) /\ req[t].pos \in Nat \ {0}
        /\ AtKey(t) => KeyOf(t) \in Key
    BY ThreadFacts, BlockListType DEF BlockLists
  <2>2. ASSUME req[t].at = "put", AtKey(t)
        PROVE  /\ req[t].tensors[req[t].pos] \in Payload /\ req[t].tenant \in Tenant
               /\ 0 \in Store!Tier
    <3>1. req[t].kind \in {"store", "replay"}
      BY <2>1, <2>2 DEF Course
    <3>2. req[t].pos \in 1..Len(req[t].keys)
      BY <2>1, <2>2 DEF AtKey
    <3> QED BY <3>1, <3>2 DEF Carried, Carries, Store!Tier
  <2>3. CASE Put(t)
    <3>1. /\ req[t].at = "put" /\ AtKey(t)
          /\ Store!Write(KeyOf(t), req[t].tensors[req[t].pos], 0, req[t].tenant)
      BY <2>3 DEF Put, Turn
    <3> QED BY <2>1, <2>2, <3>1 DEF Store!Next, Store!Start
  <2>4. CASE PutRaises(t)
    <3>1. /\ req[t].at = "put" /\ AtKey(t)
          /\ Store!WriteRejected(req[t].tensors[req[t].pos], 0)
      BY <2>4 DEF PutRaises, Turn
    <3> QED BY <2>2, <3>1 DEF Store!Next, Store!Start
  <2>5. CASE prefetch(t)
    <3>1. Store!Prefetch(req[t].keys) /\ req[t].keys \in Store!KeyLists
      BY <2>1, <2>5, DistinctIsList DEF prefetch
    <3> QED BY <3>1 DEF Store!Next, Store!Start
  <2>6. CASE prefetch_chain_multi(t)
    <3> DEFINE chain == PredictChainMulti(req[t].keys, Budget)
    <3>1. UNCHANGED storeVars \/ Store!Prefetch(chain)
      BY <2>6 DEF prefetch_chain_multi
    <3>2. chain \in Distinct
      <4>1. TypeOK /\ Budget \in Nat
        BY ClientAssumption DEF EdgesInv
      <4> QED BY <2>1, <4>1, MultiMerges
    <3>3. chain \in Store!KeyLists
      <4> HIDE DEF chain
      <4> QED BY <3>2, DistinctIsList DEF Distinct
    <3> HIDE DEF chain
    <3> QED BY <1>1, <3>1, <3>3 DEF Store!Next, Store!Start
  <2>7. CASE get(t)
    BY <2>1, <2>7 DEF get, Store!Next, Store!Start
  <2>8. CASE \/ PutReturns(t) \/ register_block(t) \/ record_sequence(t) \/ RecordReturns(t)
             \/ PrefetchReturns(t) \/ exists(t) \/ GetReturns(t) \/ LoadReturns(t)
    BY <1>1, <2>8 DEF PutReturns, register_block, record_sequence, RecordReturns,
       PrefetchReturns, exists, GetReturns, LoadReturns
  <2> QED BY <1>6, <2>3, <2>4, <2>5, <2>6, <2>7, <2>8 DEF Proceed
<1> QED BY <1>2, <1>3, <1>4, <1>5, <1>6 DEF ConnectorNext

\* The store under the connector, the replays and direct callers is used as its
\* specification says: whatever is put, read and prefetched along predicted
\* chains, by however many threads, is calls of TieredStorage one after the
\* other, so all that is proved of it holds under its clients.
THEOREM ClientsUseStore == ConnectorSpec => Store!Spec
<1>1. ConnectorInit => Carried /\ Store!Init
  <2>1. ASSUME ConnectorInit PROVE Carried
    <3>1. NoRequest.kind = "none" /\ \A t \in Thread : req[t] = NoRequest
      BY <2>1 DEF ConnectorInit, NoRequest, Request
    <3> QED BY <3>1 DEF Carried, Carries
  <2> QED BY <2>1 DEF ConnectorInit
<1>2. ConnectorInv /\ EdgesInv /\ Carried /\ [ConnectorNext]_connectorVars
        => Carried' /\ [Store!Next]_(Store!vars)
  BY CarriedStep, StepUsesStore
<1> QED BY <1>1, <1>2, ClientsInv, PTL DEF ConnectorSpec, Store!Spec

\* So the table of edges is sound in every state of the clients.
THEOREM ClientsKeepTable == ConnectorSpec => []TableSound
BY ClientsRecord, TableKept, PTL

\* No block is in the store of a connector without being in the index, or
\* about to be registered by the store_kv that wrote it, whatever puts raise.
THEOREM IndexSound == ConnectorSpec => []IndexCoversStore
<1>1. ConnectorInv /\ EdgesInv => IndexCoversStore
  BY DEF ConnectorInv
<1> QED BY <1>1, ClientsInv, PTL

\* The successor graph of the connector and of the replays links blocks that
\* were stored, so what load_kv prefetches along it was written by someone.
THEOREM ChainsSound == ConnectorSpec => []ChainsWereStored
<1>1. ConnectorInv /\ EdgesInv => ChainsWereStored
  BY DEF ConnectorInv
<1> QED BY <1>1, ClientsInv, PTL

\* load_kv has every key it has been through in loaded or in missing, not in
\* both, and what it loaded under a key was accepted for that key, whatever
\* the other threads do between its calls.
THEOREM LoadsAccounted == ConnectorSpec => []LoadAccounts
<1>1. ConnectorInv /\ EdgesInv => LoadAccounts
  BY DEF ConnectorInv, Threads, RequestOK, Accounted, LoadAccounts
<1> QED BY <1>1, ClientsInv, PTL

PredictionsAlways ==
  \A n \in Nat : ChainExact(n) /\ \A anchors \in Seq(Key) : MultiIsUnion(anchors, n)

\* The predictions the clients use are exact in every state they ask for them:
\* a chain is the path of edges from its head and ends only at the budget,
\* where there is no edge, or before it would return to its head; the chains
\* of any list of anchors are merged without loss and without repetition.
THEOREM ChainsExact == ConnectorSpec => []PredictionsAlways
<1>1. ConnectorInv /\ EdgesInv => PredictionsAlways
  <2>1. EdgesInv => TypeOK
    BY DEF EdgesInv
  <2> QED BY <2>1, ChainIsExact, MultiMerges DEF PredictionsAlways
<1> QED BY <1>1, ClientsInv, PTL

\* The same as the run states it, for the budgets of the instance.
THEOREM PredictionsSound == ConnectorSpec => []PredictionsExact
<1>1. PredictionsAlways => PredictionsExact
  <2> SUFFICES ASSUME PredictionsAlways PROVE PredictionsExact
    OBVIOUS
  <2>1. \A a, b \in Key : <<a, b>> \in Seq(Key)
    OBVIOUS
  <2>2. ASSUME NEW n \in Budgets
        PROVE  ChainExact(n) /\ \A a, b \in Key : MultiIsUnion(<<a, b>>, n)
    BY <2>1, <2>2, ClientAssumption DEF PredictionsAlways
  <2> QED BY <2>2 DEF PredictionsExact
<1> QED BY <1>1, ChainsExact, PTL

----------------------------------------------------------------------------
(* What was seen is read *)

\* What the theorems of the store's own module say of it.
StoreSound == Store!TypeOK /\ Store!VictimFound

\* What a request has seen is in the store, and nothing was written since.
SeenIn(r) == r.seen \subseteq Resident /\ (op = "Write" => r.seen = {})

\* A thread in get is answered with a block if it has seen one.
SeenAnswered(t) ==
  holder = t /\ req[t].at = "get" =>
    /\ op \in {"idle", "Read"}
    /\ op = "idle" /\ KeyOf(t) \in req[t].seen => ret.payload # NoPayload

SeenInv == \A t \in Thread : SeenIn(req[t]) /\ SeenAnswered(t)

SameSeen(r, s) == s.seen = r.seen

LEMMA SeenFields ==
  ASSUME NEW r, IsRequest(r), NEW v, NEW w
  PROVE  /\ SameSeen(r, [r EXCEPT !.at = v])
         /\ SameSeen(r, [r EXCEPT !.at = v, !.pos = w])
         /\ SameSeen(r, [r EXCEPT !.pos = v, !.at = w])
         /\ SameSeen(r, [r EXCEPT !.loaded = v])
         /\ SameSeen(r, [r EXCEPT !.missing = v])
         /\ [r EXCEPT !.seen = v].seen = v
         /\ [r EXCEPT !.at = v, !.seen = w].seen = w
<1>1. /\ SameSeen(r, [r EXCEPT !.at = v])
      /\ SameSeen(r, [r EXCEPT !.loaded = v])
      /\ SameSeen(r, [r EXCEPT !.missing = v])
      /\ [r EXCEPT !.seen = v].seen = v
  BY DEF IsRequest, SameSeen
<1>2. /\ SameSeen(r, [r EXCEPT !.at = v, !.pos = w])
      /\ SameSeen(r, [r EXCEPT !.pos = v, !.at = w])
  BY DEF IsRequest, SameSeen
<1>3. [r EXCEPT !.at = v, !.seen = w].seen = w
  BY DEF IsRequest
<1> QED BY <1>1, <1>2, <1>3

\* A step that changes one request, no block, and leaves no thread in get.
LEMMA SeenSet ==
  ASSUME ConnectorInv, SeenInv, NEW t \in Thread, NEW r, Set(t, r),
         UNCHANGED blocks, op' # "Write", r.seen \subseteq Resident,
         holder' \in {NoThread, t}, holder' = t => r.at # "get"
  PROVE  SeenInv'
<1>1. \A u \in Thread : req'[u] = IF u = t THEN r ELSE req[u]
  BY DEF ConnectorInv, Threads, Set
<1>2. Resident' = Resident
  BY DEF Resident, Store!Resident
<1>3. NoThread \notin Thread
  BY ClientAssumption
<1>4. ASSUME NEW u \in Thread PROVE SeenIn(req[u])' /\ SeenAnswered(u)'
  <2>1. req'[u].seen \subseteq Resident
    BY <1>1 DEF SeenInv, SeenIn
  <2>2. holder' = u => req'[u].at # "get"
    BY <1>1, <1>3
  <2> QED BY <1>2, <2>1, <2>2 DEF SeenIn, SeenAnswered
<1> QED BY <1>4 DEF SeenInv

LEMMA SeenSame ==
  ASSUME SeenInv, UNCHANGED <<blocks, req>>, op' # "Write",
         \A t \in Thread : holder' = t => req[t].at # "get"
  PROVE  SeenInv'
<1>1. Resident' = Resident
  BY DEF Resident, Store!Resident
<1>2. ASSUME NEW u \in Thread PROVE SeenIn(req[u])' /\ SeenAnswered(u)'
  BY <1>1 DEF SeenIn, SeenAnswered, SeenInv
<1> QED BY <1>2 DEF SeenInv

\* The steps of a thread between its calls, and the ends of its calls.
LEMMA SeenProceeds ==
  ASSUME ConnectorInv, SeenInv, NEW t \in Thread,
         \/ PutRaises(t) \/ PutReturns(t) \/ register_block(t) \/ record_sequence(t)
         \/ RecordReturns(t) \/ PrefetchReturns(t) \/ exists(t) \/ GetReturns(t)
         \/ LoadReturns(t)
  PROVE  SeenInv'
<1> DEFINE r == req[t]
<1>1. IsRequest(r) /\ r.seen \subseteq Resident
  BY ThreadFacts DEF SeenInv, SeenIn
<1>2. holder = NoThread => op = "idle"
  BY ThreadFacts
<1>3. NoRequest.seen = {} /\ NoRequest.at = "none"
  BY DEF NoRequest, Request
<1>4. ASSUME NEW s, Set(t, s), s.seen \subseteq Resident, UNCHANGED blocks, op' # "Write",
             \/ holder' = NoThread
             \/ holder' = t /\ s.at # "get"
      PROVE  SeenInv'
  BY <1>4, SeenSet, ClientAssumption
<1>5. ASSUME NEW at, GoTo(t, at), UNCHANGED blocks, op' # "Write", holder' = NoThread
      PROVE  SeenInv'
  <2>1. Set(t, [r EXCEPT !.at = at])
    BY <1>5 DEF GoTo
  <2> HIDE DEF r
  <2>2. [r EXCEPT !.at = at].seen = r.seen
    BY <1>1, SeenFields DEF SameSeen
  <2> QED BY <1>1, <1>4, <1>5, <2>1, <2>2
<1>6. ASSUME NEW at, NextKey(t, at), UNCHANGED blocks, op' # "Write", holder' = NoThread
      PROVE  SeenInv'
  <2>1. Set(t, [r EXCEPT !.at = at, !.pos = r.pos + 1])
    BY <1>6 DEF NextKey
  <2> HIDE DEF r
  <2>2. [r EXCEPT !.at = at, !.pos = r.pos + 1].seen = r.seen
    BY <1>1, SeenFields DEF SameSeen
  <2> QED BY <1>1, <1>4, <1>6, <2>1, <2>2
<1>7. ASSUME Set(t, NoRequest), UNCHANGED blocks, op' # "Write", holder' = NoThread
      PROVE  SeenInv'
  <2> HIDE DEF NoRequest
  <2> QED BY <1>3, <1>4, <1>7
<1>8. CASE PutRaises(t)
  <2>1. UNCHANGED blocks /\ op' = "idle" /\ Set(t, NoRequest) /\ holder' = NoThread
    BY <1>8 DEF PutRaises, Turn, Store!WriteRejected, Store!Return, Store!store
  <2> QED BY <1>7, <2>1
<1>9. CASE PutReturns(t)
  <2>1. UNCHANGED blocks /\ op' = "idle" /\ holder' = NoThread
    BY <1>9 DEF PutReturns, Leave, storeVars
  <2> QED BY <1>5, <1>6, <1>9, <2>1 DEF PutReturns
<1>10. CASE register_block(t)
  <2>1. UNCHANGED blocks /\ op' = "idle" /\ holder' = NoThread
    BY <1>2, <1>10 DEF register_block, Turn, storeVars
  <2> QED BY <1>6, <1>10, <2>1 DEF register_block
<1>11. CASE record_sequence(t)
  <2>1. UNCHANGED blocks /\ op' = "idle"
    BY <1>2, <1>11 DEF record_sequence, Turn, storeVars
  <2>2. \/ holder' = t /\ GoTo(t, "record")
        \/ holder' = NoThread /\ Set(t, NoRequest)
    BY <1>11 DEF record_sequence, Turn, Enter
  <2>3. ASSUME holder' = t, GoTo(t, "record") PROVE SeenInv'
    <3>1. Set(t, [r EXCEPT !.at = "record"])
      BY <2>3 DEF GoTo
    <3> HIDE DEF r
    <3>2. [r EXCEPT !.at = "record"].seen = r.seen
      BY <1>1, SeenFields DEF SameSeen
    <3>3. [r EXCEPT !.at = "record"].at = "record"
      BY <1>1 DEF IsRequest
    <3> QED BY <1>1, <1>4, <2>1, <2>3, <3>1, <3>2, <3>3
  <2> QED BY <1>7, <2>1, <2>2, <2>3
<1>12. CASE RecordReturns(t)
  <2>1. UNCHANGED blocks /\ op' = "idle" /\ holder' = NoThread
    BY <1>12 DEF RecordReturns, Leave, storeVars
  <2> QED BY <1>7, <1>12, <2>1 DEF RecordReturns
<1>13. CASE PrefetchReturns(t)
  <2>1. UNCHANGED blocks /\ op' = "idle" /\ holder' = NoThread
    BY <1>13 DEF PrefetchReturns, Leave, storeVars
  <2> QED BY <1>5, <1>13, <2>1 DEF PrefetchReturns
<1>14. CASE LoadReturns(t)
  <2>1. UNCHANGED blocks /\ op' = "idle" /\ holder' = NoThread
    BY <1>2, <1>14 DEF LoadReturns, Turn, storeVars
  <2> QED BY <1>7, <1>14, <2>1 DEF LoadReturns
<1>15. CASE exists(t)
  <2> DEFINE k == KeyOf(t)
  <2>1. UNCHANGED blocks /\ op' = "idle" /\ holder' = NoThread
    BY <1>2, <1>15 DEF exists, Turn, storeVars
  <2>2. \/ k \in Resident /\ Set(t, [r EXCEPT !.at = "get", !.seen = {k}])
        \/ Set(t, [r EXCEPT !.at = "put"])
    BY <1>15 DEF exists
  <2> HIDE DEF r, k
  <2>3. /\ [r EXCEPT !.at = "get", !.seen = {k}].seen = {k}
        /\ [r EXCEPT !.at = "put"].seen = r.seen
    BY <1>1, SeenFields DEF SameSeen
  <2> QED BY <1>1, <1>4, <2>1, <2>2, <2>3
<1>16. CASE GetReturns(t)
  <2> DEFINE q == [r EXCEPT !.pos = r.pos + 1, !.at = Reading(t)]
             k == KeyOf(t)
  <2>1. UNCHANGED blocks /\ op' = "idle" /\ holder' = NoThread
    BY <1>16 DEF GetReturns, Leave, storeVars
  <2>2. \/ Set(t, q) \/ Set(t, [q EXCEPT !.missing = q.missing \cup {k}])
        \/ Set(t, [q EXCEPT !.loaded = Link(q.loaded, k, ret.payload)])
    BY <1>16 DEF GetReturns
  <2>3. q.seen = r.seen /\ IsRequest(q)
    <3> HIDE DEF r
    <3>1. SameSeen(r, q)
      BY <1>1, SeenFields
    <3>2. IsRequest(q)
      BY <1>1, LoadWritten
    <3> QED BY <3>1, <3>2 DEF SameSeen
  <2> HIDE DEF q, r
  <2>4. /\ [q EXCEPT !.missing = q.missing \cup {k}].seen = q.seen
        /\ [q EXCEPT !.loaded = Link(q.loaded, k, ret.payload)].seen = q.seen
    BY <2>3, SeenFields DEF SameSeen
  <2> QED BY <1>1, <1>4, <2>1, <2>2, <2>3, <2>4
<1> QED BY <1>8, <1>9, <1>10, <1>11, <1>12, <1>13, <1>14, <1>15, <1>16

\* A new request has seen what there is, if it loads.
LEMMA SeenArrives ==
  ASSUME ConnectorInv, SeenInv, NEW t \in Thread, NEW keys \in BlockLists, Arrive(t, keys)
  PROVE  SeenInv'
<1>1. PICK kind, at, tensors, tenant : Begin(t, kind, at, keys, tensors, tenant)
  BY DEF Arrive, store_kv, load_kv, replay, replay_pair
<1> DEFINE seen == IF kind = "load" THEN Resident ELSE {}
           r == Request(kind, at, keys, tensors, tenant, seen)
<1>2. /\ Set(t, r) /\ UNCHANGED blocks /\ op' = op /\ holder' = NoThread /\ holder = NoThread
  BY <1>1 DEF Begin, storeVars
<1>3. r.seen = seen /\ seen \subseteq Resident
  BY DEF Request
<1>4. op' # "Write"
  BY <1>2, ThreadFacts
<1> HIDE DEF r, seen
<1> QED BY <1>2, <1>3, <1>4, SeenSet, ClientAssumption

\* A put forgets what anybody has seen.
LEMMA SeenPut ==
  ASSUME ConnectorInv, SeenInv, NEW t \in Thread, Put(t)
  PROVE  SeenInv'
<1>1. /\ req' = [u \in Thread |-> [req[u] EXCEPT !.seen = {}]]
      /\ req[t].at = "put" /\ holder' = t
  BY DEF Put, Turn, Enter
<1>2. ASSUME NEW u \in Thread PROVE req'[u].seen = {} /\ req'[u].at = req[u].at
  <2> DEFINE q == req[u]
             s == [q EXCEPT !.seen = {}]
  <2>1. req'[u] = s /\ IsRequest(q)
    BY <1>1, ThreadFacts
  <2>2. s.seen = {} /\ s.at = q.at
    <3> HIDE DEF q
    <3> QED BY <2>1 DEF IsRequest
  <2> QED BY <2>1, <2>2
<1>3. ASSUME NEW u \in Thread PROVE SeenIn(req[u])' /\ SeenAnswered(u)'
  BY <1>1, <1>2 DEF SeenIn, SeenAnswered
<1> QED BY <1>3 DEF SeenInv

\* A prefetch begins: it forgets nothing, and nobody is in get.
LEMMA SeenPrefetch ==
  ASSUME ConnectorInv, SeenInv, NEW t \in Thread, prefetch(t) \/ prefetch_chain_multi(t)
  PROVE  SeenInv'
<1>1. NoThread \notin Thread /\ req[t].at \in {"prefetch", "chain"} /\ holder = NoThread
  BY ClientAssumption DEF prefetch, prefetch_chain_multi, Turn
<1>2. ASSUME NEW keys, Store!Prefetch(keys), Enter(t), UNCHANGED req PROVE SeenInv'
  <2>1. UNCHANGED <<blocks, req>> /\ op' = "Prefetch" /\ holder' = t
    BY <1>2 DEF Store!Prefetch, Store!Call, Store!store, Enter
  <2> QED BY <1>1, <2>1, SeenSame
<1>3. ASSUME NEW at, GoTo(t, at), UNCHANGED <<storeVars, holder>> PROVE SeenInv'
  <2> DEFINE r == req[t]
  <2>1. Set(t, [r EXCEPT !.at = at]) /\ UNCHANGED blocks /\ op' # "Write" /\ holder' = NoThread
    BY <1>1, <1>3, ThreadFacts DEF GoTo, storeVars
  <2>2. IsRequest(r) /\ r.seen \subseteq Resident
    BY ThreadFacts DEF SeenInv, SeenIn
  <2> HIDE DEF r
  <2>3. [r EXCEPT !.at = at].seen = r.seen
    BY <2>2, SeenFields DEF SameSeen
  <2> QED BY <1>1, <2>1, <2>2, <2>3, SeenSet
<1>4. CASE prefetch(t)
  BY <1>2, <1>4 DEF prefetch
<1>5. CASE prefetch_chain_multi(t)
  BY <1>2, <1>3, <1>5 DEF prefetch_chain_multi
<1> QED BY <1>4, <1>5

\* A content in the store is a payload.
LEMMA ResidentPayload ==
  ASSUME Store!TypeOK, NEW k \in Resident
  PROVE  k \in Key /\ blocks[k].payload # NoPayload
<1>1. k \in Key /\ blocks[k].tier # Store!NoTier
  BY DEF Resident, Store!Resident
<1>2. blocks[k] \in Store!StoredBlock \cup {Store!NoBlock}
  BY <1>1 DEF Store!TypeOK, Store!StoreType
<1>3. Store!NoBlock.tier = Store!NoTier
  BY DEF Store!NoBlock
<1>4. blocks[k] \in Store!StoredBlock
  BY <1>1, <1>2, <1>3
<1>5. blocks[k].payload \in Payload
  BY <1>4 DEF Store!StoredBlock
<1> QED BY <1>1, <1>5, ClientAssumption

\* A read starts, and is answered at once or promotes.
LEMMA SeenGet ==
  ASSUME ConnectorInv, StoreSound, SeenInv, Store!OneSize,
         [Store!KeepsBlocks]_(Store!vars), NEW t \in Thread, get(t)
  PROVE  SeenInv'
<1> DEFINE k == KeyOf(t)
<1>1. /\ holder = NoThread /\ req[t].at = "get" /\ AtKey(t) /\ holder' = t /\ req' = req
      /\ \/ Store!ReadMiss(k) \/ Store!ReadFast(k)
         \/ Store!ReadSlowInPlace(k) \/ Store!ReadPromote(k)
  BY DEF get, Turn, Enter
<1>2. k \in Key /\ op = "idle" /\ NoThread \notin Thread
  BY <1>1, ThreadFacts, ClientAssumption
<1> HIDE DEF k
<1>3. /\ op' \in {"idle", "Read"}
      /\ op' = "idle" => \/ k \notin Resident
                         \/ k \in Resident /\ ret'.payload = blocks[k].payload
  <2>1. CASE Store!ReadMiss(k)
    BY <2>1 DEF Store!ReadMiss, Store!Return, Resident
  <2>2. CASE Store!ReadFast(k) \/ Store!ReadSlowInPlace(k)
    BY <2>2 DEF Store!ReadFast, Store!ReadSlowInPlace, Store!Return, Resident
  <2>3. CASE Store!ReadPromote(k)
    BY <2>3 DEF Store!ReadPromote, Store!Call
  <2> QED BY <1>1, <2>1, <2>2, <2>3
<1>4. Resident \subseteq Resident'
  <2>1. CASE Store!KeepsBlocks
    BY <1>2, <1>3, <2>1 DEF Store!KeepsBlocks, Resident
  <2>2. CASE UNCHANGED Store!vars
    BY <2>2 DEF Store!vars, Store!store, Resident, Store!Resident
  <2> QED BY <2>1, <2>2
<1>5. ASSUME NEW u \in Thread PROVE SeenIn(req[u])' /\ SeenAnswered(u)'
  <2>1. req'[u].seen \subseteq Resident
    BY <1>1 DEF SeenInv, SeenIn
  <2>2. SeenIn(req[u])'
    BY <1>3, <1>4, <2>1 DEF SeenIn
  <2>3. CASE u = t
    <3>1. KeyOf(t)' = k
      BY <1>1 DEF KeyOf, k
    <3>2. ASSUME op' = "idle", k \in req'[t].seen PROVE ret'.payload # NoPayload
      <4>1. k \in Resident
        BY <2>1, <2>3, <3>2
      <4> QED BY <1>3, <3>2, <4>1, ResidentPayload DEF StoreSound
    <3> QED BY <1>3, <2>2, <2>3, <3>1, <3>2 DEF SeenAnswered
  <2>4. CASE u # t
    BY <1>1, <2>2, <2>4 DEF SeenAnswered
  <2> QED BY <2>3, <2>4
<1> QED BY <1>5 DEF SeenInv

\* A promotion, a prefetch or a write at work in the store.
LEMMA SeenWorks ==
  ASSUME ConnectorInv, StoreSound, StoreSound', SeenInv, Store!OneSize,
         [Store!KeepsBlocks]_(Store!vars), StoreWorks
  PROVE  SeenInv'
<1>1. Store!Locked /\ UNCHANGED <<holder, req>>
  BY DEF StoreWorks, clientVars
<1>2. Onward /\ Indexed
  BY <1>1, LockedEffect DEF ConnectorInv
<1>3. op # "idle"
  <2> SUFFICES ASSUME op = "idle" PROVE FALSE
    OBVIOUS
  <2>1. frames = {}
    BY DEF StoreSound, Store!TypeOK, Store!ControlType
  <2> QED BY <1>1, <2>1 DEF Store!Locked, Store!FinishRead, Store!FinishCall,
       Store!PrefetchSkip, Store!PrefetchPlace, Store!EvictQuota, Store!EvictLru,
       Store!LeaveEnforce, Store!S3SmallStale, Store!S3SmallToMain, Store!S3SmallEvict,
       Store!S3MainStale, Store!S3MainSecondChance, Store!S3MainEvict,
       Store!PickingSmall, Store!PickingMain, Store!Evicting, Store!Innermost
<1>4. op' = op \/ op' = "idle"
  BY <1>2 DEF Onward
<1>5. op # "Write" => Resident \subseteq Resident'
  <2>1. CASE Store!KeepsBlocks
    BY <1>4, <2>1 DEF Store!KeepsBlocks, Resident
  <2>2. CASE UNCHANGED Store!vars
    BY <2>2 DEF Store!vars, Store!store, Resident, Store!Resident
  <2> QED BY <2>1, <2>2
\* A read that ends does so in FinishRead, which looks the block up again.
<1>6. op = "Read" /\ op' = "idle" => Store!FinishRead
  <2> SUFFICES ASSUME op = "Read", op' = "idle", ~Store!FinishRead PROVE FALSE
    OBVIOUS
  <2>1. ~Store!FinishCall /\ ~Store!PrefetchSkip /\ ~Store!PrefetchPlace
    BY DEF Store!FinishCall, Store!PrefetchSkip, Store!PrefetchPlace
  <2>2. ASSUME NEW t \in Store!Tier PROVE ~Store!LeaveEnforce(t)
    <3>1. ret'.status # "InternalNoVictim"
      BY DEF StoreSound, Store!VictimFound
    <3> QED BY <3>1 DEF Store!LeaveEnforce, Store!Return
  <2>3. \A v, t : Store!Evict(v, t) => op' = op
    BY DEF Store!Evict
  <2> QED BY <1>1, <2>1, <2>2, <2>3 DEF Store!Locked, Store!EvictQuota, Store!EvictLru,
       Store!S3SmallStale, Store!S3SmallToMain, Store!S3SmallEvict, Store!S3MainStale,
       Store!S3MainSecondChance, Store!S3MainEvict, Store!control
<1>7. ASSUME NEW u \in Thread PROVE SeenIn(req[u])' /\ SeenAnswered(u)'
  <2>1. /\ req[u].seen \subseteq Resident /\ (op = "Write" => req[u].seen = {})
        /\ SeenAnswered(u)
    BY DEF SeenInv, SeenIn
  <2>2. SeenIn(req[u])'
    BY <1>1, <1>4, <1>5, <2>1 DEF SeenIn
  <2>3. ASSUME holder = u, req[u].at = "get", op' = "idle", KeyOf(u) \in req[u].seen
        PROVE  ret'.payload # NoPayload
    <3>1. op = "Read"
      BY <1>3, <2>1, <2>3 DEF SeenAnswered
    <3>2. serving = <<KeyOf(u)>>
      BY <2>3, <3>1 DEF ConnectorInv, Answered
    <3>3. KeyOf(u) \in Resident /\ Head(serving) = KeyOf(u)
      BY <2>1, <2>3, <3>2
    <3>4. ret'.payload = blocks[KeyOf(u)].payload
      BY <1>6, <2>3, <3>1, <3>3 DEF Store!FinishRead, Store!Return, Resident
    <3> QED BY <3>3, <3>4, ResidentPayload DEF StoreSound
  <2>4. KeyOf(u)' = KeyOf(u)
    BY <1>1 DEF KeyOf
  <2>5. SeenAnswered(u)'
    BY <1>1, <1>3, <1>4, <2>1, <2>3, <2>4 DEF SeenAnswered
  <2> QED BY <2>2, <2>5
<1> QED BY <1>7 DEF SeenInv

LEMMA SeenStep ==
  ASSUME ConnectorInv, StoreSound, StoreSound', SeenInv, Store!OneSize,
         [Store!KeepsBlocks]_(Store!vars), [ConnectorNext]_connectorVars
  PROVE  SeenInv'
<1>1. CASE UNCHANGED connectorVars \/ PrefetcherWorks
  <2>1. UNCHANGED <<blocks, op, ret, holder, req>>
    BY <1>1 DEF connectorVars, PrefetcherWorks, storeVars, clientVars
  <2>2. Resident' = Resident /\ \A u \in Thread : KeyOf(u)' = KeyOf(u)
    BY <2>1 DEF Resident, Store!Resident, KeyOf
  <2> QED BY <2>1, <2>2 DEF SeenInv, SeenIn, SeenAnswered
<1>2. ASSUME NEW t \in Thread, NEW keys \in KeySequences, RecordDirectly(t, keys)
      PROVE  SeenInv'
  <2> DEFINE r == req[t]
  <2>1. /\ Set(t, [r EXCEPT !.at = "record"]) /\ IsRequest(r) /\ r.seen \subseteq Resident
        /\ UNCHANGED blocks /\ op' # "Write" /\ holder' = t
    BY <1>2, ThreadFacts DEF RecordDirectly, GoTo, Enter, storeVars, SeenInv, SeenIn
  <2> HIDE DEF r
  <2>2. [r EXCEPT !.at = "record"].seen = r.seen
    BY <2>1, SeenFields DEF SameSeen
  <2>3. [r EXCEPT !.at = "record"].at = "record"
    BY <2>1 DEF IsRequest
  <2> QED BY <2>1, <2>2, <2>3, SeenSet
<1>3. ASSUME NEW t \in Thread, Proceed(t) PROVE SeenInv'
  BY <1>3, SeenPut, SeenPrefetch, SeenGet, SeenProceeds DEF Proceed
<1> QED BY <1>1, <1>2, <1>3, SeenArrives, SeenWorks DEF ConnectorNext

\* A load returns what there is, for every client, thread and schedule: every
\* block that was there when it began and that no put has pushed out since is
\* loaded, and the rest is accounted for.  Blocks have one size.  The premise
\* is TypeCorrect, VictimAlwaysFound and OnlyWritesDrop of TieredStorageProofs,
\* for the store of the connector: ClientsUseStore makes them apply.
THEOREM LoadsExact ==
  (Store!Spec => []StoreSound /\ Store!ReadsKeepBlocks)
    => (ConnectorSpec => [](Store!OneSize => LoadExact))
<1>1. ConnectorInit => (Store!OneSize => SeenInv)
  <2> SUFFICES ASSUME ConnectorInit PROVE SeenInv
    OBVIOUS
  <2>1. NoRequest.seen = {} /\ \A t \in Thread : req[t] = NoRequest
    BY DEF ConnectorInit, NoRequest, Request
  <2>2. holder = NoThread /\ NoThread \notin Thread
    BY ClientAssumption DEF ConnectorInit
  <2> QED BY <2>1, <2>2 DEF SeenInv, SeenIn, SeenAnswered
<1>2. /\ ConnectorInv /\ EdgesInv /\ StoreSound /\ StoreSound'
      /\ (Store!OneSize => SeenInv) /\ [Store!KeepsBlocks]_(Store!vars)
      /\ [ConnectorNext]_connectorVars
      => (Store!OneSize => SeenInv)'
  <2>1. Store!OneSize' => Store!OneSize
    BY DEF Store!OneSize, Store!CapacityOf, Store!EvictionThresholdOf
  <2> QED BY <2>1, SeenStep
<1>3. LoadAccounts /\ (Store!OneSize => SeenInv) => (Store!OneSize => LoadExact)
  BY DEF LoadExact, SeenIsRead, SeenInv, SeenAnswered, Calling
<1> QED BY <1>1, <1>2, <1>3, ClientsInv, ClientsUseStore, LoadsAccounted, PTL
     DEF ConnectorSpec, Store!ReadsKeepBlocks

================================================================================
