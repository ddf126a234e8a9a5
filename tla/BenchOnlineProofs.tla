--------------------------- MODULE BenchOnlineProofs ---------------------------
(***************************************************************************)
(* Safety of the online benchmark for any number of sessions, scanners,    *)
(* rounds and permits, any conversations, any order of the answers and any *)
(* failures: the semaphore, the prompts and the report.                    *)
(***************************************************************************)
EXTENDS BenchOnline, FiniteSetTheorems, SequenceTheorems, TLAPS

Semaphore(T) == [value : Nat, waiters : Seq(T), woken : Nat]

Text == {"rng", "srng", "document", "turn"} \X Nat \X Nat

Types ==
  /\ args \in Arguments
  /\ phase \in {"load", "run", "unwind", "closed", "cancelling", "failed", "reported"}
  /\ at \in [Tasks -> {"new", "waiting", "posted", "done", "failed", "cancelled"}]
  /\ round \in [Tasks -> Nat]
  /\ prompt \in [Tasks -> Seq(Text)]
  /\ questions \in [Sessions -> Seq(Text)]
  /\ sem \in Semaphore(Tasks)
  /\ drawn \in Nat
  /\ tokens \in [Tasks -> Nat]
  /\ streamed \in [Tasks -> Nat]
  /\ results \in Seq(Nat)

\* Permits that are free or set aside.
Balance(s) == s.value + s.woken

\* A semaphore in order: nobody is in the queue twice, and a free permit has a
\* woken waiter to see it.
InOrder(s) ==
  /\ s.woken <= Len(s.waiters)
  /\ s.value > 0 /\ s.woken = 0 => s.waiters = <<>>
  /\ IsInjective(s.waiters)

\* Requests, with the tasks at p.
Held(p) == Cardinality({i \in Tasks : p[i] = "posted"})

\* Who is in the queue of s, with the tasks at p and the main coroutine at m:
\* after the cancellation only those who had been woken.
Attend(s, p, m) ==
  /\ \A i \in Range(s.waiters) : i \in Tasks /\ p[i] = "waiting"
  /\ m # "cancelling" => \A i \in Tasks : p[i] = "waiting" => i \in Range(s.waiters)
  /\ m = "cancelling" => s.woken = Len(s.waiters)

Permits ==
  /\ InOrder(sem)
  /\ Balance(sem) + Held(at) = args.concurrency
  /\ Attend(sem, at, phase)

\* How far the tasks are: none has begun a round before its start, none is
\* through before the last, and failures are seen by the main coroutine.
Progress ==
  /\ \A i \in Tasks :
       /\ round[i] <= args.rounds
       /\ at[i] = "new" => round[i] = 0
       /\ at[i] \in {"waiting", "posted"} => round[i] >= 1
       /\ at[i] = "done" => round[i] = args.rounds
       /\ phase = "load" => at[i] = "new" /\ prompt[i] = <<>>
       /\ phase \in {"load", "run", "reported"} => at[i] \notin {"failed", "cancelled"}
       /\ phase = "reported" => at[i] = "done"
       /\ phase \in {"closed", "cancelling"} => at[i] # "new"
       /\ phase = "failed" => at[i] \notin {"waiting", "posted"}

\* The tasks start in the order of their numbers, and until the last has
\* started, the sessions have drawn one question each.
Starting ==
  /\ \A i, j \in Tasks : i < j /\ at[i] = "new" => at[j] = "new"
  /\ phase # "load" /\ ~args.sharegpt =>
       \A s \in Sessions : at[s] = "new" =>
         /\ prompt[s] = <<Draw(1), Draw(1 + s)>>
         /\ args.rounds > 0 /\ (\A j \in Tasks : j < s => at[j] # "new")
              => drawn = args.sessions + s

\* Where the texts of a prompt come from.
From(i, x) ==
  /\ x[1] = "rng" => x[3] <= drawn
  /\ x[1] = "srng" => i \in Scanners /\ x = Scan(i, round[i])
  /\ x[1] = "turn" => i \in Sessions /\ x \in Range(questions[i])

Origins ==
  /\ \A i \in Tasks : \A x \in Texts(i) : From(i, x)
  /\ \A s \in Sessions : \A x \in Range(questions[s]) :
       x[1] = "turn" /\ \A t \in Sessions \ {s} : x \notin Range(questions[t])

\* Requests of session s that are answered, and chunks of the one that is not.
Under(s) == at[s] \in {"waiting", "posted"}
Answers == [s \in Sessions |-> IF Under(s) THEN round[s] - 1 ELSE round[s]]
Pending == [s \in Sessions |-> IF Under(s) THEN tokens[s] ELSE 0]
Streams == [s \in Sessions |-> streamed[s]]

\* As long as no task has failed, there is a result for every answer, and the
\* chunks are those of the results and of the requests under way.
Accounts ==
  /\ phase \in {"load", "run", "reported"} =>
       /\ Len(results) = Total(Answers)
       /\ Total(results) + Total(Pending) = Total(Streams)
  /\ phase = "reported" =>
       report = [requests |-> Len(results), gen_tokens |-> Total(results)]

Inv ==
  /\ Types /\ Permits /\ Progress /\ Starting /\ FirstPromptsFixed
  /\ Origins /\ Accounts

----------------------------------------------------------------------------
(* Sums *)

Units(f) == UNION {{x} \X (1..f[x]) : x \in DOMAIN f}

LEMMA UnitsMember ==
  ASSUME NEW f, NEW u
  PROVE  u \in Units(f) <=> \E x \in DOMAIN f : \E k \in 1..f[x] : u = <<x, k>>
BY DEF Units

LEMMA UnitsFinite ==
  ASSUME NEW f, IsFiniteSet(DOMAIN f), \A x \in DOMAIN f : f[x] \in Nat
  PROVE  IsFiniteSet(Units(f)) /\ Total(f) = Cardinality(Units(f)) /\ Total(f) \in Nat
<1> DEFINE units == [x \in DOMAIN f |-> {x} \X (1..f[x])]
           all == {{x} \X (1..f[x]) : x \in DOMAIN f}
<1>1. units \in Surjection(DOMAIN f, all)
  BY DEF Surjection
<1>2. IsFiniteSet(all)
  <2> HIDE DEF units, all
  <2> QED BY <1>1, FS_Surjection
<1>3. ASSUME NEW T \in all PROVE IsFiniteSet(T)
  <2>1. PICK x \in DOMAIN f : T = {x} \X (1..f[x])
    OBVIOUS
  <2>2. IsFiniteSet(1..f[x])
    BY FS_Interval
  <2>3. IsFiniteSet({x})
    BY FS_Singleton
  <2> QED BY <2>1, <2>2, <2>3, FS_Product
<1>4. IsFiniteSet(UNION all)
  <2> HIDE DEF all
  <2> QED BY <1>2, <1>3, FS_UNION
<1> QED BY <1>4, FS_CardinalityType DEF Total, Units

LEMMA Column ==
  ASSUME NEW x, NEW n \in Nat
  PROVE  IsFiniteSet({x} \X (1..n)) /\ Cardinality({x} \X (1..n)) = n
<1> DEFINE S == {x}
           T == 1..n
<1>1. IsFiniteSet(S) /\ Cardinality(S) = 1
  BY FS_Singleton
<1>2. IsFiniteSet(T) /\ Cardinality(T) = n
  BY FS_Interval
<1> HIDE DEF S, T
<1>3. IsFiniteSet(S \X T) /\ Cardinality(S \X T) = Cardinality(S) * Cardinality(T)
  BY <1>1, <1>2, FS_Product
<1>4. IsFiniteSet(S \X T) /\ Cardinality(S \X T) = n
  BY <1>1, <1>2, <1>3
<1> QED BY <1>4 DEF S, T

LEMMA DisjointUnion ==
  ASSUME NEW S, NEW T, IsFiniteSet(S), IsFiniteSet(T), S \cap T = {}
  PROVE  /\ Cardinality(S \cup T) = Cardinality(S) + Cardinality(T)
         /\ Cardinality(S) \in Nat /\ Cardinality(T) \in Nat
<1>1. Cardinality(S) \in Nat /\ Cardinality(T) \in Nat
  BY FS_CardinalityType
<1>2. Cardinality(S \cup T) = Cardinality(S) + Cardinality(T) - Cardinality(S \cap T)
  BY FS_Union
<1> QED BY <1>1, <1>2, FS_EmptySet

\* A sum after one value has changed.
LEMMA TotalChanges ==
  ASSUME NEW D, IsFiniteSet(D), NEW f \in [D -> Nat], NEW g \in [D -> Nat], NEW x \in D,
         \A y \in D : y # x => g[y] = f[y]
  PROVE  Total(g) + f[x] = Total(f) + g[x]
<1> DEFINE rest == {u \in Units(f) : u[1] # x}
           was == {x} \X (1..f[x])
           is == {x} \X (1..g[x])
<1>1. /\ IsFiniteSet(Units(f)) /\ Total(f) = Cardinality(Units(f))
      /\ Total(g) = Cardinality(Units(g))
  BY UnitsFinite
<1>2. f[x] \in Nat /\ g[x] \in Nat
  OBVIOUS
<1>3. Units(f) = rest \cup was
  BY UnitsMember
<1>4. Units(g) = rest \cup is
  BY UnitsMember
<1>5. rest \cap was = {} /\ rest \cap is = {}
  OBVIOUS
<1>6. IsFiniteSet(rest)
  BY <1>1, FS_Subset
<1>7. IsFiniteSet(was) /\ Cardinality(was) = f[x]
  BY <1>2, Column
<1>8. IsFiniteSet(is) /\ Cardinality(is) = g[x]
  BY <1>2, Column
<1> HIDE DEF rest, was, is
<1>9. Cardinality(Units(f)) = Cardinality(rest) + f[x] /\ Cardinality(rest) \in Nat
  BY <1>3, <1>5, <1>6, <1>7, DisjointUnion
<1>10. Cardinality(Units(g)) = Cardinality(rest) + g[x]
  BY <1>4, <1>5, <1>6, <1>8, DisjointUnion
<1> QED BY <1>1, <1>2, <1>9, <1>10

LEMMA TotalAppend ==
  ASSUME NEW s \in Seq(Nat), NEW n \in Nat
  PROVE  Total(Append(s, n)) = Total(s) + n
<1>1. Len(s) \in Nat /\ DOMAIN s = 1..Len(s) /\ s \in [1..Len(s) -> Nat]
  BY LenProperties
<1>2. DOMAIN Append(s, n) = DOMAIN s \cup {Len(s) + 1}
  BY <1>1, AppendProperties
<1>3. Append(s, n)[Len(s) + 1] = n /\ \A y \in DOMAIN s : Append(s, n)[y] = s[y]
  BY <1>1, AppendProperties
<1>4. IsFiniteSet(DOMAIN s)
  BY <1>1, FS_Interval
<1>5. Len(s) + 1 \notin DOMAIN s
  BY <1>1
<1>6. Append(s, n) \in Seq(Nat) /\ \A y \in DOMAIN Append(s, n) : Append(s, n)[y] \in Nat
  BY <1>1, <1>2, <1>3
<1> DEFINE g == Append(s, n)
           x == Len(s) + 1
<1>7. Units(g) = Units(s) \cup ({x} \X (1..n))
  <2>1. DOMAIN g = DOMAIN s \cup {x} /\ g[x] = n /\ \A y \in DOMAIN s : g[y] = s[y]
    BY <1>2, <1>3
  <2> HIDE DEF g, x
  <2> QED BY <2>1, UnitsMember
<1>8. Units(s) \cap ({x} \X (1..n)) = {}
  <2> HIDE DEF x
  <2>1. x \notin DOMAIN s
    BY <1>5 DEF x
  <2> QED BY <2>1, UnitsMember
<1>9. IsFiniteSet(Units(s)) /\ Total(s) = Cardinality(Units(s))
  BY <1>1, <1>4, UnitsFinite
<1>10. IsFiniteSet({x} \X (1..n)) /\ Cardinality({x} \X (1..n)) = n
  BY Column
<1> DEFINE column == {x} \X (1..n)
<1> HIDE DEF column
<1>11. Cardinality(Units(s) \cup column) = Cardinality(Units(s)) + Cardinality(column)
  BY <1>8, <1>9, <1>10, DisjointUnion DEF column
<1>12. Total(g) = Cardinality(Units(g))
  BY DEF Total, Units
<1> QED BY <1>7, <1>9, <1>10, <1>11, <1>12 DEF column

LEMMA TotalConstant ==
  ASSUME NEW S, IsFiniteSet(S), NEW n \in Nat
  PROVE  Total([x \in S |-> n]) = Cardinality(S) * n
<1>1. Units([x \in S |-> n]) = S \X (1..n)
  BY UnitsMember
<1>2. IsFiniteSet(1..n) /\ Cardinality(1..n) = n
  BY FS_Interval
<1>3. Total([x \in S |-> n]) = Cardinality(S \X (1..n))
  BY <1>1 DEF Total, Units
<1>4. Cardinality(S \X (1..n)) = Cardinality(S) * Cardinality(1..n)
  BY <1>2, FS_Product
<1> QED BY <1>2, <1>3, <1>4

LEMMA TotalEmpty == Total(<<>>) = 0
<1>1. Units(<<>>) = {}
  BY UnitsMember
<1> QED BY <1>1, FS_EmptySet DEF Total, Units

----------------------------------------------------------------------------
(* The semaphore *)

LEMMA TailFacts ==
  ASSUME NEW T, NEW w \in Seq(T), w # <<>>, IsInjective(w)
  PROVE  /\ Tail(w) \in Seq(T) /\ Len(Tail(w)) = Len(w) - 1 /\ Len(w) \in Nat
         /\ IsInjective(Tail(w)) /\ Range(Tail(w)) = Range(w) \ {Head(w)}
         /\ Head(w) \in Range(w)
<1> DEFINE h == Head(w)
           v == Tail(w)
<1>1. /\ h \in T /\ v \in Seq(T) /\ Len(w) \in Nat /\ Len(v) = Len(w) - 1
      /\ DOMAIN w = 1..Len(w) /\ Len(w) >= 1 /\ DOMAIN v = 1..(Len(w) - 1)
      /\ h = w[1] /\ \A j \in DOMAIN v : v[j] = w[j + 1]
  BY HeadTailProperties, LenProperties
<1> HIDE DEF v, h
<1>2. \A j \in DOMAIN v : j + 1 \in DOMAIN w /\ v[j] = w[j + 1] /\ j + 1 # 1 /\ j \in Int
  BY <1>1
<1>3. \A j, k \in DOMAIN w : w[j] = w[k] => j = k
  BY DEF IsInjective
<1>4. 1 \in DOMAIN w /\ w[1] = h
  BY <1>1
<1>5. IsInjective(v)
  <2> SUFFICES ASSUME NEW j \in DOMAIN v, NEW k \in DOMAIN v, v[j] = v[k]
               PROVE  j = k
    BY DEF IsInjective
  <2>1. j + 1 = k + 1
    BY <1>2, <1>3
  <2> QED BY <1>2, <2>1
<1>6. ASSUME NEW j \in DOMAIN v, v[j] = h PROVE FALSE
  BY <1>2, <1>3, <1>4, <1>6
<1>7. ASSUME NEW x \in Range(w), x # h PROVE x \in Range(v)
  <2>1. PICK j \in DOMAIN w : x = w[j]
    BY DEF Range
  <2>2. j - 1 \in DOMAIN v /\ v[j - 1] = x
    BY <1>1, <1>7, <2>1
  <2> QED BY <2>2 DEF Range
<1>8. Range(v) = Range(w) \ {h} /\ h \in Range(w)
  BY <1>2, <1>4, <1>6, <1>7 DEF Range
<1> QED BY <1>1, <1>5, <1>8 DEF v, h

LEMMA PrefixFacts ==
  ASSUME NEW T, NEW w \in Seq(T), NEW n \in Nat, n <= Len(w), IsInjective(w)
  PROVE  /\ SubSeq(w, 1, n) \in Seq(T) /\ Len(SubSeq(w, 1, n)) = n
         /\ IsInjective(SubSeq(w, 1, n)) /\ Range(SubSeq(w, 1, n)) \subseteq Range(w)
         /\ n = 0 => SubSeq(w, 1, n) = <<>>
<1> DEFINE v == SubSeq(w, 1, n)
<1>1. /\ v \in Seq(T) /\ Len(v) = n /\ Len(w) \in Nat /\ DOMAIN w = 1..Len(w)
      /\ DOMAIN v = 1..n /\ \A j \in 1..n : v[j] = w[j]
  <2>1. Len(w) \in Nat /\ DOMAIN w = 1..Len(w)
    BY LenProperties
  <2>2. v \in Seq(T) /\ Len(v) = n /\ \A j \in 1..n : v[j] = w[j]
    BY <2>1
  <2> HIDE DEF v
  <2> QED BY <2>1, <2>2, LenProperties
<1> HIDE DEF v
<1>2. IsInjective(v) /\ Range(v) \subseteq Range(w)
  BY <1>1 DEF IsInjective, Range
<1>3. n = 0 => v = <<>>
  BY <1>1, EmptySeq
<1> QED BY <1>1, <1>2, <1>3 DEF v

LEMMA AppendFacts ==
  ASSUME NEW T, NEW w \in Seq(T), NEW i \in T, i \notin Range(w), IsInjective(w)
  PROVE  /\ Append(w, i) \in Seq(T) /\ Len(Append(w, i)) = Len(w) + 1 /\ Len(w) \in Nat
         /\ IsInjective(Append(w, i)) /\ Range(Append(w, i)) = Range(w) \cup {i}
<1> DEFINE v == Append(w, i)
<1>1. /\ v \in Seq(T) /\ Len(v) = Len(w) + 1
      /\ Len(w) \in Nat /\ DOMAIN w = 1..Len(w) /\ DOMAIN v = 1..(Len(w) + 1)
      /\ v[Len(w) + 1] = i /\ \A j \in DOMAIN w : v[j] = w[j]
  BY AppendProperties, LenProperties
<1> HIDE DEF v
<1>2. Range(v) = Range(w) \cup {i}
  BY <1>1 DEF Range
<1>3. IsInjective(v)
  BY <1>1 DEF Range, IsInjective
<1> QED BY <1>1, <1>2, <1>3 DEF v

\* With a free permit, nobody is overlooked once the next has been woken.
LEMMA WakeKeeps ==
  ASSUME NEW T, NEW s \in Semaphore(T), s.value > 0, s.woken <= Len(s.waiters),
         IsInjective(s.waiters)
  PROVE  LET a == WakeUpNext(s)
         IN  /\ a \in Semaphore(T) /\ InOrder(a)
             /\ a.waiters = s.waiters /\ Balance(a) = Balance(s)
             /\ s.woken = Len(s.waiters) => a.woken = s.woken
<1> DEFINE a == WakeUpNext(s)
<1> USE DEF Semaphore
<1>0. s.value \in Nat /\ s.woken \in Nat /\ s.waiters \in Seq(T) /\ Len(s.waiters) \in Nat
  BY LenProperties
<1>1. CASE s.woken < Len(s.waiters)
  <2>1. a = [s EXCEPT !.value = @ - 1, !.woken = @ + 1]
    BY <1>1 DEF WakeUpNext
  <2>2. s.value - 1 \in Nat /\ s.woken + 1 \in Nat
    BY <1>0
  <2> HIDE DEF a
  <2>3. /\ a \in Semaphore(T) /\ a.value = s.value - 1 /\ a.woken = s.woken + 1
        /\ a.waiters = s.waiters
    BY <2>1, <2>2
  <2> QED BY <1>0, <1>1, <2>2, <2>3 DEF InOrder, Balance, a
<1>2. CASE ~(s.woken < Len(s.waiters))
  <2>1. a = s
    BY <1>2 DEF WakeUpNext
  <2>2. s.woken = Len(s.waiters)
    BY <1>0, <1>2
  <2>3. s.woken = 0 => s.waiters = <<>>
    BY <1>0, <2>2, EmptySeq
  <2>4. InOrder(s)
    BY <1>0, <2>2, <2>3 DEF InOrder
  <2> HIDE DEF a
  <2> QED BY <2>1, <2>4 DEF a
<1> QED BY <1>1, <1>2

LEMMA ReleaseKeeps ==
  ASSUME NEW T, NEW s \in Semaphore(T), s.woken <= Len(s.waiters), IsInjective(s.waiters)
  PROVE  LET a == Release(s)
         IN  /\ a \in Semaphore(T) /\ InOrder(a)
             /\ a.waiters = s.waiters /\ Balance(a) = Balance(s) + 1
             /\ s.woken = Len(s.waiters) => a.woken = s.woken
<1> DEFINE b == [s EXCEPT !.value = @ + 1]
           a == WakeUpNext(b)
<1> USE DEF Semaphore
<1>1. s.value \in Nat /\ s.value + 1 \in Nat /\ s.woken \in Nat
  OBVIOUS
<1>2. /\ b \in Semaphore(T) /\ b.value = s.value + 1 /\ b.woken = s.woken
      /\ b.waiters = s.waiters
  BY <1>1
<1> HIDE DEF b
<1>3. b.value > 0
  BY <1>1, <1>2
<1>4. /\ a \in Semaphore(T) /\ InOrder(a) /\ a.waiters = b.waiters
      /\ Balance(a) = Balance(b) /\ (b.woken = Len(b.waiters) => a.woken = b.woken)
  BY <1>2, <1>3, WakeKeeps
<1>5. Balance(b) = Balance(s) + 1
  BY <1>1, <1>2 DEF Balance
<1>6. Release(s) = a
  BY DEF Release, a, b
<1> HIDE DEF a
<1> QED BY <1>2, <1>4, <1>5, <1>6

LEMMA AcquireKeeps ==
  ASSUME NEW T, NEW s \in Semaphore(T), NEW i \in T, InOrder(s), i \notin Range(s.waiters)
  PROVE  LET a == Acquire(s, i)
         IN  /\ a \in Semaphore(T) /\ InOrder(a)
             /\ Range(a.waiters) = IF Locked(s) THEN Range(s.waiters) \cup {i}
                                                ELSE Range(s.waiters)
             /\ Balance(s) = IF Locked(s) THEN Balance(a) ELSE Balance(a) + 1
             /\ ~Locked(s) => s.waiters = <<>>
<1> DEFINE a == Acquire(s, i)
<1> USE DEF Semaphore
<1>0. /\ s.value \in Nat /\ s.woken \in Nat /\ s.waiters \in Seq(T) /\ Len(s.waiters) \in Nat
      /\ s.woken <= Len(s.waiters) /\ IsInjective(s.waiters)
  BY LenProperties DEF InOrder
<1>1. CASE Locked(s)
  <2> DEFINE v == Append(s.waiters, i)
  <2>1. /\ v \in Seq(T) /\ Len(v) = Len(s.waiters) + 1 /\ IsInjective(v)
        /\ Range(v) = Range(s.waiters) \cup {i}
    BY <1>0, AppendFacts
  <2>2. a = [s EXCEPT !.waiters = v]
    BY <1>1 DEF Acquire
  <2> HIDE DEF a, v
  <2>3. a \in Semaphore(T) /\ a.value = s.value /\ a.woken = s.woken /\ a.waiters = v
    BY <2>1, <2>2
  <2>4. ~(s.value > 0 /\ s.woken = 0)
    BY <1>0, <1>1 DEF Locked, InOrder
  <2>5. InOrder(a)
    BY <1>0, <2>1, <2>3, <2>4 DEF InOrder
  <2>6. Balance(a) = Balance(s)
    BY <2>3 DEF Balance
  <2> QED BY <1>1, <2>1, <2>3, <2>5, <2>6 DEF a
<1>2. CASE ~Locked(s)
  <2>1. a = [s EXCEPT !.value = @ - 1] /\ s.value # 0 /\ s.waiters = <<>>
    BY <1>2 DEF Acquire, Locked
  <2>2. s.value - 1 \in Nat
    BY <1>0, <2>1
  <2> HIDE DEF a
  <2>3. /\ a \in Semaphore(T) /\ a.value = s.value - 1 /\ a.woken = s.woken
        /\ a.waiters = s.waiters
    BY <2>1, <2>2
  <2>4. InOrder(a)
    BY <1>0, <2>1, <2>3 DEF InOrder
  <2>5. Balance(s) = Balance(a) + 1
    BY <1>0, <2>3 DEF Balance
  <2> QED BY <1>2, <2>1, <2>3, <2>4, <2>5 DEF a
<1> QED BY <1>1, <1>2

\* The first waiter leaves the queue.
LEMMA DequeuedKeeps ==
  ASSUME NEW T, NEW s \in Semaphore(T), InOrder(s), s.woken > 0
  PROVE  LET a == Dequeued(s)
         IN  /\ a \in Semaphore(T) /\ a.woken <= Len(a.waiters) /\ IsInjective(a.waiters)
             /\ a.value = s.value /\ Balance(s) = Balance(a) + 1
             /\ Head(s.waiters) \in Range(s.waiters)
             /\ Range(a.waiters) = Range(s.waiters) \ {Head(s.waiters)}
             /\ s.woken = Len(s.waiters) => a.woken = Len(a.waiters)
<1> DEFINE a == Dequeued(s)
           w == s.waiters
           v == Tail(w)
<1> USE DEF Semaphore
<1>1. /\ s.value \in Nat /\ s.woken \in Nat /\ w \in Seq(T) /\ Len(w) \in Nat
      /\ s.woken <= Len(w) /\ IsInjective(w)
  BY LenProperties DEF InOrder
<1>2. w # <<>>
  BY <1>1, EmptySeq
<1>3. /\ v \in Seq(T) /\ Len(v) = Len(w) - 1 /\ IsInjective(v)
      /\ Range(v) = Range(w) \ {Head(w)} /\ Head(w) \in Range(w)
  <2> HIDE DEF w
  <2> QED BY <1>1, <1>2, TailFacts
<1>4. a = [s EXCEPT !.waiters = v, !.woken = @ - 1]
  BY DEF Dequeued
<1>5. s.woken - 1 \in Nat
  BY <1>1
<1> HIDE DEF a, v
<1>6. /\ a \in Semaphore(T) /\ a.value = s.value /\ a.woken = s.woken - 1
      /\ a.waiters = v
  BY <1>3, <1>4, <1>5
<1>7. a.woken <= Len(a.waiters) /\ (s.woken = Len(s.waiters) => a.woken = Len(a.waiters))
  BY <1>1, <1>3, <1>6
<1>8. Balance(s) = Balance(a) + 1
  BY <1>1, <1>6 DEF Balance
<1> QED BY <1>3, <1>6, <1>7, <1>8 DEF a

\* A woken waiter takes what was set aside for it.
LEMMA AcquiredKeeps ==
  ASSUME NEW T, NEW s \in Semaphore(T), InOrder(s), s.woken > 0
  PROVE  LET a == Acquired(s)
         IN  /\ a \in Semaphore(T) /\ InOrder(a)
             /\ Balance(s) = Balance(a) + 1
             /\ Head(s.waiters) \in Range(s.waiters)
             /\ Range(a.waiters) = Range(s.waiters) \ {Head(s.waiters)}
<1> DEFINE b == Dequeued(s)
           a == Acquired(s)
<1>1. /\ b \in Semaphore(T) /\ b.woken <= Len(b.waiters) /\ IsInjective(b.waiters)
      /\ b.value = s.value /\ Balance(s) = Balance(b) + 1
      /\ Head(s.waiters) \in Range(s.waiters)
      /\ Range(b.waiters) = Range(s.waiters) \ {Head(s.waiters)}
  BY DequeuedKeeps
<1>2. CASE s.value > 0
  <2>1. a = WakeUpNext(b)
    BY <1>2 DEF Acquired
  <2> HIDE DEF a, b
  <2>2. /\ a \in Semaphore(T) /\ InOrder(a) /\ a.waiters = b.waiters
        /\ Balance(a) = Balance(b)
    BY <1>1, <1>2, <2>1, WakeKeeps
  <2> QED BY <1>1, <2>2 DEF a
<1>3. CASE ~(s.value > 0)
  <2>1. a = b
    BY <1>3 DEF Acquired
  <2> HIDE DEF a, b
  <2>2. InOrder(b)
    BY <1>1, <1>3 DEF InOrder
  <2> QED BY <1>1, <2>1, <2>2 DEF a
<1> QED BY <1>2, <1>3

----------------------------------------------------------------------------
(* Steps *)

LEMMA UpTo ==
  ASSUME NEW n \in Nat
  PROVE  IsFiniteSet(1..n) /\ Cardinality(1..n) = n
BY FS_Interval

LEMMA Basics ==
  ASSUME Types
  PROVE  /\ args.sessions \in Nat /\ args.scan_sessions \in Nat /\ args.rounds \in Nat
         /\ args.concurrency \in Nat /\ args.sharegpt \in BOOLEAN
         /\ Tasks = 1..(args.sessions + args.scan_sessions)
         /\ Tasks \subseteq Nat /\ Sessions \subseteq Tasks /\ Scanners \subseteq Tasks
         /\ Sessions \cap Scanners = {} /\ Tasks = Sessions \cup Scanners
         /\ IsFiniteSet(Tasks) /\ IsFiniteSet(Sessions)
         /\ Cardinality(Sessions) = args.sessions
<1>1. /\ args.sessions \in Nat /\ args.scan_sessions \in Nat /\ args.rounds \in Nat
      /\ args.concurrency \in Nat /\ args.sharegpt \in BOOLEAN
  BY ArgumentsAssumption DEF Types
<1>2. Tasks = 1..(args.sessions + args.scan_sessions)
  BY <1>1 DEF Tasks, Sessions, Scanners
<1>3. Sessions \cap Scanners = {} /\ Tasks = Sessions \cup Scanners
  BY <1>1 DEF Tasks, Sessions, Scanners
<1>4. IsFiniteSet(Tasks)
  <2> DEFINE n == args.sessions + args.scan_sessions
  <2>1. n \in Nat
    BY <1>1
  <2> HIDE DEF n
  <2>2. IsFiniteSet(1..n)
    BY <2>1, UpTo
  <2> QED BY <1>2, <2>2 DEF n
<1>5. IsFiniteSet(Sessions) /\ Cardinality(Sessions) = args.sessions
  <2> DEFINE n == args.sessions
  <2>1. n \in Nat
    BY <1>1
  <2> HIDE DEF n
  <2>2. IsFiniteSet(1..n) /\ Cardinality(1..n) = n
    BY <2>1, UpTo
  <2> QED BY <2>2 DEF n, Sessions
<1> QED BY <1>1, <1>2, <1>3, <1>4, <1>5

LEMMA SameTasks ==
  ASSUME args' = args
  PROVE  Sessions' = Sessions /\ Scanners' = Scanners /\ Tasks' = Tasks
BY DEF Sessions, Scanners, Tasks

\* A task that comes to the head of its loop, from its start or from an
\* answer, with history h, n texts drawn and the semaphore at s.
Comes(i, h, n, s) ==
  /\ phase \in {"run", "unwind"}
  /\ \/ /\ at[i] = "new" /\ \A j \in Tasks : j < i => at[j] # "new"
        /\ h = prompt[i] /\ n = drawn /\ s = sem /\ results' = results
     \/ /\ at[i] = "posted" /\ Started
        /\ n = IF i \in Sessions THEN drawn + 1 ELSE drawn
        /\ h = IF i \in Sessions THEN Append(prompt[i], Draw(n)) ELSE prompt[i]
        /\ s = Release(sem)
        /\ results' = IF i \in Sessions THEN Append(results, tokens[i]) ELSE results
  /\ UNCHANGED <<args, questions, streamed, report>>

\* It asks.
Asking(i, h, n, s) ==
  /\ round[i] # args.rounds /\ ~NoQuestions(i)
  /\ Ask(i, h, n, s)

\* A task whose request raises, the semaphore at s then.
GivesUp(i, s) ==
  /\ Running
  /\ \/ at[i] = "posted" /\ s = Release(sem)
     \/ at[i] = "waiting" /\ FirstWoken(i) /\ s = Release(Acquired(sem))
  /\ Raise(i, s)
  /\ UNCHANGED <<args, questions, streamed, results, report>>

\* A task that goes on with the permit set aside for it.
GoesOn(i) ==
  /\ Running /\ at[i] = "waiting" /\ FirstWoken(i)
  /\ at' = [at EXCEPT ![i] = "posted"]
  /\ sem' = Acquired(sem)
  /\ UNCHANGED <<args, phase, round, prompt, questions, drawn, tokens, streamed, results,
                 report>>

\* What a step may be.
LEMMA Cases ==
  ASSUME Inv, Next
  PROVE  \/ Main
         \/ \E i \in Tasks : Chunk(i) \/ GoesOn(i) \/ Unwind(i)
         \/ \E i \in Tasks : \E s : GivesUp(i, s)
         \/ \E i \in Tasks : \E h, n, s :
              /\ Comes(i, h, n, s)
              /\ \/ round[i] = args.rounds /\ Complete(i, n, s)
                 \/ round[i] # args.rounds /\ NoQuestions(i) /\ Raise(i, s)
                 \/ Asking(i, h, n, s)
<1>1. CASE Main
  BY <1>1
<1>2. ASSUME NEW i \in Tasks, Start(i)
      PROVE  \E h, n, s : Comes(i, h, n, s) /\ NextRound(i, h, n, s)
  <2>1. Comes(i, prompt[i], drawn, sem) /\ NextRound(i, prompt[i], drawn, sem)
    BY <1>2 DEF Start, Comes
  <2> QED BY <2>1
<1>3. ASSUME NEW i \in Tasks, Answer(i)
      PROVE  \E h, n, s : Comes(i, h, n, s) /\ NextRound(i, h, n, s)
  <2> DEFINE n == IF i \in Sessions THEN drawn + 1 ELSE drawn
             h == IF i \in Sessions THEN Append(prompt[i], Draw(n)) ELSE prompt[i]
             s == Release(sem)
  <2>1. Comes(i, h, n, s) /\ NextRound(i, h, n, s)
    BY <1>3 DEF Answer, Comes, Counted
  <2> HIDE DEF h, n, s
  <2> QED BY <2>1
<1>4. ASSUME NEW i \in Tasks, Resume(i) PROVE (\E s : GivesUp(i, s)) \/ GoesOn(i)
  <2>1. GivesUp(i, Release(Acquired(sem))) \/ GoesOn(i)
    BY <1>4 DEF Resume, GivesUp, GoesOn
  <2> QED BY <2>1
<1>5. ASSUME NEW i \in Tasks, Fail(i) PROVE \E s : GivesUp(i, s)
  <2>1. GivesUp(i, Release(sem))
    BY <1>5 DEF Fail, GivesUp
  <2> QED BY <2>1
<1>6. ASSUME NEW i \in Tasks, NEW h, NEW n, NEW s, NextRound(i, h, n, s)
      PROVE  \/ round[i] = args.rounds /\ Complete(i, n, s)
             \/ round[i] # args.rounds /\ NoQuestions(i) /\ Raise(i, s)
             \/ Asking(i, h, n, s)
  BY <1>6 DEF NextRound, Asking
<1>7. ASSUME NEW i \in Tasks, Start(i) \/ Answer(i)
      PROVE  \E h, n, s :
               /\ Comes(i, h, n, s)
               /\ \/ round[i] = args.rounds /\ Complete(i, n, s)
                  \/ round[i] # args.rounds /\ NoQuestions(i) /\ Raise(i, s)
                  \/ Asking(i, h, n, s)
  BY <1>2, <1>3, <1>6, <1>7
<1>8. CASE \E i \in Tasks : Start(i) \/ Answer(i)
  BY <1>7, <1>8
<1>9. CASE \E i \in Tasks : Resume(i) \/ Fail(i) \/ Chunk(i) \/ Unwind(i)
  BY <1>4, <1>5, <1>9
<1> QED BY <1>1, <1>8, <1>9 DEF Next

\* The semaphore is at s when task i has left it.
Left(i, s) ==
  /\ s \in Semaphore(Tasks) /\ InOrder(s)
  /\ Range(s.waiters) = Range(sem.waiters) \ {i}
  /\ Balance(s) + Held(at) = args.concurrency + (IF at[i] = "posted" THEN 1 ELSE 0)

LEMMA HeldChanges ==
  ASSUME Types, NEW i \in Tasks, NEW a, NEW p, p = [at EXCEPT ![i] = a]
  PROVE  /\ Held(at) \in Nat /\ Held(p) \in Nat
         /\ Held(p) + (IF at[i] = "posted" THEN 1 ELSE 0)
              = Held(at) + (IF a = "posted" THEN 1 ELSE 0)
<1> DEFINE was == {j \in Tasks : at[j] = "posted"}
           is == {j \in Tasks : p[j] = "posted"}
           rest == {j \in Tasks : j # i /\ at[j] = "posted"}
<1>1. p[i] = a /\ \A j \in Tasks : j # i => p[j] = at[j]
  BY DEF Types
<1>2. IsFiniteSet(rest) /\ Cardinality(rest) \in Nat
  <2>1. IsFiniteSet(rest)
    BY Basics, FS_Subset
  <2> QED BY <2>1, FS_CardinalityType
<1>3. i \notin rest
  OBVIOUS
<1>4. was = IF at[i] = "posted" THEN rest \cup {i} ELSE rest
  OBVIOUS
<1>5. is = IF a = "posted" THEN rest \cup {i} ELSE rest
  BY <1>1
<1> HIDE DEF was, is, rest
<1>6. Cardinality(rest \cup {i}) = Cardinality(rest) + 1
  BY <1>2, <1>3, FS_AddElement
<1>7. Cardinality(was) = IF at[i] = "posted" THEN Cardinality(rest) + 1 ELSE Cardinality(rest)
  BY <1>4, <1>6
<1>8. Cardinality(is) = IF a = "posted" THEN Cardinality(rest) + 1 ELSE Cardinality(rest)
  BY <1>5, <1>6
<1>9. Held(at) = Cardinality(was) /\ Held(p) = Cardinality(is)
  BY DEF Held, was, is
<1> QED BY <1>2, <1>7, <1>8, <1>9

LEMMA SemFacts ==
  ASSUME Inv
  PROVE  /\ sem \in Semaphore(Tasks) /\ InOrder(sem) /\ IsInjective(sem.waiters)
         /\ sem.woken <= Len(sem.waiters) /\ sem.value \in Nat /\ sem.woken \in Nat
         /\ sem.waiters \in Seq(Tasks)
         /\ Balance(sem) \in Nat /\ Held(at) \in Nat
         /\ Balance(sem) + Held(at) = args.concurrency /\ args.concurrency \in Nat
         /\ \A i \in Tasks : i \in Range(sem.waiters) => at[i] = "waiting"
<1>1. sem \in Semaphore(Tasks) /\ InOrder(sem) /\ args.concurrency \in Nat
  BY Basics DEF Inv, Types, Permits
<1>2. /\ sem.value \in Nat /\ sem.woken \in Nat /\ sem.waiters \in Seq(Tasks)
  BY <1>1 DEF Semaphore
<1>3. Held(at) \in Nat
  <2>1. IsFiniteSet({i \in Tasks : at[i] = "posted"})
    BY Basics, FS_Subset DEF Inv
  <2> QED BY <2>1, FS_CardinalityType DEF Held
<1>4. Balance(sem) \in Nat
  BY <1>2 DEF Balance
<1> QED BY <1>1, <1>2, <1>3, <1>4 DEF Inv, Permits, Attend, InOrder

\* By an answer or a failure: the request gives its permit back.
LEMMA ReleaseLeaves ==
  ASSUME Inv, NEW i \in Tasks, at[i] = "posted"
  PROVE  /\ Left(i, Release(sem)) /\ i \notin Range(sem.waiters)
         /\ Release(sem).waiters = sem.waiters
         /\ sem.woken = Len(sem.waiters) =>
              Release(sem).woken = Len(Release(sem).waiters)
<1> DEFINE s == Release(sem)
<1>1. i \notin Range(sem.waiters)
  BY SemFacts
<1>2. /\ s \in Semaphore(Tasks) /\ InOrder(s) /\ s.waiters = sem.waiters
      /\ Balance(s) = Balance(sem) + 1
      /\ sem.woken = Len(sem.waiters) => s.woken = sem.woken
  BY SemFacts, ReleaseKeeps
<1> HIDE DEF s
<1>3. Balance(s) + Held(at) = args.concurrency + 1
  BY <1>2, SemFacts
<1>4. Left(i, s)
  BY <1>1, <1>2, <1>3 DEF Left
<1> QED BY <1>1, <1>2, <1>4 DEF s

\* By a failure or a cancellation in acquire: what was set aside is given back.
LEMMA WokenLeaves ==
  ASSUME Inv, NEW i \in Tasks, at[i] = "waiting", FirstWoken(i)
  PROVE  /\ Left(i, Release(Acquired(sem)))
         /\ sem.woken = Len(sem.waiters) =>
              /\ Left(i, Release(Dequeued(sem)))
              /\ Release(Dequeued(sem)).woken = Len(Release(Dequeued(sem)).waiters)
<1>1. sem.woken > 0 /\ i = Head(sem.waiters)
  BY DEF FirstWoken
<1>2. Left(i, Release(Acquired(sem)))
  <2> DEFINE b == Acquired(sem)
             s == Release(b)
  <2>1. /\ b \in Semaphore(Tasks) /\ InOrder(b) /\ Balance(sem) = Balance(b) + 1
        /\ Range(b.waiters) = Range(sem.waiters) \ {i}
    BY <1>1, SemFacts, AcquiredKeeps
  <2> HIDE DEF b
  <2>2. /\ s \in Semaphore(Tasks) /\ InOrder(s) /\ s.waiters = b.waiters
        /\ Balance(s) = Balance(b) + 1
    BY <2>1, ReleaseKeeps DEF InOrder
  <2> HIDE DEF s
  <2>3. Balance(s) + Held(at) = args.concurrency
    BY <2>1, <2>2, SemFacts
  <2>4. Left(i, s)
    <3>1. args.concurrency + 0 = args.concurrency
      BY SemFacts
    <3> QED BY <2>1, <2>2, <2>3, <3>1 DEF Left
  <2> QED BY <2>4 DEF b, s
<1>3. ASSUME sem.woken = Len(sem.waiters)
      PROVE  /\ Left(i, Release(Dequeued(sem)))
             /\ Release(Dequeued(sem)).woken = Len(Release(Dequeued(sem)).waiters)
  <2> DEFINE b == Dequeued(sem)
             s == Release(b)
  <2>1. /\ b \in Semaphore(Tasks) /\ b.woken <= Len(b.waiters) /\ IsInjective(b.waiters)
        /\ Balance(sem) = Balance(b) + 1
        /\ Range(b.waiters) = Range(sem.waiters) \ {i} /\ b.woken = Len(b.waiters)
    BY <1>1, <1>3, SemFacts, DequeuedKeeps
  <2> HIDE DEF b
  <2>2. /\ s \in Semaphore(Tasks) /\ InOrder(s) /\ s.waiters = b.waiters
        /\ Balance(s) = Balance(b) + 1 /\ s.woken = b.woken
    BY <2>1, ReleaseKeeps
  <2> HIDE DEF s
  <2>3. Balance(s) + Held(at) = args.concurrency
    BY <2>1, <2>2, SemFacts
  <2>4. Left(i, s)
    <3>1. args.concurrency + 0 = args.concurrency
      BY SemFacts
    <3> QED BY <2>1, <2>2, <2>3, <3>1 DEF Left
  <2>5. s.woken = Len(s.waiters)
    BY <2>1, <2>2
  <2> QED BY <2>4, <2>5 DEF b, s
<1> QED BY <1>2, <1>3

LEMMA GivesUpFacts ==
  ASSUME Inv, NEW i \in Tasks, NEW s, GivesUp(i, s)
  PROVE  Left(i, s)
BY ReleaseLeaves, WokenLeaves DEF GivesUp

LEMMA UnwindFacts ==
  ASSUME Inv, NEW i \in Tasks, Unwind(i)
  PROVE  Left(i, Unwound(i)) /\ Unwound(i).woken = Len(Unwound(i).waiters)
<1>1. /\ phase = "cancelling" /\ at[i] \in {"waiting", "posted"}
      /\ i \in Range(sem.waiters) => FirstWoken(i)
  BY DEF Unwind
<1>2. sem.woken = Len(sem.waiters)
  BY <1>1 DEF Inv, Permits, Attend
<1>3. CASE at[i] = "posted"
  <2>1. Unwound(i) = Release(sem)
    BY <1>3 DEF Unwound
  <2> QED BY <1>2, <1>3, <2>1, ReleaseLeaves
<1>4. CASE at[i] = "waiting" /\ FirstWoken(i)
  <2>1. Unwound(i) = Release(Dequeued(sem))
    BY <1>4 DEF Unwound
  <2> QED BY <1>2, <1>4, <2>1, WokenLeaves
<1>5. CASE at[i] = "waiting" /\ ~FirstWoken(i)
  <2>1. Unwound(i) = sem
    BY <1>5 DEF Unwound
  <2>2. i \notin Range(sem.waiters)
    BY <1>1, <1>5
  <2>3. Balance(sem) + Held(at) = args.concurrency + 0
    BY SemFacts
  <2>4. Left(i, sem)
    BY <1>5, <2>2, <2>3, SemFacts DEF Left
  <2> QED BY <1>2, <2>1, <2>4
<1> QED BY <1>1, <1>3, <1>4, <1>5

\* The state in which a round begins: the task is not at the semaphore, and
\* its history has at most the last drawn text more than its prompt.
LEMMA ComesFacts ==
  ASSUME Inv, NEW i \in Tasks, NEW h, NEW n, NEW s, Comes(i, h, n, s)
  PROVE  /\ Left(i, s)
         /\ n \in Nat /\ drawn <= n
         /\ h \in Seq(Text)
         /\ \A x \in Range(h) : \/ x \in Texts(i)
                                \/ i \in Sessions /\ n = drawn + 1 /\ x = Draw(n)
         /\ results' \in Seq(Nat)
<1> USE DEF Inv
<1>1. CASE at[i] = "new" /\ h = prompt[i] /\ n = drawn /\ s = sem /\ results' = results
  <2>1. i \notin Range(sem.waiters)
    BY <1>1, SemFacts
  <2>2. Balance(sem) + Held(at) = args.concurrency + 0
    BY SemFacts
  <2>3. Left(i, sem)
    BY <1>1, <2>1, <2>2, SemFacts DEF Left
  <2>4. drawn \in Nat /\ prompt[i] \in Seq(Text) /\ results \in Seq(Nat)
    BY DEF Types
  <2> QED BY <1>1, <2>3, <2>4 DEF Texts
<1>2. CASE /\ at[i] = "posted"
           /\ n = IF i \in Sessions THEN drawn + 1 ELSE drawn
           /\ h = IF i \in Sessions THEN Append(prompt[i], Draw(n)) ELSE prompt[i]
           /\ s = Release(sem)
           /\ results' = IF i \in Sessions THEN Append(results, tokens[i]) ELSE results
  <2>1. Left(i, s)
    BY <1>2, ReleaseLeaves
  <2>2. /\ drawn \in Nat /\ prompt[i] \in Seq(Text) /\ results \in Seq(Nat)
        /\ tokens[i] \in Nat
    BY DEF Types
  <2>4. n \in Nat /\ drawn <= n
    BY <1>2, <2>2
  <2>5. Draw(n) \in Text
    BY <2>4 DEF Draw, Text
  <2>6. h \in Seq(Text) /\ \A x \in Range(h) :
          x \in Texts(i) \/ (i \in Sessions /\ n = drawn + 1 /\ x = Draw(n))
    <3>1. CASE i \in Sessions
      <4> DEFINE d == Draw(n)
                 p == prompt[i]
      <4>1. h = Append(p, d) /\ p \in Seq(Text) /\ d \in Text /\ n = drawn + 1
        BY <1>2, <2>2, <2>5, <3>1
      <4> HIDE DEF d, p
      <4>2. h \in Seq(Text) /\ \A x \in Range(h) : x \in Range(p) \/ x = d
        <5>1. /\ h \in Seq(Text) /\ DOMAIN h = 1..(Len(p) + 1) /\ Len(p) \in Nat
              /\ h[Len(p) + 1] = d /\ \A j \in 1..Len(p) : h[j] = p[j]
              /\ DOMAIN p = 1..Len(p)
          BY <4>1, AppendProperties, LenProperties
        <5> QED BY <5>1 DEF Range
      <4> QED BY <3>1, <4>1, <4>2 DEF Texts, d, p
    <3>2. CASE i \notin Sessions
      BY <1>2, <2>2, <3>2 DEF Texts
    <3> QED BY <3>1, <3>2
  <2>7. results' \in Seq(Nat)
    BY <1>2, <2>2
  <2> QED BY <2>1, <2>4, <2>6, <2>7
<1> QED BY <1>1, <1>2 DEF Comes

LEMMA AskFacts ==
  ASSUME Inv, NEW i \in Tasks, NEW h, NEW n, NEW s, Comes(i, h, n, s),
         Asking(i, h, n, s)
  PROVE  LET r == round[i] + 1 IN
         /\ Question(i, r, n) \in Text
         /\ i \in Scanners => Question(i, r, n) = Scan(i, r)
         /\ i \in Sessions /\ ~args.sharegpt => Question(i, r, n) = Draw(n + 1)
         /\ i \in Sessions /\ args.sharegpt => Question(i, r, n) \in Range(questions[i])
         /\ prompt' = [prompt EXCEPT ![i] = IF i \in Sessions THEN Append(h, Question(i, r, n))
                                                              ELSE <<Question(i, r, n)>>]
         /\ drawn' = IF i \in Sessions /\ ~args.sharegpt THEN n + 1 ELSE n
         /\ drawn' \in Nat /\ n <= drawn'
         /\ round[i] + 1 \in Nat /\ round' = [round EXCEPT ![i] = round[i] + 1]
         /\ sem' = Acquire(s, i)
         /\ at' = [at EXCEPT ![i] = IF Locked(s) THEN "waiting" ELSE "posted"]
         /\ tokens' = [tokens EXCEPT ![i] = 0]
         /\ phase' = phase
<1> DEFINE r == round[i] + 1
<1>1. /\ round[i] \in Nat /\ r \in Nat /\ n \in Nat /\ questions \in [Sessions -> Seq(Text)]
      /\ i \in Nat
  <2>1. n \in Nat
    BY ComesFacts
  <2> QED BY <2>1, Basics DEF Inv, Types
<1>2. Tasks = Sessions \cup Scanners /\ Sessions \cap Scanners = {}
  BY Basics DEF Inv
<1>3. i \in Sessions /\ args.sharegpt => Question(i, r, n) \in Range(questions[i])
  <2> SUFFICES ASSUME i \in Sessions, args.sharegpt
               PROVE  Question(i, r, n) \in Range(questions[i])
    OBVIOUS
  <2> DEFINE q == questions[i]
             k == 1 + ((r - 1) % Len(q))
  <2>1. q \in Seq(Text) /\ q # <<>>
    BY <1>1 DEF Asking, NoQuestions
  <2>2. Len(q) \in Nat /\ Len(q) > 0 /\ DOMAIN q = 1..Len(q)
    <3> HIDE DEF q
    <3> QED BY <2>1, EmptySeq, LenProperties
  <2>3. k \in DOMAIN q
    <3>1. r - 1 \in Int
      BY <1>1
    <3> DEFINE m == r - 1
               l == Len(q)
    <3>2. m \in Int /\ l \in Nat /\ l > 0
      BY <2>2, <3>1
    <3> HIDE DEF m, l
    <3>3. m % l \in 0..(l - 1)
      BY <3>2
    <3> QED BY <2>2, <3>2, <3>3 DEF m, l
  <2>4. Question(i, r, n) = q[k]
    BY <1>2 DEF Question, Drawing
  <2> HIDE DEF q, k
  <2>5. q[k] \in Range(q)
    BY <2>3 DEF Range
  <2> QED BY <2>4, <2>5 DEF q
<1>4. i \in Scanners => Question(i, r, n) = Scan(i, r)
  BY DEF Question, Drawing
<1>5. i \in Sessions /\ ~args.sharegpt => Question(i, r, n) = Draw(n + 1)
  BY <1>2 DEF Question, Drawing
<1>6. Question(i, r, n) \in Text
  <2>1. CASE i \in Scanners
    BY <1>1, <1>4, <2>1 DEF Scan, Text
  <2>2. CASE i \in Sessions /\ ~args.sharegpt
    BY <1>1, <1>5, <2>2 DEF Draw, Text
  <2>3. CASE i \in Sessions /\ args.sharegpt
    <3>1. questions[i] \in Seq(Text)
      BY <1>1, <2>3
    <3>2. Range(questions[i]) \subseteq Text
      BY <3>1 DEF Range
    <3> QED BY <1>3, <2>3, <3>2
  <2> QED BY <1>2, <2>1, <2>2, <2>3
<1>7. prompt' = [prompt EXCEPT ![i] = IF i \in Sessions THEN Append(h, Question(i, r, n))
                                                        ELSE <<Question(i, r, n)>>]
  BY DEF Asking, Ask
<1>8. drawn' = IF i \in Sessions /\ ~args.sharegpt THEN n + 1 ELSE n
  BY DEF Asking, Ask, Drawing
<1>9. /\ round' = [round EXCEPT ![i] = round[i] + 1]
      /\ sem' = Acquire(s, i)
      /\ at' = [at EXCEPT ![i] = IF Locked(s) THEN "waiting" ELSE "posted"]
      /\ tokens' = [tokens EXCEPT ![i] = 0]
      /\ phase' = phase
  BY DEF Asking, Ask
<1> QED BY <1>1, <1>3, <1>4, <1>5, <1>6, <1>7, <1>8, <1>9

----------------------------------------------------------------------------
(* Loading *)

\* The conversations LoadShareGpt deals out, as numbers.
LEMMA DataFacts ==
  ASSUME NEW c \in DOMAIN Data
  PROVE  c \in Nat /\ Min({Data[c].asked, 16}) \in Nat
<1>1. DOMAIN Data = 1..Len(Data) /\ Len(Data) \in Nat
      /\ Data[c] \in [turns : Nat, long : BOOLEAN, asked : Nat]
  <2> DEFINE R == [turns : Nat, long : BOOLEAN, asked : Nat]
  <2>1. Data \in Seq(R)
    BY ArgumentsAssumption
  <2> HIDE DEF R
  <2>2. DOMAIN Data = 1..Len(Data) /\ Len(Data) \in Nat /\ Data[c] \in R
    BY <2>1, LenProperties
  <2> QED BY <2>2 DEF R
<1> DEFINE a == Data[c].asked
<1>2. a \in Nat /\ c \in Nat
  BY <1>1
<1> HIDE DEF a
<1>3. \E x \in {a, 16} : \A y \in {a, 16} : x <= y
  <2>1. CASE a <= 16
    BY <1>2, <2>1
  <2>2. CASE ~(a <= 16)
    BY <1>2, <2>2
  <2> QED BY <2>1, <2>2
<1>4. Min({a, 16}) \in {a, 16}
  BY <1>3 DEF Min
<1> QED BY <1>2, <1>4 DEF a

LEMMA LoadFacts ==
  ASSUME Inv, LoadShareGpt
  PROVE  /\ prompt' \in [Tasks -> Seq(Text)]
         /\ questions' \in [Sessions -> Seq(Text)]
         /\ \A i \in Tasks : \A x \in Range(prompt'[i]) : x[1] = "document"
         /\ \A s \in Sessions : \A x \in Range(questions'[s]) :
              /\ x[1] = "turn"
              /\ \A t \in Sessions \ {s} : x \notin Range(questions'[t])
<1>1. PICK deal \in [Sessions -> Usable] :
        /\ IsInjective(deal)
        /\ prompt' = [i \in Tasks |-> IF i \in Sessions THEN <<Document(deal[i])>> ELSE <<>>]
        /\ questions' = [s \in Sessions |->
             [j \in 1..Min({Data[deal[s]].asked, 16}) |-> Turn(deal[s], j)]]
  BY DEF LoadShareGpt
<1>2. \A s \in Sessions : deal[s] \in Nat /\ Min({Data[deal[s]].asked, 16}) \in Nat
  BY DataFacts DEF Usable
<1>3. \A s \in Sessions : Document(deal[s]) \in Text /\ Document(deal[s])[1] = "document"
  BY <1>2 DEF Document, Text
<1>4. ASSUME NEW i \in Tasks
      PROVE  /\ prompt'[i] \in Seq(Text)
             /\ \A x \in Range(prompt'[i]) : x[1] = "document"
  <2>1. CASE i \in Sessions
    <3> DEFINE d == Document(deal[i])
    <3>1. prompt'[i] = <<d>> /\ d \in Text /\ d[1] = "document"
      BY <1>1, <1>3, <2>1
    <3> HIDE DEF d
    <3> QED BY <3>1 DEF Range
  <2>2. CASE i \notin Sessions
    BY <1>1, <2>2 DEF Range
  <2> QED BY <2>1, <2>2
<1>5. ASSUME NEW s \in Sessions
      PROVE  /\ questions'[s] \in Seq(Text)
             /\ \A x \in Range(questions'[s]) : x[1] = "turn" /\ x[2] = deal[s]
  <2> DEFINE m == Min({Data[deal[s]].asked, 16})
             c == deal[s]
  <2>1. m \in Nat /\ c \in Nat /\ questions'[s] = [j \in 1..m |-> Turn(c, j)]
    BY <1>1, <1>2
  <2> HIDE DEF m, c
  <2>2. \A j \in 1..m : Turn(c, j) \in Text /\ Turn(c, j)[1] = "turn" /\ Turn(c, j)[2] = c
    BY <2>1 DEF Turn, Text
  <2>3. [j \in 1..m |-> Turn(c, j)] \in Seq(Text)
    BY <2>1, <2>2, SeqDef
  <2>4. \A x \in Range(questions'[s]) : x[1] = "turn" /\ x[2] = c
    BY <2>1, <2>2 DEF Range
  <2> QED BY <2>1, <2>3, <2>4 DEF c
<1>6. \A s, t \in Sessions : s # t => deal[s] # deal[t]
  BY <1>1 DEF IsInjective
<1>7. prompt' \in [Tasks -> Seq(Text)] /\ questions' \in [Sessions -> Seq(Text)]
  BY <1>1, <1>4, <1>5
<1>8. \A s \in Sessions : \A x \in Range(questions'[s]) :
              /\ x[1] = "turn"
              /\ \A t \in Sessions \ {s} : x \notin Range(questions'[t])
  <2> SUFFICES ASSUME NEW s \in Sessions, NEW x \in Range(questions'[s]),
                      NEW t \in Sessions \ {s}, x \in Range(questions'[t])
               PROVE  FALSE
    BY <1>5
  <2>1. x[2] = deal[s]
    BY <1>5
  <2>2. x[2] = deal[t]
    BY <1>5
  <2> QED BY <1>6, <2>1, <2>2
<1> QED BY <1>4, <1>7, <1>8

LEMMA MakeFacts ==
  ASSUME Inv, MakeSessions
  PROVE  /\ prompt' \in [Tasks -> Seq(Text)]
         /\ drawn' = 1 + args.sessions /\ drawn' \in Nat
         /\ \A s \in Sessions : prompt'[s] = <<Draw(1), Draw(1 + s)>>
         /\ \A i \in Tasks : \A x \in Range(prompt'[i]) : x[1] = "rng" /\ x[3] <= drawn'
<1>1. /\ prompt' = [i \in Tasks |-> IF i \in Sessions THEN <<Draw(1), Draw(1 + i)>> ELSE <<>>]
      /\ drawn' = 1 + args.sessions
  BY DEF MakeSessions
<1>2. args.sessions \in Nat /\ Sessions = 1..args.sessions /\ Sessions \subseteq Tasks
  BY Basics DEF Inv, Sessions
<1>3. ASSUME NEW i \in Tasks
      PROVE  /\ prompt'[i] \in Seq(Text)
             /\ \A x \in Range(prompt'[i]) : x[1] = "rng" /\ x[3] <= drawn'
  <2>1. CASE i \in Sessions
    <3> DEFINE d == Draw(1)
               e == Draw(1 + i)
    <3>1. /\ d \in Text /\ d[1] = "rng" /\ d[3] <= 1 + args.sessions
          /\ e \in Text /\ e[1] = "rng" /\ e[3] <= 1 + args.sessions
      BY <1>2, <2>1 DEF Draw, Text
    <3>2. prompt'[i] = <<d, e>>
      BY <1>1, <2>1
    <3> HIDE DEF d, e
    <3> QED BY <1>1, <3>1, <3>2 DEF Range
  <2>2. CASE i \notin Sessions
    BY <1>1, <2>2 DEF Range
  <2> QED BY <2>1, <2>2
<1> QED BY <1>1, <1>2, <1>3

----------------------------------------------------------------------------
(* The invariant is kept *)

LEMMA CancelFacts ==
  ASSUME Inv, Cancel
  PROVE  /\ sem' \in Semaphore(Tasks) /\ InOrder(sem') /\ Balance(sem') = Balance(sem)
         /\ Range(sem'.waiters) \subseteq Range(sem.waiters)
         /\ sem'.woken = Len(sem'.waiters)
<1> DEFINE v == SubSeq(sem.waiters, 1, sem.woken)
<1>1. /\ v \in Seq(Tasks) /\ Len(v) = sem.woken /\ IsInjective(v)
      /\ Range(v) \subseteq Range(sem.waiters) /\ (sem.woken = 0 => v = <<>>)
  BY SemFacts, PrefixFacts
<1>2. sem' = [sem EXCEPT !.waiters = v]
  BY DEF Cancel
<1> HIDE DEF v
<1>3. /\ sem' \in Semaphore(Tasks) /\ sem'.value = sem.value /\ sem'.woken = sem.woken
      /\ sem'.waiters = v
  BY <1>1, <1>2, SemFacts DEF Semaphore
<1>4. InOrder(sem')
  BY <1>1, <1>3, SemFacts DEF InOrder
<1>5. Balance(sem') = Balance(sem)
  BY <1>3 DEF Balance
<1> QED BY <1>1, <1>3, <1>4, <1>5

LEMMA TypesKept == Inv /\ Next => Types'
<1> SUFFICES ASSUME Inv, Next PROVE Types'
  OBVIOUS
<1> USE DEF Inv
<1>0. /\ args \in Arguments
      /\ phase \in {"load", "run", "unwind", "closed", "cancelling", "failed", "reported"}
      /\ at \in [Tasks -> {"new", "waiting", "posted", "done", "failed", "cancelled"}]
      /\ round \in [Tasks -> Nat] /\ prompt \in [Tasks -> Seq(Text)]
      /\ questions \in [Sessions -> Seq(Text)] /\ sem \in Semaphore(Tasks)
      /\ drawn \in Nat /\ tokens \in [Tasks -> Nat] /\ streamed \in [Tasks -> Nat]
      /\ results \in Seq(Nat)
  BY DEF Types
<1>1. CASE LoadShareGpt
  <2>1. UNCHANGED <<args, at, round, sem, drawn, tokens, streamed, results>> /\ phase' = "run"
    BY <1>1 DEF LoadShareGpt
  <2> QED BY <1>0, <1>1, <2>1, LoadFacts, SameTasks DEF Types
<1>2. CASE LoadFails \/ Close \/ Quit
  <2>1. /\ UNCHANGED <<args, at, round, prompt, questions, sem, drawn, tokens, streamed, results>>
        /\ phase' \in {"failed", "closed"}
    BY <1>2 DEF LoadFails, Close, Quit
  <2> QED BY <1>0, <2>1, SameTasks DEF Types
<1>3. CASE MakeSessions
  <2>1. UNCHANGED <<args, at, round, questions, sem, tokens, streamed, results>> /\ phase' = "run"
    BY <1>3 DEF MakeSessions
  <2> QED BY <1>0, <1>3, <2>1, MakeFacts, SameTasks DEF Types
<1>4. CASE Cancel
  <2>1. /\ UNCHANGED <<args, at, round, prompt, questions, drawn, tokens, streamed, results>>
        /\ phase' = "cancelling"
    BY <1>4 DEF Cancel
  <2>2. sem' \in Semaphore(Tasks)
    BY <1>4, CancelFacts
  <2> QED BY <1>0, <2>1, <2>2, SameTasks DEF Types
<1>5. CASE Report
  <2>1. /\ UNCHANGED <<args, at, round, prompt, questions, sem, drawn, tokens, streamed, results>>
        /\ phase' \in {"failed", "reported"}
    BY <1>5 DEF Report
  <2> QED BY <1>0, <2>1, SameTasks DEF Types
<1>6. ASSUME NEW i \in Tasks, Chunk(i) PROVE Types'
  <2>1. /\ UNCHANGED <<args, phase, at, round, prompt, questions, sem, drawn, results>>
        /\ tokens' = [tokens EXCEPT ![i] = @ + 1]
        /\ streamed' = [streamed EXCEPT ![i] = @ + 1]
    BY <1>6 DEF Chunk
  <2>2. tokens' \in [Tasks -> Nat] /\ streamed' \in [Tasks -> Nat]
    BY <1>0, <2>1
  <2> QED BY <1>0, <2>1, <2>2, SameTasks DEF Types
<1>7. ASSUME NEW i \in Tasks, NEW s, GivesUp(i, s) PROVE Types'
  <2>1. /\ UNCHANGED <<args, round, prompt, questions, drawn, tokens, streamed, results>>
        /\ phase' \in {phase, "unwind"}
        /\ at' = [at EXCEPT ![i] = "failed"] /\ sem' = s
    BY <1>7 DEF GivesUp, Raise
  <2>2. sem' \in Semaphore(Tasks)
    BY <1>7, <2>1, GivesUpFacts DEF Left
  <2>3. at' \in [Tasks -> {"new", "waiting", "posted", "done", "failed", "cancelled"}]
    BY <1>0, <2>1
  <2> QED BY <1>0, <2>1, <2>2, <2>3, SameTasks DEF Types
<1>8. ASSUME NEW i \in Tasks, GoesOn(i) PROVE Types'
  <2>1. /\ UNCHANGED <<args, phase, round, prompt, questions, drawn, tokens, streamed, results>>
        /\ at' = [at EXCEPT ![i] = "posted"] /\ sem' = Acquired(sem) /\ sem.woken > 0
    BY <1>8 DEF GoesOn, FirstWoken
  <2>2. at' \in [Tasks -> {"new", "waiting", "posted", "done", "failed", "cancelled"}]
    BY <1>0, <2>1
  <2>3. sem' \in Semaphore(Tasks)
    BY <2>1, SemFacts, AcquiredKeeps
  <2> QED BY <1>0, <2>1, <2>2, <2>3, SameTasks DEF Types
<1>11. ASSUME NEW i \in Tasks, Unwind(i) PROVE Types'
  <2>1. /\ UNCHANGED <<args, phase, round, prompt, questions, drawn, tokens, streamed, results>>
        /\ at' = [at EXCEPT ![i] = "cancelled"] /\ sem' = Unwound(i)
    BY <1>11 DEF Unwind
  <2>2. at' \in [Tasks -> {"new", "waiting", "posted", "done", "failed", "cancelled"}]
    BY <1>0, <2>1
  <2>3. sem' \in Semaphore(Tasks)
    BY <1>11, <2>1, UnwindFacts DEF Left
  <2> QED BY <1>0, <2>1, <2>2, <2>3, SameTasks DEF Types
<1>9. ASSUME NEW i \in Tasks, NEW h, NEW n, NEW s, Comes(i, h, n, s),
             \/ round[i] = args.rounds /\ Complete(i, n, s)
             \/ round[i] # args.rounds /\ NoQuestions(i) /\ Raise(i, s)
      PROVE  Types'
  <2>1. /\ UNCHANGED <<args, round, prompt, questions, tokens, streamed>>
        /\ phase' \in {phase, "unwind"} /\ drawn' \in {drawn, n}
        /\ at' \in {[at EXCEPT ![i] = "failed"], [at EXCEPT ![i] = "done"]} /\ sem' = s
    BY <1>9 DEF Comes, Complete, Raise
  <2>2. s \in Semaphore(Tasks) /\ n \in Nat /\ results' \in Seq(Nat)
    BY <1>9, ComesFacts DEF Left
  <2>3. at' \in [Tasks -> {"new", "waiting", "posted", "done", "failed", "cancelled"}]
    BY <1>0, <2>1
  <2> QED BY <1>0, <2>1, <2>2, <2>3, SameTasks DEF Types
<1>10. ASSUME NEW i \in Tasks, NEW h, NEW n, NEW s, Comes(i, h, n, s), Asking(i, h, n, s)
       PROVE  Types'
  <2> DEFINE q == Question(i, round[i] + 1, n)
             v == IF i \in Sessions THEN Append(h, q) ELSE <<q>>
  <2>1. UNCHANGED <<args, questions, streamed>>
    BY <1>10 DEF Comes
  <2>2. /\ s \in Semaphore(Tasks) /\ InOrder(s) /\ i \notin Range(s.waiters)
        /\ h \in Seq(Text) /\ results' \in Seq(Nat)
    BY <1>10, ComesFacts DEF Left
  <2>3. /\ q \in Text /\ prompt' = [prompt EXCEPT ![i] = v]
        /\ drawn' \in Nat /\ round' = [round EXCEPT ![i] = round[i] + 1]
        /\ sem' = Acquire(s, i)
        /\ \E a \in {"posted", "waiting"} : at' = [at EXCEPT ![i] = a]
        /\ tokens' = [tokens EXCEPT ![i] = 0] /\ phase' = phase
    BY <1>10, AskFacts
  <2>4. sem' \in Semaphore(Tasks)
    BY <2>2, <2>3, AcquireKeeps
  <2>5. v \in Seq(Text)
    <3> HIDE DEF q
    <3> QED BY <2>2, <2>3
  <2> HIDE DEF q, v
  <2>6. /\ prompt' \in [Tasks -> Seq(Text)] /\ round' \in [Tasks -> Nat]
        /\ tokens' \in [Tasks -> Nat]
        /\ at' \in [Tasks -> {"new", "waiting", "posted", "done", "failed", "cancelled"}]
    BY <1>0, <2>3, <2>5
  <2> QED BY <1>0, <2>1, <2>2, <2>3, <2>4, <2>6, SameTasks DEF Types
<1> QED BY <1>1, <1>2, <1>3, <1>4, <1>5, <1>6, <1>7, <1>8, <1>9, <1>10, <1>11, Cases DEF Main

LEMMA PermitsKept == Inv /\ Next => Permits'
<1> SUFFICES ASSUME Inv, Next PROVE Permits'
  OBVIOUS
<1> USE DEF Inv
<1>0. /\ at \in [Tasks -> {"new", "waiting", "posted", "done", "failed", "cancelled"}]
      /\ \A j \in Range(sem.waiters) : j \in Tasks /\ at[j] = "waiting"
      /\ phase # "cancelling" =>
           \A j \in Tasks : at[j] = "waiting" => j \in Range(sem.waiters)
  BY DEF Types, Permits, Attend
<1>a. ASSUME args' = args, InOrder(sem'), Balance(sem') + Held(at') = args.concurrency,
             Attend(sem', at', phase')
      PROVE  Permits'
  BY <1>a, SameTasks DEF Permits, Attend, InOrder, Balance, Held, Range, IsInjective
<1>b. ASSUME args' = args, at' = at, sem' = sem,
             phase' = "cancelling" <=> phase = "cancelling"
      PROVE  Permits'
  BY <1>a, <1>b DEF Permits, Attend
<1>1. CASE LoadShareGpt \/ LoadFails \/ MakeSessions \/ Close \/ Report
  BY <1>1, <1>b DEF LoadShareGpt, LoadFails, MakeSessions, Close, Report
<1>2. CASE Cancel
  <2>1. args' = args /\ at' = at /\ phase' = "cancelling"
    BY <1>2 DEF Cancel
  <2>2. /\ InOrder(sem') /\ Balance(sem') = Balance(sem)
        /\ Range(sem'.waiters) \subseteq Range(sem.waiters) /\ sem'.woken = Len(sem'.waiters)
    BY <1>2, CancelFacts
  <2>3. Attend(sem', at', phase')
    BY <1>0, <2>1, <2>2 DEF Attend
  <2> QED BY <1>a, <2>1, <2>2, <2>3, SemFacts
<1>3. CASE Quit
  <2>1. /\ args' = args /\ at' = at /\ sem' = sem /\ phase' = "failed"
        /\ \A j \in Tasks : at[j] # "waiting"
    BY <1>3 DEF Quit
  <2>2. Attend(sem', at', phase')
    BY <1>0, <2>1 DEF Attend
  <2> QED BY <1>a, <2>1, <2>2, SemFacts
<1>4. ASSUME NEW i \in Tasks, Chunk(i) PROVE Permits'
  BY <1>4, <1>b DEF Chunk
<1>5. ASSUME NEW i \in Tasks, GoesOn(i) PROVE Permits'
  <2>1. /\ args' = args /\ at' = [at EXCEPT ![i] = "posted"] /\ sem' = Acquired(sem)
        /\ at[i] = "waiting" /\ sem.woken > 0 /\ i = Head(sem.waiters)
        /\ phase' = phase /\ phase # "cancelling"
    BY <1>5 DEF GoesOn, FirstWoken, Running
  <2>2. at'[i] = "posted" /\ \A j \in Tasks : j # i => at'[j] = at[j]
    BY <1>0, <2>1
  <2>3. /\ sem' \in Semaphore(Tasks) /\ InOrder(sem') /\ Balance(sem) = Balance(sem') + 1
        /\ Range(sem'.waiters) = Range(sem.waiters) \ {i}
    BY <2>1, SemFacts, AcquiredKeeps
  <2>4. Held(at') \in Nat /\ Held(at') = Held(at) + 1
    <3>1. Held(at') \in Nat /\ Held(at') + 0 = Held(at) + 1
      BY <2>1, HeldChanges
    <3> QED BY <3>1
  <2>5. Balance(sem') \in Nat
    BY <2>3 DEF Semaphore, Balance
  <2>6. Balance(sem') + Held(at') = args.concurrency
    BY <2>3, <2>4, <2>5, SemFacts
  <2>7. Attend(sem', at', phase')
    BY <1>0, <2>1, <2>2, <2>3 DEF Attend
  <2> QED BY <1>a, <2>1, <2>3, <2>6, <2>7
\* A task leaves the semaphore.
<1>6. ASSUME NEW i \in Tasks, NEW s, NEW a \in {"failed", "done", "cancelled"}, Left(i, s),
             args' = args, sem' = s, at' = [at EXCEPT ![i] = a],
             phase' # "cancelling" => phase # "cancelling",
             phase' = "cancelling" => s.woken = Len(s.waiters)
      PROVE  Permits'
  <2>1. at'[i] = a /\ \A j \in Tasks : j # i => at'[j] = at[j]
    BY <1>0, <1>6
  <2>2. /\ InOrder(s) /\ Range(s.waiters) = Range(sem.waiters) \ {i}
        /\ Balance(s) + Held(at) = args.concurrency + (IF at[i] = "posted" THEN 1 ELSE 0)
        /\ Balance(s) \in Nat
    BY <1>6 DEF Left, Semaphore, Balance
  <2>3. /\ Held(at) \in Nat /\ Held(at') \in Nat
        /\ Held(at') + (IF at[i] = "posted" THEN 1 ELSE 0) = Held(at) + 0
    BY <1>6, HeldChanges
  <2>4. Balance(s) + Held(at') = args.concurrency
    <3> DEFINE k == IF at[i] = "posted" THEN 1 ELSE 0
               b == Balance(s)
               c == args.concurrency
               was == Held(at)
               is == Held(at')
    <3>1. k \in Nat /\ c \in Nat /\ b \in Nat /\ was \in Nat /\ is \in Nat
      BY <2>2, <2>3, SemFacts
    <3>2. b + was = c + k /\ is + k = was + 0
      BY <2>2, <2>3
    <3> HIDE DEF k, b, c, was, is
    <3>3. b + is = c
      BY <3>1, <3>2
    <3> QED BY <3>3 DEF b, c, is
  <2>5. Attend(s, at', phase')
    BY <1>0, <1>6, <2>1, <2>2 DEF Attend
  <2> QED BY <1>a, <1>6, <2>2, <2>4, <2>5
<1>7. ASSUME NEW i \in Tasks, NEW s, GivesUp(i, s) PROVE Permits'
  <2>1. /\ args' = args /\ at' = [at EXCEPT ![i] = "failed"] /\ sem' = s
        /\ phase # "cancelling" /\ phase' # "cancelling"
    BY <1>7 DEF GivesUp, Raise, Running
  <2> QED BY <1>6, <1>7, <2>1, GivesUpFacts
<1>8. ASSUME NEW i \in Tasks, Unwind(i) PROVE Permits'
  <2>1. /\ args' = args /\ at' = [at EXCEPT ![i] = "cancelled"] /\ sem' = Unwound(i)
        /\ phase' = "cancelling"
    BY <1>8 DEF Unwind
  <2> QED BY <1>6, <1>8, <2>1, UnwindFacts
<1>9. ASSUME NEW i \in Tasks, NEW h, NEW n, NEW s, Comes(i, h, n, s),
             \/ round[i] = args.rounds /\ Complete(i, n, s)
             \/ round[i] # args.rounds /\ NoQuestions(i) /\ Raise(i, s)
      PROVE  Permits'
  <2>1. /\ args' = args /\ sem' = s
        /\ \E a \in {"failed", "done", "cancelled"} : at' = [at EXCEPT ![i] = a]
        /\ phase # "cancelling" /\ phase' # "cancelling"
    BY <1>9 DEF Comes, Complete, Raise
  <2> QED BY <1>6, <1>9, <2>1, ComesFacts
<1>10. ASSUME NEW i \in Tasks, NEW h, NEW n, NEW s, Comes(i, h, n, s), Asking(i, h, n, s)
       PROVE  Permits'
  <2>1. /\ s \in Semaphore(Tasks) /\ InOrder(s) /\ Range(s.waiters) = Range(sem.waiters) \ {i}
        /\ Balance(s) + Held(at) = args.concurrency + (IF at[i] = "posted" THEN 1 ELSE 0)
        /\ Balance(s) \in Nat
    BY <1>10, ComesFacts DEF Left, Semaphore, Balance
  <2>2. /\ args' = args /\ sem' = Acquire(s, i) /\ phase' = phase /\ phase # "cancelling"
        /\ at' = [at EXCEPT ![i] = IF Locked(s) THEN "waiting" ELSE "posted"]
    BY <1>10, AskFacts DEF Comes
  <2>3. /\ sem' \in Semaphore(Tasks) /\ InOrder(sem')
        /\ Range(sem'.waiters) = IF Locked(s) THEN Range(s.waiters) \cup {i}
                                              ELSE Range(s.waiters)
        /\ Balance(s) = IF Locked(s) THEN Balance(sem') ELSE Balance(sem') + 1
    BY <2>1, <2>2, AcquireKeeps
  <2>4. /\ at'[i] = IF Locked(s) THEN "waiting" ELSE "posted"
        /\ \A j \in Tasks : j # i => at'[j] = at[j]
    BY <1>0, <2>2
  <2>5. /\ Held(at) \in Nat /\ Held(at') \in Nat
        /\ Held(at') + (IF at[i] = "posted" THEN 1 ELSE 0)
             = Held(at) + (IF Locked(s) THEN 0 ELSE 1)
    <3> DEFINE a == IF Locked(s) THEN "waiting" ELSE "posted"
    <3>1. at' = [at EXCEPT ![i] = a] /\ (a = "posted" <=> ~Locked(s))
      BY <2>2
    <3> HIDE DEF a
    <3> QED BY <3>1, HeldChanges
  <2>6. Balance(sem') \in Nat
    BY <2>3 DEF Semaphore, Balance
  <2>7. Balance(sem') + Held(at') = args.concurrency
    <3> DEFINE k == IF at[i] = "posted" THEN 1 ELSE 0
               l == IF Locked(s) THEN 0 ELSE 1
               b == Balance(sem')
    <3>1. k \in Nat /\ l \in Nat /\ args.concurrency \in Nat
      BY SemFacts
    <3>2. Balance(s) = b + l /\ b \in Nat
      BY <2>3, <2>6
    <3>3. Balance(s) + Held(at) = args.concurrency + k
      BY <2>1
    <3>4. Held(at') + k = Held(at) + l
      BY <2>5
    <3> HIDE DEF k, l, b
    <3>5. b + Held(at') = args.concurrency
      BY <2>5, <3>1, <3>2, <3>3, <3>4
    <3> QED BY <3>5 DEF b
  <2>8. Attend(sem', at', phase')
    BY <1>0, <2>1, <2>2, <2>3, <2>4 DEF Attend
  <2> QED BY <1>a, <2>2, <2>3, <2>7, <2>8
<1> QED BY <1>1, <1>2, <1>3, <1>4, <1>5, <1>7, <1>8, <1>9, <1>10, Cases DEF Main

LEMMA ProgressKept == Inv /\ Next => Progress'
<1> SUFFICES ASSUME Inv, Next PROVE Progress'
  OBVIOUS
<1> USE DEF Inv
<1> DEFINE Keeps(j) ==
      /\ round'[j] <= args.rounds
      /\ at'[j] = "new" => round'[j] = 0
      /\ at'[j] \in {"waiting", "posted"} => round'[j] >= 1
      /\ at'[j] = "done" => round'[j] = args.rounds
      /\ phase' = "load" => at'[j] = "new" /\ prompt'[j] = <<>>
      /\ phase' \in {"load", "run", "reported"} => at'[j] \notin {"failed", "cancelled"}
      /\ phase' = "reported" => at'[j] = "done"
      /\ phase' \in {"closed", "cancelling"} => at'[j] # "new"
      /\ phase' = "failed" => at'[j] \notin {"waiting", "posted"}
<1>0. /\ \A j \in Tasks : round[j] \in Nat /\ round[j] <= args.rounds
      /\ args.rounds \in Nat
      /\ \A j \in Tasks : at[j] \in {"new", "waiting", "posted", "done", "failed", "cancelled"}
  BY Basics DEF Types, Progress
<1>a. ASSUME args' = args, \A j \in Tasks : Keeps(j) PROVE Progress'
  BY <1>a, SameTasks DEF Progress
<1>b. \A j \in Tasks :
       /\ at[j] = "new" => round[j] = 0
       /\ at[j] \in {"waiting", "posted"} => round[j] >= 1
       /\ at[j] = "done" => round[j] = args.rounds
       /\ phase = "load" => at[j] = "new" /\ prompt[j] = <<>>
       /\ phase \in {"load", "run", "reported"} => at[j] \notin {"failed", "cancelled"}
       /\ phase = "reported" => at[j] = "done"
       /\ phase \in {"closed", "cancelling"} => at[j] # "new"
       /\ phase = "failed" => at[j] \notin {"waiting", "posted"}
  BY DEF Progress
<1>1. CASE LoadShareGpt \/ LoadFails \/ MakeSessions \/ Close \/ Cancel \/ Quit \/ Report
  <2>1. args' = args /\ at' = at /\ round' = round
    BY <1>1 DEF LoadShareGpt, LoadFails, MakeSessions, Close, Cancel, Quit, Report
  <2>2. \/ phase' = "run" /\ phase = "load"
        \/ phase' = "failed" /\ phase = "load"
        \/ phase' = "failed" /\ \A i \in Tasks : at[i] \notin {"waiting", "posted"}
        \/ phase' = "closed" /\ Started
        \/ phase' = "cancelling" /\ phase = "closed"
        \/ phase' \in {"failed", "reported"} /\ \A i \in Tasks : at[i] = "done"
    BY <1>1 DEF LoadShareGpt, LoadFails, MakeSessions, Close, Cancel, Quit, Report
  <2>3. \A j \in Tasks : Keeps(j)
    BY <1>0, <1>b, <2>1, <2>2 DEF Started
  <2> QED BY <1>a, <2>1, <2>3
<1>2. ASSUME NEW i \in Tasks, Unwind(i) PROVE Progress'
  <2>1. /\ UNCHANGED <<args, phase, round, prompt>> /\ phase = "cancelling"
        /\ at' = [at EXCEPT ![i] = "cancelled"]
    BY <1>2 DEF Unwind
  <2>2. at'[i] = "cancelled" /\ \A j \in Tasks : j # i => at'[j] = at[j]
    BY <2>1 DEF Types
  <2>3. \A j \in Tasks : Keeps(j)
    BY <1>0, <1>b, <2>1, <2>2
  <2> QED BY <1>a, <2>1, <2>3
<1>3. ASSUME NEW i \in Tasks, Chunk(i) PROVE Progress'
  <2>1. UNCHANGED <<args, phase, at, round, prompt>>
    BY <1>3 DEF Chunk
  <2>2. \A j \in Tasks : Keeps(j)
    BY <1>0, <1>b, <2>1
  <2> QED BY <1>a, <2>1, <2>2
<1>4. ASSUME NEW i \in Tasks, GoesOn(i) PROVE Progress'
  <2>1. /\ UNCHANGED <<args, phase, round, prompt>> /\ at[i] = "waiting" /\ Running
        /\ at' = [at EXCEPT ![i] = "posted"]
    BY <1>4 DEF GoesOn
  <2>2. at'[i] = "posted" /\ \A j \in Tasks : j # i => at'[j] = at[j]
    BY <2>1 DEF Types
  <2>3. \A j \in Tasks : Keeps(j)
    BY <1>0, <1>b, <2>1, <2>2 DEF Running
  <2> QED BY <1>a, <2>1, <2>3
<1>5. ASSUME NEW i \in Tasks, args' = args, round' = round, prompt' = prompt,
             at' = [at EXCEPT ![i] = "failed"],
             phase' = IF phase = "run" THEN "unwind" ELSE phase,
             phase \in {"run", "unwind", "closed"}
      PROVE  Progress'
  <2>1. at'[i] = "failed" /\ \A j \in Tasks : j # i => at'[j] = at[j]
    BY <1>5 DEF Types
  <2>2. phase' \in {"unwind", "closed"} /\ (phase' = "closed" => phase = "closed")
    BY <1>5
  <2>3. \A j \in Tasks : Keeps(j)
    BY <1>0, <1>b, <1>5, <2>1, <2>2
  <2> QED BY <1>5, <1>a, <2>3
<1>6. ASSUME NEW i \in Tasks, NEW s, GivesUp(i, s) PROVE Progress'
  <2>1. /\ phase \in {"run", "unwind", "closed"} /\ args' = args /\ round' = round
        /\ prompt' = prompt /\ at' = [at EXCEPT ![i] = "failed"]
        /\ phase' = IF phase = "run" THEN "unwind" ELSE phase
    BY <1>6 DEF GivesUp, Raise, Running
  <2> QED BY <1>5, <2>1
<1>7. ASSUME NEW i \in Tasks, NEW h, NEW n, NEW s, Comes(i, h, n, s), Raise(i, s)
      PROVE  Progress'
  <2>1. /\ phase \in {"run", "unwind"} /\ args' = args /\ round' = round
        /\ prompt' = prompt /\ at' = [at EXCEPT ![i] = "failed"]
        /\ phase' = IF phase = "run" THEN "unwind" ELSE phase
    BY <1>7 DEF Comes, Raise
  <2> QED BY <1>5, <2>1
<1>8. ASSUME NEW i \in Tasks, NEW h, NEW n, NEW s, Comes(i, h, n, s),
             round[i] = args.rounds, Complete(i, n, s)
      PROVE  Progress'
  <2>1. /\ phase \in {"run", "unwind"} /\ args' = args /\ round' = round
        /\ prompt' = prompt /\ at' = [at EXCEPT ![i] = "done"] /\ phase' = phase
    BY <1>8 DEF Comes, Complete
  <2>2. at'[i] = "done" /\ \A j \in Tasks : j # i => at'[j] = at[j]
    BY <2>1 DEF Types
  <2>3. \A j \in Tasks : Keeps(j)
    BY <1>0, <1>b, <1>8, <2>1, <2>2
  <2> QED BY <1>a, <2>1, <2>3
<1>9. ASSUME NEW i \in Tasks, NEW h, NEW n, NEW s, Comes(i, h, n, s), Asking(i, h, n, s)
      PROVE  Progress'
  <2>1. phase \in {"run", "unwind"} /\ args' = args /\ round[i] # args.rounds
    BY <1>9 DEF Comes, Asking
  <2>2. /\ phase' = phase /\ round' = [round EXCEPT ![i] = round[i] + 1]
        /\ \E a \in {"posted", "waiting"} : at' = [at EXCEPT ![i] = a]
    BY <1>9, AskFacts
  <2>3. /\ at'[i] \in {"posted", "waiting"} /\ round'[i] = round[i] + 1
        /\ \A j \in Tasks : j # i => at'[j] = at[j] /\ round'[j] = round[j]
    <3>1. PICK a \in {"posted", "waiting"} : at' = [at EXCEPT ![i] = a]
      BY <2>2
    <3>2. /\ at'[i] = a /\ round'[i] = round[i] + 1
          /\ \A j \in Tasks : j # i => at'[j] = at[j] /\ round'[j] = round[j]
      BY <2>2, <3>1 DEF Types
    <3> QED BY <3>1, <3>2
  <2>4. round'[i] <= args.rounds
    BY <1>0, <2>1, <2>3
  <2>5. \A j \in Tasks : Keeps(j)
    BY <1>0, <1>b, <2>1, <2>2, <2>3, <2>4
  <2> QED BY <1>a, <2>1, <2>5
<1> HIDE DEF Keeps
<1> QED BY <1>1, <1>2, <1>3, <1>4, <1>6, <1>7, <1>8, <1>9, Cases DEF Main

LEMMA StartingKept == Inv /\ Next => Starting'
<1> SUFFICES ASSUME Inv, Next PROVE Starting'
  OBVIOUS
<1> USE DEF Inv
<1> DEFINE First(s) ==
      /\ prompt'[s] = <<Draw(1), Draw(1 + s)>>
      /\ args.rounds > 0 /\ (\A j \in Tasks : j < s => at'[j] # "new")
           => drawn' = args.sessions + s
<1>0. /\ Tasks \subseteq Nat /\ Sessions \subseteq Tasks /\ Sessions = 1..args.sessions
      /\ args.sessions \in Nat /\ args.rounds \in Nat /\ drawn \in Nat
      /\ Tasks = 1..(args.sessions + args.scan_sessions) /\ args.scan_sessions \in Nat
  BY Basics DEF Types, Sessions
<1>a. ASSUME args' = args,
             \A i, j \in Tasks : i < j /\ at'[i] = "new" => at'[j] = "new",
             phase' # "load" /\ ~args.sharegpt =>
               \A s \in Sessions : at'[s] = "new" => First(s)
      PROVE  Starting'
  <2>1. \A i, j \in Tasks' : i < j /\ at'[i] = "new" => at'[j] = "new"
    BY <1>a, SameTasks
  <2>2. phase' # "load" /\ ~args'.sharegpt =>
          \A s \in Sessions' : at'[s] = "new" =>
            /\ prompt'[s] = <<Draw(1), Draw(1 + s)>>
            /\ args'.rounds > 0 /\ (\A j \in Tasks' : j < s => at'[j] # "new")
                 => drawn' = args'.sessions + s
    BY <1>a, SameTasks
  <2> HIDE DEF First
  <2> QED BY <2>1, <2>2 DEF Starting, Draw
<1>b. \A i, j \in Tasks : i < j /\ at[i] = "new" => at[j] = "new"
  BY DEF Starting
<1>c. phase # "load" /\ ~args.sharegpt =>
       \A s \in Sessions : at[s] = "new" =>
         /\ prompt[s] = <<Draw(1), Draw(1 + s)>>
         /\ args.rounds > 0 /\ (\A j \in Tasks : j < s => at[j] # "new")
              => drawn = args.sessions + s
  BY DEF Starting
\* Nothing is new any more.
<1>d. ASSUME args' = args, \A j \in Tasks : at'[j] # "new" PROVE Starting'
  BY <1>0, <1>a, <1>d
<1>1. CASE LoadShareGpt
  <2>1. args' = args /\ at' = at /\ args.sharegpt
    BY <1>1 DEF LoadShareGpt
  <2> QED BY <1>a, <1>b, <2>1
<1>2. CASE LoadFails
  <2>1. args' = args /\ at' = at /\ args.sharegpt
    BY <1>2 DEF LoadFails
  <2> QED BY <1>a, <1>b, <2>1
<1>3. CASE MakeSessions
  <2>1. args' = args /\ at' = at /\ phase = "load"
    BY <1>3 DEF MakeSessions
  <2>2. \A j \in Tasks : at[j] = "new"
    BY <2>1 DEF Progress
  <2>3. drawn' = 1 + args.sessions /\ \A s \in Sessions : prompt'[s] = <<Draw(1), Draw(1 + s)>>
    BY <1>3, MakeFacts
  <2>4. ASSUME NEW s \in Sessions, \A j \in Tasks : j < s => at[j] # "new"
        PROVE  s = 1
    <3>1. s \in Nat /\ s >= 1 /\ (s # 1 => 1 < s /\ 1 \in Tasks)
      BY <1>0
    <3> QED BY <2>2, <2>4, <3>1
  <2>5. \A s \in Sessions : First(s)
    BY <1>0, <2>1, <2>3, <2>4
  <2> QED BY <1>a, <1>b, <2>1, <2>5
<1>4. CASE Close \/ Report
  <2>1. args' = args /\ at' = at /\ \A j \in Tasks : at[j] # "new"
    BY <1>4 DEF Close, Report, Started
  <2> QED BY <1>d, <2>1
<1>5. CASE Cancel \/ Quit
  <2>1. args' = args /\ at' = at /\ phase \in {"closed", "cancelling"}
    BY <1>5 DEF Cancel, Quit
  <2>2. \A j \in Tasks : at[j] # "new"
    BY <2>1 DEF Progress
  <2> QED BY <1>d, <2>1, <2>2
<1>6. ASSUME NEW i \in Tasks, Chunk(i) PROVE Starting'
  <2>1. args' = args /\ at' = at /\ \A j \in Tasks : at[j] # "new"
    BY <1>6 DEF Chunk, Started
  <2> QED BY <1>d, <2>1
\* A task that is not new moves, and neither prompts nor draws.
<1>7. ASSUME NEW i \in Tasks, NEW a \in {"failed", "posted", "cancelled"}, args' = args, prompt' = prompt,
             drawn' = drawn, at' = [at EXCEPT ![i] = a], at[i] # "new",
             phase' # "load", phase # "load"
      PROVE  Starting'
  <2>1. \A j \in Tasks : at'[j] = "new" <=> at[j] = "new"
    BY <1>7 DEF Types
  <2>2. \A j, k \in Tasks : j < k /\ at'[j] = "new" => at'[k] = "new"
    BY <1>b, <2>1
  <2>3. ~args.sharegpt => \A s \in Sessions : at'[s] = "new" => First(s)
    BY <1>0, <1>c, <1>7, <2>1
  <2> QED BY <1>a, <1>7, <2>2, <2>3
<1>8. ASSUME NEW i \in Tasks, NEW s, GivesUp(i, s) PROVE Starting'
  <2>1. /\ at[i] # "new" /\ args' = args /\ prompt' = prompt /\ drawn' = drawn
        /\ at' = [at EXCEPT ![i] = "failed"] /\ (phase' # phase => phase' = "unwind")
    BY <1>8 DEF GivesUp, Raise
  <2>2. phase # "load"
    BY <2>1 DEF Progress
  <2> QED BY <1>7, <2>1, <2>2
<1>9. ASSUME NEW i \in Tasks, GoesOn(i) PROVE Starting'
  <2>1. /\ at[i] # "new" /\ args' = args /\ prompt' = prompt /\ drawn' = drawn
        /\ at' = [at EXCEPT ![i] = "posted"] /\ phase' = phase
    BY <1>9 DEF GoesOn
  <2>2. phase # "load"
    BY <2>1 DEF Progress
  <2> QED BY <1>7, <2>1, <2>2
<1>14. ASSUME NEW i \in Tasks, Unwind(i) PROVE Starting'
  <2>1. /\ at[i] # "new" /\ args' = args /\ prompt' = prompt /\ drawn' = drawn
        /\ at' = [at EXCEPT ![i] = "cancelled"] /\ phase' = phase /\ phase # "load"
    BY <1>14 DEF Unwind
  <2> QED BY <1>7, <2>1
\* A task starts or has been answered.  If it starts, the next to start is the
\* one after it.
<1>10. ASSUME NEW i \in Tasks, NEW h, NEW n, NEW s, NEW a \in {"posted", "waiting", "done", "failed"},
              Comes(i, h, n, s), at' = [at EXCEPT ![i] = a],
              \A j \in Tasks : j # i => prompt'[j] = prompt[j],
              args.rounds > 0 /\ ~args.sharegpt /\ at[i] = "new" /\ i \in Sessions
                => drawn' = drawn + 1
       PROVE  Starting'
  <2>1. args' = args /\ phase # "load"
    BY <1>10 DEF Comes
  <2>2. at'[i] # "new" /\ \A j \in Tasks : j # i => at'[j] = at[j]
    BY <1>10 DEF Types
  <2>3. CASE at[i] = "posted" /\ Started
    <3>1. \A j \in Tasks : at'[j] # "new"
      BY <2>2, <2>3 DEF Started
    <3> QED BY <1>d, <2>1, <3>1
  <2>4. CASE at[i] = "new" /\ \A j \in Tasks : j < i => at[j] # "new"
    <3>1. \A j, k \in Tasks : j < k /\ at'[j] = "new" => at'[k] = "new"
      <4> SUFFICES ASSUME NEW j \in Tasks, NEW k \in Tasks, j < k, at'[j] = "new"
                   PROVE  at'[k] = "new"
        OBVIOUS
      <4>1. j # i /\ at[j] = "new" /\ at[k] = "new"
        BY <1>b, <2>2
      <4>2. k # i
        BY <2>4, <4>1
      <4> QED BY <2>2, <4>1, <4>2
    <3>2. ASSUME NEW t \in Sessions, at'[t] = "new", ~args.sharegpt PROVE First(t)
      <4>1. t \in Tasks /\ t # i /\ at[t] = "new" /\ t \in Nat /\ i \in Nat
        BY <1>0, <2>2, <3>2
      <4>2. i < t
        BY <2>4, <4>1
      <4>3. prompt'[t] = <<Draw(1), Draw(1 + t)>>
        BY <1>10, <1>c, <2>1, <3>2, <4>1
      <4>4. ASSUME args.rounds > 0, \A j \in Tasks : j < t => at'[j] # "new"
            PROVE  drawn' = args.sessions + t
        <5>1. i \in Sessions
          BY <1>0, <4>1, <4>2
        <5>2. drawn = args.sessions + i
          BY <1>c, <2>1, <2>4, <3>2, <4>4, <5>1
        <5>3. drawn' = drawn + 1
          BY <1>10, <2>4, <3>2, <4>4, <5>1
        <5>4. t = i + 1
          <6> SUFFICES ASSUME t # i + 1 PROVE FALSE
            OBVIOUS
          <6>1. i + 1 \in Tasks /\ i + 1 < t /\ i + 1 # i /\ i < i + 1
            BY <1>0, <4>1, <4>2
          <6>2. at'[i + 1] = at[i + 1] /\ at'[i + 1] # "new"
            BY <2>2, <4>4, <6>1
          <6>3. at[i + 1] = "new"
            BY <1>b, <2>4, <6>1
          <6> QED BY <6>2, <6>3
        <5>5. args.sessions \in Nat /\ i \in Nat
          BY <1>0, <4>1
        <5>6. args.sessions + i + 1 = args.sessions + (i + 1)
          BY <5>5
        <5> QED BY <5>2, <5>3, <5>4, <5>6
      <4> QED BY <4>3, <4>4
    <3> QED BY <1>a, <2>1, <3>1, <3>2
  <2> QED BY <1>10, <2>3, <2>4 DEF Comes
<1>11. ASSUME NEW i \in Tasks, NEW h, NEW n, NEW s, Comes(i, h, n, s),
              round[i] = args.rounds, Complete(i, n, s)
       PROVE  Starting'
  <2>1. at' = [at EXCEPT ![i] = "done"] /\ prompt' = prompt
    BY <1>11 DEF Complete
  <2>2. at[i] = "new" => ~(args.rounds > 0)
    BY <1>0, <1>11 DEF Progress
  <2> QED BY <1>10, <1>11, <2>1, <2>2
<1>12. ASSUME NEW i \in Tasks, NEW h, NEW n, NEW s, Comes(i, h, n, s), NoQuestions(i), Raise(i, s)
       PROVE  Starting'
  <2>1. at' = [at EXCEPT ![i] = "failed"] /\ prompt' = prompt /\ args.sharegpt
    BY <1>12 DEF Raise, NoQuestions
  <2> QED BY <1>10, <1>12, <2>1
<1>13. ASSUME NEW i \in Tasks, NEW h, NEW n, NEW s, Comes(i, h, n, s), Asking(i, h, n, s)
       PROVE  Starting'
  <2>1. PICK a \in {"posted", "waiting"} : at' = [at EXCEPT ![i] = a]
    BY <1>13, AskFacts
  <2>2. PICK v : prompt' = [prompt EXCEPT ![i] = v]
    BY <1>13, AskFacts
  <2>3. \A j \in Tasks : j # i => prompt'[j] = prompt[j]
    BY <2>2 DEF Types
  <2>4. at[i] = "new" => n = drawn
    BY <1>13 DEF Comes
  <2>5. i \in Sessions /\ ~args.sharegpt => drawn' = n + 1
    BY <1>13, AskFacts
  <2> QED BY <1>10, <1>13, <2>1, <2>3, <2>4, <2>5
<1> HIDE DEF First
<1> QED BY <1>1, <1>2, <1>3, <1>4, <1>5, <1>6, <1>8, <1>9, <1>11, <1>12, <1>13, <1>14,
           Cases DEF Main

LEMMA AppendThird ==
  ASSUME NEW d, NEW e, NEW f
  PROVE  Append(<<d, e>>, f) = <<d, e, f>>
<1> DEFINE S == {d, e, f}
           two == <<d, e>>
           three == <<d, e, f>>
           a == Append(two, f)
<1>1. two \in Seq(S) /\ f \in S /\ three \in Seq(S) /\ Len(two) = 2 /\ Len(three) = 3
  OBVIOUS
<1>2. /\ a \in Seq(S) /\ Len(a) = 3 /\ a[3] = f /\ a[1] = two[1] /\ a[2] = two[2]
  BY <1>1, AppendProperties
<1>3. \A j \in 1..3 : a[j] = three[j]
  BY <1>2
<1> QED BY <1>1, <1>2, <1>3, SeqEqual

LEMMA FirstPromptsKept == Inv /\ Next => FirstPromptsFixed'
<1> SUFFICES ASSUME Inv, Next PROVE FirstPromptsFixed'
  OBVIOUS
<1> USE DEF Inv
<1> DEFINE Fixed(s) == prompt'[s] = <<Draw(1), Draw(1 + s), Draw(1 + args.sessions + s)>>
<1>0. /\ Tasks \subseteq Nat /\ Sessions \subseteq Tasks
      /\ args.sessions \in Nat /\ args.rounds \in Nat /\ drawn \in Nat
      /\ \A j \in Tasks : round[j] \in Nat
  BY Basics DEF Types
<1>a. ASSUME args' = args, ~args.sharegpt => \A s \in Sessions : round'[s] = 1 => Fixed(s)
      PROVE  FirstPromptsFixed'
  BY <1>a, SameTasks DEF FirstPromptsFixed, Draw
<1>b. ~args.sharegpt => \A s \in Sessions : round[s] = 1 =>
        prompt[s] = <<Draw(1), Draw(1 + s), Draw(1 + args.sessions + s)>>
  BY DEF FirstPromptsFixed
<1>c. ASSUME args' = args, round' = round, prompt' = prompt PROVE FirstPromptsFixed'
  BY <1>a, <1>b, <1>c
<1>1. CASE LoadShareGpt
  BY <1>1, <1>a DEF LoadShareGpt
<1>2. CASE MakeSessions
  <2>1. args' = args /\ round' = round /\ phase = "load"
    BY <1>2 DEF MakeSessions
  <2>2. \A s \in Sessions : round'[s] = 0
    BY <1>0, <2>1 DEF Progress
  <2> QED BY <1>a, <2>1, <2>2
<1>3. CASE LoadFails \/ Close \/ Cancel \/ Quit \/ Report
  BY <1>3, <1>c DEF LoadFails, Close, Cancel, Quit, Report
<1>4. ASSUME NEW i \in Tasks, NEW s, Chunk(i) \/ GivesUp(i, s) \/ GoesOn(i) \/ Unwind(i)
      PROVE  FirstPromptsFixed'
  BY <1>4, <1>c DEF Chunk, GivesUp, GoesOn, Unwind, Raise
<1>5. ASSUME NEW i \in Tasks, NEW h, NEW n, NEW s, Comes(i, h, n, s), Complete(i, n, s) \/ Raise(i, s)
      PROVE  FirstPromptsFixed'
  BY <1>5, <1>c DEF Comes, Complete, Raise
<1>6. ASSUME NEW i \in Tasks, NEW h, NEW n, NEW s, Comes(i, h, n, s), Asking(i, h, n, s)
      PROVE  FirstPromptsFixed'
  <2> DEFINE q == Question(i, round[i] + 1, n)
             v == IF i \in Sessions THEN Append(h, q) ELSE <<q>>
  <2>1. /\ prompt' = [prompt EXCEPT ![i] = v] /\ round' = [round EXCEPT ![i] = round[i] + 1]
        /\ i \in Sessions /\ ~args.sharegpt => q = Draw(n + 1)
    BY <1>6, AskFacts
  <2>2. args' = args
    BY <1>6 DEF Comes
  <2>3. prompt'[i] = v /\ round'[i] = round[i] + 1
    BY <2>1 DEF Types
  <2>4. \A j \in Tasks : j # i => prompt'[j] = prompt[j] /\ round'[j] = round[j]
    BY <2>1 DEF Types
  <2>5. ASSUME i \in Sessions, ~args.sharegpt, round'[i] = 1 PROVE Fixed(i)
    <3>1. round[i] = 0 /\ args.rounds > 0
      BY <1>0, <1>6, <2>3, <2>5 DEF Asking
    <3>2. at[i] # "posted"
      BY <3>1 DEF Progress
    <3>3. /\ at[i] = "new" /\ \A j \in Tasks : j < i => at[j] # "new"
          /\ h = prompt[i] /\ n = drawn /\ phase # "load"
      BY <1>6, <3>2 DEF Comes
    <3>4. h = <<Draw(1), Draw(1 + i)>> /\ drawn = args.sessions + i
      BY <2>5, <3>1, <3>3 DEF Starting
    <3>5. n + 1 = 1 + args.sessions + i
      BY <1>0, <3>3, <3>4
    <3>6. prompt'[i] = Append(h, Draw(1 + args.sessions + i))
      BY <2>1, <2>3, <2>5, <3>5
    <3> DEFINE d == Draw(1)
               e == Draw(1 + i)
               f == Draw(1 + args.sessions + i)
    <3>7. prompt'[i] = Append(<<d, e>>, f)
      BY <3>4, <3>6
    <3> HIDE DEF d, e, f
    <3>8. prompt'[i] = <<d, e, f>>
      BY <3>7, AppendThird
    <3> QED BY <3>8 DEF d, e, f
  <2> HIDE DEF q, v, Fixed
  <2>6. ASSUME NEW j \in Sessions, j # i, ~args.sharegpt, round'[j] = 1 PROVE Fixed(j)
    BY <1>0, <1>b, <2>4, <2>6 DEF Fixed
  <2> QED BY <1>a, <2>2, <2>5, <2>6
<1> HIDE DEF Fixed
<1> QED BY <1>1, <1>2, <1>3, <1>4, <1>5, <1>6, Cases DEF Main

LEMMA OriginsKept == Inv /\ Next => Origins'
<1> SUFFICES ASSUME Inv, Next PROVE Origins'
  OBVIOUS
<1> USE DEF Inv
<1> DEFINE Comes_From(i, x) ==
      /\ x[1] = "rng" => x[3] <= drawn'
      /\ x[1] = "srng" => i \in Scanners /\ x = Scan(i, round'[i])
      /\ x[1] = "turn" => i \in Sessions /\ x \in Range(questions'[i])
<1>0. /\ Tasks = Sessions \cup Scanners /\ Sessions \cap Scanners = {} /\ drawn \in Nat
      /\ \A i \in Tasks : \A x \in Range(prompt[i]) : x \in Text /\ x[3] \in Nat
  <2>1. Tasks = Sessions \cup Scanners /\ Sessions \cap Scanners = {} /\ drawn \in Nat
    BY Basics DEF Types
  <2>2. ASSUME NEW i \in Tasks, NEW x \in Range(prompt[i]) PROVE x \in Text
    BY DEF Range, Types
  <2>3. \A x \in Text : x[3] \in Nat
    BY DEF Text
  <2> QED BY <2>1, <2>2, <2>3
<1>a. ASSUME args' = args, \A i \in Tasks : \A x \in Range(prompt'[i]) : Comes_From(i, x),
             \A s \in Sessions : \A x \in Range(questions'[s]) :
               x[1] = "turn" /\ \A t \in Sessions \ {s} : x \notin Range(questions'[t])
      PROVE  Origins'
  <2>1. Sessions' = Sessions /\ Scanners' = Scanners /\ Tasks' = Tasks
    BY <1>a, SameTasks
  <2>2. \A i \in Tasks' : \A x \in Texts(i)' : From(i, x)'
    BY <1>a, <2>1 DEF From, Texts, Range, Scan
  <2>3. \A s \in Sessions' : \A x \in Range(questions[s])' :
               x[1] = "turn" /\ \A t \in Sessions' \ {s} : x \notin Range(questions[t])'
    BY <1>a, <2>1 DEF Range
  <2> QED BY <2>2, <2>3 DEF Origins
<1>b. \A s \in Sessions : \A x \in Range(questions[s]) :
        x[1] = "turn" /\ \A t \in Sessions \ {s} : x \notin Range(questions[t])
  BY DEF Origins
<1>c. \A i \in Tasks : \A x \in Range(prompt[i]) :
        /\ x[1] = "rng" => x[3] <= drawn
        /\ x[1] = "srng" => i \in Scanners /\ x = Scan(i, round[i])
        /\ x[1] = "turn" => i \in Sessions /\ x \in Range(questions[i])
  BY DEF Origins, From, Texts
<1>d. ASSUME UNCHANGED <<args, questions, prompt, round>>, drawn' \in Nat, drawn <= drawn'
      PROVE  Origins'
  <2>1. \A i \in Tasks : \A x \in Range(prompt[i]) : x[1] = "rng" => x[3] <= drawn'
    BY <1>0, <1>c, <1>d
  <2> QED BY <1>a, <1>b, <1>c, <1>d, <2>1
<1>1. CASE LoadShareGpt
  <2>1. args' = args
    BY <1>1 DEF LoadShareGpt
  <2>2. \A i \in Tasks : \A x \in Range(prompt'[i]) : Comes_From(i, x)
    BY <1>1, LoadFacts
  <2>3. \A s \in Sessions : \A x \in Range(questions'[s]) :
               x[1] = "turn" /\ \A t \in Sessions \ {s} : x \notin Range(questions'[t])
    BY <1>1, LoadFacts
  <2> QED BY <1>a, <2>1, <2>2, <2>3
<1>2. CASE MakeSessions
  <2>1. args' = args /\ questions' = questions
    BY <1>2 DEF MakeSessions
  <2>2. \A i \in Tasks : \A x \in Range(prompt'[i]) : Comes_From(i, x)
    BY <1>2, MakeFacts
  <2> QED BY <1>a, <1>b, <2>1, <2>2
<1>3. CASE LoadFails \/ Close \/ Cancel \/ Quit \/ Report
  <2>1. UNCHANGED <<args, questions, prompt, round, drawn>>
    BY <1>3 DEF LoadFails, Close, Cancel, Quit, Report
  <2> QED BY <1>0, <1>d, <2>1
<1>4. ASSUME NEW i \in Tasks, NEW s, Chunk(i) \/ GivesUp(i, s) \/ GoesOn(i) \/ Unwind(i)
      PROVE  Origins'
  <2>1. UNCHANGED <<args, questions, prompt, round, drawn>>
    BY <1>4 DEF Chunk, GivesUp, GoesOn, Unwind, Raise
  <2> QED BY <1>0, <1>d, <2>1
<1>5. ASSUME NEW i \in Tasks, NEW h, NEW n, NEW s, Comes(i, h, n, s), Complete(i, n, s) \/ Raise(i, s)
      PROVE  Origins'
  <2>1. UNCHANGED <<args, questions, prompt, round>> /\ drawn' \in {drawn, n}
    BY <1>5 DEF Comes, Complete, Raise
  <2>2. n \in Nat /\ drawn <= n
    BY <1>5, ComesFacts
  <2> QED BY <1>0, <1>d, <2>1, <2>2
<1>6. ASSUME NEW i \in Tasks, NEW h, NEW n, NEW s, Comes(i, h, n, s), Asking(i, h, n, s)
      PROVE  Origins'
  <2> DEFINE r == round[i] + 1
             q == Question(i, r, n)
             v == IF i \in Sessions THEN Append(h, q) ELSE <<q>>
  <2>1. args' = args /\ questions' = questions
    BY <1>6 DEF Comes
  <2>2. /\ q \in Text
        /\ i \in Scanners => q = Scan(i, r)
        /\ i \in Sessions /\ ~args.sharegpt => q = Draw(n + 1)
        /\ i \in Sessions /\ args.sharegpt => q \in Range(questions[i])
        /\ prompt' = [prompt EXCEPT ![i] = v]
        /\ drawn' = IF i \in Sessions /\ ~args.sharegpt THEN n + 1 ELSE n
        /\ drawn' \in Nat /\ n <= drawn'
        /\ round' = [round EXCEPT ![i] = r]
    BY <1>6, AskFacts
  <2>3. /\ n \in Nat /\ drawn <= n /\ h \in Seq(Text)
        /\ \A x \in Range(h) : \/ x \in Range(prompt[i])
                               \/ i \in Sessions /\ n = drawn + 1 /\ x = Draw(n)
    BY <1>6, ComesFacts DEF Texts
  <2> HIDE DEF q
  <2>4. prompt'[i] = v /\ round'[i] = r
    BY <2>2 DEF Types
  <2>5. \A j \in Tasks : j # i => prompt'[j] = prompt[j] /\ round'[j] = round[j]
    BY <2>2 DEF Types
  <2>6. ASSUME NEW j \in Tasks, j # i, NEW x \in Range(prompt'[j]) PROVE Comes_From(j, x)
    <3>1. x \in Range(prompt[j]) /\ round'[j] = round[j]
      BY <2>5, <2>6
    <3>2. x[1] = "rng" => x[3] <= drawn'
      BY <1>0, <1>c, <2>2, <2>3, <3>1
    <3> QED BY <1>c, <2>1, <3>1, <3>2
  <2>7. CASE i \in Scanners
    <3>1. v = <<q>> /\ q = Scan(i, r)
      BY <1>0, <2>2, <2>7
    <3>2. \A x \in Range(prompt'[i]) : x = Scan(i, round'[i])
      BY <2>4, <3>1 DEF Range
    <3>3. Scan(i, round'[i])[1] = "srng"
      BY DEF Scan
    <3>4. \A x \in Range(prompt'[i]) : Comes_From(i, x)
      BY <2>7, <3>2, <3>3
    <3> HIDE DEF Comes_From
    <3> QED BY <1>a, <1>b, <2>1, <2>6, <3>4
  <2>8. CASE i \in Sessions
    <3>1. v = Append(h, q) /\ i \notin Scanners
      BY <1>0, <2>8
    <3>2. \A x \in Range(v) : x \in Range(h) \/ x = q
      <4> HIDE DEF v
      <4>1. /\ Len(h) \in Nat /\ DOMAIN v = 1..(Len(h) + 1) /\ DOMAIN h = 1..Len(h)
            /\ v[Len(h) + 1] = q /\ \A j \in 1..Len(h) : v[j] = h[j]
        BY <2>2, <2>3, <3>1, AppendProperties, LenProperties
      <4> QED BY <4>1 DEF Range
    <3>3. ASSUME NEW x \in Range(prompt[i]) PROVE Comes_From(i, x)
      <4>1. x[1] = "rng" => x[3] <= drawn'
        BY <1>0, <1>c, <2>2, <2>3
      <4>2. x[1] # "srng"
        BY <1>c, <3>1
      <4> QED BY <1>c, <2>1, <4>1, <4>2
    <3>4. Comes_From(i, Draw(n))
      BY <2>2 DEF Draw
    <3>5. Comes_From(i, q)
      <4>1. CASE args.sharegpt
        <5>1. q \in Range(questions[i]) /\ q[1] = "turn"
          BY <1>b, <2>2, <2>8, <4>1
        <5> QED BY <2>1, <2>8, <5>1
      <4>2. CASE ~args.sharegpt
        BY <2>2, <2>3, <2>8, <4>2 DEF Draw
      <4> QED BY <4>1, <4>2
    <3> HIDE DEF Comes_From, v
    <3>6. \A x \in Range(prompt'[i]) : Comes_From(i, x)
      BY <2>3, <2>4, <3>2, <3>3, <3>4, <3>5
    <3> QED BY <1>a, <1>b, <2>1, <2>6, <3>6
  <2> QED BY <1>0, <2>7, <2>8
<1> HIDE DEF Comes_From
<1> QED BY <1>1, <1>2, <1>3, <1>4, <1>5, <1>6, Cases DEF Main

\* The sums of the books are numbers.
LEMMA SumTypes ==
  ASSUME Inv
  PROVE  /\ Answers \in [Sessions -> Nat] /\ Pending \in [Sessions -> Nat]
         /\ Streams \in [Sessions -> Nat]
         /\ Total(Answers) \in Nat /\ Total(Pending) \in Nat /\ Total(Streams) \in Nat
         /\ Total(results) \in Nat /\ Len(results) \in Nat
<1>1. /\ \A s \in Sessions : round[s] \in Nat /\ tokens[s] \in Nat /\ streamed[s] \in Nat
      /\ \A s \in Sessions : Under(s) => round[s] >= 1
      /\ results \in Seq(Nat) /\ IsFiniteSet(Sessions)
  BY Basics DEF Inv, Types, Progress, Under
<1>2. /\ Answers \in [Sessions -> Nat] /\ Pending \in [Sessions -> Nat]
      /\ Streams \in [Sessions -> Nat]
  BY <1>1 DEF Answers, Pending, Streams
<1>3. Total(Answers) \in Nat /\ Total(Pending) \in Nat /\ Total(Streams) \in Nat
  BY <1>1, <1>2, UnitsFinite
<1>4. Len(results) \in Nat /\ DOMAIN results = 1..Len(results)
      /\ \A j \in DOMAIN results : results[j] \in Nat
  BY <1>1, LenProperties
<1>5. Total(results) \in Nat
  BY <1>4, UpTo, UnitsFinite
<1> QED BY <1>2, <1>3, <1>4, <1>5

\* The sums of the books after a step, and how the change of one session
\* changes them.
LEMMA SumsAfter ==
  ASSUME Inv, Next, args' = args
  PROVE  /\ Answers' \in [Sessions -> Nat] /\ Pending' \in [Sessions -> Nat]
         /\ Streams' \in [Sessions -> Nat]
         /\ \A s \in Sessions :
              /\ Answers'[s] = IF at'[s] \in {"waiting", "posted"} THEN round'[s] - 1 ELSE round'[s]
              /\ Pending'[s] = IF at'[s] \in {"waiting", "posted"} THEN tokens'[s] ELSE 0
              /\ Streams'[s] = streamed'[s]
         /\ Total(Answers') \in Nat /\ Total(Pending') \in Nat /\ Total(Streams') \in Nat
<1>1. Sessions' = Sessions /\ Tasks' = Tasks /\ Sessions \subseteq Tasks /\ IsFiniteSet(Sessions)
  BY SameTasks, Basics DEF Inv
<1>2. Types' /\ Progress'
  BY TypesKept, ProgressKept
<1>3. \A s \in Sessions : /\ round'[s] \in Nat /\ tokens'[s] \in Nat /\ streamed'[s] \in Nat
                          /\ at'[s] \in {"waiting", "posted"} => round'[s] >= 1
  BY <1>1, <1>2 DEF Types, Progress
<1>4. /\ Answers' = [s \in Sessions |->
           IF at'[s] \in {"waiting", "posted"} THEN round'[s] - 1 ELSE round'[s]]
      /\ Pending' = [s \in Sessions |->
           IF at'[s] \in {"waiting", "posted"} THEN tokens'[s] ELSE 0]
      /\ Streams' = [s \in Sessions |-> streamed'[s]]
  BY <1>1 DEF Answers, Pending, Streams, Under
<1>5. /\ Answers' \in [Sessions -> Nat] /\ Pending' \in [Sessions -> Nat]
      /\ Streams' \in [Sessions -> Nat]
  BY <1>3, <1>4
<1>6. Total(Answers') \in Nat /\ Total(Pending') \in Nat /\ Total(Streams') \in Nat
  BY <1>1, <1>5, UnitsFinite
<1> QED BY <1>4, <1>5, <1>6

LEMMA AccountsKept == Inv /\ Next => Accounts'
<1> SUFFICES ASSUME Inv, Next PROVE Accounts'
  OBVIOUS
<1> USE DEF Inv
<1>0. /\ Answers \in [Sessions -> Nat] /\ Pending \in [Sessions -> Nat]
      /\ Streams \in [Sessions -> Nat]
      /\ Total(Answers) \in Nat /\ Total(Pending) \in Nat /\ Total(Streams) \in Nat
      /\ Total(results) \in Nat /\ Len(results) \in Nat /\ results \in Seq(Nat)
      /\ Sessions \subseteq Tasks
  BY SumTypes, Basics DEF Types
<1>a. phase \in {"load", "run", "reported"} =>
        Len(results) = Total(Answers) /\ Total(results) + Total(Pending) = Total(Streams)
  BY DEF Accounts
\* The books say the same of the sessions.
<1>b. ASSUME args' = args,
             \A s \in Sessions : /\ at'[s] \in {"waiting", "posted"} <=> Under(s)
                                 /\ round'[s] = round[s] /\ tokens'[s] = tokens[s]
                                 /\ streamed'[s] = streamed[s]
      PROVE  Answers' = Answers /\ Pending' = Pending /\ Streams' = Streams
  <2>1. Sessions' = Sessions
    BY <1>b, SameTasks
  <2>2. \A s \in Sessions : Under(s)' <=> Under(s)
    BY <1>b DEF Under
  <2> QED BY <1>b, <2>1, <2>2 DEF Answers, Pending, Streams
<1>c. ASSUME phase \in {"load", "run", "reported"}, phase' # "reported", results' = results,
             Answers' = Answers, Pending' = Pending, Streams' = Streams
      PROVE  Accounts'
  <2>1. /\ Total(Answers)' = Total(Answers) /\ Total(Pending)' = Total(Pending)
        /\ Total(Streams)' = Total(Streams) /\ Total(results)' = Total(results)
    BY <1>c DEF Total
  <2> QED BY <1>a, <1>c, <2>1 DEF Accounts
<1>d. ASSUME phase' \in {"unwind", "closed", "cancelling", "failed"} PROVE Accounts'
  BY <1>d DEF Accounts
<1>1. CASE LoadShareGpt \/ MakeSessions
  <2>1. /\ args' = args /\ at' = at /\ round' = round /\ tokens' = tokens
        /\ streamed' = streamed /\ results' = results /\ phase' = "run" /\ phase = "load"
    BY <1>1 DEF LoadShareGpt, MakeSessions
  <2>2. Answers' = Answers /\ Pending' = Pending /\ Streams' = Streams
    BY <1>b, <2>1 DEF Under
  <2> QED BY <1>c, <2>1, <2>2
<1>2. CASE LoadFails \/ Close \/ Cancel \/ Quit
  BY <1>2, <1>d DEF LoadFails, Close, Cancel, Quit
<1>3. CASE Report
  <2>1. CASE results = <<>>
    BY <1>3, <1>d, <2>1 DEF Report
  <2>2. CASE results # <<>>
    <3>1. /\ args' = args /\ at' = at /\ round' = round /\ tokens' = tokens
          /\ streamed' = streamed /\ results' = results /\ phase' = "reported" /\ phase = "run"
          /\ report' = [requests |-> Len(results), gen_tokens |-> Total(results)]
      BY <1>3, <2>2 DEF Report
    <3>2. Answers' = Answers /\ Pending' = Pending /\ Streams' = Streams
      BY <1>b, <3>1 DEF Under
    <3>3. /\ Total(Answers)' = Total(Answers) /\ Total(Pending)' = Total(Pending)
          /\ Total(Streams)' = Total(Streams) /\ Total(results)' = Total(results)
      BY <3>1, <3>2 DEF Total
    <3> QED BY <1>a, <3>1, <3>3 DEF Accounts
  <2> QED BY <2>1, <2>2
<1>4. ASSUME NEW i \in Tasks, Chunk(i) PROVE Accounts'
  <2>1. /\ args' = args /\ at' = at /\ round' = round /\ results' = results
        /\ phase' = phase /\ phase \in {"run", "unwind"} /\ at[i] = "posted"
        /\ tokens' = [tokens EXCEPT ![i] = @ + 1] /\ streamed' = [streamed EXCEPT ![i] = @ + 1]
    BY <1>4 DEF Chunk
  <2>2. CASE phase = "unwind"
    BY <1>d, <2>1, <2>2
  <2>3. CASE phase = "run" /\ i \notin Sessions
    <3>1. Answers' = Answers /\ Pending' = Pending /\ Streams' = Streams
      BY <1>0, <1>b, <2>1, <2>3 DEF Under, Types
    <3> QED BY <1>c, <2>1, <2>3, <3>1
  <2>4. CASE phase = "run" /\ i \in Sessions
    <3>1. tokens[i] \in Nat /\ streamed[i] \in Nat
      BY <1>0 DEF Types
    <3>2. /\ tokens'[i] = tokens[i] + 1 /\ streamed'[i] = streamed[i] + 1
          /\ \A t \in Sessions : t # i => tokens'[t] = tokens[t] /\ streamed'[t] = streamed[t]
      BY <1>0, <2>1 DEF Types
    <3>3. /\ Pending[i] = tokens[i] /\ Streams[i] = streamed[i]
          /\ Pending'[i] = tokens[i] + 1 /\ Streams'[i] = streamed[i] + 1
      BY <2>1, <2>4, <3>2, SumsAfter DEF Pending, Streams, Under
    <3>4. \A t \in Sessions : t # i => Pending'[t] = Pending[t] /\ Streams'[t] = Streams[t]
      BY <2>1, <3>2, SumsAfter DEF Pending, Streams, Under
    <3>5. Answers' = Answers
      BY <2>1, SameTasks DEF Answers, Under
    <3>6. Total(Pending') + Pending[i] = Total(Pending) + Pending'[i]
      <4> DEFINE D == Sessions
                 f == Pending
                 g == Pending'
      <4>1. /\ IsFiniteSet(D) /\ f \in [D -> Nat] /\ g \in [D -> Nat] /\ i \in D
            /\ \A y \in D : y # i => g[y] = f[y]
        BY <1>0, <2>1, <2>4, <3>4, SumsAfter, Basics
      <4> HIDE DEF D, f, g
      <4>2. Total(g) + f[i] = Total(f) + g[i]
        BY <4>1, TotalChanges
      <4> QED BY <4>2 DEF f, g
    <3>7. Total(Streams') + Streams[i] = Total(Streams) + Streams'[i]
      <4> DEFINE D == Sessions
                 f == Streams
                 g == Streams'
      <4>1. /\ IsFiniteSet(D) /\ f \in [D -> Nat] /\ g \in [D -> Nat] /\ i \in D
            /\ \A y \in D : y # i => g[y] = f[y]
        BY <1>0, <2>1, <2>4, <3>4, SumsAfter, Basics
      <4> HIDE DEF D, f, g
      <4>2. Total(g) + f[i] = Total(f) + g[i]
        BY <4>1, TotalChanges
      <4> QED BY <4>2 DEF f, g
    <3>8. Total(Pending') \in Nat /\ Total(Streams') \in Nat
      BY <2>1, SumsAfter
    <3>9. Total(Pending') = Total(Pending) + 1 /\ Total(Streams') = Total(Streams) + 1
      <4> DEFINE k == tokens[i]
                 l == streamed[i]
                 p == Total(Pending)
                 q == Total(Pending')
                 t == Total(Streams)
                 u == Total(Streams')
      <4>1. q + k = p + (k + 1) /\ k \in Nat /\ p \in Nat /\ q \in Nat
        BY <1>0, <3>1, <3>3, <3>6, <3>8
      <4>2. u + l = t + (l + 1) /\ l \in Nat /\ t \in Nat /\ u \in Nat
        BY <1>0, <3>1, <3>3, <3>7, <3>8
      <4> HIDE DEF k, l, p, q, t, u
      <4>3. q = p + 1 /\ u = t + 1
        BY <4>1, <4>2
      <4> QED BY <4>3 DEF p, q, t, u
    <3>10. Total(results') + Total(Pending') = Total(Streams')
      BY <1>0, <1>a, <2>1, <2>4, <3>9
    <3>11. Len(results') = Total(Answers')
      BY <1>a, <2>1, <2>4, <3>5
    <3> QED BY <2>1, <2>4, <3>10, <3>11 DEF Accounts, Total
  <2> QED BY <2>1, <2>2, <2>3, <2>4
<1>5. ASSUME NEW i \in Tasks, GoesOn(i) PROVE Accounts'
  <2>1. /\ UNCHANGED <<args, round, results, phase, tokens, streamed>> /\ at[i] = "waiting"
        /\ at' = [at EXCEPT ![i] = "posted"]
    BY <1>5 DEF GoesOn
  <2>2. \A s \in Sessions : at'[s] \in {"waiting", "posted"} <=> Under(s)
    BY <1>0, <2>1 DEF Under, Types
  <2>3. Answers' = Answers /\ Pending' = Pending /\ Streams' = Streams
    BY <1>b, <2>1, <2>2
  <2>4. phase \in {"run", "unwind", "closed"}
    BY <1>5 DEF GoesOn, Running
  <2> QED BY <1>c, <1>d, <2>1, <2>3, <2>4
<1>6. ASSUME NEW i \in Tasks, NEW s, GivesUp(i, s) PROVE Accounts'
  <2>1. /\ phase \in {"run", "unwind", "closed"}
        /\ phase' = IF phase = "run" THEN "unwind" ELSE phase
    BY <1>6 DEF GivesUp, Raise, Running
  <2> QED BY <1>d, <2>1
<1>11. ASSUME NEW i \in Tasks, Unwind(i) PROVE Accounts'
  BY <1>11, <1>d DEF Unwind
<1>7. ASSUME NEW i \in Tasks, NEW h, NEW n, NEW s, Comes(i, h, n, s), Raise(i, s)
      PROVE  Accounts'
  BY <1>7, <1>d DEF Comes, Raise
\* A start counts nothing, an answer of a session one result.
<1>8. ASSUME NEW i \in Tasks, NEW h, NEW n, NEW s, Comes(i, h, n, s), phase' = phase,
             \/ round[i] = args.rounds /\ at' = [at EXCEPT ![i] = "done"]
                /\ round' = round /\ tokens' = tokens
             \/ \E a \in {"posted", "waiting"} :
                  /\ at' = [at EXCEPT ![i] = a] /\ round' = [round EXCEPT ![i] = round[i] + 1]
                  /\ tokens' = [tokens EXCEPT ![i] = 0]
      PROVE  Accounts'
  <2>1. args' = args /\ streamed' = streamed /\ phase \in {"run", "unwind"}
    BY <1>8 DEF Comes
  <2>2. Sessions' = Sessions
    BY <2>1, SameTasks
  <2>3. Streams' = Streams
    BY <2>1, <2>2 DEF Streams
  <2>4. CASE phase = "unwind"
    BY <1>d, <1>8, <2>4
  <2>5. CASE phase = "run" /\ i \notin Sessions
    <3>1. Answers' = Answers /\ Pending' = Pending
      BY <1>0, <1>b, <1>8, <2>1, <2>5 DEF Under, Types
    <3>2. results' = results
      BY <1>8, <2>5 DEF Comes
    <3> QED BY <1>c, <1>8, <2>3, <2>5, <3>1, <3>2
  <2>6. ASSUME i \in Sessions
        PROVE  /\ Pending'[i] = 0 /\ Answers'[i] = round[i]
               /\ round[i] \in Nat /\ tokens[i] \in Nat
               /\ Total(Answers') + Answers[i] = Total(Answers) + Answers'[i]
               /\ Total(Pending') + Pending[i] = Total(Pending) + Pending'[i]
               /\ Total(Answers') \in Nat /\ Total(Pending') \in Nat
    <3>1. round[i] \in Nat /\ tokens[i] \in Nat
      BY <1>0, <2>6 DEF Types
    <3>2. \/ at'[i] = "done" /\ round'[i] = round[i]
          \/ at'[i] \in {"waiting", "posted"} /\ round'[i] = round[i] + 1 /\ tokens'[i] = 0
      BY <1>8 DEF Types
    <3>3. \A t \in Sessions : t # i => /\ at'[t] = at[t] /\ round'[t] = round[t]
                                       /\ tokens'[t] = tokens[t]
      BY <1>0, <1>8 DEF Types
    <3>4. Pending'[i] = 0 /\ Answers'[i] = round[i]
      BY <2>1, <2>6, <3>1, <3>2, SumsAfter
    <3>5. \A t \in Sessions : t # i => Pending'[t] = Pending[t] /\ Answers'[t] = Answers[t]
      BY <2>1, <3>3, SumsAfter DEF Pending, Answers, Under
    <3>7. Total(Answers') + Answers[i] = Total(Answers) + Answers'[i]
      <4> DEFINE D == Sessions
                 f == Answers
                 g == Answers'
      <4>1. /\ IsFiniteSet(D) /\ f \in [D -> Nat] /\ g \in [D -> Nat] /\ i \in D
            /\ \A y \in D : y # i => g[y] = f[y]
        BY <1>0, <2>1, <2>6, <3>5, SumsAfter, Basics
      <4> HIDE DEF D, f, g
      <4>2. Total(g) + f[i] = Total(f) + g[i]
        BY <4>1, TotalChanges
      <4> QED BY <4>2 DEF f, g
    <3>8. Total(Pending') + Pending[i] = Total(Pending) + Pending'[i]
      <4> DEFINE D == Sessions
                 f == Pending
                 g == Pending'
      <4>1. /\ IsFiniteSet(D) /\ f \in [D -> Nat] /\ g \in [D -> Nat] /\ i \in D
            /\ \A y \in D : y # i => g[y] = f[y]
        BY <1>0, <2>1, <2>6, <3>5, SumsAfter, Basics
      <4> HIDE DEF D, f, g
      <4>2. Total(g) + f[i] = Total(f) + g[i]
        BY <4>1, TotalChanges
      <4> QED BY <4>2 DEF f, g
    <3> QED BY <2>1, <3>1, <3>4, <3>7, <3>8, SumsAfter
  <2>7. CASE phase = "run" /\ i \in Sessions /\ at[i] = "new"
    <3>1. results' = results
      BY <1>8, <2>7 DEF Comes
    <3>2. round[i] = 0 /\ Answers[i] = 0 /\ Pending[i] = 0
      BY <1>0, <2>7 DEF Progress, Answers, Pending, Under
    <3>3. Total(Answers') = Total(Answers) /\ Total(Pending') = Total(Pending)
      BY <1>0, <2>6, <2>7, <3>2
    <3> QED BY <1>a, <1>8, <2>3, <2>7, <3>1, <3>3 DEF Accounts, Total
  <2>8. CASE phase = "run" /\ i \in Sessions /\ at[i] = "posted"
    <3>1. results' = Append(results, tokens[i])
      BY <1>8, <2>8 DEF Comes
    <3>2. round[i] >= 1 /\ Answers[i] = round[i] - 1 /\ Pending[i] = tokens[i]
      BY <1>0, <2>8 DEF Progress, Answers, Pending, Under
    <3>3. Total(Answers') = Total(Answers) + 1
      <4> DEFINE k == round[i]
      <4>1. k \in Nat /\ Total(Answers') + (k - 1) = Total(Answers) + k /\ Total(Answers') \in Nat
        BY <2>6, <2>8, <3>2
      <4> HIDE DEF k
      <4> QED BY <1>0, <4>1
    <3>4. Total(results') = Total(results) + tokens[i] /\ Len(results') = Len(results) + 1
      BY <1>0, <2>6, <2>8, <3>1, TotalAppend, AppendProperties
    <3>5. Total(results') + Total(Pending') = Total(Streams')
      <4> DEFINE k == tokens[i]
      <4>1. /\ k \in Nat /\ Total(Pending') + k = Total(Pending) + 0 /\ Total(Pending') \in Nat
            /\ Total(results') = Total(results) + k /\ Total(Streams') = Total(Streams)
            /\ Total(results) + Total(Pending) = Total(Streams)
        BY <1>a, <2>3, <2>6, <2>8, <3>2, <3>4
      <4> HIDE DEF k
      <4> QED BY <1>0, <4>1
    <3>6. Len(results') = Total(Answers')
      BY <1>0, <1>a, <2>8, <3>3, <3>4
    <3> QED BY <1>8, <2>8, <3>5, <3>6 DEF Accounts, Total
  <2> QED BY <1>8, <2>1, <2>4, <2>5, <2>7, <2>8 DEF Comes
<1>9. ASSUME NEW i \in Tasks, NEW h, NEW n, NEW s, Comes(i, h, n, s),
             round[i] = args.rounds, Complete(i, n, s)
      PROVE  Accounts'
  <2>1. at' = [at EXCEPT ![i] = "done"] /\ UNCHANGED <<phase, round, tokens>>
    BY <1>9 DEF Complete
  <2> QED BY <1>8, <1>9, <2>1
<1>10. ASSUME NEW i \in Tasks, NEW h, NEW n, NEW s, Comes(i, h, n, s), Asking(i, h, n, s)
       PROVE  Accounts'
  <2>1. /\ phase' = phase /\ tokens' = [tokens EXCEPT ![i] = 0]
        /\ round' = [round EXCEPT ![i] = round[i] + 1]
        /\ \E a \in {"posted", "waiting"} : at' = [at EXCEPT ![i] = a]
    BY <1>10, AskFacts
  <2> QED BY <1>8, <1>10, <2>1
<1> QED BY <1>1, <1>2, <1>3, <1>4, <1>5, <1>6, <1>7, <1>9, <1>10, <1>11, Cases
           DEF Main

LEMMA InitInv == Init => Inv
<1> SUFFICES ASSUME Init PROVE Inv
  OBVIOUS
<1> USE DEF Init
<1>1. /\ args \in Arguments /\ args.sessions \in Nat /\ args.scan_sessions \in Nat
      /\ args.concurrency \in Nat /\ args.rounds \in Nat
  BY ArgumentsAssumption
<1>2. Types
  <2>1. sem \in Semaphore(Tasks)
    BY <1>1 DEF Semaphore
  <2> QED BY <1>1, <2>1 DEF Types
<1>3. /\ Sessions \subseteq Tasks /\ Tasks = Sessions \cup Scanners /\ IsFiniteSet(Sessions)
      /\ \A i \in Tasks : at[i] = "new" /\ round[i] = 0 /\ prompt[i] = <<>>
  BY <1>2, Basics
<1>4. Range(<<>>) = {} /\ IsInjective(<<>>)
  BY DEF Range, IsInjective
<1>5. Permits
  <2>1. sem.value = args.concurrency /\ sem.waiters = <<>> /\ sem.woken = 0
    OBVIOUS
  <2>2. InOrder(sem)
    BY <1>4, <2>1 DEF InOrder
  <2>3. Held(at) = 0
    <3>1. {i \in Tasks : at[i] = "posted"} = {}
      BY <1>3
    <3> QED BY <3>1, FS_EmptySet DEF Held
  <2>4. Balance(sem) + Held(at) = args.concurrency
    BY <1>1, <2>1, <2>3 DEF Balance
  <2>5. Attend(sem, at, phase)
    BY <1>3, <1>4, <2>1 DEF Attend
  <2> QED BY <2>2, <2>4, <2>5 DEF Permits
<1>6. Progress
  BY <1>1, <1>3 DEF Progress
<1>7. Starting
  BY <1>3 DEF Starting
<1>8. FirstPromptsFixed
  BY <1>3 DEF FirstPromptsFixed
<1>9. Origins
  <2>1. \A i \in Tasks : Texts(i) = {}
    BY <1>3, <1>4 DEF Texts
  <2>2. \A s \in Sessions : Range(questions[s]) = {}
    BY <1>4
  <2> QED BY <2>1, <2>2 DEF Origins
<1>10. Accounts
  <2> DEFINE z == 0
             zeros == [s \in Sessions |-> z]
  <2>1. Answers = zeros /\ Pending = zeros /\ Streams = zeros
    BY <1>3 DEF Answers, Pending, Streams, Under
  <2>2. Total(zeros) = 0
    <3>1. z \in Nat /\ Cardinality(Sessions) \in Nat
      BY <1>3, FS_CardinalityType
    <3>2. Total(zeros) = Cardinality(Sessions) * z
      <4> HIDE DEF z
      <4> QED BY <1>3, <3>1, TotalConstant
    <3> QED BY <3>1, <3>2
  <2>3. Len(results) = 0 /\ Total(results) = 0 /\ phase # "reported"
    BY TotalEmpty
  <2> HIDE DEF zeros
  <2> QED BY <2>1, <2>2, <2>3 DEF Accounts
<1> QED BY <1>2, <1>5, <1>6, <1>7, <1>8, <1>9, <1>10 DEF Inv

LEMMA Stutters == Inv /\ UNCHANGED vars => Inv'
<1> SUFFICES ASSUME Inv, UNCHANGED vars PROVE Inv'
  OBVIOUS
<1>1. UNCHANGED <<args, phase, at, round, prompt, questions, sem, drawn, tokens, streamed,
                  results, report>>
  BY DEF vars
<1>2. Sessions' = Sessions /\ Scanners' = Scanners /\ Tasks' = Tasks
  BY <1>1, SameTasks
<1>3. Types'
  BY <1>1, <1>2 DEF Inv, Types
<1>4. Permits'
  BY <1>1, <1>2 DEF Inv, Permits, Attend, InOrder, Balance, Held, Range, IsInjective
<1>5. Progress'
  BY <1>1, <1>2 DEF Inv, Progress
<1>6. Starting'
  BY <1>1, <1>2 DEF Inv, Starting, Draw
<1>7. FirstPromptsFixed'
  BY <1>1, <1>2 DEF Inv, FirstPromptsFixed, Draw
<1>8. Origins'
  BY <1>1, <1>2 DEF Inv, Origins, From, Texts, Range, Scan
<1>9. Accounts'
  <2>1. Answers' = Answers /\ Pending' = Pending /\ Streams' = Streams
    BY <1>1, <1>2 DEF Answers, Pending, Streams, Under
  <2> QED BY <1>1, <2>1 DEF Inv, Accounts, Total
<1> QED BY <1>3, <1>4, <1>5, <1>6, <1>7, <1>8, <1>9 DEF Inv

----------------------------------------------------------------------------
(* Theorems *)

\* The invariant holds in every state of the benchmark, whatever the answers,
\* their order and the failures.
THEOREM BenchInv == Spec => []Inv
<1>1. Inv /\ [Next]_vars => Inv'
  BY TypesKept, PermitsKept, ProgressKept, StartingKept, FirstPromptsKept, OriginsKept,
     AccountsKept, Stutters DEF Inv
<1> QED BY InitInv, <1>1, PTL DEF Spec

\* No permit of the semaphore is lost or made, through wake-ups, failures and
\* the cancellation of each task where it waits: each is free, set aside for a
\* woken waiter or with one request, and all are back when the run has ended.
THEOREM PermitsSafe == Spec => []PermitsConserved
<1>1. Inv => PermitsConserved
  <2> SUFFICES ASSUME Inv PROVE PermitsConserved
    OBVIOUS
  <2>1. /\ sem.value + sem.woken + Cardinality(Posted) = args.concurrency
        /\ sem.value > 0 /\ sem.waiters # <<>> => sem.woken > 0
    BY SemFacts DEF Balance, Held, Posted, InOrder
  <2>2. /\ \A i \in Range(sem.waiters) : i \in Tasks /\ at[i] = "waiting"
        /\ phase # "cancelling" =>
             \A i \in Tasks : at[i] = "waiting" => i \in Range(sem.waiters)
    BY DEF Inv, Permits, Attend
  <2>3. Running => {i \in Tasks : at[i] = "waiting"} = Range(sem.waiters)
    BY <2>2 DEF Running
  <2>4. ASSUME phase \in {"failed", "reported"} PROVE sem.value = args.concurrency
    <3>1. \A i \in Tasks : at[i] \notin {"waiting", "posted"}
      BY <2>4 DEF Inv, Progress
    <3>2. Cardinality(Posted) = 0
      <4>1. Posted = {}
        BY <3>1 DEF Posted
      <4> QED BY <4>1, FS_EmptySet
    <3>3. sem.woken = 0
      <4> DEFINE w == sem.waiters
      <4>1. w \in Seq(Tasks) /\ Len(w) \in Nat /\ DOMAIN w = 1..Len(w) /\ sem.woken <= Len(w)
        BY SemFacts, LenProperties
      <4>2. Range(w) = {}
        BY <2>2, <3>1
      <4> HIDE DEF w
      <4>3. ~(1 \in DOMAIN w)
        BY <4>2 DEF Range
      <4>4. Len(w) = 0
        BY <4>1, <4>3
      <4> QED BY <4>1, <4>4, SemFacts
    <3> QED BY <2>1, <3>2, <3>3, SemFacts
  <2> QED BY <2>1, <2>3, <2>4 DEF PermitsConserved
<1> QED BY BenchInv, <1>1, PTL

\* The first prompts are the same in every run: the sessions draw their first
\* questions in the order of their numbers, whatever the concurrency.
THEOREM FirstPromptsSame == Spec => []FirstPromptsFixed
<1>1. Inv => FirstPromptsFixed
  BY DEF Inv
<1> QED BY BenchInv, <1>1, PTL

\* The report covers the whole load, each request and each generated token of
\* the sessions once.
THEOREM ReportSound == Spec => []ReportComplete
<1>1. Inv => ReportComplete
  <2> SUFFICES ASSUME Inv, phase = "reported"
               PROVE  /\ \A i \in Tasks : round[i] = args.rounds
                      /\ report.requests = args.sessions * args.rounds
                      /\ report.gen_tokens = Total([s \in Sessions |-> streamed[s]])
    BY DEF ReportComplete
  <2>1. \A i \in Tasks : at[i] = "done" /\ round[i] = args.rounds
    BY DEF Inv, Progress
  <2>2. /\ Sessions \subseteq Tasks /\ IsFiniteSet(Sessions) /\ args.rounds \in Nat
        /\ Cardinality(Sessions) = args.sessions /\ args.sessions \in Nat
    BY Basics DEF Inv
  <2>3. /\ report.requests = Len(results) /\ report.gen_tokens = Total(results)
        /\ Len(results) = Total(Answers)
        /\ Total(results) + Total(Pending) = Total(Streams)
    BY DEF Inv, Accounts
  <2> DEFINE n == args.rounds
             z == 0
  <2>4. Answers = [s \in Sessions |-> n] /\ Pending = [s \in Sessions |-> z]
    BY <2>1, <2>2 DEF Answers, Pending, Under
  <2>5. n \in Nat /\ z \in Nat
    BY <2>2
  <2> HIDE DEF n, z
  <2>6. Total(Answers) = Cardinality(Sessions) * n /\ Total(Pending) = Cardinality(Sessions) * z
    BY <2>2, <2>4, <2>5, TotalConstant
  <2>7. Total(Answers) = args.sessions * args.rounds /\ Total(Pending) = 0
    BY <2>2, <2>6 DEF n, z
  <2>8. Total(results) = Total(Streams)
    BY <2>3, <2>7, SumTypes
  <2> QED BY <2>1, <2>3, <2>7, <2>8 DEF Streams
<1> QED BY BenchInv, <1>1, PTL

\* What a step does to the prompts: that of at most one task changes.
LEMMA Prompted ==
  ASSUME Inv, Next, phase # "load", NEW i \in Tasks, prompt'[i] # prompt[i]
  PROVE  \E h, n, s : Comes(i, h, n, s) /\ Asking(i, h, n, s)
<1>1. ~Main
  BY DEF Main, LoadShareGpt, LoadFails, MakeSessions, Close, Cancel, Quit, Report
<1>2. \A j \in Tasks : \A s : ~(Chunk(j) \/ GivesUp(j, s) \/ GoesOn(j) \/ Unwind(j))
  BY DEF Chunk, GivesUp, GoesOn, Unwind, Raise
<1>3. PICK j \in Tasks : \E h, n, s : Comes(j, h, n, s) /\
        (\/ round[j] = args.rounds /\ Complete(j, n, s)
         \/ round[j] # args.rounds /\ NoQuestions(j) /\ Raise(j, s)
         \/ Asking(j, h, n, s))
  BY <1>1, <1>2, Cases
<1>4. PICK h, n, s : Comes(j, h, n, s) /\ Asking(j, h, n, s)
  BY <1>3 DEF Complete, Raise
<1>5. \E v : prompt' = [prompt EXCEPT ![j] = v]
  BY <1>4, AskFacts
<1>6. i = j
  BY <1>5 DEF Inv, Types
<1> QED BY <1>4, <1>6

LEMMA Extends ==
  ASSUME NEW S, NEW p \in Seq(S), NEW x \in S
  PROVE  IsStrictPrefix(p, Append(p, x))
<1> DEFINE a == Append(p, x)
<1>1. /\ Len(p) \in Nat /\ a \in Seq(S) /\ Len(a) = Len(p) + 1
      /\ \A j \in 1..Len(p) : a[j] = p[j]
  BY AppendProperties, LenProperties
<1> HIDE DEF a
<1>2. SubSeq(p, 1, Len(p)) = SubSeq(a, 1, Len(p))
  BY <1>1
<1>3. p # a
  BY <1>1
<1> QED BY <1>1, <1>2, <1>3 DEF IsStrictPrefix, IsPrefix, a

LEMMA ExtendsTwice ==
  ASSUME NEW S, NEW p \in Seq(S), NEW x \in S, NEW y \in S
  PROVE  IsStrictPrefix(p, Append(Append(p, x), y))
<1> DEFINE a == Append(p, x)
           b == Append(a, y)
<1>1. /\ Len(p) \in Nat /\ a \in Seq(S) /\ Len(a) = Len(p) + 1
      /\ \A j \in 1..Len(p) : a[j] = p[j]
  BY AppendProperties, LenProperties
<1> HIDE DEF a
<1>2. /\ b \in Seq(S) /\ Len(b) = Len(a) + 1 /\ \A j \in 1..Len(a) : b[j] = a[j]
  BY <1>1, AppendProperties, LenProperties
<1> HIDE DEF b
<1>3. \A j \in 1..Len(p) : b[j] = p[j]
  BY <1>1, <1>2
<1>4. SubSeq(p, 1, Len(p)) = SubSeq(b, 1, Len(p))
  BY <1>1, <1>2, <1>3
<1>5. p # b
  BY <1>1, <1>2
<1> QED BY <1>1, <1>2, <1>4, <1>5 DEF IsStrictPrefix, IsPrefix, a, b

\* A text drawn now, a question of its own conversation and a text of its own
\* generator are in no prompt of another task.
LEMMA Fresh ==
  ASSUME Inv, NEW j \in Tasks
  PROVE  /\ \A n \in Nat : n > drawn => Draw(n) \notin Texts(j)
         /\ \A s \in Sessions : s # j => Range(questions[s]) \cap Texts(j) = {}
         /\ \A i \in Scanners : \A r \in Nat : r > round[i] => Scan(i, r) \notin Texts(j)
<1>1. \A x \in Texts(j) : From(j, x)
  BY DEF Inv, Origins
<1>2. drawn \in Nat /\ Scanners \subseteq Tasks /\ \A i \in Tasks : round[i] \in Nat
  BY Basics DEF Inv, Types
<1>3. ASSUME NEW n \in Nat, n > drawn PROVE Draw(n) \notin Texts(j)
  <2>1. Draw(n)[1] = "rng" /\ Draw(n)[3] = n
    BY DEF Draw
  <2> QED BY <1>1, <1>2, <1>3, <2>1 DEF From
<1>4. ASSUME NEW s \in Sessions, s # j, NEW x \in Range(questions[s]), x \in Texts(j)
      PROVE  FALSE
  <2>1. x[1] = "turn" /\ \A t \in Sessions \ {s} : x \notin Range(questions[t])
    BY DEF Inv, Origins
  <2>2. j \in Sessions /\ x \in Range(questions[j])
    BY <1>1, <1>4, <2>1 DEF From
  <2> QED BY <1>4, <2>1, <2>2
<1>5. ASSUME NEW i \in Scanners, NEW r \in Nat, r > round[i], Scan(i, r) \in Texts(j)
      PROVE  FALSE
  <2>1. Scan(i, r)[1] = "srng"
    BY DEF Scan
  <2>2. Scan(i, r) = Scan(j, round[j])
    BY <1>1, <1>5, <2>1 DEF From
  <2>3. i = j /\ r = round[j]
    BY <2>2 DEF Scan
  <2> QED BY <1>2, <1>5, <2>3
<1> QED BY <1>3, <1>4, <1>5

LEMMA ReuseStep ==
  ASSUME Inv, Next, phase # "load", NEW i \in Tasks, prompt'[i] # prompt[i]
  PROVE  LET others == UNION {Texts(j) : j \in Tasks \ {i}}
         IN  IF i \in Sessions
               THEN /\ IsStrictPrefix(prompt[i], prompt'[i])
                    /\ (Range(prompt'[i]) \ Texts(i)) \cap others = {}
               ELSE Range(prompt'[i]) \cap (others \cup Texts(i)) = {}
<1>1. PICK h, n, s : Comes(i, h, n, s) /\ Asking(i, h, n, s)
  BY Prompted
<1> DEFINE r == round[i] + 1
           q == Question(i, r, n)
<1>2. /\ q \in Text
      /\ i \in Scanners => q = Scan(i, r)
      /\ i \in Sessions /\ ~args.sharegpt => q = Draw(n + 1)
      /\ i \in Sessions /\ args.sharegpt => q \in Range(questions[i])
      /\ prompt' = [prompt EXCEPT ![i] = IF i \in Sessions THEN Append(h, q) ELSE <<q>>]
  BY <1>1, AskFacts
<1>3. /\ n \in Nat /\ drawn <= n /\ h \in Seq(Text)
      /\ \A x \in Range(h) : x \in Texts(i) \/ (n = drawn + 1 /\ x = Draw(n))
  BY <1>1, ComesFacts
<1>4. /\ drawn \in Nat /\ round[i] \in Nat /\ r \in Nat /\ r > round[i]
      /\ Tasks = Sessions \cup Scanners /\ Sessions \cap Scanners = {}
      /\ prompt[i] \in Seq(Text)
  BY Basics DEF Inv, Types
<1>5. prompt'[i] = IF i \in Sessions THEN Append(h, q) ELSE <<q>>
  BY <1>2 DEF Inv, Types
<1> HIDE DEF q, r
<1>6. CASE i \in Scanners
  <2>1. prompt'[i] = <<q>> /\ q = Scan(i, r) /\ i \notin Sessions
    BY <1>2, <1>4, <1>5, <1>6
  <2>2. Range(prompt'[i]) = {q}
    BY <2>1 DEF Range
  <2>3. \A j \in Tasks : q \notin Texts(j)
    BY <1>4, <1>6, <2>1, Fresh
  <2> QED BY <2>1, <2>2, <2>3
<1>7. CASE i \in Sessions
  <2>1. prompt'[i] = Append(h, q)
    BY <1>5, <1>7
  <2>2. \A x \in Range(prompt'[i]) : x \in Range(h) \/ x = q
    <3> DEFINE v == Append(h, q)
    <3>1. /\ Len(h) \in Nat /\ DOMAIN v = 1..(Len(h) + 1) /\ DOMAIN h = 1..Len(h)
          /\ v[Len(h) + 1] = q /\ \A j \in 1..Len(h) : v[j] = h[j]
      BY <1>2, <1>3, AppendProperties, LenProperties
    <3>2. prompt'[i] = v
      BY <2>1
    <3> HIDE DEF v
    <3> QED BY <3>1, <3>2 DEF Range
  <2>3. ASSUME NEW j \in Tasks \ {i} PROVE q \notin Texts(j) /\ (n = drawn + 1 => Draw(n) \notin Texts(j))
    <3>1. n = drawn + 1 => Draw(n) \notin Texts(j)
      BY <1>3, <1>4, Fresh
    <3>2. CASE args.sharegpt
      BY <1>2, <1>7, <3>1, <3>2, Fresh
    <3>3. CASE ~args.sharegpt
      <4>1. q = Draw(n + 1) /\ n + 1 \in Nat /\ n + 1 > drawn
        BY <1>2, <1>3, <1>4, <1>7, <3>3
      <4> QED BY <3>1, <4>1, Fresh
    <3> QED BY <3>2, <3>3
  <2>4. \A x \in Range(prompt'[i]) \ Texts(i) : \A j \in Tasks \ {i} : x \notin Texts(j)
    BY <1>3, <2>2, <2>3
  <2>5. IsStrictPrefix(prompt[i], prompt'[i])
    <3>1. h = prompt[i] \/ (h = Append(prompt[i], Draw(n)))
      BY <1>1, <1>7 DEF Comes
    <3>2. Draw(n) \in Text
      BY <1>3 DEF Draw, Text
    <3> DEFINE p == prompt[i]
               d == Draw(n)
    <3>3. p \in Seq(Text) /\ d \in Text /\ (prompt'[i] = Append(p, q) \/ prompt'[i] = Append(Append(p, d), q))
      BY <1>4, <2>1, <3>1, <3>2
    <3> HIDE DEF p, d
    <3>4. IsStrictPrefix(p, Append(p, q))
      BY <1>2, <3>3, Extends
    <3>5. IsStrictPrefix(p, Append(Append(p, d), q))
      BY <1>2, <3>3, ExtendsTwice
    <3>6. IsStrictPrefix(p, prompt'[i])
      BY <3>3, <3>4, <3>5
    <3> QED BY <3>6 DEF p
  <2> QED BY <1>7, <2>4, <2>5
<1> QED BY <1>4, <1>6, <1>7

\* A session's prompt extends its last one, and nothing else is reused, in
\* whatever order the sessions draw from the common generator.
THEOREM ReuseSound == Spec => PrefixReuse
<1>1. Inv /\ [Next]_vars =>
        [phase # "load" =>
           \A i \in Tasks : prompt'[i] # prompt[i] =>
             LET others == UNION {Texts(j) : j \in Tasks \ {i}}
             IN  IF i \in Sessions
                   THEN /\ IsStrictPrefix(prompt[i], prompt'[i])
                        /\ (Range(prompt'[i]) \ Texts(i)) \cap others = {}
                   ELSE Range(prompt'[i]) \cap (others \cup Texts(i)) = {}]_vars
  BY ReuseStep
<1> QED BY BenchInv, <1>1, PTL DEF Spec, PrefixReuse
================================================================================
