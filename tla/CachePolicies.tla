---------------------------- MODULE CachePolicies ----------------------------
(***************************************************************************)
(* The cache policies of python/bench/policies.py: LRU, SIEVE, S3-FIFO,    *)
(* prefix-aware LRU and S3-FIFO with prefix-aware admission.  A policy is  *)
(* a record and its methods are operators on it.  An admission adds one    *)
(* block to a policy within its capacity, so each eviction loop of the     *)
(* code ends after one victim, and an admission yields the policy and the  *)
(* key it hands to on_evict, NoKey for none.                               *)
(***************************************************************************)
EXTENDS Naturals, Sequences, FiniteSets, SequencesExt

CONSTANTS
  Key,             \* hash_id of blocks
  NoKey,           \* None
  FreqCap,         \* largest S3-FIFO frequency, 3 in the code
  CandidateWindow, \* _CANDIDATE_WINDOW, 16 in the code
  MinAdmitDepth    \* lower limit of _admit_depth, 8 in the code

ASSUME PolicyAssumption ==
  /\ NoKey \notin Key
  /\ FreqCap \in Nat /\ MinAdmitDepth \in Nat
  /\ CandidateWindow \in Nat \ {0}

LruFamily == {"lru", "prefix_lru"}
S3Family == {"s3fifo", "s3fifo_prefix"}

\* POLICIES
PolicyNames == LruFamily \cup S3Family \cup {"sieve"}

\* store is _store, and _small of S3-FIFO; mark is what the dictionaries hold
\* for a key: its visited bit, frequency or block index, 0 if it is absent.
make_policy(name, capacity) ==
  [name |-> name, capacity |-> capacity, store |-> <<>>, main |-> <<>>,
   ghost |-> <<>>, mark |-> [k \in Key |-> 0], cursor |-> NoKey]

AtLeast(low, n) == IF n < low THEN low ELSE n
AtMost(high, n) == IF n > high THEN high ELSE n
SmallCap(p) == AtLeast(1, p.capacity \div 10)
MainCap(p) == p.capacity - SmallCap(p)
GhostCap(p) == 2 * p.capacity
AdmitDepth(p) == AtLeast(MinAdmitDepth, p.capacity \div 4)

Resident(p) == Range(p.store) \cup Range(p.main)
contains(p, k) == k \in Resident(p)

Kept(p) == [policy |-> p, victim |-> NoKey]
Evicted(p, k) == [policy |-> [p EXCEPT !.mark[k] = 0], victim |-> k]

\* OrderedDict: assignment followed by move_to_end; pop is RemoveFirst, a key
\* being there once.
MoveToEnd(s, k) == Append(RemoveFirst(s, k), k)

----------------------------------------------------------------------------
(* LRU, and prefix-aware LRU: the deepest of the oldest blocks is the victim. *)

LruAdmit(p, k) ==
  LET order == MoveToEnd(p.store, k)
  IN  IF Len(order) <= p.capacity
        THEN Kept([p EXCEPT !.store = order])
        ELSE Evicted([p EXCEPT !.store = Tail(order)], Head(order))

\* max() returns the first of the deepest candidates.
PrefixVictim(order, depth) ==
  LET oldest == {i \in DOMAIN order : i <= CandidateWindow}
      deepest == {i \in oldest : \A j \in oldest :
                                   depth[order[j]] <= depth[order[i]]}
  IN  order[Min(deepest)]

PrefixAdmit(p, k, block_index) ==
  LET order == MoveToEnd(p.store, k)
      depth == [p.mark EXCEPT ![k] = block_index]
      victim == PrefixVictim(order, depth)
  IN  IF Len(order) <= p.capacity
        THEN Kept([p EXCEPT !.store = order, !.mark = depth])
        ELSE Evicted([p EXCEPT !.store = RemoveFirst(order, victim), !.mark = depth],
                     victim)

----------------------------------------------------------------------------
(* SIEVE *)

\* The hand goes on from where it stopped, or from the oldest block if that
\* one is gone; it clears the visited blocks it passes and stops at the
\* first that is not, back at its start when all were.
SieveEvict(p) ==
  LET n == Len(p.store)
      start == IF p.cursor \in Range(p.store)
                 THEN CHOOSE i \in 1..n : p.store[i] = p.cursor ELSE 1
      UnderHand(i) == p.store[1 + ((start - 1 + i) % n)]
      unvisited == {i \in 0..(n - 1) : p.mark[UnderHand(i)] = 0}
      passed == IF unvisited = {} THEN n ELSE Min(unvisited)
      cleared == {UnderHand(i) : i \in 0..(passed - 1)}
      victim == UnderHand(passed)
  IN  Evicted([p EXCEPT !.store = RemoveFirst(@, victim),
                        !.mark = [k \in Key |-> IF k \in cleared THEN 0 ELSE @[k]],
                        !.cursor = IF n > 1 THEN UnderHand(passed + 1) ELSE NoKey],
              victim)

SieveAdmit(p, k) ==
  LET room == IF Len(p.store) < p.capacity THEN Kept(p) ELSE SieveEvict(p)
  IN  [room EXCEPT !.policy.store = Append(@, k)]

----------------------------------------------------------------------------
(* S3-FIFO *)

\* The new block comes with frequency 0, so the loop meets a block without
\* frequency before it is round: that one is evicted, the others in front of
\* it have a second chance, at the end and with one frequency less.
S3InsertMain(p, k) ==
  LET queue == Append(p.main, k)
      freq == [p.mark EXCEPT ![k] = 0]
      v == Min({i \in DOMAIN queue : freq[queue[i]] = 0})
      spared == SubSeq(queue, 1, v - 1)
  IN  IF Len(queue) <= MainCap(p)
        THEN Kept([p EXCEPT !.main = queue, !.mark = freq])
        ELSE Evicted(
               [p EXCEPT !.main = SubSeq(queue, v + 1, Len(queue)) \o spared,
                         !.mark = [j \in Key |-> IF j \in Range(spared)
                                                   THEN freq[j] - 1 ELSE freq[j]]],
               queue[v])

GhostInsert(p, k) ==
  LET longer == Append(p.ghost, k)
  IN  IF Len(longer) <= GhostCap(p) THEN longer ELSE Tail(longer)

\* The oldest block leaves the small queue: into the main queue if it was
\* used again, else out, to be remembered as a ghost.
S3InsertSmall(p, k) ==
  LET queue == Append(p.store, k)
      v == Head(queue)
      q == [p EXCEPT !.store = Tail(queue)]
  IN  IF Len(queue) <= SmallCap(p) THEN Kept([p EXCEPT !.store = queue])
      ELSE IF p.mark[v] > 0 THEN S3InsertMain(q, v)
      ELSE Evicted([q EXCEPT !.ghost = GhostInsert(p, v)], v)

S3Admit(p, k) ==
  IF k \in Range(p.ghost)
    THEN S3InsertMain([p EXCEPT !.ghost = RemoveFirst(@, k)], k)
    ELSE S3InsertSmall(p, k)

----------------------------------------------------------------------------
(* The interface of CachePolicy *)

\* SIEVE and S3-FIFO leave a block they hold as it is.
admit(p, k, block_index) ==
  CASE p.name = "lru" -> LruAdmit(p, k)
    [] p.name = "prefix_lru" -> PrefixAdmit(p, k, block_index)
    [] p.name = "sieve" -> IF contains(p, k) THEN Kept(p) ELSE SieveAdmit(p, k)
    [] p.name \in S3Family -> IF contains(p, k) THEN Kept(p) ELSE S3Admit(p, k)

\* Mutant: a hit does not count as a use.
touch_Reads(p, k) == p

\* A hit: recency, visited bit or frequency.
touch(p, k) ==
  IF ~contains(p, k) THEN p
  ELSE CASE p.name \in LruFamily -> [p EXCEPT !.store = MoveToEnd(@, k)]
         [] p.name = "sieve" -> [p EXCEPT !.mark[k] = 1]
         [] p.name \in S3Family -> [p EXCEPT !.mark[k] = AtMost(FreqCap, @ + 1)]

remove(p, k) ==
  [p EXCEPT !.store = RemoveFirst(@, k), !.main = RemoveFirst(@, k), !.mark[k] = 0]

\* Deep blocks of a request pass the cache by, unless a ghost remembers them.
Bypassed(p, k, block_index) ==
  /\ p.name = "s3fifo_prefix"
  /\ block_index > AdmitDepth(p)
  /\ k \notin Range(p.ghost)

Hit(p, k, block_index) ==
  IF p.name = "prefix_lru" THEN [touch(p, k) EXCEPT !.mark[k] = block_index]
                           ELSE touch(p, k)

\* access: contains(p, k) is the answer, this is the policy after it.
access(p, k, block_index) ==
  IF contains(p, k) THEN Kept(Hit(p, k, block_index))
  ELSE IF Bypassed(p, k, block_index) THEN Kept(p)
  ELSE admit(p, k, block_index)

----------------------------------------------------------------------------
(* What a policy must be at all times. *)

\* No block is queued twice, the queues are within their capacities, and
\* ghosts are keys the policy does not hold.
WellFormed(p) ==
  /\ IsInjective(p.store \o p.main) /\ IsInjective(p.ghost)
  /\ Len(p.store) + Len(p.main) <= p.capacity
  /\ p.name \in S3Family =>
       Len(p.store) <= SmallCap(p) /\ Len(p.main) <= MainCap(p)
  /\ Len(p.ghost) <= GhostCap(p)
  /\ Range(p.ghost) \cap Resident(p) = {}
  /\ \A k \in Key \ Resident(p) : p.mark[k] = 0
==============================================================================
