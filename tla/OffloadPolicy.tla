--------------------------- MODULE OffloadPolicy ---------------------------
(***************************************************************************)
(* S3FIFOCachePolicy of python/vllm_adapter/offloading_spec.py: the        *)
(* eviction policy plugged into vLLM's CPU offloading manager.  The        *)
(* manager is not in the repository; it is modelled by what the CachePolicy*)
(* interface lets it do between two calls (external).  The loop of evict() *)
(* is one action per turn, so the invariants hold in the middle of it too. *)
(***************************************************************************)
EXTENDS Naturals, Sequences, FiniteSets, SequencesExt

CONSTANTS
  Key,       \* OffloadKey
  Capacity,  \* cache_capacity, in blocks
  MaxTouch,  \* bound: touches per behaviour
  MaxWant    \* bound: blocks asked of one evict()

ASSUME PolicyAssumption ==
  Capacity \in Nat /\ MaxTouch \in Nat /\ MaxWant \in Nat

VARIABLES
  blocks,       \* keys of self.blocks
  evictable,    \* self.evictable
  small,        \* self.small, in its order
  main,         \* self.main, in its order
  freq,         \* self.freq, a function on the keys it holds
  ghost,        \* self.ghost, in its order
  call,         \* "evict" while evict() runs, else "idle"
  want,         \* its n
  protected,    \* its protected
  victims,      \* its victims: <<key, taken from the small queue>>
  skippedSmall, \* its skipped_small
  skippedMain,  \* its skipped_main
  result,       \* what the last evict() returned: ok is FALSE for None
  touches       \* number of touches so far (bound)

queues == <<small, main, freq>>
loop == <<victims, skippedSmall, skippedMain>>
vars == <<blocks, evictable, queues, ghost, call, want, protected, loop,
          result, touches>>

FreqCap == 3
AtLeastOne(n) == IF n = 0 THEN 1 ELSE n
SmallBudget == AtLeastOne(Capacity \div 10)
GhostCapacity == AtLeastOne(2 * Capacity)

None == [ok |-> FALSE, keys |-> <<>>]

FreqWith(k, n) == [j \in DOMAIN freq \cup {k} |-> IF j = k THEN n ELSE freq[j]]
FreqWithout(S) == [j \in DOMAIN freq \ S |-> freq[j]]

Init ==
  /\ blocks = {} /\ evictable = {}
  /\ small = <<>> /\ main = <<>> /\ ghost = <<>>
  /\ freq = [k \in {} |-> 0]
  /\ call = "idle" /\ want = 0 /\ protected = {}
  /\ victims = <<>> /\ skippedSmall = <<>> /\ skippedMain = <<>>
  /\ result = None
  /\ touches = 0

----------------------------------------------------------------------------
(* Calls of the manager.  It inserts absent keys while there is room and    *)
(* marks or removes keys that are present.                                  *)

Idle == call = "idle" /\ UNCHANGED <<call, want, protected, loop, result>>

\* The ghost entry is popped; its value is None, as is the default, so the
\* branch into the main queue is never taken.
Insert(k, pinned) ==
  /\ Idle /\ k \notin blocks /\ Cardinality(blocks) < Capacity
  /\ blocks' = blocks \cup {k}
  /\ freq' = FreqWith(k, 0)
  /\ ghost' = RemoveFirst(ghost, k)
  /\ small' = Append(small, k)
  /\ evictable' = IF pinned THEN evictable ELSE evictable \cup {k}
  /\ UNCHANGED <<main, touches>>

RemoveBlock(k) ==
  /\ Idle /\ k \in blocks
  /\ blocks' = blocks \ {k}
  /\ freq' = FreqWithout({k})
  /\ small' = RemoveFirst(small, k)
  /\ main' = RemoveFirst(main, k)
  /\ evictable' = evictable \ {k}
  /\ UNCHANGED <<ghost, touches>>

Touch(k) ==
  /\ Idle /\ k \in DOMAIN freq /\ touches < MaxTouch
  /\ freq' = [freq EXCEPT ![k] = IF @ < FreqCap THEN @ + 1 ELSE FreqCap]
  /\ touches' = touches + 1
  /\ UNCHANGED <<blocks, evictable, small, main, ghost>>

Mark(k, free) ==
  /\ Idle /\ k \in blocks
  /\ evictable' = IF free THEN evictable \cup {k} ELSE evictable \ {k}
  /\ UNCHANGED <<blocks, queues, ghost, touches>>

Clear ==
  /\ Idle
  /\ blocks' = {} /\ evictable' = {} /\ small' = <<>> /\ main' = <<>>
  /\ freq' = [k \in {} |-> 0] /\ ghost' = <<>>
  /\ UNCHANGED touches

----------------------------------------------------------------------------
(* evict(n, protected).  With n = 0 the loop ends before its first turn.    *)

Evict(n, keep) ==
  /\ call = "idle"
  /\ call' = "evict" /\ want' = n /\ protected' = keep
  /\ victims' = <<>> /\ skippedSmall' = <<>> /\ skippedMain' = <<>>
  /\ UNCHANGED <<blocks, evictable, queues, ghost, result, touches>>

FromSmall == Len(small) > SmallBudget \/ main = <<>>

Turn ==
  /\ call = "evict" /\ Len(victims) < want
  /\ UNCHANGED <<blocks, evictable, ghost, call, want, protected, result, touches>>

PopSmall == Turn /\ FromSmall /\ small # <<>> /\ small' = Tail(small)
PopMain == Turn /\ ~FromSmall /\ UNCHANGED small

\* Mutant: a key in use is not skipped.
Skipped_Protected(k) == k \in protected

Skipped(k) == k \in protected \/ k \notin evictable

SmallReused ==
  LET k == Head(small)
  IN  /\ PopSmall /\ freq[k] > 0
      /\ freq' = [freq EXCEPT ![k] = 0]
      /\ main' = Append(main, k)
      /\ UNCHANGED loop

SmallSkip ==
  LET k == Head(small)
  IN  /\ PopSmall /\ freq[k] = 0 /\ Skipped(k)
      /\ skippedSmall' = Append(skippedSmall, k)
      /\ UNCHANGED <<main, freq, victims, skippedMain>>

SmallVictim ==
  LET k == Head(small)
  IN  /\ PopSmall /\ freq[k] = 0 /\ ~Skipped(k)
      /\ victims' = Append(victims, <<k, TRUE>>)
      /\ UNCHANGED <<main, freq, skippedSmall, skippedMain>>

\* Mutant: the second chance costs nothing.
MainSecondChance_Free ==
  LET k == Head(main)
  IN  /\ PopMain /\ freq[k] > 0
      /\ main' = Append(Tail(main), k)
      /\ UNCHANGED <<freq, loop>>

MainSecondChance ==
  LET k == Head(main)
  IN  /\ PopMain /\ freq[k] > 0
      /\ freq' = [freq EXCEPT ![k] = @ - 1]
      /\ main' = Append(Tail(main), k)
      /\ UNCHANGED loop

MainSkip ==
  LET k == Head(main)
  IN  /\ PopMain /\ freq[k] = 0 /\ Skipped(k)
      /\ main' = Tail(main)
      /\ skippedMain' = Append(skippedMain, k)
      /\ UNCHANGED <<freq, victims, skippedSmall>>

MainVictim ==
  LET k == Head(main)
  IN  /\ PopMain /\ freq[k] = 0 /\ ~Skipped(k)
      /\ main' = Tail(main)
      /\ victims' = Append(victims, <<k, FALSE>>)
      /\ UNCHANGED <<freq, skippedSmall, skippedMain>>

Keys(pairs) == [i \in DOMAIN pairs |-> pairs[i][1]]

\* The victims of one queue, in their order.
TakenFrom(fromSmall) ==
  LET taken[i \in 0..Len(victims)] ==
        IF i = 0 THEN <<>>
        ELSE IF victims[i][2] = fromSmall THEN Append(taken[i - 1], victims[i][1])
        ELSE taken[i - 1]
  IN  taken[Len(victims)]

\* _ghost_insert: to the end, the oldest roll out.
GhostInsert(g, k) ==
  LET longer == Append(RemoveFirst(g, k), k)
      excess == IF Len(longer) > GhostCapacity THEN Len(longer) - GhostCapacity
                                               ELSE 0
  IN  SubSeq(longer, excess + 1, Len(longer))

\* The ghost queue after the keys have been inserted one by one.
GhostsAfter(keys) ==
  LET after[i \in 0..Len(keys)] ==
        IF i = 0 THEN ghost ELSE GhostInsert(after[i - 1], keys[i])
  IN  after[Len(keys)]

Finish ==
  /\ call = "evict"
  /\ call' = "idle" /\ want' = 0 /\ protected' = {}
  /\ victims' = <<>> /\ skippedSmall' = <<>> /\ skippedMain' = <<>>
  /\ UNCHANGED touches

EvictSucceeds ==
  /\ Finish /\ Len(victims) = want
  /\ small' = skippedSmall \o small
  /\ main' = skippedMain \o main
  /\ blocks' = blocks \ Range(Keys(victims))
  /\ freq' = FreqWithout(Range(Keys(victims)))
  /\ evictable' = evictable \ Range(Keys(victims))
  /\ ghost' = GhostsAfter(TakenFrom(TRUE))
  /\ result' = [ok |-> TRUE, keys |-> Keys(victims)]

\* Mutant: only the skipped blocks are put back.
EvictFails_LosesVictims ==
  /\ Finish /\ Len(victims) < want
  /\ small = <<>> /\ main = <<>>
  /\ small' = skippedSmall
  /\ main' = skippedMain
  /\ result' = None
  /\ UNCHANGED <<blocks, freq, evictable, ghost>>

\* Both queues are used up: what was taken is put back, result None.
EvictFails ==
  /\ Finish /\ Len(victims) < want
  /\ small = <<>> /\ main = <<>>
  /\ small' = skippedSmall \o TakenFrom(TRUE)
  /\ main' = skippedMain \o TakenFrom(FALSE)
  /\ result' = None
  /\ UNCHANGED <<blocks, freq, evictable, ghost>>

Evicting ==
  \/ SmallReused \/ SmallSkip \/ SmallVictim
  \/ MainSecondChance \/ MainSkip \/ MainVictim
  \/ EvictSucceeds \/ EvictFails

Next ==
  \/ \E k \in Key, b \in BOOLEAN : Insert(k, b) \/ Mark(k, b)
  \/ \E k \in Key : RemoveBlock(k) \/ Touch(k)
  \/ Clear
  \/ \E n \in 0..MaxWant, keep \in SUBSET Key : Evict(n, keep)
  \/ Evicting

Spec == Init /\ [][Next]_vars

\* evict() runs to its return: nothing in it waits.
FairSpec == Spec /\ WF_vars(Evicting)

----------------------------------------------------------------------------
(* Properties *)

\* Every block the policy holds is in exactly one place, once: a queue, or
\* set aside by the running evict().  A block in no queue could never be
\* evicted, one in two would be evicted twice (KeyError in blocks.pop).
QueuePartition ==
  LET all == small \o main \o skippedSmall \o skippedMain \o Keys(victims)
  IN  Range(all) = blocks /\ Len(all) = Cardinality(blocks)

\* The ghost queue holds keys that are gone, within its capacity.
GhostsAreGone ==
  /\ Range(ghost) \cap blocks = {}
  /\ Len(ghost) = Cardinality(Range(ghost)) /\ Len(ghost) <= GhostCapacity

\* The five containers agree: the queues partition the blocks, ghosts are
\* gone, frequencies are kept for exactly the blocks held and only blocks
\* held are evictable (an evictable key that is gone raises in evict()).
BooksAgree ==
  QueuePartition /\ GhostsAreGone /\ DOMAIN freq = blocks /\ evictable \subseteq blocks

Candidates == evictable \ protected

\* evict(n) fails only if there are not n blocks it may take, and never
\* returns a block in use or protected: pinned blocks and second chances in
\* front of a queue hide no victim behind them.
EvictExact ==
  [][call = "evict" /\ call' = "idle" =>
       IF Cardinality(Candidates) < want
         THEN ~result'.ok
         ELSE /\ result'.ok /\ Len(result'.keys) = want
              /\ Range(result'.keys) \subseteq Candidates
              /\ blocks' = blocks \ Range(result'.keys)]_vars

\* evict() returns: second chances and skips run out.
EvictReturns == (call = "evict") ~> (call = "idle")

\* A key written again while the ghost queue remembers it is admitted hot,
\* to the main queue.
GhostAdmission ==
  [][\A k \in Key : k \in Range(ghost) /\ k \notin blocks /\ k \in blocks'
       => k \in Range(main')]_vars
=============================================================================
