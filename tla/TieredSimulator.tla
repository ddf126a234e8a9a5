--------------------------- MODULE TieredSimulator ---------------------------
(***************************************************************************)
(* TieredSimulator of python/bench/tiered.py: a fast and a slow cache, each*)
(* managed by a policy.  What the fast one evicts is admitted to the slow  *)
(* one, a slow hit moves the block back, and when a request arrives the    *)
(* blocks its own blocks are known to precede are moved ahead of use.      *)
(* One step for each anchor of the prefetch and for each block accessed.   *)
(***************************************************************************)
EXTENDS CachePolicies

CONSTANTS
  FastPolicies, SlowPolicies,  \* policy names the simulator is built with
  FastBlocks, SlowBlocks,      \* capacities it is built with
  PrefetchDepths,              \* prefetch depths it is built with, 0 for none
  MaxBlocks                    \* bound: blocks of one request

ASSUME SimulatorAssumption ==
  /\ FastPolicies \subseteq PolicyNames /\ SlowPolicies \subseteq PolicyNames
  /\ FastBlocks \subseteq Nat \ {0} /\ SlowBlocks \subseteq Nat \ {0}
  /\ PrefetchDepths \subseteq Nat /\ MaxBlocks \in Nat

VARIABLES
  fast, slow,  \* _fast and _slow
  depth,       \* _prefetch_depth
  successor,   \* _successor, a function on the blocks that have one
  request,     \* hash_ids of the running process_request
  phase,       \* "idle", or the loop it is in: "prefetch" or "access"
  turn,        \* the turn of that loop
  block_hits   \* for each block accessed: "fast", "slow" or "miss"

tiers == <<fast, slow>>
vars == <<tiers, depth, successor, request, phase, turn, block_hits>>

Init ==
  /\ \E name \in FastPolicies, n \in FastBlocks : fast = make_policy(name, n)
  /\ \E name \in SlowPolicies, n \in SlowBlocks : slow = make_policy(name, n)
  /\ depth \in PrefetchDepths
  /\ successor = [k \in {} |-> NoKey]
  /\ request = <<>> /\ phase = "idle" /\ turn = 1 /\ block_hits = <<>>

----------------------------------------------------------------------------
(* Both tiers as one value, so that the loops can pass it on. *)

\* Mutant: on_evict is not set, what is evicted is gone.
AdmitFast_Drops(t, k) == [t EXCEPT !.fast = admit(@, k, 0).policy]

\* Admission to the fast tier; on_evict is admission to the slow one.
AdmitFast(t, k) ==
  LET outcome == admit(t.fast, k, 0)
  IN  [fast |-> outcome.policy,
       slow |-> IF outcome.victim = NoKey THEN t.slow
                ELSE admit(t.slow, outcome.victim, 0).policy]

\* Mutant: the block stays in the slow tier.
Promote_Copies(t, k) == AdmitFast(t, k)

\* Mutant: admitted before it is removed, so the victim may find no room.
Promote_AdmitsFirst(t, k) == [AdmitFast(t, k) EXCEPT !.slow = remove(@, k)]

Promote(t, k) == AdmitFast([t EXCEPT !.slow = remove(@, k)], k)

InStore(t, k) == contains(t.fast, k) \/ contains(t.slow, k)

Tiers == [fast |-> fast, slow |-> slow]
SetTiers(t) == fast' = t.fast /\ slow' = t.slow

\* One turn of the inner prefetch loop; w.cursor is NoKey once it broke off.
Hop(w) ==
  IF w.cursor \notin DOMAIN successor THEN [w EXCEPT !.cursor = NoKey]
  ELSE LET next == successor[w.cursor]
       IN  [tiers |-> IF contains(w.tiers.slow, next) THEN Promote(w.tiers, next)
                                                      ELSE w.tiers,
            cursor |-> next]

\* The chain of an anchor, budget turns long.
Walk(anchor) ==
  LET budget == Len(request) + depth
      walk[i \in 0..budget] ==
        IF i = 0 THEN [tiers |-> Tiers, cursor |-> anchor] ELSE Hop(walk[i - 1])
  IN  walk[budget].tiers

----------------------------------------------------------------------------
(* process_request *)

Requests == UNION {[1..n -> Key] : n \in 0..MaxBlocks}

NextTurn ==
  IF phase = "prefetch" /\ turn = Len(request)
    THEN phase' = "access" /\ turn' = 1
    ELSE turn' = turn + 1 /\ UNCHANGED phase

Arrive(hash_ids) ==
  /\ phase = "idle"
  /\ request' = hash_ids
  /\ phase' = IF depth = 0 \/ hash_ids = <<>> THEN "access" ELSE "prefetch"
  /\ turn' = 1
  /\ block_hits' = <<>>
  /\ UNCHANGED <<tiers, depth, successor>>

\* _prefetch_for_request, the turn of one anchor; one that is in no tier is
\* passed over.
PrefetchAnchor ==
  LET anchor == request[turn]
  IN  /\ phase = "prefetch"
      /\ IF InStore(Tiers, anchor) THEN SetTiers(Walk(anchor)) ELSE UNCHANGED tiers
      /\ NextTurn
      /\ UNCHANGED <<depth, successor, request, block_hits>>

\* The block of this turn and what is noted about it whatever tier it is in.
Accessing(k, found) ==
  /\ phase = "access" /\ turn <= Len(request) /\ k = request[turn]
  /\ block_hits' = Append(block_hits, found)
  /\ successor' = IF turn = 1 THEN successor
                  ELSE [j \in DOMAIN successor \cup {request[turn - 1]} |->
                          IF j = request[turn - 1] THEN k ELSE successor[j]]
  /\ NextTurn
  /\ UNCHANGED <<depth, request>>

FastHit(k) ==
  /\ contains(fast, k)
  /\ fast' = touch(fast, k)
  /\ Accessing(k, "fast")
  /\ UNCHANGED slow

SlowHit(k) ==
  /\ ~contains(fast, k) /\ contains(slow, k)
  /\ SetTiers(Promote(Tiers, k))
  /\ Accessing(k, "slow")

Miss(k) ==
  /\ ~InStore(Tiers, k)
  /\ SetTiers(AdmitFast(Tiers, k))
  /\ Accessing(k, "miss")

AccessBlock == \E k \in Key : FastHit(k) \/ SlowHit(k) \/ Miss(k)

\* The outcome is returned; what the call held is gone.
Return ==
  /\ phase = "access" /\ turn > Len(request)
  /\ phase' = "idle" /\ turn' = 1 /\ request' = <<>> /\ block_hits' = <<>>
  /\ UNCHANGED <<tiers, depth, successor>>

Next ==
  \/ \E hash_ids \in Requests : Arrive(hash_ids)
  \/ PrefetchAnchor \/ AccessBlock \/ Return

Spec == Init /\ [][Next]_vars

----------------------------------------------------------------------------
(* Properties *)

InTiers == Resident(fast) \cup Resident(slow)

\* Both policies stay within their capacities and keep their queues apart,
\* and no block is in both tiers: a promotion takes it out of the slow tier
\* and a demotion out of the fast one, also when the fast tier gives back the
\* block it has just been handed.
TiersSound ==
  /\ WellFormed(fast) /\ WellFormed(slow)
  /\ Resident(fast) \cap Resident(slow) = {}

\* What a step adds to the blocks held, and what it loses of them.
Conserved ==
  LET after == Resident(fast') \cup Resident(slow')
      missed == Len(block_hits') > Len(block_hits) /\ Last(block_hits') = "miss"
      lost == InTiers \ after
  IN  /\ after \ InTiers \subseteq IF missed THEN {request[turn]} ELSE {}
      /\ slow.name = "lru" => /\ missed => contains(fast', request[turn])
                                           \/ contains(slow', request[turn])
                              /\ lost # {} => /\ missed
                                              /\ Len(slow.store) = slow.capacity
                                              /\ lost = {Head(slow.store)}

\* A request brings in the blocks it misses and nothing else: prefetching and
\* promotion move blocks and neither add nor lose one.  A block is lost only
\* by a miss that finds the slow tier full, and then one block, the one kept
\* longest (for an LRU slow tier, as the framework configures it).
BlocksConserved == [][Conserved]_vars

PlainLru == fast.name = "lru" /\ slow.name = "lru" /\ depth = 0

Flat ==
  INSTANCE LruCache WITH
    capacity <- fast.capacity + slow.capacity,
    order <- IF PlainLru THEN slow.store \o fast.store ELSE <<>>,
    answers <- IF PlainLru
                 THEN [i \in DOMAIN block_hits |-> <<request[i], block_hits[i] # "miss">>]
                 ELSE <<>>

\* Two LRU tiers without prefetch answer every access as one LRU cache of
\* their joint capacity does: demotion and promotion keep the blocks of both
\* tiers in the order of their last use.
TwoTiersAreOneLru == Flat!Spec
==============================================================================
