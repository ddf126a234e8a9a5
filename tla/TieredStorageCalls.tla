------------------------- MODULE TieredStorageCalls -------------------------
(***************************************************************************)
(* TieredStorage seen from its callers: one call is one transaction under  *)
(* mu_, and history variables remember what was written and which block    *)
(* the running call has placed, so that properties can relate the end of   *)
(* an enforcement to the placement that started it.                        *)
(***************************************************************************)
EXTENDS TieredStorage

VARIABLES
  written,  \* history: content of the last accepted write of each key
  placed    \* history: the block the running call placed last, and its tier

history == <<written, placed>>
callVars == <<vars, history>>

CallInit ==
  /\ Init
  /\ written = [k \in Key |-> NoPayload]
  /\ placed = {}

CallStart ==
  \/ \E k \in Key, p \in Payload, t \in Tier, n \in Tenant :
       /\ Write(k, p, t, n)
       /\ written' = [written EXCEPT ![k] = p]
       /\ placed' = {<<k, ResolveConfiguredTier(t)>>}
  \/ \E k \in Key :
       ReadPromote(k) /\ placed' = {<<k, Fastest>>} /\ UNCHANGED written
  \/ \E keys \in KeyLists : Prefetch(keys) /\ UNCHANGED history
  \/ \E t \in Tier : EnforceCapacity(t) /\ UNCHANGED history

\* After a step under the lock: Prefetch places one block after the other.
NowPlaced ==
  IF op' = "idle" THEN {}
  ELSE IF op = "Prefetch" /\ frames = {} /\ frames' # {}
    THEN {<<Head(todo), Fastest>>}
  ELSE placed

\* Calls that are over in one step, and the steps under the lock.
CallStep ==
  /\ \/ \E p \in Payload, t \in Tier : WriteRejected(p, t)
     \/ \E k \in Key : ReadMiss(k) \/ ReadFast(k) \/ ReadSlowInPlace(k)
     \/ Locked
  /\ placed' = NowPlaced
  /\ UNCHANGED written

CallNext == CallStart \/ CallStep

CallSpec == CallInit /\ [][CallNext]_callVars

----------------------------------------------------------------------------
(* The store is a cache. *)

Cache == INSTANCE BlockCache WITH cached <- Resident, reply <- ret

\* Refinement: promotions, demotions, evictions and failed calls are the
\* puts, drops, hits and empty answers of BlockCache.
CacheSpec == Cache!Spec

\* The block of k, placed in tier t, can be held by the store: no quota
\* singles it out, and if S3-FIFO demotes it from the fastest tier, the next
\* one can hold it below its mark.
Safe(k, t) ==
  /\ ~QuotaEnabled
  /\ t = Fastest =>
       /\ NextSlowerConfigured(t) # NoTier
       /\ Size[written[k]] <= EvictionThresholdOf(NextSlowerConfigured(t))

\* The enforcement that a write, a promotion or a prefetched block triggers
\* does not remove that block: it may be demoted, but when the cascade is
\* over it is in some tier.
PlacedKept ==
  frames = {} => \A x \in placed : Safe(x[1], x[2]) => x[1] \in Resident

\* A Read that promotes its block returns it although it has to look it up
\* again: the kInternal of Read is not reached.
HitServed ==
  [][op = "Read" /\ op' = "idle" /\ (\A x \in placed : Safe(x[1], x[2]))
       => ret'.status = "Ok"]_callVars

\* No call loses the block it has just placed, if the next tier can hold it.
\* (A Prefetch of several keys may: the demotions that one of them causes can
\* push out another.)
CallsKeepBlocks == []PlacedKept /\ HitServed
=============================================================================
