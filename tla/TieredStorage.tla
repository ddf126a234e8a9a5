--------------------------- MODULE TieredStorage ---------------------------
(***************************************************************************)
(* The tiered block store of src/storage/tiered_storage_manager.{h,cpp}:   *)
(* HBM, DRAM and NVMe, an S3-FIFO policy on the fastest configured tier,   *)
(* LRU on the slower ones, optional tenant quotas, demotion on eviction    *)
(* and promotion on a slow hit.                                            *)
(*                                                                         *)
(* Every public method holds mu_ from its first line to its return.  The   *)
(* model keeps that: `op' is the call that holds the lock, and no call     *)
(* starts before it returns.  Under the lock the loops and the recursion   *)
(* of EnforceCapacityLocked are steps of their own, so an invariant of the *)
(* model holds in the middle of an eviction cascade too.                   *)
(***************************************************************************)
EXTENDS Integers, Sequences, FiniteSets, FiniteSetsExt

CONSTANTS
  Key,            \* block keys
  Payload,        \* block contents
  NoPayload,      \* "no block", an optional that is empty
  Size,           \* BlockSizeBytes of each payload
  MaxSize,        \* a bound on the sizes of payloads
  Configured,     \* the tiers of TierConfig that have a capacity
  Capacity,       \* capacity in bytes of each tier
  RatioNum,       \* high_water_ratio = RatioNum / RatioDen
  RatioDen,
  Tenant,         \* tenant identifiers (numbers: the map is ordered)
  Weighted,       \* the tenants TierConfig::tenant_weights lists
  Weight,         \* their weights
  GhostCapacity,  \* kGhostCapacity
  MaxClock,       \* bound: no call that ticks the clock starts at or after it
  MaxPredicted    \* bound: longest key list given to Prefetch

\* Numbers order the tiers from fast to slow: kHBM = 0, kDRAM = 1, kNVMe = 2.
Tier == 0..2

\* The empty optional<Tier>.
NoTier == 3

ASSUME KeyAssumption == IsFiniteSet(Key)
ASSUME PayloadAssumption ==
  /\ NoPayload \notin Payload
  /\ MaxSize \in Nat
  /\ Size \in [Payload -> 0..MaxSize]
ASSUME TierAssumption ==
  /\ Configured \subseteq Tier
  /\ Capacity \in [Tier -> Nat]
  /\ RatioNum \in Nat
  /\ RatioDen \in Nat \ {0}
ASSUME TenantAssumption ==
  /\ Tenant \subseteq Nat
  /\ Weighted \subseteq Tenant /\ IsFiniteSet(Weighted)
  /\ Weight \in [Tenant -> Nat]
ASSUME BoundAssumption ==
  GhostCapacity \in Nat /\ MaxClock \in Nat /\ MaxPredicted \in Nat

VARIABLES
  blocks,       \* blocks_: key -> stored block, NoBlock when absent
  clock,        \* logical_clock_
  used,         \* used_bytes_
  smallFifo,    \* s3_small_fifo_
  mainFifo,     \* s3_main_fifo_
  smallUsed,    \* s3_small_used_bytes_
  victimIndex,  \* victim_index_: tier -> set of <<last_access_ts, key>>
  ghost,        \* ghost_
  ghostFifo,    \* ghost_fifo_
  tenantUsed,   \* tenant_used_
  tenantIndex,  \* tenant_victim_index_
  op,           \* the call that holds mu_, "idle" when nobody does
  todo,         \* the keys that call still has to serve
  frames,       \* the tiers with an active EnforceCapacityLocked call
  ret           \* what the last call returned

store == <<blocks, used, victimIndex, smallUsed, tenantUsed, tenantIndex>>
queues == <<smallFifo, mainFifo, ghost, ghostFifo>>
control == <<op, todo, frames, ret>>
vars == <<store, queues, clock, control>>

----------------------------------------------------------------------------
(* Configuration *)

CapacityOf(t) == IF t \in Configured THEN Capacity[t] ELSE 0

\* The double of the code, truncated: floor(min(capacity, capacity * ratio)).
EvictionThresholdOf(t) ==
  LET highWater == (CapacityOf(t) * RatioNum) \div RatioDen
  IN  IF highWater < CapacityOf(t) THEN highWater ELSE CapacityOf(t)

NextSlowerConfigured(t) ==
  LET slower == {u \in Configured : u > t}
  IN  IF slower = {} THEN NoTier ELSE Min(slower)

\* The target itself, else the nearest faster tier, else the nearest slower.
ResolveConfiguredTier(target) ==
  LET faster == {u \in Configured : u < target}
  IN  IF target \in Configured THEN target
      ELSE IF faster # {} THEN Max(faster)
      ELSE NextSlowerConfigured(target)

Fastest == ResolveConfiguredTier(0)

SmallBudget == CapacityOf(Fastest) \div 10

QuotaEnabled == Weighted # {}

----------------------------------------------------------------------------
(* Stored blocks and the books kept about them *)

StoredBlock ==
  [payload : Payload, tier : Configured, tenant : Tenant, count : Nat, ts : Nat,
   freq : 0..3, inMain : BOOLEAN]

NoBlock ==
  [payload |-> NoPayload, tier |-> NoTier, tenant |-> 0, count |-> 0,
   ts |-> 0, freq |-> 0, inMain |-> FALSE]

Resident == {k \in Key : blocks[k].tier # NoTier}

\* Bytes a block record charges to tier t.
Charge(b, t) == IF b.tier = t THEN Size[b.payload] ELSE 0

\* Bytes it charges to the small queue of the fastest tier.
SmallCharge(b) ==
  IF b.tier # NoTier /\ ~b.inMain THEN Charge(b, Fastest) ELSE 0

\* The books after the record of key k is replaced by b: RemoveLocked of the
\* old record, then the insertion of the new one (nothing when b = NoBlock).
UsedAfter(k, b) ==
  [t \in Tier |-> used[t] - Charge(blocks[k], t) + Charge(b, t)]

SmallUsedAfter(k, b) == smallUsed - SmallCharge(blocks[k]) + SmallCharge(b)

\* Mutant: the old entry stays in the index.
IndexAfter_NoErase(k, b) ==
  [t \in Tier |->
     victimIndex[t]
     \cup (IF b.tier = t /\ t # Fastest THEN {<<b.ts, k>>} ELSE {})]

\* IndexEraseLocked and IndexInsertLocked: only slower tiers are indexed.
IndexAfter(k, b) ==
  [t \in Tier |->
     (IF blocks[k].tier = t /\ t # Fastest
        THEN victimIndex[t] \ {<<blocks[k].ts, k>>} ELSE victimIndex[t])
     \cup (IF b.tier = t /\ t # Fastest THEN {<<b.ts, k>>} ELSE {})]

\* AccountEraseLocked subtracts at most what is there; an entry at zero is
\* erased, which a total function shows as 0.
AccountUsedAfter(k, b) ==
  [t \in Tier |-> [n \in Tenant |->
     LET old == IF blocks[k].tenant = n THEN Charge(blocks[k], t) ELSE 0
         new == IF b.tenant = n THEN Charge(b, t) ELSE 0
         left == IF old > tenantUsed[t][n] THEN 0 ELSE tenantUsed[t][n] - old
     IN  left + new]]

AccountIndexAfter(k, b) ==
  [t \in Tier |-> [n \in Tenant |->
     (IF blocks[k].tier = t /\ blocks[k].tenant = n
        THEN tenantIndex[t][n] \ {<<blocks[k].ts, k>>} ELSE tenantIndex[t][n])
     \cup (IF b.tier = t /\ b.tenant = n THEN {<<b.ts, k>>} ELSE {})]]

Resettle(k, b) ==
  /\ blocks' = [blocks EXCEPT ![k] = b]
  /\ used' = UsedAfter(k, b)
  /\ smallUsed' = SmallUsedAfter(k, b)
  /\ victimIndex' = IndexAfter(k, b)
  /\ IF QuotaEnabled
       THEN /\ tenantUsed' = AccountUsedAfter(k, b)
            /\ tenantIndex' = AccountIndexAfter(k, b)
       ELSE UNCHANGED <<tenantUsed, tenantIndex>>

----------------------------------------------------------------------------
(* Victim selection *)

\* The sum of the weights, one element per unit.
TotalWeight == Cardinality(UNION {{n} \X (1..Weight[n]) : n \in Weighted})

\* used - share of the tenant, times the total weight so that it is integral.
Overage(t, n) ==
  IF TotalWeight = 0 THEN tenantUsed[t][n]
  ELSE tenantUsed[t][n] * TotalWeight
         - (IF n \in Weighted THEN CapacityOf(t) * Weight[n] ELSE 0)

\* Mutant: the tenant that uses most, whatever its share.
WorstTenants_MostUsed(t) ==
  {n \in Tenant :
     /\ tenantIndex[t][n] # {}
     /\ \A m \in Tenant : tenantUsed[t][m] <= tenantUsed[t][n]}

\* Tenants the quota scan may stop at: over their share, by the most, the
\* lowest identifier among equals (the scan keeps a strictly greater one).
WorstTenants(t) ==
  {n \in Tenant :
     /\ tenantIndex[t][n] # {}
     /\ Overage(t, n) > 0
     /\ \A m \in Tenant :
          tenantIndex[t][m] # {} =>
            \/ Overage(t, m) < Overage(t, n)
            \/ Overage(t, m) = Overage(t, n) /\ n <= m}

Oldest(index) == {e \in index : \A f \in index : e[1] <= f[1]}

\* PickQuotaVictimLocked: the least recent block of the worst tenant.
QuotaVictims(t) ==
  IF QuotaEnabled
    THEN {e[2] : e \in UNION {Oldest(tenantIndex[t][n]) : n \in WorstTenants(t)}}
    ELSE {}

\* PickVictimLocked: the least recent block of a slower tier.
LruVictims(t) == {e[2] : e \in Oldest(victimIndex[t])}

FromSmall ==
  \/ smallUsed > SmallBudget /\ smallFifo # <<>>
  \/ mainFifo = <<>>

\* Mutant: the main queue is not asked when the small one is empty.
NoVictim_SmallOnly(t) ==
  /\ QuotaVictims(t) = {}
  /\ IF t = Fastest THEN smallFifo = <<>> ELSE victimIndex[t] = {}

NoVictim(t) ==
  /\ QuotaVictims(t) = {}
  /\ IF t = Fastest THEN smallFifo = <<>> /\ mainFifo = <<>>
                    ELSE victimIndex[t] = {}

----------------------------------------------------------------------------
(* Calls, and the lock *)

Call(name, keys, tiers) ==
  /\ op' = name
  /\ todo' = keys
  /\ frames' = tiers
  /\ UNCHANGED ret

Return(status, payload) ==
  /\ op' = "idle"
  /\ todo' = <<>>
  /\ frames' = {}
  /\ ret' = [status |-> status, payload |-> payload]

\* Mutant: overwriting a resident block keeps its old content.
PlaceLocked_KeepsOld(k, p, t, n) ==
  LET count == IF blocks[k].count = 0 /\ k \in ghost THEN 2
                                                   ELSE blocks[k].count + 1
      main == t = Fastest /\ count > 1
      kept == IF k \in Resident THEN blocks[k].payload ELSE p
  IN  /\ Resettle(k, [payload |-> kept, tier |-> t, tenant |-> n,
                      count |-> count, ts |-> clock + 1, freq |-> 0,
                      inMain |-> main])
      /\ clock' = clock + 1
      /\ ghost' = ghost \ {k}
      /\ mainFifo' = IF main THEN Append(mainFifo, k) ELSE mainFifo
      /\ smallFifo' = IF t = Fastest /\ ~main THEN Append(smallFifo, k)
                                              ELSE smallFifo
      /\ UNCHANGED ghostFifo

\* PlaceLocked past its size check, up to its EnforceCapacityLocked(t).
PlaceLocked(k, p, t, n) ==
  LET warm == k \in ghost
      seen == blocks[k].count + 1
      count == IF seen = 1 /\ warm THEN 2 ELSE seen
      main == t = Fastest /\ (warm \/ count > 1)
  IN  /\ Resettle(k, [payload |-> p, tier |-> t, tenant |-> n,
                      count |-> count, ts |-> clock + 1, freq |-> 0,
                      inMain |-> main])
      /\ clock' = clock + 1
      /\ ghost' = ghost \ {k}
      /\ mainFifo' = IF main THEN Append(mainFifo, k) ELSE mainFifo
      /\ smallFifo' = IF t = Fastest /\ ~main THEN Append(smallFifo, k)
                                              ELSE smallFifo
      /\ UNCHANGED ghostFifo

Write(k, p, target, n) ==
  LET t == ResolveConfiguredTier(target)
  IN  /\ op = "idle"
      /\ clock < MaxClock
      /\ t # NoTier
      /\ Size[p] <= EvictionThresholdOf(t)
      /\ PlaceLocked(k, p, t, n)
      /\ Call("Write", <<>>, {t})

\* A rejected write changes nothing: an older block of the key stays.
WriteRejected(p, target) ==
  LET t == ResolveConfiguredTier(target)
  IN  /\ op = "idle"
      /\ t = NoTier \/ Size[p] > EvictionThresholdOf(t)
      /\ Return(IF t = NoTier THEN "InvalidArgument" ELSE "OutOfCapacity",
                NoPayload)
      /\ UNCHANGED <<store, queues, clock>>

ReadMiss(k) ==
  /\ op = "idle"
  /\ k \notin Resident
  /\ Return("NotFound", NoPayload)
  /\ UNCHANGED <<store, queues, clock>>

Touched(b) == [b EXCEPT !.count = @ + 1, !.ts = clock + 1]

\* Hit in the fastest tier: frequency (at most 3), count and recency.
ReadFast(k) ==
  LET b == blocks[k]
  IN  /\ op = "idle"
      /\ clock < MaxClock
      /\ k \in Resident /\ b.tier = Fastest
      /\ Resettle(k, [Touched(b) EXCEPT !.freq = IF @ < 3 THEN @ + 1 ELSE 3])
      /\ clock' = clock + 1
      /\ Return("Ok", b.payload)
      /\ UNCHANGED queues

\* Slow hit on a block the fastest tier cannot hold: touched where it is.
ReadSlowInPlace(k) ==
  LET b == blocks[k]
  IN  /\ op = "idle"
      /\ clock < MaxClock
      /\ k \in Resident /\ b.tier # Fastest
      /\ Size[b.payload] > EvictionThresholdOf(Fastest)
      /\ Resettle(k, Touched(b))
      /\ clock' = clock + 1
      /\ Return("Ok", b.payload)
      /\ UNCHANGED queues

\* Slow hit that promotes: into the main queue of the fastest tier, which is
\* then enforced; FinishRead looks the block up again.
ReadPromote(k) ==
  LET b == blocks[k]
  IN  /\ op = "idle"
      /\ clock < MaxClock
      /\ k \in Resident /\ b.tier # Fastest
      /\ Size[b.payload] <= EvictionThresholdOf(Fastest)
      /\ Resettle(k, [Touched(b) EXCEPT !.tier = Fastest, !.freq = 0,
                                        !.inMain = TRUE])
      /\ clock' = clock + 1
      /\ mainFifo' = Append(mainFifo, k)
      /\ Call("Read", <<k>>, {Fastest})
      /\ UNCHANGED <<smallFifo, ghost, ghostFifo>>

\* Mutant: the promoted block is looked for in the fastest tier only.
FinishRead_FastestOnly ==
  /\ op = "Read" /\ frames = {}
  /\ IF blocks[Head(todo)].tier = Fastest
       THEN Return("Ok", blocks[Head(todo)].payload)
       ELSE Return("InternalEvicted", NoPayload)
  /\ UNCHANGED <<store, queues, clock>>

FinishRead ==
  /\ op = "Read" /\ frames = {}
  /\ IF Head(todo) \in Resident
       THEN Return("Ok", blocks[Head(todo)].payload)
       ELSE Return("InternalEvicted", NoPayload)
  /\ UNCHANGED <<store, queues, clock>>

Prefetch(keys) ==
  /\ op = "idle"
  /\ clock < MaxClock
  /\ Call("Prefetch", IF Fastest = NoTier THEN <<>> ELSE keys, {})
  /\ UNCHANGED <<store, queues, clock>>

Prefetchable(k) ==
  /\ k \in Resident
  /\ blocks[k].tier # Fastest
  /\ Size[blocks[k].payload] <= EvictionThresholdOf(Fastest)

PrefetchSkip ==
  /\ op = "Prefetch" /\ frames = {} /\ todo # <<>>
  /\ ~Prefetchable(Head(todo))
  /\ todo' = Tail(todo)
  /\ UNCHANGED <<store, queues, clock, op, frames, ret>>

PrefetchPlace ==
  LET k == Head(todo)
  IN  /\ op = "Prefetch" /\ frames = {} /\ todo # <<>>
      /\ Prefetchable(k)
      /\ PlaceLocked(k, blocks[k].payload, Fastest, blocks[k].tenant)
      /\ Call("Prefetch", Tail(todo), {Fastest})

EnforceCapacity(t) ==
  /\ op = "idle"
  /\ Call("EnforceCapacity", <<>>, {t})
  /\ UNCHANGED <<store, queues, clock>>

\* Write, EnforceCapacity and Prefetch return what enforcement returned.
FinishCall ==
  /\ op \in {"Write", "EnforceCapacity", "Prefetch"}
  /\ frames = {} /\ todo = <<>>
  /\ Return(IF op = "Prefetch" /\ Fastest = NoTier THEN "InvalidArgument"
                                                   ELSE "Ok", NoPayload)
  /\ UNCHANGED <<store, queues, clock>>

----------------------------------------------------------------------------
(* EnforceCapacityLocked *)

\* The innermost activation: recursion goes to ever slower tiers.
Innermost(t) == t \in frames /\ \A u \in frames : u <= t

\* Its loop condition, with the victim still to be picked.
Evicting(t) == Innermost(t) /\ used[t] > EvictionThresholdOf(t)

\* Mutant: the slower tier is not enforced after the demotion.
Evict_NoCascade(v, t) ==
  LET slower == NextSlowerConfigured(t)
      demoted == [blocks[v] EXCEPT !.tier = slower, !.ts = clock + 1,
                                   !.freq = 0, !.inMain = FALSE]
      fits == slower # NoTier /\ Size[blocks[v].payload] <= CapacityOf(slower)
  IN  /\ Resettle(v, IF fits THEN demoted ELSE NoBlock)
      /\ clock' = IF slower = NoTier THEN clock ELSE clock + 1
      /\ UNCHANGED <<op, todo, ret, frames>>

\* One turn of the loop for victim v: removed, and demoted if a slower tier
\* is configured and could hold it when empty.  The clock ticks either way.
Evict(v, t) ==
  LET slower == NextSlowerConfigured(t)
      demoted == [blocks[v] EXCEPT !.tier = slower, !.ts = clock + 1,
                                   !.freq = 0, !.inMain = FALSE]
      fits == slower # NoTier /\ Size[blocks[v].payload] <= CapacityOf(slower)
  IN  /\ Resettle(v, IF fits THEN demoted ELSE NoBlock)
      /\ clock' = IF slower = NoTier THEN clock ELSE clock + 1
      /\ frames' = IF fits THEN frames \cup {slower} ELSE frames
      /\ UNCHANGED <<op, todo, ret>>

EvictQuota(t) ==
  /\ Evicting(t)
  /\ \E v \in QuotaVictims(t) : Evict(v, t)
  /\ UNCHANGED queues

EvictLru(t) ==
  /\ Evicting(t)
  /\ t # Fastest /\ QuotaVictims(t) = {}
  /\ \E v \in LruVictims(t) : Evict(v, t)
  /\ UNCHANGED queues

\* PickS3VictimLocked, one turn of its loop per action.
PickingSmall ==
  /\ Evicting(Fastest) /\ QuotaVictims(Fastest) = {}
  /\ FromSmall /\ smallFifo # <<>>

PickingMain ==
  /\ Evicting(Fastest) /\ QuotaVictims(Fastest) = {}
  /\ ~FromSmall

InSmall(k) == k \in Resident /\ blocks[k].tier = Fastest /\ ~blocks[k].inMain
InMain(k) == k \in Resident /\ blocks[k].tier = Fastest /\ blocks[k].inMain

\* An entry whose block has left that queue is dropped when it is popped.
S3SmallStale ==
  /\ PickingSmall /\ ~InSmall(Head(smallFifo))
  /\ smallFifo' = Tail(smallFifo)
  /\ UNCHANGED <<store, mainFifo, ghost, ghostFifo, clock, control>>

\* Mutant: the promoted block keeps its bytes in the small queue's counter.
S3SmallToMain_KeepsBytes ==
  LET k == Head(smallFifo)
  IN  /\ PickingSmall /\ InSmall(k) /\ blocks[k].freq > 0
      /\ blocks' = [blocks EXCEPT ![k] = [@ EXCEPT !.inMain = TRUE, !.freq = 0]]
      /\ smallFifo' = Tail(smallFifo)
      /\ mainFifo' = Append(mainFifo, k)
      /\ UNCHANGED <<used, smallUsed, victimIndex, tenantUsed, tenantIndex,
                     ghost, ghostFifo, clock, control>>

\* Mutant: the promoted block is not queued in the main queue.
S3SmallToMain_NotQueued ==
  LET k == Head(smallFifo)
  IN  /\ PickingSmall /\ InSmall(k) /\ blocks[k].freq > 0
      /\ blocks' = [blocks EXCEPT ![k] = [@ EXCEPT !.inMain = TRUE, !.freq = 0]]
      /\ smallUsed' = smallUsed - Size[blocks[k].payload]
      /\ smallFifo' = Tail(smallFifo)
      /\ UNCHANGED <<used, mainFifo, victimIndex, tenantUsed, tenantIndex,
                     ghost, ghostFifo, clock, control>>

S3SmallToMain ==
  LET k == Head(smallFifo)
  IN  /\ PickingSmall /\ InSmall(k) /\ blocks[k].freq > 0
      /\ blocks' = [blocks EXCEPT ![k] = [@ EXCEPT !.inMain = TRUE, !.freq = 0]]
      /\ smallUsed' = smallUsed - Size[blocks[k].payload]
      /\ smallFifo' = Tail(smallFifo)
      /\ mainFifo' = Append(mainFifo, k)
      /\ UNCHANGED <<used, victimIndex, tenantUsed, tenantIndex, ghost,
                     ghostFifo, clock, control>>

\* GhostInsertLocked: a key already in the set is not queued again.
GhostInsertLocked(k) ==
  LET longer == Append(ghostFifo, k)
      full == Len(longer) > GhostCapacity
  IN  IF k \in ghost THEN UNCHANGED <<ghost, ghostFifo>>
      ELSE /\ ghost' = (ghost \cup {k}) \ (IF full THEN {Head(longer)} ELSE {})
           /\ ghostFifo' = IF full THEN Tail(longer) ELSE longer

S3SmallEvict ==
  LET k == Head(smallFifo)
  IN  /\ PickingSmall /\ InSmall(k) /\ blocks[k].freq = 0
      /\ GhostInsertLocked(k)
      /\ Evict(k, Fastest)
      /\ smallFifo' = Tail(smallFifo)
      /\ UNCHANGED mainFifo

S3MainStale ==
  /\ PickingMain /\ ~InMain(Head(mainFifo))
  /\ mainFifo' = Tail(mainFifo)
  /\ UNCHANGED <<store, smallFifo, ghost, ghostFifo, clock, control>>

\* Mutant: the second chance does not cost a frequency.
S3MainSecondChance_Free ==
  LET k == Head(mainFifo)
  IN  /\ PickingMain /\ InMain(k) /\ blocks[k].freq > 0
      /\ mainFifo' = Append(Tail(mainFifo), k)
      /\ UNCHANGED <<store, smallFifo, ghost, ghostFifo, clock, control>>

S3MainSecondChance ==
  LET k == Head(mainFifo)
  IN  /\ PickingMain /\ InMain(k) /\ blocks[k].freq > 0
      /\ blocks' = [blocks EXCEPT ![k] = [blocks[k] EXCEPT !.freq = @ - 1]]
      /\ mainFifo' = Append(Tail(mainFifo), k)
      /\ UNCHANGED <<used, victimIndex, smallUsed, tenantUsed, tenantIndex,
                     smallFifo, ghost, ghostFifo, clock, control>>

S3MainEvict ==
  LET k == Head(mainFifo)
  IN  /\ PickingMain /\ InMain(k) /\ blocks[k].freq = 0
      /\ Evict(k, Fastest)
      /\ mainFifo' = Tail(mainFifo)
      /\ UNCHANGED <<smallFifo, ghost, ghostFifo>>

\* The loop ends at the threshold, or the call fails for want of a victim.
LeaveEnforce(t) ==
  /\ Innermost(t)
  /\ used[t] <= EvictionThresholdOf(t) \/ NoVictim(t)
  /\ IF used[t] <= EvictionThresholdOf(t)
       THEN frames' = frames \ {t} /\ UNCHANGED <<op, todo, ret>>
       ELSE Return("InternalNoVictim", NoPayload)
  /\ UNCHANGED <<store, queues, clock>>

----------------------------------------------------------------------------
Init ==
  /\ blocks = [k \in Key |-> NoBlock]
  /\ clock = 0
  /\ used = [t \in Tier |-> 0]
  /\ smallFifo = <<>> /\ mainFifo = <<>> /\ smallUsed = 0
  /\ victimIndex = [t \in Tier |-> {}]
  /\ ghost = {} /\ ghostFifo = <<>>
  /\ tenantUsed = [t \in Tier |-> [n \in Tenant |-> 0]]
  /\ tenantIndex = [t \in Tier |-> [n \in Tenant |-> {}]]
  /\ op = "idle" /\ todo = <<>> /\ frames = {}
  /\ ret = [status |-> "Ok", payload |-> NoPayload]

\* Key lists a caller may hand to Prefetch.
KeyLists == UNION {[1..n -> Key] : n \in 0..MaxPredicted}

Start ==
  \/ \E k \in Key, p \in Payload, t \in Tier, n \in Tenant : Write(k, p, t, n)
  \/ \E p \in Payload, t \in Tier : WriteRejected(p, t)
  \/ \E k \in Key : ReadMiss(k) \/ ReadFast(k) \/ ReadSlowInPlace(k)
                      \/ ReadPromote(k)
  \/ \E keys \in KeyLists : Prefetch(keys)
  \/ \E t \in Tier : EnforceCapacity(t)

\* Steps of the thread that holds mu_.
Locked ==
  \/ FinishRead \/ FinishCall \/ PrefetchSkip \/ PrefetchPlace
  \/ \E t \in Tier : EvictQuota(t) \/ EvictLru(t) \/ LeaveEnforce(t)
  \/ S3SmallStale \/ S3SmallToMain \/ S3SmallEvict
  \/ S3MainStale \/ S3MainSecondChance \/ S3MainEvict

Next == Start \/ Locked

Spec == Init /\ [][Next]_vars

----------------------------------------------------------------------------
(* Properties *)

Status == {"Ok", "NotFound", "OutOfCapacity", "InvalidArgument",
           "InternalNoVictim", "InternalEvicted"}

\* Types of the block map and of the books about it.  No byte counter is
\* driven below zero, where the size_t of used_bytes_ would wrap.
StoreType ==
  /\ blocks \in [Key -> StoredBlock \cup {NoBlock}]
  /\ used \in [Tier -> Nat]
  /\ smallUsed \in Nat
  /\ victimIndex \in [Tier -> SUBSET (Nat \X Key)]
  /\ tenantUsed \in [Tier -> [Tenant -> Nat]]
  /\ tenantIndex \in [Tier -> [Tenant -> SUBSET (Nat \X Key)]]

QueueType ==
  /\ smallFifo \in Seq(Key) /\ mainFifo \in Seq(Key)
  /\ ghost \in SUBSET Key /\ ghostFifo \in Seq(Key)
  /\ clock \in Nat

ControlType ==
  /\ op \in {"idle", "Write", "Read", "Prefetch", "EnforceCapacity"}
  /\ todo \in Seq(Key)
  /\ frames \in SUBSET Tier
  /\ op = "idle" => frames = {}
  /\ op = "Read" => todo # <<>>
  /\ ret \in [status : Status, payload : Payload \cup {NoPayload}]

\* The state is well formed: stored blocks are in configured tiers, counters
\* are not negative, nothing is being enforced while the lock is free.
TypeOK == StoreType /\ QueueType /\ ControlType

\* Requirement 2.4: once enforcement of a tier has returned, and so whenever
\* the lock is free, the tier holds no more than its high-water mark.  Only
\* tiers whose EnforceCapacityLocked is still running may exceed it.
CapacityBound == \A t \in Tier \ frames : used[t] <= EvictionThresholdOf(t)

\* The bytes that the keys of S have in block map B, one element per byte.
ByteSet(B, S) ==
  {u \in Key \X (1..MaxSize) : u[1] \in S /\ u[2] <= Size[B[u[1]].payload]}

Bytes(S) == Cardinality(ByteSet(blocks, S))

\* used_bytes_, s3_small_used_bytes_ and tenant_used_ agree with the blocks
\* themselves at every step, through writes over an old placement, queue
\* changes, demotions and promotions.
ByteAccounting ==
  /\ \A t \in Tier : used[t] = Bytes({k \in Key : blocks[k].tier = t})
  /\ smallUsed = Bytes({k \in Key : InSmall(k)})
  /\ QuotaEnabled =>
       \A t \in Tier, n \in Tenant :
         tenantUsed[t][n] =
           Bytes({k \in Key : blocks[k].tier = t /\ blocks[k].tenant = n})

\* The index holds exactly the blocks of S, under their current recency.
Indexes(index, S) ==
  /\ \A e \in index : e[2] \in S /\ e = <<blocks[e[2]].ts, e[2]>>
  /\ \A k \in S : <<blocks[k].ts, k>> \in index

\* victim_index_ and tenant_victim_index_ hold exactly the blocks of their
\* tier (and tenant): every change of a recency, a tier or a tenant erases
\* the entry under the old order before it inserts the new one.  The fastest
\* tier has queues instead of an index.
IndexSync ==
  /\ \A t \in Tier :
       Indexes(victimIndex[t], {k \in Key : t # Fastest /\ blocks[k].tier = t})
  /\ QuotaEnabled =>
       \A t \in Tier, n \in Tenant :
         Indexes(tenantIndex[t][n],
                 {k \in Key : blocks[k].tier = t /\ blocks[k].tenant = n})

Elements(s) == {s[i] : i \in DOMAIN s}

\* Lazy invalidation of the S3-FIFO queues never loses a block: each block of
\* the fastest tier still has an entry in the queue it belongs to, however
\* often it left and came back.  Without it the block could not be evicted.
QueueCoverage ==
  \A k \in Key : /\ InSmall(k) => k \in Elements(smallFifo)
                 /\ InMain(k) => k \in Elements(mainFifo)

\* Recency orders the blocks totally, so a victim is never picked by the
\* order of keys: each ++logical_clock_ stamps one block only.
RecencyUnique ==
  /\ \A k \in Resident : blocks[k].ts <= clock
  /\ \A j, k \in Resident : blocks[j].ts = blocks[k].ts => j = k

\* The ghost set is what is left of the ghost FIFO, which stays within
\* kGhostCapacity although consumed keys remain queued.
GhostBounded ==
  ghost \subseteq Elements(ghostFifo) /\ Len(ghostFifo) <= GhostCapacity

\* The true use of tier t by tenant n is beyond its share.
OverShare(t, n) ==
  LET bytes == Bytes({k \in Key : blocks[k].tier = t /\ blocks[k].tenant = n})
  IN  IF TotalWeight = 0 THEN bytes > 0
      ELSE bytes * TotalWeight >
             (IF n \in Weighted THEN CapacityOf(t) * Weight[n] ELSE 0)

\* Quotas protect: enforcement evicts a block of a tenant within its share
\* only when no tenant exceeds its share of that tier, counting the blocks
\* themselves and not the books the code keeps.
QuotaFirst ==
  [][\A k \in Resident :
       LET t == blocks[k].tier IN
       op # "idle" /\ QuotaEnabled /\ blocks'[k].tier > t
         => \/ OverShare(t, blocks[k].tenant)
            \/ \A n \in Tenant : ~OverShare(t, n)]_vars

\* The blocks that a tier accepts all have one size, as the KV blocks of one
\* model have, and every tier has room for one.
OneSize ==
  \E z \in 0..MaxSize :
    /\ \A t \in Configured : z <= CapacityOf(t)
    /\ \A p \in Payload, t \in Configured :
         Size[p] <= EvictionThresholdOf(t) => Size[p] = z

\* A step of anything but a Write keeps every block, if they have one size.
KeepsBlocks ==
  OneSize /\ op # "Write" /\ op' # "Write" => Resident \subseteq Resident'

\* Only a Write pushes blocks out: with blocks of one size, the promotion of
\* a Read or Prefetch leaves a hole in a slower tier, and the cascade of
\* demotions it starts ends there at the latest.
ReadsKeepBlocks == [][KeepsBlocks]_vars

\* Enforcement never reports "over capacity but nothing to evict".
VictimFound == ret.status # "InternalNoVictim"

\* The books of the replacement policy are sound.
QueuesSound == QueueCoverage /\ RecencyUnique /\ GhostBounded

\* What a call still has to work off, besides its key list and the queues:
\* demotions its blocks can suffer, second chances they have left.
Demotions == {u \in Key \X Tier : blocks[u[1]].tier <= u[2]}
Chances == {u \in Key \X (1..3) : u[2] <= blocks[u[1]].freq}

Fewer(S, T) == S \subseteq T /\ S # T

\* A step under mu_ shortens the key list; else moves a block further down;
\* else uses up a second chance; else drops a queue entry; else leaves a tier.
Advance ==
  \/ Len(todo') < Len(todo)
  \/ /\ todo' = todo
     /\ \/ Fewer(Demotions', Demotions)
        \/ /\ Demotions' = Demotions
           /\ \/ Fewer(Chances', Chances)
              \/ /\ Chances' = Chances
                 /\ \/ Len(smallFifo') + Len(mainFifo') < Len(smallFifo) + Len(mainFifo)
                    \/ /\ smallFifo' = smallFifo /\ mainFifo' = mainFifo
                       /\ Fewer(frames', frames)

\* Every call returns: no step under mu_, a turn of the S3-FIFO loop or of
\* the eviction cascade, goes round in circles.
CallsAdvance == [][op # "idle" /\ op' # "idle" => Advance]_vars

=============================================================================
